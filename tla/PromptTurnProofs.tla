-------------------------- MODULE PromptTurnProofs --------------------------
(***************************************************************************)
(* Proofs about PromptTurn for any sets of requests and sessions, any mix  *)
(* of methods, any number of cancellations and either kind of client.      *)
(***************************************************************************)
EXTENDS PromptTurn, TLAPS

(* Where a handler is tells what its request has: a context, an answer, a  *)
(* session.                                                                *)

Open == Active \cup {"unsent", "failedCtx"}
HasContext ==
  {"emit", "emitting", "exec", "reply", "replying", "final", "failed", "failedCtx",
    "unwind"}

\* The life of the request r.
Life(r) ==
  /\ pc[r] \in Open <=> outcome[r] = "open"
  /\ pc[r] \notin {"unsent", "start"} /\ outcome[r] # "rejected" => sid[r] \in sessions
  /\ promptCtx[r] # "none" => pc[r] \in HasContext \cup {"respond", "done"}
  /\ pc[r] \in HasContext => promptCtx[r] # "none"
  /\ pc[r] \in InTurn \/ promptCtx[r] # "none" => op[r] = "prompt"
  /\ pc[r] = "clear" => op[r] \in {"new", "load"}
  /\ outcome[r] = "created" => op[r] = "new"

Lifecycle == \A r \in Request : Life(r)

Base == TypeOK /\ Lifecycle

\* The types and the life of a request, at the start.
LEMMA BaseInit == Init => Base
  BY TurnAssumption DEF Init, Base, TypeOK, Lifecycle, Life, Points, Active, InTurn, Open,
     HasContext, Outcome, CtxErr

\* Every step keeps the types.
LEMMA TypeStep == Base /\ [Next]_vars => TypeOK'
<1> SUFFICES ASSUME Base, [Next]_vars PROVE TypeOK'
  OBVIOUS
<1>1. ASSUME NEW r \in Request, NEW m \in Method, NEW s \in Session \cup {None},
             ReadRequest(r, m, s) PROVE TypeOK'
  BY <1>1, TurnAssumption DEF ReadRequest, Base, TypeOK, cancelVars, Points, Active
<1>2. ASSUME NEW s \in Session, CancelSession(s) PROVE TypeOK'
  <2>1. target' \in Request \cup {None} /\ (loop' = "cancel" => target' # None)
    BY <1>2 DEF CancelSession, Base, TypeOK
  <2>2. cancels' \in [Session -> 0 .. MaxCancels]
    BY <1>2, TurnAssumption DEF CancelSession, Base, TypeOK
  <2>3. due' \in SUBSET Session /\ hit' \in SUBSET Request
    BY <1>2 DEF CancelSession, Base, TypeOK, Hits
  <2>4. cancelFlags' \in [Session -> BOOLEAN]
    BY <1>2 DEF CancelSession, Base, TypeOK
  <2> QED
    BY <1>2, <2>1, <2>2, <2>3, <2>4 DEF CancelSession, Base, TypeOK, reqVars
<1>3. CASE CallCancel
  BY <1>3 DEF CallCancel, Base, TypeOK, cancelVars, historyVars, reqVars, CtxErr
<1>4. CASE EndOfInput
  BY <1>4 DEF EndOfInput, Base, TypeOK, cancelVars, historyVars, reqVars
<1>5. CASE ServeReturns
  BY <1>5 DEF ServeReturns, Base, TypeOK, cancelVars, historyVars, reqVars
<1>6. ASSUME NEW e \in CtxErr \ {"live"}, EndServeContext(e) PROVE TypeOK'
  BY <1>6 DEF EndServeContext, Base, TypeOK, cancelVars, loopVars, historyVars, reqVars
<1>7. CASE OutputStalls \/ OutputResumes \/ OutputFails
  BY <1>7 DEF OutputStalls, OutputResumes, OutputFails, OutputBecomes, Base, TypeOK,
     cancelVars, loopVars, historyVars, reqVars
<1>8. ASSUME NEW r \in Request, Reject(r) PROVE TypeOK'
  BY <1>8 DEF Reject, Decide, Goto, Local, Base, TypeOK, cancelVars, loopVars,
     historyVars, reqVars, Points, Outcome
<1>9. ASSUME NEW r \in Request, NEW s \in Session, NewSession(r, s) PROVE TypeOK'
  BY <1>9 DEF NewSession, Goto, Base, TypeOK, cancelVars, loopVars, historyVars, Points,
     Active
<1>10. ASSUME NEW r \in Request, LoadSession(r) PROVE TypeOK'
  BY <1>10 DEF LoadSession, Goto, Local, Base, TypeOK, cancelVars, loopVars, historyVars,
     reqVars, Points, Active
<1>11. ASSUME NEW r \in Request, StartPrompt(r) PROVE TypeOK'
  BY <1>11 DEF StartPrompt, Goto, Local, Base, TypeOK, cancelVars, loopVars, historyVars,
     reqVars, Points, Active, InTurn
<1>12. ASSUME NEW r \in Request, ClearCancelFlag(r) PROVE TypeOK'
  BY <1>12 DEF ClearCancelFlag, Decide, Goto, AfterConsume, Base, TypeOK, Lifecycle, Life,
     loopVars, historyVars, reqVars, Points, Outcome, Open
<1>13. ASSUME NEW r \in Request, CheckFlag(r) PROVE TypeOK'
  BY <1>13 DEF CheckFlag, ConsumeCancelFlag, Decide, Goto, AfterConsume, Base, TypeOK,
     Lifecycle, Life, loopVars, historyVars, reqVars, Points, Active, InTurn, Outcome,
     Open
<1>14. ASSUME NEW r \in Request, SetActiveCancel(r) PROVE TypeOK'
  BY <1>14 DEF SetActiveCancel, Goto, Base, TypeOK, Lifecycle, Life, loopVars,
     historyVars, reqVars, Points, Active, InTurn, Open
<1>15. ASSUME NEW r \in Request, EmitContext(r) PROVE TypeOK'
  BY <1>15 DEF EmitContext, Goto, Local, Base, TypeOK, cancelVars, loopVars, historyVars,
     reqVars, Points, Active, InTurn
<1>16. ASSUME NEW r \in Request, WriteContext(r) PROVE TypeOK'
  BY <1>16 DEF WriteContext, Goto, Local, Base, TypeOK, cancelVars, loopVars, historyVars,
     reqVars, Points, Active, InTurn
<1>17. ASSUME NEW r \in Request, StreamReply(r) PROVE TypeOK'
  BY <1>17 DEF StreamReply, Goto, Local, Base, TypeOK, cancelVars, loopVars, historyVars,
     reqVars, Points, Active, InTurn
<1>18. ASSUME NEW r \in Request, EmitReply(r) PROVE TypeOK'
  BY <1>18 DEF EmitReply, Goto, Local, Base, TypeOK, cancelVars, loopVars, historyVars,
     reqVars, Points, Active, InTurn
<1>19. ASSUME NEW r \in Request, WriteReply(r) PROVE TypeOK'
  BY <1>19 DEF WriteReply, Goto, Local, Base, TypeOK, cancelVars, loopVars, historyVars,
     reqVars, Points, Active, InTurn
<1>20. ASSUME NEW r \in Request, FinalCheck(r) PROVE TypeOK'
  BY <1>20 DEF FinalCheck, ConsumeCancelFlag, Decide, Goto, AfterConsume, Base, TypeOK,
     Lifecycle, Life, loopVars, historyVars, reqVars, Points, Outcome, Open
<1>21. ASSUME NEW r \in Request, FailedFlag(r) PROVE TypeOK'
  BY <1>21 DEF FailedFlag, ConsumeCancelFlag, Decide, Goto, AfterConsume, Base, TypeOK,
     Lifecycle, Life, loopVars, historyVars, reqVars, Points, Outcome, Open
<1>22. ASSUME NEW r \in Request, FailedContext(r) PROVE TypeOK'
  BY <1>22 DEF FailedContext, Decide, Goto, Local, Base, TypeOK, cancelVars, loopVars,
     historyVars, reqVars, Points, Outcome
<1>23. ASSUME NEW r \in Request, Respond(r) PROVE TypeOK'
  BY <1>23 DEF Respond, Goto, Base, TypeOK, Lifecycle, Life, cancelVars, loopVars,
     historyVars, reqVars, Points
<1>24. ASSUME NEW r \in Request, ClearActiveCancel(r) PROVE TypeOK'
  BY <1>24 DEF ClearActiveCancel, Goto, Base, TypeOK, loopVars, historyVars, reqVars,
     Points
<1>25. CASE UNCHANGED vars
  BY <1>25 DEF vars, Base, TypeOK
<1> QED
  BY <1>1, <1>2, <1>3, <1>4, <1>5, <1>6, <1>7, <1>8, <1>9, <1>10, <1>11, <1>12, <1>13,
     <1>14, <1>15, <1>16, <1>17, <1>18, <1>19, <1>20, <1>21, <1>22, <1>23, <1>24,
     <1>25 DEF Next,
     HandlerStep, Returned

\* Every handler moves along its life, and no step touches another's.
LEMMA LifeStep == Base /\ TypeOK' /\ [Next]_vars => Lifecycle'
<1> SUFFICES ASSUME Base, TypeOK', [Next]_vars PROVE Lifecycle'
  OBVIOUS
<1>1. ASSUME NEW r \in Request, NEW m \in Method, NEW s \in Session \cup {None},
             ReadRequest(r, m, s) PROVE Lifecycle'
  BY <1>1 DEF ReadRequest, Base, TypeOK, Lifecycle, Life, Points, InTurn, Open, HasContext
<1>2. CASE CallCancel
  BY <1>2 DEF CallCancel, Base, TypeOK, Lifecycle, Life, reqVars
<1>3. ASSUME NEW e \in CtxErr \ {"live"}, EndServeContext(e) PROVE Lifecycle'
  BY <1>3 DEF EndServeContext, Base, TypeOK, Lifecycle, Life, reqVars, CtxErr
<1>4. ASSUME NEW r \in Request, Reject(r) PROVE Lifecycle'
  BY <1>4 DEF Reject, Decide, Goto, Local, Base, TypeOK, Lifecycle, Life, reqVars, Active,
     InTurn, Open, HasContext
<1>5. ASSUME NEW r \in Request, NEW s \in Session, NewSession(r, s) PROVE Lifecycle'
  BY <1>5 DEF NewSession, Goto, Base, TypeOK, Lifecycle, Life, Points, InTurn, Open,
     HasContext
<1>6. ASSUME NEW r \in Request, LoadSession(r) PROVE Lifecycle'
  BY <1>6 DEF LoadSession, Goto, Local, Base, TypeOK, Lifecycle, Life, reqVars, Points,
     InTurn, Open, HasContext
<1>7. ASSUME NEW r \in Request, StartPrompt(r) PROVE Lifecycle'
  BY <1>7 DEF StartPrompt, Goto, Local, Base, TypeOK, Lifecycle, Life, reqVars, Points,
     Open, HasContext
<1>8. ASSUME NEW r \in Request, ClearCancelFlag(r) PROVE Lifecycle'
  BY <1>8 DEF ClearCancelFlag, Decide, Goto, AfterConsume, Base, TypeOK, Lifecycle, Life,
     reqVars, Active, InTurn, Open, HasContext
<1>9. ASSUME NEW r \in Request, CheckFlag(r) PROVE Lifecycle'
  BY <1>9 DEF CheckFlag, ConsumeCancelFlag, Decide, Goto, AfterConsume, Base, TypeOK,
     Lifecycle, Life, reqVars, Active, InTurn, Open, HasContext
<1>10. ASSUME NEW r \in Request, SetActiveCancel(r) PROVE Lifecycle'
  BY <1>10 DEF SetActiveCancel, Goto, Base, TypeOK, Lifecycle, Life, reqVars, Points,
     InTurn, CtxErr, Open, HasContext
<1>11. ASSUME NEW r \in Request, EmitContext(r) PROVE Lifecycle'
  BY <1>11 DEF EmitContext, Goto, Local, Base, TypeOK, Lifecycle, Life, reqVars, Points,
     Open, HasContext
<1>12. ASSUME NEW r \in Request, WriteContext(r) PROVE Lifecycle'
  BY <1>12 DEF WriteContext, Goto, Local, Base, TypeOK, Lifecycle, Life, reqVars, Points,
     Open, HasContext
<1>13. ASSUME NEW r \in Request, StreamReply(r) PROVE Lifecycle'
  BY <1>13 DEF StreamReply, Goto, Local, Base, TypeOK, Lifecycle, Life, reqVars, Points,
     Open, HasContext
<1>14. ASSUME NEW r \in Request, EmitReply(r) PROVE Lifecycle'
  BY <1>14 DEF EmitReply, Goto, Local, Base, TypeOK, Lifecycle, Life, reqVars, Points,
     Open, HasContext
<1>15. ASSUME NEW r \in Request, WriteReply(r) PROVE Lifecycle'
  BY <1>15 DEF WriteReply, Goto, Local, Base, TypeOK, Lifecycle, Life, reqVars, Points,
     Open, HasContext
<1>16. ASSUME NEW r \in Request, FinalCheck(r) PROVE Lifecycle'
  BY <1>16 DEF FinalCheck, ConsumeCancelFlag, Decide, Goto, AfterConsume, Base, TypeOK,
     Lifecycle, Life, reqVars, Active, InTurn, Open, HasContext
<1>17. ASSUME NEW r \in Request, FailedFlag(r) PROVE Lifecycle'
  BY <1>17 DEF FailedFlag, ConsumeCancelFlag, Decide, Goto, AfterConsume, Base, TypeOK,
     Lifecycle, Life, reqVars, Active, InTurn, Open, HasContext
<1>18. ASSUME NEW r \in Request, FailedContext(r) PROVE Lifecycle'
  BY <1>18 DEF FailedContext, Decide, Goto, Local, Base, TypeOK, Lifecycle, Life, reqVars,
     Active, InTurn, Open, HasContext
<1>19. ASSUME NEW r \in Request, Respond(r) PROVE Lifecycle'
  <2> SUFFICES ASSUME NEW q \in Request PROVE Life(q)'
    BY DEF Lifecycle
  <2>1. /\ pc[r] = "respond"
        /\ pc' = [pc EXCEPT ![r] = IF promptCtx[r] = "none" THEN "done" ELSE "unwind"]
        /\ UNCHANGED <<sessions, op, sid, promptCtx, outcome>>
    BY <1>19 DEF Respond, Goto, reqVars
  <2>2. Life(q) /\ pc[q] \in Points /\ pc \in [Request -> Points]
    BY DEF Base, TypeOK, Lifecycle
  <2>3. CASE q # r
    BY <2>1, <2>2, <2>3 DEF Life
  <2>4. CASE q = r
    <3>1. op[r] = "prompt" \/ promptCtx[r] = "none"
      BY DEF Base, Lifecycle, Life
    <3> QED
      BY <2>1, <2>2, <2>4, <3>1 DEF Life, Open, Active, InTurn, HasContext
  <2> QED
    BY <2>3, <2>4
<1>20. ASSUME NEW r \in Request, ClearActiveCancel(r) PROVE Lifecycle'
  BY <1>20 DEF ClearActiveCancel, Goto, Base, TypeOK, Lifecycle, Life, reqVars, Active,
     InTurn, Open, HasContext
<1>21. CASE UNCHANGED <<sessions, pc, op, sid, promptCtx, outcome>>
  BY <1>21 DEF Base, TypeOK, Lifecycle, Life
<1> QED
  BY <1>1, <1>2, <1>3, <1>4, <1>5, <1>6, <1>7, <1>8, <1>9, <1>10, <1>11, <1>12, <1>13,
     <1>14, <1>15,
     <1>16, <1>17, <1>18, <1>19, <1>20, <1>21 DEF Next, HandlerStep, Returned,
     CancelSession, EndOfInput, ServeReturns, OutputStalls, OutputResumes, OutputFails,
     OutputBecomes, vars, cancelVars, historyVars,
     loopVars, reqVars

\* Types and lives hold in every reachable state.
LEMMA BaseInvariant == Spec => []Base
<1>1. Base /\ [Next]_vars => Base'
  BY TypeStep, LifeStep DEF Base
<1> QED
  BY BaseInit, <1>1, PTL DEF Spec

\* Every variable keeps its type, whatever the client, the executor and the
\* contexts do.
THEOREM TypeCorrect == Spec => []TypeOK
<1>1. Base => TypeOK
  BY DEF Base
<1> QED
  BY <1>1, BaseInvariant, PTL

-----------------------------------------------------------------------------
(* The registry of CancelFuncs.                                            *)

Registry ==
  /\ NoStaleRegistration
  /\ loop = "cancel" => promptCtx[target] # "none"

\* A turn that ends leaves nothing of its own in the registry.
LEMMA RegistryStep == Base /\ Base' /\ Registry /\ [Next]_vars => Registry'
<1> SUFFICES ASSUME Base, Base', Registry, [Next]_vars PROVE Registry'
  OBVIOUS
<1>1. ASSUME NEW r \in Request, NEW m \in Method, NEW s \in Session \cup {None},
             ReadRequest(r, m, s) PROVE Registry'
  BY <1>1 DEF ReadRequest, Registry, NoStaleRegistration, cancelVars
<1>2. ASSUME NEW s \in Session, CancelSession(s) PROVE Registry'
  BY <1>2 DEF CancelSession, Registry, NoStaleRegistration, reqVars
<1>3. CASE CallCancel
  BY <1>3 DEF CallCancel, Registry, NoStaleRegistration, cancelVars, reqVars
<1>4. CASE EndOfInput
  BY <1>4 DEF EndOfInput, Registry, NoStaleRegistration, cancelVars, reqVars
<1>5. CASE ServeReturns
  BY <1>5 DEF ServeReturns, Base, TypeOK, Registry, NoStaleRegistration, cancelVars
<1>6. ASSUME NEW e \in CtxErr \ {"live"}, EndServeContext(e) PROVE Registry'
  <2>1. \A q \in Request : promptCtx[q] # "none" => promptCtx'[q] # "none"
    BY <1>6 DEF EndServeContext, CtxErr
  <2>2. loop = "cancel" => target \in Request
    BY DEF Base, TypeOK
  <2> QED
    BY <1>6, <2>1, <2>2 DEF EndServeContext, Base, TypeOK, Registry, NoStaleRegistration,
       cancelVars, loopVars, reqVars
<1>7. ASSUME NEW r \in Request, Reject(r) PROVE Registry'
  BY <1>7 DEF Reject, Decide, Goto, Local, Registry, NoStaleRegistration, cancelVars,
     loopVars, reqVars
<1>8. ASSUME NEW r \in Request, NEW s \in Session, NewSession(r, s) PROVE Registry'
  BY <1>8 DEF NewSession, Goto, Base, TypeOK, Lifecycle, Life, Registry,
     NoStaleRegistration, cancelVars, loopVars
<1>9. ASSUME NEW r \in Request, LoadSession(r) PROVE Registry'
  BY <1>9 DEF LoadSession, Goto, Local, Registry, NoStaleRegistration, cancelVars,
     loopVars, reqVars
<1>10. ASSUME NEW r \in Request, StartPrompt(r) PROVE Registry'
  BY <1>10 DEF StartPrompt, Goto, Local, Registry, NoStaleRegistration, cancelVars,
     loopVars, reqVars
<1>11. ASSUME NEW r \in Request, ClearCancelFlag(r) PROVE Registry'
  BY <1>11 DEF ClearCancelFlag, Decide, Goto, AfterConsume, Registry, NoStaleRegistration,
     loopVars, reqVars
<1>12. ASSUME NEW r \in Request, CheckFlag(r) PROVE Registry'
  BY <1>12 DEF CheckFlag, ConsumeCancelFlag, Decide, Goto, AfterConsume, Base, TypeOK,
     Registry, NoStaleRegistration, loopVars, reqVars
<1>13. ASSUME NEW r \in Request, SetActiveCancel(r) PROVE Registry'
  BY <1>13 DEF SetActiveCancel, Goto, Base, TypeOK, Lifecycle, Life, Registry,
     NoStaleRegistration, HasContext, loopVars, reqVars
<1>14. ASSUME NEW r \in Request, EmitContext(r) PROVE Registry'
  BY <1>14 DEF EmitContext, Goto, Local, Registry, NoStaleRegistration, cancelVars,
     loopVars, reqVars
<1>15. ASSUME NEW r \in Request, WriteContext(r) PROVE Registry'
  BY <1>15 DEF WriteContext, Goto, Local, Registry, NoStaleRegistration, cancelVars,
     loopVars, reqVars
<1>16. ASSUME NEW r \in Request, StreamReply(r) PROVE Registry'
  BY <1>16 DEF StreamReply, Goto, Local, Registry, NoStaleRegistration, cancelVars,
     loopVars, reqVars
<1>17. ASSUME NEW r \in Request, EmitReply(r) PROVE Registry'
  BY <1>17 DEF EmitReply, Goto, Local, Registry, NoStaleRegistration, cancelVars,
     loopVars, reqVars
<1>18. ASSUME NEW r \in Request, WriteReply(r) PROVE Registry'
  BY <1>18 DEF WriteReply, Goto, Local, Registry, NoStaleRegistration, cancelVars,
     loopVars, reqVars
<1>19. ASSUME NEW r \in Request, FinalCheck(r) PROVE Registry'
  BY <1>19 DEF FinalCheck, ConsumeCancelFlag, Decide, Goto, AfterConsume, Registry,
     NoStaleRegistration, loopVars, reqVars
<1>20. ASSUME NEW r \in Request, FailedFlag(r) PROVE Registry'
  BY <1>20 DEF FailedFlag, ConsumeCancelFlag, Decide, Goto, AfterConsume, Base, TypeOK,
     Registry, NoStaleRegistration, loopVars, reqVars
<1>21. ASSUME NEW r \in Request, FailedContext(r) PROVE Registry'
  BY <1>21 DEF FailedContext, Decide, Goto, Local, Registry, NoStaleRegistration,
     cancelVars, loopVars, reqVars
<1>22. ASSUME NEW r \in Request, Respond(r) PROVE Registry'
  BY <1>22 DEF Respond, Goto, Registry, NoStaleRegistration, cancelVars, loopVars, reqVars
<1>23. ASSUME NEW r \in Request, ClearActiveCancel(r) PROVE Registry'
  BY <1>23 DEF ClearActiveCancel, Goto, Base, TypeOK, Registry, NoStaleRegistration,
     loopVars, reqVars
<1>24. CASE UNCHANGED <<activeCancels, loop, target, pc, sid, promptCtx>>
  BY <1>24 DEF Registry, NoStaleRegistration
<1> QED
  BY <1>1, <1>2, <1>3, <1>4, <1>5, <1>6, <1>7, <1>8, <1>9, <1>10, <1>11, <1>12, <1>13,
     <1>14, <1>15, <1>16, <1>17, <1>18, <1>19, <1>20, <1>21, <1>22, <1>23, <1>24 DEF Next,
     HandlerStep,
     Returned, OutputStalls, OutputResumes, OutputFails, OutputBecomes, vars, cancelVars,
     historyVars, loopVars, reqVars

\* The registry is sound in every reachable state.
LEMMA RegistryInvariant == Spec => [](Base /\ Registry)
<1>1. Init => Registry
  BY DEF Init, Registry, NoStaleRegistration
<1> QED
  BY <1>1, BaseInvariant, RegistryStep, PTL DEF Spec

\* activeCancels never keeps the CancelFunc of a turn that is over.
THEOREM RegistryIsNeverStale == Spec => []NoStaleRegistration
<1>1. Registry => NoStaleRegistration
  BY DEF Registry
<1> QED
  BY <1>1, RegistryInvariant, PTL

-----------------------------------------------------------------------------
(* Where a cancellation comes from.                                        *)

Cause ==
  /\ \A s \in Session : cancelFlags[s] => cancels[s] > 0
  /\ \A r \in Request :
       promptCtx[r] = "canceled" => cancels[sid[r]] > 0 \/ serveCtx = "canceled"
  /\ loop = "cancel" => cancels[sid[target]] > 0
  /\ CancelledHasCause

\* Flags, contexts and outcomes only become cancelled by a cancellation.
LEMMA CauseStep == Base /\ Base' /\ Registry /\ Cause /\ [Next]_vars => Cause'
<1> SUFFICES ASSUME Base, Base', Registry, Cause, [Next]_vars PROVE Cause'
  OBVIOUS
<1>1. ASSUME NEW r \in Request, NEW m \in Method, NEW s \in Session \cup {None},
             ReadRequest(r, m, s) PROVE Cause'
  BY <1>1 DEF ReadRequest, Base, TypeOK, Lifecycle, Life, Cause, CancelledHasCause, Open,
     HasContext, cancelVars
<1>2. ASSUME NEW s \in Session, CancelSession(s) PROVE Cause'
  BY <1>2 DEF CancelSession, Base, TypeOK, Registry, NoStaleRegistration, Cause,
     CancelledHasCause, reqVars
<1>3. CASE CallCancel
  BY <1>3 DEF CallCancel, Cause, CancelledHasCause, cancelVars, historyVars, reqVars
<1>4. CASE EndOfInput
  BY <1>4 DEF EndOfInput, Cause, CancelledHasCause, cancelVars, historyVars, reqVars
<1>5. CASE ServeReturns
  BY <1>5 DEF ServeReturns, Cause, CancelledHasCause, cancelVars, historyVars, reqVars
<1>6. ASSUME NEW e \in CtxErr \ {"live"}, EndServeContext(e) PROVE Cause'
  BY <1>6 DEF EndServeContext, Cause, CancelledHasCause, cancelVars, loopVars,
     historyVars, reqVars
<1>7. ASSUME NEW r \in Request, Reject(r) PROVE Cause'
  BY <1>7 DEF Reject, Decide, Local, Cause, CancelledHasCause, cancelVars, loopVars,
     historyVars, reqVars
<1>8. ASSUME NEW r \in Request, NEW s \in Session, NewSession(r, s) PROVE Cause'
  BY <1>8 DEF NewSession, Base, TypeOK, Lifecycle, Life, Registry, Cause,
     CancelledHasCause, Open, Active, cancelVars, loopVars, historyVars
<1>9. ASSUME NEW r \in Request, ClearCancelFlag(r) PROVE Cause'
  BY <1>9 DEF ClearCancelFlag, Decide, AfterConsume, Cause, CancelledHasCause, loopVars,
     historyVars, reqVars
<1>10. ASSUME NEW r \in Request, CheckFlag(r) PROVE Cause'
  BY <1>10 DEF CheckFlag, ConsumeCancelFlag, Decide, AfterConsume, Base, TypeOK, Cause,
     CancelledHasCause, loopVars, historyVars, reqVars
<1>11. ASSUME NEW r \in Request, SetActiveCancel(r) PROVE Cause'
  BY <1>11 DEF SetActiveCancel, Cause, CancelledHasCause, loopVars, historyVars, reqVars
<1>12. ASSUME NEW r \in Request, FinalCheck(r) PROVE Cause'
  BY <1>12 DEF FinalCheck, ConsumeCancelFlag, Decide, AfterConsume, Base, TypeOK, Cause,
     CancelledHasCause, loopVars, historyVars, reqVars
<1>13. ASSUME NEW r \in Request, FailedFlag(r) PROVE Cause'
  BY <1>13 DEF FailedFlag, ConsumeCancelFlag, Decide, AfterConsume, Base, TypeOK, Cause,
     CancelledHasCause, loopVars, historyVars, reqVars
<1>14. ASSUME NEW r \in Request, FailedContext(r) PROVE Cause'
  BY <1>14 DEF FailedContext, Decide, Local, Cause, CancelledHasCause, cancelVars,
     loopVars, historyVars, reqVars
<1>15. CASE UNCHANGED <<cancelFlags, loop, target, serveCtx, sid, promptCtx, outcome,
                        cancels>>
  BY <1>15 DEF Cause, CancelledHasCause
<1> QED
  BY <1>1, <1>2, <1>3, <1>4, <1>5, <1>6, <1>7, <1>8, <1>9, <1>10, <1>11, <1>12, <1>13,
     <1>14, <1>15 DEF Next, HandlerStep, Returned, OutputStalls, OutputResumes,
     OutputFails, OutputBecomes, LoadSession, StartPrompt,
     EmitContext, WriteContext, StreamReply, EmitReply, WriteReply, Respond,
     ClearActiveCancel, Goto, Local, vars,
     cancelVars, historyVars, loopVars, reqVars

\* No turn is reported cancelled unless somebody cancelled its session or the
\* context of Serve.
THEOREM CancellationsHaveCause == Spec => []CancelledHasCause
<1>1. Init => Cause
  BY DEF Init, Cause, CancelledHasCause
<1>2. Cause => CancelledHasCause
  BY DEF Cause
<1> QED
  BY <1>1, <1>2, RegistryInvariant, CauseStep, PTL DEF Spec

-----------------------------------------------------------------------------
(* The client that waits: at most one request at a time can use the flag   *)
(* of a session, so nobody takes away what a cancellation left for another. *)

OneAtATime ==
  \A q, r \in Request :
    q # r /\ sid[q] = sid[r] /\ sid[q] # None /\ op[q] # "new" /\ op[r] # "new" =>
      q \in answered \/ r \in answered

AnsweredIsOver == \A r \in answered : pc[r] \in {"unwind", "done"}

\* Who knows which session: requests use those the client can name, and a new
\* session has no name outside its handler before it is announced.
Known ==
  /\ due \subseteq announced \cup Unissued
  /\ \A r \in Request : pc[r] = "unsent" => op[r] = "prompt" /\ sid[r] = None
  /\ \A r \in Request :
       op[r] # "new" /\ pc[r] # "unsent" => sid[r] \in announced \cup Unissued
  /\ \A r \in Request :
       op[r] = "new" /\ sid[r] # None /\ pc[r] # "done" =>
         sid[r] \notin announced \cup Unissued
  /\ \A r \in Request : op[r] = "new" /\ sid[r] # None => sid[r] \in sessions
  /\ \A q, r \in Request :
       op[q] = "new" /\ op[r] = "new" /\ sid[q] = sid[r] /\ sid[q] # None => q = r

\* A turn that was cancelled finds the flag set at its next look.
HitInv ==
  \A r \in hit :
    /\ op[r] = "prompt" /\ pc[r] # "unsent"
    /\ pc[r] \in InTurn \cup {"start"} => cancelFlags[sid[r]]
    /\ pc[r] # "failedCtx"
    /\ outcome[r] \notin {"end_turn", "error"}

\* So does the next turn of a session that was cancelled while it was idle.
DueInv == \A s \in due : cancelFlags[s] /\ Quiet(s)

Bookkeeping == AnsweredIsOver /\ Known

Honoured == Sequential => OneAtATime /\ HitInv /\ DueInv

\* Answered requests are over, and names are known as they are announced.
LEMMA BookkeepingStep == Base /\ Base' /\ Bookkeeping /\ [Next]_vars => Bookkeeping'
<1> SUFFICES ASSUME Base, Base', Bookkeeping, [Next]_vars PROVE Bookkeeping'
  OBVIOUS
<1>1. ASSUME NEW r \in Request, NEW m \in Method, NEW s \in Session \cup {None},
             ReadRequest(r, m, s) PROVE Bookkeeping'
  BY <1>1 DEF ReadRequest, Base, TypeOK, Bookkeeping, AnsweredIsOver, Known
<1>2. ASSUME NEW s \in Session, CancelSession(s) PROVE Bookkeeping'
  BY <1>2 DEF CancelSession, Bookkeeping, AnsweredIsOver, Known, reqVars
<1>3. ASSUME NEW r \in Request, Reject(r) PROVE Bookkeeping'
  BY <1>3 DEF Reject, Decide, Goto, Local, Bookkeeping, AnsweredIsOver, Known, loopVars,
     historyVars, reqVars
<1>4. ASSUME NEW r \in Request, NEW s \in Session, NewSession(r, s) PROVE Bookkeeping'
  BY <1>4 DEF NewSession, Goto, Base, TypeOK, Bookkeeping, AnsweredIsOver, Known,
     loopVars, historyVars
<1>5. ASSUME NEW r \in Request, LoadSession(r) PROVE Bookkeeping'
  BY <1>5 DEF LoadSession, Goto, Local, Bookkeeping, AnsweredIsOver, Known, loopVars,
     historyVars, reqVars
<1>6. ASSUME NEW r \in Request, StartPrompt(r) PROVE Bookkeeping'
  BY <1>6 DEF StartPrompt, Goto, Local, Bookkeeping, AnsweredIsOver, Known, loopVars,
     historyVars, reqVars
<1>7. ASSUME NEW r \in Request, ClearCancelFlag(r) PROVE Bookkeeping'
  BY <1>7 DEF ClearCancelFlag, Decide, Goto, AfterConsume, Bookkeeping, AnsweredIsOver,
     Known, loopVars, historyVars, reqVars
<1>8. ASSUME NEW r \in Request, CheckFlag(r) PROVE Bookkeeping'
  BY <1>8 DEF CheckFlag, ConsumeCancelFlag, Decide, Goto, AfterConsume, Base, TypeOK,
     Bookkeeping, AnsweredIsOver, Known, loopVars, historyVars, reqVars
<1>9. ASSUME NEW r \in Request, SetActiveCancel(r) PROVE Bookkeeping'
  BY <1>9 DEF SetActiveCancel, Goto, Bookkeeping, AnsweredIsOver, Known, loopVars,
     historyVars, reqVars
<1>10. ASSUME NEW r \in Request, EmitContext(r) PROVE Bookkeeping'
  BY <1>10 DEF EmitContext, Goto, Local, Bookkeeping, AnsweredIsOver, Known, loopVars,
     historyVars, reqVars
<1>11. ASSUME NEW r \in Request, WriteContext(r) PROVE Bookkeeping'
  BY <1>11 DEF WriteContext, Goto, Local, Bookkeeping, AnsweredIsOver, Known, loopVars,
     historyVars, reqVars
<1>12. ASSUME NEW r \in Request, StreamReply(r) PROVE Bookkeeping'
  BY <1>12 DEF StreamReply, Goto, Local, Bookkeeping, AnsweredIsOver, Known, loopVars,
     historyVars, reqVars
<1>13. ASSUME NEW r \in Request, EmitReply(r) PROVE Bookkeeping'
  BY <1>13 DEF EmitReply, Goto, Local, Bookkeeping, AnsweredIsOver, Known, loopVars,
     historyVars, reqVars
<1>14. ASSUME NEW r \in Request, WriteReply(r) PROVE Bookkeeping'
  BY <1>14 DEF WriteReply, Goto, Local, Bookkeeping, AnsweredIsOver, Known, loopVars,
     historyVars, reqVars
<1>15. ASSUME NEW r \in Request, FinalCheck(r) PROVE Bookkeeping'
  BY <1>15 DEF FinalCheck, ConsumeCancelFlag, Decide, Goto, AfterConsume, Bookkeeping,
     AnsweredIsOver, Known, loopVars, historyVars, reqVars
<1>16. ASSUME NEW r \in Request, FailedFlag(r) PROVE Bookkeeping'
  BY <1>16 DEF FailedFlag, ConsumeCancelFlag, Decide, Goto, AfterConsume, Base, TypeOK,
     Bookkeeping, AnsweredIsOver, Known, loopVars, historyVars, reqVars
<1>17. ASSUME NEW r \in Request, FailedContext(r) PROVE Bookkeeping'
  BY <1>17 DEF FailedContext, Decide, Goto, Local, Bookkeeping, AnsweredIsOver, Known,
     loopVars, historyVars, reqVars
<1>18. ASSUME NEW r \in Request, Respond(r) PROVE Bookkeeping'
  BY <1>18 DEF Respond, Goto, Base, TypeOK, Lifecycle, Life, Bookkeeping, AnsweredIsOver,
     Known, loopVars, historyVars, reqVars
<1>19. ASSUME NEW r \in Request, ClearActiveCancel(r) PROVE Bookkeeping'
  BY <1>19 DEF ClearActiveCancel, Goto, Bookkeeping, AnsweredIsOver, Known, loopVars,
     historyVars, reqVars
<1>20. CASE UNCHANGED <<sessions, announced, pc, op, sid, answered, due>>
  BY <1>20 DEF Bookkeeping, AnsweredIsOver, Known
<1> QED
  BY <1>1, <1>2, <1>3, <1>4, <1>5, <1>6, <1>7, <1>8, <1>9, <1>10, <1>11, <1>12, <1>13,
     <1>14, <1>15,
     <1>16, <1>17, <1>18, <1>19, <1>20 DEF Next, HandlerStep, Returned, CallCancel,
     EndOfInput, ServeReturns, EndServeContext, OutputStalls, OutputResumes, OutputFails,
     OutputBecomes, vars, cancelVars,
     historyVars, loopVars, reqVars

\* A client that waits never has two requests on one session.
LEMMA OneStep ==
  Base /\ Base' /\ Bookkeeping /\ OneAtATime /\ Sequential /\ [Next]_vars => OneAtATime'
<1> SUFFICES ASSUME Base, Base', Bookkeeping, OneAtATime, Sequential, [Next]_vars
             PROVE OneAtATime'
  OBVIOUS
<1>1. ASSUME NEW r \in Request, NEW m \in Method, NEW s \in Session \cup {None},
             ReadRequest(r, m, s) PROVE OneAtATime'
  BY <1>1 DEF ReadRequest, Base, TypeOK, OneAtATime, MaySend
<1>2. ASSUME NEW r \in Request, NEW s \in Session, NewSession(r, s) PROVE OneAtATime'
  BY <1>2 DEF NewSession, OneAtATime
<1>3. ASSUME NEW r \in Request, Respond(r) PROVE OneAtATime'
  BY <1>3 DEF Respond, OneAtATime, reqVars
<1>4. CASE UNCHANGED <<op, sid, answered>>
  BY <1>4 DEF OneAtATime
<1> QED
  BY <1>1, <1>2, <1>3, <1>4 DEF Next, HandlerStep, Returned, CancelSession, CallCancel,
     EndOfInput, ServeReturns, EndServeContext, OutputStalls, OutputResumes, OutputFails,
     OutputBecomes, Reject, LoadSession,
     StartPrompt, ClearCancelFlag, CheckFlag, SetActiveCancel, EmitContext, WriteContext,
     StreamReply,
     EmitReply, WriteReply, FinalCheck, FailedFlag, FailedContext, ClearActiveCancel,
     AfterConsume,
     ConsumeCancelFlag, Decide, Goto, Local, vars, cancelVars, historyVars, loopVars,
     reqVars

\* Nobody takes the flag that was set for a turn in progress.
LEMMA HitStep ==
  Base /\ Base' /\ Bookkeeping /\ OneAtATime /\ HitInv /\ DueInv /\ [Next]_vars => HitInv'
<1> SUFFICES ASSUME Base, Base', Bookkeeping, OneAtATime, HitInv, DueInv, [Next]_vars
             PROVE HitInv'
  OBVIOUS
<1>1. ASSUME NEW r \in Request, NEW m \in Method, NEW s \in Session \cup {None},
             ReadRequest(r, m, s) PROVE HitInv'
  BY <1>1 DEF ReadRequest, Base, TypeOK, Lifecycle, Life, HitInv, DueInv, Open, cancelVars
<1>2. ASSUME NEW s \in Session, CancelSession(s) PROVE HitInv'
  BY <1>2 DEF CancelSession, Base, TypeOK, Lifecycle, Life, HitInv, Hits, Open, Active,
     InTurn, reqVars
<1>3. ASSUME NEW r \in Request, Reject(r) PROVE HitInv'
  BY <1>3 DEF Reject, Decide, Goto, Local, HitInv, cancelVars, loopVars, historyVars,
     reqVars
<1>4. ASSUME NEW r \in Request, NEW s \in Session, NewSession(r, s) PROVE HitInv'
  BY <1>4 DEF NewSession, Goto, HitInv, cancelVars, loopVars, historyVars
<1>5. ASSUME NEW r \in Request, LoadSession(r) PROVE HitInv'
  BY <1>5 DEF LoadSession, Goto, Local, HitInv, cancelVars, loopVars, historyVars, reqVars
<1>6. ASSUME NEW r \in Request, StartPrompt(r) PROVE HitInv'
  BY <1>6 DEF StartPrompt, Goto, Local, HitInv, cancelVars, loopVars, historyVars, reqVars
<1>7. ASSUME NEW r \in Request, ClearCancelFlag(r) PROVE HitInv'
  BY <1>7, TurnAssumption DEF ClearCancelFlag, Decide, Goto, AfterConsume, Base, TypeOK,
     Bookkeeping, Known, AnsweredIsOver, OneAtATime, HitInv, InTurn, loopVars,
     historyVars, reqVars
<1>8. ASSUME NEW r \in Request, CheckFlag(r) PROVE HitInv'
  BY <1>8, TurnAssumption DEF CheckFlag, ConsumeCancelFlag, Decide, Goto, AfterConsume,
     Base, TypeOK, Bookkeeping, Known, AnsweredIsOver, OneAtATime, HitInv, InTurn,
     loopVars, historyVars, reqVars
<1>9. ASSUME NEW r \in Request, SetActiveCancel(r) PROVE HitInv'
  BY <1>9 DEF SetActiveCancel, Goto, HitInv, InTurn, loopVars, historyVars, reqVars
<1>10. ASSUME NEW r \in Request, EmitContext(r) PROVE HitInv'
  BY <1>10 DEF EmitContext, Goto, Local, HitInv, InTurn, cancelVars, loopVars,
     historyVars, reqVars
<1>11. ASSUME NEW r \in Request, WriteContext(r) PROVE HitInv'
  BY <1>11 DEF WriteContext, Goto, Local, HitInv, InTurn, cancelVars, loopVars,
     historyVars, reqVars
<1>12. ASSUME NEW r \in Request, StreamReply(r) PROVE HitInv'
  BY <1>12 DEF StreamReply, Goto, Local, HitInv, InTurn, cancelVars, loopVars,
     historyVars, reqVars
<1>13. ASSUME NEW r \in Request, EmitReply(r) PROVE HitInv'
  BY <1>13 DEF EmitReply, Goto, Local, HitInv, InTurn, cancelVars, loopVars, historyVars,
     reqVars
<1>14. ASSUME NEW r \in Request, WriteReply(r) PROVE HitInv'
  BY <1>14 DEF WriteReply, Goto, Local, HitInv, InTurn, cancelVars, loopVars, historyVars,
     reqVars
<1>15. ASSUME NEW r \in Request, FinalCheck(r) PROVE HitInv'
  BY <1>15, TurnAssumption DEF FinalCheck, ConsumeCancelFlag, Decide, Goto, AfterConsume,
     Base, TypeOK, Bookkeeping, Known, AnsweredIsOver, OneAtATime, HitInv, InTurn,
     loopVars, historyVars, reqVars
<1>16. ASSUME NEW r \in Request, FailedFlag(r) PROVE HitInv'
  BY <1>16, TurnAssumption DEF FailedFlag, ConsumeCancelFlag, Decide, Goto, AfterConsume,
     Base, TypeOK, Bookkeeping, Known, AnsweredIsOver, OneAtATime, HitInv, InTurn,
     loopVars, historyVars, reqVars
<1>17. ASSUME NEW r \in Request, FailedContext(r) PROVE HitInv'
  BY <1>17 DEF FailedContext, Decide, Goto, Local, HitInv, cancelVars, loopVars,
     historyVars, reqVars
<1>18. ASSUME NEW r \in Request, Respond(r) PROVE HitInv'
  BY <1>18 DEF Respond, Goto, HitInv, InTurn, cancelVars, loopVars, historyVars, reqVars
<1>19. ASSUME NEW r \in Request, ClearActiveCancel(r) PROVE HitInv'
  BY <1>19 DEF ClearActiveCancel, Goto, HitInv, InTurn, loopVars, historyVars, reqVars
<1>20. CASE UNCHANGED <<cancelFlags, pc, op, sid, outcome, hit>>
  BY <1>20 DEF HitInv
<1> QED
  BY <1>1, <1>2, <1>3, <1>4, <1>5, <1>6, <1>7, <1>8, <1>9, <1>10, <1>11, <1>12, <1>13,
     <1>14, <1>15,
     <1>16, <1>17, <1>18, <1>19, <1>20 DEF Next, HandlerStep, Returned, CallCancel,
     EndOfInput, ServeReturns, EndServeContext, OutputStalls, OutputResumes, OutputFails,
     OutputBecomes, vars, cancelVars,
     historyVars, loopVars, reqVars

\* Nobody takes the flag that was set for the next turn.
LEMMA DueStep == Base /\ Base' /\ Bookkeeping /\ DueInv /\ [Next]_vars => DueInv'
<1> SUFFICES ASSUME Base, Base', Bookkeeping, DueInv, [Next]_vars PROVE DueInv'
  OBVIOUS
<1>1. ASSUME NEW r \in Request, NEW m \in Method, NEW s \in Session \cup {None},
             ReadRequest(r, m, s) PROVE DueInv'
  BY <1>1 DEF ReadRequest, Base, TypeOK, DueInv, Quiet, cancelVars
<1>2. ASSUME NEW s \in Session, CancelSession(s) PROVE DueInv'
  BY <1>2 DEF CancelSession, Base, TypeOK, DueInv, Quiet, reqVars
<1>3. ASSUME NEW r \in Request, Reject(r) PROVE DueInv'
  BY <1>3 DEF Reject, Decide, Goto, Local, DueInv, Quiet, Active, cancelVars, loopVars,
     historyVars, reqVars
<1>4. ASSUME NEW r \in Request, NEW s \in Session, NewSession(r, s) PROVE DueInv'
  BY <1>4 DEF NewSession, Goto, Base, TypeOK, Bookkeeping, Known, DueInv, Quiet,
     cancelVars, loopVars, historyVars
<1>5. ASSUME NEW r \in Request, LoadSession(r) PROVE DueInv'
  BY <1>5 DEF LoadSession, Goto, Local, DueInv, Quiet, Active, cancelVars, loopVars,
     historyVars, reqVars
<1>6. ASSUME NEW r \in Request, StartPrompt(r) PROVE DueInv'
  BY <1>6 DEF StartPrompt, Goto, Local, DueInv, Quiet, Active, cancelVars, loopVars,
     historyVars, reqVars
<1>7. ASSUME NEW r \in Request, ClearCancelFlag(r) PROVE DueInv'
  BY <1>7 DEF ClearCancelFlag, Decide, Goto, AfterConsume, DueInv, Quiet, Active,
     loopVars, historyVars, reqVars
<1>8. ASSUME NEW r \in Request, CheckFlag(r) PROVE DueInv'
  BY <1>8 DEF CheckFlag, ConsumeCancelFlag, Decide, Goto, AfterConsume, Base, TypeOK,
     DueInv, Quiet, Active, InTurn, loopVars, historyVars, reqVars
<1>9. ASSUME NEW r \in Request, SetActiveCancel(r) PROVE DueInv'
  BY <1>9 DEF SetActiveCancel, Goto, DueInv, Quiet, Active, InTurn, loopVars, historyVars,
     reqVars
<1>10. ASSUME NEW r \in Request, EmitContext(r) PROVE DueInv'
  BY <1>10 DEF EmitContext, Goto, Local, DueInv, Quiet, Active, InTurn, cancelVars,
     loopVars, historyVars, reqVars
<1>11. ASSUME NEW r \in Request, WriteContext(r) PROVE DueInv'
  BY <1>11 DEF WriteContext, Goto, Local, DueInv, Quiet, Active, InTurn, cancelVars,
     loopVars, historyVars, reqVars
<1>12. ASSUME NEW r \in Request, StreamReply(r) PROVE DueInv'
  BY <1>12 DEF StreamReply, Goto, Local, DueInv, Quiet, Active, InTurn, cancelVars,
     loopVars, historyVars, reqVars
<1>13. ASSUME NEW r \in Request, EmitReply(r) PROVE DueInv'
  BY <1>13 DEF EmitReply, Goto, Local, DueInv, Quiet, Active, InTurn, cancelVars,
     loopVars, historyVars, reqVars
<1>14. ASSUME NEW r \in Request, WriteReply(r) PROVE DueInv'
  BY <1>14 DEF WriteReply, Goto, Local, DueInv, Quiet, Active, InTurn, cancelVars,
     loopVars, historyVars, reqVars
<1>15. ASSUME NEW r \in Request, FinalCheck(r) PROVE DueInv'
  BY <1>15 DEF FinalCheck, ConsumeCancelFlag, Decide, Goto, AfterConsume, DueInv, Quiet,
     Active, InTurn, loopVars, historyVars, reqVars
<1>16. ASSUME NEW r \in Request, FailedFlag(r) PROVE DueInv'
  BY <1>16 DEF FailedFlag, ConsumeCancelFlag, Decide, Goto, AfterConsume, Base, TypeOK,
     DueInv, Quiet, Active, InTurn, loopVars, historyVars, reqVars
<1>17. ASSUME NEW r \in Request, FailedContext(r) PROVE DueInv'
  BY <1>17 DEF FailedContext, Decide, Goto, Local, DueInv, Quiet, Active, InTurn,
     cancelVars, loopVars, historyVars, reqVars
<1>18. ASSUME NEW r \in Request, Respond(r) PROVE DueInv'
  BY <1>18 DEF Respond, Goto, DueInv, Quiet, Active, InTurn, cancelVars, loopVars,
     historyVars, reqVars
<1>19. ASSUME NEW r \in Request, ClearActiveCancel(r) PROVE DueInv'
  BY <1>19 DEF ClearActiveCancel, Goto, DueInv, Quiet, Active, InTurn, loopVars,
     historyVars, reqVars
<1>20. CASE UNCHANGED <<cancelFlags, pc, sid, due>>
  BY <1>20 DEF DueInv, Quiet
<1> QED
  BY <1>1, <1>2, <1>3, <1>4, <1>5, <1>6, <1>7, <1>8, <1>9, <1>10, <1>11, <1>12, <1>13,
     <1>14, <1>15,
     <1>16, <1>17, <1>18, <1>19, <1>20 DEF Next, HandlerStep, Returned, CallCancel,
     EndOfInput, ServeReturns, EndServeContext, OutputStalls, OutputResumes, OutputFails,
     OutputBecomes, vars, cancelVars,
     historyVars, loopVars, reqVars

\* A client that waits for its answers never loses a session/cancel.
THEOREM CancelsAreHonoured == Spec => []CancelHonoured
<1>1. Init => Bookkeeping /\ Honoured
  BY DEF Init, Bookkeeping, Honoured, AnsweredIsOver, Known, OneAtATime, HitInv, DueInv
<1>2. Base /\ Base' /\ Bookkeeping /\ Honoured /\ [Next]_vars => Bookkeeping' /\ Honoured'
  BY BookkeepingStep, OneStep, HitStep, DueStep DEF Honoured
<1>3. Honoured => CancelHonoured
  BY DEF Honoured, HitInv, CancelHonoured
<1> QED
  BY <1>1, <1>2, <1>3, BaseInvariant, PTL DEF Spec

-----------------------------------------------------------------------------
(* Any client: the flag a cancellation sets is there until a turn of the   *)
(* session takes it, and that turn is cancelled.                           *)

\* Some turn of s was answered "cancelled".
Taken(s) == \E q \in Request : sid[q] = s /\ outcome[q] = "cancelled"

NoLoad == \A q \in Request : op[q] # "load"

HitEffect ==
  \A r \in hit :
    /\ op[r] = "prompt" /\ pc[r] # "unsent"
    /\ pc[r] \in InTurn \cup {"start"} => cancelFlags[sid[r]] \/ Taken(sid[r])
    /\ pc[r] = "failedCtx" \/ outcome[r] \in {"end_turn", "error"} => Taken(sid[r])

DueEffect == \A s \in due : cancelFlags[s] \/ Taken(s)

Effect == NoLoad => HitEffect /\ DueEffect

\* Nobody takes "cancelled" back.
LEMMA TakenStep ==
  Base /\ Bookkeeping /\ [Next]_vars => \A t \in Session : Taken(t) => Taken(t)'
<1> SUFFICES ASSUME Base, Bookkeeping, [Next]_vars
             PROVE \A t \in Session : Taken(t) => Taken(t)'
  OBVIOUS
<1>1. ASSUME NEW r \in Request, NEW m \in Method, NEW s \in Session \cup {None},
             ReadRequest(r, m, s) PROVE \A t \in Session : Taken(t) => Taken(t)'
  BY <1>1 DEF ReadRequest, Base, TypeOK, Lifecycle, Life, Open, Taken
<1>2. ASSUME NEW r \in Request, Reject(r) PROVE \A t \in Session : Taken(t) => Taken(t)'
  BY <1>2 DEF Reject, Decide, Local, Base, TypeOK, Lifecycle, Life, Open, Active, Taken,
     reqVars
<1>3. ASSUME NEW r \in Request, NEW s \in Session, NewSession(r, s)
      PROVE \A t \in Session : Taken(t) => Taken(t)'
  BY <1>3 DEF NewSession, Base, TypeOK, Lifecycle, Life, Open, Active, Taken
<1>4. ASSUME NEW r \in Request, ClearCancelFlag(r)
      PROVE \A t \in Session : Taken(t) => Taken(t)'
  BY <1>4 DEF ClearCancelFlag, Decide, AfterConsume, Base, TypeOK, Lifecycle, Life, Open,
     Active, Taken, reqVars
<1>5. ASSUME NEW r \in Request, CheckFlag(r)
      PROVE \A t \in Session : Taken(t) => Taken(t)'
  BY <1>5 DEF CheckFlag, ConsumeCancelFlag, Decide, AfterConsume, Base, TypeOK, Taken,
     reqVars
<1>6. ASSUME NEW r \in Request, FinalCheck(r)
      PROVE \A t \in Session : Taken(t) => Taken(t)'
  BY <1>6 DEF FinalCheck, ConsumeCancelFlag, Decide, AfterConsume, Base, TypeOK,
     Lifecycle, Life, Open, Active, InTurn, Taken, reqVars
<1>7. ASSUME NEW r \in Request, FailedFlag(r)
      PROVE \A t \in Session : Taken(t) => Taken(t)'
  BY <1>7 DEF FailedFlag, ConsumeCancelFlag, Decide, AfterConsume, Base, TypeOK, Taken,
     reqVars
<1>8. ASSUME NEW r \in Request, FailedContext(r)
      PROVE \A t \in Session : Taken(t) => Taken(t)'
  BY <1>8 DEF FailedContext, Decide, Local, Base, TypeOK, Lifecycle, Life, Open, Taken,
     reqVars
<1>9. CASE UNCHANGED <<sid, outcome>>
  BY <1>9 DEF Taken
<1> QED
  BY <1>1, <1>2, <1>3, <1>4, <1>5, <1>6, <1>7, <1>8, <1>9 DEF Next, HandlerStep, Returned,
     CancelSession, CallCancel, EndOfInput, ServeReturns, EndServeContext, OutputStalls,
     OutputResumes, OutputFails, OutputBecomes,
     LoadSession, StartPrompt, SetActiveCancel, EmitContext, WriteContext, StreamReply,
     EmitReply, WriteReply,
     Respond, ClearActiveCancel, Goto, Local, vars, cancelVars, historyVars, loopVars,
     reqVars

\* A session/load once sent stays sent.
LEMMA NoLoadStep == Base /\ Bookkeeping /\ NoLoad' /\ [Next]_vars => NoLoad
<1> SUFFICES ASSUME Base, Bookkeeping, NoLoad', [Next]_vars PROVE NoLoad
  OBVIOUS
<1>1. ASSUME NEW r \in Request, NEW m \in Method, NEW s \in Session \cup {None},
             ReadRequest(r, m, s) PROVE NoLoad
  BY <1>1 DEF ReadRequest, Bookkeeping, Known, NoLoad
<1>2. CASE UNCHANGED <<op>>
  BY <1>2 DEF NoLoad
<1> QED
  BY <1>1, <1>2 DEF Next, HandlerStep, Returned, CancelSession, CallCancel, EndOfInput,
     ServeReturns, EndServeContext, OutputStalls, OutputResumes, OutputFails,
     OutputBecomes, Reject, NewSession, LoadSession,
     StartPrompt, ClearCancelFlag, CheckFlag, SetActiveCancel, EmitContext, WriteContext,
     StreamReply,
     EmitReply, WriteReply, FinalCheck, FailedFlag, FailedContext, Respond,
     ClearActiveCancel,
     AfterConsume, ConsumeCancelFlag, Decide, Goto, Local, vars, cancelVars, historyVars,
     loopVars, reqVars

\* A flag that a cancellation set is there until a turn took it.
LEMMA EffectStep ==
  Base /\ Base' /\ Bookkeeping /\ NoLoad /\ HitEffect /\ DueEffect /\ [Next]_vars
    => HitEffect' /\ DueEffect'
<1> SUFFICES ASSUME Base, Base', Bookkeeping, NoLoad, HitEffect, DueEffect, [Next]_vars
             PROVE HitEffect' /\ DueEffect'
  OBVIOUS
<1>0. \A t \in Session : Taken(t) => Taken(t)'
  BY TakenStep
<1>1. ASSUME NEW r \in Request, NEW m \in Method, NEW s \in Session \cup {None},
             ReadRequest(r, m, s) PROVE HitEffect' /\ DueEffect'
  BY <1>1, TurnAssumption, <1>0 DEF ReadRequest, Base, TypeOK, Lifecycle, Life,
     Bookkeeping, Known, HitEffect, DueEffect, Open, cancelVars
<1>2. ASSUME NEW s \in Session, CancelSession(s) PROVE HitEffect' /\ DueEffect'
  BY <1>2, TurnAssumption, <1>0 DEF CancelSession, Base, TypeOK, Lifecycle, Life,
     Bookkeeping, Known, HitEffect, DueEffect, Hits, Open, Active, InTurn, reqVars
<1>3. ASSUME NEW r \in Request, Reject(r) PROVE HitEffect' /\ DueEffect'
  BY <1>3, TurnAssumption, <1>0 DEF Reject, Decide, Goto, Local, Base, TypeOK,
     Bookkeeping, Known, HitEffect, DueEffect, cancelVars, loopVars, historyVars, reqVars
<1>4. ASSUME NEW r \in Request, NEW s \in Session, NewSession(r, s)
      PROVE HitEffect' /\ DueEffect'
  BY <1>4, TurnAssumption, <1>0 DEF NewSession, Goto, Base, TypeOK, Bookkeeping, Known,
     HitEffect, DueEffect, cancelVars, loopVars, historyVars
<1>5. ASSUME NEW r \in Request, LoadSession(r) PROVE HitEffect' /\ DueEffect'
  BY <1>5, <1>0 DEF LoadSession, Local, NoLoad
<1>6. ASSUME NEW r \in Request, StartPrompt(r) PROVE HitEffect' /\ DueEffect'
  BY <1>6, TurnAssumption, <1>0 DEF StartPrompt, Goto, Local, Base, TypeOK, Bookkeeping,
     Known, HitEffect, DueEffect, cancelVars, loopVars, historyVars, reqVars
<1>7. ASSUME NEW r \in Request, ClearCancelFlag(r) PROVE HitEffect' /\ DueEffect'
  BY <1>7, TurnAssumption, <1>0 DEF ClearCancelFlag, Decide, Goto, AfterConsume, Base,
     TypeOK, Lifecycle, Life, Bookkeeping, Known, NoLoad, HitEffect, DueEffect, loopVars,
     historyVars, reqVars
<1>8. ASSUME NEW r \in Request, CheckFlag(r) PROVE HitEffect' /\ DueEffect'
  BY <1>8, <1>0 DEF Taken, CheckFlag, ConsumeCancelFlag, Decide, Goto, AfterConsume, Base,
     TypeOK, HitEffect, DueEffect, InTurn, loopVars, historyVars, reqVars
<1>9. ASSUME NEW r \in Request, SetActiveCancel(r) PROVE HitEffect' /\ DueEffect'
  BY <1>9, TurnAssumption, <1>0 DEF SetActiveCancel, Goto, Base, TypeOK, Bookkeeping,
     Known, HitEffect, DueEffect, InTurn, loopVars, historyVars, reqVars
<1>10. ASSUME NEW r \in Request, EmitContext(r) PROVE HitEffect' /\ DueEffect'
  BY <1>10, TurnAssumption, <1>0 DEF EmitContext, Goto, Local, Base, TypeOK, Bookkeeping,
     Known, HitEffect, DueEffect, InTurn, cancelVars, loopVars, historyVars, reqVars
<1>11. ASSUME NEW r \in Request, WriteContext(r) PROVE HitEffect' /\ DueEffect'
  BY <1>11, TurnAssumption, <1>0 DEF WriteContext, Goto, Local, Base, TypeOK, Bookkeeping,
     Known, HitEffect, DueEffect, InTurn, cancelVars, loopVars, historyVars, reqVars
<1>12. ASSUME NEW r \in Request, StreamReply(r) PROVE HitEffect' /\ DueEffect'
  BY <1>12, TurnAssumption, <1>0 DEF StreamReply, Goto, Local, Base, TypeOK, Bookkeeping,
     Known, HitEffect, DueEffect, InTurn, cancelVars, loopVars, historyVars, reqVars
<1>13. ASSUME NEW r \in Request, EmitReply(r) PROVE HitEffect' /\ DueEffect'
  BY <1>13, TurnAssumption, <1>0 DEF EmitReply, Goto, Local, Base, TypeOK, Bookkeeping,
     Known, HitEffect, DueEffect, InTurn, cancelVars, loopVars, historyVars, reqVars
<1>14. ASSUME NEW r \in Request, WriteReply(r) PROVE HitEffect' /\ DueEffect'
  BY <1>14, TurnAssumption, <1>0 DEF WriteReply, Goto, Local, Base, TypeOK, Bookkeeping,
     Known, HitEffect, DueEffect, InTurn, cancelVars, loopVars, historyVars, reqVars
<1>15. ASSUME NEW r \in Request, FinalCheck(r) PROVE HitEffect' /\ DueEffect'
  BY <1>15, <1>0 DEF Taken, FinalCheck, ConsumeCancelFlag, Decide, Goto, AfterConsume,
     Base, TypeOK, HitEffect, DueEffect, InTurn, loopVars, historyVars, reqVars
<1>16. ASSUME NEW r \in Request, FailedFlag(r) PROVE HitEffect' /\ DueEffect'
  BY <1>16, <1>0 DEF Taken, FailedFlag, ConsumeCancelFlag, Decide, Goto, AfterConsume,
     Base, TypeOK, HitEffect, DueEffect, InTurn, loopVars, historyVars, reqVars
<1>17. ASSUME NEW r \in Request, FailedContext(r) PROVE HitEffect' /\ DueEffect'
  BY <1>17, <1>0 DEF Taken, FailedContext, Decide, Goto, Local, Base, TypeOK, Lifecycle,
     Life, HitEffect, DueEffect, cancelVars, loopVars, historyVars, reqVars
<1>18. ASSUME NEW r \in Request, Respond(r) PROVE HitEffect' /\ DueEffect'
  BY <1>18, TurnAssumption, <1>0 DEF Respond, Goto, Base, TypeOK, Bookkeeping, Known,
     HitEffect, DueEffect, InTurn, cancelVars, loopVars, historyVars, reqVars
<1>19. ASSUME NEW r \in Request, ClearActiveCancel(r) PROVE HitEffect' /\ DueEffect'
  BY <1>19, TurnAssumption, <1>0 DEF ClearActiveCancel, Goto, Base, TypeOK, Bookkeeping,
     Known, HitEffect, DueEffect, InTurn, loopVars, historyVars, reqVars
<1>20. CASE UNCHANGED <<cancelFlags, pc, op, sid, outcome, due, hit>>
  BY <1>0, <1>20 DEF Taken, HitEffect, DueEffect
<1> QED
  BY <1>1, <1>2, <1>3, <1>4, <1>5, <1>6, <1>7, <1>8, <1>9, <1>10, <1>11, <1>12, <1>13,
     <1>14, <1>15,
     <1>16, <1>17, <1>18, <1>19, <1>20 DEF Next, HandlerStep, Returned, CallCancel,
     EndOfInput, ServeReturns, EndServeContext, OutputStalls, OutputResumes, OutputFails,
     OutputBecomes, vars, cancelVars,
     historyVars, loopVars, reqVars

\* Whatever the client does, a session/cancel read for a turn stops that turn or
\* another of the same session, as long as no session/load is sent.
THEOREM CancelsTakeEffect == Spec => []CancelTakesEffect
<1>1. Init => Bookkeeping /\ Effect
  BY DEF Init, Bookkeeping, AnsweredIsOver, Known, Effect, HitEffect, DueEffect
<1>2. Base /\ Base' /\ Bookkeeping /\ Effect /\ [Next]_vars => Bookkeeping' /\ Effect'
  BY BookkeepingStep, NoLoadStep, EffectStep DEF Effect
<1>3. Effect => CancelTakesEffect
  BY DEF Effect, HitEffect, NoLoad, Taken, CancelTakesEffect
<1> QED
  BY <1>1, <1>2, <1>3, BaseInvariant, PTL DEF Spec

=============================================================================
