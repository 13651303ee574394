----------------------------- MODULE ClientRpc -----------------------------
(***************************************************************************)
(* The bridge for requests that the agent sends to the ACP client          *)
(* (the fs and terminal methods): nextRequestID, registerPendingResponse,  *)
(* callClient, unregisterPendingResponse and handleClientResponse, in      *)
(* server.go and request_handlers.go.                                      *)
(*                                                                         *)
(* A caller is a goroutine inside StreamReply; it makes one call at a      *)
(* time.  The reader is the goroutine that runs Serve's scan loop.  The    *)
(* client may answer an identifier before it is issued (the tests do),     *)
(* after the caller gave up, several times, or never.  Every critical      *)
(* section of pendingMu is one action.  A channel belongs to one call, so  *)
(* it is named by the call's identifier; its capacity is one.              *)
(***************************************************************************)
EXTENDS Naturals, FiniteSets

CONSTANTS Caller,     \* goroutines that may be inside callClient
          MaxCalls,   \* bound on requestIDCounter
          Foreign     \* keys of rpcIDKey that no request of ours can have

Id == 1 .. MaxCalls
Key == Id \cup Foreign
Reply == {"result", "error"}
Outcome == Reply \cup {"cancelled", "write_failed"}

ASSUME RpcAssumption ==
  /\ MaxCalls \in Nat
  /\ Foreign \cap Nat = {}

VARIABLES
  requestIDCounter,   \* atomic counter
  pendingResponses,   \* SUBSET Id: keys with a registered channel
  earlyResponses,     \* [Key -> Reply \cup {"none"}]
  respCh,             \* [Id -> Reply \cup {"none"}] the channel's buffer
  reader,             \* what the scan loop took out of pendingMu to deliver
  pc,                 \* [Caller -> where the goroutine is in callClient]
  reqID,              \* [Caller -> Id \cup {0}] the identifier of its call
  ctxDone,            \* [Caller -> BOOLEAN] the prompt's context is done
  replies,            \* history: replies the scan loop read for an Id
  outcome             \* history: what callClient returned for an Id

vars == <<requestIDCounter, pendingResponses, earlyResponses, respCh, reader,
          pc, reqID, ctxDone, replies, outcome>>

Idle == [key |-> 0, reply |-> "none"]
Holding(k, v) == [key |-> k, reply |-> v]

Init ==
  /\ requestIDCounter = 0
  /\ pendingResponses = {}
  /\ earlyResponses = [k \in Key |-> "none"]
  /\ respCh = [i \in Id |-> "none"]
  /\ reader = Idle
  /\ pc = [c \in Caller |-> "idle"]
  /\ reqID = [c \in Caller |-> 0]
  /\ ctxDone = [c \in Caller |-> FALSE]
  /\ replies = [i \in Id |-> {}]
  /\ outcome = [i \in Id |-> "open"]

-----------------------------------------------------------------------------
(* The caller: callClient, step by step.                                   *)

\* Mutant: the identifier is the counter before the increment.
NextRequestID_Before(c) ==
  /\ pc[c] = "idle"
  /\ requestIDCounter < MaxCalls
  /\ requestIDCounter' = requestIDCounter + 1
  /\ reqID' = [reqID EXCEPT ![c] = requestIDCounter]
  /\ pc' = [pc EXCEPT ![c] = "register"]
  /\ UNCHANGED <<pendingResponses, earlyResponses, respCh, reader, ctxDone, replies,
                 outcome>>

\* Mutant: two callers read the same counter and one increment is lost.
NextRequestID_Lost(c) ==
  /\ pc[c] = "idle"
  /\ requestIDCounter < MaxCalls
  /\ \E n \in {requestIDCounter, requestIDCounter + 1} \cap Id :
       requestIDCounter' = n /\ reqID' = [reqID EXCEPT ![c] = n]
  /\ pc' = [pc EXCEPT ![c] = "register"]
  /\ UNCHANGED <<pendingResponses, earlyResponses, respCh, reader, ctxDone, replies,
                 outcome>>

NextRequestID(c) ==
  /\ pc[c] = "idle"
  /\ requestIDCounter < MaxCalls
  /\ requestIDCounter' = requestIDCounter + 1
  /\ reqID' = [reqID EXCEPT ![c] = requestIDCounter + 1]
  /\ pc' = [pc EXCEPT ![c] = "register"]
  /\ UNCHANGED <<pendingResponses, earlyResponses, respCh, reader, ctxDone, replies,
                 outcome>>

\* Mutant: the early answer is not looked for.
RegisterPendingResponse_NoEarly(c) ==
  /\ pc[c] = "register"
  /\ pc' = [pc EXCEPT ![c] = "write"]
  /\ pendingResponses' = pendingResponses \cup {reqID[c]}
  /\ UNCHANGED <<requestIDCounter, earlyResponses, respCh, reader, reqID, ctxDone, replies,
                 outcome>>

\* An answer that is already here goes straight into the new channel.
RegisterPendingResponse(c) ==
  LET i == reqID[c] IN
  /\ pc[c] = "register"
  /\ pc' = [pc EXCEPT ![c] = "write"]
  /\ \/ /\ earlyResponses[i] # "none"
        /\ earlyResponses' = [earlyResponses EXCEPT ![i] = "none"]
        /\ respCh' = [respCh EXCEPT ![i] = earlyResponses[i]]
        /\ UNCHANGED pendingResponses
     \/ /\ earlyResponses[i] = "none"
        /\ pendingResponses' = pendingResponses \cup {i}
        /\ UNCHANGED <<earlyResponses, respCh>>
  /\ UNCHANGED <<requestIDCounter, reader, reqID, ctxDone, replies, outcome>>

\* callClient decides what it returns; its deferred unregister is next.
Finish(c, v) ==
  /\ outcome' = [outcome EXCEPT ![reqID[c]] = v]
  /\ pc' = [pc EXCEPT ![c] = "unregister"]

WriteRequest(c) ==
  /\ pc[c] = "write"
  /\ \/ /\ pc' = [pc EXCEPT ![c] = "select"]
        /\ UNCHANGED outcome
     \/ Finish(c, "write_failed")
  /\ UNCHANGED <<requestIDCounter, pendingResponses, earlyResponses, respCh, reader,
                 reqID, ctxDone, replies>>

SelectResponse(c) ==
  /\ pc[c] = "select"
  /\ respCh[reqID[c]] # "none"
  /\ Finish(c, respCh[reqID[c]])
  /\ respCh' = [respCh EXCEPT ![reqID[c]] = "none"]
  /\ UNCHANGED <<requestIDCounter, pendingResponses, earlyResponses, reader, reqID,
                 ctxDone, replies>>

\* Mutant: the select has no case for the context.
SelectDone_NoCase(c) == FALSE

SelectDone(c) ==
  /\ pc[c] = "select"
  /\ ctxDone[c]
  /\ Finish(c, "cancelled")
  /\ UNCHANGED <<requestIDCounter, pendingResponses, earlyResponses, respCh, reader,
                 reqID, ctxDone, replies>>

\* Mutant: no deferred unregister.
UnregisterPendingResponse_Forgotten(c) ==
  /\ pc[c] = "unregister"
  /\ pc' = [pc EXCEPT ![c] = "idle"]
  /\ UNCHANGED <<requestIDCounter, pendingResponses, earlyResponses, respCh, reader, reqID,
                 ctxDone, replies, outcome>>

UnregisterPendingResponse(c) ==
  /\ pc[c] = "unregister"
  /\ pendingResponses' = pendingResponses \ {reqID[c]}
  /\ pc' = [pc EXCEPT ![c] = "idle"]
  /\ UNCHANGED <<requestIDCounter, earlyResponses, respCh, reader, reqID, ctxDone,
                 replies, outcome>>

-----------------------------------------------------------------------------
(* The scan loop: handleClientResponse up to and after its Unlock.         *)

\* Mutant: the entry stays in the table when its channel is taken.
HandleClientResponse_Keep(k, v) ==
  /\ reader = Idle
  /\ \/ /\ k \in pendingResponses
        /\ reader' = Holding(k, v)
        /\ UNCHANGED earlyResponses
     \/ /\ k \notin pendingResponses
        /\ earlyResponses' = [earlyResponses EXCEPT ![k] = v]
        /\ UNCHANGED reader
  /\ replies' = IF k \in Id THEN [replies EXCEPT ![k] = @ \cup {v}] ELSE replies
  /\ UNCHANGED <<requestIDCounter, pendingResponses, respCh, pc, reqID, ctxDone, outcome>>

HandleClientResponse(k, v) ==
  /\ reader = Idle
  /\ \/ /\ k \in pendingResponses
        /\ pendingResponses' = pendingResponses \ {k}
        /\ reader' = Holding(k, v)
        /\ UNCHANGED earlyResponses
     \/ /\ k \notin pendingResponses
        /\ earlyResponses' = [earlyResponses EXCEPT ![k] = v]
        /\ UNCHANGED <<pendingResponses, reader>>
  /\ replies' = IF k \in Id THEN [replies EXCEPT ![k] = @ \cup {v}] ELSE replies
  /\ UNCHANGED <<requestIDCounter, respCh, pc, reqID, ctxDone, outcome>>

\* ch <- msg: blocks the whole scan loop while the buffer is full.
SendToChannel ==
  /\ reader # Idle
  /\ respCh[reader.key] = "none"
  /\ respCh' = [respCh EXCEPT ![reader.key] = reader.reply]
  /\ reader' = Idle
  /\ UNCHANGED <<requestIDCounter, pendingResponses, earlyResponses, pc, reqID, ctxDone,
                 replies, outcome>>

-----------------------------------------------------------------------------
(* The prompt around the caller: its context ends, the next turn has a new *)
(* one.                                                                    *)

CancelContext(c) ==
  /\ ~ctxDone[c]
  /\ ctxDone' = [ctxDone EXCEPT ![c] = TRUE]
  /\ UNCHANGED <<requestIDCounter, pendingResponses, earlyResponses, respCh, reader, pc,
                 reqID, replies, outcome>>

NextTurn(c) ==
  /\ pc[c] = "idle"
  /\ ctxDone[c]
  /\ ctxDone' = [ctxDone EXCEPT ![c] = FALSE]
  /\ UNCHANGED <<requestIDCounter, pendingResponses, earlyResponses, respCh, reader, pc,
                 reqID, replies, outcome>>

-----------------------------------------------------------------------------

CallStep(c) ==
  \/ RegisterPendingResponse(c)
  \/ WriteRequest(c)
  \/ SelectResponse(c)
  \/ SelectDone(c)
  \/ UnregisterPendingResponse(c)

Next ==
  \/ \E c \in Caller : NextRequestID(c) \/ CallStep(c) \/ CancelContext(c) \/ NextTurn(c)
  \/ \E k \in Key, v \in Reply : HandleClientResponse(k, v)
  \/ SendToChannel

Spec == Init /\ [][Next]_vars

(* Goroutines that can run are scheduled, so a call that has begun goes on *)
(* and the reader finishes a delivery it can make.  Nothing is assumed of  *)
(* the client, of the executor or of cancellation.                         *)
Fairness ==
  /\ \A c \in Caller : WF_vars(CallStep(c))
  /\ WF_vars(SendToChannel)

FairSpec == Spec /\ Fairness

-----------------------------------------------------------------------------
(* Properties.                                                             *)

\* Every variable has its type.
TypeOK ==
  /\ requestIDCounter \in 0 .. MaxCalls
  /\ pendingResponses \in SUBSET Id
  /\ earlyResponses \in [Key -> Reply \cup {"none"}]
  /\ respCh \in [Id -> Reply \cup {"none"}]
  /\ reader \in {Idle} \cup [key : Id, reply : Reply]
  /\ pc \in [Caller -> {"idle", "register", "write", "select", "unregister"}]
  /\ reqID \in [Caller -> Id \cup {0}]
  /\ \A c \in Caller : pc[c] # "idle" => reqID[c] \in Id
  /\ ctxDone \in [Caller -> BOOLEAN]
  /\ replies \in [Id -> SUBSET Reply]
  /\ outcome \in [Id -> Outcome \cup {"open"}]

\* handleClientResponse sends on a channel of capacity one after it has
\* released pendingMu, in the goroutine that reads every message: a second
\* sender to the same channel would stop the whole server.  There never is
\* one, whatever the client answers early, late or twice.
ReaderNeverBlocks ==
  reader # Idle => respCh[reader.key] = "none"

\* An answer read between any two steps of callClient reaches the caller: a
\* caller in its select whose identifier was answered finds the answer in its
\* channel, or the scan loop is about to put it there.
NoLostResponse ==
  \A c \in Caller :
    pc[c] = "select" /\ replies[reqID[c]] # {} =>
      respCh[reqID[c]] # "none" \/ reader.key = reqID[c]

\* A registered channel belongs to a call in progress, so that
\* pendingResponses cannot outgrow the goroutines that wait: an answer, a
\* cancellation and a failed write all remove it.
PendingIsLive ==
  \A i \in pendingResponses :
    \E c \in Caller : reqID[c] = i /\ pc[c] \in {"write", "select", "unregister"}

\* callClient returns once its identifier has been answered or its context
\* is done, although it may have been cancelled while the answer was being
\* delivered and the other way round.
AnsweredOrCancelledReturns ==
  \A c \in Caller :
    (pc[c] = "select" /\ (ctxDone[c] \/ replies[reqID[c]] # {})) ~> (pc[c] = "idle")

\* The bridge keeps the contract: one outcome per identifier, and a reply is
\* only ever given to the call it answers.
Contract == INSTANCE RpcContract WITH issued <- requestIDCounter
ContractSpec == Contract!Spec

=============================================================================
