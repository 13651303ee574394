--------------------------- MODULE ClientRpcProofs ---------------------------
(***************************************************************************)
(* Proofs about ClientRpc for any set of callers, any bound on the         *)
(* identifiers and any foreign response keys.                              *)
(***************************************************************************)
EXTENDS ClientRpc, TLAPS

(* The inductive invariant.  An identifier has one owner while its call is *)
(* in progress, and at any moment at most one of the places below holds    *)
(* it: the table, the reader's hand, the channel.                          *)

\* Calls in progress have identifiers of their own, already issued.
OwnIds ==
  /\ \A c \in Caller : pc[c] # "idle" => reqID[c] <= requestIDCounter
  /\ \A c, d \in Caller :
       c # d /\ pc[c] # "idle" /\ pc[d] # "idle" => reqID[c] # reqID[d]

\* Identifiers whose channel does not exist yet.
Unregistered(i) ==
  \/ i > requestIDCounter
  \/ \E c \in Caller : pc[c] = "register" /\ reqID[c] = i

\* Nothing but an early answer can belong to such an identifier.
UnregisteredClean ==
  \A i \in Id : Unregistered(i) =>
    /\ i \notin pendingResponses
    /\ respCh[i] = "none"
    /\ reader.key # i
    /\ outcome[i] = "open"
    /\ earlyResponses[i] = "none" => replies[i] = {}

\* An identifier in the table has not been answered.
PendingClean ==
  \A i \in pendingResponses :
    respCh[i] = "none" /\ reader.key # i /\ replies[i] = {}

\* A call that waits is in the table or has its answer.
WaitingServed ==
  \A c \in Caller : pc[c] \in {"write", "select"} =>
    /\ outcome[reqID[c]] = "open"
    /\ \/ reqID[c] \in pendingResponses
       \/ respCh[reqID[c]] # "none"
       \/ reader.key = reqID[c]

\* What is kept for an identifier is a reply that was read for it.
RepliesKept ==
  /\ \A i \in Id : respCh[i] # "none" => respCh[i] \in replies[i]
  /\ \A i \in Id : earlyResponses[i] # "none" => earlyResponses[i] \in replies[i]
  /\ reader # Idle => reader.reply \in replies[reader.key]

IInv ==
  /\ TypeOK
  /\ OwnIds
  /\ UnregisteredClean
  /\ ReaderNeverBlocks
  /\ PendingClean
  /\ PendingIsLive
  /\ WaitingServed
  /\ RepliesKept

-----------------------------------------------------------------------------

\* No step of the bridge takes a variable out of its type.
LEMMA TypeStep == TypeOK /\ [Next]_vars => TypeOK'
<1> SUFFICES ASSUME TypeOK, [Next]_vars PROVE TypeOK'
  OBVIOUS
<1> USE RpcAssumption DEF TypeOK, Id, Key, Reply, Outcome, Idle
<1>1. ASSUME NEW c \in Caller, NextRequestID(c) PROVE TypeOK'
  BY <1>1 DEF NextRequestID
<1>2. ASSUME NEW c \in Caller, RegisterPendingResponse(c) PROVE TypeOK'
  <2>1. /\ pc[c] = "register"
        /\ pc' = [pc EXCEPT ![c] = "write"]
        /\ UNCHANGED <<requestIDCounter, reader, reqID, ctxDone, replies, outcome>>
    BY <1>2 DEF RegisterPendingResponse
  <2>2. reqID[c] \in Id
    BY <2>1
  <2> HIDE DEF Id, Key, Reply, Outcome, Idle
  <2>3. CASE earlyResponses[reqID[c]] # "none"
    <3>1. /\ earlyResponses' = [earlyResponses EXCEPT ![reqID[c]] = "none"]
          /\ respCh' = [respCh EXCEPT ![reqID[c]] = earlyResponses[reqID[c]]]
          /\ pendingResponses' = pendingResponses
      BY <1>2, <2>3 DEF RegisterPendingResponse
    <3>2. earlyResponses' \in [Key -> Reply \cup {"none"}]
      BY <3>1
    <3>3. earlyResponses[reqID[c]] \in Reply \cup {"none"}
      BY <2>2 DEF Id, Key
    <3>4. respCh' \in [Id -> Reply \cup {"none"}]
      BY <3>1, <3>3
    <3> QED
      BY <2>1, <3>1, <3>2, <3>4
  <2>4. CASE earlyResponses[reqID[c]] = "none"
    <3>1. /\ pendingResponses' = pendingResponses \cup {reqID[c]}
          /\ UNCHANGED <<earlyResponses, respCh>>
      BY <1>2, <2>4 DEF RegisterPendingResponse
    <3> QED
      BY <2>1, <2>2, <3>1
  <2> QED
    BY <2>3, <2>4
<1>3. ASSUME NEW c \in Caller, WriteRequest(c) PROVE TypeOK'
  BY <1>3 DEF WriteRequest, Finish
<1>4. ASSUME NEW c \in Caller, SelectResponse(c) PROVE TypeOK'
  BY <1>4 DEF SelectResponse, Finish
<1>5. ASSUME NEW c \in Caller, SelectDone(c) PROVE TypeOK'
  BY <1>5 DEF SelectDone, Finish
<1>6. ASSUME NEW c \in Caller, UnregisterPendingResponse(c) PROVE TypeOK'
  BY <1>6 DEF UnregisterPendingResponse
<1>7. ASSUME NEW c \in Caller, CancelContext(c) PROVE TypeOK'
  BY <1>7 DEF CancelContext
<1>8. ASSUME NEW c \in Caller, NextTurn(c) PROVE TypeOK'
  BY <1>8 DEF NextTurn
<1>9. ASSUME NEW k \in Key, NEW v \in Reply, HandleClientResponse(k, v) PROVE TypeOK'
  <2> HIDE DEF Id, Key, Reply, Outcome, Idle
  <2>1. replies' \in [Id -> SUBSET Reply]
    BY <1>9 DEF HandleClientResponse
  <2>2. earlyResponses' \in [Key -> Reply \cup {"none"}]
    BY <1>9 DEF HandleClientResponse
  <2>3. /\ pendingResponses' \in SUBSET Id
        /\ reader' \in {Idle} \cup [key : Id, reply : Reply]
    BY <1>9 DEF HandleClientResponse, Holding
  <2> QED
    BY <1>9, <2>1, <2>2, <2>3 DEF HandleClientResponse
<1>10. CASE SendToChannel
  BY <1>10 DEF SendToChannel
<1>11. CASE UNCHANGED vars
  BY <1>11 DEF vars
<1> HIDE DEF TypeOK, Id, Key, Reply, Outcome, Idle
<1> QED
  BY <1>1, <1>2, <1>3, <1>4, <1>5, <1>6, <1>7, <1>8, <1>9, <1>10, <1>11
     DEF Next, CallStep

\* Every variable of the bridge keeps its type, for any set of callers.
THEOREM TypeCorrect == Spec => []TypeOK
<1>1. Init => TypeOK
  BY RpcAssumption DEF Init, TypeOK, Id, Key, Reply, Outcome, Idle
<1> QED
  BY <1>1, TypeStep, PTL DEF Spec

-----------------------------------------------------------------------------

\* The bridge starts clean.
LEMMA InvInit == Init => IInv
  BY RpcAssumption DEF Init, IInv, TypeOK, Id, Key, Reply, Outcome, Idle, OwnIds,
     UnregisteredClean, ReaderNeverBlocks, PendingClean, PendingIsLive, WaitingServed,
     RepliesKept

\* No step of the bridge breaks the invariant.
LEMMA InvStep == IInv /\ [Next]_vars => IInv'
<1> SUFFICES ASSUME IInv, [Next]_vars PROVE IInv'
  OBVIOUS
<1>0. TypeOK /\ TypeOK'
  BY TypeStep DEF IInv
<1>1. ASSUME NEW c \in Caller, NextRequestID(c) PROVE IInv'
  <2>1. OwnIds'
    BY <1>1 DEF NextRequestID, TypeOK, Id, IInv, OwnIds
  <2>2. UnregisteredClean'
    BY <1>1 DEF NextRequestID, TypeOK, Id, Unregistered, IInv, UnregisteredClean
  <2>3. ReaderNeverBlocks'
    BY <1>1 DEF NextRequestID, IInv, ReaderNeverBlocks
  <2>4. PendingClean'
    BY <1>1 DEF NextRequestID, IInv, ReaderNeverBlocks, PendingClean
  <2>5. PendingIsLive'
    BY <1>1 DEF NextRequestID, IInv, PendingIsLive, WaitingServed, RepliesKept
  <2>6. WaitingServed'
    BY <1>1 DEF NextRequestID, IInv, WaitingServed
  <2>7. RepliesKept'
    BY <1>1 DEF NextRequestID, IInv, RepliesKept
  <2> QED
    BY <1>0, <2>1, <2>2, <2>3, <2>4, <2>5, <2>6, <2>7 DEF IInv
<1>2. ASSUME NEW c \in Caller, RegisterPendingResponse(c) PROVE IInv'
  <2>1. OwnIds'
    BY <1>2 DEF RegisterPendingResponse, IInv, OwnIds
  <2>2. UnregisteredClean'
    <3> SUFFICES ASSUME NEW i \in Id, Unregistered(i)'
                 PROVE  /\ i \notin pendingResponses'
                        /\ respCh'[i] = "none"
                        /\ reader'.key # i
                        /\ outcome'[i] = "open"
                        /\ earlyResponses'[i] = "none" => replies'[i] = {}
      BY DEF UnregisteredClean
    <3>1. Unregistered(i) /\ i # reqID[c]
      BY <1>2 DEF RegisterPendingResponse, Unregistered, IInv, OwnIds, TypeOK, Id
    <3> QED
      BY <1>2, <3>1 DEF RegisterPendingResponse, UnregisteredClean, IInv, TypeOK, Key
  <2>3. ReaderNeverBlocks'
    BY <1>2
       DEF RegisterPendingResponse, TypeOK, Unregistered, IInv, UnregisteredClean,
           ReaderNeverBlocks
  <2>4. PendingClean'
    BY <1>2
       DEF RegisterPendingResponse, TypeOK, Unregistered, IInv, UnregisteredClean,
           PendingClean
  <2>5. PendingIsLive'
    BY <1>2 DEF RegisterPendingResponse, TypeOK, IInv, PendingIsLive
  <2>6. WaitingServed'
    BY <1>2
       DEF RegisterPendingResponse, TypeOK, Unregistered, IInv, UnregisteredClean,
           WaitingServed
  <2>7. RepliesKept'
    BY <1>2 DEF RegisterPendingResponse, RepliesKept, IInv, TypeOK, Key
  <2> QED
    BY <1>0, <2>1, <2>2, <2>3, <2>4, <2>5, <2>6, <2>7 DEF IInv
<1>3. ASSUME NEW c \in Caller, WriteRequest(c) PROVE IInv'
  <2>1. OwnIds'
    <3>1. \A d \in Caller : pc'[d] # "idle" => pc[d] # "idle"
      BY <1>0, <1>3 DEF WriteRequest, Finish, TypeOK
    <3> QED
      BY <1>3, <3>1 DEF WriteRequest, OwnIds, IInv
  <2>2. UnregisteredClean'
    BY <1>3
       DEF WriteRequest, Finish, TypeOK, Unregistered, IInv, UnregisteredClean,
           WaitingServed
  <2>3. ReaderNeverBlocks'
    BY <1>3 DEF WriteRequest, IInv, ReaderNeverBlocks
  <2>4. PendingClean'
    BY <1>3 DEF WriteRequest, IInv, PendingClean
  <2>5. PendingIsLive'
    <3>1. \A d \in Caller : pc[d] \in {"write", "select", "unregister"} =>
                            pc'[d] \in {"write", "select", "unregister"}
      BY <1>0, <1>3 DEF WriteRequest, Finish, TypeOK
    <3> QED
      BY <1>3, <3>1 DEF WriteRequest, PendingIsLive, IInv
  <2>6. WaitingServed'
    BY <1>3 DEF WriteRequest, Finish, TypeOK, IInv, OwnIds, WaitingServed
  <2>7. RepliesKept'
    BY <1>3 DEF WriteRequest, IInv, RepliesKept
  <2> QED
    BY <1>0, <2>1, <2>2, <2>3, <2>4, <2>5, <2>6, <2>7 DEF IInv
<1>4. ASSUME NEW c \in Caller, SelectResponse(c) PROVE IInv'
  <2>1. OwnIds'
    BY <1>4 DEF SelectResponse, Finish, IInv, OwnIds
  <2>2. UnregisteredClean'
    BY <1>4 DEF SelectResponse, Finish, Unregistered, IInv, UnregisteredClean
  <2>3. ReaderNeverBlocks'
    BY <1>4 DEF SelectResponse, IInv, ReaderNeverBlocks
  <2>4. PendingClean'
    BY <1>4 DEF SelectResponse, IInv, ReaderNeverBlocks, PendingClean
  <2>5. PendingIsLive'
    <3>1. \A d \in Caller : pc[d] \in {"write", "select", "unregister"} =>
                            pc'[d] \in {"write", "select", "unregister"}
      BY <1>4 DEF SelectResponse, Finish
    <3> QED
      BY <1>4, <3>1 DEF SelectResponse, PendingIsLive, IInv
  <2>6. WaitingServed'
    BY <1>4 DEF SelectResponse, Finish, TypeOK, IInv, OwnIds, WaitingServed
  <2>7. RepliesKept'
    BY <1>4 DEF SelectResponse, IInv, RepliesKept
  <2> QED
    BY <1>0, <2>1, <2>2, <2>3, <2>4, <2>5, <2>6, <2>7 DEF IInv
<1>5. ASSUME NEW c \in Caller, SelectDone(c) PROVE IInv'
  <2>1. OwnIds'
    BY <1>5 DEF SelectDone, Finish, IInv, OwnIds
  <2>2. UnregisteredClean'
    BY <1>5 DEF SelectDone, Finish, Unregistered, IInv, UnregisteredClean, WaitingServed
  <2>3. ReaderNeverBlocks'
    BY <1>5 DEF SelectDone, IInv, ReaderNeverBlocks
  <2>4. PendingClean'
    BY <1>5 DEF SelectDone, IInv, PendingClean
  <2>5. PendingIsLive'
    BY <1>5 DEF SelectDone, Finish, IInv, PendingIsLive
  <2>6. WaitingServed'
    BY <1>5 DEF SelectDone, Finish, TypeOK, IInv, OwnIds, WaitingServed
  <2>7. RepliesKept'
    BY <1>5 DEF SelectDone, IInv, RepliesKept
  <2> QED
    BY <1>0, <2>1, <2>2, <2>3, <2>4, <2>5, <2>6, <2>7 DEF IInv
<1>6. ASSUME NEW c \in Caller, UnregisterPendingResponse(c) PROVE IInv'
  <2>1. OwnIds'
    BY <1>6 DEF UnregisterPendingResponse, IInv, OwnIds
  <2>2. UnregisteredClean'
    BY <1>6 DEF UnregisterPendingResponse, Unregistered, IInv, UnregisteredClean
  <2>3. ReaderNeverBlocks'
    BY <1>6 DEF UnregisterPendingResponse, IInv, ReaderNeverBlocks
  <2>4. PendingClean'
    BY <1>6 DEF UnregisterPendingResponse, IInv, PendingClean
  <2>5. PendingIsLive'
    BY <1>6 DEF UnregisterPendingResponse, IInv, PendingIsLive
  <2>6. WaitingServed'
    BY <1>6 DEF UnregisterPendingResponse, IInv, OwnIds, WaitingServed
  <2>7. RepliesKept'
    BY <1>6 DEF UnregisterPendingResponse, IInv, RepliesKept
  <2> QED
    BY <1>0, <2>1, <2>2, <2>3, <2>4, <2>5, <2>6, <2>7 DEF IInv
<1>7. ASSUME NEW c \in Caller, CancelContext(c) PROVE IInv'
  BY <1>0, <1>7 DEF CancelContext, IInv, OwnIds, Unregistered, UnregisteredClean,
     ReaderNeverBlocks, PendingClean, PendingIsLive, WaitingServed, RepliesKept
<1>8. ASSUME NEW c \in Caller, NextTurn(c) PROVE IInv'
  BY <1>0, <1>8 DEF NextTurn, IInv, OwnIds, Unregistered, UnregisteredClean,
     ReaderNeverBlocks, PendingClean, PendingIsLive, WaitingServed, RepliesKept
<1>9. ASSUME NEW k \in Key, NEW v \in Reply, HandleClientResponse(k, v) PROVE IInv'
  <2>1. OwnIds'
    BY <1>9 DEF HandleClientResponse, IInv, OwnIds
  <2>2. UnregisteredClean'
    <3> SUFFICES ASSUME NEW i \in Id, Unregistered(i)'
                 PROVE  /\ i \notin pendingResponses'
                        /\ respCh'[i] = "none"
                        /\ reader'.key # i
                        /\ outcome'[i] = "open"
                        /\ earlyResponses'[i] = "none" => replies'[i] = {}
      BY DEF UnregisteredClean
    <3>1. Unregistered(i)
      BY <1>9 DEF HandleClientResponse, Unregistered
    <3>2. CASE k \in pendingResponses
      BY <1>0, <1>9, <3>1, <3>2
         DEF HandleClientResponse, Holding, UnregisteredClean, IInv, TypeOK, Key
    <3>3. CASE k \notin pendingResponses
      BY <1>0, <1>9, <3>1, <3>3
         DEF HandleClientResponse, UnregisteredClean, IInv, TypeOK, Key, Reply
    <3> QED
      BY <3>2, <3>3
  <2>3. ReaderNeverBlocks'
    BY <1>9 DEF HandleClientResponse, Holding, IInv, ReaderNeverBlocks, PendingClean
  <2>4. PendingClean'
    BY <1>9 DEF HandleClientResponse, Holding, IInv, PendingClean
  <2>5. PendingIsLive'
    BY <1>9 DEF HandleClientResponse, IInv, PendingIsLive
  <2>6. WaitingServed'
    BY <1>9 DEF HandleClientResponse, Holding, TypeOK, Id, Idle, IInv, WaitingServed
  <2>7. RepliesKept'
    <3>1. \A i \in Id : replies[i] \subseteq replies'[i]
      BY <1>9 DEF HandleClientResponse
    <3>2. k \in Id => v \in replies'[k]
      BY <1>0, <1>9 DEF HandleClientResponse, TypeOK
    <3>3. \A i \in Id : respCh'[i] # "none" => respCh'[i] \in replies'[i]
      BY <1>9 DEF HandleClientResponse, RepliesKept, IInv
    <3>4. \A i \in Id : earlyResponses'[i] # "none" => earlyResponses'[i] \in replies'[i]
      BY <1>9 DEF HandleClientResponse, RepliesKept, IInv, TypeOK, Key
    <3>5. reader' # Idle => reader'.reply \in replies'[reader'.key]
      BY <1>0, <1>9 DEF HandleClientResponse, Holding, TypeOK
    <3> QED
      BY <3>3, <3>4, <3>5 DEF RepliesKept
  <2> QED
    BY <1>0, <2>1, <2>2, <2>3, <2>4, <2>5, <2>6, <2>7 DEF IInv
<1>10. CASE SendToChannel
  <2>1. OwnIds'
    BY <1>10 DEF SendToChannel, IInv, OwnIds
  <2>2. UnregisteredClean'
    BY <1>10 DEF SendToChannel, Id, Idle, Unregistered, IInv, UnregisteredClean
  <2>3. ReaderNeverBlocks'
    BY <1>10 DEF SendToChannel, ReaderNeverBlocks
  <2>4. PendingClean'
    BY <1>10 DEF SendToChannel, TypeOK, Id, Idle, IInv, ReaderNeverBlocks, PendingClean
  <2>5. PendingIsLive'
    BY <1>10 DEF SendToChannel, IInv, PendingClean, PendingIsLive
  <2>6. WaitingServed'
    <3> SUFFICES ASSUME NEW c \in Caller, pc'[c] \in {"write", "select"}
                 PROVE  /\ outcome'[reqID'[c]] = "open"
                        /\ \/ reqID'[c] \in pendingResponses'
                           \/ respCh'[reqID'[c]] # "none"
                           \/ reader'.key = reqID'[c]
      BY DEF WaitingServed
    <3>1. reader.key \in Id /\ reader.reply \in Reply
      BY <1>0, <1>10 DEF SendToChannel, TypeOK
    <3> QED
      BY <1>10 DEF SendToChannel, WaitingServed, IInv, TypeOK, Reply
  <2>7. RepliesKept'
    BY <1>10 DEF SendToChannel, IInv, RepliesKept
  <2> QED
    BY <1>0, <2>1, <2>2, <2>3, <2>4, <2>5, <2>6, <2>7 DEF IInv
<1>11. CASE UNCHANGED vars
  BY <1>0, <1>11 DEF vars, IInv, OwnIds, Unregistered, UnregisteredClean, ReaderNeverBlocks,
     PendingClean, PendingIsLive, WaitingServed, RepliesKept
<1> QED
  BY <1>1, <1>2, <1>3, <1>4, <1>5, <1>6, <1>7, <1>8, <1>9, <1>10, <1>11 DEF Next, CallStep

\* The invariant holds in every reachable state.
LEMMA Invariance == Spec => []IInv
  BY InvInit, InvStep, PTL DEF Spec

\* handleClientResponse never finds the channel it sends to full, so the scan
\* loop is never stopped by an answer.
THEOREM ReaderIsNeverBlocked == Spec => []ReaderNeverBlocks
<1>1. IInv => ReaderNeverBlocks
  BY DEF IInv
<1> QED
  BY <1>1, Invariance, PTL

\* pendingResponses holds nothing but calls in progress.
THEOREM PendingIsAlwaysLive == Spec => []PendingIsLive
<1>1. IInv => PendingIsLive
  BY DEF IInv
<1> QED
  BY <1>1, Invariance, PTL

\* An answer read at any moment reaches the call it is for, if that call is
\* still waiting.
THEOREM ResponsesAreNotLost == Spec => []NoLostResponse
<1>1. IInv => NoLostResponse
  BY DEF IInv, PendingClean, WaitingServed, NoLostResponse
<1> QED
  BY <1>1, Invariance, PTL

-----------------------------------------------------------------------------

\* Every step of the bridge is a step of the contract or leaves it alone.
LEMMA ContractStep == IInv /\ [Next]_vars => [Contract!Next]_(Contract!cvars)
<1> SUFFICES ASSUME IInv, [Next]_vars
             PROVE  Contract!Next \/ UNCHANGED <<requestIDCounter, replies, outcome>>
  BY DEF Contract!cvars
<1> USE DEF Contract!Id
<1>0. TypeOK
  BY DEF IInv
<1>1. ASSUME NEW c \in Caller, NextRequestID(c) PROVE Contract!Next
  BY <1>1 DEF NextRequestID, Contract!Next, Contract!Issue
<1>2. \A c \in Caller : RegisterPendingResponse(c) =>
        UNCHANGED <<requestIDCounter, replies, outcome>>
  BY DEF RegisterPendingResponse
<1>3. \A c \in Caller : pc[c] \in {"write", "select"} =>
        /\ reqID[c] \in Id
        /\ reqID[c] <= requestIDCounter
        /\ outcome[reqID[c]] = "open"
  BY <1>0 DEF IInv, TypeOK, OwnIds, WaitingServed
<1>4. ASSUME NEW c \in Caller, WriteRequest(c)
      PROVE  Contract!Next \/ UNCHANGED <<requestIDCounter, replies, outcome>>
  <2>1. CASE UNCHANGED outcome
    BY <1>4, <2>1 DEF WriteRequest
  <2>2. CASE Finish(c, "write_failed")
    <3>1. Contract!Return(reqID[c], "write_failed")
      BY <1>3, <1>4, <2>2 DEF WriteRequest, Finish, Contract!Return
    <3> QED
      BY <1>3, <1>4, <3>1 DEF WriteRequest, Contract!Next, Id
  <2> QED
    BY <1>4, <2>1, <2>2 DEF WriteRequest
<1>5. ASSUME NEW c \in Caller, SelectResponse(c) PROVE Contract!Next
  <2>1. reqID[c] \in Id /\ respCh[reqID[c]] \in replies[reqID[c]]
    BY <1>3, <1>5 DEF SelectResponse, IInv, RepliesKept
  <2>2. respCh[reqID[c]] \in Reply
    BY <1>0, <2>1 DEF TypeOK
  <2>3. Contract!Return(reqID[c], respCh[reqID[c]])
    BY <1>3, <1>5, <2>1 DEF SelectResponse, Finish, Contract!Return
  <2> QED
    BY <2>1, <2>2, <2>3 DEF Contract!Next, Id
<1>6. ASSUME NEW c \in Caller, SelectDone(c) PROVE Contract!Next
  <2>1. Contract!Return(reqID[c], "cancelled")
    BY <1>3, <1>6 DEF SelectDone, Finish, Contract!Return
  <2> QED
    BY <1>3, <1>6, <2>1 DEF SelectDone, Contract!Next, Id
<1>7. \A c \in Caller :
        UnregisterPendingResponse(c) \/ CancelContext(c) \/ NextTurn(c) =>
          UNCHANGED <<requestIDCounter, replies, outcome>>
  BY DEF UnregisterPendingResponse, CancelContext, NextTurn
<1>8. ASSUME NEW k \in Key, NEW v \in Reply, HandleClientResponse(k, v)
      PROVE  Contract!Next \/ UNCHANGED <<requestIDCounter, replies, outcome>>
  <2>1. CASE k \in Id
    <3>1. Contract!Answer(k, v)
      BY <1>8, <2>1 DEF HandleClientResponse, Contract!Answer
    <3> QED
      BY <2>1, <3>1 DEF Contract!Next, Id
  <2>2. CASE k \notin Id
    BY <1>8, <2>2 DEF HandleClientResponse
  <2> QED
    BY <2>1, <2>2
<1>9. SendToChannel => UNCHANGED <<requestIDCounter, replies, outcome>>
  BY DEF SendToChannel
<1>10. CASE UNCHANGED vars
  BY <1>10 DEF vars
<1> QED
  BY <1>1, <1>2, <1>4, <1>5, <1>6, <1>7, <1>8, <1>9, <1>10 DEF Next, CallStep

\* The bridge implements its contract: an identifier is issued once, closed at
\* most once, and closed only with a reply the client gave to that identifier,
\* with the end of its caller's context, or with a failed write.
THEOREM BridgeImplementsContract == Spec => ContractSpec
<1>1. Init => Contract!Init
  BY DEF Init, Contract!Init, Id, Contract!Id
<1>2. IInv /\ [Next]_vars => [Contract!Next]_(Contract!cvars)
  BY ContractStep
<1> QED
  BY <1>1, <1>2, Invariance, PTL DEF Spec, ContractSpec, Contract!Spec

=============================================================================
