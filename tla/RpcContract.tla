---------------------------- MODULE RpcContract ----------------------------
(***************************************************************************)
(* What callClient promises about the requests the agent sends to the ACP  *)
(* client, without saying how: identifiers are issued in order and never   *)
(* reused, a call is closed at most once, and what it is closed with is    *)
(* either a reply the client gave to that very identifier, the             *)
(* cancellation of the caller's context, or a failed write.                *)
(***************************************************************************)
EXTENDS Naturals

CONSTANTS MaxCalls,  \* how many identifiers a behaviour may issue
          Reply      \* the kinds of reply a client can send

VARIABLES issued,    \* number of identifiers handed out so far
          replies,   \* [Id -> SUBSET Reply] replies read for the identifier
          outcome    \* [Id -> Outcome \cup {"open"}] what the call returned

cvars == <<issued, replies, outcome>>

Id == 1 .. MaxCalls

\* Open an identifier for a new call.
Issue ==
  /\ issued < MaxCalls
  /\ issued' = issued + 1
  /\ UNCHANGED <<replies, outcome>>

\* The client answers an identifier: also one not issued yet, or again.
Answer(i, v) ==
  /\ replies' = [replies EXCEPT ![i] = @ \cup {v}]
  /\ UNCHANGED <<issued, outcome>>

\* The call returns, once, with something that belongs to it.
Return(i, v) ==
  /\ i <= issued
  /\ outcome[i] = "open"
  /\ v \in replies[i] \cup {"cancelled", "write_failed"}
  /\ outcome' = [outcome EXCEPT ![i] = v]
  /\ UNCHANGED <<issued, replies>>

Init ==
  /\ issued = 0
  /\ replies = [i \in Id |-> {}]
  /\ outcome = [i \in Id |-> "open"]

Next ==
  \/ Issue
  \/ \E i \in Id, v \in Reply : Answer(i, v)
  \/ \E i \in Id : \E v \in Reply \cup {"cancelled", "write_failed"} : Return(i, v)

Spec == Init /\ [][Next]_cvars

=============================================================================
