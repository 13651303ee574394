-------------------------- MODULE EndpointContract --------------------------
(***************************************************************************)
(* What an Endpoint promises to the connections that share its server, for *)
(* both transports and without their pumps, pipes, buffers and locks: one  *)
(* connection at a time has the server, and has it once; its requests are  *)
(* handled while it has it, all of those that were begun are through when  *)
(* it gives it up, and a peer is given answers to its own requests, none   *)
(* after its connection has returned.                                      *)
(***************************************************************************)

CONSTANTS Conn,     \* connections: WebSocket connections and POSTs
          Request,  \* what the peers may send
          None      \* no connection

VARIABLES serving,   \* the connection that has the server
          begun,     \* those that had it, or have it
          home,      \* [Request -> Conn \cup {None}] the connection it came on
          stage,     \* [Request -> "new", "sent", "handled" or "answered"]
          got,       \* [Conn -> SUBSET Request] answers that the peer was given
          returned   \* connections that are over

cvars == <<serving, begun, home, stage, got, returned>>

Init ==
  /\ serving = None
  /\ begun = {}
  /\ home = [r \in Request |-> None]
  /\ stage = [r \in Request |-> "new"]
  /\ got = [c \in Conn |-> {}]
  /\ returned = {}

\* The peer of c sends a request; it need not wait for its turn.
Send(c, r) ==
  /\ c \notin returned
  /\ stage[r] = "new"
  /\ home' = [home EXCEPT ![r] = c]
  /\ stage' = [stage EXCEPT ![r] = "sent"]
  /\ UNCHANGED <<serving, begun, got, returned>>

Begin(c) ==
  /\ serving = None
  /\ c \notin begun
  /\ serving' = c
  /\ begun' = begun \cup {c}
  /\ UNCHANGED <<home, stage, got, returned>>

Advance(r, from, to) ==
  /\ serving = home[r]
  /\ stage[r] = from
  /\ stage' = [stage EXCEPT ![r] = to]
  /\ UNCHANGED <<serving, begun, home, got, returned>>

Handle(r) == Advance(r, "sent", "handled")
Answer(r) == Advance(r, "handled", "answered")

Answered(c) == {r \in Request : home[r] = c /\ stage[r] = "answered"}

\* An answer may reach the peer long after it was written.
Deliver(c, r) ==
  /\ c \notin returned
  /\ r \in Answered(c)
  /\ got' = [got EXCEPT ![c] = @ \cup {r}]
  /\ UNCHANGED <<serving, begun, home, stage, returned>>

End(c) ==
  /\ serving = c
  /\ \A r \in Request : home[r] = c => stage[r] # "handled"
  /\ serving' = None
  /\ UNCHANGED <<begun, home, stage, got, returned>>

\* The connection is over; a POST is given all its answers now, or an error.
Return(c, all) ==
  /\ c \in begun \ returned
  /\ serving # c
  /\ got' = IF all THEN [got EXCEPT ![c] = Answered(c)] ELSE got
  /\ returned' = returned \cup {c}
  /\ UNCHANGED <<serving, begun, home, stage>>

Next ==
  \/ \E c \in Conn : Begin(c) \/ End(c)
  \/ \E r \in Request : Handle(r) \/ Answer(r)
  \/ \E c \in Conn, r \in Request : Send(c, r) \/ Deliver(c, r)
  \/ \E c \in Conn, all \in BOOLEAN : Return(c, all)

Spec == Init /\ [][Next]_cvars

=============================================================================
