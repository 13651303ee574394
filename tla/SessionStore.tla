---------------------------- MODULE SessionStore ----------------------------
(***************************************************************************)
(* The sessions and the client capabilities of a Server, as the requests   *)
(* that write and read them in parallel see them: initialize, session/new, *)
(* session/load, session/list and session/prompt (request_handlers.go,     *)
(* newRuntimeToolInvoker in tool_invoker.go).                              *)
(*                                                                         *)
(* Of a binding (cwd and mcpServers) and of the capabilities only the      *)
(* place in the order of writes matters, their version; version 0 of a     *)
(* session is no session.  A critical section of session.mu or             *)
(* clientCapsMu is one action; sessionsMu is held across the steps of      *)
(* session/list, and session/new waits for it.  The filter of session/list *)
(* works on rows that were read already and is left out, like everything   *)
(* about cancellation, which is PromptTurn's concern.                      *)
(***************************************************************************)
EXTENDS Naturals, FiniteSets

CONSTANTS
  Request,   \* requests of the client
  Session,   \* session identifiers
  Caps,      \* the key of clientCaps among the things that have versions
  MaxTime,   \* bound on the clock
  None       \* no session

Key == Session \cup {Caps}

ASSUME StoreAssumption ==
  /\ Caps \notin Session
  /\ None \notin Session
  /\ MaxTime \in Nat \ {0}

VARIABLES
  version,   \* [Key -> Nat] how often it was written
  updated,   \* [Session -> 0..MaxTime] updatedAt, 0 before there is a session
  now,       \* the clock
  pc,        \* [Request -> where its handler is]
  op,        \* [Request -> method]
  sid,       \* [Request -> Session \cup {None}] the session it is about
  outcome,   \* [Request -> what was answered]
  before,    \* history: [Request -> SUBSET Request] answered when it was sent
  saw,       \* history: [Request -> versions it wrote or read]
  stamps     \* history: [Request -> times it stored or read]

storeVars == <<version, updated, now>>
reqVars == <<op, sid, before>>
vars == <<version, updated, now, pc, op, sid, outcome, before, saw, stamps>>

Method == {"initialize", "new", "load", "list", "prompt"}
Sight == [key : Key, version : Nat]
Stamp == [key : Session, time : 0 .. MaxTime]

\* Sessions of an earlier Serve may be there.
Init ==
  /\ now = 1
  /\ version \in [Key -> {0, 1}] /\ version[Caps] = 0
  /\ updated = [s \in Session |-> version[s]]
  /\ pc = [r \in Request |-> "unsent"]
  /\ op = [r \in Request |-> "initialize"]
  /\ sid = [r \in Request |-> None]
  /\ outcome = [r \in Request |-> "open"]
  /\ before = [r \in Request |-> {}]
  /\ saw = [r \in Request |-> {}]
  /\ stamps = [r \in Request |-> {}]

-----------------------------------------------------------------------------

Answered == {r \in Request : pc[r] = "done"}

Goto(r, l) == pc' = [pc EXCEPT ![r] = l]
Sees(r, S) == saw' = [saw EXCEPT ![r] = @ \cup S]
Stamps(r, S) == stamps' = [stamps EXCEPT ![r] = @ \cup S]
Has(k, n) == {[key |-> k, version |-> n]}
At(s, t) == {[key |-> s, time |-> t]}

Answer(r, v) ==
  /\ outcome' = [outcome EXCEPT ![r] = v]
  /\ Goto(r, "respond")

\* Bound: session/new is sent while an identifier is left for it.
IdentifierLeft ==
  Cardinality({q \in Request : op[q] = "new" /\ pc[q] \in {"start", "lock"}})
    < Cardinality({s \in Session : version[s] = 0})

\* The scan loop starts a handler, for parameters that are good or bad; the
\* client may have made the session up.
Read(r, m, s) ==
  /\ pc[r] = "unsent"
  /\ s = None <=> m \notin {"load", "prompt"}
  /\ m = "new" => IdentifierLeft
  /\ \E l \in {"start", "bad"} : Goto(r, l)
  /\ op' = [op EXCEPT ![r] = m]
  /\ sid' = [sid EXCEPT ![r] = s]
  /\ before' = [before EXCEPT ![r] = Answered]
  /\ UNCHANGED <<storeVars, outcome, saw, stamps>>

\* writeResult, writeError
Respond(r) ==
  /\ pc[r] = "respond"
  /\ Goto(r, "done")
  /\ UNCHANGED <<storeVars, reqVars, outcome, saw, stamps>>

\* Parameters that do not decode, a bad cwd, a cursor.
Reject(r) ==
  /\ pc[r] = "bad"
  /\ Answer(r, "rejected")
  /\ UNCHANGED <<storeVars, reqVars, saw, stamps>>

Tick ==
  /\ now < MaxTime
  /\ now' = now + 1
  /\ UNCHANGED <<version, updated, pc, reqVars, outcome, saw, stamps>>

-----------------------------------------------------------------------------
(* initialize and the write side of the sessions.                          *)

Initialize(r) ==
  /\ pc[r] = "start" /\ op[r] = "initialize"
  /\ version' = [version EXCEPT ![Caps] = @ + 1]
  /\ Sees(r, Has(Caps, version[Caps] + 1))
  /\ Answer(r, "ok")
  /\ UNCHANGED <<updated, now, reqVars, stamps>>

Readers == {r \in Request : pc[r] = "list"}
Writers == {r \in Request : pc[r] = "lock"}

\* newSessionID, and sessionsMu.Lock: one writer at a time, and from here on no
\* reader is let in.
LockSessions(r, s) ==
  /\ pc[r] = "start" /\ op[r] = "new" /\ Writers = {}
  /\ version[s] = 0
  /\ sid' = [sid EXCEPT ![r] = s]
  /\ Goto(r, "lock")
  /\ UNCHANGED <<storeVars, op, before, outcome, saw, stamps>>

\* Mutant: the session gets no time, which session/list shows as none.
PutSession_NoTime(r) ==
  LET s == sid[r] IN
  /\ pc[r] = "lock" /\ Readers = {}
  /\ version' = [version EXCEPT ![s] = 1]
  /\ Sees(r, Has(s, 1)) /\ Stamps(r, At(s, now))
  /\ Answer(r, "ok")
  /\ UNCHANGED <<updated, now, reqVars>>

\* The session is in the map once the readers have left.
PutSession(r) ==
  LET s == sid[r] IN
  /\ pc[r] = "lock" /\ Readers = {}
  /\ version' = [version EXCEPT ![s] = 1]
  /\ updated' = [updated EXCEPT ![s] = now]
  /\ Sees(r, Has(s, 1)) /\ Stamps(r, At(s, now))
  /\ Answer(r, "ok")
  /\ UNCHANGED <<now, reqVars>>

\* A prompt may be over before it looks at its binding: it is empty, its
\* session was cancelled, or its first update was refused.
EndsEarly(r) == op[r] = "prompt" /\ Answer(r, "failed")

\* Mutant: session/load answers before it stores.
GetSession_AnswersFirst(r) ==
  /\ pc[r] = "start" /\ op[r] \in {"load", "prompt"} /\ Writers = {}
  /\ \/ /\ version[sid[r]] = 0
        /\ Answer(r, "unknown")
        /\ UNCHANGED saw
     \/ /\ version[sid[r]] # 0
        /\ Goto(r, IF op[r] = "load" THEN "done" ELSE "snapshot")
        /\ IF op[r] = "load" THEN Sees(r, Has(sid[r], version[sid[r]] + 1))
           ELSE UNCHANGED saw
        /\ UNCHANGED outcome
     \/ version[sid[r]] # 0 /\ EndsEarly(r) /\ UNCHANGED saw
  /\ UNCHANGED <<storeVars, reqVars, stamps>>

\* Mutant: the map is read while it is being written to.
GetSession_Misses(r) ==
  /\ pc[r] = "start" /\ op[r] \in {"load", "prompt"}
  /\ \/ /\ version[sid[r]] = 0 \/ Writers # {}
        /\ Answer(r, "unknown")
     \/ /\ version[sid[r]] # 0
        /\ Goto(r, IF op[r] = "load" THEN "bind" ELSE "snapshot")
        /\ UNCHANGED outcome
     \/ version[sid[r]] # 0 /\ EndsEarly(r)
  /\ UNCHANGED <<storeVars, reqVars, saw, stamps>>

\* getSession, for session/load and session/prompt.
GetSession(r) ==
  /\ pc[r] = "start" /\ op[r] \in {"load", "prompt"} /\ Writers = {}
  /\ \/ /\ version[sid[r]] = 0
        /\ Answer(r, "unknown")
     \/ /\ version[sid[r]] # 0
        /\ Goto(r, IF op[r] = "load" THEN "bind" ELSE "snapshot")
        /\ UNCHANGED outcome
     \/ version[sid[r]] # 0 /\ EndsEarly(r)
  /\ UNCHANGED <<storeVars, reqVars, saw, stamps>>

\* session/load under session.mu.
BindSession(r) ==
  LET s == sid[r] IN
  /\ pc[r] = "bind"
  /\ version' = [version EXCEPT ![s] = @ + 1]
  /\ updated' = [updated EXCEPT ![s] = now]
  /\ Sees(r, Has(s, version[s] + 1)) /\ Stamps(r, At(s, now))
  /\ Answer(r, "ok")
  /\ UNCHANGED <<now, reqVars>>

-----------------------------------------------------------------------------
(* session/prompt.                                                         *)

\* One section of session.mu: the binding, and the tool invoker with the
\* capabilities of this moment.
TakeSnapshot(r) ==
  /\ pc[r] = "snapshot"
  /\ Sees(r, Has(sid[r], version[sid[r]]) \cup Has(Caps, version[Caps]))
  /\ Goto(r, "config")
  /\ UNCHANGED <<storeVars, reqVars, outcome, stamps>>

\* emitSessionContextUpdates reads the capabilities again.
EmitContext(r) ==
  /\ pc[r] = "config"
  /\ \/ Sees(r, Has(Caps, version[Caps])) /\ Goto(r, "exec") /\ UNCHANGED outcome
     \/ Answer(r, "failed") /\ UNCHANGED saw
  /\ UNCHANGED <<storeVars, reqVars, stamps>>

\* Mutant: the clock is read before session.mu is taken.
StreamReply_OldTime(r) ==
  /\ pc[r] = "exec"
  /\ \E t \in 1 .. now :
       /\ updated' = [updated EXCEPT ![sid[r]] = t]
       /\ Stamps(r, At(sid[r], t))
  /\ Answer(r, "ok")
  /\ UNCHANGED <<version, now, reqVars, saw>>

\* StreamReply returns; without an error the turn touches its session.
StreamReply(r) ==
  /\ pc[r] = "exec"
  /\ \/ /\ updated' = [updated EXCEPT ![sid[r]] = now]
        /\ Stamps(r, At(sid[r], now))
        /\ Answer(r, "ok")
     \/ /\ Answer(r, "failed")
        /\ UNCHANGED <<updated, stamps>>
  /\ UNCHANGED <<version, now, reqVars, saw>>

-----------------------------------------------------------------------------
(* session/list.                                                           *)

\* sessionsMu.RLock waits for the writers that came first.
LockForReading(r) ==
  /\ pc[r] = "start" /\ op[r] = "list" /\ Writers = {}
  /\ Goto(r, "list")
  /\ UNCHANGED <<storeVars, reqVars, outcome, saw, stamps>>

Listed(r) == {a.key : a \in saw[r]}

\* Mutant: each row is looked up with getSession, inside the read lock.
ListRow_Reenters(r, s) ==
  /\ pc[r] = "list" /\ Writers = {}
  /\ version[s] # 0 /\ s \notin Listed(r)
  /\ Sees(r, Has(s, version[s])) /\ Stamps(r, At(s, updated[s]))
  /\ UNCHANGED <<storeVars, pc, reqVars, outcome>>

\* Each session in turn, in the random order of the map, under its session.mu.
ListRow(r, s) ==
  /\ pc[r] = "list"
  /\ version[s] # 0 /\ s \notin Listed(r)
  /\ Sees(r, Has(s, version[s])) /\ Stamps(r, At(s, updated[s]))
  /\ UNCHANGED <<storeVars, pc, reqVars, outcome>>

\* Mutant: the loop may stop at any row.
ListEnds_Early(r) ==
  /\ pc[r] = "list"
  /\ Answer(r, "ok")
  /\ UNCHANGED <<storeVars, reqVars, saw, stamps>>

ListEnds(r) ==
  /\ pc[r] = "list"
  /\ \A s \in Session : version[s] # 0 => s \in Listed(r)
  /\ Answer(r, "ok")
  /\ UNCHANGED <<storeVars, reqVars, saw, stamps>>

-----------------------------------------------------------------------------

\* Every request was answered.
Idle ==
  /\ Answered = Request
  /\ UNCHANGED vars

\* Steps of a handler on its way to its first write.
HandlerStep(r) ==
  \/ Reject(r)
  \/ Initialize(r)
  \/ \E s \in Session : LockSessions(r, s)
  \/ PutSession(r)
  \/ GetSession(r)
  \/ BindSession(r)
  \/ LockForReading(r)
  \/ \E s \in Session : ListRow(r, s)
  \/ ListEnds(r)

\* Steps with or after a write to the client, which may block for ever.
WritingStep(r) ==
  \/ TakeSnapshot(r)
  \/ EmitContext(r)
  \/ Respond(r)

Next ==
  \/ \E r \in Request, m \in Method, s \in Session \cup {None} : Read(r, m, s)
  \/ \E r \in Request : HandlerStep(r) \/ WritingStep(r) \/ StreamReply(r)
  \/ Tick
  \/ Idle

Spec == Init /\ [][Next]_vars

\* Goroutines that can run do.  The executor is free never to return, and the
\* client never to read.
FairSpec == Spec /\ \A r \in Request : WF_vars(HandlerStep(r))

-----------------------------------------------------------------------------
(* Properties.                                                             *)

\* Every variable has its type, and a session in the map has a time.
TypeOK ==
  /\ version \in [Key -> Nat]
  /\ updated \in [Session -> 0 .. MaxTime]
  /\ \A s \in Session : version[s] # 0 <=> updated[s] # 0
  /\ now \in 1 .. MaxTime
  /\ pc \in [Request -> {"unsent", "start", "bad", "lock", "bind", "snapshot", "config",
                         "exec", "list", "respond", "done"}]
  /\ op \in [Request -> Method]
  /\ sid \in [Request -> Session \cup {None}]
  /\ \A r \in Request : op[r] \in {"load", "prompt"} \/ pc[r] = "lock" => sid[r] # None
  /\ outcome \in [Request -> {"open", "rejected", "unknown", "failed", "ok"}]
  /\ before \in [Request -> SUBSET Request]
  /\ saw \in [Request -> SUBSET Sight]
  /\ stamps \in [Request -> SUBSET Stamp]

\* A request never sees a binding or capabilities older than those that a
\* request answered before it was sent had written or seen: a turn runs in the
\* directory of the last session/load its client knows of, whatever handlers
\* are still on their way.
ReadsAreFresh ==
  \A r \in Request : \A q \in before[r] :
    \A a \in saw[q], b \in saw[r] : a.key = b.key => a.version <= b.version

\* The times a client is told never go back: neither session_info_update nor
\* session/list shows a session older than an answer before the request did,
\* with turns and loads of the session side by side.
TimesNeverGoBack ==
  \A r \in Request : \A q \in before[r] :
    \A a \in stamps[q], b \in stamps[r] : a.key = b.key => a.time <= b.time

\* A session that was named in an answer is in every list asked for later, and
\* in each list once, with sessions being added and loaded meanwhile.
ListsAreComplete ==
  \A r \in Request : op[r] = "list" /\ outcome[r] = "ok" =>
    /\ \A q \in before[r] : \A a \in saw[q] : a.key # Caps => a.key \in Listed(r)
    /\ \A a, b \in saw[r] : a.key = b.key => a = b

\* A session that was named in an answer is never unknown afterwards.
KnownStaysKnown ==
  \A r \in Request : outcome[r] = "unknown" =>
    \A q \in before[r] : \A a \in saw[q] : a.key # sid[r]

\* Readers that hold sessionsMu, a writer that waits for them and readers that
\* wait for the writer: every request with good parameters gets the locks it
\* needs and comes to its first write, whatever other requests are stopped at.
RequestsComplete ==
  \A r \in Request : (pc[r] = "start") ~> (pc[r] \in {"snapshot", "respond"})

=============================================================================
