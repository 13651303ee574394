------------------------- MODULE SessionStoreProofs -------------------------
(***************************************************************************)
(* Proofs about SessionStore.  Versions and times only grow, and what a    *)
(* request sees is what the store holds at that moment (Grows).  So        *)
(* whatever was seen is at most what the store holds (Seen), and a request *)
(* that was answered sees nothing more (Life): a request sent later finds  *)
(* at least that.                                                          *)
(***************************************************************************)
EXTENDS SessionStore, TLAPS

\* A handler belongs to the method that it was started for.
Handlers ==
  \A r \in Request :
    /\ pc[r] = "list" => op[r] = "list"
    /\ pc[r] = "lock" => op[r] = "new"
    /\ pc[r] = "bind" => op[r] = "load"
    /\ pc[r] \in {"snapshot", "config", "exec"} => op[r] = "prompt"

\* What was not sent has seen nothing, and what came before is over.
Life ==
  \A r \in Request :
    /\ pc[r] = "unsent" => saw[r] = {} /\ stamps[r] = {}
    /\ pc[r] \notin {"respond", "done"} => outcome[r] = "open"
    /\ before[r] \subseteq Answered

\* A session that a handler works on is in the map, and one that it is about to
\* add is not, nor does another handler add it.
Reserved ==
  \A r \in Request :
    /\ pc[r] \in {"bind", "snapshot", "config", "exec"} => version[sid[r]] # 0
    /\ pc[r] = "lock" =>
         version[sid[r]] = 0 /\ \A q \in Writers : sid[q] = sid[r] => q = r

\* Nothing is in the future.
Clock == \A s \in Session : updated[s] <= now

Base == TypeOK /\ Handlers /\ Reserved /\ Life /\ Clock

\* The types and the life of a request, at the start.
LEMMA BaseInit == Init => Base
<1> SUFFICES ASSUME Init PROVE Base
  OBVIOUS
<1>1. TypeOK
  BY StoreAssumption DEF Init, TypeOK, Key, Method, Sight, Stamp
<1>2. Handlers /\ Reserved /\ Life
  BY DEF Init, Handlers, Reserved, Life, Answered
<1>3. Clock
  BY StoreAssumption DEF Init, Clock, Key
<1> QED
  BY <1>1, <1>2, <1>3 DEF Base

\* Every step keeps the types.
LEMMA TypeStep == Base /\ [Next]_vars => TypeOK'
<1> SUFFICES ASSUME Base, [Next]_vars PROVE TypeOK'
  OBVIOUS
<1>0. TypeOK /\ Handlers /\ Reserved
  BY DEF Base
<1> USE StoreAssumption DEF TypeOK, storeVars, reqVars
<1>1. ASSUME NEW r \in Request, NEW m \in Method, NEW s \in Session \cup {None}, Read(r, m, s)
      PROVE TypeOK'
  BY <1>0, <1>1 DEF Read, Goto, Answered
<1>2. ASSUME NEW r \in Request, Reject(r) PROVE TypeOK'
  BY <1>0, <1>2 DEF Reject, Answer, Goto
<1>3. ASSUME NEW r \in Request, Initialize(r) PROVE TypeOK'
  BY <1>0, <1>3 DEF Initialize, Answer, Goto, Sees, Has, Sight, Key
<1>4. ASSUME NEW r \in Request, NEW s \in Session, LockSessions(r, s) PROVE TypeOK'
  BY <1>0, <1>4 DEF LockSessions, Goto, Handlers
<1>5. ASSUME NEW r \in Request, PutSession(r) PROVE TypeOK'
  BY <1>0, <1>5 DEF PutSession, Handlers, Answer, Goto, Sees, Stamps, Has, At, Sight, Stamp, Key
<1>6. ASSUME NEW r \in Request, GetSession(r) PROVE TypeOK'
  BY <1>0, <1>6 DEF GetSession, EndsEarly, Answer, Goto
<1>7. ASSUME NEW r \in Request, BindSession(r) PROVE TypeOK'
  BY <1>0, <1>7 DEF BindSession, Handlers, Answer, Goto, Sees, Stamps, Has, At, Sight, Stamp, Key
<1>8. ASSUME NEW r \in Request, TakeSnapshot(r) PROVE TypeOK'
  BY <1>0, <1>8 DEF TakeSnapshot, Handlers, Goto, Sees, Has, Sight, Key
<1>9. ASSUME NEW r \in Request, EmitContext(r) PROVE TypeOK'
  BY <1>0, <1>9 DEF EmitContext, Handlers, Answer, Goto, Sees, Has, Sight, Key
<1>10. ASSUME NEW r \in Request, StreamReply(r) PROVE TypeOK'
  BY <1>0, <1>10 DEF StreamReply, Handlers, Reserved, Answer, Goto, Stamps, At, Stamp
<1>11. ASSUME NEW r \in Request, LockForReading(r) PROVE TypeOK'
  BY <1>0, <1>11 DEF LockForReading, Goto
<1>12. ASSUME NEW r \in Request, NEW s \in Session, ListRow(r, s) PROVE TypeOK'
  BY <1>0, <1>12 DEF ListRow, Sees, Stamps, Has, At, Sight, Stamp, Key
<1>13. ASSUME NEW r \in Request, ListEnds(r) PROVE TypeOK'
  BY <1>0, <1>13 DEF ListEnds, Answer, Goto
<1>14. ASSUME NEW r \in Request, Respond(r) PROVE TypeOK'
  BY <1>0, <1>14 DEF Respond, Goto
<1>15. CASE Tick
  BY <1>0, <1>15 DEF Tick
<1>16. CASE Idle \/ UNCHANGED vars
  BY <1>0, <1>16 DEF Idle, vars
<1> QED
  BY <1>1, <1>2, <1>3, <1>4, <1>5, <1>6, <1>7, <1>8, <1>9, <1>10, <1>11, <1>12, <1>13,
     <1>14, <1>15, <1>16 DEF Next, HandlerStep, WritingStep

\* A handler stays with its method.
LEMMA HandlersStep == Base /\ [Next]_vars => Handlers'
<1> SUFFICES ASSUME Base, [Next]_vars PROVE Handlers'
  OBVIOUS
<1>0. TypeOK /\ Handlers
  BY DEF Base
<1> USE DEF TypeOK, Handlers, storeVars, reqVars, Answer, Goto
<1>1. ASSUME NEW r \in Request, NEW m \in Method, NEW s \in Session \cup {None}, Read(r, m, s)
      PROVE Handlers'
  BY <1>0, <1>1 DEF Read
<1>2. ASSUME NEW r \in Request,
             Reject(r) \/ Initialize(r) \/ (\E s \in Session : LockSessions(r, s)) \/ PutSession(r)
      PROVE Handlers'
  BY <1>0, <1>2 DEF Reject, Initialize, LockSessions, PutSession
<1>3. ASSUME NEW r \in Request, GetSession(r) \/ BindSession(r) \/ TakeSnapshot(r)
      PROVE Handlers'
  BY <1>0, <1>3 DEF GetSession, EndsEarly, BindSession, TakeSnapshot
<1>4. ASSUME NEW r \in Request, EmitContext(r) \/ StreamReply(r) PROVE Handlers'
  BY <1>0, <1>4 DEF EmitContext, StreamReply
<1>5. ASSUME NEW r \in Request,
             LockForReading(r) \/ (\E s \in Session : ListRow(r, s)) \/ ListEnds(r) \/ Respond(r)
      PROVE Handlers'
  BY <1>0, <1>5 DEF LockForReading, ListRow, ListEnds, Respond
<1>6. CASE Tick \/ Idle \/ UNCHANGED vars
  BY <1>0, <1>6 DEF Tick, Idle, vars
<1> QED
  BY <1>1, <1>2, <1>3, <1>4, <1>5, <1>6 DEF Next, HandlerStep, WritingStep

-----------------------------------------------------------------------------

\* What a step may do to the store and to the histories.
Grows ==
  /\ \A k \in Key : version[k] <= version'[k]
  /\ \A s \in Session : updated[s] <= updated'[s] /\ updated'[s] <= now'
  /\ \A r \in Request :
       /\ pc[r] = "done" => pc'[r] = "done" /\ saw'[r] = saw[r] /\ stamps'[r] = stamps[r]
       /\ pc[r] # "unsent" => before'[r] = before[r] /\ pc'[r] # "unsent"
       /\ pc[r] = "unsent" =>
            /\ saw'[r] = {} /\ stamps'[r] = {} /\ outcome'[r] = "open"
            /\ before'[r] \subseteq before[r] \cup Answered
       /\ pc'[r] \notin {"respond", "done"} => outcome'[r] = "open"
       /\ \A a \in saw'[r] \ saw[r] :
            a.version = version'[a.key] /\ (a.key # Caps => a.version # 0)
       /\ \A a \in stamps'[r] \ stamps[r] : a.time = updated'[a.key]

\* Every step does that much and no more.
LEMMA Growth == Base /\ [Next]_vars => Grows
<1> SUFFICES ASSUME Base, [Next]_vars PROVE Grows
  OBVIOUS
<1>0. TypeOK /\ Handlers /\ Reserved /\ Life /\ Clock
  BY DEF Base
<1>a. \A s \in Session : s \in Key /\ s # Caps
  BY StoreAssumption DEF Key
<1>b. \A r \in Request : op[r] \in {"load", "prompt"} \/ pc[r] = "lock" => sid[r] \in Session
  BY <1>0 DEF TypeOK
<1> USE DEF TypeOK, Life, storeVars, reqVars, Grows
<1>1. ASSUME NEW r \in Request, NEW m \in Method, NEW s \in Session \cup {None}, Read(r, m, s)
      PROVE Grows
  BY <1>0, <1>1 DEF Read, Goto, Clock
<1>2. ASSUME NEW r \in Request, Reject(r) PROVE Grows
  BY <1>0, <1>2 DEF Reject, Answer, Goto, Clock
<1>3. ASSUME NEW r \in Request, Initialize(r) PROVE Grows
  BY <1>0, <1>3, StoreAssumption DEF Initialize, Answer, Goto, Sees, Has, Clock, Key
<1>4. ASSUME NEW r \in Request, NEW s \in Session, LockSessions(r, s) PROVE Grows
  BY <1>0, <1>4 DEF LockSessions, Goto, Clock
<1>5. ASSUME NEW r \in Request, PutSession(r) PROVE Grows
  BY <1>0, <1>a, <1>b, <1>5 DEF PutSession, Answer, Goto, Sees, Stamps, Has, At, Clock, Reserved
<1>6. ASSUME NEW r \in Request, GetSession(r) PROVE Grows
  BY <1>0, <1>6 DEF GetSession, EndsEarly, Answer, Goto, Clock
<1>7. ASSUME NEW r \in Request, BindSession(r) PROVE Grows
  BY <1>0, <1>a, <1>b, <1>7 DEF BindSession, Answer, Goto, Sees, Stamps, Has, At, Clock, Handlers
<1>8. ASSUME NEW r \in Request, TakeSnapshot(r) PROVE Grows
  BY <1>0, <1>a, <1>b, <1>8 DEF TakeSnapshot, Goto, Sees, Has, Clock, Handlers, Reserved
<1>9. ASSUME NEW r \in Request, EmitContext(r) PROVE Grows
  BY <1>0, <1>9 DEF EmitContext, Answer, Goto, Sees, Has, Clock
<1>10. ASSUME NEW r \in Request, StreamReply(r) PROVE Grows
  BY <1>0, <1>b, <1>10 DEF StreamReply, Answer, Goto, Stamps, At, Clock, Handlers
<1>11. ASSUME NEW r \in Request, LockForReading(r) PROVE Grows
  BY <1>0, <1>11 DEF LockForReading, Goto, Clock
<1>12. ASSUME NEW r \in Request, NEW s \in Session, ListRow(r, s) PROVE Grows
  BY <1>0, <1>a, <1>12 DEF ListRow, Sees, Stamps, Has, At, Clock
<1>13. ASSUME NEW r \in Request, ListEnds(r) PROVE Grows
  BY <1>0, <1>13 DEF ListEnds, Answer, Goto, Clock
<1>14. ASSUME NEW r \in Request, Respond(r) PROVE Grows
  BY <1>0, <1>14 DEF Respond, Goto, Clock
<1>15. CASE Tick
  BY <1>0, <1>15 DEF Tick, Clock
<1>16. CASE Idle \/ UNCHANGED vars
  BY <1>0, <1>16 DEF Idle, vars, Clock
<1> QED
  BY <1>1, <1>2, <1>3, <1>4, <1>5, <1>6, <1>7, <1>8, <1>9, <1>10, <1>11, <1>12, <1>13,
     <1>14, <1>15, <1>16 DEF Next, HandlerStep, WritingStep

\* Nobody adds a session twice, and none goes away.
LEMMA ReservedStep == Base /\ [Next]_vars => Reserved'
<1> SUFFICES ASSUME Base, [Next]_vars PROVE Reserved'
  OBVIOUS
<1>0. TypeOK /\ Handlers /\ Reserved
  BY DEF Base
<1>a. \A s \in Session : s \in Key /\ s # Caps
  BY StoreAssumption DEF Key
<1>b. \A r \in Request : op[r] \in {"load", "prompt"} \/ pc[r] = "lock" => sid[r] \in Session
  BY <1>0 DEF TypeOK
<1> USE DEF TypeOK, Reserved, Writers, storeVars, reqVars, Answer, Goto
<1>1. ASSUME NEW r \in Request, NEW m \in Method, NEW s \in Session \cup {None}, Read(r, m, s)
      PROVE Reserved'
  BY <1>0, <1>1 DEF Read
<1>2. ASSUME NEW r \in Request, Reject(r) \/ GetSession(r) \/ LockForReading(r) PROVE Reserved'
  BY <1>0, <1>2 DEF Reject, GetSession, EndsEarly, LockForReading
<1>3. ASSUME NEW r \in Request, Initialize(r) PROVE Reserved'
  BY <1>0, <1>3, <1>a, <1>b DEF Initialize, Handlers
<1>4. ASSUME NEW r \in Request, NEW s \in Session, LockSessions(r, s) PROVE Reserved'
  BY <1>0, <1>4 DEF LockSessions
<1>5. ASSUME NEW r \in Request, PutSession(r) PROVE Reserved'
  BY <1>0, <1>a, <1>b, <1>5 DEF PutSession, Handlers
<1>6. ASSUME NEW r \in Request, BindSession(r) PROVE Reserved'
  BY <1>0, <1>a, <1>b, <1>6 DEF BindSession, Handlers
<1>7. ASSUME NEW r \in Request, TakeSnapshot(r) \/ EmitContext(r) \/ StreamReply(r)
      PROVE Reserved'
  BY <1>0, <1>7 DEF TakeSnapshot, EmitContext, StreamReply
<1>8. ASSUME NEW r \in Request,
             (\E s \in Session : ListRow(r, s)) \/ ListEnds(r) \/ Respond(r)
      PROVE Reserved'
  BY <1>0, <1>8 DEF ListRow, ListEnds, Respond
<1>9. CASE Tick \/ Idle \/ UNCHANGED vars
  BY <1>0, <1>9 DEF Tick, Idle, vars
<1> QED
  BY <1>1, <1>2, <1>3, <1>4, <1>5, <1>6, <1>7, <1>8, <1>9 DEF Next, HandlerStep, WritingStep

\* The life of a request and the clock follow from what a step may do.
LEMMA BaseInvariant == Spec => []Base
<1>1. ASSUME Base, [Next]_vars PROVE Base'
  <2>1. TypeOK' /\ Handlers' /\ Reserved' /\ Grows
    BY <1>1, TypeStep, HandlersStep, ReservedStep, Growth
  <2>2. Life'
    BY <1>1, <2>1 DEF Base, TypeOK, Life, Grows, Answered
  <2>3. Clock'
    BY <2>1 DEF Grows, Clock
  <2> QED
    BY <2>1, <2>2, <2>3 DEF Base
<1> QED
  BY <1>1, BaseInit, PTL DEF Spec

\* Type correctness: versions, times, locks and histories keep their types, and
\* exactly the sessions in the map have a time.
THEOREM TypeCorrect == Spec => []TypeOK
<1>1. Base => TypeOK
  BY DEF Base
<1> QED
  BY <1>1, BaseInvariant, PTL

-----------------------------------------------------------------------------

\* Nobody has seen more than the store holds now.
Seen ==
  \A r \in Request :
    /\ \A a \in saw[r] : a.version <= version[a.key] /\ (a.key # Caps => a.version # 0)
    /\ \A a \in stamps[r] : a.time <= updated[a.key]

\* Seen is kept, and with it that the order of versions is the order of answers.
LEMMA SeenStep == Base /\ Base' /\ Seen /\ Grows => Seen'
<1> SUFFICES ASSUME Base, Base', Seen, Grows, NEW r \in Request
             PROVE /\ \A a \in saw'[r] :
                        a.version <= version'[a.key] /\ (a.key # Caps => a.version # 0)
                   /\ \A a \in stamps'[r] : a.time <= updated'[a.key]
  BY DEF Seen
<1>0. TypeOK /\ TypeOK'
  BY DEF Base
<1>1. ASSUME NEW a \in saw'[r]
      PROVE a.version <= version'[a.key] /\ (a.key # Caps => a.version # 0)
  <2>0. a.key \in Key /\ a.version \in Nat /\ version[a.key] \in Nat /\ version'[a.key] \in Nat
    BY <1>0 DEF TypeOK, Sight
  <2>1. CASE a \in saw[r]
    BY <2>0, <2>1 DEF Seen, Grows
  <2>2. CASE a \notin saw[r]
    BY <2>0, <2>2 DEF Grows
  <2> QED
    BY <2>1, <2>2
<1>2. ASSUME NEW a \in stamps'[r] PROVE a.time <= updated'[a.key]
  <2>0. a.key \in Session /\ a.time \in Nat /\ updated[a.key] \in Nat /\ updated'[a.key] \in Nat
    BY <1>0 DEF TypeOK, Stamp
  <2>1. CASE a \in stamps[r]
    BY <2>0, <2>1 DEF Seen, Grows
  <2>2. CASE a \notin stamps[r]
    BY <2>0, <2>2 DEF Grows
  <2> QED
    BY <2>1, <2>2
<1> QED
  BY <1>1, <1>2

\* A request that is over when another is sent saw at most what that one sees.
LEMMA FreshStep ==
  Base /\ Base' /\ Seen /\ Grows /\ ReadsAreFresh /\ TimesNeverGoBack
    => ReadsAreFresh' /\ TimesNeverGoBack'
<1> SUFFICES ASSUME Base, Base', Seen, Grows, ReadsAreFresh, TimesNeverGoBack,
                    NEW r \in Request, NEW q \in before'[r]
             PROVE /\ \A a \in saw'[q], b \in saw'[r] :
                        a.key = b.key => a.version <= b.version
                   /\ \A a \in stamps'[q], b \in stamps'[r] :
                        a.key = b.key => a.time <= b.time
  BY DEF ReadsAreFresh, TimesNeverGoBack
<1>0. TypeOK /\ TypeOK' /\ Life
  BY DEF Base
<1>1. q \in Request
  BY <1>0 DEF TypeOK
<1>2. CASE pc[r] = "unsent"
  BY <1>2 DEF Grows
<1>3. CASE pc[r] # "unsent"
  <2>1. q \in before[r] /\ pc[q] = "done"
    BY <1>0, <1>3 DEF Grows, Life, Answered
  <2>2. saw'[q] = saw[q] /\ stamps'[q] = stamps[q]
    BY <1>1, <2>1 DEF Grows
  <2>3. ASSUME NEW a \in saw[q], NEW b \in saw'[r], a.key = b.key
        PROVE  a.version <= b.version
    <3>0. a.key \in Key /\ a.version \in Nat /\ b.version \in Nat /\ version[a.key] \in Nat
          /\ version'[a.key] \in Nat
      BY <1>0, <1>1 DEF TypeOK, Sight
    <3>1. CASE b \in saw[r]
      BY <2>1, <2>3, <3>1 DEF ReadsAreFresh
    <3>2. CASE b \notin saw[r]
      <4>1. a.version <= version[a.key] /\ version[a.key] <= version'[a.key]
        BY <1>1, <3>0 DEF Seen, Grows
      <4>2. b.version = version'[a.key]
        BY <2>3, <3>2 DEF Grows
      <4> QED
        BY <3>0, <4>1, <4>2
    <3> QED
      BY <3>1, <3>2
  <2>4. ASSUME NEW a \in stamps[q], NEW b \in stamps'[r], a.key = b.key
        PROVE  a.time <= b.time
    <3>0. a.key \in Session /\ a.time \in Nat /\ b.time \in Nat /\ updated[a.key] \in Nat
          /\ updated'[a.key] \in Nat
      BY <1>0, <1>1 DEF TypeOK, Stamp
    <3>1. CASE b \in stamps[r]
      BY <2>1, <2>4, <3>1 DEF TimesNeverGoBack
    <3>2. CASE b \notin stamps[r]
      <4>1. a.time <= updated[a.key] /\ updated[a.key] <= updated'[a.key]
        BY <1>1, <3>0 DEF Seen, Grows
      <4>2. b.time = updated'[a.key]
        BY <2>4, <3>2 DEF Grows
      <4> QED
        BY <3>0, <4>1, <4>2
    <3> QED
      BY <3>1, <3>2
  <2> QED
    BY <2>2, <2>3, <2>4
<1> QED
  BY <1>2, <1>3

\* Both orders, of versions and of times, hold in every state.
LEMMA FreshInvariant == Spec => [](Base /\ Seen /\ ReadsAreFresh /\ TimesNeverGoBack)
<1>1. Init => Seen /\ ReadsAreFresh /\ TimesNeverGoBack
  BY DEF Init, Seen, ReadsAreFresh, TimesNeverGoBack
<1>2. Base /\ Base' /\ Seen /\ ReadsAreFresh /\ TimesNeverGoBack /\ [Next]_vars
        => Seen' /\ ReadsAreFresh' /\ TimesNeverGoBack'
  BY Growth, SeenStep, FreshStep
<1> QED
  BY <1>1, <1>2, BaseInvariant, PTL DEF Spec

\* Reads are linearizable with the writes: a request sees at least what
\* answers before it was sent had seen or written.
THEOREM StoreIsLinearizable == Spec => []ReadsAreFresh
  BY FreshInvariant, PTL

\* updatedAt never goes back, as far as the answers of the server tell.
THEOREM TimesAreMonotone == Spec => []TimesNeverGoBack
  BY FreshInvariant, PTL

-----------------------------------------------------------------------------

\* What a step may answer: "unknown" about a session that is not there, and a
\* list that holds every session once.
Tells ==
  \A r \in Request :
    /\ pc[r] # "unsent" => op'[r] = op[r]
    /\ outcome[r] # "open" \/ outcome'[r] # "open" => sid'[r] = sid[r]
    /\ outcome'[r] = "unknown" =>
         outcome[r] = "unknown" \/ (sid[r] \in Session /\ version[sid[r]] = 0)
    /\ op'[r] = "list" =>
         /\ \A a, b \in saw'[r] \ saw[r] : a = b /\ a.key \notin Listed(r)
         /\ outcome'[r] = "ok" =>
              /\ saw'[r] = saw[r]
              /\ outcome[r] = "ok" \/ \A s \in Session : version[s] # 0 => s \in Listed(r)

\* Every step tells that much and no more.
LEMMA Telling == Base /\ [Next]_vars => Tells
<1> SUFFICES ASSUME Base, [Next]_vars PROVE Tells
  OBVIOUS
<1>0. TypeOK /\ Handlers /\ Life
  BY DEF Base
<1> USE DEF TypeOK, Life, Handlers, storeVars, reqVars, Tells
<1>1. ASSUME NEW r \in Request, NEW m \in Method, NEW s \in Session \cup {None}, Read(r, m, s)
      PROVE Tells
  BY <1>0, <1>1 DEF Read, Goto
<1>2. ASSUME NEW r \in Request, Reject(r) PROVE Tells
  BY <1>0, <1>2 DEF Reject, Answer, Goto
<1>3. ASSUME NEW r \in Request, Initialize(r) PROVE Tells
  BY <1>0, <1>3 DEF Initialize, Answer, Goto, Sees
<1>4. ASSUME NEW r \in Request, NEW s \in Session, LockSessions(r, s) PROVE Tells
  BY <1>0, <1>4 DEF LockSessions, Goto
<1>5. ASSUME NEW r \in Request, PutSession(r) PROVE Tells
  BY <1>0, <1>5 DEF PutSession, Answer, Goto, Sees
<1>6. ASSUME NEW r \in Request, GetSession(r) PROVE Tells
  BY <1>0, <1>6 DEF GetSession, EndsEarly, Answer, Goto
<1>7. ASSUME NEW r \in Request, BindSession(r) PROVE Tells
  BY <1>0, <1>7 DEF BindSession, Answer, Goto, Sees
<1>8. ASSUME NEW r \in Request, TakeSnapshot(r) PROVE Tells
  BY <1>0, <1>8 DEF TakeSnapshot, Goto, Sees
<1>9. ASSUME NEW r \in Request, EmitContext(r) PROVE Tells
  BY <1>0, <1>9 DEF EmitContext, Answer, Goto, Sees
<1>10. ASSUME NEW r \in Request, StreamReply(r) PROVE Tells
  BY <1>0, <1>10 DEF StreamReply, Answer, Goto
<1>11. ASSUME NEW r \in Request, LockForReading(r) PROVE Tells
  BY <1>0, <1>11 DEF LockForReading, Goto
<1>12. ASSUME NEW r \in Request, NEW s \in Session, ListRow(r, s) PROVE Tells
  BY <1>0, <1>12 DEF ListRow, Sees, Has
<1>13. ASSUME NEW r \in Request, ListEnds(r) PROVE Tells
  BY <1>0, <1>13 DEF ListEnds, Answer, Goto
<1>14. ASSUME NEW r \in Request, Respond(r) PROVE Tells
  BY <1>0, <1>14 DEF Respond, Goto
<1>15. CASE Tick
  BY <1>0, <1>15 DEF Tick
<1>16. CASE Idle \/ UNCHANGED vars
  BY <1>0, <1>16 DEF Idle, vars
<1> QED
  BY <1>1, <1>2, <1>3, <1>4, <1>5, <1>6, <1>7, <1>8, <1>9, <1>10, <1>11, <1>12, <1>13,
     <1>14, <1>15, <1>16 DEF Next, HandlerStep, WritingStep

\* A request that was answered, or that is being handled, keeps what came
\* before it, and so do those.
LEMMA PastStays ==
  ASSUME Base, Grows, NEW r \in Request, NEW q \in before'[r], pc[r] # "unsent"
  PROVE  q \in before[r] /\ q \in Request /\ saw'[q] = saw[q]
<1>1. q \in before[r] /\ q \in Request /\ pc[q] = "done"
  BY DEF Base, TypeOK, Grows, Life, Answered
<1> QED
  BY <1>1 DEF Grows

\* A session that anyone has seen is in the map.
LEMMA SeenIsThere ==
  ASSUME Base, Seen, NEW q \in Request, NEW a \in saw[q], a.key # Caps
  PROVE  a.key \in Session /\ version[a.key] # 0
<1>1. a.key \in Session /\ a.version \in Nat /\ version[a.key] \in Nat
  BY DEF Base, TypeOK, Sight, Key
<1> QED
  BY <1>1 DEF Seen

\* What is told to be unknown was not there, so that nobody had seen it.
LEMMA KnownStep ==
  Base /\ Seen /\ Grows /\ Tells /\ KnownStaysKnown => KnownStaysKnown'
<1> SUFFICES ASSUME Base, Seen, Grows, Tells, KnownStaysKnown,
                    NEW r \in Request, outcome'[r] = "unknown",
                    NEW q \in before'[r], NEW a \in saw'[q]
             PROVE  a.key # sid'[r]
  BY DEF KnownStaysKnown
<1>1. pc[r] # "unsent" /\ sid'[r] = sid[r]
  BY DEF Tells, Grows
<1>2. q \in before[r] /\ q \in Request /\ a \in saw[q]
  BY <1>1, PastStays
<1>3. CASE outcome[r] = "unknown"
  BY <1>1, <1>2, <1>3 DEF KnownStaysKnown
<1>4. CASE sid[r] \in Session /\ version[sid[r]] = 0
  BY <1>1, <1>2, <1>4, SeenIsThere, StoreAssumption
<1> QED
  BY <1>3, <1>4 DEF Tells

\* A list holds a session at most once, also while it is being made.
RowsAreUnique ==
  \A r \in Request : op[r] = "list" => \A a, b \in saw[r] : a.key = b.key => a = b

\* A list that ends has all that is there, which is all that anyone had seen.
LEMMA ListsStep ==
  Base /\ Seen /\ Grows /\ Tells /\ RowsAreUnique /\ ListsAreComplete
    => RowsAreUnique' /\ ListsAreComplete'
<1> SUFFICES ASSUME Base, Seen, Grows, Tells, RowsAreUnique, ListsAreComplete
             PROVE  RowsAreUnique' /\ ListsAreComplete'
  OBVIOUS
<1>1. ASSUME NEW r \in Request, op'[r] = "list", NEW a \in saw'[r], NEW b \in saw'[r],
             a.key = b.key
      PROVE  a = b
  <2>1. CASE pc[r] = "unsent"
    BY <1>1, <2>1 DEF Grows
  <2>2. CASE pc[r] # "unsent"
    BY <1>1, <2>2 DEF Tells, RowsAreUnique, Listed
  <2> QED
    BY <2>1, <2>2
<1>2. ASSUME NEW r \in Request, op'[r] = "list", outcome'[r] = "ok",
             NEW q \in before'[r], NEW a \in saw'[q], a.key # Caps
      PROVE  a.key \in Listed(r)'
  <2>1. pc[r] # "unsent" /\ op[r] = "list" /\ Listed(r)' = Listed(r)
    BY <1>2 DEF Tells, Grows, Listed
  <2>2. q \in before[r] /\ q \in Request /\ a \in saw[q]
    BY <1>2, <2>1, PastStays
  <2>3. CASE outcome[r] = "ok"
    BY <1>2, <2>1, <2>2, <2>3 DEF ListsAreComplete
  <2>4. CASE \A s \in Session : version[s] # 0 => s \in Listed(r)
    BY <1>2, <2>1, <2>2, <2>4, SeenIsThere
  <2> QED
    BY <1>2, <2>3, <2>4 DEF Tells
<1> QED
  BY <1>1, <1>2 DEF RowsAreUnique, ListsAreComplete

\* What answers name stays known and listed, in every state.
LEMMA TellsInvariant == Spec => [](KnownStaysKnown /\ RowsAreUnique /\ ListsAreComplete)
<1>1. Init => KnownStaysKnown /\ RowsAreUnique /\ ListsAreComplete
  BY DEF Init, KnownStaysKnown, RowsAreUnique, ListsAreComplete
<1>2. Base /\ Seen /\ KnownStaysKnown /\ RowsAreUnique /\ ListsAreComplete /\ [Next]_vars
        => KnownStaysKnown' /\ RowsAreUnique' /\ ListsAreComplete'
  BY Growth, Telling, KnownStep, ListsStep
<1> QED
  BY <1>1, <1>2, FreshInvariant, PTL DEF Spec

\* No request is told that a session is unknown that an earlier answer named.
THEOREM SessionsStayKnown == Spec => []KnownStaysKnown
  BY TellsInvariant, PTL

\* Every list has each session that an earlier answer named, once.
THEOREM ListsHoldEverything == Spec => []ListsAreComplete
  BY TellsInvariant, PTL

=============================================================================
