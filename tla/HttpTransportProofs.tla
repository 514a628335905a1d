-------------------------- MODULE HttpTransportProofs --------------------------
(***************************************************************************)
(* The safety of the HTTP transport: of the session store for any number   *)
(* of requests, credentials and ids and any TTL (Inv is inductive, and the *)
(* properties of HttpSessions follow from it), and of the state directory  *)
(* for any number of servers and faults (StateInv).                        *)
(***************************************************************************)
EXTENDS HttpSessions, StateDir, TLAPS

\* A session is the one that was generated: same owner, and the expiry it got then.
SessionIsAsIssued(id) ==
    sessions[id] # None =>
        /\ issued[id] # None
        /\ sessions[id].cred = issued[id].cred
        /\ sessions[id].expires = issued[id].at + TTL

SessionsAreAsIssued == \A id \in Id : SessionIsAsIssued(id)

\* A tick is never ahead of the clock.
TickIsPast == tick # None => tick <= time

\* A request that is past the chain passed all of it.
Passed(r) ==
    pc[r] # "idle" => /\ head[r] # None /\ msg[r] # None
                      /\ head[r].host /\ head[r].token /\ head[r].fits

AdmittedPassed == \A r \in Request : Passed(r)

\* A request that runs named a session that was generated for it.
Entitled(r) ==
    pc[r] = "running" =>
        /\ msg[r].id \in Id
        /\ issued[msg[r].id] # None
        /\ issued[msg[r].id].cred = msg[r].cred
        /\ since[r] <= issued[msg[r].id].at + TTL

RunningEntitled == \A r \in Request : Entitled(r)

Inv == /\ TypeOK
       /\ SessionsAreAsIssued
       /\ TickIsPast
       /\ AdmittedPassed
       /\ RunningEntitled

------------------------------------------------------------------------------
\* The constants are apart

LEMMA Apart ==
    /\ None \notin Session /\ None \notin Birth /\ None \notin Head
    /\ None \notin Message /\ None \notin Id /\ None \notin 0..MaxTime
    /\ TTL \in Nat /\ Patience \in Nat /\ MaxTime \in Nat
  BY SessionConstants

LEMMA InitInv == Init => Inv
<1> SUFFICES ASSUME Init PROVE Inv
  OBVIOUS
<1>1. TypeOK
  BY Apart DEF Init, TypeOK
<1>2. SessionsAreAsIssued /\ TickIsPast /\ AdmittedPassed /\ RunningEntitled
  BY DEF Init, SessionsAreAsIssued, SessionIsAsIssued, TickIsPast, AdmittedPassed,
         Passed, RunningEntitled, Entitled
<1> QED
  BY <1>1, <1>2 DEF Inv

------------------------------------------------------------------------------
\* A reply empties the slot of one request and touches no other.

LEMMA ReplyKeeps ==
    ASSUME Inv, NEW r \in Request, Reply(r)
    PROVE  /\ pc' \in [Request -> {"idle", "admitted", "running"}]
           /\ head' \in [Request -> Head \cup {None}]
           /\ msg' \in [Request -> Message \cup {None}]
           /\ since' \in [Request -> 0..MaxTime]
           /\ AdmittedPassed'
           /\ pc'[r] = "idle"
           /\ \A q \in Request : q # r => /\ pc'[q] = pc[q] /\ msg'[q] = msg[q]
                                          /\ since'[q] = since[q]
<1>1. 0 \in 0..MaxTime
  BY Apart
<1>2. pc' \in [Request -> {"idle", "admitted", "running"}]
  BY DEF Inv, TypeOK, Reply
<1>3. head' \in [Request -> Head \cup {None}]
  BY DEF Inv, TypeOK, Reply
<1>4. msg' \in [Request -> Message \cup {None}]
  BY DEF Inv, TypeOK, Reply
<1>5. since' \in [Request -> 0..MaxTime]
  BY <1>1 DEF Inv, TypeOK, Reply
<1>6. pc'[r] = "idle"
  BY DEF Inv, TypeOK, Reply
<1>7. ASSUME NEW q \in Request, q # r
      PROVE  pc'[q] = pc[q] /\ msg'[q] = msg[q] /\ since'[q] = since[q] /\ head'[q] = head[q]
  BY <1>7 DEF Inv, TypeOK, Reply
<1>8. AdmittedPassed'
  <2> SUFFICES ASSUME NEW q \in Request PROVE Passed(q)'
    BY DEF AdmittedPassed
  <2>1. CASE q = r
    BY <2>1, <1>6 DEF Passed
  <2>2. CASE q # r
    BY <2>2, <1>7 DEF Passed, Inv, AdmittedPassed
  <2> QED
    BY <2>1, <2>2
<1> QED
  BY <1>2, <1>3, <1>4, <1>5, <1>6, <1>7, <1>8

\* Requests keep what they are entitled to as long as nothing is issued.
LEMMA ReplyKeepsEntitled ==
    ASSUME Inv, NEW r \in Request, Reply(r), UNCHANGED issued
    PROVE  RunningEntitled'
<1> SUFFICES ASSUME NEW q \in Request PROVE Entitled(q)'
  BY DEF RunningEntitled
<1>1. CASE q = r
  BY <1>1, ReplyKeeps DEF Entitled
<1>2. CASE q # r
  BY <1>2, ReplyKeeps DEF Entitled, Inv, RunningEntitled
<1> QED
  BY <1>1, <1>2

\* Taking sessions away leaves the others as they were issued.
LEMMA RemovalKeeps ==
    ASSUME Inv, UNCHANGED issued, sessions' \in [Id -> Session \cup {None}],
           \A id \in Id : sessions'[id] \in {sessions[id], None}
    PROVE  SessionsAreAsIssued'
<1> SUFFICES ASSUME NEW id \in Id PROVE SessionIsAsIssued(id)'
  BY DEF SessionsAreAsIssued
<1> QED
  BY DEF Inv, SessionsAreAsIssued, SessionIsAsIssued

------------------------------------------------------------------------------
\* One lemma for each action that changes what Inv speaks of

LEMMA AdmitInv == ASSUME Inv, NEW r \in Request, Admit(r) PROVE Inv'
<1>1. PICK h \in Head : Chain(h) = "ok" /\ head' = [head EXCEPT ![r] = h]
  BY DEF Admit
<1>2. PICK m \in Message : msg' = [msg EXCEPT ![r] = m]
  BY DEF Admit
<1>3. h.host /\ h.token /\ h.fits
  BY <1>1 DEF Chain, Head
<1>4. h # None /\ m # None
  BY Apart
<1>5. TypeOK'
  <2>1. head' \in [Request -> Head \cup {None}]
    BY <1>1 DEF Inv, TypeOK
  <2>2. msg' \in [Request -> Message \cup {None}]
    BY <1>2 DEF Inv, TypeOK
  <2>3. pc' \in [Request -> {"idle", "admitted", "running"}]
    BY DEF Inv, TypeOK, Admit
  <2> QED
    BY <2>1, <2>2, <2>3 DEF Inv, TypeOK, Admit
<1>6. SessionsAreAsIssued' /\ TickIsPast'
  BY DEF Inv, Admit, SessionsAreAsIssued, SessionIsAsIssued, TickIsPast
<1>7. AdmittedPassed'
  <2> SUFFICES ASSUME NEW q \in Request PROVE Passed(q)'
    BY DEF AdmittedPassed
  <2>1. CASE q = r
    BY <2>1, <1>1, <1>2, <1>3, <1>4 DEF Passed, Inv, TypeOK
  <2>2. CASE q # r
    BY <2>2, <1>1, <1>2 DEF Passed, Inv, TypeOK, AdmittedPassed, Admit
  <2> QED
    BY <2>1, <2>2
<1>8. RunningEntitled'
  <2> SUFFICES ASSUME NEW q \in Request PROVE Entitled(q)'
    BY DEF RunningEntitled
  <2>1. CASE q = r
    BY <2>1 DEF Entitled, Admit, Inv, TypeOK
  <2>2. CASE q # r
    BY <2>2, <1>2 DEF Entitled, Inv, TypeOK, RunningEntitled, Admit
  <2> QED
    BY <2>1, <2>2
<1> QED
  BY <1>5, <1>6, <1>7, <1>8 DEF Inv

LEMMA GenerateInv == ASSUME Inv, NEW r \in Request, Generate(r) PROVE Inv'
<1>1. Reply(r) /\ UNCHANGED <<time, tick, server, deadline>>
  BY DEF Generate
<1>2. PICK id \in Id :
        /\ issued[id] = None
        /\ sessions' = [sessions EXCEPT ![id] = NewSession(r)]
        /\ issued' = [issued EXCEPT ![id] = [cred |-> msg[r].cred, at |-> time]]
  BY DEF Generate
<1>3. msg[r] \in Message /\ time \in 0..MaxTime
  BY DEF Generate, Arrived, Inv, TypeOK, AdmittedPassed, Passed
<1>4. time + TTL \in 0..(MaxTime + TTL)
  BY <1>3, Apart
<1>5. NewSession(r) \in Session
  BY <1>3, <1>4 DEF NewSession, Session, Message
<1>6. [cred |-> msg[r].cred, at |-> time] \in Birth
  BY <1>3 DEF Birth, Message
<1>7. sessions' \in [Id -> Session \cup {None}]
  BY <1>2, <1>5 DEF Inv, TypeOK
<1>8. issued' \in [Id -> Birth \cup {None}]
  BY <1>2, <1>6 DEF Inv, TypeOK
<1>9. TypeOK'
  BY <1>1, <1>7, <1>8, ReplyKeeps DEF Inv, TypeOK
<1>10. SessionsAreAsIssued'
  <2> SUFFICES ASSUME NEW i \in Id PROVE SessionIsAsIssued(i)'
    BY DEF SessionsAreAsIssued
  <2>1. CASE i = id
    <3>1. issued'[i] = [cred |-> msg[r].cred, at |-> time] /\ sessions'[i] = NewSession(r)
      BY <2>1, <1>2 DEF Inv, TypeOK
    <3>2. issued'[i] # None
      BY <3>1, <1>6, Apart
    <3> QED
      BY <3>1, <3>2 DEF SessionIsAsIssued, NewSession
  <2>2. CASE i # id
    BY <2>2, <1>2 DEF Inv, TypeOK, SessionsAreAsIssued, SessionIsAsIssued
  <2> QED
    BY <2>1, <2>2
<1>11. RunningEntitled'
  <2> SUFFICES ASSUME NEW q \in Request PROVE Entitled(q)'
    BY DEF RunningEntitled
  <2>1. CASE q = r
    BY <2>1, <1>1, ReplyKeeps DEF Entitled
  <2>2. CASE q # r
    <3>1. Entitled(q) /\ pc'[q] = pc[q] /\ msg'[q] = msg[q] /\ since'[q] = since[q]
      BY <2>2, <1>1, ReplyKeeps DEF Inv, RunningEntitled
    <3>2. ASSUME pc[q] = "running" PROVE issued'[msg[q].id] = issued[msg[q].id]
      BY <3>1, <3>2, <1>2 DEF Entitled, Inv, TypeOK
    <3> QED
      BY <3>1, <3>2 DEF Entitled
  <2> QED
    BY <2>1, <2>2
<1>12. AdmittedPassed' /\ TickIsPast'
  BY <1>1, ReplyKeeps DEF Inv, TickIsPast
<1> QED
  BY <1>9, <1>10, <1>11, <1>12 DEF Inv

\* What a verdict of "ok" means.
LEMMA VerdictOk ==
    ASSUME Inv, NEW r \in Request, pc[r] = "admitted", Verdict(r) = "ok"
    PROVE  /\ msg[r] \in Message /\ msg[r].id \in Id
           /\ sessions[msg[r].id] \in Session
           /\ sessions[msg[r].id] # None
           /\ sessions[msg[r].id].cred = msg[r].cred
<1>1. msg[r] \in Message
  BY DEF Inv, TypeOK, AdmittedPassed, Passed
<1>2. Found(r) # None /\ Found(r).cred = msg[r].cred
  BY DEF Verdict
<1>3. msg[r].id \in Id
  BY <1>1, <1>2 DEF Found, Message
<1>4. Found(r) = sessions[msg[r].id]
  BY <1>3, Apart DEF Found
<1> QED
  BY <1>1, <1>2, <1>3, <1>4 DEF Inv, TypeOK

LEMMA ReplyInv ==
    ASSUME Inv, NEW r \in Request, Reply(r),
           UNCHANGED <<time, issued, tick, server, deadline>>,
           sessions' \in [Id -> Session \cup {None}],
           \A id \in Id : sessions'[id] \in {sessions[id], None}
    PROVE  Inv'
<1>1. TypeOK'
  BY ReplyKeeps DEF Inv, TypeOK
<1>2. TickIsPast'
  BY DEF Inv, TickIsPast
<1> QED
  BY <1>1, <1>2, ReplyKeeps, ReplyKeepsEntitled, RemovalKeeps DEF Inv

LEMMA Dropped ==
    ASSUME Inv, NEW id \in Id, sessions' = [sessions EXCEPT ![id] = None]
    PROVE  /\ sessions' \in [Id -> Session \cup {None}]
           /\ \A i \in Id : sessions'[i] \in {sessions[i], None}
           /\ \A i \in Id : i # id => sessions'[i] = sessions[i]
  BY DEF Inv, TypeOK

LEMMA ValidateInv == ASSUME Inv, NEW r \in Request, Validate(r) PROVE Inv'
<1>1. pc[r] = "admitted" /\ Verdict(r) = "ok"
  BY DEF Validate, Arrived
<1>2. UNCHANGED <<time, issued, tick, server, deadline>>
  BY DEF Validate
<1> DEFINE s == sessions[msg[r].id]
<1>3. /\ msg[r] \in Message /\ msg[r].id \in Id
      /\ s \in Session /\ s # None /\ s.cred = msg[r].cred
  BY <1>1, VerdictOk
<1>4. CASE Expired(msg[r].id, time)
  <2>1. sessions' = [sessions EXCEPT ![msg[r].id] = None] /\ Reply(r)
    BY <1>4 DEF Validate
  <2> QED
    BY <1>2, <1>3, <2>1, Dropped, ReplyInv
<1>5. CASE ~ Expired(msg[r].id, time)
  <2>1. /\ pc' = [pc EXCEPT ![r] = "running"]
        /\ since' = [since EXCEPT ![r] = time]
        /\ UNCHANGED <<sessions, head, msg>>
    BY <1>5 DEF Validate
  <2>2. TypeOK'
    <3>1. pc' \in [Request -> {"idle", "admitted", "running"}]
      BY <2>1 DEF Inv, TypeOK
    <3>2. since' \in [Request -> 0..MaxTime]
      BY <2>1 DEF Inv, TypeOK
    <3> QED
      BY <3>1, <3>2, <2>1, <1>2 DEF Inv, TypeOK
  <2>3. SessionsAreAsIssued' /\ TickIsPast'
    BY <2>1, <1>2 DEF Inv, SessionsAreAsIssued, SessionIsAsIssued, TickIsPast
  <2>4. AdmittedPassed'
    <3> SUFFICES ASSUME NEW q \in Request PROVE Passed(q)'
      BY DEF AdmittedPassed
    <3>1. Passed(q) /\ (pc'[q] # "idle" => pc[q] # "idle")
      BY <2>1, <1>1 DEF Inv, TypeOK, AdmittedPassed
    <3> QED
      BY <3>1, <2>1 DEF Passed
  <2>5. RunningEntitled'
    <3> SUFFICES ASSUME NEW q \in Request PROVE Entitled(q)'
      BY DEF RunningEntitled
    <3>1. CASE q = r
      <4>1. since'[q] = time
        BY <3>1, <2>1 DEF Inv, TypeOK
      <4>2. SessionIsAsIssued(msg[r].id)
        BY <1>3 DEF Inv, SessionsAreAsIssued
      <4>3. ~ (time > s.expires)
        BY <1>5 DEF Expired
      <4>4. /\ issued[msg[r].id] # None
            /\ issued[msg[r].id].cred = msg[r].cred
            /\ s.expires = issued[msg[r].id].at + TTL
        BY <4>2, <1>3 DEF SessionIsAsIssued
      <4>5. s.expires \in Int /\ time \in Int
        BY <1>3, Apart DEF Session, Inv, TypeOK
      <4>6. time <= issued[msg[r].id].at + TTL
        BY <4>3, <4>4, <4>5
      <4> QED
        BY <3>1, <4>1, <4>4, <4>6, <1>3, <2>1, <1>2 DEF Entitled
    <3>2. CASE q # r
      <4>1. Entitled(q) /\ pc'[q] = pc[q] /\ since'[q] = since[q]
        BY <3>2, <2>1 DEF Inv, TypeOK, RunningEntitled
      <4> QED
        BY <4>1, <2>1, <1>2 DEF Entitled
    <3> QED
      BY <3>1, <3>2
  <2> QED
    BY <2>2, <2>3, <2>4, <2>5 DEF Inv
<1> QED
  BY <1>4, <1>5

LEMMA TerminateInv == ASSUME Inv, NEW r \in Request, Terminate(r) PROVE Inv'
<1>1. msg[r].id \in Id
  BY VerdictOk DEF Terminate, Arrived
<1> QED
  BY <1>1, Dropped, ReplyInv DEF Terminate

LEMMA SweepInv == ASSUME Inv, Sweep PROVE Inv'
<1>1. sessions' \in [Id -> Session \cup {None}]
  BY DEF Sweep, Inv, TypeOK
<1>2. \A id \in Id : sessions'[id] \in {sessions[id], None}
  BY DEF Sweep
<1>3. UNCHANGED issued
  BY DEF Sweep
<1>4. SessionsAreAsIssued'
  BY <1>1, <1>2, <1>3, RemovalKeeps
<1>5. TypeOK'
  BY <1>1 DEF Sweep, Inv, TypeOK
<1>6. TickIsPast' /\ AdmittedPassed' /\ RunningEntitled'
  BY DEF Sweep, Inv, TickIsPast, AdmittedPassed, Passed, RunningEntitled, Entitled
<1> QED
  BY <1>4, <1>5, <1>6 DEF Inv

\* The clock, the ticker and the life of the server touch no session and no request.
LEMMA TimeInv ==
    ASSUME Inv, UNCHANGED <<sessions, issued, pc, head, msg, since>>, TypeOK', TickIsPast'
    PROVE  Inv'
<1>1. SessionsAreAsIssued'
  BY DEF Inv, SessionsAreAsIssued, SessionIsAsIssued
<1>2. AdmittedPassed' /\ RunningEntitled'
  BY DEF Inv, AdmittedPassed, Passed, RunningEntitled, Entitled
<1> QED
  BY <1>1, <1>2 DEF Inv

LEMMA ServerInv ==
    ASSUME Inv, TickerFires \/ Clock \/ Cancel \/ Stop \/ GiveUp
    PROVE  Inv'
<1>1. UNCHANGED <<sessions, issued, pc, head, msg, since>>
  BY DEF TickerFires, Clock, Cancel, Stop, GiveUp
<1>2. CASE TickerFires
  <2>1. TypeOK' /\ TickIsPast'
    BY <1>2 DEF TickerFires, Inv, TypeOK, TickIsPast
  <2> QED
    BY <2>1, <1>1, TimeInv
<1>3. CASE Clock
  <2>1. time' \in 0..MaxTime /\ UNCHANGED <<tick, server, deadline>>
    BY <1>3, Apart DEF Clock, Inv, TypeOK
  <2>2. TickIsPast'
    BY <1>3, Apart DEF Clock, Inv, TypeOK, TickIsPast
  <2>3. TypeOK'
    BY <2>1, <1>1 DEF Inv, TypeOK
  <2> QED
    BY <2>2, <2>3, <1>1, TimeInv
<1>4. CASE Cancel \/ Stop \/ GiveUp
  <2>1. deadline' \in 0..MaxTime
    BY <1>4, Apart DEF Cancel, Stop, GiveUp, Inv, TypeOK
  <2>2. server' \in {"serving", "stopping", "stopped"} /\ UNCHANGED <<time, tick>>
    BY <1>4 DEF Cancel, Stop, GiveUp
  <2>3. TypeOK' /\ TickIsPast'
    BY <2>1, <2>2, <1>1 DEF Inv, TypeOK, TickIsPast
  <2> QED
    BY <2>3, <1>1, TimeInv
<1> QED
  BY <1>2, <1>3, <1>4

LEMMA NextInv == ASSUME Inv, [Next]_vars PROVE Inv'
<1>1. ASSUME NEW r \in Request, TurnAway(r) PROVE Inv'
  <2>1. UNCHANGED vars
    BY <1>1 DEF TurnAway
  <2> QED
    BY <2>1, TimeInv DEF vars, Inv, TypeOK, TickIsPast
<1>2. ASSUME NEW r \in Request, Admit(r) PROVE Inv'
  BY <1>2, AdmitInv
<1>3. ASSUME NEW r \in Request, Generate(r) PROVE Inv'
  BY <1>3, GenerateInv
<1>4. ASSUME NEW r \in Request, Refuse(r) \/ Finish(r) PROVE Inv'
  <2>1. Reply(r) /\ UNCHANGED <<time, sessions, issued, tick, server, deadline>>
    BY <1>4 DEF Refuse, Finish
  <2>2. sessions' \in [Id -> Session \cup {None}]
    BY <2>1 DEF Inv, TypeOK
  <2> QED
    BY <2>1, <2>2, ReplyInv
<1>5. ASSUME NEW r \in Request, Validate(r) PROVE Inv'
  BY <1>5, ValidateInv
<1>6. ASSUME NEW r \in Request, Terminate(r) PROVE Inv'
  BY <1>6, TerminateInv
<1>7. CASE Sweep
  BY <1>7, SweepInv
<1>8. CASE TickerFires \/ Clock \/ Cancel \/ Stop \/ GiveUp
  BY <1>8, ServerInv
<1>9. CASE UNCHANGED vars
  BY <1>9, TimeInv DEF vars, Inv, TypeOK, TickIsPast
<1> QED
  BY <1>1, <1>2, <1>3, <1>4, <1>5, <1>6, <1>7, <1>8, <1>9 DEF Next, Handle

\* Inv holds in every reachable state.
THEOREM Invariance == Spec => []Inv
<1>1. Init => Inv
  BY InitInv
<1>2. Inv /\ [Next]_vars => Inv'
  BY NextInv
<1> QED
  BY <1>1, <1>2, PTL DEF Spec

------------------------------------------------------------------------------
\* The properties

\* Sessions, requests and the server stay within their types.
THEOREM TypeCorrect == Spec => []TypeOK
<1>1. Inv => TypeOK
  BY DEF Inv
<1> QED
  BY <1>1, Invariance, PTL

\* Whatever runs passed the whole chain and named a session of its own credential
\* that had not expired when it was validated.
THEOREM RunningEntitledAlways == Spec => []RunningIsEntitled
<1>1. Inv => RunningIsEntitled
  BY DEF Inv, RunningIsEntitled, AdmittedPassed, Passed, RunningEntitled, Entitled
<1> QED
  BY <1>1, Invariance, PTL

\* Which steps can take a session away, and why.
LEMMA StepEndsSession ==
    ASSUME Inv, [Next]_vars, NEW id \in Id, sessions[id] # None, sessions'[id] = None
    PROVE  time > sessions[id].expires \/ EndedByOwner(id)
<1>1. sessions[id] \in Session /\ sessions[id].expires \in Int /\ time \in Int
  BY Apart DEF Inv, TypeOK, Session
<1>2. ASSUME NEW r \in Request, TurnAway(r) \/ Admit(r) \/ Refuse(r) \/ Finish(r)
      PROVE  FALSE
  BY <1>2 DEF TurnAway, Admit, Refuse, Finish, vars
<1>3. ASSUME NEW r \in Request, Generate(r) PROVE FALSE
  <2>1. PICK i \in Id : /\ issued[i] = None
                        /\ sessions' = [sessions EXCEPT ![i] = NewSession(r)]
    BY <1>3 DEF Generate
  <2>2. i # id
    BY <2>1 DEF Inv, SessionsAreAsIssued, SessionIsAsIssued
  <2> QED
    BY <2>1, <2>2 DEF Inv, TypeOK
<1>4. ASSUME NEW r \in Request, Validate(r) PROVE time > sessions[id].expires
  <2>1. msg[r].id \in Id
    BY <1>4, VerdictOk DEF Validate, Arrived
  <2>2. CASE Expired(msg[r].id, time)
    BY <1>4, <2>1, <2>2, Dropped DEF Validate, Expired
  <2>3. CASE ~ Expired(msg[r].id, time)
    BY <1>4, <2>3 DEF Validate
  <2> QED
    BY <2>2, <2>3
<1>5. ASSUME NEW r \in Request, Terminate(r) PROVE EndedByOwner(id)
  <2>1. /\ msg[r].id \in Id /\ sessions[msg[r].id].cred = msg[r].cred
        /\ sessions' = [sessions EXCEPT ![msg[r].id] = None]
        /\ pc[r] = "admitted" /\ msg[r].kind = "delete"
    BY <1>5, VerdictOk DEF Terminate, Arrived
  <2>2. msg[r].id = id
    BY <2>1, Dropped
  <2>3. pc'[r] = "idle"
    BY <1>5, ReplyKeeps DEF Terminate
  <2>4. issued[id].cred = sessions[id].cred
    BY DEF Inv, SessionsAreAsIssued, SessionIsAsIssued
  <2> QED
    BY <2>1, <2>2, <2>3, <2>4 DEF EndedByOwner
<1>6. CASE Sweep
  <2>1. Swept(id)
    BY <1>6 DEF Sweep
  <2>2. tick # None /\ tick \in Int /\ tick > sessions[id].expires
    BY <1>6, <2>1, Apart DEF Swept, Expired, Sweep, Inv, TypeOK
  <2>3. tick <= time
    BY <2>2 DEF Inv, TickIsPast
  <2> QED
    BY <1>1, <2>2, <2>3
<1>7. CASE TickerFires \/ Clock \/ Cancel \/ Stop \/ GiveUp \/ UNCHANGED vars
  BY <1>7 DEF TickerFires, Clock, Cancel, Stop, GiveUp, vars
<1> QED
  BY <1>2, <1>3, <1>4, <1>5, <1>6, <1>7 DEF Next, Handle

\* A session that has not expired is taken away by nobody but its own credential.
THEOREM LiveSessionsStayAlways == Spec => LiveSessionsStay
<1> DEFINE Step == \A id \in Id : sessions[id] # None /\ sessions'[id] = None
                        => time > sessions[id].expires \/ EndedByOwner(id)
<1>1. Inv /\ [Next]_vars => Step
  BY StepEndsSession
<1>2. Inv /\ [Next]_vars => [Step]_vars
  BY <1>1
<1> HIDE DEF Step
<1>3. Spec => [][Step]_vars
  BY <1>2, Invariance, PTL DEF Spec
<1> QED
  BY <1>3 DEF LiveSessionsStay, Step

\* A step leaves every session that was ever issued as it is, or ends it.
LEMMA StepKeepsSession ==
    ASSUME Inv, [Next]_vars, NEW id \in Id, issued[id] # None
    PROVE  sessions'[id] \in {sessions[id], None}
<1>1. ASSUME NEW r \in Request, TurnAway(r) \/ Admit(r) \/ Refuse(r) \/ Finish(r)
      PROVE  sessions' = sessions
  BY <1>1 DEF TurnAway, Admit, Refuse, Finish, vars
<1>2. ASSUME NEW r \in Request, Generate(r) PROVE sessions'[id] = sessions[id]
  BY <1>2 DEF Generate, Inv, TypeOK
<1>3. ASSUME NEW r \in Request, Validate(r) \/ Terminate(r)
      PROVE  sessions'[id] \in {sessions[id], None}
  <2>1. msg[r].id \in Id
    BY <1>3, VerdictOk DEF Validate, Terminate, Arrived
  <2>2. sessions' = sessions \/ sessions' = [sessions EXCEPT ![msg[r].id] = None]
    BY <1>3 DEF Validate, Terminate
  <2> QED
    BY <2>1, <2>2, Dropped
<1>4. CASE Sweep
  BY <1>4 DEF Sweep
<1>5. CASE TickerFires \/ Clock \/ Cancel \/ Stop \/ GiveUp \/ UNCHANGED vars
  BY <1>5 DEF TickerFires, Clock, Cancel, Stop, GiveUp, vars
<1> QED
  BY <1>1, <1>2, <1>3, <1>4, <1>5 DEF Next, Handle

\* Sessions never come back, change hands or get more time.
THEOREM SessionsEndForGoodAlways == Spec => SessionsEndForGood
<1> DEFINE Step == \A id \in Id : issued[id] # None
                        => sessions'[id] \in {sessions[id], None}
<1>1. Inv /\ [Next]_vars => [Step]_vars
  BY StepKeepsSession
<1> HIDE DEF Step
<1>2. Spec => [][Step]_vars
  BY <1>1, Invariance, PTL DEF Spec
<1> QED
  BY <1>2 DEF SessionsEndForGood, Step

\* Nothing but its expiry or its owner ends a session, and it ends for good.
THEOREM SessionsLiveOnceAlways == Spec => SessionsLiveOnce
<1> QED
  BY LiveSessionsStayAlways, SessionsEndForGoodAlways DEF SessionsLiveOnce

------------------------------------------------------------------------------
\* The state directory

Writing(s, f) == stage[s] \in {"open", "fill"} /\ target[s] = f

\* The server has its token.
HasToken(s) ==
    \/ stage[s] \in {"cert", "key", "serving"}
    \/ stage[s] \in {"open", "fill"} /\ target[s] # "token"

\* No file is ever removed, so that what was there at the start of a server is there.
FilesStay == \A s \in Server : \A f \in had[s] : file[f] # Absent

\* Of two starts that do not overlap one is over.
OneStarts ==
    \A s, t \in Server : stage[s] \in Starting /\ stage[t] \in Starting => s = t

\* A certificate is there only with its key, whole but perhaps for itself.
CertAfterKey ==
    file["cert"] # Absent =>
        file["key"] \in Server /\ file["cert"] \in {Torn, file["key"]}

\* What the place of a server says of the files.
Place(s) ==
    /\ Writing(s, "key") => file["cert"] = Absent
    /\ Writing(s, "cert") =>
          /\ file["key"] = s
          /\ file["cert"] = IF stage[s] = "open" THEN Absent ELSE Torn
    /\ stage[s] = "key" => cert[s] = file["cert"]
    /\ stage[s] = "serving" => cert[s] = file["cert"] /\ key[s] = file["key"]
    /\ HasToken(s) /\ token[s] # Env => token[s] = file["token"]
    /\ Writing(s, "token") => \A t \in Server : HasToken(t) => token[t] = Env

Orderly == OneStarts /\ CertAfterKey /\ \A s \in Server : Place(s)

StateInv ==
    /\ StateTypeOK
    /\ PairsMatch
    /\ FilesStay
    /\ ExistingFilesAreKept
    /\ ~ overlap => Orderly

LEMMA StateInitInv == StateInit => StateInv
<1> SUFFICES ASSUME StateInit PROVE StateInv
  OBVIOUS
<1>1. StateTypeOK
  <2>1. file \in [Files -> Contents] /\ target \in [Server -> Files]
    BY DEF StateInit, Files, Contents
  <2>2. /\ stage \in [Server -> Starting \cup Ended \cup {"idle", "serving"}]
        /\ had \in [Server -> SUBSET Files]
    BY DEF StateInit
  <2>3. overlap \in BOOLEAN
    BY Zenon DEF StateInit
  <2>4. faults \in 0..MaxFaults
    BY StateDirConstants DEF StateInit
  <2>5. /\ token \in [Server -> Server \cup {Torn, Env, Unset}]
        /\ cert \in [Server -> Server \cup {Torn, Unset}]
        /\ key \in [Server -> Server \cup {Torn, Unset}]
    BY DEF StateInit
  <2> QED
    BY <2>1, <2>2, <2>3, <2>4, <2>5 DEF StateTypeOK
<1>2. PairsMatch /\ FilesStay /\ ExistingFilesAreKept
  BY DEF StateInit, PairsMatch, FilesStay, ExistingFilesAreKept
<1>3. Orderly
  BY DEF StateInit, Orderly, OneStarts, CertAfterKey, Place, Writing, HasToken, Starting, Files
<1> QED
  BY <1>1, <1>2, <1>3 DEF StateInv

------------------------------------------------------------------------------
\* What holds without any order of the starts

LEMMA NextStateTypeOK == ASSUME StateTypeOK, [StateNext]_stateVars PROVE StateTypeOK'
<1> USE DEF StateTypeOK, Files, Contents, Starting, Ended, GoTo
<1>1. ASSUME NEW s \in Server, Begin(s) PROVE StateTypeOK'
  <2>1. had' \in [Server -> SUBSET Files] /\ overlap' \in BOOLEAN
    BY <1>1 DEF Begin
  <2>2. /\ stage' \in [Server -> Starting \cup Ended \cup {"idle", "serving"}]
        /\ token' \in [Server -> Server \cup {Torn, Env, Unset}]
    BY <1>1 DEF Begin
  <2> QED
    BY <1>1, <2>1, <2>2 DEF Begin
<1>2. ASSUME NEW s \in Server, ReadToken(s) PROVE StateTypeOK'
  BY <1>2 DEF ReadToken, Create
<1>3. ASSUME NEW s \in Server, ReadCert(s) PROVE StateTypeOK'
  BY <1>3 DEF ReadCert, Regenerate, Create, WriteOrder
<1>4. ASSUME NEW s \in Server, ReadKey(s) PROVE StateTypeOK'
  BY <1>4 DEF ReadKey, Regenerate, Create, WriteOrder
<1>5. ASSUME NEW s \in Server, Write(s) PROVE StateTypeOK'
  BY <1>5 DEF Write, Open, FillToken, FillFirst, FillSecond, Create, WriteOrder
<1>6. ASSUME NEW s \in Server, IOFails(s) \/ Killed(s) PROVE StateTypeOK'
  <2>1. faults' \in 0..MaxFaults
    BY <1>6, StateDirConstants DEF IOFails, Killed
  <2> QED
    BY <1>6, <2>1 DEF IOFails, Killed
<1>7. ASSUME NEW s \in Server, Shutdown(s) PROVE StateTypeOK'
  BY <1>7 DEF Shutdown
<1>8. CASE UNCHANGED stateVars
  BY <1>8 DEF stateVars
<1> QED
  BY <1>1, <1>2, <1>3, <1>4, <1>5, <1>6, <1>7, <1>8 DEF StateNext, Load

\* Only writes change files, and they leave something.
LEMMA FilesGrow ==
    ASSUME StateInv, [StateNext]_stateVars, NEW f \in Files, file[f] # Absent
    PROVE  file'[f] # Absent
<1>1. ASSUME NEW s \in Server, Write(s) PROVE file'[f] # Absent
  BY <1>1, StateDirConstants
     DEF Write, Open, FillToken, FillFirst, FillSecond, StateInv, StateTypeOK
<1>2. ASSUME NEW s \in Server,
             Begin(s) \/ Load(s) \/ IOFails(s) \/ Killed(s) \/ Shutdown(s)
      PROVE  file' = file
  BY <1>2 DEF Begin, Load, ReadToken, ReadCert, ReadKey, IOFails, Killed, Shutdown
<1> QED
  BY <1>1, <1>2 DEF StateNext, stateVars

LEMMA NextPairsMatch == ASSUME StateInv, [StateNext]_stateVars PROVE PairsMatch'
<1> SUFFICES ASSUME NEW t \in Server PROVE
        stage'[t] = "serving" => cert'[t] \in Server /\ key'[t] = cert'[t]
  BY DEF PairsMatch
<1> USE DEF StateInv, StateTypeOK, PairsMatch, GoTo
<1>1. ASSUME NEW s \in Server, Begin(s) \/ ReadToken(s) \/ ReadCert(s) PROVE
        stage'[t] = "serving" => cert'[t] \in Server /\ key'[t] = cert'[t]
  BY <1>1 DEF Begin, ReadToken, ReadCert, Regenerate, Create
<1>2. ASSUME NEW s \in Server, ReadKey(s) PROVE
        stage'[t] = "serving" => cert'[t] \in Server /\ key'[t] = cert'[t]
  BY <1>2 DEF ReadKey, Regenerate, Create, Loads
<1>3. ASSUME NEW s \in Server, Write(s) PROVE
        stage'[t] = "serving" => cert'[t] \in Server /\ key'[t] = cert'[t]
  BY <1>3 DEF Write, Open, FillToken, FillFirst, FillSecond, Create
<1>4. ASSUME NEW s \in Server, IOFails(s) \/ Killed(s) \/ Shutdown(s) PROVE
        stage'[t] = "serving" => cert'[t] \in Server /\ key'[t] = cert'[t]
  BY <1>4 DEF IOFails, Killed, Shutdown
<1> QED
  BY <1>1, <1>2, <1>3, <1>4 DEF StateNext, Load, stateVars

LEMMA NextFilesStay == ASSUME StateInv, [StateNext]_stateVars PROVE FilesStay'
<1> SUFFICES ASSUME NEW t \in Server, NEW f \in had'[t] PROVE file'[f] # Absent
  BY DEF FilesStay
<1>1. CASE \E s \in Server : Begin(s)
  <2>1. file' = file /\ (f \in had[t] \/ file[f] # Absent)
    BY <1>1 DEF Begin, StateInv, StateTypeOK
  <2> QED
    BY <2>1 DEF StateInv, FilesStay
<1>2. CASE ~ \E s \in Server : Begin(s)
  <2>1. had' = had
    BY <1>2 DEF StateNext, Load, Write, ReadToken, ReadCert, ReadKey, Open, FillToken,
           FillFirst, FillSecond, IOFails, Killed, Shutdown, stateVars
  <2>2. f \in Files /\ file[f] # Absent
    BY <2>1 DEF StateInv, StateTypeOK, FilesStay
  <2> QED
    BY <2>2, FilesGrow
<1> QED
  BY <1>1, <1>2

Kept(t) ==
    stage[t] \in {"open", "fill"} =>
        IF target[t] = "token" THEN "token" \notin had[t]
                               ELSE ~ {"key", "cert"} \subseteq had[t]

LEMMA NextKept == ASSUME StateInv, [StateNext]_stateVars PROVE ExistingFilesAreKept'
<1> SUFFICES ASSUME NEW t \in Server PROVE Kept(t)'
  BY DEF ExistingFilesAreKept, Kept
<1>0. Kept(t) /\ \A f \in had[t] : file[f] # Absent
  BY DEF StateInv, ExistingFilesAreKept, Kept, FilesStay
<1> USE DEF StateInv, StateTypeOK, GoTo, Kept
<1>1. ASSUME NEW s \in Server, Begin(s) PROVE Kept(t)'
  BY <1>0, <1>1 DEF Begin
<1>2. ASSUME NEW s \in Server, ReadToken(s) PROVE Kept(t)'
  BY <1>0, <1>2 DEF ReadToken, Create
<1>3. ASSUME NEW s \in Server, ReadCert(s) \/ ReadKey(s) PROVE Kept(t)'
  BY <1>0, <1>3 DEF ReadCert, ReadKey, Regenerate, Create, WriteOrder
<1>4. ASSUME NEW s \in Server, Write(s) PROVE Kept(t)'
  BY <1>0, <1>4 DEF Write, Open, FillToken, FillFirst, FillSecond, Create, WriteOrder
<1>5. ASSUME NEW s \in Server, IOFails(s) \/ Killed(s) \/ Shutdown(s) PROVE Kept(t)'
  BY <1>0, <1>5 DEF IOFails, Killed, Shutdown
<1> QED
  BY <1>0, <1>1, <1>2, <1>3, <1>4, <1>5 DEF StateNext, Load, stateVars

------------------------------------------------------------------------------
\* What holds as long as starts do not overlap

\* A server outside its start only has what it serves with.
LEMMA OutsideStart ==
    ASSUME StateInv, NEW t \in Server, stage[t] \notin Starting
    PROVE  /\ ~ Writing(t, "key") /\ ~ Writing(t, "cert") /\ ~ Writing(t, "token")
           /\ stage[t] # "key"
           /\ HasToken(t) <=> stage[t] = "serving"
  BY DEF Starting, Writing, HasToken

\* A step of a server that is starting, seen by the others: they stand still, and
\* those that serve see their files unchanged.
LEMMA OthersStandStill ==
    ASSUME StateInv, Orderly, NEW s \in Server, stage[s] \in Starting,
           NEW t \in Server, t # s
    PROVE  stage[t] \notin Starting
  BY DEF Orderly, OneStarts

LEMMA BeginOrderly ==
    ASSUME StateInv, NEW s \in Server, Begin(s), ~ overlap' PROVE Orderly'
<1>1. Orderly /\ \A t \in Server : stage[t] \notin Starting
  BY DEF Begin, StateInv
<1>2. /\ stage' = [stage EXCEPT ![s] = stage'[s]] /\ stage'[s] \in {"token", "cert"}
      /\ token' = [token EXCEPT ![s] = token'[s]] /\ (stage'[s] = "cert" => token'[s] = Env)
      /\ UNCHANGED <<file, target, cert, key>>
  BY DEF Begin, GoTo, StateInv, StateTypeOK
<1>3. OneStarts'
  BY <1>1, <1>2 DEF OneStarts, StateInv, StateTypeOK
<1>4. CertAfterKey'
  BY <1>1, <1>2 DEF Orderly, CertAfterKey
<1>5. ASSUME NEW t \in Server PROVE Place(t)'
  <2>1. Place(t)
    BY <1>1 DEF Orderly
  <2>2. CASE t = s
    BY <1>2, <2>1, <2>2 DEF Place, Writing, HasToken, StateInv, StateTypeOK
  <2>3. CASE t # s
    <3>1. stage'[t] = stage[t] /\ token'[t] = token[t] /\ stage[t] \notin Starting
      BY <1>1, <1>2, <2>3 DEF StateInv, StateTypeOK
    <3> QED
      BY <1>2, <2>1, <3>1 DEF Place, Writing, HasToken, Starting
  <2> QED
    BY <2>2, <2>3
<1> QED
  BY <1>3, <1>4, <1>5 DEF Orderly

LEMMA ReadTokenOrderly ==
    ASSUME StateInv, Orderly, NEW s \in Server, ReadToken(s) PROVE Orderly'
<1>1. stage[s] = "token" /\ UNCHANGED <<file, cert, key>>
  BY DEF ReadToken
<1>2. stage[s] \in Starting /\ Place(s)
  BY <1>1 DEF Starting, Orderly
<1>3. /\ stage' = [stage EXCEPT ![s] = stage'[s]]
      /\ \/ /\ stage'[s] = "open" /\ target'[s] = "token" /\ token' = token
            /\ file["token"] = Absent
         \/ stage'[s] = "cert" /\ token'[s] = file["token"] /\ UNCHANGED target
      /\ \A t \in Server : t # s => token'[t] = token[t] /\ target'[t] = target[t]
  BY DEF ReadToken, Create, GoTo, StateInv, StateTypeOK
<1>4. OneStarts'
  BY <1>2, <1>3 DEF Orderly, OneStarts, StateInv, StateTypeOK
<1>5. CertAfterKey'
  BY <1>1 DEF Orderly, CertAfterKey
<1>6. ASSUME NEW t \in Server, t # s
      PROVE  /\ stage[t] \notin Starting /\ stage'[t] = stage[t]
             /\ Place(t) /\ token'[t] = token[t]
  BY <1>2, <1>3, <1>6, OthersStandStill DEF Orderly, StateInv, StateTypeOK
<1>7. ASSUME file["token"] = Absent, stage'[s] = "open", NEW t \in Server, HasToken(t)'
      PROVE  token'[t] = Env
  <2>1. target'[s] = "token" /\ t # s
    BY <1>3, <1>7 DEF HasToken
  <2>2. HasToken(t) /\ token'[t] = token[t] /\ Place(t)
    BY <1>3, <1>6, <1>7, <2>1 DEF HasToken
  <2>3. token[t] # Absent
    BY StateDirConstants DEF StateInv, StateTypeOK
  <2> QED
    BY <1>7, <2>2, <2>3 DEF Place
<1>8. Place(s)'
  BY <1>1, <1>2, <1>3, <1>7 DEF Place, Writing, HasToken
<1>9. ASSUME NEW t \in Server, t # s PROVE Place(t)'
  BY <1>1, <1>3, <1>6, <1>9 DEF Place, Writing, HasToken, Starting
<1> QED
  BY <1>4, <1>5, <1>8, <1>9 DEF Orderly

LEMMA ReadPairOrderly ==
    ASSUME StateInv, Orderly, NEW s \in Server, ReadCert(s) \/ ReadKey(s) PROVE Orderly'
<1>1. stage[s] \in {"cert", "key"} /\ UNCHANGED <<file, token>>
  BY DEF ReadCert, ReadKey
<1>2. stage[s] \in Starting /\ Place(s) /\ CertAfterKey
  BY <1>1 DEF Starting, Orderly
<1>3. /\ stage' = [stage EXCEPT ![s] = stage'[s]]
      /\ \/ /\ stage'[s] = "open" /\ target'[s] = "key"
            /\ Absent \in {file["cert"], file["key"]}
         \/ stage'[s] = "key" /\ cert'[s] = file["cert"]
         \/ stage'[s] = "serving" /\ key'[s] = file["key"] /\ cert'[s] = cert[s] /\ stage[s] = "key"
         \/ stage'[s] = "failed"
      /\ \A t \in Server : t # s =>
            cert'[t] = cert[t] /\ key'[t] = key[t] /\ target'[t] = target[t]
  BY DEF ReadCert, ReadKey, Regenerate, Create, WriteOrder, GoTo, StateInv, StateTypeOK
<1>4. OneStarts'
  BY <1>2, <1>3 DEF Orderly, OneStarts, StateInv, StateTypeOK
<1>5. CertAfterKey'
  BY <1>1, <1>2 DEF CertAfterKey
<1>6. ASSUME NEW t \in Server, t # s
      PROVE  stage[t] \notin Starting /\ stage'[t] = stage[t] /\ Place(t)
  BY <1>2, <1>3, <1>6, OthersStandStill DEF Orderly, StateInv, StateTypeOK
<1>7. Absent \in {file["cert"], file["key"]} => file["cert"] = Absent
  BY <1>2, StateDirConstants DEF CertAfterKey
<1>8. HasToken(s)
  BY <1>1 DEF HasToken
<1>9. Place(s)'
  BY <1>1, <1>2, <1>3, <1>7, <1>8 DEF Place, Writing, HasToken
<1>10. ASSUME NEW t \in Server, t # s PROVE Place(t)'
  BY <1>1, <1>3, <1>6, <1>10 DEF Place, Writing, HasToken, Starting
<1> QED
  BY <1>4, <1>5, <1>9, <1>10 DEF Orderly

\* Who serves keeps what it serves with on disk, whatever the next start writes.
LEMMA WritesSpareServing ==
    ASSUME StateInv, Orderly, NEW s \in Server, NEW f \in Files, Writing(s, f),
           NEW t \in Server, t # s, stage[t] = "serving"
    PROVE  f = "token" /\ token[t] = Env
<1>1. Place(s) /\ Place(t) /\ cert[t] \in Server
  BY DEF Orderly, StateInv, PairsMatch
<1>2. file["cert"] \in Server
  BY <1>1 DEF Place
<1>3. f \notin {"key", "cert"}
  BY <1>1, <1>2, StateDirConstants DEF Place, Writing
<1> QED
  BY <1>1, <1>3 DEF Place, HasToken, Files

LEMMA OthersKeepPlace ==
    ASSUME StateInv, Orderly, NEW s \in Server, NEW f \in Files, Writing(s, f),
           NEW t \in Server, t # s,
           stage'[t] = stage[t], token'[t] = token[t], cert'[t] = cert[t], key'[t] = key[t],
           target'[t] = target[t], \A g \in Files : g # f => file'[g] = file[g]
    PROVE  Place(t)'
<1>1. Place(t) /\ stage[t] \notin Starting
  BY OthersStandStill DEF Orderly, Writing, Starting
<1>2. CASE stage[t] = "serving"
  <2>1. f = "token" /\ token[t] = Env
    BY <1>2, WritesSpareServing
  <2>2. file'["cert"] = file["cert"] /\ file'["key"] = file["key"]
    BY <2>1 DEF Files
  <2> QED
    BY <1>1, <1>2, <2>1, <2>2 DEF Place, Writing, HasToken
<1>3. CASE stage[t] # "serving"
  BY <1>1, <1>3 DEF Place, Writing, HasToken, Starting
<1> QED
  BY <1>2, <1>3

LEMMA OpenOrderly ==
    ASSUME StateInv, Orderly, NEW s \in Server, Open(s) PROVE Orderly'
<1> DEFINE f == target[s]
<1>1. /\ f \in Files /\ Writing(s, f) /\ stage[s] = "open" /\ stage[s] \in Starting
      /\ Place(s) /\ CertAfterKey
  BY DEF Open, StateInv, StateTypeOK, Writing, Orderly, Starting
<1>2. /\ stage' = [stage EXCEPT ![s] = "fill"] /\ file'[f] = Torn
      /\ \A g \in Files : g # f => file'[g] = file[g]
      /\ UNCHANGED <<target, token, cert, key>>
  BY <1>1 DEF Open, GoTo, StateInv, StateTypeOK
<1>3. OneStarts'
  BY <1>1, <1>2 DEF Orderly, OneStarts, StateInv, StateTypeOK
<1>4. CertAfterKey'
  <2>1. CASE f = "token"
    BY <1>1, <1>2, <2>1 DEF CertAfterKey, Files
  <2>2. CASE f = "key"
    BY <1>1, <1>2, <2>2 DEF CertAfterKey, Files, Place
  <2>3. CASE f = "cert"
    BY <1>1, <1>2, <2>3 DEF CertAfterKey, Files, Place
  <2> QED
    BY <1>1, <2>1, <2>2, <2>3 DEF Files
<1>5. Place(s)'
  <2>1. stage'[s] = "fill" /\ target'[s] = f
    BY <1>2 DEF StateInv, StateTypeOK
  <2>2. ASSUME f = "token", NEW t \in Server, HasToken(t)' PROVE token'[t] = Env
    <3>1. t # s
      BY <2>1, <2>2 DEF HasToken
    <3>2. HasToken(t)
      BY <1>2, <2>2, <3>1 DEF HasToken, StateInv, StateTypeOK
    <3> QED
      BY <1>1, <1>2, <2>2, <3>2 DEF Place
  <2>3. CASE f = "token"
    BY <2>1, <2>2, <2>3 DEF Place, Writing, HasToken
  <2>4. CASE f \in {"key", "cert"}
    <3>1. file'["token"] = file["token"] /\ (f = "key" => file'["cert"] = file["cert"])
          /\ (f = "cert" => file'["key"] = file["key"])
      BY <1>2, <2>4 DEF Files
    <3> QED
      BY <1>1, <1>2, <2>1, <2>4, <3>1 DEF Place, Writing, HasToken
  <2> QED
    BY <1>1, <2>3, <2>4 DEF Files
<1>6. ASSUME NEW t \in Server, t # s PROVE Place(t)'
  <2>1. stage'[t] = stage[t]
    BY <1>2, <1>6 DEF StateInv, StateTypeOK
  <2> QED
    BY <1>1, <1>2, <1>6, <2>1, OthersKeepPlace
<1> QED
  BY <1>3, <1>4, <1>5, <1>6 DEF Orderly

LEMMA FillOrderly ==
    ASSUME StateInv, Orderly, NEW s \in Server, FillToken(s) \/ FillFirst(s) \/ FillSecond(s)
    PROVE  Orderly'
<1> DEFINE f == target[s]
<1>1. /\ f \in Files /\ Writing(s, f) /\ stage[s] = "fill" /\ stage[s] \in Starting
      /\ Place(s) /\ CertAfterKey
  BY DEF FillToken, FillFirst, FillSecond, StateInv, StateTypeOK, Writing, Orderly, Starting
<1>2. file'[f] = s /\ \A g \in Files : g # f => file'[g] = file[g]
  BY <1>1 DEF FillToken, FillFirst, FillSecond, StateInv, StateTypeOK
<1>3. \A t \in Server : t # s =>
        /\ stage'[t] = stage[t] /\ token'[t] = token[t] /\ cert'[t] = cert[t]
        /\ key'[t] = key[t] /\ target'[t] = target[t]
  BY DEF FillToken, FillFirst, FillSecond, Create, GoTo, StateInv, StateTypeOK
<1>4. \/ f = "token" /\ stage'[s] = "cert" /\ token'[s] = s
      \/ f = "key" /\ stage'[s] = "open" /\ target'[s] = "cert" /\ token' = token
      \/ /\ f = "cert" /\ stage'[s] = "serving" /\ cert'[s] = s /\ key'[s] = s
         /\ token' = token
  BY DEF FillToken, FillFirst, FillSecond, Create, WriteOrder, GoTo, StateInv, StateTypeOK
<1>5. OneStarts'
  BY <1>1, <1>3 DEF Orderly, OneStarts
<1>6. CertAfterKey'
  <2>1. CASE f = "token"
    BY <1>1, <1>2, <2>1 DEF CertAfterKey, Files
  <2>2. CASE f = "key"
    BY <1>1, <1>2, <2>2 DEF CertAfterKey, Files, Place
  <2>3. CASE f = "cert"
    BY <1>1, <1>2, <2>3 DEF CertAfterKey, Files, Place
  <2> QED
    BY <1>1, <2>1, <2>2, <2>3 DEF Files
<1>7. Place(s)'
  <2>1. CASE f = "token"
    BY <1>2, <1>4, <2>1 DEF Place, Writing, HasToken
  <2>2. CASE f = "key"
    <3>1. file'["key"] = s /\ file'["cert"] = Absent /\ file'["token"] = file["token"]
      BY <1>1, <1>2, <2>2 DEF Place, Files
    <3>2. HasToken(s)
      BY <1>1, <2>2 DEF HasToken
    <3> QED
      BY <1>1, <1>4, <2>2, <3>1, <3>2 DEF Place, Writing, HasToken
  <2>3. CASE f = "cert"
    <3>1. file'["cert"] = s /\ file'["key"] = s /\ file'["token"] = file["token"]
      BY <1>1, <1>2, <2>3 DEF Place, Files
    <3>2. HasToken(s)
      BY <1>1, <2>3 DEF HasToken
    <3> QED
      BY <1>1, <1>4, <2>3, <3>1, <3>2 DEF Place, Writing, HasToken
  <2> QED
    BY <1>1, <2>1, <2>2, <2>3 DEF Files
<1>8. ASSUME NEW t \in Server, t # s PROVE Place(t)'
  BY <1>1, <1>2, <1>3, <1>8, OthersKeepPlace
<1> QED
  BY <1>5, <1>6, <1>7, <1>8 DEF Orderly

\* A server that ends writes nothing and asks for nothing.
LEMMA EndOrderly ==
    ASSUME StateInv, Orderly, NEW s \in Server, IOFails(s) \/ Killed(s) \/ Shutdown(s)
    PROVE  Orderly'
<1>1. /\ stage' = [stage EXCEPT ![s] = stage'[s]] /\ stage'[s] \in Ended
      /\ UNCHANGED <<file, target, token, cert, key>>
  BY DEF IOFails, Killed, Shutdown, GoTo, StateInv, StateTypeOK, Ended
<1>2. OneStarts' /\ CertAfterKey'
  BY <1>1 DEF Orderly, OneStarts, CertAfterKey, StateInv, StateTypeOK, Starting, Ended
<1>3. ASSUME NEW t \in Server, HasToken(t)' PROVE HasToken(t)
  BY <1>1, <1>3 DEF HasToken, StateInv, StateTypeOK, Ended
<1>4. ASSUME NEW t \in Server PROVE Place(t)'
  <2>1. Place(t)
    BY DEF Orderly
  <2>2. CASE t = s
    BY <1>1, <2>2 DEF Place, Writing, HasToken, StateInv, StateTypeOK, Ended
  <2>3. CASE t # s
    <3>1. stage'[t] = stage[t]
      BY <1>1, <2>3 DEF StateInv, StateTypeOK
    <3> QED
      BY <1>1, <1>3, <2>1, <3>1 DEF Place, Writing, HasToken
  <2> QED
    BY <2>2, <2>3
<1> QED
  BY <1>2, <1>4 DEF Orderly

LEMMA NextOrderly == ASSUME StateInv, [StateNext]_stateVars, ~ overlap' PROVE Orderly'
<1>1. ASSUME NEW s \in Server, Begin(s) PROVE Orderly'
  BY <1>1, BeginOrderly
<1>2. CASE ~ \E s \in Server : Begin(s)
  <2>1. overlap' = overlap
    BY <1>2 DEF StateNext, Load, Write, ReadToken, ReadCert, ReadKey, Open, FillToken,
           FillFirst, FillSecond, IOFails, Killed, Shutdown, stateVars
  <2>2. Orderly
    BY <2>1 DEF StateInv
  <2>3. CASE UNCHANGED stateVars
    BY <2>2, <2>3 DEF Orderly, OneStarts, CertAfterKey, Place, Writing, HasToken, stateVars
  <2> QED
    BY <1>2, <2>2, <2>3, ReadTokenOrderly, ReadPairOrderly, OpenOrderly, FillOrderly,
       EndOrderly DEF StateNext, Load, Write
<1> QED
  BY <1>1, <1>2

\* StateInv holds in every reachable state.
THEOREM StateInvariance == StateSpec => []StateInv
<1>1. StateInit => StateInv
  BY StateInitInv
<1>2. StateInv /\ [StateNext]_stateVars => StateInv'
  <2> SUFFICES ASSUME StateInv, [StateNext]_stateVars PROVE StateInv'
    OBVIOUS
  <2>1. StateTypeOK'
    BY NextStateTypeOK DEF StateInv
  <2> QED
    BY <2>1, NextPairsMatch, NextFilesStay, NextKept, NextOrderly DEF StateInv
<1> QED
  BY <1>1, <1>2, PTL DEF StateSpec

------------------------------------------------------------------------------
\* The properties

\* The files and the servers stay within their types.
THEOREM StateTypeCorrect == StateSpec => []StateTypeOK
<1>1. StateInv => StateTypeOK
  BY DEF StateInv
<1> QED
  BY <1>1, StateInvariance, PTL

\* No server listens with a certificate that is not its key's.
THEOREM PairsMatchAlways == StateSpec => []PairsMatch
<1>1. StateInv => PairsMatch
  BY DEF StateInv
<1> QED
  BY <1>1, StateInvariance, PTL

\* As long as no two starts overlap, all servers serve with what is on disk.
THEOREM OneIdentityForAll == StateSpec => []OneIdentity
<1>1. StateInv => OneIdentity
  BY DEF StateInv, OneIdentity, Orderly, Place, HasToken
<1> QED
  BY <1>1, StateInvariance, PTL

\* A server that serves does so with a pair that matches and, as long as no two
\* starts overlap, with the one identity of the state directory.
THEOREM ServingIsSoundAlways == StateSpec => []ServingIsSound
<1>1. StateInv => OneIdentity
  BY DEF StateInv, OneIdentity, Orderly, Place, HasToken
<1>2. StateInv => ServingIsSound
  BY <1>1 DEF StateInv, ServingIsSound
<1> QED
  BY <1>2, StateInvariance, PTL

\* As long as no two starts overlap, and none was stopped in the write of the
\* certificate, the pair on disk loads or a part of it is missing, so that the next
\* start makes a new one.  Of the token it says nothing: that may be left empty.
THEOREM NextPairIsUsable == StateSpec => []NextStartSucceeds
<1>1. StateInv => NextStartSucceeds
  BY StateDirConstants DEF StateInv, NextStartSucceeds, Orderly, CertAfterKey, Loads
<1> QED
  BY <1>1, StateInvariance, PTL

\* No server writes files that were there when it started.
THEOREM FilesAreKept == StateSpec => []ExistingFilesAreKept
<1>1. StateInv => ExistingFilesAreKept
  BY DEF StateInv
<1> QED
  BY <1>1, StateInvariance, PTL
===============================================================================
