------------------------------ MODULE HttpSessions ------------------------------
(***************************************************************************)
(* The streamable HTTP transport (internal/httptransport): the middleware  *)
(* chain a request passes, the store of sessions bound to credentials with *)
(* its background sweeper, and the life of Run from serving to shutdown.   *)
(*                                                                         *)
(* A credential stands for the hash of the bearer token and, under mutual  *)
(* TLS, the client certificate.  What mcp-go does between the chain and    *)
(* the SessionIdManager is external: initialize generates a session, calls *)
(* validate theirs, DELETE terminates it.  A call may run for as long as   *)
(* it likes, and where only that matters stands for an SSE stream too.     *)
(***************************************************************************)
EXTENDS Integers

CONSTANTS
    Request,        \* requests in flight at once, each a goroutine
    Credential,     \* credential hashes
    Id,             \* session ids: the finite part of the 2^256 that is drawn
    TTL,            \* defaultSessionTTL, in ticks
    Patience,       \* shutdownTimeout, in ticks
    MaxTime,        \* bound on the clock
    None            \* no session, no id, no tick

Kinds == {"initialize", "call", "delete"}

\* What a request looks like to the chain: are its Host and Origin allowed, is the
\* token right, is the body within the limit; and then to the session manager.
Head    == [host : BOOLEAN, token : BOOLEAN, fits : BOOLEAN]
Message == [kind : Kinds, cred : Credential, id : Id \cup {None}]

Session == [cred : Credential, expires : 0..(MaxTime + TTL)]
Birth   == [cred : Credential, at : 0..MaxTime]

ASSUME SessionConstants ==
    /\ TTL \in Nat /\ Patience \in Nat /\ MaxTime \in Nat
    /\ None \notin Session \cup Birth \cup Head \cup Message \cup Id \cup 0..MaxTime

VARIABLES
    time,           \* the clock
    sessions,       \* sessionStore.sessions
    issued,         \* the sessions ever generated: for whom and when (history)
    tick,           \* the time in the channel of the sweep ticker, if any
    server,         \* serving, stopping (in Shutdown) or stopped (Run has returned)
    deadline,       \* when Shutdown gives up
    pc,             \* where each request is
    head, msg,      \* the request itself
    since           \* when its session was validated (history)

vars == <<time, sessions, issued, tick, server, deadline, pc, head, msg, since>>

Init ==
    /\ time = 0
    /\ sessions = [id \in Id |-> None]
    /\ issued = [id \in Id |-> None]
    /\ tick = None
    /\ server = "serving"
    /\ deadline = 0
    /\ pc = [r \in Request |-> "idle"]
    /\ head = [r \in Request |-> None]
    /\ msg = [r \in Request |-> None]
    /\ since = [r \in Request |-> 0]

------------------------------------------------------------------------------
\* The middleware chain

\* hostOriginMiddleware, then authMiddleware; the body cap bites when the handler
\* behind them reads the body.
Chain(h) == CASE ~ h.host -> "forbidden"
              [] h.host /\ ~ h.token -> "unauthorized"
              [] h.host /\ h.token /\ ~ h.fits -> "tooLarge"
              [] OTHER -> "ok"

\* A request that does not pass leaves no trace.
TurnAway(r) ==
    /\ server = "serving" /\ pc[r] = "idle"
    /\ \E h \in Head : Chain(h) # "ok"
    /\ UNCHANGED vars

\* A client presents an id it was once given, or none.
Sent(m) == m.id # None => issued[m.id] # None

Admit(r) ==
    /\ server = "serving" /\ pc[r] = "idle"
    /\ \E h \in Head : Chain(h) = "ok" /\ head' = [head EXCEPT ![r] = h]
    /\ \E m \in Message : Sent(m) /\ msg' = [msg EXCEPT ![r] = m]
    /\ pc' = [pc EXCEPT ![r] = "admitted"]
    /\ UNCHANGED <<time, sessions, issued, tick, server, deadline, since>>

------------------------------------------------------------------------------
\* The session manager.  Each operation is one critical section of sessionStore.mu.

Arrived(r, kinds) == server # "stopped" /\ pc[r] = "admitted" /\ msg[r].kind \in kinds

Reply(r) ==
    /\ pc' = [pc EXCEPT ![r] = "idle"]
    /\ head' = [head EXCEPT ![r] = None]
    /\ msg' = [msg EXCEPT ![r] = None]
    /\ since' = [since EXCEPT ![r] = 0]

NewSession(r) == [cred |-> msg[r].cred, expires |-> time + TTL]

Generate_Bug(r) ==          \* sets no expiry
    /\ Arrived(r, {"initialize"})
    /\ \E id \in Id :
        /\ issued[id] = None
        /\ sessions' = [sessions EXCEPT ![id] = [cred |-> msg[r].cred, expires |-> -1]]
        /\ issued' = [issued EXCEPT ![id] = [cred |-> msg[r].cred, at |-> time]]
    /\ Reply(r)
    /\ UNCHANGED <<time, tick, server, deadline>>

\* 32 random bytes: an id that was never drawn before.
Generate(r) ==
    /\ Arrived(r, {"initialize"})
    /\ \E id \in Id :
        /\ issued[id] = None
        /\ sessions' = [sessions EXCEPT ![id] = NewSession(r)]
        /\ issued' = [issued EXCEPT ![id] = [cred |-> msg[r].cred, at |-> time]]
    /\ Reply(r)
    /\ UNCHANGED <<time, tick, server, deadline>>

\* The lookup in the map, and the checks Validate and Terminate begin with.
Found(r) == IF msg[r].id = None THEN None ELSE sessions[msg[r].id]

Verdict_Bug(r) ==           \* checks that the id exists, not whose it is
    IF Found(r) = None THEN "unknown" ELSE "ok"

Verdict(r) == CASE Found(r) = None -> "unknown"
                [] Found(r) # None /\ Found(r).cred # msg[r].cred -> "mismatch"
                [] OTHER -> "ok"

Expired(id, at) == at > sessions[id].expires

\* A request with a session that is gone, or that is not its own.
Refuse(r) ==
    /\ Arrived(r, Kinds \ {"initialize"})
    /\ Verdict(r) # "ok"
    /\ Reply(r)
    /\ UNCHANGED <<time, sessions, issued, tick, server, deadline>>

\* Validate: an expired session is removed on the spot and reported as terminated.
Validate(r) ==
    /\ Arrived(r, {"call"})
    /\ Verdict(r) = "ok"
    /\ IF Expired(msg[r].id, time)
       THEN /\ sessions' = [sessions EXCEPT ![msg[r].id] = None]
            /\ Reply(r)
       ELSE /\ pc' = [pc EXCEPT ![r] = "running"]
            /\ since' = [since EXCEPT ![r] = time]
            /\ UNCHANGED <<sessions, head, msg>>
    /\ UNCHANGED <<time, issued, tick, server, deadline>>

\* Terminate does not look at the expiry.
Terminate(r) ==
    /\ Arrived(r, {"delete"})
    /\ Verdict(r) = "ok"
    /\ sessions' = [sessions EXCEPT ![msg[r].id] = None]
    /\ Reply(r)
    /\ UNCHANGED <<time, issued, tick, server, deadline>>

\* The tool call returns.
Finish(r) ==
    /\ server # "stopped" /\ pc[r] = "running"
    /\ Reply(r)
    /\ UNCHANGED <<time, sessions, issued, tick, server, deadline>>

------------------------------------------------------------------------------
\* The sweeper: the ticker puts its time in a channel of one place, and the
\* goroutine takes it from there when it gets to run.  Once the context is done it
\* may still take a tick that is waiting, or return instead.

TickerFires_Bug ==          \* a timer instead of a ticker: fires once
    /\ server = "serving" /\ tick = None /\ time = 0
    /\ tick' = time
    /\ UNCHANGED <<time, sessions, issued, server, deadline, pc, head, msg, since>>

TickerFires ==
    /\ server = "serving" /\ tick = None
    /\ tick' = time
    /\ UNCHANGED <<time, sessions, issued, server, deadline, pc, head, msg, since>>

Swept_Bug(id) == sessions[id] # None /\ tick >= sessions[id].expires

Swept(id) == sessions[id] # None /\ Expired(id, tick)

Sweep ==
    /\ server # "stopped" /\ tick # None
    /\ sessions' = [id \in Id |-> IF Swept(id) THEN None ELSE sessions[id]]
    /\ tick' = None
    /\ UNCHANGED <<time, issued, server, deadline, pc, head, msg, since>>

------------------------------------------------------------------------------
\* The life of Run

Clock ==
    /\ time < MaxTime /\ server # "stopped"
    /\ time' = time + 1
    /\ UNCHANGED <<sessions, issued, tick, server, deadline, pc, head, msg, since>>

\* The signal: the listener is closed, and Shutdown waits for the requests.
Cancel ==
    /\ server = "serving" /\ time + Patience <= MaxTime
    /\ server' = "stopping"
    /\ deadline' = time + Patience
    /\ UNCHANGED <<time, sessions, issued, tick, pc, head, msg, since>>

\* All requests are answered, or the listener has failed by itself.
Stop ==
    /\ \/ server = "stopping" /\ \A r \in Request : pc[r] = "idle"
       \/ server = "serving"
    /\ server' = "stopped"
    /\ UNCHANGED <<time, sessions, issued, tick, deadline, pc, head, msg, since>>

GiveUp_Bug ==               \* waits for the requests however long they take
    /\ server = "stopping" /\ deadline < time
    /\ \A r \in Request : pc[r] = "idle"
    /\ server' = "stopped"
    /\ UNCHANGED <<time, sessions, issued, tick, deadline, pc, head, msg, since>>

\* The shutdown timeout: Run returns an error and the process exits under the
\* requests that still run.
GiveUp ==
    /\ server = "stopping" /\ deadline <= time
    /\ server' = "stopped"
    /\ UNCHANGED <<time, sessions, issued, tick, deadline, pc, head, msg, since>>

Handle(r) == Generate(r) \/ Refuse(r) \/ Validate(r) \/ Terminate(r)

Next == \/ \E r \in Request : TurnAway(r) \/ Admit(r) \/ Handle(r) \/ Finish(r)
        \/ TickerFires \/ Sweep \/ Clock \/ Cancel \/ Stop \/ GiveUp

Spec == Init /\ [][Next]_vars

\* Goroutines that can run do, time passes, and the ticker fires again and again.
\* No request need ever finish.
FairSpec ==
    /\ Spec
    /\ WF_vars(TickerFires) /\ WF_vars(server = "serving" /\ Sweep) /\ WF_vars(Clock) /\ WF_vars(GiveUp)
    /\ \A r \in Request : WF_vars(Handle(r))

------------------------------------------------------------------------------
\* Properties

\* Every session has an owner and an expiry within range, every request is idle,
\* past the chain or running.
TypeOK ==
    /\ time \in 0..MaxTime
    /\ sessions \in [Id -> Session \cup {None}]
    /\ issued \in [Id -> Birth \cup {None}]
    /\ tick \in 0..MaxTime \cup {None}
    /\ server \in {"serving", "stopping", "stopped"}
    /\ deadline \in 0..MaxTime
    /\ pc \in [Request -> {"idle", "admitted", "running"}]
    /\ head \in [Request -> Head \cup {None}]
    /\ msg \in [Request -> Message \cup {None}]
    /\ since \in [Request -> 0..MaxTime]

\* A tool call runs only for a request that passed the whole chain, in a
\* session that was generated for the same credential no longer than TTL before it
\* was validated, whatever sweeps and terminations happened in between.
RunningIsEntitled ==
    \A r \in Request : pc[r] = "running" =>
        /\ head[r].host /\ head[r].token /\ head[r].fits
        /\ issued[msg[r].id] # None
        /\ issued[msg[r].id].cred = msg[r].cred
        /\ since[r] <= issued[msg[r].id].at + TTL

EndedByOwner(id) ==
    \E r \in Request : /\ pc[r] = "admitted" /\ pc'[r] = "idle"
                       /\ msg[r].kind = "delete" /\ msg[r].id = id
                       /\ msg[r].cred = issued[id].cred

\* A session is in use until it has expired by the clock, not by a tick that was
\* read late, or until its own credential terminates it: neither the sweeper nor
\* another client can take it away.
LiveSessionsStay ==
    [][\A id \in Id : sessions[id] # None /\ sessions'[id] = None
                          => time > sessions[id].expires \/ EndedByOwner(id)]_vars

\* A session that is gone never comes back, and one that is there never changes
\* its owner nor gets more time.
SessionsEndForGood ==
    [][\A id \in Id : issued[id] # None => sessions'[id] \in {sessions[id], None}]_vars

\* A session lives exactly once: from its creation to its expiry or to its owner's
\* DELETE, with the same owner and the same time to live.
SessionsLiveOnce == LiveSessionsStay /\ SessionsEndForGood

\* The sweeper forgets every session that has expired, so that the store does not
\* grow without end.
ExpiredSessionsLeave ==
    \A id \in Id :
        (sessions[id] # None /\ time > sessions[id].expires)
            ~> (sessions[id] = None \/ server # "serving")

\* Run returns after the signal even if a stream or a call never ends.
ShutdownEnds == (server = "stopping") ~> (server = "stopped")
===============================================================================
