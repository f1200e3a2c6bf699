----------------------------- MODULE TCPServer -----------------------------
(***************************************************************************)
(* The running server: TCP_Handler, TCP_Session and TCP_Pool on one        *)
(* io_service thread (Network/, Server/ServerInit.cpp), with the user      *)
(* database of module UserDB.                                              *)
(*                                                                         *)
(* A session object is known by its address, a member of Connection; an    *)
(* address is used again once its object is destroyed.  Its asynchronous   *)
(* operations are counted by the handler they will call and by what has    *)
(* become of them: `wait' (in the kernel), `ok' or `error' (completed, the *)
(* handler is queued).  A handler runs to its end in one step, except      *)
(* registration(), which reads synchronously and so holds the thread over  *)
(* many steps (variable `registering').                                    *)
(*                                                                         *)
(* External parts, modelled from how the code uses them: the peers, the    *)
(* TCP sockets and the asio reactor; signals.                              *)
(***************************************************************************)
EXTENDS UserDB, FiniteSets

CONSTANTS
    NoSession,  \* no session object
    Word,       \* the words peers type: a subset of Mode
    MaxChunk,   \* tokens that reach a socket between two reads
    MaxReads,   \* reads of one session that complete with data
    MaxLogins   \* times one session may ask to log in

(* modeRequest, aliases and case apart; every other word is "other". *)
Mode == {"quit", "login", "register", "other"}

ASSUME ServerAssumption ==
    /\ NoSession \notin Connection
    /\ Word \subseteq Mode
    /\ {MaxChunk, MaxReads, MaxLogins} \subseteq Nat

VARIABLES
    session,           \* [Connection -> SessionState]
    tcp_participants,  \* TCP_Pool: the addresses in the pool
    registering,       \* the session whose registration() holds the thread
    usernameAttempt,   \* its local variable
    server,            \* "up" until io_service::run returns or throws
    signalled          \* SIGINT or SIGTERM has been delivered

serverVars == <<registering, usernameAttempt, server, signalled>>
vars == <<session, tcp_participants, m_users, serverVars>>

-----------------------------------------------------------------------------
(* The state of a session object. *)

CRLF == "CRLF"
Token == Mode \cup {CRLF}

Handler == {"startSession", "initMode", "registration"}
Writer == {"startSession", "registration"}  \* handlers that end an async_write
Status == {"wait", "ok", "error"}

SessionState ==
    [ life : {"free", "accepting", "accepted", "failed", "open"},
      peer : {"open", "closed", "reset"},       \* closed: it sent its FIN
      shut : BOOLEAN,                           \* shutdown(both) was called
      raw_line_command : Seq(Token),            \* the streambuf
      username : Name \cup {NoName},
      screen : Screen,
      ops : [Handler -> [Status -> Nat]],
      reads : Nat, logins : Nat ]               \* counters behind the bounds

NoOps == [h \in Handler |-> [st \in Status |-> 0]]

(* The constructor; also what the model keeps at an address with no object. *)
NewSession(life) ==
    [ life |-> life, peer |-> "open", shut |-> FALSE, raw_line_command |-> <<>>,
      username |-> NoName, screen |-> Blank, ops |-> NoOps, reads |-> 0, logins |-> 0 ]

Start(s, h, st) == [s EXCEPT !.ops[h][st] = @ + 1]
Finish(s, h, st) == [s EXCEPT !.ops[h][st] = @ - 1]
Complete(s, h, st) == Start(Finish(s, h, "wait"), h, st)

Pending(s) == \E h \in Handler, st \in Status : s.ops[h][st] > 0

HasLine(raw) == \E i \in DOMAIN raw : raw[i] = CRLF

(* asio completes a write of nothing, and a read whose delimiter is already *)
(* in the buffer, without the socket.                                       *)
async_write(s, h, text) == Start(s, h, IF text = Blank THEN "ok" ELSE "wait")

async_read_until(s) ==
    Start(s, "initMode", IF HasLine(s.raw_line_command) THEN "ok" ELSE "wait")

(* socket::cancel: operations still in the kernel end with operation_aborted. *)
cancel(s) ==
    [s EXCEPT !.ops =
        [h \in Handler |-> [st \in Status |->
            CASE st = "wait"  -> 0
              [] st = "ok"    -> @[h]["ok"]
              [] st = "error" -> @[h]["error"] + @[h]["wait"]]]]

(* inputStream >> modeRequest: skip line ends, take a word, leave the rest. *)
FirstWord(raw) == SelectInSeq(raw, LAMBDA t : t # CRLF)

Extract(s) ==
    LET i == FirstWord(s.raw_line_command)
    IN  [s EXCEPT !.raw_line_command =
            IF i = 0 THEN <<>> ELSE SubSeq(@, i + 1, Len(@))]

modeRequest(s) ==
    LET i == FirstWord(s.raw_line_command)
    IN  IF i = 0 THEN Blank ELSE s.raw_line_command[i]

(* The operations that fail, and the calls that throw, on a socket. *)
Dead(s) == s.shut \/ s.peer # "open"


-----------------------------------------------------------------------------
(* What every handler does with its session. *)

(* When a handler returns, the session is destroyed unless something still  *)
(* holds a shared_ptr to it: the pool, an operation, the running handler.   *)
Return(a, s) ==
    session' = [session EXCEPT ![a] =
        IF a \in tcp_participants' \/ registering' = a \/ Pending(s)
          THEN s ELSE NewSession("free")]

(* TCP_Pool::join and leave. *)
join(a) == tcp_participants' = tcp_participants \cup {a}
leave(a) == tcp_participants' = tcp_participants \ {a}

(* Mutant: end() without tcp_pool.leave(). *)
end_session_NoLeave(a, s) == UNCHANGED tcp_participants /\ Return(a, cancel(s))

(* end(): s is the session as the handler left it. *)
end_session(a, s) == leave(a) /\ Return(a, cancel(s))

(* The text of the write that ends the login menu, and `screen' after it. *)
WriteScreen(a, s) ==
    LET shown == IF HasUser(s.username) THEN ReturnScreen(a) ELSE s.screen
    IN  async_write([s EXCEPT !.screen = shown], "startSession", shown)

(* start() and kickStart(). *)
Started(s) ==
    async_write([s EXCEPT !.life = "open", !.screen = "menu"], "startSession", "menu")

IoThreadFree == server = "up" /\ registering = NoSession

(* io_service::run is over: all that is left to do is join the thread. *)
ServerDown == server' = "down" /\ UNCHANGED <<registering, usernameAttempt, signalled>>

(* An exception leaves the handler, io_service::run and NetInit's try. *)
Throw == ServerDown /\ UNCHANGED <<session, tcp_participants, m_users>>

(* Mutant: the handlers do not look at their error. *)
Calls_IgnoresError(a, h, st) ==
    /\ IoThreadFree
    /\ \E s \in {st, "error"} : session[a].ops[h][s] > 0

(* The handler h of session a, called with or without an error. *)
Calls(a, h, st) == IoThreadFree /\ session[a].ops[h][st] > 0

-----------------------------------------------------------------------------
(* TCP_Handler *)

free == {b \in Connection : session[b].life = "free"}

(* Mutant: accept_connection() only after a session that started. *)
handle_connection_NoReaccept(a, b) ==
    /\ IoThreadFree
    /\ b \in free
    /\ \/ /\ session[a].life = "accepted"
          /\ session[a].peer # "reset"
          /\ join(a)
          /\ session' = [session EXCEPT ![a] = Started(@), ![b] = NewSession("accepting")]
       \/ /\ session[a].life = "failed"
          /\ session' = [session EXCEPT ![a] = NewSession("free")]
          /\ UNCHANGED tcp_participants
    /\ UNCHANGED <<m_users, serverVars>>

(* accept_connection() allocates the next session; b is its address. *)
handle_connection(a, b) ==
    /\ IoThreadFree
    /\ b \in free
    /\ \/ /\ session[a].life = "accepted"
          /\ session[a].peer # "reset"
          /\ join(a)
          /\ session' = [session EXCEPT ![a] = Started(@), ![b] = NewSession("accepting")]
       \/ /\ session[a].life = "failed"
          /\ session' = [session EXCEPT ![a] = NewSession("free"), ![b] = NewSession("accepting")]
          /\ UNCHANGED tcp_participants
    /\ UNCHANGED <<m_users, serverVars>>

(* Mutant: start() is called whether or not the accept failed. *)
handle_connection_throws_OnFailed(a) ==
    /\ IoThreadFree
    /\ session[a].life = "failed"
    /\ Throw

(* start(): remote_endpoint() and set_option() throw if the peer has gone. *)
handle_connection_throws(a) ==
    /\ IoThreadFree
    /\ session[a].life = "accepted"
    /\ session[a].peer = "reset"
    /\ Throw

-----------------------------------------------------------------------------
(* TCP_Session *)

startSession(a) ==
    /\ Calls(a, "startSession", "ok")
    /\ UNCHANGED <<tcp_participants, m_users, serverVars>>
    /\ Return(a, async_read_until(Finish(session[a], "startSession", "ok")))

(* Mutant: the error branch is missing. *)
EndOnError_Ignored(a, h) ==
    /\ Calls(a, h, "error")
    /\ UNCHANGED <<tcp_participants, m_users, serverVars>>
    /\ Return(a, Finish(session[a], h, "error"))

(* The error branch of startSession, initMode and registration alike. *)
EndOnError(a, h) ==
    /\ Calls(a, h, "error")
    /\ UNCHANGED <<m_users, serverVars>>
    /\ end_session(a, Finish(session[a], h, "error"))

(* initMode has a line: the session after the word has been taken. *)
Requested(a) == Extract(Finish(session[a], "initMode", "ok"))

initMode_is(a, mode) ==
    /\ Calls(a, "initMode", "ok")
    /\ modeRequest(session[a]) \in mode

(* Mutant: the shutdown is commented out, as the cancel below it is. *)
initMode_quit_NoShutdown(a) ==
    /\ initMode_is(a, {"quit"})
    /\ leave(a)
    /\ UNCHANGED <<m_users, serverVars>>
    /\ Return(a, WriteScreen(a, cancel(Requested(a))))

(* No return after end(): "quit" is not "register", so the last else runs  *)
(* as well, on a socket that is shut down.                                 *)
initMode_quit(a) ==
    /\ initMode_is(a, {"quit"})
    /\ session[a].peer # "reset"
    /\ leave(a)
    /\ UNCHANGED <<m_users, serverVars>>
    /\ Return(a, WriteScreen(a, cancel([Requested(a) EXCEPT !.shut = TRUE])))

(* shutdown() throws: not connected. *)
initMode_quit_throws(a) ==
    /\ initMode_is(a, {"quit"})
    /\ session[a].peer = "reset" \/ (session[a].shut /\ session[a].peer = "closed")
    /\ Throw

(* "login" is not "register" either: two writes, both ending in startSession. *)
initMode_login(a) ==
    /\ initMode_is(a, {"login"})
    /\ UNCHANGED <<tcp_participants, m_users, serverVars>>
    /\ Return(a, WriteScreen(a,
           async_write([Requested(a) EXCEPT !.logins = @ + 1], "startSession", "login_MSG")))

(* Mutant: the last `else' goes, so that "register" shows the menu as well. *)
initMode_register_NoElse(a) ==
    /\ initMode_is(a, {"register"})
    /\ UNCHANGED <<tcp_participants, m_users, serverVars>>
    /\ Return(a, WriteScreen(a, async_write(Requested(a), "registration", "Username: ")))

initMode_register(a) ==
    /\ initMode_is(a, {"register"})
    /\ UNCHANGED <<tcp_participants, m_users, serverVars>>
    /\ Return(a, async_write(Requested(a), "registration", "Username: "))

initMode_other(a) ==
    /\ initMode_is(a, {"other", Blank})
    /\ UNCHANGED <<tcp_participants, m_users, serverVars>>
    /\ Return(a, WriteScreen(a, Requested(a)))

registration(a) ==
    /\ Calls(a, "registration", "ok")
    /\ registering' = a
    /\ usernameAttempt' = NoName
    /\ UNCHANGED <<tcp_participants, m_users, server, signalled>>
    /\ Return(a, Finish(session[a], "registration", "ok"))

(* Mutant: username is assigned inside the loop, before Register. *)
registration_line_Early(a) ==
    /\ server = "up" /\ registering = a
    /\ ~session[a].shut /\ session[a].peer # "reset"
    /\ UNCHANGED <<tcp_participants, server, signalled>>
    /\ \E name \in Name :
         LET s == [session[a] EXCEPT !.username = name]
         IN  /\ Register(a, name)
             /\ IF Accepts(name)
                  THEN /\ registering' = NoSession
                       /\ usernameAttempt' = NoName
                       /\ Return(a, async_write(s, "startSession", "Thank you"))
                  ELSE /\ usernameAttempt' = name
                       /\ session' = [session EXCEPT ![a] = s]
                       /\ UNCHANGED registering

(* One turn of registration()'s loop: a line arrives and Register judges   *)
(* its first word.  A blank line leaves usernameAttempt as it was.  What   *)
(* raw_line_command holds is not looked at, and what this read took beyond *)
(* the line is lost with its local buffer.                                 *)
registration_line(a) ==
    /\ server = "up" /\ registering = a
    /\ ~session[a].shut /\ session[a].peer # "reset"
    /\ UNCHANGED <<tcp_participants, server, signalled>>
    /\ \E line \in Name \cup {NoName} :
         LET name == IF line = NoName THEN usernameAttempt ELSE line
         IN  /\ Register(a, name)
             /\ IF Accepts(name)
                  THEN /\ registering' = NoSession
                       /\ usernameAttempt' = NoName
                       /\ Return(a, async_write([session[a] EXCEPT !.username = name],
                                                "startSession", "Thank you"))
                  ELSE /\ usernameAttempt' = name
                       /\ UNCHANGED <<registering, session>>

(* The blocking read or write fails, and nothing catches it before NetInit. *)
registration_throws(a) ==
    /\ server = "up" /\ registering = a
    /\ Dead(session[a])
    /\ Throw

-----------------------------------------------------------------------------
(* NetInit: the signal_set's handler is io_service::stop. *)
HandleSignal ==
    /\ IoThreadFree /\ signalled
    /\ ServerDown
    /\ UNCHANGED <<session, tcp_participants, m_users>>

(* join, exit(0). *)
Exited == server = "down" /\ UNCHANGED vars

-----------------------------------------------------------------------------
(* External: the reactor completes operations. *)

Completes(a, h, st, s) ==
    /\ IoThreadFree
    /\ session[a].ops[h]["wait"] > 0
    /\ session' = [session EXCEPT ![a] = Complete(s, h, st)]
    /\ UNCHANGED <<tcp_participants, m_users, serverVars>>

WriteSucceeds(a, h) ==
    /\ ~session[a].shut /\ session[a].peer # "reset"
    /\ Completes(a, h, "ok", session[a])

(* A write to, or a read from, a socket that is shut down or whose peer has  *)
(* gone.  A peer that has only closed may still be written to for a while.   *)
OperationFails(a, h) == Dead(session[a]) /\ Completes(a, h, "error", session[a])

Logins(raw) == Cardinality({i \in DOMAIN raw : raw[i] = "login"})

(* What a session may find in its buffer once the delimiter has arrived.  A *)
(* session that asked to log in may have two reads in one streambuf, each   *)
(* with its own idea of where the input goes: the buffer then holds         *)
(* anything.                                                                *)
Buffers(s) ==
    LET input == {c \in SeqOf(Word \cup {CRLF}, MaxChunk) : HasLine(c)}
    IN  {raw \in IF s.logins = 0 THEN {s.raw_line_command \o c : c \in input} ELSE input :
            s.logins + Logins(raw) <= MaxLogins}

ReadSucceeds(a) ==
    /\ ~session[a].shut /\ session[a].peer # "reset"
    /\ session[a].reads < MaxReads
    /\ \E raw \in Buffers(session[a]) :
         Completes(a, "initMode", "ok",
                   [session[a] EXCEPT !.raw_line_command = raw, !.reads = @ + 1])

(* External: the peers, and whoever stops the server. *)

Connects(a) ==
    /\ server = "up"
    /\ session[a].life = "accepting"
    /\ \E life \in {"accepted", "failed"} : session' = [session EXCEPT ![a].life = life]
    /\ UNCHANGED <<tcp_participants, m_users, serverVars>>

PeerLeaves(a) ==
    /\ server = "up"
    /\ session[a].life \in {"accepted", "open"}
    /\ \E gone \in {"closed", "reset"} :
         /\ session[a].peer \notin {gone, "reset"}
         /\ session' = [session EXCEPT ![a].peer = gone]
    /\ UNCHANGED <<tcp_participants, m_users, serverVars>>

Signal ==
    /\ server = "up" /\ ~signalled
    /\ signalled' = TRUE
    /\ UNCHANGED <<session, tcp_participants, m_users, registering, usernameAttempt, server>>

-----------------------------------------------------------------------------

(* TCP_Handler's constructor has called accept_connection(). *)
Init ==
    /\ \E a \in Connection : session =
         [b \in Connection |-> NewSession(IF a = b THEN "accepting" ELSE "free")]
    /\ tcp_participants = {}
    /\ UserDBInit
    /\ registering = NoSession
    /\ usernameAttempt = NoName
    /\ server = "up"
    /\ signalled = FALSE

Handlers(a) ==
    \/ startSession(a)
    \/ \E h \in Handler : EndOnError(a, h)
    \/ initMode_quit(a) \/ initMode_quit_throws(a)
    \/ initMode_login(a)
    \/ initMode_register(a)
    \/ initMode_other(a)
    \/ registration(a)

Reactor(a) ==
    \/ \E h \in Writer : WriteSucceeds(a, h)
    \/ \E h \in Handler : OperationFails(a, h)
    \/ ReadSucceeds(a)

Next ==
    \/ \E a \in Connection :
         \/ Handlers(a)
         \/ registration_line(a) \/ registration_throws(a)
         \/ handle_connection_throws(a)
         \/ \E b \in Connection : handle_connection(a, b)
         \/ Reactor(a)
         \/ Connects(a) \/ PeerLeaves(a)
    \/ HandleSignal
    \/ Signal
    \/ Exited

Spec == Init /\ [][Next]_vars

(* The thread takes completions in the order they came, so that a completed *)
(* operation's handler and a failed operation's completion have their turn  *)
(* whenever the thread keeps coming back to run(); a blocked read on a dead *)
(* socket ends.  Peers owe nothing.                                         *)
Fairness ==
    \A a \in Connection :
        /\ SF_vars(Handlers(a))
        /\ SF_vars(\E h \in Handler : OperationFails(a, h))
        /\ WF_vars(registration_throws(a))

FairSpec == Spec /\ Fairness

-----------------------------------------------------------------------------
(* Properties *)

TypeOK ==
    /\ session \in [Connection -> SessionState]
    /\ tcp_participants \subseteq Connection
    /\ UsersTypeOK
    /\ registering \in Connection \cup {NoSession}
    /\ usernameAttempt \in Name \cup {NoName}
    /\ server \in {"up", "down"}
    /\ signalled \in BOOLEAN

(* initMode asks HasUser(username) and then dereferences find(this): the    *)
(* two look the user up by different keys, and users of destroyed sessions  *)
(* stay in the list under an address that is used again.                    *)
ReturnScreenSafe ==
    \A a \in Connection : HasUser(session[a].username) => find(a) # end

(* No two live sessions carry one username, though the name is claimed in   *)
(* the database and stored in the session by different calls.               *)
DistinctUsernames ==
    \A a, b \in Connection :
        session[a].username = session[b].username =>
            a = b \/ session[a].username = NoName

(* A session in the pool has something to wake it: an operation, or the     *)
(* thread itself.  One without would stay connected and be deaf for ever.   *)
PoolServed ==
    \A a \in tcp_participants :
        /\ session[a].life = "open"
        /\ Pending(session[a]) \/ registering = a

(* A session that left the pool has lost its socket, so that all it may     *)
(* still do is fail and be destroyed.                                       *)
DetachedIsDead ==
    \A a \in Connection :
        session[a].life = "open" /\ a \notin tcp_participants => Dead(session[a])

(* The operations of a session, under way or completed. *)
OpsOf(s, h) == s.ops[h]["wait"] + s.ops[h]["ok"] + s.ops[h]["error"]
Ops(s) == OpsOf(s, "startSession") + OpsOf(s, "initMode") + OpsOf(s, "registration")

Chains(a) == Ops(session[a]) + (IF registering = a THEN 1 ELSE 0)

(* A session's handlers follow each other: it has one operation or running  *)
(* handler at a time, so that its streambuf, screen and username are never  *)
(* shared, unless it asked to log in, which adds one chain each time.       *)
OneChain ==
    \A a \in Connection : Chains(a) <= 1 + session[a].logins

(* The server outlives its sessions: it stops for a signal, or because a    *)
(* call threw on a connection that its peer, or a chain forked by "login",  *)
(* had taken away.                                                          *)
ServerSurvives ==
    [][server' # server =>
        \/ signalled
        \/ \E a \in Connection :
             /\ session[a].life \in {"accepted", "open"}
             /\ \/ session[a].peer # "open"
                \/ session[a].shut /\ session[a].logins > 0]_vars

(* What the address a is in the eyes of the life cycle. *)
Place(a) ==
    CASE session[a].life = "free" -> "free"
      [] session[a].life = "open" ->
            IF a \in tcp_participants THEN "serving" ELSE "closing"
      [] OTHER -> "accepting"

Lifecycle ==
    INSTANCE ConnLifecycle WITH
        Slot <- Connection,
        running <- server = "up",
        slot <- [a \in Connection |-> Place(a)]

(* Every step of the handlers is a step a connection's life cycle allows:   *)
(* always one object waiting for the next connection, no object served      *)
(* twice, none freed while it is in the pool.                               *)
LifecycleSpec == Lifecycle!LifecycleSpec

ThreadComesBack == []<>(registering = NoSession)

(* A session whose connection is gone is destroyed, provided the thread is  *)
(* not left for ever in somebody's registration().                          *)
DeadIsFreed ==
    ThreadComesBack =>
        \A a \in Connection :
            (session[a].life = "open" /\ Dead(session[a]))
                ~> (session[a].life # "open" \/ server = "down")

(* The comment over end(), "Wrap all of our client cleanup into one         *)
(* function" (TCP_Session.cpp:46-50): after it, no user of the database     *)
(* names a session that is no longer there.                                 *)
EndCleansUp ==
    \A i \in DOMAIN m_users :
        session[m_users[i].connection].username = m_users[i].name
=============================================================================
