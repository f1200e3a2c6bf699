--------------------------- MODULE TelnetOptions ---------------------------
(***************************************************************************)
(* Option negotiation of toftlib::TelnetClient (Messages/TelnetClient.hpp) *)
(* with a server that follows RFC 854 and RFC 1143.                        *)
(*                                                                         *)
(* The client keeps the same state twice for every option, with the same   *)
(* code twice: once for the option on its own side and once for the option *)
(* on the server's side.  Here it is written once, for a side:             *)
(*                                                                         *)
(*   side     options bits            counter       asks, refuses  handler *)
(*   "local"  WILL, REQUESTED_WILL    willResponse  WILL, WONT     willFlag*)
(*   "remote" DO, REQUESTED_DO        doResponse    DO, DONT       doFlag  *)
(*                                                                         *)
(* That is what SetDo and SetWill do with the flags; the comments in       *)
(* Network/TelnetOptionHandler.h:64-71 give doFlag to the local side and   *)
(* willFlag to the remote one (FlagsAsDocumented).                         *)
(*                                                                         *)
(* A command is "on" or "off" for a side: WILL is on for the client's own  *)
(* side when the client sends it, for the server's when the server does.   *)
(* The connection is a FIFO channel each way.                              *)
(***************************************************************************)
EXTENDS Integers, SequencesExt

CONSTANTS
    Option,       \* the option codes negotiated about, OPTION_...
    NoHandler,    \* a null pointer in optionHandlers
    Handlers,     \* the handlers an application may add
    MaxConnects,  \* connections in a behaviour
    MaxAdds,      \* calls of AddOptionHandler
    MaxAsks       \* requests the server makes on a connection

OPTION_ECHO == 1
OPTION_SUPPRESS_GO_AHEAD == 3
OPTION_TERMINAL_TYPE == 24

Side == {"local", "remote"}

(* TelnetOptionHandler: the sides on which it asks for its option when a   *)
(* connection starts and on which it accepts a request, and the virtual    *)
(* functions that return something.                                        *)
Callback == {"StartSubnegotiationLocal", "StartSubnegotiationRemote", "AnswerSubnegotiation"}

TelnetOptionHandler == [initial : SUBSET Side, accept : SUBSET Side, speaks : SUBSET Callback]

ASSUME OptionAssumption ==
    /\ Option \subseteq 0..255
    /\ Handlers \subseteq TelnetOptionHandler
    /\ NoHandler \notin TelnetOptionHandler
    /\ {MaxConnects, MaxAdds, MaxAsks} \subseteq Nat

DefaultEchoHandler == [initial |-> {"remote"}, accept |-> Side, speaks |-> {}]
SuppressGAOptionHandler == [initial |-> Side, accept |-> Side, speaks |-> {}]
TerminalTypeOptionVT102Handler ==
    [initial |-> {"local"}, accept |-> {"local"}, speaks |-> {"AnswerSubnegotiation"}]

VARIABLES
    optionHandlers,  \* [Option -> TelnetOptionHandler or NoHandler]
    flag,            \* the handler's doFlag and willFlag; "unset": never assigned
    state,           \* the WILL and DO bits of options
    requested,       \* the REQUESTED_WILL and REQUESTED_DO bits
    response,        \* willResponse and doResponse
    toServer, toClient,
    server,          \* external: the server's state of each option and side
    connected,
    connects, adds, asks   \* counters behind the bounds

clientVars == <<optionHandlers, flag, state, requested, response>>
vars == <<clientVars, toServer, toClient, server, connected, connects, adds, asks>>

PerOption(S) == [Option -> [Side -> S]]
Everywhere(v) == [o \in Option |-> [s \in Side |-> v]]

Command == [kind : {"on", "off", "SB"}, side : Side, option : Option]

Cmd(kind, s, o) == [kind |-> kind, side |-> s, option |-> o]
When(condition, kind, s, o) == IF condition THEN <<Cmd(kind, s, o)>> ELSE <<>>

-----------------------------------------------------------------------------
(* The client. *)

Speaks(o, callback) ==
    optionHandlers[o] # NoHandler /\ callback \in optionHandlers[o].speaks

Start(s) == IF s = "local" THEN "StartSubnegotiationLocal" ELSE "StartSubnegotiationRemote"

(* acceptNewState; TERMINAL-TYPE needs no handler on the local side. *)
Accepts(s, o) ==
    IF optionHandlers[o] = NoHandler
      THEN s = "local" /\ o = OPTION_TERMINAL_TYPE
      ELSE s \in optionHandlers[o].accept

(* An expected answer has come; a second one counts as come too if the     *)
(* command repeats what the state already says.                            *)
Answered(n, repeated) ==
    IF n > 1 /\ repeated THEN n - 2 ELSE IF n > 0 THEN n - 1 ELSE 0

(* SetDo and SetWill raise the flag of an option that was asked for, SetDont *)
(* and SetWont clear it.                                                     *)
SetFlag(s, o, v) ==
    flag' = IF optionHandlers[o] = NoHandler THEN flag ELSE [flag EXCEPT ![o][s] = v]

(* Mutant: the flag goes up for a refused option too. *)
Raise_Always(s, o, wanted) == SetFlag(s, o, "up")

Raise(s, o, wanted) == IF wanted THEN SetFlag(s, o, "up") ELSE UNCHANGED flag

(* Mutant: a refusal is recorded but not sent. *)
Reply_Silent(s, o, accepted, refused, wanted) ==
    When(accepted, "on", s, o) \o When(wanted /\ Speaks(o, Start(s)), "SB", s, o)

(* Mutant: the subnegotiation is begun before the request is answered. *)
Reply_SpeaksFirst(s, o, accepted, refused, wanted) ==
    When(wanted /\ Speaks(o, Start(s)), "SB", s, o)
        \o When(accepted, "on", s, o) \o When(refused, "off", s, o)

(* What goes out: the answer to a new request, and SetDo's or SetWill's     *)
(* subnegotiation of an option that was asked for.                          *)
Reply(s, o, accepted, refused, wanted) ==
    When(accepted, "on", s, o) \o When(refused, "off", s, o)
        \o When(wanted /\ Speaks(o, Start(s)), "SB", s, o)

(* A request, or the answer to one.  The state bit is set even when the     *)
(* request is refused.                                                      *)
TurnOn(s, o) ==
    LET n == Answered(response[o][s], state[o][s])
        new == n = 0 /\ ~requested[o][s]
        accepted == new /\ Accepts(s, o)
        refused == new /\ ~Accepts(s, o)
        wanted == requested[o][s] \/ accepted
    IN  /\ response' = [response EXCEPT ![o][s] = IF refused THEN n + 1 ELSE n]
        /\ requested' = [requested EXCEPT ![o][s] = wanted]
        /\ state' = [state EXCEPT ![o][s] = TRUE]
        /\ Raise(s, o, wanted)
        /\ toServer' = toServer \o Reply(s, o, accepted, refused, wanted)

(* Mutant: the request bit stays. *)
TurnOff_StillWanted(s, o) ==
    LET n == Answered(response[o][s], ~state[o][s])
        given == n = 0 /\ requested[o][s]
    IN  /\ response' = [response EXCEPT ![o][s] = n]
        /\ state' = [state EXCEPT ![o][s] = FALSE]
        /\ SetFlag(s, o, "down")
        /\ toServer' = toServer \o When(given, "off", s, o)
        /\ UNCHANGED requested

(* A refusal, or the end of an option. *)
TurnOff(s, o) ==
    LET n == Answered(response[o][s], ~state[o][s])
        given == n = 0 /\ requested[o][s]
    IN  /\ response' = [response EXCEPT ![o][s] = n]
        /\ requested' = [requested EXCEPT ![o][s] = @ /\ ~given]
        /\ state' = [state EXCEPT ![o][s] = FALSE]
        /\ SetFlag(s, o, "down")
        /\ toServer' = toServer \o When(given, "off", s, o)

ProcessWill(o) == TurnOn("remote", o)

ProcessDo(o) == TurnOn("local", o)

ProcessWont(o) == TurnOff("remote", o)

ProcessDont(o) == TurnOff("local", o)

(* ProcessSuboption answers whether or not the option is on. *)
ProcessSuboption(s, o) ==
    /\ toServer' = toServer \o When(Speaks(o, "AnswerSubnegotiation"), "SB", s, o)
    /\ UNCHANGED <<flag, state, requested, response>>

(* The client reads the next command. *)
ProcessCommand ==
    /\ connected /\ toClient # <<>>
    /\ LET c == Head(toClient)
       IN  \/ <<c.kind, c.side>> = <<"on", "remote">> /\ ProcessWill(c.option)
           \/ <<c.kind, c.side>> = <<"on", "local">> /\ ProcessDo(c.option)
           \/ <<c.kind, c.side>> = <<"off", "remote">> /\ ProcessWont(c.option)
           \/ <<c.kind, c.side>> = <<"off", "local">> /\ ProcessDont(c.option)
           \/ c.kind = "SB" /\ ProcessSuboption(c.side, c.option)
    /\ toClient' = Tail(toClient)
    /\ UNCHANGED <<optionHandlers, server, connected, connects, adds, asks>>

Asks(o, s) == optionHandlers[o] # NoHandler /\ s \in optionHandlers[o].initial

(* RequestWill and RequestDo. *)
Requests(o) == {c \in Command : c.kind = "on" /\ c.option = o /\ Asks(o, c.side)}

(* Mutant: the counters of the last connection are not cleared. *)
Awaited_Kept(o, s) == response[o][s] + (IF s = "local" THEN 0 ELSE Cardinality(Requests(o)))

(* Both count the answer in doResponse. *)
Awaited(o, s) == IF s = "local" THEN 0 ELSE Cardinality(Requests(o))

(* The loop over the option codes; RequestWill comes first. *)
Before(c, d) ==
    c.option < d.option \/ (c.option = d.option /\ c.side = "local" /\ d.side = "remote")

InOrder(S) ==
    {q \in [1..Cardinality(S) -> S] :
        Range(q) = S /\ \A i, j \in DOMAIN q : i < j => Before(q[i], q[j])}

(* Connect clears what the last connection left and makes the handlers'    *)
(* requests, in the order of the option codes.                             *)
Connect ==
    /\ ~connected /\ connects < MaxConnects
    /\ connected' = TRUE /\ connects' = connects + 1 /\ asks' = 0
    /\ server' = Everywhere("NO")
    /\ flag' = [o \in Option |-> IF optionHandlers[o] = NoHandler THEN flag[o]
                                 ELSE [s \in Side |-> "down"]]
    /\ state' = Everywhere(FALSE)
    /\ response' = [o \in Option |-> [s \in Side |-> Awaited(o, s)]]
    /\ requested' = [o \in Option |-> [s \in Side |-> Asks(o, s)]]
    /\ toServer' \in InOrder(UNION {Requests(o) : o \in Option})
    /\ UNCHANGED <<optionHandlers, toClient, adds>>

(* A new handler's flags are not initialised. *)
AddOptionHandler(o, h) ==
    /\ adds < MaxAdds
    /\ adds' = adds + 1
    /\ optionHandlers' = [optionHandlers EXCEPT ![o] = h]
    /\ flag' = [flag EXCEPT ![o] = [s \in Side |-> "unset"]]
    /\ UNCHANGED <<state, requested, response, toServer, toClient, server,
                   connected, connects, asks>>

-----------------------------------------------------------------------------
(* External: the server, as RFC 1143 section 7 has it without its queue.   *)

Status == {"NO", "YES", "WANTNO", "WANTYES"}

(* It accepts or refuses as it likes. *)
ServerReceives ==
    /\ connected /\ toServer # <<>>
    /\ LET c == Head(toServer)
           Becomes(status, reply) ==
             /\ server' = [server EXCEPT ![c.option][c.side] = status]
             /\ toClient' = toClient \o reply
           was == server[c.option][c.side]
       IN  \/ /\ c.kind = "on" /\ was = "NO"
              /\ \E status \in {"YES", "NO"} :
                   Becomes(status, <<Cmd(IF status = "YES" THEN "on" ELSE "off", c.side, c.option)>>)
           \/ c.kind = "on" /\ was = "WANTYES" /\ Becomes("YES", <<>>)
           \/ c.kind = "on" /\ was = "WANTNO" /\ Becomes("NO", <<>>)
           \/ c.kind = "off" /\ was = "YES" /\ Becomes("NO", <<Cmd("off", c.side, c.option)>>)
           \/ c.kind = "off" /\ was \in {"WANTYES", "WANTNO"} /\ Becomes("NO", <<>>)
           \/ c.kind = "SB" /\ Becomes(was, <<>>)
           \/ <<c.kind, was>> \in {<<"on", "YES">>, <<"off", "NO">>} /\ Becomes(was, <<>>)
    /\ toServer' = Tail(toServer)
    /\ UNCHANGED <<clientVars, connected, connects, adds, asks>>

(* It asks for a change of an option, or for what an option that is on the *)
(* client's side is about.                                                 *)
ServerAsks(o, s) ==
    /\ connected /\ asks < MaxAsks
    /\ asks' = asks + 1
    /\ \/ /\ server[o][s] = "NO"
          /\ server' = [server EXCEPT ![o][s] = "WANTYES"]
          /\ toClient' = Append(toClient, Cmd("on", s, o))
       \/ /\ server[o][s] = "YES"
          /\ server' = [server EXCEPT ![o][s] = "WANTNO"]
          /\ toClient' = Append(toClient, Cmd("off", s, o))
       \/ /\ server[o][s] = "YES" /\ s = "local"
          /\ toClient' = Append(toClient, Cmd("SB", s, o))
          /\ UNCHANGED server
    /\ UNCHANGED <<clientVars, toServer, connected, connects, adds>>

(* Either side closes, or the connection breaks: what is under way is lost. *)
Disconnect ==
    /\ connected /\ connects < MaxConnects
    /\ connected' = FALSE
    /\ toServer' = <<>> /\ toClient' = <<>>
    /\ UNCHANGED <<clientVars, server, connects, adds, asks>>

-----------------------------------------------------------------------------

DefaultHandler(o) ==
    CASE o = OPTION_ECHO -> DefaultEchoHandler
      [] o = OPTION_SUPPRESS_GO_AHEAD -> SuppressGAOptionHandler
      [] o = OPTION_TERMINAL_TYPE -> TerminalTypeOptionVT102Handler
      [] OTHER -> NoHandler

(* The constructor. *)
Init ==
    /\ optionHandlers = [o \in Option |-> DefaultHandler(o)]
    /\ flag = Everywhere("unset")
    /\ state = Everywhere(FALSE)
    /\ requested = Everywhere(FALSE)
    /\ response = Everywhere(0)
    /\ toServer = <<>> /\ toClient = <<>>
    /\ server = Everywhere("NO")
    /\ connected = FALSE
    /\ connects = 0 /\ adds = 0 /\ asks = 0

Next ==
    \/ Connect
    \/ ProcessCommand
    \/ \E o \in Option, h \in Handlers : AddOptionHandler(o, h)
    \/ ServerReceives
    \/ \E o \in Option, s \in Side : ServerAsks(o, s)
    \/ Disconnect

Spec == Init /\ [][Next]_vars

(* The application keeps reading, and so does the server. *)
FairSpec == Spec /\ WF_vars(ProcessCommand) /\ WF_vars(ServerReceives)

-----------------------------------------------------------------------------
(* Properties *)

(* The counters are chars, and no sequence of commands makes them count     *)
(* further than a connection's own requests.                                *)
TypeOK ==
    /\ optionHandlers \in [Option -> TelnetOptionHandler \cup {NoHandler}]
    /\ flag \in PerOption({"up", "down", "unset"})
    /\ {state, requested} \subseteq PerOption(BOOLEAN)
    /\ response \in PerOption(0..2)
    /\ {toServer, toClient} \subseteq Seq(Command)
    /\ server \in PerOption(Status)
    /\ connected \in BOOLEAN

Quiet == toServer = <<>> /\ toClient = <<>>

On(o, s) == state[o][s] /\ requested[o][s]

(* Once nothing is under way, client and server agree about every option,   *)
(* however their requests and refusals crossed and whatever the last        *)
(* connection left; and the server is waiting for no answer.                *)
Agreement ==
    connected /\ Quiet =>
        \A o \in Option, s \in Side :
            server[o][s] = IF On(o, s) THEN "YES" ELSE "NO"

(* What SetDo and SetDont, and SetWill and SetWont, tell a handler. *)
doFlag(o) == flag[o]["remote"]
willFlag(o) == flag[o]["local"]

(* A flag that has been assigned says whether the option is on, on side s. *)
Tells(f, o, s) == f # "unset" => (f = "up" <=> On(o, s))

(* A handler that has been told anything has been told the truth, though    *)
(* state, request and flag are set and cleared by different functions:      *)
(* doFlag says whether the option is on on the server's side, willFlag      *)
(* whether it is on on the client's.  The comments over the two flags say   *)
(* the opposite of them, which FlagsAsDocumented is about.                  *)
FlagsFollow ==
    connected =>
        \A o \in {p \in Option : optionHandlers[p] # NoHandler} :
            Tells(doFlag(o), o, "remote") /\ Tells(willFlag(o), o, "local")

(* The comments over doFlag, "True if the option is active on the local     *)
(* side", and over willFlag, "... on the remote side"                       *)
(* (Network/TelnetOptionHandler.h:64-71).  The client is the local side, as *)
(* in initLocal and acceptLocal above them.                                 *)
FlagsAsDocumented ==
    connected =>
        \A o \in {p \in Option : optionHandlers[p] # NoHandler} :
            Tells(doFlag(o), o, "local") /\ Tells(willFlag(o), o, "remote")

(* A subnegotiation never goes out behind a refusal of its own option: the  *)
(* last the server hears of the option before it is that it is on.          *)
SubnegotiationFollows ==
    \A i, j \in DOMAIN toServer :
        /\ i < j
        /\ <<toServer[i].kind, toServer[j].kind>> = <<"off", "SB">>
        /\ <<toServer[i].side, toServer[i].option>> = <<toServer[j].side, toServer[j].option>>
        => \E k \in (i + 1)..(j - 1) : toServer[k] = [toServer[i] EXCEPT !.kind = "on"]

Settled ==
    Quiet /\ \A o \in Option, s \in Side : server[o][s] \in {"YES", "NO"}

(* Every request is answered and negotiation comes to an end: nobody waits, *)
(* or answers an answer, for ever.  MaxAsks bounds the server's requests.   *)
Settles == connected ~> (Settled \/ ~connected)
=============================================================================
