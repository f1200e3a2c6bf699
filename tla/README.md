# A verification project for M-Paradox

M-Paradox is a MUD server in C++11 on Boost.Asio (`src/M-Paradox`), with a
line-mode chat client (`src/M-Paradox-Client`) and a telnet client class kept
in the tree for later use (`Messages/TelnetClient.hpp`). This directory holds
TLA+ modules that model it, TLC configurations that check them on small
instances, and TLAPS proofs for every value of the constants. Paths below are
relative to `src/M-Paradox` unless they start with `src/`.

## 1. Inventory

### The server

| Part | State | Operations |
|---|---|---|
| `NetInit` (Server/ServerInit.cpp:131) | the `io_service`, a signal set | `run` on one thread; a signal calls `io_service::stop`; an exception out of a handler ends `run` and the thread, and `ServerInit` joins it |
| `TCP_Handler` (Network) | the acceptor, the pool | `accept_connection` allocates a session and waits; `handle_connection` starts it and accepts again |
| `TCP_Session` (Network) | socket, `raw_line_command`, `username`, `screen` | `start`, `kickStart`, `startSession`, `initMode`, `registration`, `end` |
| `TCP_Pool` (Network) | `tcp_participants` | `join`, `leave`; `deliver` is never called |
| `UserDatabase` (Accounting) | the static list `m_users` | `HasUser`, `find`, `IsValidName`, `AddUser`, `DeleteUser`, `ReturnScreen` |
| `AccountRegistration` (Accounting) | a status flag | `Register` |
| `ServerInit`, `DirectoryInit`, `FileSystem`, `ServerConfigParser` | the directories on disk; `NeedsPropagation`, a local flag | read the options, create what is missing, then exit for propagation or start and join the network thread |
| `FileLogger`, `ConsoleLog` | log files | output |
| `IntToUTF8String`; the headers of `chat_message` and of `TCP_Session`'s data templates | none | conversions |
| `Random`, banner, menus, escapes | none | texts |

A session is a chain of asynchronous operations: `startSession` reads a line,
`initMode` reads a word from it and writes something back, and the write ends
in `startSession` or in `registration`. Each operation holds a `shared_ptr` to
the session, and so does the pool; the object dies with the last of them and
its address is used again. The user database keeps raw pointers to sessions.

What is hard about it:
- handlers are single-threaded but interleave between operations, with peers
  that leave and signals that come at any point;
- `login` starts two writes (`TCP_Session.cpp:122` and `:135`), so a session
  may have several chains at once, on one buffer, screen and username;
- `quit` ends the session and goes on (`:118`);
- `registration` reads synchronously and holds the only thread (`:155`);
- calls that throw on a lost connection are caught nowhere below `run`;
- users of ended sessions stay in the list with the address of a dead object;
- directories outlive the start that makes them and the flag about them does not:
  a start may fail or die between any two, or run beside another one.

It is correct if usernames are unique, `ReturnScreen` never dereferences
`end()`, no session in the pool is deaf, a session out of the pool has no
socket left to use and is destroyed, and the server stops only for a signal or
for a call that throws on a lost connection; and if whoever gets to the network
has every directory, no directory that needs contents is forgotten, and starting
again after a failure brings the server up.

### The telnet client

`toftlib::TelnetClient` derives from a class `AsyncTcpClient` that is not in the
repository. Its parts: the parser (`ProcessTelnetProtocol`, state
`currentState`, `suboptions`, `suboptionCount`), option negotiation
(`options`, `doResponse`, `willResponse`, the handlers with their `doFlag` and
`willFlag`), and the calls of the application, `ReadUntil` and `SendData`, whose
asynchronous halves run on an `io_service` thread and share `responseList`,
`asyncError` and `sendComplete` with the application's thread. Hard: requests
and refusals that cross, a reconnect that clears part of the state, chunks that
end anywhere, an index that wraps, two threads with one mutex. It is correct if
client and server come to agree about every option and stop, if text and
commands survive any cutting of the stream, and if the calls return what came.

### The chat client

`src/M-Paradox-Client/client_main.cpp`: a main thread that reads lines and posts
them, an `io_service` thread that connects, reads frames, and writes one message
of the queue `write_msgs_` at a time. Hard: writes before the connection
stands, a close that overtakes queued writes, `run` returning before or after
the close is posted, failed writes. It is correct if lines arrive in order, one
buffer is written at a time, frames stay in step, and the program ends.

## 2. Modules

| Module | Models | Uses |
|---|---|---|
| `UserDB` | `UserDatabase`, `AccountRegistration` | |
| `TCPServer` | handler, sessions, pool, network thread | EXTENDS `UserDB`, INSTANCE `ConnLifecycle` |
| `ConnLifecycle` | abstract: what becomes of a connection | |
| `TelnetOptions` | negotiation and its handlers | |
| `TelnetParser` | the parser and the bytes | |
| `TelnetIO` | `ReadUntil`, `SendData`, `HandleRead` on two threads | |
| `ChatClient` | the chat client | |
| `Startup` | `ServerInit`, `DirectoryInit`, `NetInit`'s beginning and end, `FileSystem`, `Parse` | |
| `Utf8` | `IntToUTF8String` | |
| `Frames` | the headers of chat messages and serialized objects, written and read | |
| `MCTCPServer`, `MCTelnetOptions`, `MCTelnetParser` | values for TLC | the module they are named after |
| `MCSequential` | the parts that only one thread calls, one at a time in one run: a behaviour is one of `UserDBSpec`, of `Utf8Spec` or of `FramesSpec` | EXTENDS `UserDB`, `Utf8`, `Frames` |
| `TCPServer_proofs`, `TelnetOptions_proofs`, `TelnetParser_proofs`, `TelnetIO_proofs`, `ChatClient_proofs`, `Startup_proofs` | theorems about the module they are named after; `TCPServer_proofs` begins with those about `UserDB` | TLAPS |
| `Encodings_proofs` | theorems about `Utf8` and `Frames` | TLAPS |
| `SequenceLemmas` | facts about numbers, recursion and sequences that `TCPServer_proofs`, `TelnetParser_proofs` and `Encodings_proofs` share | TLAPS |

Definitions whose comment starts with "Mutant:" are deliberately wrong variants
of the definition after them. No specification uses one; each shows, put in
place of the right one, which property notices.

**UserDB.** `m_users` is a sequence and an iterator an index, 0 for `end()`. A
`TCP_Participant*` is a member of `Connection`, an address. A name is a record
of what `IsValidName` looks at: an identity, a size, whether it starts with a
letter (`alpha`) and holds only letters and digits (`clean`). `AddUser` and
`Register` both make the tests, as the code does.

**TCPServer.** `session[a]` is the object at address `a`: its life, its peer, its
members, and `ops[h][st]`, how many of its operations will call handler `h` and
have status `st`. `wait` is in the kernel; `ok` and `error` are completed and
queued. One action runs one handler to its end, including the destruction of
the object when the last reference goes (`Return`). `registration` is two kinds
of step: it takes the thread (`registering`), and `registration_line` is one turn
of its loop. Inside `initMode` the branches are actions of their own:
`initMode_quit` includes the write that follows `end()`, `initMode_login` the
second write. `async_write`, `async_read_until`, `cancel`, completions, peers
and signals are modelled from how the code uses them: a write of an empty
buffer and a read whose delimiter is already buffered complete at once, an
operation fails only on a dead socket or by `cancel`.

**ConnLifecycle.** One object always waits for the next connection; one that is
served is dropped once, may linger as "closing", and is freed.

**TelnetOptions.** The code keeps the same state twice with the same functions
twice: WILL and DO, `willResponse` and `doResponse`, `ProcessDo` and
`ProcessWill`. The module writes it once for a `Side`; a table in its header
says which bit, counter and function is which. The places where the two
differ are kept: `RequestWill` counts in `doResponse` (`Awaited`), and
TERMINAL-TYPE needs no handler on the local side (`Accepts`). The flags of a
handler follow the code: `SetDo` and `SetDont` assign `doFlag`, for the server's
side, `SetWill` and `SetWont` assign `willFlag`, for the client's. The comments
over the two flags have it the other way round, which is a property of its own
(`FlagsAsDocumented`) and fails; `FlagsFollow` says what does hold.

**TelnetParser.** A fold of `ParseByte` over a chunk, one operator per `case`. A
`Parser` is the members that `ProcessTelnetProtocol` keeps between chunks
(`currentState`, `suboptions`, `suboptionCount`), the text of the chunk (`data`),
and as history the handlers it has called (`calls`). Whether the NUL behind a
carriage return is stripped depends on OPTION_BINARY, so `binary` is what the
client keeps of that option on the server's side: the request and state bits,
`doResponse`, and its handler's `acceptRemote`. `Connect` sets it to what its
requests may leave there, and `ProcessWill` and `ProcessWont` change it in
mid-stream, as commands for it arrive.

The server is RFC 854's. It sends tokens: a data byte, 255 and NUL included; a
carriage return, encoded as its own side of TRANSMIT-BINARY has it, CR NUL or CR
alone, whatever the client has asked for; a newline; a command of two bytes; a
command about an option; a subnegotiation with any bytes, a 255 in it escaped.
`Text` and `Commands` are what RFC 854 and 855 say of the tokens, and not what
the code makes of them. It cuts the stream anywhere.

The parser loses some of that, and the properties say what by name: `Spoils` (a
255 or a NUL as data, and what follows a 255 in a subnegotiation), `Abandoned` (the
command of that subnegotiation), `agreed` (false once a CR NUL meets a client that
has asked for BINARY, so that the NUL stays and ends the text of its chunk) and
`stale` (the connection began where the last one was cut off, inside a command).

**TelnetIO.** The application's program counter is `pc`; the loop of the timed
`ReadUntil` is `Poll`, `Lock`, `Locked`; the handlers of the other thread are
actions, `HandleRead` in two because of the mutex. A `Sleep(10)` is one tick.

**ChatClient.** The queue of posted handlers, the three operations (connect, read,
write) with a status each, and the deque.

**Startup.** A `Process` is a start of the program: `pc` is its main thread, `at`
the branch of `DirectoryInit` it is in, `net` the thread of `NetInit`. All of
them share `disk` and one port. `MkDir` is a branch with the call in it; its
second look at the directory is what lets two processes make the same one.
`made` and `owed` are history: the directories needing contents that this start
went through, and those created and never announced. What `run()` does between
`Listen` and `Stop` is `TCPServer`.

**Utf8.** An int is the set of the numbers of its bits that are one, so that `^` is a
symmetric difference, `>>` a shift of the numbers and a mask an intersection; the
masks are written as in the code. `Encodes` is the reference: RFC 3629's table read
from the bytes to the code point.

**Frames.** One header from the side that writes it to the side that reads it:
`SendChat` is `body_length` and `encode_header`, `SendData` the header of
`async_data_write`, `ReadChat` and `ReadData` the two `handle_read_header`s;
`PeerSends` puts any characters there instead. A header is a sequence of digits,
spaces, signs and junk, which is what `atoi` and an `istream` tell apart. Numbers are
written by repeated division (`Rest`) and read from the left (`Values`).

## 3. Runs

| Run | Question | Bounds |
|---|---|---|
| `sequential_parts` | users: `UniqueNames`, `OwnEntriesOnly`, well-formed; conversions: `Utf8RoundTrip`, `ChatFrames`, `DataFrames` | 2 connections; names of 2, 3, 15, 16, 17 characters, a digit first, a space inside; all ints of 17 bits: every code point of the plane, and every value just past it; lengths and sizes 0 to 4200, past 512 (`max_body_length`) and 4096 (16^3); all headers of 4 and of 3 characters of 9 kinds |
| `sessions_single` | all menu commands, login's second chain, pipelined input, address reuse: `ReturnScreenSafe`, `OneChain`, `PoolServed`, `DetachedIsDead`, `ServerSurvives`; under fairness `DeadIsFreed` | 2 addresses (one always accepting, so one live session at a time), 1 name, 2 reads, 1 login |
| `sessions_many` | `DistinctUsernames` and the refinement `LifecycleSpec` | 3 addresses (two live sessions), 1 name they compete for, 1 read |
| `end_cleanup` (violation) | the comment over `end()` | 2 addresses |
| `telnet_options` | `Agreement`, `FlagsFollow`, `SubnegotiationFollows`, `Settles` | one option, any handler, 2 connections, 4 requests of the server on each |
| `flags_documented` (violation) | the comments over `doFlag` and `willFlag` | as `telnet_options` |
| `telnet_parser` | `TextIntact`, `CommandsIntact`: nothing is lost but what they name; no index or state out of range | 2 tokens a connection, 2 connections, an array of 3 suboption bytes, 5 payloads |
| `telnet_io` | `InOrder`, `NoReadLeft`, `SentMeansWritten`, `TargetEndsReadUntil`, `SendDataReturns` | 4 chunks, 4 calls, a timeout of 2 ticks |
| `read_until_timeout` (violation) | the comment over `ReadUntil` | 2 chunks, 1 call |
| `chat_client` | `DeliveredInOrder`, `BufferAlive`, `InStep`, `Drains`, `Ends` | 3 lines, 2 frames |
| `startup` | `LayoutComplete`, `OwedAccountedFor`, `ComesUp` | 2 processes, all 65 states of the data directory, 2 faults |
| `startup_propagation` (violation) | the message "they require propagation before server startup can continue" | 1 process, 1 fault |

Why these bounds are enough for the cases that matter. The user list's
properties speak of two entries. A session's handlers touch only their own
session, the pool and the list, so what two sessions can do to each other needs
two live ones; what a dead one can do to its successor needs one address that
is reused. Two reads let a session register and then come back to `initMode`;
one login makes the second chain, and `MaxChunk = 2` lets a word and its line
end arrive apart. Options are independent of each other (every array is indexed
by the option), so one suffices, and option 0 stands for all but
TERMINAL-TYPE's special case; four requests let the server ask again while an
answer is under way. Two tokens put every token after every other; an array of
three is wrapped by a payload of four, and the code's 256 is not special; the
payloads are empty, just fit, wrap, and hold a 255 in front of what is then read
as text, once with a byte of a command and a NUL behind it. Four
chunks let text without the target outlast a timeout of two ticks, and four
calls let a late write meet the call after next. Three lines make a queue with
a head, a middle and an end. Two processes are enough for one to find what the
other has made; two faults let a start that repairs after a crash fail as well.
A data header of three hexadecimal digits is too short from 4096 on, as the
code's eight digits are from 2^32 on.

Deadlock is not checked where the system may stop: the telnet client and the
chat client end when calls, tokens or lines run out. `TCPServer` stutters only
once the server is down (`Exited`).

`SYMMETRY` is used on session addresses only where no liveness is checked.

### Fairness

- `TCPServer`: strong fairness of a session's handlers as a group and of failed
  operations: asio queues completions in order, so whenever `registration` lets
  the thread go they have their turn; weak fairness of a blocked read on a dead
  socket. Peers owe nothing, so registration may last for ever: `DeadIsFreed` says
  "if the thread keeps coming back" (`ThreadComesBack`), and without that proviso
  it is false. The same goes for a signal, about which no property is stated: its
  handler runs on that thread, so it stops the server when, and only when, the
  thread comes back.
- `TelnetOptions`: both ends keep reading. That is more than one `ReadUntil`
  gives; it is what an application that goes on calling it gives.
- `TelnetIO`: both threads run; strong fairness of taking the mutex, since a
  thread that spins on it lets the other in between. The server owes nothing.
- `Startup`: the operating system runs a process that has something to do. Nobody
  is obliged to start the server: `ComesUp` says what happens if somebody goes on
  doing so. Faults are bounded, so in the end they stop; signals are not.
- `ChatClient`: the thread runs what is posted and completed; a connection
  attempt ends; the socket takes what is written while the peer is there. The
  peer owes no frames and reads may wait for ever; `do_close` is what ends them.

## 4. What the violations show

- `EndCleansUp`: `end()` does not remove the user, so the name stays taken and
  the entry names a dead object's address.
- `ReadUntilReturns`: time passes only in turns that found text, and one read is
  posted before the loop, so the timed `ReadUntil` spins for ever on silence, or
  on one chunk without the target.
- `PropagationAsked`: a process dies behind `MkDir("maps")`; the next start finds
  the directory, keeps its flag down and listens. Two processes need no fault for
  it: the second may find everything made and listen before the first has said
  anything. What does hold is `OwedAccountedFor`: only a death loses the question.
  `src/build/fs/logs/error.log` shows how little the question holds back in any
  case: the second start, six seconds after the first, goes on.

- `FlagsAsDocumented`: the server says WILL, the client agrees, and `SetDo` raises
  `doFlag`: documented as "active on the local side", it is up although the option
  is off on the client's side.

One comment is at odds with the code without a run of its own: "must be less than 16
chars" (Accounting/UserDB.cpp:98), where `size() > 16` admits 16.

Some of the code's losses are no violations of anything it says of itself; the
properties do not hide them but say that they are the only ones. `ServerSurvives`
lists the throws that end the server, `DeadIsFreed` has the held thread as a
premise, `TextIntact` and `CommandsIntact` name what the parser loses, and
`SentMeansWritten` speaks of the calls before the first timeout.

## 5. Proofs

`TCPServer_proofs` first proves, about `UserDB`, for any connections and any names, that usernames are
unique, the list well formed, and the action property `OwnEntriesOnly`: `find`
returns a connection's first entry, so the list is cut there into a part without
entries of that connection, the entry, and the rest, and `EntriesConcat` says what
becomes of everybody's entries. It states what `AddUser`, `DeleteUser`,
`find` and `Register` do to the list as lemmas, which the server's proofs cite.

It then proves for any number of addresses, any words, any names and
any bounds: `TypeOK`, `ReturnScreenSafe`, `DistinctUsernames`, `PoolServed`,
`DetachedIsDead`. The assumptions are `NameAssumption` and `ServerAssumption`,
the types of the constants. None of the invariants is inductive alone. The
inductive invariant `IInv` adds what the code relies on without saying so
(`SessionInv`): a session's username, once it has one, is in the database under
that session's own address, and no user has an empty name; a session that is
not open has no operations, no name and no place in the pool, and does not hold
the thread; an open one is in the pool or its socket is dead; an operation that
has failed belongs to a dead socket.
From the first of these follow `ReturnScreenSafe` (the name is found, so the address
is) and `DistinctUsernames` (one name, one entry, one address). A reused
address does not disturb them because a new session has no name; that is also
why the stale entries of `EndCleansUp` do no harm there. `DeleteUser`, which
nothing in the server calls, is in `UserDB` only.

The last part of `TCPServer_proofs` adds `OneChain`, `ServerSurvives` and the
refinement `LifecycleSpec`. `OneChain` counts operations, and a handler that starts one has
just used one up; `Fits` says that a session's operations, and its turn in
`registration`, are at most one more than the `login`s it obeyed, and that a
session that was shut down without a second chain has no `registration` due. The
second half is what `ServerSurvives` needs: `registration`'s blocking reads throw
on a dead socket, and `quit` shuts the socket in `initMode`, so with one chain
the thread cannot come to `registration` afterwards; with two it can, and that is
one of the cases `ServerSurvives` allows. One lemma per action says what the
step does to the counts, and to the session's place in `ConnLifecycle` (`Place`
is the refinement mapping); most handlers leave the place alone, and the
destruction of the object in `Return` is the only step that frees it.

`Startup_proofs` proves `TypeOK`, `LayoutComplete` and `OwedAccountedFor` for any
number of processes and of faults, from `StartupAssumption`. `OwedAccountedFor`
is inductive next to `TypeOK`, which ties the flag to what was made; for
`LayoutComplete` the strengthening `Behind` says that the branches a start has
passed have left their directories, and that it joins the network's thread only
behind the last one and with the flag down.

`TelnetOptions_proofs` proves `TypeOK`, `Agreement`, `FlagsFollow` and
`SubnegotiationFollows` for any set of options, any handlers and any bounds, from
`OptionAssumption`. The invariant takes each option and side alone (`Pair`):
- `Agrees` is a table of what client and server may think of it, together with
  the commands about it that are under way each way. It has twenty rows and no
  phrase longer than two; `Refused`, `Asked` and `Granted` are its parts, by
  whether the client wants the option and has been answered. It is closed
  under both ends' steps because a client that has been refused does not ask
  again, and a server waits for an answer before it asks again.
- `Counter` ties the client's answer counter to its two bits. A counter is 2 only
  for a request that is not answered yet, which is what makes counting both kinds
  of request in `doResponse` harmless; and the bit that `TurnOn` sets for a refused
  option never stands without a count.
- `Speech` says that a subnegotiation on its way to the client is about an option
  the server has on and that the client has said nothing since, so that the
  client's answer to it cannot follow its refusal.

`Carries` is what connects the table to the channels: it says which commands about
one option a channel holds, in order, whatever is between them. Its lemmas
(append, read from the front, a command about something else) are what makes
options independent: `Elsewhere` says that a step about one of them leaves every
other one's `Pair` as it was. In a state with empty channels only two
rows are left, and they are `Agreement`.

`TelnetParser_proofs` proves `TypeOK`, `TextIntact` and `CommandsIntact` for any
size of the suboption array, any payloads (longer than the array, and with 255s in
them), any number of tokens and whatever the client asks of BINARY, from
`ParserAssumption`, which is no more than the types of the constants. The two
properties speak of a connection on which everything has been read. The invariant
`Decodes` says it of every state: `End`, what the parser will be once it has read
what is still on its way, is between two tokens, and the handlers `End` has called are
those of the commands sent, without the subnegotiations that are abandoned; and if
the server and the client have agreed about carriage returns and no token spoils
the text, what the application has and the text in `End` are the text sent, without a
NUL that would end a C string early. The part about commands does not have that
hypothesis: a spoilt text spoils no command.

A token that the server adds moves `End` by that token alone (`TakesToken`, with a
lemma per kind of token). `ReadPayload` walks through an escaped payload of any
bytes, with its wrapping counter: up to the first 255 the array holds what was read
(`Holds`), and from there on the parser is outside of the subnegotiation, between
two bytes (`Reads`), which is why the end of an abandoned one calls nobody. A read,
wherever it cuts, does not move `End` at all: reading two pieces is reading them
joined (`ParseConcat`), and the text read before is only ever appended to
(`ParseBefore`). A state lost between chunks would break the first of these, a
decision that looks at the text so far the second. That `End` is the same wherever
the read cuts is also why a server's carriage return can be judged when it is
sent (`Agrees`), by the BINARY the client will have come to. A `Connect` in the
middle of a command says nothing of the new connection (`stale`), as the properties
do.

That is about a fold over a chunk of any length, and an induction theorem that
takes a formula as an operator cannot be used here. `Induction` and
`SeqInduction` in `SequenceLemmas` take the set of the numbers, or of the
sequences, of which the formula holds; they come from the library's theorem that a
set of numbers has a least element. `FoldIterates` and `ParseAppend` are what a
fold needs besides, and `FlatMapAppend` says the same of joined sequences.

`TelnetIO_proofs` proves `TypeOK`, `InOrder`, `NoReadLeft` and the action property
`SentMeansWritten` for any timeout and any number of chunks and calls. `ReadUntil`
posts one read before its loop, so a call has to do with one chunk, and
`OneChunk` says it is in one place: asked for, parsed, in the list or taken.
That is why `NoReadLeft` holds, and why nobody misses a second one. `Exclusion`
says whose the mutex is. `OneWrite` counts the writes of `SendData` under way:
until one has given up, there is none but the one that is being waited for.

`ChatClient_proofs` proves `TypeOK`, `DeliveredInOrder`, `BufferAlive` and `InStep`
for any number of lines and frames. `Queued` numbers the lines: what was
delivered, the queue and the posted handlers are consecutive stretches of the lines
typed, the head of the queue being the line under way; `Framed` says that a
length and its body are next to each other on the wire, and which of them is
read next.

The general facts these proofs had to make first (about sequences that grow at one
end and shrink at the other, about updates of nested functions, about sums of
operation counts) are lemmas at the head of each module.

`Encodings_proofs` proves `Utf8RoundTrip` for ints of any width over 16 bits, and
`ChatFrames` and `DataFrames` for headers of any length, any `max_body_length` the
header can express (`HeaderAssumption`; it is 512 and the header has 4 digits) and
lengths and sizes without a bound.
- In `Utf8Correct` there is a lemma per range. `AddsShifted` is what they share: if the
  low n bits of a byte are those of c shifted by k, the byte counts for the bits k to
  k + n - 1 of c. What is left is to see that no exclusive or reaches those bits, and
  that what it sets above them is cut away or masked. `Utf8Unambiguous` follows: no two
  code points have the same bytes.
- For the headers, `RestPower` says that k divisions leave nothing of v exactly if v is
  less than the k-th power of the base, so a number has at most as many digits as the
  header exactly if it is small enough (`WidthIs`). `ValuesOfDigits` says that i digits,
  read from the left, are what is left of v when the others are cut off; with all of
  them that is v. `ScanIs` finds these digits behind the spaces of `Padded`.
  `Written`, the strengthening, says that a header in front of a message or object is
  the one its sender wrote.

The two functions over digits are recursive, and that such a function exists has to
be proved: `Recursion` and `RecursionUpto` in `SequenceLemmas` do so for any set of
values and any step, from `Induction`.

Only model-checked is liveness under fairness (`DeadIsFreed`, `Settles`,
`TargetEndsReadUntil`, `SendDataReturns`, `Drains`, `Ends`, `ComesUp`),
which the provers cannot reach. Every invariant, action property and refinement
that a passing run checks is a theorem.

## 6. Abstractions and limits

- Texts are abstracted to what the code tests. An empty screen is told from one
  that is not, because an empty write completes without the socket.
- What arrives while `registration` reads is any name or a blank line; input it
  takes beyond the line is lost with its local buffer. The bytes of its last
  write come from a destroyed string and are not followed.
- `FileLogger` and `Banner` are left out of the handlers: no decision reads them.
- Answering a request it cannot use, the client may send a WONT or DONT that the
  server did not need; a subnegotiation can then reach the server while the
  option is off there. `SubnegotiationFollows` is about what the client sends.
- The parser's losses are in section 2; the two properties name them. With the
  handlers of the repository the client never asks for BINARY, so `agreed` is always
  true there; it is what an application may add with `AddOptionHandler`. The
  handler's `acceptRemote` is chosen for a connection; a handler added in the middle
  of one is in `TelnetOptions`, not here. A carriage return of the model's server may
  change between CR NUL and CR at any time, which is more than a server does.
- `suboption[0]` as a signed index (options from 128) is excluded.
- `Connect` leaves `currentState` as it was; properties of text and commands
  exclude a connection that began inside a command of the last one (`stale`).
- With one thread of the application, `SendData` never sees `asyncError`, and
  `ReadUntil` never gets as far as its timeout: those branches are in the model
  and are not taken. `HandleDataWrite` ignores its error, so "written" may be
  "refused".
- Overlapping `async_write`s of commands are taken as ordered; the sharing of
  `boost::pool` between threads is not modelled.
- `IntToUTF8String` writes surrogates like any other code point, and `Utf8RoundTrip`
  takes them for one.
- `Frames` has no "0x", which an `istream` with `std::hex` would skip in front of the
  digits; no header of the program has it. What comes after the header is
  `ChatClient`'s.
- In the chat client, `close` drops queued messages, a failed message stays at
  the head of the queue, and a line over 512 characters ends the input loop.

## 7. Not modelled

- The loggers: append-only output, under a mutex in `FileLogger`; no decision
  reads it. Both threads call `localtime`, whose buffer they share.
- What the options say: the server uses a path and a port. `Startup` has whether
  `Parse` comes back.
- `Random`, which nothing calls; the banner, menus and escapes, which are texts;
  include-only headers; the string tables of `TelnetDefines.hpp`.
- `TCP_Pool::deliver`, `startRaw` and the archive that `async_data_write` sends:
  nothing calls them. Their headers are in `Frames`.

## 8. Plan

Done, in this order: `UserDB`, `TCPServer` with `ConnLifecycle`, their proofs,
`TelnetOptions`, `TelnetParser`, `TelnetIO`, `ChatClient`, `Startup` and its
proofs, `Utf8` and `Frames`.

Then the proofs about `ChatClient`, `TelnetIO`, `TelnetOptions`, `TelnetParser`, of
`OneChain`, `ServerSurvives` and `LifecycleSpec` for `TCPServer`, and about `Utf8` and
`Frames`. Nothing of the plan is left: every safety property a passing run checks is
proved, and liveness stays with TLC.
