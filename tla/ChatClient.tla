----------------------------- MODULE ChatClient -----------------------------
(***************************************************************************)
(* The chat client (src/M-Paradox-Client/client_main.cpp): the main thread *)
(* types lines and the io_service thread talks to the server.              *)
(*                                                                         *)
(* The threads meet only in io_service::post, so the shared state is the   *)
(* queue of posted handlers.  A message is its number among the lines      *)
(* typed.  An asynchronous operation waits, then is done or has failed,    *)
(* and then its handler runs.                                              *)
(***************************************************************************)
EXTENDS Integers, SequencesExt

CONSTANTS
    MaxLines,   \* lines the user types
    MaxFrames   \* frames the server sends

ASSUME ClientAssumption == {MaxLines, MaxFrames} \subseteq Nat

DoClose == 0   \* do_close among the posted handlers, do_write(msg) is msg

Operation == {"none", "wait", "ok", "error"}

(* What read_msg_ is filled from: a header with a length that decode_header *)
(* takes, one that says zero, one it refuses; or a body.                    *)
Unit == {"length", "zero", "bad", "body"}

VARIABLES
    main,        \* the main thread: in the loop, in t.join(), past it
    typed,       \* lines typed
    running,     \* io_service::run has not returned
    posted,      \* handlers posted and not run
    connect,     \* async_connect
    socket,      \* open, or closed by do_close
    write, write_msgs_,
    read, part,  \* the read under way, and what it reads
    last,        \* the unit it has read
    shown,       \* frames written to cout
    peer,        \* external: the server's end of the connection, up or gone
    delivered,   \* external: messages in the order the socket took them
    inbound, frames

io == <<running, connect, socket>>
out == <<write, write_msgs_, delivered>>
in == <<read, part, last, shown>>
outside == <<peer, inbound, frames>>
vars == <<main, typed, posted, io, out, in, outside>>

-----------------------------------------------------------------------------
(* main() *)

(* c.write(msg) posts do_write. *)
TypesLine ==
    /\ main = "typing" /\ typed < MaxLines
    /\ typed' = typed + 1
    /\ posted' = Append(posted, typed + 1)
    /\ UNCHANGED <<main, io, out, in, outside>>

(* End of file, or a line too long for getline: c.close() posts do_close. *)
InputEnds ==
    /\ main = "typing"
    /\ main' = "joining"
    /\ posted' = Append(posted, DoClose)
    /\ UNCHANGED <<typed, io, out, in, outside>>

Joined ==
    /\ main = "joining" /\ ~running
    /\ main' = "done"
    /\ UNCHANGED <<typed, posted, io, out, in, outside>>

-----------------------------------------------------------------------------
(* The io_service thread. *)

Abort(op) == IF op = "wait" THEN "error" ELSE op

(* Mutant: the close does not abort the read and the write under way, so   *)
(* that run waits for the peer to end them.                                *)
do_close_Waits(r, w) ==
    /\ socket' = "closed"
    /\ read' = r /\ write' = w /\ connect' = Abort(connect)

(* socket_.close() aborts what waits; r, w: the operations as they were. *)
do_close(r, w) ==
    /\ socket' = "closed"
    /\ read' = Abort(r) /\ write' = Abort(w) /\ connect' = Abort(connect)

(* An operation on a closed socket fails at once. *)
Started == IF socket = "open" THEN "wait" ELSE "error"

handle_connect ==
    /\ running /\ connect \in {"ok", "error"}
    /\ connect' = "none"
    /\ IF connect = "ok"
         THEN read' = Started /\ part' = "header"
         ELSE UNCHANGED <<read, part>>
    /\ UNCHANGED <<main, typed, running, posted, socket, out, last, shown, outside>>

(* Mutant: a write is started for every message. *)
do_write_Always ==
    /\ running /\ posted # <<>> /\ Head(posted) # DoClose
    /\ posted' = Tail(posted)
    /\ write_msgs_' = Append(write_msgs_, Head(posted))
    /\ write' = Started
    /\ UNCHANGED <<main, typed, io, delivered, in, outside>>

do_write ==
    /\ running /\ posted # <<>> /\ Head(posted) # DoClose
    /\ posted' = Tail(posted)
    /\ write_msgs_' = Append(write_msgs_, Head(posted))
    /\ write' = IF write_msgs_ = <<>> THEN Started ELSE write
    /\ UNCHANGED <<main, typed, io, delivered, in, outside>>

RunClose ==
    /\ running /\ posted # <<>> /\ Head(posted) = DoClose
    /\ posted' = Tail(posted)
    /\ do_close(read, write)
    /\ UNCHANGED <<main, typed, running, write_msgs_, delivered, part, last, shown, outside>>

(* Mutant: the queue's next message waits for another do_write. *)
handle_write_Stops ==
    /\ running /\ write \in {"ok", "error"}
    /\ IF write = "ok"
         THEN /\ write_msgs_' = Tail(write_msgs_)
              /\ write' = "none"
              /\ UNCHANGED <<socket, read, connect>>
         ELSE do_close(read, "none") /\ UNCHANGED write_msgs_
    /\ UNCHANGED <<main, typed, running, posted, delivered, part, last, shown, outside>>

(* Mutant: a message is taken out of the queue before it is known that it  *)
(* was written.                                                            *)
handle_write_PopsFirst ==
    /\ running /\ write \in {"ok", "error"}
    /\ write_msgs_' = Tail(write_msgs_)
    /\ write' = IF write_msgs_' # <<>> THEN Started ELSE "none"
    /\ UNCHANGED <<main, typed, running, posted, delivered, in, socket, connect, outside>>

(* A message that could not be written stays at the head of the queue, so   *)
(* that no later do_write starts another write.                             *)
handle_write ==
    /\ running /\ write \in {"ok", "error"}
    /\ IF write = "ok"
         THEN /\ write_msgs_' = Tail(write_msgs_)
              /\ write' = IF write_msgs_' # <<>> THEN Started ELSE "none"
              /\ UNCHANGED <<socket, read, connect>>
         ELSE do_close(read, "none") /\ UNCHANGED write_msgs_
    /\ UNCHANGED <<main, typed, running, posted, delivered, part, last, shown, outside>>

(* decode_header takes a length up to max_body_length. *)
decode_header == last \in {"length", "zero"}

(* A read of no bytes completes without the socket. *)
handle_read_header ==
    /\ running /\ part = "header" /\ read \in {"ok", "error"}
    /\ IF read = "ok" /\ decode_header
         THEN /\ read' = IF last = "zero" THEN "ok" ELSE Started
              /\ part' = "body"
              /\ UNCHANGED <<socket, write, connect>>
         ELSE do_close("none", write) /\ UNCHANGED part
    /\ UNCHANGED <<main, typed, running, posted, write_msgs_, delivered, last, shown, outside>>

(* Mutant: the body is shown and the next body read. *)
handle_read_body_Again ==
    /\ running /\ part = "body" /\ read \in {"ok", "error"}
    /\ IF read = "ok"
         THEN /\ shown' = shown + 1
              /\ read' = Started /\ part' = "body"
              /\ UNCHANGED <<socket, write, connect>>
         ELSE do_close("none", write) /\ UNCHANGED <<shown, part>>
    /\ UNCHANGED <<main, typed, running, posted, write_msgs_, delivered, last, outside>>

handle_read_body ==
    /\ running /\ part = "body" /\ read \in {"ok", "error"}
    /\ IF read = "ok"
         THEN /\ shown' = shown + 1
              /\ read' = Started /\ part' = "header"
              /\ UNCHANGED <<socket, write, connect>>
         ELSE do_close("none", write) /\ UNCHANGED <<shown, part>>
    /\ UNCHANGED <<main, typed, running, posted, write_msgs_, delivered, last, outside>>

(* run returns when there is nothing to wait for; what is posted to it     *)
(* later is never run.                                                     *)
RunReturns ==
    /\ running
    /\ posted = <<>> /\ {connect, write, read} = {"none"}
    /\ running' = FALSE
    /\ UNCHANGED <<main, typed, posted, connect, socket, out, in, outside>>

-----------------------------------------------------------------------------
(* External: the sockets and the server. *)

(* The attempt ends; when it fails there is no peer. *)
Connects ==
    /\ connect = "wait"
    /\ \/ peer = "up" /\ connect' = "ok" /\ UNCHANGED peer
       \/ connect' = "error" /\ peer' = "gone"
    /\ UNCHANGED <<main, typed, posted, running, socket, out, in, inbound, frames>>

Connected == connect \in {"ok", "none"}

WriteSucceeds ==
    /\ write = "wait" /\ Connected /\ peer = "up"
    /\ write' = "ok"
    /\ delivered' = Append(delivered, Head(write_msgs_))
    /\ UNCHANGED <<main, typed, posted, io, write_msgs_, in, outside>>

(* A write before the connection stands fails, or waits for it. *)
WriteFails ==
    /\ write = "wait" /\ (~Connected \/ peer = "gone")
    /\ write' = "error"
    /\ UNCHANGED <<main, typed, posted, io, write_msgs_, delivered, in, outside>>

ReadSucceeds ==
    /\ read = "wait" /\ inbound # <<>>
    /\ read' = "ok" /\ last' = Head(inbound)
    /\ inbound' = Tail(inbound)
    /\ UNCHANGED <<main, typed, posted, io, out, part, shown, peer, frames>>

ReadFails ==
    /\ read = "wait" /\ peer = "gone"
    /\ read' = "error"
    /\ UNCHANGED <<main, typed, posted, io, out, part, last, shown, outside>>

ServerSends ==
    /\ peer = "up" /\ Connected /\ frames < MaxFrames
    /\ frames' = frames + 1
    /\ \E frame \in {<<"length", "body">>, <<"zero">>, <<"bad">>} : inbound' = inbound \o frame
    /\ UNCHANGED <<main, typed, posted, io, out, in, peer>>

ServerGoes ==
    /\ peer = "up"
    /\ peer' = "gone"
    /\ UNCHANGED <<main, typed, posted, io, out, in, inbound, frames>>

-----------------------------------------------------------------------------

(* The constructor has called async_connect and the thread runs. *)
Init ==
    /\ main = "typing" /\ typed = 0
    /\ running = TRUE /\ posted = <<>>
    /\ connect = "wait" /\ socket = "open"
    /\ write = "none" /\ write_msgs_ = <<>>
    /\ read = "none" /\ part = "header" /\ last = "zero" /\ shown = 0
    /\ peer = "up" /\ delivered = <<>> /\ inbound = <<>> /\ frames = 0

IoThread ==
    \/ handle_connect \/ do_write \/ RunClose \/ handle_write
    \/ handle_read_header \/ handle_read_body \/ RunReturns

Next ==
    \/ TypesLine \/ InputEnds \/ Joined
    \/ IoThread
    \/ Connects \/ WriteSucceeds \/ WriteFails \/ ReadSucceeds \/ ReadFails
    \/ ServerSends \/ ServerGoes

Spec == Init /\ [][Next]_vars

(* The thread runs what is posted and what has completed, in turn; an      *)
(* attempt to connect ends; a socket takes what is written to it.          *)
Fairness ==
    /\ WF_vars(handle_connect) /\ WF_vars(do_write) /\ WF_vars(RunClose)
    /\ WF_vars(handle_write) /\ WF_vars(handle_read_header) /\ WF_vars(handle_read_body)
    /\ WF_vars(RunReturns) /\ WF_vars(Joined)
    /\ WF_vars(Connects) /\ WF_vars(WriteSucceeds) /\ WF_vars(WriteFails)

FairSpec == Spec /\ Fairness

-----------------------------------------------------------------------------
(* Properties *)

(* The type of the state; no more frames are shown than were sent. *)
TypeOK ==
    /\ main \in {"typing", "joining", "done"}
    /\ typed \in 0..MaxLines
    /\ posted \in Seq(0..MaxLines)
    /\ {connect, write, read} \subseteq Operation
    /\ {running} \subseteq BOOLEAN
    /\ socket \in {"open", "closed"}
    /\ {write_msgs_, delivered} \subseteq Seq(1..MaxLines)
    /\ part \in {"header", "body"} /\ last \in Unit
    /\ inbound \in Seq(Unit)
    /\ shown \in 0..MaxFrames

Typed == [i \in 1..typed |-> i]

(* write and handle_write: the server gets the lines in the order they were *)
(* typed, none twice and none left out, up to the one at which the          *)
(* connection ended.                                                        *)
DeliveredInOrder == IsPrefix(delivered, Typed)

(* do_write and handle_write: the message being written is at the head of   *)
(* the queue and the only one under way: its buffer lives in the queue      *)
(* until handle_write.                                                      *)
BufferAlive ==
    /\ write \in {"wait", "ok"} => write_msgs_ # <<>>
    /\ write = "ok" => Head(write_msgs_) = Last(delivered)
    /\ write = "wait" => Head(write_msgs_) = Len(delivered) + 1

(* handle_read_header and handle_read_body: the client reads a header where *)
(* the server wrote one.                                                    *)
InStep ==
    read = "ok" => (part = "header" <=> last # "body") \/ last = "zero"

(* do_write and handle_write: a line typed while the connection lasts       *)
(* reaches the socket.                                                      *)
Drains ==
    \A m \in 1..MaxLines :
        typed >= m ~> (Len(delivered) >= m \/ socket = "closed" \/ ~running)

(* do_close ends whatever run waits for, so that when the input ends        *)
(* t.join() returns.                                                        *)
Ends == main = "joining" ~> main = "done"
=============================================================================
