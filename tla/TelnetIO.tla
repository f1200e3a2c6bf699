------------------------------ MODULE TelnetIO ------------------------------
(***************************************************************************)
(* The two threads of TelnetClient: the application's, in ReadUntil or in  *)
(* SendData, and the io_service thread, which calls HandleRead and         *)
(* HandleDataWrite.  They share responseList, under a mutex, and the plain *)
(* bools asyncError and sendComplete.                                      *)
(*                                                                         *)
(* What the parser makes of a chunk is module TelnetParser's business; a   *)
(* chunk here holds only commands, or text, or text that completes the     *)
(* target of ReadUntil.  A Sleep(10) is one tick.                          *)
(***************************************************************************)
EXTENDS Integers, SequencesExt

CONSTANTS
    Timeout,     \* ticks in the timeout of a call
    MaxChunks,   \* chunks the server sends
    MaxCalls     \* calls the application makes

ASSUME IOAssumption == Timeout \in Nat \ {0} /\ {MaxChunks, MaxCalls} \subseteq Nat

Text == {"plain", "target"}
Chunk == Text \cup {"command"}
None == "none"

VARIABLES
    pc,             \* where the application's thread is
    response, timeCounter,   \* its local variables
    mutex, responseList, asyncError, sendComplete,
    posted,         \* async_read_some operations not completed
    writes,         \* async_write operations of SendData not completed
    parsed,         \* text HandleRead is about to push
    inbound,        \* external: chunks the server sent
    closed,         \* external: it closed the connection after them
    taken,          \* text read from the socket, in order
    returned,       \* text ReadUntil returned, in order
    threw,          \* some call has thrown
    timedOut,       \* some SendData has given up
    chunks, calls   \* counters behind the bounds

shared == <<mutex, responseList, asyncError, sendComplete>>
net == <<inbound, closed, chunks>>
history == <<taken, returned, threw, timedOut>>
vars == <<pc, response, timeCounter, shared, posted, writes, parsed, net, history, calls>>

-----------------------------------------------------------------------------
(* ReadUntil with a timeout. *)

Reading == {"poll", "lock", "locked"}

Called ==
    /\ pc = "idle" /\ calls < MaxCalls
    /\ calls' = calls + 1

(* Mutant: a second read is posted to be ahead of the first. *)
ReadUntil_PostsTwice ==
    /\ Called
    /\ pc' = "poll" /\ response' = <<>> /\ timeCounter' = 0
    /\ asyncError' = FALSE
    /\ posted' = posted + 2
    /\ UNCHANGED <<mutex, responseList, sendComplete, writes, parsed, net, history>>

(* One read is posted, and no other however many turns the loop takes. *)
ReadUntil ==
    /\ Called
    /\ pc' = "poll" /\ response' = <<>> /\ timeCounter' = 0
    /\ asyncError' = FALSE
    /\ posted' = posted + 1
    /\ UNCHANGED <<mutex, responseList, sendComplete, writes, parsed, net, history>>

Throw == pc' = "idle" /\ threw' = TRUE /\ response' = <<>>

Poll ==
    /\ pc = "poll"
    /\ IF asyncError THEN Throw ELSE pc' = "lock" /\ UNCHANGED <<threw, response>>
    /\ UNCHANGED <<timeCounter, shared, posted, writes, parsed, net,
                   taken, returned, timedOut, calls>>

Lock ==
    /\ pc = "lock" /\ mutex = "free"
    /\ pc' = "locked" /\ mutex' = "application"
    /\ UNCHANGED <<response, timeCounter, responseList, asyncError, sendComplete,
                   posted, writes, parsed, net, history, calls>>

Found(text) == \E i \in DOMAIN text : text[i] = "target"

Return(text) == pc' = "idle" /\ returned' = returned \o text /\ response' = <<>>

(* Mutant: the time is counted whether or not something was there. *)
Locked_CountsAlways ==
    /\ pc = "locked"
    /\ mutex' = "free"
    /\ LET text == IF responseList = <<>> THEN response ELSE Append(response, Head(responseList))
       IN  /\ responseList' = IF responseList = <<>> THEN <<>> ELSE Tail(responseList)
           /\ timeCounter' = timeCounter + 1
           /\ IF Found(text) \/ timeCounter + 1 >= Timeout
                THEN Return(text)
                ELSE pc' = "poll" /\ response' = text /\ UNCHANGED returned
    /\ UNCHANGED <<asyncError, sendComplete, posted, writes, parsed, net,
                   taken, threw, timedOut, calls>>

(* The body of the loop, Sleep and unlock included: time passes only when   *)
(* there was something in the list.                                         *)
Locked ==
    /\ pc = "locked"
    /\ mutex' = "free"
    /\ \/ /\ responseList = <<>>
          /\ pc' = "poll"
          /\ UNCHANGED <<response, timeCounter, responseList, returned>>
       \/ /\ responseList # <<>>
          /\ responseList' = Tail(responseList)
          /\ LET text == Append(response, Head(responseList))
             IN  IF Found(text)
                   THEN Return(text) /\ UNCHANGED timeCounter
                   ELSE /\ timeCounter' = timeCounter + 1
                        /\ IF timeCounter + 1 >= Timeout
                             THEN Return(text)
                             ELSE pc' = "poll" /\ response' = text /\ UNCHANGED returned
    /\ UNCHANGED <<asyncError, sendComplete, posted, writes, parsed, net,
                   taken, threw, timedOut, calls>>

-----------------------------------------------------------------------------
(* ReadUntil without a timeout reads in its own thread. *)

ReadUntilSync ==
    /\ Called
    /\ pc' = "sync" /\ response' = <<>>
    /\ UNCHANGED <<timeCounter, shared, posted, writes, parsed, net, history>>

TextOf(chunk) == IF chunk \in Text THEN <<chunk>> ELSE <<>>

ReadSome ==
    /\ pc = "sync"
    /\ \/ /\ inbound # <<>>
          /\ inbound' = Tail(inbound)
          /\ taken' = taken \o TextOf(Head(inbound))
          /\ LET text == response \o TextOf(Head(inbound))
             IN  IF Found(text)
                   THEN Return(text)
                   ELSE response' = text /\ UNCHANGED <<pc, returned>>
          /\ UNCHANGED threw
       \/ inbound = <<>> /\ closed /\ Throw /\ UNCHANGED <<inbound, taken, returned>>
    /\ UNCHANGED <<timeCounter, shared, posted, writes, parsed, closed, chunks, timedOut, calls>>

-----------------------------------------------------------------------------
(* SendData with a timeout. *)

(* Mutant: the last call's sendComplete is still there. *)
SendData_NoReset ==
    /\ Called
    /\ pc' = "sending" /\ timeCounter' = 0
    /\ asyncError' = FALSE
    /\ writes' = writes + 1
    /\ UNCHANGED <<response, mutex, responseList, sendComplete, posted, parsed, net, history>>

SendData ==
    /\ Called
    /\ pc' = "sending" /\ timeCounter' = 0
    /\ asyncError' = FALSE /\ sendComplete' = FALSE
    /\ writes' = writes + 1
    /\ UNCHANGED <<response, mutex, responseList, posted, parsed, net, history>>

(* Mutant: the loop sleeps without counting. *)
Sending_NoTimer ==
    /\ pc = "sending"
    /\ \/ sendComplete /\ pc' = "idle" /\ UNCHANGED <<threw, response, timeCounter, timedOut>>
       \/ ~sendComplete /\ asyncError /\ Throw /\ UNCHANGED <<timeCounter, timedOut>>
       \/ ~sendComplete /\ ~asyncError /\ UNCHANGED <<pc, threw, response, timeCounter, timedOut>>
    /\ UNCHANGED <<shared, posted, writes, parsed, net, taken, returned, calls>>

Sending ==
    /\ pc = "sending"
    /\ \/ sendComplete /\ pc' = "idle" /\ UNCHANGED <<threw, response, timeCounter, timedOut>>
       \/ ~sendComplete /\ asyncError /\ Throw /\ UNCHANGED <<timeCounter, timedOut>>
       \/ /\ ~sendComplete /\ ~asyncError
          /\ timeCounter' = timeCounter + 1
          /\ pc' = IF timeCounter + 1 >= Timeout THEN "idle" ELSE pc
          /\ timedOut' = (timedOut \/ timeCounter + 1 >= Timeout)
          /\ UNCHANGED <<threw, response>>
    /\ UNCHANGED <<shared, posted, writes, parsed, net, taken, returned, calls>>

-----------------------------------------------------------------------------
(* The io_service thread. *)

(* HandleRead has parsed a chunk; if there was text it goes on to Push. *)
HandleRead ==
    /\ parsed = None /\ posted > 0 /\ inbound # <<>>
    /\ posted' = posted - 1
    /\ inbound' = Tail(inbound)
    /\ taken' = taken \o TextOf(Head(inbound))
    /\ parsed' = IF Head(inbound) \in Text THEN Head(inbound) ELSE None
    /\ UNCHANGED <<pc, response, timeCounter, shared, writes, closed, chunks,
                   returned, threw, timedOut, calls>>

(* Mutant: the lock is not given back. *)
Push_KeepsLock ==
    /\ parsed # None /\ mutex = "free"
    /\ responseList' = Append(responseList, parsed)
    /\ parsed' = None
    /\ mutex' = "io"
    /\ UNCHANGED <<pc, response, timeCounter, asyncError, sendComplete,
                   posted, writes, net, history, calls>>

(* Mutant: the text is freed before it is pushed. *)
Push_Drops ==
    /\ parsed # None /\ mutex = "free"
    /\ parsed' = None
    /\ UNCHANGED <<pc, response, timeCounter, shared, posted, writes, net, history, calls>>

Push ==
    /\ parsed # None /\ mutex = "free"
    /\ responseList' = Append(responseList, parsed)
    /\ parsed' = None
    /\ UNCHANGED <<pc, response, timeCounter, mutex, asyncError, sendComplete,
                   posted, writes, net, history, calls>>

(* CloseClient; the handlers of all operations are called with an error. *)
HandleReadError ==
    /\ parsed = None /\ posted > 0 /\ inbound = <<>> /\ closed
    /\ posted' = posted - 1
    /\ asyncError' = TRUE
    /\ UNCHANGED <<pc, response, timeCounter, mutex, responseList, sendComplete,
                   writes, parsed, net, history, calls>>

(* It does not look at its error. *)
HandleDataWrite ==
    /\ parsed = None /\ writes > 0
    /\ writes' = writes - 1
    /\ sendComplete' = TRUE
    /\ UNCHANGED <<pc, response, timeCounter, mutex, responseList, asyncError,
                   posted, parsed, net, history, calls>>

-----------------------------------------------------------------------------
(* External: the server. *)

ServerSends ==
    /\ ~closed /\ chunks < MaxChunks
    /\ \E chunk \in Chunk : inbound' = Append(inbound, chunk)
    /\ chunks' = chunks + 1
    /\ UNCHANGED <<pc, response, timeCounter, shared, posted, writes, parsed, closed,
                   history, calls>>

ServerCloses ==
    /\ ~closed
    /\ closed' = TRUE
    /\ UNCHANGED <<pc, response, timeCounter, shared, posted, writes, parsed,
                   inbound, chunks, history, calls>>

-----------------------------------------------------------------------------

Init ==
    /\ pc = "idle" /\ response = <<>> /\ timeCounter = 0
    /\ mutex = "free" /\ responseList = <<>>
    /\ asyncError = FALSE /\ sendComplete = FALSE
    /\ posted = 0 /\ writes = 0 /\ parsed = None
    /\ inbound = <<>> /\ closed = FALSE
    /\ taken = <<>> /\ returned = <<>> /\ threw = FALSE /\ timedOut = FALSE
    /\ chunks = 0 /\ calls = 0

Application ==
    \/ ReadUntil \/ Poll \/ Lock \/ Locked
    \/ ReadUntilSync \/ ReadSome
    \/ SendData \/ Sending

Next ==
    \/ Application
    \/ HandleRead \/ Push \/ HandleReadError \/ HandleDataWrite
    \/ ServerSends \/ ServerCloses

Spec == Init /\ [][Next]_vars

(* Both threads run, and each gets the mutex in the end although the other  *)
(* keeps taking it.  The server owes nothing, nor does the application owe  *)
(* another call.                                                            *)
Fairness ==
    /\ WF_vars(Poll) /\ SF_vars(Lock) /\ WF_vars(Locked) /\ WF_vars(Sending)
    /\ WF_vars(HandleRead) /\ SF_vars(Push) /\ WF_vars(HandleReadError)

FairSpec == Spec /\ Fairness

-----------------------------------------------------------------------------
(* Properties *)

(* One read at most is outstanding. *)
TypeOK ==
    /\ pc \in Reading \cup {"idle", "sync", "sending"}
    /\ {response, responseList, taken, returned} \subseteq Seq(Text)
    /\ mutex \in {"free", "application"}
    /\ {asyncError, sendComplete, closed, threw, timedOut} \subseteq BOOLEAN
    /\ posted \in {0, 1}
    /\ timeCounter \in 0..Timeout
    /\ writes \in 0..MaxCalls
    /\ parsed \in Text \cup {None}
    /\ inbound \in Seq(Chunk)

(* No call leaves a read behind, or text: if one did, the read would race   *)
(* with the next call's for the bytes and for the parser's state.           *)
NoReadLeft ==
    pc \notin Reading => posted = 0 /\ responseList = <<>> /\ parsed = None

(* Text reaches the application in the order it came and none is lost,     *)
(* through either thread, until a call throws and drops what it had.        *)
InOrder ==
    ~threw =>
        taken = returned \o response \o responseList
                \o (IF parsed = None THEN <<>> ELSE <<parsed>>)

(* SendData that does not give up has had its data written, or at least    *)
(* refused by the socket; only after one that gave up can its sendComplete *)
(* be another call's.                                                       *)
SentMeansWritten ==
    [][pc = "sending" /\ pc' = "idle" /\ ~threw' /\ ~timedOut' => writes = 0]_vars

(* Text with the target in it ends the ReadUntil that waits for it. *)
TargetEndsReadUntil == (pc \in Reading /\ parsed = "target") ~> pc = "idle"

(* SendData ends, whatever the server does. *)
SendDataReturns == pc = "sending" ~> pc = "idle"

(* The comment over ReadUntil, "Read until a given string is encountered or *)
(* until timeout seconds have passed" (TelnetClient.hpp:108).               *)
ReadUntilReturns == pc \in Reading ~> pc = "idle"
=============================================================================
