------------------------- MODULE ChatClient_proofs -------------------------
(***************************************************************************)
(* For any number of lines and of frames: what the client types arrives in *)
(* order, the buffer of a write is alive, frames stay in step.             *)
(*                                                                         *)
(* The strengthening has two parts.  Queued: the lines lie in one row that *)
(* begins with what the socket took, goes on in write_msgs_ and ends in    *)
(* the queue of posted handlers, without a gap.  Framed: what the client   *)
(* has read last and what is still to come alternate as the server wrote   *)
(* them, and the handler that waits is the one for what comes next.        *)
(***************************************************************************)
EXTENDS ChatClient, SequenceTheorems, FiniteSetTheorems, TLAPS

(* Messages that handle_write has taken out of the queue. *)
Popped == IF write = "ok" THEN Len(delivered) - 1 ELSE Len(delivered)

ClosePosted == posted # <<>> /\ posted[Len(posted)] = DoClose

Queued ==
    /\ Popped \in Nat
    /\ \A i \in 1..Len(delivered) : delivered[i] = i
    /\ \A i \in 1..Len(write_msgs_) : write_msgs_[i] = Popped + i
    /\ \A i \in 1..Len(posted) :
         \/ posted[i] = Popped + Len(write_msgs_) + i
         \/ posted[i] = DoClose /\ i = Len(posted) /\ main # "typing"
    /\ typed = Popped + Len(write_msgs_) + Len(posted) - (IF ClosePosted THEN 1 ELSE 0)
    /\ write # "none" => write_msgs_ # <<>>

(* A body follows a length and nothing else, and follows it at once. *)
Alternate ==
    /\ \A i \in 1..Len(inbound) :
         inbound[i] = "body" <=> (IF i = 1 THEN last ELSE inbound[i - 1]) = "length"
    /\ (IF inbound = <<>> THEN last ELSE inbound[Len(inbound)]) # "length"

Headers(s) == {i \in 1..Len(s) : s[i] # "body"}

(* A frame whose header has been read and which has not been shown. *)
HalfRead ==
    IF (part = "body" /\ read \in {"wait", "ok"}) \/ (part = "header" /\ read = "ok")
      THEN 1 ELSE 0

Framed ==
    /\ frames \in 0..MaxFrames
    /\ Alternate
    /\ read = "wait" => (part = "body" <=> last = "length")
    /\ read = "ok" => IF part = "header" THEN last # "body" ELSE last \in {"body", "zero"}
    /\ connect # "none" => read = "none" /\ last = "zero"
    /\ shown + HalfRead + Cardinality(Headers(inbound)) =< frames

IInv == TypeOK /\ Queued /\ Framed

-----------------------------------------------------------------------------
(* Operations *)

LEMMA AbortOp ==
  ASSUME NEW op \in Operation
  PROVE  /\ Abort(op) \in Operation /\ Abort(op) # "wait"
         /\ Abort(op) = "ok" <=> op = "ok"
         /\ Abort(op) = "none" <=> op = "none"
BY DEF Abort, Operation

LEMMA StartedOp == Started \in {"wait", "error"}
BY DEF Started

(* What do_close leaves of the operations and of the queue's invariant. *)
LEMMA Closed ==
  ASSUME TypeOK, NEW r \in Operation, NEW w \in Operation, do_close(r, w)
  PROVE  /\ {connect', write', read'} \subseteq Operation
         /\ socket' = "closed"
         /\ write' = "ok" <=> w = "ok"
         /\ write' = "none" <=> w = "none"
         /\ read' # "wait"
         /\ read' = "ok" <=> r = "ok"
         /\ read' = "none" <=> r = "none"
         /\ connect' = "none" <=> connect = "none"
BY AbortOp DEF do_close, TypeOK

-----------------------------------------------------------------------------
(* The lines. *)

LEMMA Lines ==
  ASSUME IInv
  PROVE  /\ posted \in Seq(0..MaxLines) /\ Len(posted) \in Nat
         /\ write_msgs_ \in Seq(1..MaxLines) /\ Len(write_msgs_) \in Nat
         /\ delivered \in Seq(1..MaxLines) /\ Len(delivered) \in Nat
         /\ typed \in Nat /\ Popped \in Nat
         /\ MaxLines \in Nat /\ DoClose \in 0..MaxLines
BY ClientAssumption DEF IInv, TypeOK, Queued, DoClose

LEMMA NotEmpty ==
  ASSUME NEW S, NEW s \in Seq(S), s # <<>>
  PROVE  /\ Len(s) \in Nat \ {0} /\ Len(s) \in 1..Len(s)
         /\ Head(s) = s[1] /\ Head(s) \in S
         /\ Tail(s) \in Seq(S) /\ Len(Tail(s)) = Len(s) - 1
         /\ \A i \in 1..Len(s) - 1 : Tail(s)[i] = s[i + 1]
BY EmptySeq, HeadTailProperties

(* Where a handler is in the queue tells which it is. *)
LEMMA PostedAt ==
  ASSUME IInv, NEW i \in 1..Len(posted)
  PROVE  /\ posted[i] = DoClose => i = Len(posted) /\ main # "typing"
         /\ posted[i] # DoClose => posted[i] = Popped + Len(write_msgs_) + i
<1>1. \/ posted[i] = Popped + Len(write_msgs_) + i
      \/ posted[i] = DoClose /\ i = Len(posted) /\ main # "typing"
  BY DEF IInv, Queued
<1>2. Popped + Len(write_msgs_) + i # DoClose
  BY Lines DEF DoClose
<1> QED
  BY <1>1, <1>2

LEMMA CloseIsLast ==
  ASSUME IInv, ClosePosted
  PROVE  Len(posted) \in 1..Len(posted) /\ posted[Len(posted)] = DoClose /\ main # "typing"
<1>1. Len(posted) \in 1..Len(posted) /\ posted[Len(posted)] = DoClose
  BY Lines, NotEmpty DEF ClosePosted
<1> QED
  BY <1>1, PostedAt

(* The steps that leave the lines where they are. *)
LEMMA QueuedKept ==
  ASSUME IInv, UNCHANGED <<main, typed, posted, write_msgs_, delivered>>,
         write' = "ok" <=> write = "ok", write' = "none" <=> write = "none"
  PROVE  Queued'
BY DEF IInv, Queued, Popped, ClosePosted

LEMMA TypesLineQueued == ASSUME IInv, TypesLine PROVE Queued'
<1>1. /\ posted' = Append(posted, typed + 1)
      /\ typed' = typed + 1 /\ main = "typing"
      /\ UNCHANGED <<main, write, write_msgs_, delivered>>
  BY DEF TypesLine, out
<1>2. typed + 1 \in 0..MaxLines
  BY Lines DEF TypesLine
<1>3. /\ Len(posted') = Len(posted) + 1
      /\ \A i \in 1..Len(posted) : posted'[i] = posted[i]
      /\ posted'[Len(posted) + 1] = typed + 1
  BY <1>1, <1>2, Lines
<1>4. ~ClosePosted
  BY <1>1, CloseIsLast
<1>5. ~ClosePosted'
  BY <1>3, Lines DEF ClosePosted, DoClose
<1>6. Popped' = Popped
  BY <1>1 DEF Popped
<1>7. \A i \in 1..Len(posted') : posted'[i] = Popped + Len(write_msgs_) + i
  <2> SUFFICES ASSUME NEW i \in 1..Len(posted')
               PROVE  posted'[i] = Popped + Len(write_msgs_) + i
    OBVIOUS
  <2>1. typed = Popped + Len(write_msgs_) + Len(posted)
    BY <1>4, Lines DEF IInv, Queued
  <2>2. CASE i = Len(posted) + 1
    BY <1>3, <2>1, <2>2, Lines
  <2>3. CASE i # Len(posted) + 1
    BY <1>1, <1>3, <2>3, PostedAt, Lines
  <2> QED
    BY <2>2, <2>3
<1>8. typed' = Popped + Len(write_msgs_) + Len(posted')
  BY <1>1, <1>3, <1>4, Lines DEF IInv, Queued
<1> QED
  BY <1>1, <1>5, <1>6, <1>7, <1>8 DEF IInv, Queued

LEMMA InputEndsQueued == ASSUME IInv, InputEnds PROVE Queued'
<1>1. /\ posted' = Append(posted, DoClose)
      /\ main = "typing" /\ main' = "joining"
      /\ UNCHANGED <<typed, write, write_msgs_, delivered>>
  BY DEF InputEnds, out
<1>2. /\ Len(posted') = Len(posted) + 1 /\ posted' # <<>>
      /\ \A i \in 1..Len(posted) : posted'[i] = posted[i]
      /\ posted'[Len(posted) + 1] = DoClose
  BY <1>1, Lines
<1>3. ~ClosePosted
  BY <1>1, CloseIsLast
<1>4. ClosePosted'
  BY <1>2, Lines DEF ClosePosted
<1>5. Popped' = Popped
  BY <1>1 DEF Popped
<1>6. \A i \in 1..Len(posted') :
        \/ posted'[i] = Popped + Len(write_msgs_) + i
        \/ posted'[i] = DoClose /\ i = Len(posted')
  BY <1>1, <1>2, <1>3, Lines DEF IInv, Queued
<1>7. typed = Popped + Len(write_msgs_) + Len(posted') - 1
  BY <1>2, <1>3, Lines DEF IInv, Queued
<1> QED
  BY <1>1, <1>4, <1>5, <1>6, <1>7 DEF IInv, Queued

(* The handler at the head of the queue is taken out of it. *)
LEMMA TailPosted ==
  ASSUME IInv, posted # <<>>, posted' = Tail(posted)
  PROVE  /\ Len(posted) \in Nat \ {0} /\ 1 \in 1..Len(posted)
         /\ Head(posted) = posted[1]
         /\ Len(posted') = Len(posted) - 1
         /\ \A i \in 1..Len(posted') : posted'[i] = posted[i + 1]
         /\ posted' = <<>> <=> Len(posted) = 1
<1>1. posted \in Seq(0..MaxLines)
  BY Lines
<1>2. /\ Len(posted) \in Nat \ {0} /\ Head(posted) = posted[1]
      /\ posted' \in Seq(0..MaxLines) /\ Len(posted') = Len(posted) - 1
      /\ \A i \in 1..Len(posted) - 1 : posted'[i] = posted[i + 1]
  BY <1>1, NotEmpty
<1>3. posted' = <<>> <=> Len(posted') = 0
  BY <1>2, EmptySeq
<1> QED
  BY <1>2, <1>3

LEMMA do_writeQueued == ASSUME IInv, do_write PROVE Queued'
<1>1. /\ posted # <<>> /\ Head(posted) # DoClose /\ posted' = Tail(posted)
      /\ write_msgs_' = Append(write_msgs_, Head(posted))
      /\ write' = IF write_msgs_ = <<>> THEN Started ELSE write
      /\ UNCHANGED <<main, typed, delivered>>
  BY DEF do_write
<1>2. Head(posted) \in 1..MaxLines
  BY <1>1, Lines DEF DoClose
<1>3. /\ Len(write_msgs_') = Len(write_msgs_) + 1
      /\ \A i \in 1..Len(write_msgs_) : write_msgs_'[i] = write_msgs_[i]
      /\ write_msgs_'[Len(write_msgs_) + 1] = Head(posted)
      /\ write_msgs_' # <<>>
  BY <1>1, <1>2, Lines
<1>4. write' = "ok" <=> write = "ok"
  BY <1>1, StartedOp DEF IInv, Queued
<1>5. Popped' = Popped /\ Popped \in Nat
  BY <1>1, <1>4 DEF IInv, Queued, Popped
<1>6. posted[1] = Popped + Len(write_msgs_) + 1
  BY <1>1, TailPosted, PostedAt
<1>7. ClosePosted' <=> ClosePosted
  BY <1>1, TailPosted DEF ClosePosted
<1>8. \A i \in 1..Len(write_msgs_') : write_msgs_'[i] = Popped + i
  <2>1. \A i \in 1..Len(write_msgs_) : write_msgs_'[i] = Popped + i
    BY <1>3 DEF IInv, Queued
  <2>2. write_msgs_'[Len(write_msgs_) + 1] = Popped + (Len(write_msgs_) + 1)
    BY <1>1, <1>3, <1>6, TailPosted, Lines
  <2>3. \A i \in 1..Len(write_msgs_') :
          i \in 1..Len(write_msgs_) \/ i = Len(write_msgs_) + 1
    BY <1>3, Lines
  <2> QED
    BY <2>1, <2>2, <2>3
<1>9. \A i \in 1..Len(posted') :
        \/ posted'[i] = Popped + Len(write_msgs_') + i
        \/ posted'[i] = DoClose /\ i = Len(posted') /\ main # "typing"
  <2> SUFFICES ASSUME NEW i \in 1..Len(posted')
               PROVE  \/ posted'[i] = Popped + Len(write_msgs_') + i
                      \/ posted'[i] = DoClose /\ i = Len(posted') /\ main # "typing"
    OBVIOUS
  <2>1. i + 1 \in 1..Len(posted) /\ posted'[i] = posted[i + 1]
    BY <1>1, TailPosted
  <2>2. \/ posted[i + 1] = Popped + Len(write_msgs_) + (i + 1)
        \/ posted[i + 1] = DoClose /\ i + 1 = Len(posted) /\ main # "typing"
    BY <2>1, PostedAt
  <2>3. Popped + Len(write_msgs_') + i = Popped + Len(write_msgs_) + (i + 1)
    BY <1>3, Lines
  <2>4. Len(posted') = Len(posted) - 1 /\ Len(posted) \in Nat
    BY <1>1, TailPosted
  <2> QED
    BY <2>1, <2>2, <2>3, <2>4
<1>10. typed = Popped + Len(write_msgs_') + Len(posted') - (IF ClosePosted THEN 1 ELSE 0)
  BY <1>1, <1>3, TailPosted, Lines DEF IInv, Queued
<1> QED
  BY <1>1, <1>3, <1>5, <1>7, <1>8, <1>9, <1>10 DEF IInv, Queued

LEMMA RunCloseQueued == ASSUME IInv, RunClose PROVE Queued'
<1>1. /\ posted # <<>> /\ Head(posted) = DoClose /\ posted' = Tail(posted)
      /\ UNCHANGED <<main, typed, write_msgs_, delivered>>
      /\ do_close(read, write)
  BY DEF RunClose
<1>2. (write' = "ok" <=> write = "ok") /\ (write' = "none" <=> write = "none")
  BY <1>1, Closed DEF IInv, TypeOK
<1>3. Popped' = Popped
  BY <1>1, <1>2 DEF Popped
<1>4. Len(posted) = 1
  BY <1>1, TailPosted, PostedAt
<1>5. ClosePosted
  BY <1>1, <1>4, TailPosted DEF ClosePosted
<1>6. Len(posted') = 0 /\ ~ClosePosted'
  BY <1>1, <1>4, TailPosted DEF ClosePosted
<1>7. typed = Popped + Len(write_msgs_)
  BY <1>4, <1>5, Lines DEF IInv, Queued
<1>8. \A i \in 1..Len(write_msgs_') : write_msgs_'[i] = Popped' + i
  BY <1>1, <1>3 DEF IInv, Queued
<1>9. \A i \in 1..Len(posted') : FALSE
  BY <1>6
<1>10. typed' = Popped' + Len(write_msgs_') + Len(posted') - (IF ClosePosted' THEN 1 ELSE 0)
  <2>1. Popped' + Len(write_msgs_') \in Nat
    BY <1>1, <1>3, Lines
  <2>2. (IF ClosePosted' THEN 1 ELSE 0) = 0
    BY <1>6
  <2>3. typed' = Popped' + Len(write_msgs_')
    BY <1>1, <1>3, <1>7
  <2> QED
    BY <1>6, <2>1, <2>2, <2>3
<1> QED
  BY <1>1, <1>2, <1>3, <1>8, <1>9, <1>10 DEF IInv, Queued

LEMMA handle_writeQueued == ASSUME IInv, handle_write PROVE Queued'
<1>1. UNCHANGED <<main, typed, posted, delivered>> /\ write_msgs_ # <<>>
  BY DEF handle_write, IInv, Queued
<1>2. Len(posted) \in Nat /\ Len(delivered) \in Nat
  BY DEF IInv, TypeOK
<1>3. CASE write = "ok"
  <2>1. write_msgs_' = Tail(write_msgs_)
        /\ write' = IF write_msgs_' # <<>> THEN Started ELSE "none"
    BY <1>3 DEF handle_write
  <2>2. /\ Len(write_msgs_) \in Nat \ {0}
        /\ Len(write_msgs_') = Len(write_msgs_) - 1
        /\ \A i \in 1..Len(write_msgs_') : write_msgs_'[i] = write_msgs_[i + 1]
    BY <1>1, <2>1 DEF IInv, TypeOK
  <2>3. write' # "ok" /\ (write' # "none" => write_msgs_' # <<>>)
    BY <2>1, StartedOp
  <2>4. Popped' = Popped + 1 /\ Popped \in Nat
    BY <1>1, <1>2, <1>3, <2>3 DEF IInv, Queued, Popped
  <2>5. ClosePosted' = ClosePosted
    BY <1>1 DEF ClosePosted
  <2> QED
    BY <1>1, <1>2, <2>2, <2>3, <2>4, <2>5 DEF IInv, Queued
<1>4. CASE write = "error"
  <2>1. do_close(read, "none") /\ UNCHANGED write_msgs_
    BY <1>4 DEF handle_write
  <2>2. write' = "none"
    BY <2>1 DEF do_close, Abort
  <2> QED
    BY <1>1, <1>4, <2>1, <2>2 DEF IInv, Queued, Popped, ClosePosted
<1> QED
  BY <1>3, <1>4 DEF handle_write

LEMMA WriteSucceedsQueued == ASSUME IInv, WriteSucceeds PROVE Queued'
<1>1. /\ write = "wait" /\ write' = "ok" /\ write_msgs_ # <<>>
      /\ delivered' = Append(delivered, Head(write_msgs_))
      /\ UNCHANGED <<main, typed, posted, write_msgs_>>
  BY DEF WriteSucceeds, IInv, Queued
<1>2. Head(write_msgs_) \in 1..MaxLines /\ Head(write_msgs_) = write_msgs_[1]
      /\ Len(write_msgs_) \in Nat \ {0}
  BY <1>1, Lines
<1>3. /\ Len(delivered') = Len(delivered) + 1 /\ Len(delivered) \in Nat
      /\ \A i \in 1..Len(delivered) : delivered'[i] = delivered[i]
      /\ delivered'[Len(delivered) + 1] = Len(delivered) + 1
  BY <1>1, <1>2, Lines DEF IInv, Queued, Popped
<1>4. Popped' = Popped
  BY <1>1, <1>3 DEF Popped
<1> QED
  BY <1>1, <1>3, <1>4 DEF IInv, Queued, ClosePosted

LEMMA QueuedStep == ASSUME IInv, [Next]_vars PROVE Queued'
<1> USE DEF in, out, io, outside
<1>1. CASE TypesLine
  BY <1>1, TypesLineQueued
<1>2. CASE InputEnds
  BY <1>2, InputEndsQueued
<1>3. CASE Joined
  BY <1>3 DEF Joined, IInv, Queued, Popped, ClosePosted
<1>4. CASE handle_connect
  BY <1>4, QueuedKept DEF handle_connect
<1>5. CASE do_write
  BY <1>5, do_writeQueued
<1>6. CASE RunClose
  BY <1>6, RunCloseQueued
<1>7. CASE handle_write
  BY <1>7, handle_writeQueued
<1>8. CASE handle_read_header
  <2>1. (write' = "ok" <=> write = "ok") /\ (write' = "none" <=> write = "none")
    BY <1>8, Closed DEF handle_read_header, IInv, TypeOK, Operation
  <2> QED
    BY <1>8, <2>1, QueuedKept DEF handle_read_header
<1>9. CASE handle_read_body
  <2>1. (write' = "ok" <=> write = "ok") /\ (write' = "none" <=> write = "none")
    BY <1>9, Closed DEF handle_read_body, IInv, TypeOK, Operation
  <2> QED
    BY <1>9, <2>1, QueuedKept DEF handle_read_body
<1>10. CASE RunReturns
  BY <1>10, QueuedKept DEF RunReturns
<1>11. CASE Connects
  BY <1>11, QueuedKept DEF Connects
<1>12. CASE WriteSucceeds
  BY <1>12, WriteSucceedsQueued
<1>13. CASE WriteFails
  BY <1>13, QueuedKept DEF WriteFails
<1>14. CASE ReadSucceeds
  BY <1>14, QueuedKept DEF ReadSucceeds
<1>15. CASE ReadFails
  BY <1>15, QueuedKept DEF ReadFails
<1>16. CASE ServerSends
  BY <1>16, QueuedKept DEF ServerSends
<1>17. CASE ServerGoes
  BY <1>17, QueuedKept DEF ServerGoes
<1>18. CASE UNCHANGED vars
  BY <1>18, QueuedKept DEF vars
<1> QED
  BY <1>1, <1>2, <1>3, <1>4, <1>5, <1>6, <1>7, <1>8, <1>9, <1>10, <1>11, <1>12, <1>13,
     <1>14, <1>15, <1>16, <1>17, <1>18 DEF Next, IoThread

-----------------------------------------------------------------------------
(* The frames. *)

LEMMA HeadersFinite ==
  ASSUME NEW s \in Seq(Unit)
  PROVE  IsFiniteSet(Headers(s)) /\ Cardinality(Headers(s)) \in Nat
<1>1. IsFiniteSet(1..Len(s))
  BY FS_Interval
<1>2. Headers(s) \in SUBSET (1..Len(s))
  BY DEF Headers
<1> QED
  BY <1>1, <1>2, FS_Subset, FS_CardinalityType

(* Taking a unit off the stream takes its header off the count. *)
LEMMA HeadersTail ==
  ASSUME NEW s \in Seq(Unit), s # <<>>
  PROVE  Cardinality(Headers(Tail(s))) + (IF Head(s) = "body" THEN 0 ELSE 1)
           =< Cardinality(Headers(s))
<1> DEFINE T == Headers(Tail(s))
           H == Headers(s)
           f == [i \in T |-> i + 1]
<1>1. /\ Len(s) \in Nat \ {0} /\ Head(s) = s[1] /\ 1 \in 1..Len(s)
      /\ Tail(s) \in Seq(Unit) /\ Len(Tail(s)) = Len(s) - 1
      /\ \A i \in 1..Len(s) - 1 : Tail(s)[i] = s[i + 1]
  BY NotEmpty
<1>2. \A i \in T : i \in Nat /\ i + 1 \in H \ {1}
  BY <1>1 DEF Headers
<1>3. f \in Injection(T, H \ {1})
  BY <1>2 DEF Injection, IsInjective
<1>4. IsFiniteSet(H) /\ Cardinality(H) \in Nat /\ Cardinality(T) \in Nat
  BY <1>1, HeadersFinite
<1>5. IsFiniteSet(H \ {1})
      /\ Cardinality(H \ {1}) = IF 1 \in H THEN Cardinality(H) - 1 ELSE Cardinality(H)
  BY <1>4, FS_RemoveElement
<1>6. Cardinality(T) =< Cardinality(H \ {1})
  <2> HIDE DEF f, T, H
  <2> QED
    BY <1>3, <1>5, FS_Injection
<1>7. 1 \in H <=> Head(s) # "body"
  BY <1>1 DEF Headers
<1> QED
  BY <1>4, <1>5, <1>6, <1>7

(* What ServerSends appends: one header, and its body if it has one. *)
Frame == {<<"length", "body">>, <<"zero">>, <<"bad">>}

LEMMA FrameShape ==
  ASSUME NEW frame \in Frame
  PROVE  /\ frame \in Seq(Unit) /\ Len(frame) \in {1, 2}
         /\ frame[1] # "body"
         /\ frame[1] = "length" <=> Len(frame) = 2
         /\ Len(frame) = 2 => frame[2] = "body"
<1>1. CASE frame = <<"length", "body">>
  BY <1>1 DEF Unit
<1>2. CASE frame = <<"zero">>
  BY <1>2 DEF Unit
<1>3. CASE frame = <<"bad">>
  BY <1>3 DEF Unit
<1> QED
  BY <1>1, <1>2, <1>3 DEF Frame

LEMMA HeadersSent ==
  ASSUME NEW s \in Seq(Unit), NEW frame \in Frame
  PROVE  Cardinality(Headers(s \o frame)) =< Cardinality(Headers(s)) + 1
<1>1. /\ Len(s \o frame) = Len(s) + Len(frame) /\ Len(s) \in Nat /\ Len(frame) \in {1, 2}
      /\ \A i \in 1..Len(s) : (s \o frame)[i] = s[i]
      /\ Len(frame) = 2 => (s \o frame)[Len(s) + 2] = "body"
  BY FrameShape
<1>2. Headers(s \o frame) \in SUBSET (Headers(s) \cup {Len(s) + 1})
  BY <1>1 DEF Headers
<1>3. IsFiniteSet(Headers(s)) /\ Cardinality(Headers(s)) \in Nat
  BY HeadersFinite
<1>4. /\ IsFiniteSet(Headers(s) \cup {Len(s) + 1})
      /\ Cardinality(Headers(s) \cup {Len(s) + 1}) =
           IF Len(s) + 1 \in Headers(s) THEN Cardinality(Headers(s)) ELSE Cardinality(Headers(s)) + 1
  BY <1>3, FS_AddElement
<1>5. Cardinality(Headers(s \o frame)) =< Cardinality(Headers(s) \cup {Len(s) + 1})
  BY <1>2, <1>4, FS_Subset
<1>6. Cardinality(Headers(s \o frame)) \in Nat
  <2>1. s \o frame \in Seq(Unit)
    BY FrameShape
  <2> QED
    BY <2>1, HeadersFinite
<1>7. Cardinality(Headers(s) \cup {Len(s) + 1}) =< Cardinality(Headers(s)) + 1
  BY <1>3, <1>4
<1> QED
  BY <1>3, <1>4, <1>5, <1>6, <1>7

(* The count as it stands in a state. *)
LEMMA Counts ==
  ASSUME IInv
  PROVE  /\ MaxFrames \in Nat /\ frames \in Nat /\ shown \in Nat
         /\ HalfRead \in {0, 1} /\ Cardinality(Headers(inbound)) \in Nat
         /\ inbound \in Seq(Unit) /\ Len(inbound) \in Nat
BY ClientAssumption, HeadersFinite DEF IInv, TypeOK, Framed, HalfRead

(* The steps that leave the stream and the reader where they are. *)
LEMMA FramedKept ==
  ASSUME IInv, UNCHANGED <<frames, inbound, last, shown, part, read>>,
         connect' = connect \/ connect' = "none" \/ connect # "none"
  PROVE  Framed'
BY DEF IInv, Framed, Alternate, HalfRead

(* do_close, called with the read as it was or with none. *)
LEMMA CloseFramed ==
  ASSUME IInv, UNCHANGED <<frames, inbound, last, shown, part>>,
         NEW r \in {read, "none"}, NEW w \in Operation, do_close(r, w)
  PROVE  Framed'
<1>1. r \in Operation
  BY DEF IInv, TypeOK, Operation
<1>2. /\ read' # "wait" /\ (read' = "ok" => read = "ok")
      /\ read = "none" => read' = "none"
      /\ connect' # "none" => connect # "none"
  BY <1>1, Closed DEF IInv
<1>3. Alternate'
  BY DEF IInv, Framed, Alternate
<1>4. HalfRead' =< HalfRead /\ HalfRead' \in {0, 1}
  BY <1>2 DEF HalfRead
<1>5. shown' + HalfRead' + Cardinality(Headers(inbound')) =< frames'
  <2>1. shown + HalfRead + Cardinality(Headers(inbound)) =< frames
    BY DEF IInv, Framed
  <2> QED
    BY <1>4, <2>1, Counts
<1> QED
  BY <1>2, <1>3, <1>5 DEF IInv, Framed

LEMMA handle_connectFramed == ASSUME IInv, handle_connect PROVE Framed'
<1>1. CASE connect = "ok"
  <2>1. /\ read' \in {"wait", "error"} /\ part' = "header" /\ connect' = "none"
        /\ UNCHANGED <<frames, inbound, last, shown>>
    BY <1>1, StartedOp DEF handle_connect, outside
  <2>2. last = "zero"
    BY <1>1 DEF IInv, Framed
  <2>3. HalfRead' = 0
    BY <2>1 DEF HalfRead
  <2>4. shown + Cardinality(Headers(inbound)) =< frames
    BY Counts DEF IInv, Framed
  <2> QED
    BY <2>1, <2>2, <2>3, <2>4, Counts DEF IInv, Framed, Alternate
<1>2. CASE connect = "error"
  BY <1>2, FramedKept DEF handle_connect, outside
<1> QED
  BY <1>1, <1>2 DEF handle_connect

LEMMA RunCloseFramed == ASSUME IInv, RunClose PROVE Framed'
<1>1. write \in Operation
  BY DEF IInv, TypeOK
<1> QED
  BY <1>1, CloseFramed DEF RunClose, outside

LEMMA handle_writeFramed == ASSUME IInv, handle_write PROVE Framed'
<1>1. CASE write = "ok"
  BY <1>1, FramedKept DEF handle_write, outside
<1>2. CASE write = "error"
  BY <1>2, CloseFramed DEF handle_write, outside, Operation
<1> QED
  BY <1>1, <1>2 DEF handle_write

LEMMA handle_read_headerFramed == ASSUME IInv, handle_read_header PROVE Framed'
<1>1. CASE read = "ok" /\ decode_header
  <2>1. /\ part = "header" /\ part' = "body"
        /\ read' = IF last = "zero" THEN "ok" ELSE Started
        /\ UNCHANGED <<frames, inbound, last, shown, connect>>
    BY <1>1 DEF handle_read_header, outside
  <2>2. HalfRead = 1 /\ HalfRead' \in {0, 1}
    BY <1>1, <2>1 DEF HalfRead
  <2>3. connect = "none" /\ last \in {"length", "zero"}
    BY <1>1 DEF IInv, Framed, decode_header
  <2>4. shown' + HalfRead' + Cardinality(Headers(inbound')) =< frames'
    <3>1. shown + 1 + Cardinality(Headers(inbound)) =< frames
      BY <2>2 DEF IInv, Framed
    <3> QED
      BY <2>1, <2>2, <3>1, Counts
  <2> QED
    BY <2>1, <2>3, <2>4, StartedOp DEF IInv, Framed, Alternate
<1>2. CASE ~(read = "ok" /\ decode_header)
  <2>1. write \in Operation
    BY DEF IInv, TypeOK
  <2> QED
    BY <1>2, <2>1, CloseFramed DEF handle_read_header, outside
<1> QED
  BY <1>1, <1>2

LEMMA handle_read_bodyFramed == ASSUME IInv, handle_read_body PROVE Framed'
<1>1. CASE read = "ok"
  <2>1. /\ part = "body" /\ part' = "header"
        /\ read' = Started /\ shown' = shown + 1
        /\ UNCHANGED <<frames, inbound, last, connect>>
    BY <1>1 DEF handle_read_body, outside
  <2>2. HalfRead = 1 /\ HalfRead' = 0
    BY <1>1, <2>1, StartedOp DEF HalfRead
  <2>3. connect = "none" /\ last \in {"body", "zero"}
    BY <1>1, <2>1 DEF IInv, Framed
  <2>4. shown' + HalfRead' + Cardinality(Headers(inbound')) =< frames'
    <3>1. shown + 1 + Cardinality(Headers(inbound)) =< frames
      BY <2>2 DEF IInv, Framed
    <3> QED
      BY <2>1, <2>2, <3>1, Counts
  <2> QED
    BY <2>1, <2>3, <2>4, StartedOp DEF IInv, Framed, Alternate
<1>2. CASE read # "ok"
  <2>1. write \in Operation
    BY DEF IInv, TypeOK
  <2> QED
    BY <1>2, <2>1, CloseFramed DEF handle_read_body, outside
<1> QED
  BY <1>1, <1>2

LEMMA ReadSucceedsFramed == ASSUME IInv, ReadSucceeds PROVE Framed'
<1>1. /\ read = "wait" /\ read' = "ok" /\ inbound # <<>>
      /\ last' = Head(inbound) /\ inbound' = Tail(inbound)
      /\ UNCHANGED <<frames, shown, part, connect>>
  BY DEF ReadSucceeds, io
<1>2. /\ Len(inbound) \in Nat \ {0} /\ last' = inbound[1]
      /\ inbound' \in Seq(Unit) /\ Len(inbound') = Len(inbound) - 1
      /\ \A i \in 1..Len(inbound) - 1 : inbound'[i] = inbound[i + 1]
  BY <1>1, NotEmpty, Counts
<1>3. inbound' = <<>> <=> Len(inbound') = 0
  BY <1>2, EmptySeq
<1>4. /\ inbound[1] = "body" <=> last = "length"
      /\ \A i \in 2..Len(inbound) : inbound[i] = "body" <=> inbound[i - 1] = "length"
      /\ inbound[Len(inbound)] # "length"
  BY <1>1, <1>2 DEF IInv, Framed, Alternate
<1>5. Alternate'
  <2>1. \A i \in 1..Len(inbound') :
          inbound'[i] = "body" <=> (IF i = 1 THEN last' ELSE inbound'[i - 1]) = "length"
    <3> SUFFICES ASSUME NEW i \in 1..Len(inbound')
                 PROVE  inbound'[i] = "body"
                          <=> (IF i = 1 THEN last' ELSE inbound'[i - 1]) = "length"
      OBVIOUS
    <3>1. i + 1 \in 2..Len(inbound) /\ inbound'[i] = inbound[i + 1]
      BY <1>2
    <3>2. inbound[i + 1] = "body" <=> inbound[i] = "length"
      BY <1>4, <3>1
    <3>3. i # 1 => inbound'[i - 1] = inbound[i]
      BY <1>2
    <3> QED
      BY <1>2, <3>1, <3>2, <3>3
  <2>2. (IF inbound' = <<>> THEN last' ELSE inbound'[Len(inbound')]) # "length"
    BY <1>2, <1>3, <1>4
  <2> QED
    BY <2>1, <2>2 DEF Alternate
<1>6. part = "body" <=> last = "length"
  BY <1>1 DEF IInv, Framed
<1>7. IF part = "header" THEN last' # "body" ELSE last' \in {"body", "zero"}
  BY <1>2, <1>4, <1>6 DEF IInv, TypeOK
<1>8. HalfRead' = 1 /\ HalfRead = (IF last' = "body" THEN 1 ELSE 0)
  BY <1>1, <1>2, <1>4, <1>6 DEF HalfRead, IInv, TypeOK
<1>9. shown' + HalfRead' + Cardinality(Headers(inbound')) =< frames'
  <2>1. Cardinality(Headers(inbound')) + (IF last' = "body" THEN 0 ELSE 1)
          =< Cardinality(Headers(inbound))
    BY <1>1, HeadersTail, Counts
  <2>2. shown + HalfRead + Cardinality(Headers(inbound)) =< frames
    BY DEF IInv, Framed
  <2>3. Cardinality(Headers(inbound')) \in Nat
    BY <1>2, HeadersFinite
  <2> QED
    BY <1>1, <1>8, <2>1, <2>2, <2>3, Counts
<1>10. connect' = "none"
  BY <1>1 DEF IInv, Framed
<1> QED
  BY <1>1, <1>5, <1>7, <1>9, <1>10 DEF IInv, Framed

LEMMA ServerSendsFramed == ASSUME IInv, ServerSends PROVE Framed'
<1>1. /\ frames < MaxFrames /\ frames' = frames + 1
      /\ UNCHANGED <<read, part, last, shown, connect>>
  BY DEF ServerSends, io, in
<1>2. PICK frame \in Frame : inbound' = inbound \o frame
  BY DEF ServerSends, Frame
<1>3. /\ Len(inbound') = Len(inbound) + Len(frame) /\ Len(frame) \in {1, 2} /\ Len(inbound) \in Nat
      /\ \A i \in 1..Len(inbound) : inbound'[i] = inbound[i]
      /\ inbound'[Len(inbound) + 1] = frame[1]
      /\ Len(frame) = 2 => inbound'[Len(inbound) + 2] = frame[2]
  BY <1>2, FrameShape, Counts
<1>4. frame[1] # "body" /\ (frame[1] = "length" <=> Len(frame) = 2)
      /\ (Len(frame) = 2 => frame[2] = "body")
  BY FrameShape
<1>5. inbound' # <<>>
  BY <1>3
<1>6. Alternate'
  <2>1. \A i \in 1..Len(inbound') :
          inbound'[i] = "body" <=> (IF i = 1 THEN last' ELSE inbound'[i - 1]) = "length"
    <3> SUFFICES ASSUME NEW i \in 1..Len(inbound')
                 PROVE  inbound'[i] = "body"
                          <=> (IF i = 1 THEN last' ELSE inbound'[i - 1]) = "length"
      OBVIOUS
    <3>1. CASE i \in 1..Len(inbound)
      <4>1. inbound[i] = "body" <=> (IF i = 1 THEN last ELSE inbound[i - 1]) = "length"
        BY <3>1 DEF IInv, Framed, Alternate
      <4>2. i # 1 => i - 1 \in 1..Len(inbound)
        BY <1>3, <3>1
      <4> QED
        BY <1>1, <1>3, <3>1, <4>1, <4>2
    <3>2. CASE i = Len(inbound) + 1
      <4>1. (IF i = 1 THEN last' ELSE inbound'[i - 1]) # "length"
        <5>1. CASE Len(inbound) = 0
          <6>1. inbound = <<>>
            BY <5>1, Counts, EmptySeq
          <6> QED
            BY <1>1, <3>2, <5>1, <6>1 DEF IInv, Framed, Alternate
        <5>2. CASE Len(inbound) # 0
          <6>1. inbound # <<>> /\ Len(inbound) \in 1..Len(inbound) /\ i - 1 = Len(inbound) /\ i # 1
            BY <1>3, <3>2, <5>2
          <6>2. inbound[Len(inbound)] # "length"
            BY <6>1 DEF IInv, Framed, Alternate
          <6> QED
            BY <1>3, <6>1, <6>2
        <5> QED
          BY <5>1, <5>2
      <4> QED
        BY <1>3, <1>4, <3>2, <4>1
    <3>3. CASE i = Len(inbound) + 2
      <4>1. Len(frame) = 2 /\ i # 1 /\ i - 1 = Len(inbound) + 1
        BY <1>3, <3>3
      <4> QED
        BY <1>3, <1>4, <3>3, <4>1
    <3>4. i \in 1..Len(inbound) \/ i = Len(inbound) + 1 \/ i = Len(inbound) + 2
      <4>1. CASE Len(inbound') = Len(inbound) + 1
        BY <1>3, <4>1
      <4>2. CASE Len(inbound') = Len(inbound) + 2
        BY <1>3, <4>2
      <4> QED
        BY <1>3, <4>1, <4>2
    <3> QED
      BY <3>1, <3>2, <3>3, <3>4
  <2>2. inbound'[Len(inbound')] # "length"
    BY <1>3, <1>4
  <2> QED
    BY <1>5, <2>1, <2>2 DEF Alternate
<1>7. HalfRead' = HalfRead
  BY <1>1 DEF HalfRead
<1>8. shown' + HalfRead' + Cardinality(Headers(inbound')) =< frames'
  <2>1. Cardinality(Headers(inbound')) =< Cardinality(Headers(inbound)) + 1
    BY <1>2, HeadersSent, Counts
  <2>2. shown + HalfRead + Cardinality(Headers(inbound)) =< frames
    BY DEF IInv, Framed
  <2>3. inbound' \in Seq(Unit)
    BY <1>2, FrameShape, Counts
  <2>4. Cardinality(Headers(inbound')) \in Nat
    BY <2>3, HeadersFinite
  <2> QED
    BY <1>1, <1>7, <2>1, <2>2, <2>4, Counts
<1> QED
  BY <1>1, <1>6, <1>8, Counts DEF IInv, Framed

LEMMA FramedStep == ASSUME IInv, [Next]_vars PROVE Framed'
<1> USE DEF in, out, io, outside
<1>1. CASE TypesLine
  BY <1>1, FramedKept DEF TypesLine
<1>2. CASE InputEnds
  BY <1>2, FramedKept DEF InputEnds
<1>3. CASE Joined
  BY <1>3, FramedKept DEF Joined
<1>4. CASE handle_connect
  BY <1>4, handle_connectFramed
<1>5. CASE do_write
  BY <1>5, FramedKept DEF do_write
<1>6. CASE RunClose
  BY <1>6, RunCloseFramed
<1>7. CASE handle_write
  BY <1>7, handle_writeFramed
<1>8. CASE handle_read_header
  BY <1>8, handle_read_headerFramed
<1>9. CASE handle_read_body
  BY <1>9, handle_read_bodyFramed
<1>10. CASE RunReturns
  BY <1>10, FramedKept DEF RunReturns
<1>11. CASE Connects
  BY <1>11, FramedKept DEF Connects
<1>12. CASE WriteSucceeds
  BY <1>12, FramedKept DEF WriteSucceeds
<1>13. CASE WriteFails
  BY <1>13, FramedKept DEF WriteFails
<1>14. CASE ReadSucceeds
  BY <1>14, ReadSucceedsFramed
<1>15. CASE ReadFails
  <2>1. HalfRead' =< HalfRead /\ HalfRead' \in {0, 1}
    BY <1>15 DEF ReadFails, HalfRead
  <2>2. shown + HalfRead + Cardinality(Headers(inbound)) =< frames
    BY DEF IInv, Framed
  <2>3. shown' + HalfRead' + Cardinality(Headers(inbound')) =< frames'
    BY <1>15, <2>1, <2>2, Counts DEF ReadFails
  <2> QED
    BY <1>15, <2>3 DEF ReadFails, IInv, Framed, Alternate
<1>16. CASE ServerSends
  BY <1>16, ServerSendsFramed
<1>17. CASE ServerGoes
  BY <1>17, FramedKept DEF ServerGoes
<1>18. CASE UNCHANGED vars
  BY <1>18, FramedKept DEF vars
<1> QED
  BY <1>1, <1>2, <1>3, <1>4, <1>5, <1>6, <1>7, <1>8, <1>9, <1>10, <1>11, <1>12, <1>13,
     <1>14, <1>15, <1>16, <1>17, <1>18 DEF Next, IoThread

-----------------------------------------------------------------------------
(* Types *)

LEMMA TypeStep == ASSUME IInv, [Next]_vars PROVE TypeOK'
<1> USE DEF in, out, io, outside
<1>1. TypeOK /\ MaxLines \in Nat /\ MaxFrames \in Nat
  BY ClientAssumption DEF IInv
<1>2. CASE TypesLine
  <2>1. posted' \in Seq(0..MaxLines)
    BY <1>1, <1>2 DEF TypesLine, TypeOK
  <2> QED
    BY <1>1, <1>2, <2>1 DEF TypesLine, TypeOK
<1>3. CASE InputEnds
  <2>1. posted' \in Seq(0..MaxLines)
    BY <1>1, <1>3 DEF InputEnds, TypeOK, DoClose
  <2> QED
    BY <1>1, <1>3, <2>1 DEF InputEnds, TypeOK
<1>4. CASE Joined
  BY <1>1, <1>4 DEF Joined, TypeOK
<1>5. CASE handle_connect
  BY <1>1, <1>5, StartedOp DEF handle_connect, TypeOK, Operation
<1>6. CASE do_write
  <2>1. posted' \in Seq(0..MaxLines) /\ Head(posted) \in 1..MaxLines
    BY <1>1, <1>6, NotEmpty DEF do_write, TypeOK, DoClose
  <2>2. write_msgs_' \in Seq(1..MaxLines)
    BY <1>1, <1>6, <2>1 DEF do_write, TypeOK
  <2>3. write' \in Operation
    BY <1>1, <1>6, StartedOp DEF do_write, TypeOK, Operation
  <2> QED
    BY <1>1, <1>6, <2>1, <2>2, <2>3 DEF do_write, TypeOK
<1>7. CASE RunClose
  <2>1. posted' \in Seq(0..MaxLines)
    BY <1>1, <1>7, NotEmpty DEF RunClose, TypeOK
  <2>2. {connect', write', read'} \subseteq Operation /\ socket' = "closed"
    BY <1>1, <1>7, Closed DEF RunClose, TypeOK
  <2> QED
    BY <1>1, <1>7, <2>1, <2>2 DEF RunClose, TypeOK
<1>8. CASE handle_write
  <2>1. write_msgs_ # <<>>
    BY <1>8 DEF handle_write, IInv, Queued
  <2>2. write_msgs_' \in Seq(1..MaxLines)
    BY <1>1, <1>8, <2>1, NotEmpty DEF handle_write, TypeOK
  <2>3. {connect', write', read'} \subseteq Operation /\ socket' \in {"open", "closed"}
    <3>1. CASE write = "ok"
      BY <1>1, <1>8, <3>1, StartedOp DEF handle_write, TypeOK, Operation
    <3>2. CASE write # "ok"
      <4>1. "none" \in Operation /\ do_close(read, "none")
        BY <1>8, <3>2 DEF handle_write, Operation
      <4> QED
        BY <1>1, <4>1, Closed DEF TypeOK
    <3> QED
      BY <3>1, <3>2
  <2> QED
    BY <1>1, <1>8, <2>2, <2>3 DEF handle_write, TypeOK
<1>9. CASE handle_read_header
  <2>1. {connect', write', read'} \subseteq Operation /\ socket' \in {"open", "closed"}
    <3>1. CASE read = "ok" /\ decode_header
      BY <1>1, <1>9, <3>1, StartedOp DEF handle_read_header, TypeOK, Operation
    <3>2. CASE ~(read = "ok" /\ decode_header)
      <4>1. "none" \in Operation /\ do_close("none", write)
        BY <1>9, <3>2 DEF handle_read_header, Operation
      <4> QED
        BY <1>1, <4>1, Closed DEF TypeOK
    <3> QED
      BY <3>1, <3>2
  <2> QED
    BY <1>1, <1>9, <2>1 DEF handle_read_header, TypeOK
<1>10. CASE handle_read_body
  <2>1. {connect', write', read'} \subseteq Operation /\ socket' \in {"open", "closed"}
    <3>1. CASE read = "ok"
      BY <1>1, <1>10, <3>1, StartedOp DEF handle_read_body, TypeOK, Operation
    <3>2. CASE read # "ok"
      <4>1. "none" \in Operation /\ do_close("none", write)
        BY <1>10, <3>2 DEF handle_read_body, Operation
      <4> QED
        BY <1>1, <4>1, Closed DEF TypeOK
    <3> QED
      BY <3>1, <3>2
  <2>2. shown' \in 0..MaxFrames
    <3>1. Framed'
      BY <1>10, handle_read_bodyFramed
    <3>2. HalfRead' \in {0, 1} /\ Cardinality(Headers(inbound')) \in Nat /\ shown' \in Nat
      BY <1>10, Counts DEF handle_read_body, HalfRead
    <3> QED
      BY <1>1, <3>1, <3>2 DEF Framed
  <2> QED
    BY <1>1, <1>10, <2>1, <2>2 DEF handle_read_body, TypeOK
<1>11. CASE RunReturns
  BY <1>1, <1>11 DEF RunReturns, TypeOK
<1>12. CASE Connects
  BY <1>1, <1>12 DEF Connects, TypeOK, Operation
<1>13. CASE WriteSucceeds
  <2>1. write_msgs_ # <<>>
    BY <1>13 DEF WriteSucceeds, IInv, Queued
  <2>2. Head(write_msgs_) \in 1..MaxLines
    BY <1>1, <2>1, NotEmpty DEF TypeOK
  <2>3. delivered' \in Seq(1..MaxLines)
    BY <1>1, <1>13, <2>2 DEF WriteSucceeds, TypeOK
  <2> QED
    BY <1>1, <1>13, <2>3 DEF WriteSucceeds, TypeOK, Operation
<1>14. CASE WriteFails
  BY <1>1, <1>14 DEF WriteFails, TypeOK, Operation
<1>15. CASE ReadSucceeds
  <2>1. last' \in Unit /\ inbound' \in Seq(Unit)
    BY <1>1, <1>15, NotEmpty DEF ReadSucceeds, TypeOK
  <2> QED
    BY <1>1, <1>15, <2>1 DEF ReadSucceeds, TypeOK, Operation
<1>16. CASE ReadFails
  BY <1>1, <1>16 DEF ReadFails, TypeOK, Operation
<1>17. CASE ServerSends
  <2>1. inbound' \in Seq(Unit)
    <3>1. PICK frame \in Frame : inbound' = inbound \o frame
      BY <1>17 DEF ServerSends, Frame
    <3>2. frame \in Seq(Unit) /\ inbound \in Seq(Unit)
      BY <1>1, FrameShape DEF TypeOK
    <3> QED
      BY <3>1, <3>2
  <2> QED
    BY <1>1, <1>17, <2>1 DEF ServerSends, TypeOK
<1>18. CASE ServerGoes
  BY <1>1, <1>18 DEF ServerGoes, TypeOK
<1>19. CASE UNCHANGED vars
  BY <1>1, <1>19 DEF vars, TypeOK
<1> QED
  BY <1>2, <1>3, <1>4, <1>5, <1>6, <1>7, <1>8, <1>9, <1>10, <1>11, <1>12, <1>13,
     <1>14, <1>15, <1>16, <1>17, <1>18, <1>19 DEF Next, IoThread

-----------------------------------------------------------------------------
(* The theorems *)

LEMMA InitInv == Init => IInv
<1> SUFFICES ASSUME Init PROVE IInv
  OBVIOUS
<1>1. TypeOK
  BY ClientAssumption DEF Init, TypeOK, Operation, Unit
<1>2. Queued
  BY DEF Init, Queued, Popped, ClosePosted
<1>3. Headers(inbound) = {}
  BY DEF Init, Headers
<1>4. Framed
  BY <1>3, FS_EmptySet, ClientAssumption DEF Init, Framed, Alternate, HalfRead
<1> QED
  BY <1>1, <1>2, <1>4 DEF IInv

(* The strengthening holds in every state the client reaches. *)
THEOREM ClientInvariant == Spec => []IInv
<1>1. IInv /\ [Next]_vars => IInv'
  BY TypeStep, QueuedStep, FramedStep DEF IInv
<1> QED
  BY InitInv, <1>1, PTL DEF Spec

(* Type correctness of the client's two threads; in particular no more     *)
(* frames are shown than the server sent, and the queues hold lines only.  *)
THEOREM ClientTypeOK == Spec => []TypeOK
<1>1. IInv => TypeOK
  BY DEF IInv
<1> QED
  BY <1>1, ClientInvariant, PTL

(* write and handle_write: what the socket has taken is the lines typed, in *)
(* order, each once, up to some line.                                       *)
THEOREM LinesInOrder == Spec => []DeliveredInOrder
<1>1. ASSUME IInv PROVE DeliveredInOrder
  <2>1. Len(delivered) =< typed
    <3>1. Len(delivered) =< Popped + 1 /\ (write = "ok" => Len(write_msgs_) > 0)
      BY <1>1, Lines, NotEmpty DEF Popped, IInv, Queued
    <3>2. CASE write = "ok"
      BY <1>1, <3>1, <3>2, Lines, CloseIsLast DEF IInv, Queued
    <3>3. CASE write # "ok"
      BY <1>1, <3>3, Lines, CloseIsLast DEF IInv, Queued, Popped
    <3> QED
      BY <3>2, <3>3
  <2>2. Typed \in Seq(Int) /\ Len(Typed) = typed /\ \A i \in 1..typed : Typed[i] = i
    BY <1>1, Lines DEF Typed
  <2>3. SubSeq(delivered, 1, Len(delivered)) = SubSeq(Typed, 1, Len(delivered))
    <3> DEFINE n == Len(delivered)
               d == SubSeq(delivered, 1, n)
               t == SubSeq(Typed, 1, n)
    <3>1. n \in Nat /\ n =< typed /\ typed \in Nat /\ \A i \in 1..n : delivered[i] = i
      BY <1>1, <2>1, Lines DEF IInv, Queued
    <3> HIDE DEF n
    <3>2. d \in Seq(Int) /\ Len(d) = n /\ \A i \in 1..n : d[i] = i
      BY <3>1, SubSeqProperties
    <3>3. t \in Seq(Int) /\ Len(t) = n /\ \A i \in 1..n : t[i] = i
      BY <2>2, <3>1, SubSeqProperties
    <3>4. d = t
      <4> HIDE DEF d, t
      <4> QED
        BY <3>1, <3>2, <3>3, SeqEqual
    <3> QED
      BY <3>4 DEF n
  <2> QED
    BY <2>1, <2>2, <2>3 DEF DeliveredInOrder, IsPrefix
<1> QED
  BY <1>1, ClientInvariant, PTL

(* do_write and handle_write: one write is under way at a time, and of the  *)
(* message at the head of the queue, which stays there until it is done.    *)
THEOREM BufferIsAlive == Spec => []BufferAlive
<1>1. ASSUME IInv PROVE BufferAlive
  <2>1. CASE write = "wait"
    BY <1>1, <2>1, Lines, NotEmpty DEF IInv, Queued, Popped, BufferAlive
  <2>2. CASE write = "ok"
    <3>1. write_msgs_ # <<>> /\ Head(write_msgs_) = Popped + 1
      BY <1>1, <2>2, Lines, NotEmpty DEF IInv, Queued
    <3>2. Len(delivered) = Popped + 1 /\ Len(delivered) \in 1..Len(delivered)
      BY <1>1, <2>2, Lines DEF Popped
    <3>3. Last(delivered) = Len(delivered)
      BY <1>1, <3>2 DEF IInv, Queued, Last
    <3> QED
      BY <2>2, <3>1, <3>2, <3>3 DEF BufferAlive
  <2>3. CASE write \notin {"wait", "ok"}
    BY <2>3 DEF BufferAlive
  <2> QED
    BY <2>1, <2>2, <2>3
<1> QED
  BY <1>1, ClientInvariant, PTL

(* handle_read_header and handle_read_body: a header is read where the     *)
(* server wrote one, whatever mixture of empty, full and bad frames comes. *)
THEOREM FramesInStep == Spec => []InStep
<1>1. ASSUME IInv PROVE InStep
  BY <1>1 DEF IInv, TypeOK, Framed, InStep
<1> QED
  BY <1>1, ClientInvariant, PTL
=============================================================================
