-------------------------- MODULE TelnetIO_proofs --------------------------
(***************************************************************************)
(* For any timeout and any number of chunks and calls: the two threads     *)
(* lose no text and leave no read behind, and SendData returns early only  *)
(* when its write is done.                                                 *)
(*                                                                         *)
(* The strengthening says what ReadUntil relies on: it posts one read, so  *)
(* that in one call a single chunk is on its way, and is at any time in    *)
(* one place only: asked for, parsed, in the list, or taken out of it      *)
(* (OneChunk).  For SendData it is the count of its own write (OneWrite).  *)
(***************************************************************************)
EXTENDS TelnetIO, SequenceTheorems, TLAPS

(* Where the chunk of a ReadUntil is. *)
Nowhere == posted = 0 /\ parsed = None /\ responseList = <<>> /\ response = <<>>

AskedFor ==
    posted = 1 /\ parsed = None /\ responseList = <<>> /\ response = <<>> /\ ~asyncError

Parsed == \E t \in Text :
    posted = 0 /\ parsed = t /\ responseList = <<>> /\ response = <<>> /\ ~asyncError

Listed == \E t \in Text :
    posted = 0 /\ parsed = None /\ responseList = <<t>> /\ response = <<>> /\ ~asyncError

Taken == \E t \in Text :
    posted = 0 /\ parsed = None /\ responseList = <<>> /\ response = <<t>> /\ ~asyncError

OneChunk ==
    /\ pc \in Reading =>
         /\ Nowhere \/ AskedFor \/ Parsed \/ Listed \/ Taken
         /\ timeCounter = Len(response)
    /\ pc \in {"idle", "sending"} => response = <<>>
    /\ NoReadLeft

(* The mutex is the application's in the body of the loop. *)
Exclusion == mutex = "application" <=> pc = "locked"

OneWrite ==
    /\ calls \in 0..MaxCalls /\ writes =< calls
    /\ pc \in Reading \cup {"sending"} => timeCounter < Timeout
    /\ pc = "sending" => ~asyncError
    /\ ~timedOut =>
         writes = IF pc = "sending" /\ ~sendComplete THEN 1 ELSE 0

IInv == TypeOK /\ Exclusion /\ OneChunk /\ OneWrite /\ InOrder

-----------------------------------------------------------------------------
(* Sequences *)

LEMMA Concat ==
  ASSUME NEW a \in Seq(Text)
  PROVE  a \o <<>> = a /\ <<>> \o a = a
BY ConcatEmptySeq

LEMMA ConcatText ==
  ASSUME NEW a \in Seq(Text), NEW b \in Seq(Text), NEW c \in Seq(Text)
  PROVE  a \o (b \o c) = (a \o b) \o c
<1>1. (a \o b) \o c = a \o (b \o c)
  BY ConcatAssociative
<1> QED
  BY <1>1

LEMMA OneText ==
  ASSUME NEW t \in Text
  PROVE  /\ <<t>> \in Seq(Text) /\ <<t>> # <<>> /\ Len(<<t>>) = 1
         /\ Head(<<t>>) = t /\ Tail(<<t>>) = <<>> /\ Append(<<>>, t) = <<t>>
         /\ <<>> \o <<t>> = <<t>> /\ t # None
<1>1. <<t>> \in Seq(Text) /\ <<t>> # <<>> /\ Len(<<t>>) = 1 /\ Head(<<t>>) = t
  OBVIOUS
<1>2. Tail(<<t>>) \in Seq(Text) /\ Len(Tail(<<t>>)) = 0
  BY <1>1, HeadTailProperties
<1>3. Tail(<<t>>) = <<>>
  BY <1>2, EmptySeq
<1>4. <<>> \in Seq(Text) /\ Append(<<>>, t) = <<>> \o <<t>>
  BY EmptySeq, AppendIsConcat
<1>5. <<>> \o <<t>> = <<t>>
  BY <1>1, Concat
<1>6. t # None
  BY DEF Text, None
<1> QED
  BY <1>1, <1>3, <1>4, <1>5, <1>6

LEMMA Types ==
  ASSUME IInv
  PROVE  /\ {response, responseList, taken, returned} \subseteq Seq(Text)
         /\ Timeout \in Nat \ {0} /\ MaxCalls \in Nat
         /\ timeCounter \in Nat /\ writes \in Nat /\ calls \in Nat
         /\ returned \o response \in Seq(Text)
<1>1. {response, responseList, taken, returned} \subseteq Seq(Text)
  BY DEF IInv, TypeOK
<1> QED
  BY <1>1, IOAssumption DEF IInv, TypeOK, OneWrite

(* What InOrder says where nothing lies between the threads. *)
LEMMA OrderQuiet ==
  ASSUME IInv, responseList = <<>>, parsed = None, ~threw
  PROVE  taken = returned \o response
BY Types, Concat DEF IInv, InOrder

(* And how it follows from there again. *)
LEMMA OrderKept ==
  ASSUME {response', responseList', taken', returned'} \subseteq Seq(Text),
         \/ threw'
         \/ /\ responseList' = <<>> /\ parsed' = None
            /\ taken' = returned' \o response'
         \/ /\ response' = <<>> /\ parsed' = None
            /\ taken' = returned' \o responseList'
         \/ /\ response' = <<>> /\ responseList' = <<>> /\ parsed' # None
            /\ taken' = Append(returned', parsed') /\ parsed' \in Text
  PROVE  InOrder'
<1>1. CASE threw'
  BY <1>1 DEF InOrder
<1>2. CASE responseList' = <<>> /\ parsed' = None /\ taken' = returned' \o response'
  BY <1>2, Concat DEF InOrder
<1>3. CASE response' = <<>> /\ parsed' = None /\ taken' = returned' \o responseList'
  <2>1. returned' \o <<>> = returned' /\ taken' \o <<>> = taken'
    BY Concat
  <2> QED
    BY <1>3, <2>1 DEF InOrder
<1>4. CASE /\ response' = <<>> /\ responseList' = <<>> /\ parsed' # None
           /\ taken' = Append(returned', parsed') /\ parsed' \in Text
  <2>1. returned' \o <<>> = returned'
    BY Concat
  <2>2. returned' \o <<parsed'>> = Append(returned', parsed')
    BY <1>4, AppendIsConcat
  <2> QED
    BY <1>4, <2>1, <2>2 DEF InOrder
<1> QED
  BY <1>1, <1>2, <1>3, <1>4

(* The sequences InOrder is made of do not move. *)
LEMMA OrderUnchanged ==
  ASSUME IInv, UNCHANGED <<response, responseList, taken, returned, parsed, threw>>
  PROVE  InOrder'
BY DEF IInv, InOrder

-----------------------------------------------------------------------------
(* The application's thread. *)

LEMMA ReadUntilInv == ASSUME IInv, ReadUntil PROVE IInv'
<1> USE DEF Called, shared, net, history
<1>1. posted = 0 /\ responseList = <<>> /\ parsed = None
  BY DEF ReadUntil, IInv, OneChunk, NoReadLeft, Reading
<1>2. TypeOK'
  <2>1. posted' = 1 /\ timeCounter' \in 0..Timeout /\ response' \in Seq(Text)
    BY <1>1, Types, EmptySeq DEF ReadUntil
  <2> QED
    BY <2>1 DEF ReadUntil, IInv, TypeOK, Reading
<1>3. OneChunk'
  BY <1>1 DEF ReadUntil, OneChunk, NoReadLeft, Reading, AskedFor
<1>4. OneWrite'
  BY Types DEF ReadUntil, IInv, OneWrite, Reading
<1>5. Exclusion'
  BY DEF ReadUntil, IInv, Exclusion
<1>6. InOrder'
  BY OrderUnchanged DEF ReadUntil, IInv, OneChunk
<1> QED
  BY <1>2, <1>3, <1>4, <1>5, <1>6 DEF IInv

LEMMA ThrowsInOrder == ASSUME Throw PROVE InOrder'
BY DEF Throw, InOrder

LEMMA PollInv == ASSUME IInv, Poll PROVE IInv'
<1> USE DEF shared, net
<1>1. CASE asyncError
  <2>1. Nowhere
    BY <1>1 DEF Poll, IInv, OneChunk, Reading, AskedFor, Parsed, Listed, Taken
  <2>2. TypeOK'
    BY <1>1, EmptySeq DEF Poll, Throw, IInv, TypeOK
  <2>3. OneChunk' /\ Exclusion' /\ OneWrite'
    BY <1>1, <2>1 DEF Poll, Throw, IInv, OneChunk, NoReadLeft, Nowhere, Reading, Exclusion, OneWrite
  <2> QED
    BY <1>1, <2>2, <2>3, ThrowsInOrder DEF Poll, IInv
<1>2. CASE ~asyncError
  <2>1. TypeOK'
    BY <1>2 DEF Poll, IInv, TypeOK, Reading
  <2>2. OneChunk' /\ Exclusion' /\ OneWrite'
    BY <1>2 DEF Poll, IInv, OneChunk, NoReadLeft, Nowhere, AskedFor, Parsed, Listed, Taken,
                Reading, Exclusion, OneWrite
  <2> QED
    BY <1>2, <2>1, <2>2, OrderUnchanged DEF Poll, IInv
<1> QED
  BY <1>1, <1>2

LEMMA LockInv == ASSUME IInv, Lock PROVE IInv'
<1> USE DEF net, history
<1>1. TypeOK'
  BY DEF Lock, IInv, TypeOK, Reading
<1>2. OneChunk' /\ Exclusion' /\ OneWrite'
  BY DEF Lock, IInv, OneChunk, NoReadLeft, Nowhere, AskedFor, Parsed, Listed, Taken,
         Reading, Exclusion, OneWrite
<1> QED
  BY <1>1, <1>2, OrderUnchanged DEF Lock, IInv

(* The list is empty, or it has the call's chunk and nothing else is under *)
(* way, so that the text a call returns is that chunk.                      *)
LEMMA LockedInv == ASSUME IInv, Locked PROVE IInv'
<1> USE DEF net
<1>1. CASE responseList = <<>>
  <2>1. /\ mutex' = "free" /\ pc = "locked" /\ pc' = "poll"
        /\ UNCHANGED <<response, timeCounter, responseList, returned, asyncError, sendComplete,
                       posted, writes, parsed, net, taken, threw, timedOut, calls>>
    BY <1>1 DEF Locked
  <2>2. TypeOK'
    BY <2>1 DEF IInv, TypeOK, Reading
  <2>3. OneChunk' /\ Exclusion' /\ OneWrite'
    BY <2>1 DEF IInv, OneChunk, NoReadLeft, Nowhere, AskedFor, Parsed, Listed, Taken,
                Reading, Exclusion, OneWrite
  <2> QED
    BY <2>1, <2>2, <2>3, OrderUnchanged DEF IInv
<1>2. CASE responseList # <<>>
  <2>1. PICK t \in Text : /\ posted = 0 /\ parsed = None /\ responseList = <<t>>
                          /\ response = <<>> /\ ~asyncError
    BY <1>2 DEF Locked, IInv, OneChunk, Nowhere, AskedFor, Parsed, Listed, Taken, Reading
  <2>2. timeCounter = 0
    BY <2>1 DEF Locked, IInv, OneChunk, Reading
  <2>3. /\ responseList' = <<>> /\ mutex' = "free"
        /\ UNCHANGED <<asyncError, sendComplete, posted, writes, parsed, net,
                       taken, threw, timedOut, calls>>
    BY <1>2, <2>1, OneText DEF Locked
  <2>4. \/ /\ pc' = "idle" /\ returned' = returned \o <<t>> /\ response' = <<>>
           /\ timeCounter' \in {0, 1}
        \/ /\ pc' = "poll" /\ returned' = returned /\ response' = <<t>>
           /\ timeCounter' = 1 /\ 1 < Timeout
    BY <1>2, <2>1, <2>2, OneText, Types DEF Locked, Return
  <2>5. {response', responseList', returned'} \subseteq Seq(Text)
    <3>1. <<>> \in Seq(Text) /\ <<t>> \in Seq(Text) /\ returned \in Seq(Text)
      BY OneText, Types, EmptySeq
    <3>2. returned \o <<t>> \in Seq(Text)
      BY <3>1, ConcatProperties
    <3> QED
      BY <2>3, <2>4, <3>1, <3>2
  <2>6. TypeOK'
    BY <2>3, <2>4, <2>5, Types DEF IInv, TypeOK, Reading
  <2>7. OneChunk'
    BY <2>1, <2>3, <2>4, OneText DEF OneChunk, NoReadLeft, Taken, Reading
  <2>8. Exclusion' /\ OneWrite'
    BY <2>3, <2>4, Types DEF Locked, IInv, Exclusion, OneWrite, Reading
  <2>9. ~threw => taken = returned \o <<t>>
    <3>1. returned \o <<>> = returned
      BY Types, Concat
    <3>2. returned \o <<t>> \in Seq(Text)
      BY Types, OneText
    <3>3. (returned \o <<t>>) \o <<>> = returned \o <<t>>
      BY <3>2, Concat
    <3> QED
      BY <2>1, <3>1, <3>3 DEF IInv, InOrder
  <2>10. (returned \o <<t>>) \o <<>> = returned \o <<t>>
    BY Types, OneText, Concat
  <2>11. threw' \/ taken' = returned' \o response'
    BY <2>3, <2>4, <2>9, <2>10
  <2>12. taken' \in Seq(Text)
    BY <2>3, Types
  <2>13. InOrder'
    BY <2>1, <2>3, <2>5, <2>11, <2>12, OrderKept
  <2> QED
    BY <2>6, <2>7, <2>8, <2>13 DEF IInv
<1> QED
  BY <1>1, <1>2

LEMMA ReadUntilSyncInv == ASSUME IInv, ReadUntilSync PROVE IInv'
<1> USE DEF Called, shared, net, history
<1>1. TypeOK'
  BY EmptySeq DEF ReadUntilSync, IInv, TypeOK
<1>2. OneChunk' /\ Exclusion' /\ OneWrite'
  BY Types DEF ReadUntilSync, IInv, OneChunk, NoReadLeft, Reading, Exclusion, OneWrite
<1>3. InOrder'
  BY OrderUnchanged DEF ReadUntilSync, IInv, OneChunk
<1> QED
  BY <1>1, <1>2, <1>3 DEF IInv

LEMMA TextOfChunk ==
  ASSUME IInv, inbound # <<>>
  PROVE  /\ Head(inbound) \in Chunk /\ Tail(inbound) \in Seq(Chunk)
         /\ TextOf(Head(inbound)) \in Seq(Text)
         /\ Head(inbound) \in Text => TextOf(Head(inbound)) = <<Head(inbound)>>
         /\ Head(inbound) \notin Text => TextOf(Head(inbound)) = <<>>
<1>1. inbound \in Seq(Chunk)
  BY DEF IInv, TypeOK
<1> QED
  BY <1>1, HeadTailProperties DEF TextOf

LEMMA ReadSomeInv == ASSUME IInv, ReadSome PROVE IInv'
<1> USE DEF shared
<1>1. posted = 0 /\ responseList = <<>> /\ parsed = None /\ pc = "sync"
  BY DEF ReadSome, IInv, OneChunk, NoReadLeft, Reading
<1>2. CASE inbound # <<>> /\ inbound' = Tail(inbound)
  <2> DEFINE x == TextOf(Head(inbound))
  <2>1. /\ taken' = taken \o x
        /\ \/ pc' = "idle" /\ returned' = returned \o (response \o x) /\ response' = <<>>
           \/ response' = response \o x /\ UNCHANGED <<pc, returned>>
        /\ UNCHANGED <<threw, timeCounter, mutex, responseList, asyncError, sendComplete, posted,
                       writes, parsed, closed, chunks, timedOut, calls>>
    BY <1>1, <1>2 DEF ReadSome, Return, Throw
  <2>2. x \in Seq(Text) /\ Tail(inbound) \in Seq(Chunk)
    BY <1>2, TextOfChunk
  <2> HIDE DEF x
  <2>3. /\ response \in Seq(Text) /\ returned \in Seq(Text) /\ taken \in Seq(Text)
        /\ response \o x \in Seq(Text) /\ taken \o x \in Seq(Text)
        /\ returned \o (response \o x) \in Seq(Text)
        /\ returned \o (response \o x) = (returned \o response) \o x
    <3>1. response \in Seq(Text) /\ returned \in Seq(Text) /\ taken \in Seq(Text)
      BY Types
    <3>2. response \o x \in Seq(Text) /\ taken \o x \in Seq(Text)
      BY <2>2, <3>1, ConcatProperties
    <3>3. returned \o (response \o x) \in Seq(Text)
      BY <3>1, <3>2, ConcatProperties
    <3>4. returned \o (response \o x) = (returned \o response) \o x
      BY <2>2, <3>1, ConcatText
    <3> QED
      BY <3>1, <3>2, <3>3, <3>4
  <2>4. TypeOK'
    BY <1>2, <2>1, <2>2, <2>3, EmptySeq DEF IInv, TypeOK
  <2>5. OneChunk' /\ Exclusion' /\ OneWrite'
    BY <1>1, <2>1 DEF IInv, OneChunk, NoReadLeft, Reading, Exclusion, OneWrite
  <2>6. ~threw => taken = returned \o response
    BY <1>1, OrderQuiet
  <2>7. (returned \o (response \o x)) \o <<>> = returned \o (response \o x)
    BY <2>3, Concat
  <2>8. ~threw' => taken' = returned' \o response'
    BY <2>1, <2>3, <2>6, <2>7
  <2>9. {response', responseList', taken', returned'} \subseteq Seq(Text)
    BY <2>4 DEF TypeOK
  <2>10. InOrder'
    BY <1>1, <2>1, <2>8, <2>9, OrderKept
  <2> QED
    BY <2>4, <2>5, <2>10 DEF IInv
<1>3. CASE Throw /\ UNCHANGED <<inbound, taken, returned>>
  <2>1. TypeOK'
    BY <1>3, EmptySeq DEF ReadSome, Throw, IInv, TypeOK
  <2>2. OneChunk' /\ Exclusion' /\ OneWrite'
    BY <1>1, <1>3 DEF ReadSome, Throw, IInv, OneChunk, NoReadLeft, Reading, Exclusion, OneWrite
  <2> QED
    BY <1>3, <2>1, <2>2, ThrowsInOrder DEF IInv
<1> QED
  BY <1>2, <1>3 DEF ReadSome

LEMMA SendDataInv == ASSUME IInv, SendData PROVE IInv'
<1> USE DEF Called, net, history
<1>1. TypeOK'
  <2>1. timeCounter' \in 0..Timeout /\ writes' \in 0..MaxCalls
    BY Types DEF SendData, IInv, OneWrite
  <2> QED
    BY <2>1 DEF SendData, IInv, TypeOK
<1>2. OneChunk' /\ Exclusion' /\ OneWrite'
  BY Types DEF SendData, IInv, OneChunk, NoReadLeft, Reading, Exclusion, OneWrite
<1> QED
  BY <1>1, <1>2, OrderUnchanged DEF SendData, IInv

LEMMA SendingInv == ASSUME IInv, Sending PROVE IInv'
<1> USE DEF shared, net
<1>1. ~asyncError /\ pc = "sending"
  BY DEF Sending, IInv, OneWrite
<1>2. /\ UNCHANGED <<response, threw, mutex, responseList, asyncError, sendComplete, posted,
                     writes, parsed, inbound, closed, chunks, taken, returned, calls>>
      /\ \/ sendComplete /\ pc' = "idle" /\ UNCHANGED <<timeCounter, timedOut>>
         \/ ~sendComplete /\ timeCounter' = timeCounter + 1
            /\ pc' = (IF timeCounter + 1 >= Timeout THEN "idle" ELSE pc)
            /\ timedOut' = (timedOut \/ timeCounter + 1 >= Timeout)
  BY <1>1 DEF Sending
<1>3. timeCounter < Timeout /\ timeCounter \in Nat /\ Timeout \in Nat
  BY <1>1, Types DEF IInv, OneWrite
<1>4. timedOut' \in BOOLEAN
  BY <1>2 DEF IInv, TypeOK
<1>5. TypeOK'
  BY <1>1, <1>2, <1>3, <1>4 DEF IInv, TypeOK, Reading
<1>6. OneChunk' /\ Exclusion'
  BY <1>1, <1>2 DEF IInv, OneChunk, NoReadLeft, Reading, Exclusion
<1>7. OneWrite'
  <2>1. CASE sendComplete
    BY <1>1, <1>2, <1>3, <2>1 DEF IInv, OneWrite, Reading
  <2>2. CASE ~sendComplete
    <3>1. CASE timeCounter + 1 >= Timeout
      <4>1. pc' = "idle" /\ timedOut'
        BY <1>2, <2>2, <3>1
      <4> QED
        BY <1>2, <4>1 DEF IInv, OneWrite, Reading
    <3>2. CASE ~(timeCounter + 1 >= Timeout)
      <4>1. pc' = "sending" /\ timedOut' = timedOut /\ timeCounter' < Timeout
        BY <1>1, <1>2, <1>3, <2>2, <3>2 DEF IInv, TypeOK
      <4> QED
        BY <1>1, <1>2, <2>2, <4>1 DEF IInv, OneWrite, Reading
    <3> QED
      BY <3>1, <3>2
  <2> QED
    BY <2>1, <2>2
<1> QED
  BY <1>2, <1>5, <1>6, <1>7, OrderUnchanged DEF IInv

-----------------------------------------------------------------------------
(* The io_service thread. *)

LEMMA HandleReadInv == ASSUME IInv, HandleRead PROVE IInv'
<1> USE DEF shared
<1>1. /\ pc \in Reading /\ posted = 1 /\ parsed = None /\ responseList = <<>> /\ response = <<>>
      /\ ~asyncError /\ timeCounter = 0
  BY DEF HandleRead, IInv, OneChunk, NoReadLeft, Nowhere, AskedFor, Parsed, Listed, Taken, TypeOK
<1>2. /\ posted' = 0 /\ inbound # <<>> /\ inbound' = Tail(inbound)
      /\ taken' = taken \o TextOf(Head(inbound))
      /\ parsed' = IF Head(inbound) \in Text THEN Head(inbound) ELSE None
      /\ UNCHANGED <<pc, response, timeCounter, mutex, responseList, asyncError, sendComplete,
                     writes, closed, chunks, returned, threw, timedOut, calls>>
  BY <1>1 DEF HandleRead
<1>3. ~threw => taken = returned
  <2>1. returned \o <<>> = returned
    BY Types, Concat
  <2> QED
    BY <1>1, <2>1, OrderQuiet
<1>4. CASE Head(inbound) \in Text
  <2>1. /\ parsed' \in Text /\ parsed' # None /\ taken' = taken \o <<parsed'>>
        /\ Tail(inbound) \in Seq(Chunk)
    BY <1>2, <1>4, TextOfChunk, OneText
  <2>2. taken' = Append(taken, parsed') /\ taken' \in Seq(Text)
    <3>1. taken \in Seq(Text)
      BY Types
    <3> QED
      BY <2>1, <3>1, AppendIsConcat, AppendProperties
  <2>3. TypeOK'
    BY <1>2, <2>1, <2>2 DEF IInv, TypeOK
  <2>4. OneChunk' /\ Exclusion' /\ OneWrite'
    BY <1>1, <1>2, <2>1 DEF IInv, OneChunk, NoReadLeft, Parsed, Reading, Exclusion, OneWrite
  <2>5. InOrder'
    <3>1. {response', responseList', taken', returned'} \subseteq Seq(Text)
      BY <2>3 DEF TypeOK
    <3> QED
      BY <1>1, <1>2, <1>3, <2>1, <2>2, <3>1, OrderKept
  <2> QED
    BY <2>3, <2>4, <2>5 DEF IInv
<1>5. CASE Head(inbound) \notin Text
  <2>1. parsed' = None /\ taken' = taken /\ Tail(inbound) \in Seq(Chunk)
    BY <1>2, <1>5, TextOfChunk, Types, Concat
  <2>2. TypeOK'
    BY <1>2, <2>1 DEF IInv, TypeOK
  <2>3. OneChunk' /\ Exclusion' /\ OneWrite'
    BY <1>1, <1>2, <2>1 DEF IInv, OneChunk, NoReadLeft, Nowhere, Reading, Exclusion, OneWrite
  <2> QED
    BY <1>1, <1>2, <2>1, <2>2, <2>3, OrderUnchanged DEF IInv
<1> QED
  BY <1>4, <1>5

LEMMA PushInv == ASSUME IInv, Push PROVE IInv'
<1> USE DEF net, history
<1>1. /\ pc \in Reading /\ posted = 0 /\ parsed \in Text
      /\ responseList = <<>> /\ response = <<>> /\ ~asyncError /\ timeCounter = 0
  BY DEF Push, IInv, OneChunk, NoReadLeft, Nowhere, AskedFor, Parsed, Listed, Taken
<1>2. responseList' = <<parsed>> /\ parsed' = None /\ <<parsed>> \in Seq(Text)
  BY <1>1, OneText DEF Push
<1>3. TypeOK'
  BY <1>2 DEF Push, IInv, TypeOK
<1>4. OneChunk' /\ Exclusion' /\ OneWrite'
  BY <1>1, <1>2 DEF Push, IInv, OneChunk, NoReadLeft, Listed, Reading, Exclusion, OneWrite
<1>5. ~threw => taken = returned \o <<parsed>>
  <2>1. returned \o <<>> = returned
    BY Types, Concat
  <2> QED
    BY <1>1, <2>1, OneText DEF IInv, InOrder
<1>6. InOrder'
  <2>1. {response', responseList', taken', returned'} \subseteq Seq(Text)
    BY <1>3 DEF TypeOK
  <2> QED
    BY <1>1, <1>2, <1>5, <2>1, OrderKept DEF Push
<1> QED
  BY <1>3, <1>4, <1>6 DEF IInv

LEMMA HandleReadErrorInv == ASSUME IInv, HandleReadError PROVE IInv'
<1> USE DEF net, history
<1>1. /\ pc \in Reading /\ posted = 1 /\ parsed = None /\ responseList = <<>> /\ response = <<>>
      /\ timeCounter = 0
  BY DEF HandleReadError, IInv, OneChunk, NoReadLeft, Nowhere, AskedFor, Parsed, Listed, Taken, TypeOK
<1>2. TypeOK'
  BY <1>1 DEF HandleReadError, IInv, TypeOK
<1>3. OneChunk' /\ Exclusion' /\ OneWrite'
  BY <1>1 DEF HandleReadError, IInv, OneChunk, NoReadLeft, Nowhere, Reading, Exclusion, OneWrite
<1> QED
  BY <1>2, <1>3, OrderUnchanged DEF HandleReadError, IInv

LEMMA HandleDataWriteInv == ASSUME IInv, HandleDataWrite PROVE IInv'
<1> USE DEF net, history
<1>1. writes > 0 /\ writes' = writes - 1 /\ sendComplete' = TRUE /\ writes \in Nat /\ writes =< calls
      /\ calls \in Nat /\ MaxCalls \in Nat /\ calls =< MaxCalls
  BY Types DEF HandleDataWrite, IInv, OneWrite
<1>2. writes' \in 0..MaxCalls /\ writes' =< calls
  BY <1>1
<1>3. TypeOK'
  BY <1>1, <1>2 DEF HandleDataWrite, IInv, TypeOK
<1>4. OneChunk' /\ Exclusion'
  BY DEF HandleDataWrite, IInv, OneChunk, NoReadLeft, Nowhere, AskedFor, Parsed, Listed, Taken,
         Reading, Exclusion
<1>5. OneWrite'
  <2>1. ~timedOut => writes' = 0
    BY <1>1 DEF IInv, OneWrite
  <2> QED
    BY <1>1, <1>2, <2>1 DEF HandleDataWrite, IInv, OneWrite
<1> QED
  BY <1>3, <1>4, <1>5, OrderUnchanged DEF HandleDataWrite, IInv

(* What the server does is outside of both threads. *)
LEMMA ServerInv ==
  ASSUME IInv, ServerSends \/ ServerCloses \/ UNCHANGED vars
  PROVE  IInv'
<1> USE DEF shared, net, history
<1>1. UNCHANGED <<pc, response, timeCounter, mutex, responseList, asyncError, sendComplete,
                  posted, writes, parsed, taken, returned, threw, timedOut, calls>>
  BY DEF ServerSends, ServerCloses, vars
<1>2. inbound' \in Seq(Chunk) /\ closed' \in BOOLEAN
  <2>1. inbound \in Seq(Chunk) /\ closed \in BOOLEAN
    BY DEF IInv, TypeOK
  <2>2. CASE ServerSends
    BY <2>1, <2>2, AppendProperties DEF ServerSends
  <2>3. CASE ServerCloses
    BY <2>1, <2>3 DEF ServerCloses
  <2>4. CASE UNCHANGED vars
    BY <2>1, <2>4 DEF vars
  <2> QED
    BY <2>2, <2>3, <2>4
<1>3. TypeOK'
  BY <1>1, <1>2 DEF IInv, TypeOK
<1>4. OneChunk' /\ Exclusion' /\ OneWrite'
  BY <1>1 DEF IInv, OneChunk, NoReadLeft, Nowhere, AskedFor, Parsed, Listed, Taken,
              Reading, Exclusion, OneWrite
<1> QED
  BY <1>1, <1>3, <1>4, OrderUnchanged DEF IInv

-----------------------------------------------------------------------------
(* The theorems *)

LEMMA InitInv == Init => IInv
<1> SUFFICES ASSUME Init PROVE IInv
  OBVIOUS
<1>1. TypeOK
  <2>1. 0 \in 0..Timeout /\ 0 \in 0..MaxCalls /\ MaxCalls \in Nat
    BY IOAssumption
  <2>2. <<>> \in Seq(Text) /\ <<>> \in Seq(Chunk)
    BY EmptySeq
  <2> QED
    BY <2>1, <2>2 DEF Init, TypeOK
<1>2. OneChunk /\ Exclusion /\ OneWrite
  BY IOAssumption DEF Init, Reading, OneChunk, NoReadLeft, Exclusion, OneWrite
<1>3. InOrder
  <2>1. <<>> \in Seq(Text)
    BY EmptySeq
  <2> QED
    BY <2>1, Concat DEF Init, InOrder
<1> QED
  BY <1>1, <1>3, <1>2 DEF IInv

LEMMA NextInv == IInv /\ [Next]_vars => IInv'
  BY ReadUntilInv, PollInv, LockInv, LockedInv, ReadUntilSyncInv, ReadSomeInv, SendDataInv,
     SendingInv, HandleReadInv, PushInv, HandleReadErrorInv, HandleDataWriteInv, ServerInv
     DEF Next, Application

(* The strengthening holds in every state the two threads reach. *)
THEOREM IOInvariant == Spec => []IInv
  BY InitInv, NextInv, PTL DEF Spec

(* Type correctness; in particular one read at most is outstanding however *)
(* often ReadUntil is called, and the time never passes the timeout.       *)
THEOREM IOTypeOK == Spec => []TypeOK
<1>1. IInv => TypeOK
  BY DEF IInv
<1> QED
  BY <1>1, IOInvariant, PTL

(* ReadUntil: when a call is over, by its target, its timeout or an         *)
(* exception, its read has completed and its text is out of the list.       *)
THEOREM NoReadIsLeft == Spec => []NoReadLeft
<1>1. IInv => NoReadLeft
  BY DEF IInv, OneChunk
<1> QED
  BY <1>1, IOInvariant, PTL

(* HandleRead, Push and both kinds of ReadUntil: the text that was read is  *)
(* what was returned and what is on its way, in this order.                 *)
THEOREM TextInOrder == Spec => []InOrder
<1>1. IInv => InOrder
  BY DEF IInv
<1> QED
  BY <1>1, IOInvariant, PTL

(* SendData: until one call has given up, none comes back before the write  *)
(* it started has been completed, although sendComplete is shared.          *)
THEOREM SentIsWritten == Spec => SentMeansWritten
<1> DEFINE A == pc = "sending" /\ pc' = "idle" /\ ~threw' /\ ~timedOut' => writes = 0
<1>1. IInv /\ [Next]_vars => [A]_vars
  <2> SUFFICES ASSUME IInv, Next, pc = "sending", pc' = "idle", ~timedOut' PROVE writes = 0
    OBVIOUS
  <2>1. Sending
    BY DEF Next, Application, ReadUntil, Poll, Lock, Locked, ReadUntilSync, ReadSome, SendData,
           Called, HandleRead, Push, HandleReadError, HandleDataWrite, ServerSends, ServerCloses
  <2>2. ~asyncError
    BY DEF IInv, OneWrite
  <2>3. sendComplete /\ ~timedOut
    <3>1. CASE sendComplete
      BY <2>1, <3>1 DEF Sending
    <3>2. CASE ~sendComplete
      <4>1. /\ pc' = IF timeCounter + 1 >= Timeout THEN "idle" ELSE pc
            /\ timedOut' = (timedOut \/ timeCounter + 1 >= Timeout)
        BY <2>1, <2>2, <3>2 DEF Sending
      <4> QED
        BY <4>1
    <3> QED
      BY <3>1, <3>2
  <2> QED
    BY <2>3 DEF IInv, OneWrite
<1> QED
  BY <1>1, IOInvariant, PTL DEF Spec, SentMeansWritten
=============================================================================
