----------------------------- MODULE BufferProofs -----------------------------
(***************************************************************************)
(* Proofs about BatchBuffers, for every size of the messages, of the       *)
(* initial buffer and of the limit, and every set of types.                *)
(***************************************************************************)
EXTENDS BatchBuffers, SeqLemmas

(* RoundUp gives at least what it is asked for. *)
LEMMA RoundUpProps == \A n \in Nat : RoundUp(n) \in Nat /\ RoundUp(n) >= n
BY BatchAssumption DEF RoundUp

(* The fields of a buffer. *)
LEMMA BufferFields ==
  ASSUME NEW b \in Buffer
  PROVE  /\ b.messageType \in Types \cup {NoType} /\ b.messages \in Seq(Message)
         /\ b.allocated \in Nat /\ b.maxLength \in Nat
         /\ b.bufferLength \in Nat /\ b.bufferPosition \in Nat
BY DEF Buffer

(* A buffer that has room for n more bytes after it has grown, if it is    *)
(* allocated at least as much more as they are.                            *)
LEMMA GrowProps ==
  ASSUME NEW b \in Buffer, Fits(b), b.bufferPosition = 0,
         NEW n \in Nat, NEW room \in Nat, n <= room
  PROVE  /\ Grow(b, n, room) \in Buffer
         /\ Grow(b, n, room).messageType = b.messageType
         /\ Grow(b, n, room).messages = b.messages
         /\ Grow(b, n, room).bufferLength = b.bufferLength
         /\ Grow(b, n, room).bufferPosition = 0
         /\ b.bufferLength + n <= Grow(b, n, room).maxLength
         /\ Grow(b, n, room).maxLength <= Grow(b, n, room).allocated
<1>1. /\ b.allocated \in Nat /\ b.maxLength \in Nat /\ b.bufferLength \in Nat
      /\ b.bufferLength <= b.maxLength /\ b.maxLength <= b.allocated
  BY BufferFields DEF Fits
<1>2. CASE n + b.bufferLength > b.maxLength
  <2> DEFINE a == RoundUp(b.maxLength + room)
             l == b.maxLength + n
  <2>1. a \in Nat /\ l \in Nat /\ l <= a /\ b.bufferLength + n <= l
    <3>1. b.maxLength + room \in Nat /\ l \in Nat
      BY <1>1
    <3>2. a \in Nat /\ a >= b.maxLength + room
      BY <3>1, RoundUpProps
    <3> HIDE DEF a
    <3>3. QED
      BY <1>1, <3>1, <3>2
  <2>2. Grow(b, n, room) = [b EXCEPT !.allocated = a, !.maxLength = l]
    BY <1>2 DEF Grow
  <2> HIDE DEF a, l
  <2>3. QED
    BY <2>1, <2>2 DEF Buffer
<1>3. CASE ~(n + b.bufferLength > b.maxLength)
  <2>1. Grow(b, n, room) = b
    BY <1>3 DEF Grow
  <2>2. b.bufferLength + n <= b.maxLength
    BY <1>1, <1>3
  <2>3. QED
    BY <1>1, <2>1, <2>2
<1>4. QED
  BY <1>2, <1>3

(* append leaves a batch that may be queued. *)
LEMMA AppendToProps ==
  ASSUME NEW b, Unread(b), NEW m \in Message, m.type = b.messageType
  PROVE  /\ Unread(AppendTo(b, m)) /\ HasContent(AppendTo(b, m))
         /\ AppendTo(b, m).messageType = b.messageType
<1>1. /\ b \in Buffer /\ Fits(b) /\ b.bufferPosition = 0 /\ OfItsType(b) /\ Bounded(b)
      /\ m.size \in Nat /\ m.size > 0 /\ b.bufferLength \in Nat /\ b.messages \in Seq(Message)
  <2>1. b \in Buffer /\ Fits(b) /\ b.bufferPosition = 0 /\ OfItsType(b) /\ Bounded(b)
    BY DEF Unread, Good
  <2>2. m.size \in Nat /\ m.size > 0
    BY DEF Message
  <2>3. QED
    BY <2>1, <2>2, BufferFields
<1>2. CASE Refuses(b)
  <2>1. AppendTo(b, m) = b
    BY <1>2 DEF AppendTo
  <2>2. HasContent(b)
    BY <1>1, <1>2, BatchAssumption DEF Refuses, HasContent
  <2>3. QED
    BY <2>1, <2>2
<1>3. CASE ~Refuses(b)
  <2> DEFINE g == Grow(b, m.size, m.size)
             a == [g EXCEPT !.bufferLength = b.bufferLength + m.size,
                            !.messages = Append(b.messages, m)]
  <2>1. /\ g \in Buffer /\ g.messageType = b.messageType /\ g.messages = b.messages
        /\ g.bufferLength = b.bufferLength /\ g.bufferPosition = 0
        /\ b.bufferLength + m.size <= g.maxLength /\ g.maxLength <= g.allocated
    <3>1. m.size <= m.size
      BY <1>1
    <3>2. QED
      BY <1>1, <3>1, GrowProps
  <2>2. AppendTo(b, m) = a
    BY <1>3, <2>1 DEF AppendTo
  <2> HIDE DEF g
  <2>3. /\ Append(b.messages, m) \in Seq(Message)
        /\ Len(Append(b.messages, m)) = Len(b.messages) + 1
        /\ Append(b.messages, m) # <<>>
        /\ \A k \in DOMAIN Append(b.messages, m) :
             \/ k \in DOMAIN b.messages /\ Append(b.messages, m)[k] = b.messages[k]
             \/ k = Len(b.messages) + 1 /\ Append(b.messages, m)[k] = m
        /\ Append(b.messages, m)[Len(b.messages) + 1] = m
    <3>1. Append(b.messages, m) # <<>>
      BY <1>1, AppendProps, EmptySeq, LenProperties
    <3>2. QED
      BY <1>1, <3>1, AppendProps, AppendProperties
  <2>4. /\ a \in Buffer /\ a.messageType = b.messageType
        /\ a.messages = Append(b.messages, m)
        /\ a.bufferLength = b.bufferLength + m.size /\ a.bufferPosition = 0
        /\ a.maxLength = g.maxLength /\ a.allocated = g.allocated
    <3>1. b.bufferLength + m.size \in Nat
      BY <1>1
    <3>2. QED
      BY <2>1, <2>3, <3>1 DEF Buffer
  <2> HIDE DEF a
  <2>5. Fits(a) /\ HasContent(a)
    <3>1. a.bufferPosition + a.bufferLength = a.bufferLength /\ a.bufferLength > 0
      BY <1>1, <2>4
    <3>2. QED
      BY <2>1, <2>4, <3>1 DEF Fits, HasContent
  <2>6. OfItsType(a)
    BY <1>1, <2>3, <2>4 DEF OfItsType
  <2>7. Bounded(a)
    <3>1. b.bufferLength < GrowUntil
      BY <1>1, <1>3, BatchAssumption DEF Refuses
    <3>2. a.messages[Len(a.messages)] = m
      BY <2>3, <2>4
    <3>3. QED
      BY <1>1, <2>4, <3>1, <3>2, BatchAssumption DEF Bounded
  <2>8. QED
    BY <2>2, <2>4, <2>5, <2>6, <2>7 DEF Unread, Good
<1>4. QED
  BY <1>2, <1>3

(* A copy holds what it was copied from. *)
LEMMA CopyIntoProps ==
  ASSUME NEW b \in Buffer, Fits(b), b.bufferLength = 0, NEW other, Unread(other)
  PROVE  /\ Unread(CopyInto(b, other))
         /\ HasContent(other) => HasContent(CopyInto(b, other))
<1> DEFINE n == other.bufferLength
           g == Grow(b, n, other.maxLength)
           a == [g EXCEPT !.bufferLength = n, !.messages = other.messages,
                          !.messageType = other.messageType, !.bufferPosition = 0]
<1>1. /\ other \in Buffer /\ Fits(other) /\ OfItsType(other) /\ Bounded(other)
      /\ other.bufferPosition = 0 /\ n \in Nat /\ other.maxLength \in Nat
      /\ n <= other.maxLength
  BY BufferFields DEF Unread, Good, Fits
<1>2. /\ b.allocated \in Nat /\ b.maxLength \in Nat /\ b.maxLength <= b.allocated
  BY BufferFields DEF Fits
<1>3. /\ g \in Buffer /\ g.bufferLength = 0 /\ n <= g.maxLength /\ g.maxLength <= g.allocated
  <2>1. CASE n + b.bufferLength > b.maxLength
    <3> DEFINE r == RoundUp(b.maxLength + other.maxLength)
               l == b.maxLength + n
    <3>1. r \in Nat /\ l \in Nat /\ l <= r /\ n <= l
      <4>1. b.maxLength + other.maxLength \in Nat /\ l \in Nat
        BY <1>1, <1>2
      <4>2. r \in Nat /\ r >= b.maxLength + other.maxLength
        BY <4>1, RoundUpProps
      <4> HIDE DEF r
      <4>3. QED
        BY <1>1, <1>2, <4>1, <4>2
    <3>2. g = [b EXCEPT !.allocated = r, !.maxLength = l]
      BY <2>1 DEF Grow
    <3> HIDE DEF r, l, g
    <3>3. QED
      BY <3>1, <3>2 DEF Buffer
  <2>2. CASE ~(n + b.bufferLength > b.maxLength)
    <3>1. g = b
      BY <2>2 DEF Grow
    <3>2. n <= b.maxLength
      BY <1>1, <1>2, <2>2
    <3>3. QED
      BY <1>2, <3>1, <3>2
  <2>3. QED
    BY <2>1, <2>2
<1>4. CopyInto(b, other) = a
  <2>1. g.bufferLength + n = n
    BY <1>1, <1>3
  <2>2. QED
    BY <2>1 DEF CopyInto
<1> HIDE DEF g
<1>5. /\ a \in Buffer /\ a.bufferLength = n /\ a.messages = other.messages
      /\ a.messageType = other.messageType /\ a.bufferPosition = 0
      /\ a.maxLength = g.maxLength /\ a.allocated = g.allocated
  <2>1. other.messages \in Seq(Message) /\ other.messageType \in Types \cup {NoType}
    BY <1>1, BufferFields
  <2>2. QED
    BY <1>1, <1>3, <2>1 DEF Buffer
<1> HIDE DEF a
<1>6. Fits(a)
  <2>1. a.bufferPosition + a.bufferLength = n
    BY <1>1, <1>5
  <2>2. QED
    BY <1>3, <1>5, <2>1 DEF Fits
<1>7. OfItsType(a) /\ Bounded(a)
  BY <1>1, <1>5 DEF OfItsType, Bounded
<1>8. QED
  BY <1>4, <1>5, <1>6, <1>7 DEF Unread, Good, HasContent

(* A send took no more than it was given: advance keeps what is left.      *)
LEMMA AdvanceProps ==
  ASSUME NEW b, Good(b), NEW n \in Nat, n <= b.bufferLength
  PROVE  /\ Good(Advance(b, n))
         /\ Advance(b, n).bufferLength = b.bufferLength - n
<1> DEFINE p == b.bufferPosition + n
           l == b.bufferLength - n
           a == [b EXCEPT !.bufferPosition = p, !.bufferLength = l]
<1>1. b \in Buffer /\ Fits(b) /\ OfItsType(b) /\ Bounded(b)
  BY DEF Good
<1>2. /\ b.allocated \in Nat /\ b.maxLength \in Nat /\ b.bufferLength \in Nat
      /\ b.bufferPosition \in Nat /\ b.messages \in Seq(Message)
      /\ b.bufferPosition + b.bufferLength <= b.maxLength /\ b.maxLength <= b.allocated
  BY <1>1, BufferFields DEF Fits
<1>3. p \in Nat /\ l \in Nat /\ p <= b.maxLength /\ p + l <= b.maxLength /\ l <= b.bufferLength
  BY <1>2, SMTT(30)
<1>4. Advance(b, n) = a
  BY <1>3 DEF Advance
<1>5. /\ a \in Buffer /\ a.bufferPosition = p /\ a.bufferLength = l
      /\ a.maxLength = b.maxLength /\ a.allocated = b.allocated
      /\ a.messages = b.messages /\ a.messageType = b.messageType
  <2> HIDE DEF p, l
  <2>1. QED
    BY <1>1, <1>3 DEF Buffer
<1> HIDE DEF a
<1>6. Fits(a) /\ OfItsType(a)
  BY <1>1, <1>2, <1>3, <1>5 DEF Fits, OfItsType
<1>7. Bounded(a)
  <2>1. SUFFICES ASSUME a.messages # <<>>
                 PROVE  a.bufferLength < GrowUntil + a.messages[Len(a.messages)].size
    BY DEF Bounded
  <2> DEFINE s == b.messages[Len(b.messages)].size
  <2>2. b.bufferLength < GrowUntil + s
    BY <1>1, <1>5, <2>1 DEF Bounded
  <2>3. Len(b.messages) \in 1 .. Len(b.messages)
    <3>1. Len(b.messages) \in Nat /\ Len(b.messages) # 0
      BY <1>2, <1>5, <2>1, EmptySeq, LenProperties
    <3>2. QED
      BY <3>1
  <2>4. s \in Nat
    <3>1. b.messages[Len(b.messages)] \in Message
      BY <1>2, <2>3, ElementOfSeq
    <3>2. QED
      BY <3>1 DEF Message
  <2> HIDE DEF s
  <2>5. l < GrowUntil + s
    BY <1>2, <1>3, <2>2, <2>4, BatchAssumption
  <2>6. QED
    BY <1>5, <2>5 DEF s
<1>8. QED
  BY <1>4, <1>5, <1>6, <1>7 DEF Good

(* A buffer that was cleared keeps its memory. *)
LEMMA ClearProps ==
  ASSUME NEW b \in Buffer, Fits(b)
  PROVE  Unread(ClearForNextMessage(b)) /\ ~HasContent(ClearForNextMessage(b))
<1> DEFINE a == ClearForNextMessage(b)
<1>1. /\ a \in Buffer /\ a.bufferPosition = 0 /\ a.bufferLength = 0 /\ a.messages = <<>>
      /\ a.maxLength = b.maxLength /\ a.allocated = b.allocated
  <2>1. <<>> \in Seq(Message)
    OBVIOUS
  <2>2. QED
    BY <2>1 DEF ClearForNextMessage, Buffer
<1>2. b.maxLength \in Nat /\ b.maxLength <= b.allocated
  BY BufferFields DEF Fits
<1> HIDE DEF a
<1>3. Fits(a) /\ ~HasContent(a)
  BY <1>1, <1>2 DEF Fits, HasContent
<1>4. OfItsType(a) /\ Bounded(a)
  BY <1>1 DEF OfItsType, Bounded
<1>5. QED
  BY <1>1, <1>3, <1>4 DEF Unread, Good, a

(* The buffers the code starts from. *)
LEMMA NewBuffers ==
  /\ Unread(Constructed) /\ ~HasContent(Constructed)
  /\ Constructed.messageType = NoType /\ Constructed.messages = <<>>
  /\ Unread(ClearForNextMessage(Moved))
  /\ ClearForNextMessage(Moved).messageType = NoType
  /\ ClearForNextMessage(Moved).messages = <<>>
<1>1. Constructed \in Buffer /\ Moved \in Buffer
  BY BatchAssumption DEF Constructed, Moved, Buffer
<1>2. Fits(Constructed) /\ Fits(Moved)
  BY BatchAssumption DEF Constructed, Moved, Fits
<1>3. OfItsType(Constructed) /\ Bounded(Constructed) /\ ~HasContent(Constructed)
  BY DEF Constructed, OfItsType, Bounded, HasContent
<1>4. QED
  BY <1>1, <1>2, <1>3, ClearProps DEF Unread, Good, Constructed, Moved, ClearForNextMessage

(* A batch without a label is given one, another is given its own again.   *)
LEMMA LabelProps ==
  ASSUME NEW b, Unread(b), NEW t \in Types, b.messageType \in {t, NoType}
  PROVE  Unread(SetMessageType(b, t)) /\ SetMessageType(b, t).messageType = t
<1> DEFINE a == SetMessageType(b, t)
<1>1. b \in Buffer /\ Fits(b) /\ OfItsType(b) /\ Bounded(b) /\ b.bufferPosition = 0
  BY DEF Unread, Good
<1>2. /\ a \in Buffer /\ a.messageType = t /\ a.bufferPosition = b.bufferPosition
      /\ a.bufferLength = b.bufferLength /\ a.messages = b.messages
      /\ a.maxLength = b.maxLength /\ a.allocated = b.allocated
  BY <1>1 DEF SetMessageType, Buffer
<1> HIDE DEF a
<1>3. Fits(a) /\ Bounded(a)
  BY <1>1, <1>2 DEF Fits, Bounded
<1>4. OfItsType(a)
  BY <1>1, <1>2 DEF OfItsType
<1>5. QED
  BY <1>1, <1>2, <1>3, <1>4 DEF Unread, Good, a

(* A queue of batches with content, one more put at its end or its first   *)
(* taken.                                                                  *)
LEMMA QueueProps ==
  ASSUME NEW q \in Seq(Buffer), \A k \in DOMAIN q : Unread(q[k]) /\ HasContent(q[k])
  PROVE  /\ \A b : Unread(b) /\ HasContent(b) =>
              /\ Append(q, b) \in Seq(Buffer)
              /\ \A k \in DOMAIN Append(q, b) :
                   Unread(Append(q, b)[k]) /\ HasContent(Append(q, b)[k])
         /\ q # <<>> =>
              /\ Unread(Head(q)) /\ HasContent(Head(q))
              /\ Tail(q) \in Seq(Buffer)
              /\ \A k \in DOMAIN Tail(q) : Unread(Tail(q)[k]) /\ HasContent(Tail(q)[k])
<1>1. ASSUME NEW b, Unread(b), HasContent(b)
      PROVE  /\ Append(q, b) \in Seq(Buffer)
             /\ \A k \in DOMAIN Append(q, b) :
                  Unread(Append(q, b)[k]) /\ HasContent(Append(q, b)[k])
  <2>1. b \in Buffer
    BY <1>1 DEF Unread, Good
  <2>2. /\ Append(q, b) \in Seq(Buffer)
        /\ \A k \in DOMAIN Append(q, b) : \/ k \in DOMAIN q /\ Append(q, b)[k] = q[k]
                                          \/ Append(q, b)[k] = b
    BY <2>1, AppendProps
  <2>3. QED
    BY <1>1, <2>2
<1>2. ASSUME q # <<>>
      PROVE  /\ Unread(Head(q)) /\ HasContent(Head(q))
             /\ Tail(q) \in Seq(Buffer)
             /\ \A k \in DOMAIN Tail(q) : Unread(Tail(q)[k]) /\ HasContent(Tail(q)[k])
  <2>1. /\ 1 \in DOMAIN q /\ Head(q) = q[1] /\ Tail(q) \in Seq(Buffer)
        /\ \A k \in DOMAIN Tail(q) : k + 1 \in DOMAIN q /\ Tail(q)[k] = q[k + 1]
    BY <1>2, TailProps
  <2>2. QED
    BY <2>1
<1>3. QED
  BY <1>1, <1>2
-------------------------------------------------------------------------------
(* The invariant holds at the start. *)
LEMMA InitBufferInv == BufferInit => BufferInv
BY NewBuffers DEF BufferInit, BufferInv, Unread

(* A message is collected, whatever its type and size. *)
LEMMA CollectStep ==
  ASSUME BufferInv, NEW t \in Types, NEW size \in Nat \ {0}, NEW endsChunk \in BOOLEAN,
         CollectMessage(t, size, endsChunk)
  PROVE  BufferInv'
<1> DEFINE ends    == EndsBatch(t)
           flushed == IF ends THEN Append(queue, currentBatch) ELSE queue
           start   == BatchFor(t)
           m       == [id |-> parsed + 1, type |-> t, size |-> size]
           batch   == AppendTo(SetMessageType(start, t), m)
<1>1. /\ parsed \in Nat /\ queue \in Seq(Buffer) /\ Unread(currentBatch)
      /\ \A k \in DOMAIN queue : Unread(queue[k]) /\ HasContent(queue[k])
  BY DEF BufferInv
<1>2. m \in Message /\ m.type = t /\ parsed + 1 \in Nat
  BY <1>1 DEF Message
<1>3. Unread(start) /\ start.messageType \in {t, NoType}
  <2>1. CASE ends
    BY <2>1, NewBuffers DEF BatchFor
  <2>2. CASE ~ends
    BY <1>1, <2>2 DEF EndsBatch, BatchFor
  <2>3. QED
    BY <2>1, <2>2
<1> HIDE DEF start, m
<1>4. /\ Unread(SetMessageType(start, t))
      /\ SetMessageType(start, t).messageType = t
  BY <1>3, LabelProps
<1>5. Unread(batch) /\ HasContent(batch) /\ batch.messageType = t
  BY <1>2, <1>4, AppendToProps
<1>6. /\ flushed \in Seq(Buffer)
      /\ \A k \in DOMAIN flushed : Unread(flushed[k]) /\ HasContent(flushed[k])
  <2>1. CASE ends
    <3>1. HasContent(currentBatch)
      BY <2>1 DEF EndsBatch, BufferInv
    <3>2. QED
      BY <1>1, <2>1, <3>1, QueueProps
  <2>2. CASE ~ends
    BY <1>1, <2>2
  <2>3. QED
    BY <2>1, <2>2
<1>7. /\ parsed' = parsed + 1 /\ currentItem' = currentItem /\ pendingItems' = pendingItems
      /\ IF endsChunk
         THEN queue' = Append(flushed, batch) /\ currentBatch' = ClearForNextMessage(Moved)
         ELSE queue' = flushed /\ currentBatch' = batch
  BY DEF CollectMessage, subscriberBuffers, start, m
<1> HIDE DEF flushed, batch
<1>8. /\ queue' \in Seq(Buffer)
      /\ \A k \in DOMAIN queue' : Unread(queue'[k]) /\ HasContent(queue'[k])
  BY <1>5, <1>6, <1>7, QueueProps
<1>9. /\ Unread(currentBatch')
      /\ currentBatch'.messageType # NoType => HasContent(currentBatch')
  BY <1>5, <1>7, NewBuffers, BatchAssumption
<1>10. QED
  BY <1>2, <1>7, <1>8, <1>9 DEF BufferInv, Unread, Good, Fits, OfItsType, Bounded, HasContent

(* A batch is handed to the subscriber. *)
LEMMA PushStep ==
  ASSUME BufferInv, PushMessageBatch
  PROVE  BufferInv'
<1>1. /\ queue \in Seq(Buffer) /\ pendingItems \in Seq(Buffer) /\ Good(currentItem)
      /\ \A k \in DOMAIN queue : Unread(queue[k]) /\ HasContent(queue[k])
      /\ \A k \in DOMAIN pendingItems : Unread(pendingItems[k]) /\ HasContent(pendingItems[k])
  BY DEF BufferInv
<1>2. /\ queue # <<>> /\ queue' = Tail(queue)
      /\ currentBatch' = currentBatch /\ parsed' = parsed
  BY DEF PushMessageBatch
<1>3. /\ Unread(Head(queue)) /\ HasContent(Head(queue)) /\ queue' \in Seq(Buffer)
      /\ \A k \in DOMAIN queue' : Unread(queue'[k]) /\ HasContent(queue'[k])
  BY <1>1, <1>2, QueueProps
<1>4. /\ Good(currentItem') /\ pendingItems' \in Seq(Buffer)
      /\ \A k \in DOMAIN pendingItems' : Unread(pendingItems'[k]) /\ HasContent(pendingItems'[k])
  <2>1. CASE HasContent(currentItem)
    <3>1. Constructed \in Buffer /\ Fits(Constructed) /\ Constructed.bufferLength = 0
      BY NewBuffers DEF Unread, Good, Constructed
    <3>2. /\ Unread(CopyInto(Constructed, Head(queue)))
          /\ HasContent(CopyInto(Constructed, Head(queue)))
      BY <1>3, <3>1, CopyIntoProps
    <3>3. /\ pendingItems' = Append(pendingItems, CopyInto(Constructed, Head(queue)))
          /\ currentItem' = currentItem
      BY <2>1 DEF PushMessageBatch
    <3>4. QED
      BY <1>1, <3>2, <3>3, QueueProps
  <2>2. CASE ~HasContent(currentItem)
    <3>1. currentItem \in Buffer /\ Fits(currentItem) /\ currentItem.bufferLength = 0
      BY <1>1, <2>2, BufferFields DEF Good, HasContent
    <3>2. Unread(CopyInto(currentItem, Head(queue)))
      BY <1>3, <3>1, CopyIntoProps
    <3>3. currentItem' = CopyInto(currentItem, Head(queue)) /\ pendingItems' = pendingItems
      BY <2>2 DEF PushMessageBatch
    <3>4. QED
      BY <1>1, <3>2, <3>3 DEF Unread
  <2>3. QED
    BY <2>1, <2>2
<1>5. QED
  BY <1>2, <1>3, <1>4 DEF BufferInv

(* A send is reaped, whatever part of the batch it took. *)
LEMMA SendStep ==
  ASSUME BufferInv, NEW n \in 1 .. currentItem.bufferLength, SendTook(n)
  PROVE  BufferInv'
<1> DEFINE rest == Advance(currentItem, n)
<1>1. /\ pendingItems \in Seq(Buffer) /\ Good(currentItem)
      /\ \A k \in DOMAIN pendingItems : Unread(pendingItems[k]) /\ HasContent(pendingItems[k])
  BY DEF BufferInv
<1>2. n \in Nat /\ n <= currentItem.bufferLength
  <2>1. currentItem.bufferLength \in Nat
    BY <1>1, BufferFields DEF Good
  <2>2. QED
    BY <2>1
<1>3. Good(rest)
  BY <1>1, <1>2, AdvanceProps
<1> HIDE DEF rest
<1>4. /\ IF HasContent(rest)
         THEN currentItem' = rest /\ pendingItems' = pendingItems
         ELSE /\ currentItem' = IF pendingItems = <<>> THEN ClearForNextMessage(rest)
                                ELSE Head(pendingItems)
              /\ pendingItems' = IF pendingItems = <<>> THEN <<>> ELSE Tail(pendingItems)
      /\ currentBatch' = currentBatch /\ queue' = queue /\ parsed' = parsed
  BY DEF SendTook, NextItem, publisherBuffers, rest
<1>5. Unread(ClearForNextMessage(rest))
  BY <1>3, ClearProps DEF Good
<1>6. /\ Good(currentItem') /\ pendingItems' \in Seq(Buffer)
      /\ \A k \in DOMAIN pendingItems' : Unread(pendingItems'[k]) /\ HasContent(pendingItems'[k])
  <2>1. CASE pendingItems = <<>>
    BY <1>1, <1>3, <1>4, <1>5, <2>1 DEF Unread
  <2>2. CASE pendingItems # <<>>
    <3>1. /\ Unread(Head(pendingItems)) /\ Tail(pendingItems) \in Seq(Buffer)
          /\ \A k \in DOMAIN Tail(pendingItems) :
               Unread(Tail(pendingItems)[k]) /\ HasContent(Tail(pendingItems)[k])
      BY <1>1, <2>2, QueueProps
    <3>2. QED
      BY <1>1, <1>3, <1>4, <2>2, <3>1 DEF Unread
  <2>3. QED
    BY <2>1, <2>2
<1>7. QED
  BY <1>4, <1>6 DEF BufferInv
-------------------------------------------------------------------------------
(* BufferInv holds of every state, for messages of any type and size.      *)
THEOREM BufferInvariant == BufferSpec => []BufferInv
<1>1. ASSUME BufferInv, BufferNext PROVE BufferInv'
  <2>1. CASE Collects
    <3>1. PICK t \in Types, size \in Sizes, endsChunk \in BOOLEAN :
            CollectMessage(t, size, endsChunk)
      BY <2>1 DEF Collects
    <3>2. size \in Nat \ {0}
      BY SizesAssumption
    <3>3. QED
      BY <1>1, <3>1, <3>2, CollectStep
  <2>2. CASE PushMessageBatch
    BY <1>1, <2>2, PushStep
  <2>3. CASE Sends
    BY <1>1, <2>3, SendStep DEF Sends
  <2>4. QED
    BY <1>1, <2>1, <2>2, <2>3 DEF BufferNext
<1>2. ASSUME BufferInv, UNCHANGED bufferVars PROVE BufferInv'
  BY <1>2 DEF BufferInv, bufferVars, Unread, Good, Fits, OfItsType, Bounded, HasContent
<1>3. BufferInv /\ [BufferNext]_bufferVars => BufferInv'
  BY <1>1, <1>2
<1>4. QED
  BY <1>3, InitBufferInv, PTL DEF BufferSpec

(* Every buffer the code holds is a good one. *)
LEMMA AllGood == BufferInv => \A b \in Buffers : Good(b)
BY DEF BufferInv, Buffers, Unread

(* No buffer is read or written outside its memory, whatever the sizes of  *)
(* the messages and the parts the sends take.                              *)
THEOREM BuffersAreInBounds == BufferSpec => []AllFit
<1>1. BufferInv => AllFit
  BY AllGood DEF AllFit, Good
<1>2. QED
  BY <1>1, BufferInvariant, PTL

(* A batch never carries a message to the subscribers of another type. *)
THEOREM BatchesKeepTheirType == BufferSpec => []NoForeignMessages
<1>1. BufferInv => NoForeignMessages
  BY AllGood DEF NoForeignMessages, Good
<1>2. QED
  BY <1>1, BufferInvariant, PTL

(* The queue carries no empty batch: what Broker assumes of Lengths. *)
THEOREM NoEmptyBatch == BufferSpec => []QueuedHaveContent
<1>1. BufferInv => QueuedHaveContent
  BY DEF BufferInv, QueuedHaveContent
<1>2. QED
  BY <1>1, BufferInvariant, PTL

(* A batch outgrows the limit by less than its last message. *)
THEOREM BatchesStayBounded == BufferSpec => []BatchesAreBounded
<1>1. BufferInv => BatchesAreBounded
  BY AllGood DEF BatchesAreBounded, Good
<1>2. QED
  BY <1>1, BufferInvariant, PTL
===============================================================================
