----------------------------- MODULE BatchBuffers -----------------------------
(***************************************************************************)
(* The buffers a message passes through between a publisher and one        *)
(* subscriber: the publisher's currentBatch, the queue, and the            *)
(* subscriber's currentItem and pendingItems.  Messages come in any type   *)
(* and size; PublisherHandler says which.                                  *)
(***************************************************************************)
EXTENDS MessageBatch, SequencesExt

CONSTANTS
  Sizes,      (* sizes of messages                                         *)
  MaxParsed,  (* bound: messages parsed                                    *)
  MaxQueued   (* bound: batches in the queue or pending                    *)

ASSUME SizesAssumption ==
  /\ Sizes \subseteq Nat \ {0}
  /\ MaxParsed \in Nat
  /\ MaxQueued \in Nat

VARIABLES currentBatch, queue, currentItem, pendingItems,
          parsed   (* number of messages so far: names them *)

publisherBuffers == <<currentBatch, queue, parsed>>
subscriberBuffers == <<currentItem, pendingItems>>
bufferVars == <<currentBatch, queue, parsed, currentItem, pendingItems>>

BufferTypeOK ==
  /\ currentBatch \in Buffer
  /\ queue \in Seq(Buffer)
  /\ currentItem \in Buffer
  /\ pendingItems \in Seq(Buffer)
  /\ parsed \in Nat

BufferInit ==
  /\ currentBatch = Constructed
  /\ queue = <<>>
  /\ currentItem = Constructed
  /\ pendingItems = <<>>
  /\ parsed = 0

(* Mutants: a batch that is full is pushed, one of another type is not; a  *)
(* batch without a label is pushed.                                        *)
EndsBatchWhenFull(t) ==
  currentBatch.messageType # NoType /\ IsFull(currentBatch)
EndsBatchUnlabelled(t) == currentBatch.messageType # t \/ IsFull(currentBatch)

(* A message of type t cannot join currentBatch.                           *)
EndsBatch(t) ==
  /\ currentBatch.messageType # NoType
  /\ currentBatch.messageType # t \/ IsFull(currentBatch)

(* Mutant: a batch that is pushed is copied, and keeps its content. *)
BatchForKeepsContent(t) == currentBatch

(* A batch that is pushed leaves its moved-from buffer to the next.        *)
BatchFor(t) == IF EndsBatch(t) THEN ClearForNextMessage(Moved) ELSE currentBatch

(* forwardMessage with a message complete.  The message that ends the characters*)
(* read is pushed at once.  Whether append took it is not looked at.       *)
CollectMessage(t, size, endsChunk) ==
  LET flushed == IF EndsBatch(t) THEN Append(queue, currentBatch) ELSE queue
      batch   == AppendTo(SetMessageType(BatchFor(t), t),
                          [id |-> parsed + 1, type |-> t, size |-> size])
  IN  /\ parsed' = parsed + 1
      /\ IF endsChunk
         THEN /\ queue' = Append(flushed, batch)
              /\ currentBatch' = ClearForNextMessage(Moved)
         ELSE /\ queue' = flushed
              /\ currentBatch' = batch
      /\ UNCHANGED subscriberBuffers

(* pushMessageBatch.  currentItem keeps its buffer from batch to batch.    *)
PushMessageBatch ==
  /\ queue # <<>>
  /\ Len(pendingItems) < MaxQueued
  /\ queue' = Tail(queue)
  /\ IF HasContent(currentItem)
     THEN /\ pendingItems' = Append(pendingItems, CopyInto(Constructed, Head(queue)))
          /\ UNCHANGED currentItem
     ELSE /\ currentItem' = CopyInto(currentItem, Head(queue))
          /\ UNCHANGED pendingItems
  /\ UNCHANGED <<currentBatch, parsed>>

(* What currentItem becomes when b is sent.                                *)
NextItem(b) == IF pendingItems = <<>> THEN ClearForNextMessage(b) ELSE Head(pendingItems)

(* onSendCurrentMessageComplete, n bytes having been taken.                *)
SendTook(n) ==
  LET rest == Advance(currentItem, n)
  IN  /\ IF HasContent(rest)
         THEN currentItem' = rest /\ UNCHANGED pendingItems
         ELSE /\ currentItem' = NextItem(rest)
              /\ pendingItems' = IF pendingItems = <<>> THEN <<>> ELSE Tail(pendingItems)
      /\ UNCHANGED publisherBuffers

Collects ==
  /\ parsed < MaxParsed
  /\ Len(queue) < MaxQueued
  /\ \E t \in Types, size \in Sizes, endsChunk \in BOOLEAN :
       CollectMessage(t, size, endsChunk)

Sends == \E n \in 1 .. currentItem.bufferLength : SendTook(n)

BufferNext == Collects \/ PushMessageBatch \/ Sends

BufferSpec == BufferInit /\ [][BufferNext]_bufferVars
-------------------------------------------------------------------------------
Buffers == {currentBatch, currentItem}
             \cup {queue[k] : k \in DOMAIN queue}
             \cup {pendingItems[k] : k \in DOMAIN pendingItems}

(* Whatever the sizes of the messages and of the parts the sends take, no  *)
(* buffer is read or written outside its memory: append, copy and advance  *)
(* agree on what maxLength, bufferLength and bufferPosition mean.          *)
AllFit == \A b \in Buffers : Fits(b)

(* A message of a type is never forwarded to those who subscribed to       *)
(* another: forwardMessage ends the batch when the type changes, and a     *)
(* moved-from batch takes a new label.  Messages of the empty type are not *)
(* kept apart: the batch they begin looks unlabelled to forwardMessage,    *)
(* which gives it the type of whatever message comes next.                 *)
NoForeignMessages == \A b \in Buffers : OfItsType(b)

(* No empty batch is queued: the subscriber's handler would not send it,   *)
(* and would count itself idle while a completion was awaited.             *)
QueuedHaveContent ==
  /\ \A k \in DOMAIN queue : HasContent(queue[k])
  /\ \A k \in DOMAIN pendingItems : HasContent(pendingItems[k])

(* However many messages of a type a publisher sends in one read, a batch  *)
(* outgrows the limit by less than its last message.                       *)
BatchesAreBounded == \A b \in Buffers : Bounded(b)
-------------------------------------------------------------------------------
(* The inductive invariant the proofs rest on: what is not being sent is   *)
(* read from its start, and a batch with a label has content.              *)
Good(b) == b \in Buffer /\ Fits(b) /\ OfItsType(b) /\ Bounded(b)
Unread(b) == Good(b) /\ b.bufferPosition = 0

BufferInv ==
  /\ parsed \in Nat
  /\ queue \in Seq(Buffer)
  /\ pendingItems \in Seq(Buffer)
  /\ Unread(currentBatch)
  /\ currentBatch.messageType # NoType => HasContent(currentBatch)
  /\ Good(currentItem)
  /\ \A k \in DOMAIN queue : Unread(queue[k]) /\ HasContent(queue[k])
  /\ \A k \in DOMAIN pendingItems : Unread(pendingItems[k]) /\ HasContent(pendingItems[k])
===============================================================================
