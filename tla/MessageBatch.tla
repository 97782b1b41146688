----------------------------- MODULE MessageBatch -----------------------------
(***************************************************************************)
(* server/MessageBatch.hpp: the buffer batches are collected in, copied to *)
(* and sent from.  Its sizes are those of the code, because the reads and  *)
(* writes of a buffer go wherever they say; for its bytes stand the        *)
(* messages they come from.  Nothing reads nbMessages and isBusy.          *)
(***************************************************************************)
EXTENDS Integers, Sequences

CONSTANTS
  BufLength,   (* DEFAULT_BUF_LENGTH, 256 in the code                      *)
  GrowUntil,   (* GROW_UNTIL_LENGTH, 128 times that                        *)
  SizeMod,     (* 2^64: sizes are unsigned and wrap                        *)
  Types,       (* message types                                            *)
  NoType       (* the empty messageType: a type like another to the parser,*)
               (* no label to forwardMessage                               *)

ASSUME BatchAssumption ==
  /\ BufLength \in Nat \ {0}
  /\ GrowUntil \in Nat \ {0}
  /\ SizeMod \in Nat \ {0}

Message == [id : Nat, type : Types, size : Nat \ {0}]

Buffer == [messageType : Types \cup {NoType}, messages : Seq(Message),
           allocated : Nat, maxLength : Nat, bufferLength : Nat, bufferPosition : Nat]

Constructed == [messageType |-> NoType, messages |-> <<>>, allocated |-> BufLength,
                maxLength |-> BufLength, bufferLength |-> 0, bufferPosition |-> 0]

(* What a move leaves behind: the move constructor swaps with a buffer     *)
(* whose members are all zero.                                             *)
Moved == [messageType |-> NoType, messages |-> <<>>, allocated |-> 0,
          maxLength |-> 0, bufferLength |-> 0, bufferPosition |-> 0]

(* Memory is allocated in multiples of DEFAULT_BUF_LENGTH.                 *)
RoundUp(n) == BufLength * ((n + BufLength - 1) \div BufLength)

HasContent(b) == b.bufferLength > 0
IsFull(b) == b.bufferLength > GrowUntil
Refuses(b) == b.bufferLength >= GrowUntil

(* Mutant: what the buffer holds already is not counted.                   *)
GrowForgetsContents(b, n, room) ==
  IF n + b.bufferLength > b.maxLength
  THEN [b EXCEPT !.allocated = RoundUp(room), !.maxLength = @ + n]
  ELSE b

(* realloc by `room` for a write of n bytes; maxLength grows by n.         *)
Grow(b, n, room) ==
  IF n + b.bufferLength > b.maxLength
  THEN [b EXCEPT !.allocated = RoundUp(b.maxLength + room), !.maxLength = @ + n]
  ELSE b

(* append: a buffer that has reached the limit is left as it is.           *)
AppendTo(b, m) ==
  IF Refuses(b) THEN b
  ELSE [Grow(b, m.size, m.size) EXCEPT !.bufferLength = @ + m.size,
                                       !.messages = Append(@, m)]

(* copy from the start of another buffer, into one without content.        *)
CopyInto(b, other) ==
  [Grow(b, other.bufferLength, other.maxLength) EXCEPT
     !.bufferLength = @ + other.bufferLength,
     !.messages = other.messages,
     !.messageType = other.messageType,
     !.bufferPosition = 0]

(* The type is left as it is.                                              *)
ClearForNextMessage(b) ==
  [b EXCEPT !.messages = <<>>, !.bufferLength = 0, !.bufferPosition = 0]

SetMessageType(b, t) == [b EXCEPT !.messageType = t]

(* The guard of bufferLength compares an unsigned difference with 0: it    *)
(* holds always, and the difference wraps.                                 *)
Advance(b, n) ==
  [b EXCEPT !.bufferPosition = IF @ + n <= b.maxLength THEN @ + n ELSE b.maxLength,
            !.bufferLength = IF n <= @ THEN @ - n ELSE SizeMod - (n - @)]
-------------------------------------------------------------------------------
(* Reads and writes of the buffer stay inside the memory allocated for it. *)
Fits(b) ==
  /\ b.bufferPosition + b.bufferLength <= b.maxLength
  /\ b.maxLength <= b.allocated

(* The messages of a batch are of its type, which selects its subscribers, *)
(* or of none: a batch begun with such messages is labelled only by the    *)
(* first one that has a type.                                              *)
OfItsType(b) == \A k \in DOMAIN b.messages : b.messages[k].type \in {b.messageType, NoType}

(* A batch outgrows the limit by less than its last message.               *)
Bounded(b) ==
  b.messages # <<>> => b.bufferLength < GrowUntil + b.messages[Len(b.messages)].size
===============================================================================
