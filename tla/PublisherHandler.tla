--------------------------- MODULE PublisherHandler ---------------------------
(***************************************************************************)
(* publisher/TCPPublisherHandler.hpp, from the acknowledgment on: what one *)
(* publisher writes is read in chunks that end anywhere, parsed character  *)
(* by character, and pushed to the message queue in batches of one type.   *)
(*                                                                         *)
(* The steps inside a chunk are steps of their own here: they touch this   *)
(* handler only, and the queue, of which nothing is popped here.           *)
(***************************************************************************)
EXTENDS BatchBuffers

CONSTANTS
  Characters,   (* of what the publisher writes                            *)
  Bar,          (* the character '|'                                       *)
  Base,         (* base of the numerals, 10 in the code                    *)
  Numerals,     (* lengths as the publisher writes them                    *)
  Contents,     (* contents the publisher sends                            *)
  MaxMessages,  (* bound: messages it sends                                *)
  MaxReadBuf    (* MAX_READ_BUF, 8192 in the code                          *)

Text == Seq(Characters)

ASSUME PublisherAssumption ==
  /\ Bar \in Characters \ (0 .. Base - 1)
  /\ Base \in Nat \ {0, 1}
  /\ 0 .. Base - 1 \subseteq Characters
  /\ Numerals \subseteq Seq(0 .. Base - 1)
  /\ Types \subseteq Seq(Characters \ {Bar})
  /\ NoType = <<>>
  /\ Contents \subseteq Text
  /\ MaxMessages \in Nat
  /\ MaxReadBuf \in Nat \ {0}

VARIABLES
  event,       (* "ReceivePublisherData"; "Parse" inside forwardMessage;   *)
               (* or "Disconnected"                                        *)
  sent,        (* the messages the publisher writes                        *)
  stream,      (* what it wrote and the server did not read                *)
  chunk,       (* readBuffer                                               *)
  i,           (* how much of it is parsed                                 *)
  parseState, messageType, messageLengthBuffer, messageContent,
  messageContentLength, nbContentBytesRead,
  texts        (* the messages parsed, as they are appended to batches     *)

readVars == <<event, sent, stream, chunk>>
parserVars == <<parseState, messageType, messageLengthBuffer, messageContent,
                messageContentLength, nbContentBytesRead, texts>>
publisherVars == <<readVars, i, parserVars, bufferVars>>

(* std::stoul. *)
StoUL(digits) == FoldLeft(LAMBDA value, d : value * Base + d, 0, digits)

(* The messages a publisher may write: <<type, length, content>>. *)
WellFormed == {m \in Types \X Numerals \X Contents : StoUL(m[2]) = Len(m[3])}

MessageText(type, length, content) == type \o <<Bar>> \o length \o <<Bar>> \o content
Written(m) == MessageText(m[1], m[2], m[3])

(* The text of the first n messages, for each n. *)
TextOf(messages) ==
  LET text[n \in 0 .. Len(messages)] ==
        IF n = 0 THEN <<>> ELSE text[n - 1] \o Written(messages[n])
  IN  text

PublisherInit ==
  /\ event = "ReceivePublisherData"
  /\ sent \in SeqOf(WellFormed, MaxMessages)
  /\ stream = TextOf(sent)[Len(sent)]
  /\ chunk = <<>>
  /\ i = 0
  /\ parseState = "messageType"
  /\ messageType = <<>>
  /\ messageLengthBuffer = <<>>
  /\ messageContent = <<>>
  /\ messageContentLength = 0
  /\ nbContentBytesRead = 0
  /\ texts = <<>>
  /\ BufferInit
-------------------------------------------------------------------------------
(* onReceiveDataComplete with n characters, up to forwardMessage.          *)
OnReceiveData(n) ==
  /\ event = "ReceivePublisherData"
  /\ event' = "Parse"
  /\ chunk' = SubSeq(stream, 1, n)
  /\ stream' = SubSeq(stream, n + 1, Len(stream))
  /\ UNCHANGED <<sent, i, parserVars, bufferVars>>

(* With an error, or the end: what was collected stays where it is.        *)
OnReceiveFailed ==
  /\ event = "ReceivePublisherData"
  /\ event' = "Disconnected"
  /\ UNCHANGED <<sent, stream, chunk, i, parserVars, bufferVars>>

(* One round of forwardMessage's loop, by parse state.                     *)
ParseMessageType ==
  /\ parseState = "messageType"
  /\ IF chunk[i + 1] = Bar
     THEN parseState' = "messageContentLength" /\ UNCHANGED messageType
     ELSE messageType' = Append(messageType, chunk[i + 1]) /\ UNCHANGED parseState
  /\ i' = i + 1
  /\ UNCHANGED <<messageLengthBuffer, messageContent, messageContentLength,
                 nbContentBytesRead, texts, bufferVars>>

ParseContentLength ==
  /\ parseState = "messageContentLength"
  /\ IF chunk[i + 1] = Bar
     THEN /\ messageContentLength' = StoUL(messageLengthBuffer)
          /\ parseState' = "messageContent"
          /\ UNCHANGED messageLengthBuffer
     ELSE /\ messageLengthBuffer' = Append(messageLengthBuffer, chunk[i + 1])
          /\ UNCHANGED <<messageContentLength, parseState>>
  /\ i' = i + 1
  /\ UNCHANGED <<messageType, messageContent, nbContentBytesRead, texts, bufferVars>>

(* Mutant: the length is not reset. *)
ResetParserKeepsLength ==
  /\ parseState' = "messageType"
  /\ messageType' = <<>>
  /\ messageContent' = <<>>
  /\ messageContentLength' = 0
  /\ nbContentBytesRead' = 0
  /\ UNCHANGED messageLengthBuffer

ResetParser ==
  /\ parseState' = "messageType"
  /\ messageType' = <<>>
  /\ messageLengthBuffer' = <<>>
  /\ messageContent' = <<>>
  /\ messageContentLength' = 0
  /\ nbContentBytesRead' = 0

(* "Done parsing": the message goes to its batch, and the parser starts    *)
(* again.                                                                  *)
CompleteMessage(content, endsChunk) ==
  LET message == MessageText(messageType, messageLengthBuffer, content)
  IN  /\ texts' = Append(texts, message)
      /\ CollectMessage(messageType, Len(message), endsChunk)
      /\ ResetParser

(* Mutants: what was read of the content before is not counted, the last   *)
(* message of a chunk is not known.                                        *)
NbCharsNeededAnew == messageContentLength

NbCharsNeeded == messageContentLength - nbContentBytesRead

EndsChunkNever(n) == FALSE

(* With n = 0 the loop's index steps back over the character it stands on, *)
(* which is then read again; from 0 it wraps, and the loop's increment     *)
(* wraps it back.  It then ends no chunk.                                  *)
EndsChunk(n) == i + n = Len(chunk)

(* The content is taken in bulk, as far as the chunk goes.                 *)
ParseContent ==
  LET n       == IF i + NbCharsNeeded <= Len(chunk) THEN NbCharsNeeded ELSE Len(chunk) - i
      content == messageContent \o SubSeq(chunk, i + 1, i + n)
  IN  /\ parseState = "messageContent"
      /\ i' = i + n
      /\ IF nbContentBytesRead + n = messageContentLength
         THEN CompleteMessage(content, EndsChunk(n))
         ELSE /\ messageContent' = content
              /\ nbContentBytesRead' = nbContentBytesRead + n
              /\ UNCHANGED <<parseState, messageType, messageLengthBuffer,
                             messageContentLength, texts, bufferVars>>

ForwardMessage ==
  /\ event = "Parse"
  /\ i < Len(chunk)
  /\ ParseMessageType \/ ParseContentLength \/ ParseContent
  /\ UNCHANGED readVars

(* forwardMessage returns, and the next read begins.                       *)
BeginReceiveData ==
  /\ event = "Parse"
  /\ i = Len(chunk)
  /\ event' = "ReceivePublisherData"
  /\ chunk' = <<>>
  /\ i' = 0
  /\ UNCHANGED <<sent, stream, parserVars, bufferVars>>

PublisherNext ==
  \/ \E n \in 1 .. Len(stream) : n <= MaxReadBuf /\ OnReceiveData(n)
  \/ OnReceiveFailed
  \/ ForwardMessage
  \/ BeginReceiveData

PublisherSpec == PublisherInit /\ [][PublisherNext]_publisherVars
-------------------------------------------------------------------------------
(* However the reads cut what the publisher wrote, the messages parsed are *)
(* those it wrote, in order and to the byte, bars in a content included.   *)
ParsedAsWritten ==
  texts = [k \in 1 .. parsed |-> Written(sent[k])]

(* Everything that was read is parsed, but a message without content waits *)
(* for the character after it.                                             *)
ReadIsParsed ==
  event = "ReceivePublisherData" /\ stream = <<>> =>
    \/ parsed = Len(sent)
    \/ parsed = Len(sent) - 1 /\ sent[Len(sent)][3] = <<>>

(* No batch is held back between messages: one is only kept while part of  *)
(* the next message has been read.                                         *)
HeldOnlyInsideMessage ==
  event = "ReceivePublisherData" /\ parseState = "messageType" /\ messageType = <<>>
    => currentBatch.messages = <<>>

(* The batches, in the order they will be sent in. *)
Batches == Append(queue, currentBatch)

(* Batches hold the messages in the order they were written, none twice,   *)
(* each with the type it was written with and whole.                       *)
BatchedInOrder ==
  \A k, l \in DOMAIN Batches :
    \A x \in DOMAIN Batches[k].messages, y \in DOMAIN Batches[l].messages :
      LET m == Batches[k].messages[x]
      IN  /\ m.id \in 1 .. parsed
          /\ m.type = sent[m.id][1] /\ m.size = Len(Written(sent[m.id]))
          /\ k < l \/ (k = l /\ x < y) => m.id < Batches[l].messages[y].id
-------------------------------------------------------------------------------
(* What TCPPublisherHandler.hpp:110 says of forwardMessage, "forwards the  *)
(* message to subscribers", and the code does not do:                      *)
(* the result of append is ignored.  A batch of exactly GROW_UNTIL_LENGTH  *)
(* bytes is not full for isFull, but append refuses it.                    *)
EveryMessageIsBatched ==
  \A n \in 1 .. parsed : \E k \in DOMAIN Batches : \E x \in DOMAIN Batches[k].messages :
    Batches[k].messages[x].id = n
-------------------------------------------------------------------------------
(* The inductive invariant of the proofs.  The text written, and how much  *)
(* of it is read and parsed.                                               *)
Whole == TextOf(sent)[Len(sent)]
NbRead == Len(Whole) - Len(stream)
Position == NbRead - Len(chunk) + i
Start(n) == Len(TextOf(sent)[n])

(* What was read, and what was not, are the rest of the text. *)
ReadInv ==
  /\ event \in {"ReceivePublisherData", "Parse", "Disconnected"}
  /\ chunk \in Text /\ stream \in Text
  /\ Len(chunk) <= NbRead
  /\ \A j \in 1 .. Len(chunk) : chunk[j] = Whole[NbRead - Len(chunk) + j]
  /\ \A j \in 1 .. Len(stream) : stream[j] = Whole[NbRead + j]
  /\ i \in 0 .. Len(chunk)
  /\ event # "Parse" => chunk = <<>>

(* The parser stands inside message m, which has as much of it as was      *)
(* parsed; it stays at the end of a content without characters only.       *)
InContent(m) ==
  /\ messageType = m[1] /\ messageLengthBuffer = m[2]
  /\ messageContentLength = Len(m[3])
  /\ nbContentBytesRead \in 0 .. Len(m[3])
  /\ nbContentBytesRead = Len(m[3]) => m[3] = <<>>
  /\ messageContent = SubSeq(m[3], 1, nbContentBytesRead)
  /\ Position = Start(parsed) + Len(m[1]) + Len(m[2]) + 2 + nbContentBytesRead

NoContentYet ==
  messageContent = <<>> /\ messageContentLength = 0 /\ nbContentBytesRead = 0

InLength(m) ==
  /\ messageType = m[1] /\ NoContentYet
  /\ Len(messageLengthBuffer) <= Len(m[2])
  /\ messageLengthBuffer = SubSeq(m[2], 1, Len(messageLengthBuffer))
  /\ Position = Start(parsed) + Len(m[1]) + 1 + Len(messageLengthBuffer)

InType(m) ==
  /\ messageLengthBuffer = <<>> /\ NoContentYet
  /\ Len(messageType) <= Len(m[1])
  /\ messageType = SubSeq(m[1], 1, Len(messageType))
  /\ Position = Start(parsed) + Len(messageType)

(* Between two messages, the parser has nothing. *)
BetweenMessages ==
  /\ parseState = "messageType" /\ messageType = <<>>
  /\ messageLengthBuffer = <<>> /\ NoContentYet
  /\ Position = Start(parsed)

ParserInv ==
  /\ sent \in Seq(WellFormed) /\ Len(sent) <= MaxMessages
  /\ parsed \in 0 .. Len(sent)
  /\ messageType \in Text /\ messageLengthBuffer \in Text /\ messageContent \in Text
  /\ IF parsed = Len(sent) THEN BetweenMessages
     ELSE LET m == sent[parsed + 1]
          IN  \/ parseState = "messageType" /\ InType(m)
              \/ parseState = "messageContentLength" /\ InLength(m)
              \/ parseState = "messageContent" /\ InContent(m)

(* When all that was read is parsed and ends a message, no batch is held.  *)
HeldInv ==
  i = Len(chunk) /\ parseState = "messageType" /\ messageType = <<>>
    => currentBatch.messages = <<>>

PublisherInv ==
  /\ ReadInv /\ ParserInv /\ ParsedAsWritten /\ HeldInv
  /\ BufferInv /\ BatchedInOrder /\ Len(queue) <= 2 * parsed
===============================================================================
