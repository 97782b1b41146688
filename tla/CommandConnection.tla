-------------------------- MODULE CommandConnection --------------------------
(***************************************************************************)
(* A command connection, character by character: the reads of its          *)
(* handshake (PubSubHandler.hpp) and of its commands (CommandHandler.hpp)  *)
(* are cut anywhere; the commands are split as StringUtils.hpp does and    *)
(* carried out on the subscriptions of one subscriber, whose thread sweeps *)
(* them meanwhile and adds those that were left for it before it came.     *)
(*                                                                         *)
(* The peer writes its intent and name at once and each batch of commands  *)
(* when it has been acknowledged once more.  A read of 0 bytes inside the  *)
(* handshake is PubSubHandler's.  A command for another name goes to the   *)
(* pending list, which CommandHandler models.                              *)
(***************************************************************************)
EXTENDS Subscriptions, StringUtils

CONSTANTS
  Characters,          (* of what the peer writes                          *)
  Intent, Name,        (* what it writes first; the name without \r        *)
  Commands,            (* the commands it writes then: sequences of fields *)
  BatchEnds,           (* how many of them it has written when it has been *)
                       (* acknowledged once, twice, ...                    *)
  Taken,               (* what takePendingSubscriptions returns to the     *)
                       (* subscriber, name by name                         *)
  Cr, Bar, Comma,      (* the separators                                   *)
  Blanks, Plus, Minus, (* what may stand before the digits of a number     *)
  Subscribe,           (* the text "subscribe"                             *)
  SubscriberName,      (* the name of the connected subscriber             *)
  MaxReadBuf           (* 8192 in the code                                 *)

ASSUME ConnectionAssumption ==
  /\ Taken \in Seq([sub : Subs, timeout : 0 .. ClockMod - 1])
  /\ {Cr, Bar, Comma} \subseteq Characters /\ Cr # Bar
  /\ Blanks \cup {Plus, Minus} \subseteq Characters
  /\ Intent \in Seq(Characters) /\ Len(Intent) = 2
  /\ Name \in Seq(Characters \ {Cr})
  /\ Commands \in Seq(Seq(Seq(Characters \ {Cr, Bar})) \ {<<>>})
  /\ BatchEnds \in Seq(0 .. Len(Commands))
  /\ MaxReadBuf \in Nat \ {0}

VARIABLES
  event,       (* the handler's event, "processing" inside processCommand  *)
  read,        (* number of characters read                                *)
  intent, clientName, command,   (* the handler's strings                  *)
  todo,        (* additions processCommand has still to make               *)
  acks,        (* acknowledgements sent                                    *)
  executed,    (* history: the subscribe commands processCommand accepted  *)
  taken        (* of Taken, what the subscriber has still to add           *)

connectionVars == <<event, read, intent, clientName, command, todo, acks, executed>>
handshakeVars == <<intent, clientName>>

(***************************************************************************)
(* What the peer writes                                                    *)
(***************************************************************************)
Lines == [i \in DOMAIN Commands |-> Join(Commands[i], Bar)]
Handshake == Intent \o Name \o <<Cr>>
Text == Handshake \o Concat(Ended(Lines, Cr))
(* Where the text of the first n commands ends. *)
EndOf(n) == Len(Handshake) + Len(Concats(Ended(Lines, Cr))[n])
(* How far the peer has written when it has been acknowledged n times. *)
WrittenAfter(n) == EndOf(IF n = 0 THEN 0 ELSE BatchEnds[n])

Unread == WrittenAfter(IF acks < Len(BatchEnds) THEN acks ELSE Len(BatchEnds)) - read

(* The next n characters, for a read of at most `size`. *)
Chars(n) == SubSeq(Text, read + 1, read + n)
Received(size, n) ==
  /\ n <= size /\ n <= Unread
  /\ read' = read + n
EndsWithCr(text) == text # <<>> /\ Last(text) = Cr

(* How many characters at the beginning of the text are of a set. *)
Span(text, set) ==
  CHOOSE n \in 0 .. Len(text) :
    /\ \A i \in 1 .. n : text[i] \in set
    /\ n < Len(text) => text[n + 1] \notin set
From(text, n) == SubSeq(text, n + 1, Len(text))

(* The number the leading digits make, 0 without any. *)
Digits == 0 .. 9
Number(text) ==
  LET value[i \in 0 .. Span(text, Digits)] ==
        IF i = 0 THEN 0 ELSE 10 * value[i - 1] + text[i]
  IN  value[Span(text, Digits)]

(* stoull skips blanks and takes a sign; one of minus wraps the number.  It*)
(* throws without digits, or beyond an unsigned long, and the timeout      *)
(* becomes 0.                                                              *)
Stoull(text) ==
  LET signed == From(text, Span(text, Blanks))
      isSigned == signed # <<>> /\ Head(signed) \in {Plus, Minus}
      value  == Number(IF isSigned THEN Tail(signed) ELSE signed)
  IN  IF value \notin 0 .. ClockMod - 1 THEN 0
      ELSE IF isSigned /\ Head(signed) = Minus THEN (ClockMod - value) % ClockMod ELSE value
-------------------------------------------------------------------------------
ConnectionInit ==
  /\ event = "ReceiveIntent" /\ read = 0
  /\ intent = <<>> /\ clientName = <<>> /\ command = <<>>
  /\ todo = <<>> /\ acks = 0 /\ executed = <<>>
  /\ taken = Taken

(* Mutant: the intent is taken to be whole. *)
OnIntentReceivedOnce(n) ==
  /\ event = "ReceiveIntent"
  /\ Received(2, n)
  /\ intent' = intent \o Chars(n)
  /\ event' = "ReceiveName"
  /\ UNCHANGED <<clientName, command, todo, acks, executed>>

(* Each read is of two characters, even when only one is missing. *)
OnIntentReceived(n) ==
  /\ event = "ReceiveIntent"
  /\ Received(2, n)
  /\ intent' = intent \o Chars(n)
  /\ event' = IF Len(intent') < 2 THEN "ReceiveIntent" ELSE "ReceiveName"
  /\ UNCHANGED <<clientName, command, todo, acks, executed>>

OnReceiveNameComplete(n) ==
  /\ event = "ReceiveName"
  /\ Received(MaxReadBuf, n)
  /\ LET name == clientName \o Chars(n)
     IN  IF EndsWithCr(name)
         THEN clientName' = Front(name) /\ event' = "SendAck"
         ELSE clientName' = name /\ UNCHANGED event
  /\ UNCHANGED <<intent, command, todo, acks, executed>>

OnSendAckComplete ==
  /\ event = "SendAck"
  /\ acks' = acks + 1
  /\ event' = "ReceivePublisherData"
  /\ UNCHANGED <<read, handshakeVars, command, todo, executed>>

(* processCommand splits the text and takes the commands that have four    *)
(* fields and say "subscribe"; addSubscriptions splits the names.          *)
IsSubscribe(fields) == Len(fields) = 4 /\ fields[2] = Subscribe
CarriedOut(fields) ==
  IF IsSubscribe(fields)
  THEN <<[name |-> fields[1], subs |-> Split(fields[3], Comma), timeout |-> Stoull(fields[4])]>>
  ELSE <<>>
Accepted(text) ==
  LET lines == Split(text, Cr)
  IN  Concat([i \in DOMAIN lines |-> CarriedOut(Split(lines[i], Bar))])

(* The additions they make to the subscriber of that name. *)
AddedBy(line) ==
  IF line.name = SubscriberName
  THEN [k \in DOMAIN line.subs |-> [sub |-> line.subs[k], timeout |-> line.timeout]]
  ELSE <<>>
Additions(accepted) == Concat([i \in DOMAIN accepted |-> AddedBy(accepted[i])])

ProcessCommand(text) ==
  LET accepted == Accepted(text)
  IN  /\ event' = "processing"
      /\ executed' = executed \o accepted
      /\ todo' = Additions(accepted)
      /\ command' = <<>>

(* Mutant: what was read before is forgotten. *)
OnReceiveDataCompleteAnew(n) ==
  /\ event = "ReceivePublisherData"
  /\ Received(MaxReadBuf, n)
  /\ IF EndsWithCr(Chars(n))
     THEN ProcessCommand(Front(Chars(n)))
     ELSE command' = Chars(n) /\ UNCHANGED <<event, executed, todo>>
  /\ UNCHANGED <<handshakeVars, acks>>

OnReceiveDataComplete(n) ==
  /\ event = "ReceivePublisherData"
  /\ Received(MaxReadBuf, n)
  /\ LET text == command \o Chars(n)
     IN  IF EndsWithCr(text)
         THEN ProcessCommand(Front(text))
         ELSE command' = text /\ UNCHANGED <<event, executed, todo>>
  /\ UNCHANGED <<handshakeVars, acks>>

(* A read or a request of the handshake fails, or the peer is gone. *)
ConnectionEnds ==
  /\ event \in {"ReceiveIntent", "ReceiveName", "ReceivePublisherData"}
  /\ event' = "Disconnected"
  /\ UNCHANGED <<read, handshakeVars, command, todo, acks, executed>>

(* Nothing is left to add: beginSendAck. *)
CommandsDone ==
  /\ event = "processing"
  /\ todo = <<>> /\ adding["command"] = NotAdding
  /\ event' = "SendAck"
  /\ UNCHANGED <<read, handshakeVars, command, todo, acks, executed>>

(* The next name of addSubscriptions. *)
NextAddition ==
  /\ event = "processing"
  /\ todo # <<>> /\ adding["command"] = NotAdding
  /\ todo' = Tail(todo)
  /\ IF Head(todo).sub \in Subscribed
     THEN UNCHANGED <<now, mapVars>>
     ELSE BeginAdd("command", Head(todo).sub, Head(todo).timeout)
  /\ UNCHANGED <<event, read, handshakeVars, command, acks, executed>>

Reading ==
  /\ \E n \in 1 .. Unread : \/ OnIntentReceived(n)
                            \/ OnReceiveNameComplete(n)
                            \/ OnReceiveDataComplete(n)
  /\ UNCHANGED <<now, mapVars>>
CommandThread ==
  \/ (OnSendAckComplete \/ CommandsDone) /\ UNCHANGED <<now, mapVars>>
  \/ NextAddition
  \/ AddingThread("command") /\ UNCHANGED connectionVars

(* afterSendAckComplete: the next of the subscriptions taken is added.     *)
NextTaken ==
  /\ taken # <<>> /\ sweep = NoSweep /\ adding["subscriber"] = NotAdding
  /\ taken' = Tail(taken)
  /\ IF Head(taken).sub \in Subscribed
     THEN UNCHANGED <<now, mapVars>>
     ELSE BeginAdd("subscriber", Head(taken).sub, Head(taken).timeout)

(* The subscriber is swept before it has its acknowledgment, too, but not  *)
(* while it adds what was taken for it.                                    *)
SubscriberThread ==
  \/ taken \in {Taken, <<>>} /\ Sweeping /\ UNCHANGED taken
  \/ NextTaken
  \/ AddingThread("subscriber") /\ UNCHANGED taken

(* A batch comes, once the handshake is over. *)
Delivery ==
  /\ taken = <<>>
  /\ \E t \in Types : PushMessageBatch(t)
  /\ UNCHANGED taken

commandVars == <<now, mapVars, connectionVars, taken>>

Init == MapInit /\ ConnectionInit
Next ==
  \/ Reading /\ UNCHANGED taken
  \/ CommandThread /\ UNCHANGED taken
  \/ ConnectionEnds /\ UNCHANGED <<now, mapVars, taken>>
  \/ (SubscriberThread \/ Delivery) /\ UNCHANGED connectionVars
  \/ Tick /\ UNCHANGED <<connectionVars, taken>>

(* A Reading step, named by what it does to `read`. *)
SomethingIsRead ==
  /\ event \in {"ReceiveIntent", "ReceiveName", "ReceivePublisherData"}
  /\ read' \in read + 1 .. read + Unread

(* The threads run and time passes; batches need not come.  What was       *)
(* written is read.                                                        *)
Spec ==
  /\ Init /\ [][Next]_commandVars
  /\ WF_read(SomethingIsRead)
  /\ WF_commandVars(CommandThread /\ UNCHANGED taken)
  /\ WF_commandVars(SubscriberThread /\ UNCHANGED connectionVars)
  /\ WF_commandVars(Tick /\ UNCHANGED <<connectionVars, taken>>)
-------------------------------------------------------------------------------
(* What a peer means by its commands: those of four fields, the last not   *)
(* empty, or of five with an empty one, whose second is "subscribe"; and   *)
(* by its names, a separator at their end left out.                        *)
Meant(fields) == IF Last(fields) = <<>> THEN Front(fields) ELSE fields
MeantCommands ==
  Concat([i \in DOMAIN Commands |->
            IF IsSubscribe(Meant(Commands[i])) THEN <<Meant(Commands[i])>> ELSE <<>>])
MeantNames(field) == IF field # <<>> /\ Last(field) = Comma THEN Front(field) ELSE field

(* Whatever reads they arrive in, the commands are carried out as they     *)
(* were written, in their order, none twice and none cut in two.           *)
CommandsAsWritten ==
  /\ Len(executed) <= Len(MeantCommands)
  /\ \A i \in DOMAIN executed :
       /\ executed[i].name = MeantCommands[i][1]
       /\ executed[i].timeout = Stoull(MeantCommands[i][4])
       /\ Join(executed[i].subs, Comma) = MeantNames(MeantCommands[i][3])

(* Intent and name are the characters that were read, and the name is what *)
(* the peer wrote unless its intent came in two reads: then the second has *)
(* taken the first character of the name.                                  *)
NameAsWritten ==
  event \notin {"ReceiveIntent", "ReceiveName", "Disconnected"} =>
    /\ intent \o clientName = Intent \o Name
    /\ Len(intent) \in {2, 3}

(* Some command asked for it, or it was left for the subscriber. *)
WasCommanded(s, timeout) ==
  \/ \E i \in DOMAIN executed :
       /\ executed[i].name = SubscriberName
       /\ \E k \in DOMAIN executed[i].subs : executed[i].subs[k] = s
       /\ executed[i].timeout = timeout
  \/ \E k \in DOMAIN Taken : Taken[k] = [sub |-> s, timeout |-> timeout]

(* An item of the map that neither thread is storing into is what some     *)
(* command asked for this subscriber: neither a sweep that met it half     *)
(* stored nor the other thread's addition of the same name has left it     *)
(* with a timeout nobody gave, or marked.                                  *)
EntriesWereCommanded ==
  \A s \in Subscribed :
    (\A th \in Threads : ~IsAdding(th, s)) =>
      /\ WasCommanded(s, subscriptions[s].timeout)
      /\ ~subscriptions[s].timeoutExpired \/ sweep.step = "visit"

(* All commands are carried out, and acknowledged, unless the connection   *)
(* ends: no cut of the reads leaves the handler without a request.         *)
CommandsAreExecuted ==
  <>(\/ event = "Disconnected"
     \/ Len(executed) = Len(MeantCommands) /\ acks > Len(BatchEnds))
-------------------------------------------------------------------------------
(* The names the peer subscribes to are names a subscription can have.     *)
ASSUME NamesAssumption ==
  \A i \in DOMAIN Commands :
    LET fields == Meant(Commands[i])
        names  == Split(fields[3], Comma)
    IN  IsSubscribe(fields) => \A k \in DOMAIN names : names[k] \in Subs

(* The inductive invariant.  What was read up to the end of the name is    *)
(* intent and name. *)
HandshakeInv ==
  /\ event \in {"ReceiveIntent", "ReceiveName", "SendAck", "ReceivePublisherData",
                "processing", "Disconnected"}
  /\ acks \in Nat
  /\ intent \in Seq(Characters) /\ clientName \in Seq(Characters)
  /\ event \in {"ReceiveIntent", "ReceiveName"} =>
       /\ acks = 0
       /\ read <= Len(Handshake)
       /\ intent \o clientName = SubSeq(Text, 1, read)
  /\ event = "ReceiveIntent" => Len(intent) < 2 /\ clientName = <<>>
  /\ event = "ReceiveName" => Len(intent) \in {2, 3}
  /\ NameAsWritten

(* What each of the commands orders. *)
Orders == [i \in DOMAIN Commands |-> CarriedOut(Meant(Commands[i]))]

(* The first n commands were carried out, and what was read behind them is *)
(* kept until its end is read.                                             *)
CommandsInv ==
  /\ read \in 0 .. Len(Text)
  /\ \E n \in 0 .. Len(Commands) :
       /\ executed = Concats(Orders)[n]
       /\ command = SubSeq(Text, EndOf(n) + 1, read)
       /\ event \in {"ReceiveIntent", "ReceiveName"} => n = 0
       /\ event \in {"SendAck", "processing"} => read = EndOf(n)
       /\ event = "ReceivePublisherData" => EndOf(n) <= read

(* What is still to be added, is being added or was added was commanded.   *)
EntriesInv ==
  /\ todo \in Seq([sub : Subs, timeout : Nat])
  /\ \A k \in DOMAIN todo : WasCommanded(todo[k].sub, todo[k].timeout)
  /\ taken \in Seq([sub : Subs, timeout : Nat])
  /\ \A k \in DOMAIN taken : \E j \in DOMAIN Taken : taken[k] = Taken[j]
  /\ \A th \in Threads :
       adding[th] # NotAdding => WasCommanded(adding[th].sub, adding[th].timeout)
  /\ \A s \in Subscribed :
       \/ WasCommanded(s, subscriptions[s].timeout)
       \/ \E th \in Threads : IsAdding(th, s) /\ adding[th].step = "timeout"

ConnectionInv == MapInv /\ HandshakeInv /\ CommandsInv /\ EntriesInv
===============================================================================
