-------------------------------- MODULE Broker --------------------------------
(***************************************************************************)
(* The server as main.cpp starts it, seen from a subscriber: the publisher *)
(* thread pushes batches, the subscriber thread delivers them, the command *)
(* thread subscribes clients, and the kernel completes requests.           *)
(***************************************************************************)
EXTENDS CommandHandler

vars == <<queueVars, connVars, subVars, serverVars, commandVars>>

TypeOK ==
  /\ QueueTypeOK
  /\ ConnTypeOK
  /\ SubTypeOK
  /\ ServerTypeOK
  /\ CommandTypeOK

Init ==
  /\ QueueInit
  /\ ConnInit
  /\ SubInit
  /\ ServerInit
  /\ CommandInit

PublisherThread ==
  /\ Announce \/ \E t \in Types, n \in Lengths : Push(t, n)
  /\ UNCHANGED <<connVars, subVars, serverVars, commandVars>>

KernelStep(c) ==
  /\ Kernel(c)
  /\ UNCHANGED <<sendVars, subscriptions, pendingSubscriptions, taken,
                 queueVars, serverVars, commandVars>>

Next ==
  \/ PublisherThread
  \/ SubscriberThread /\ UNCHANGED commandVars
  \/ CommandThread
  \/ \E c \in Clients : KernelStep(c)

Spec == Init /\ [][Next]_vars

(* Threads are scheduled.  A command need not come, nor a batch: only what *)
(* was begun is finished.  The kernel completes what it was given: a peer  *)
(* that sends nothing for ever, or reads nothing for ever, is left out.    *)
FairSpec ==
  /\ Spec
  /\ WF_vars(SubscriberThread /\ UNCHANGED commandVars)
  /\ \A c \in Clients : SF_vars(PollClient(c) /\ UNCHANGED commandVars)
  /\ WF_vars(Announce /\ UNCHANGED <<connVars, subVars, serverVars, commandVars>>)
  /\ \A c \in Clients : WF_vars(KernelStep(c))
-------------------------------------------------------------------------------
(* Every request of client c that is not yet reaped.                       *)
Outstanding(c) ==
  {sq[c][i] : i \in DOMAIN sq[c]} \cup
  {[op |-> cq[c][i].op, item |-> cq[c][i].item] : i \in DOMAIN cq[c]}

OpsOf(ev) ==
  CASE ev = "SetNonblockingPublisher" -> {"epoll_ctl"}
    [] ev = "ReceiveIntent"           -> {"recv_intent"}
    [] ev = "ReceiveName"             -> {"recv_name"}
    [] ev = "SendAck"                 -> {"send_ack"}
    [] ev = "SendData"                -> {"send"}
    [] ev = "Disconnected"            -> {"close"}
    [] OTHER                          -> {}

(* A connection in its handshake, or past it, has at most one request with *)
(* the kernel, the one its `event` stands for: PubSubHandler::handleEvent  *)
(* has nothing but `event` to tell what a completion belongs to.           *)
OneRequest ==
  \A c \in Clients :
    NameComplete(c) \/ event[c] \in HandshakeEvents =>
      /\ Len(sq[c]) + Len(cq[c]) <= 1
      /\ \A q \in Outstanding(c) : q.op \in OpsOf(event[c])

(* The buffer a send was given stays in place until its completion is      *)
(* reaped: no batch fanned out meanwhile and no stray completion replaces  *)
(* or advances currentItem under it.                                       *)
SendReadsCurrentItem ==
  \A c \in Clients : \A q \in Outstanding(c) :
    q.op = "send" => q.item = currentItem[c] /\ q.item.len > 0

(* Batches queue only behind one being sent: sendNextPendingMessageBatch   *)
(* is called from a completion only, so a list nobody sends from would     *)
(* stay for ever.                                                          *)
BacklogHasSender ==
  \A c \in Clients : pendingItems[c] # <<>> => HasContent(c)

(* A client that gave its whole name is never sent to once its descriptor  *)
(* is closed, when the number may already be somebody else's connection:   *)
(* drainQueue tests isDisconnected only, which is set after the close.     *)
NoSendOnClosedSocket ==
  \A c \in Clients :
    NameComplete(c) /\ (\E i \in DOMAIN sq[c] : sq[c][i].op = "send") => fdOpen[c]

(* Byte y may come right after byte x: the next byte of the same batch, or *)
(* the first one of a batch published later.                               *)
Follows(x, y) ==
  \/ y = <<x[1], x[2] + 1>>
  \/ y[1] > x[1] /\ y[2] = 0

(* What a subscriber receives is its batches in the order they were        *)
(* published, none begun before the one before it is complete, although a  *)
(* send may take any part of what it is given and sends may fail.          *)
WireInOrder ==
  \A c \in Clients : \A k \in 1 .. Len(wire[c]) - 1 : Follows(wire[c][k], wire[c][k + 1])

(* drainQueue never meets a client in its handshake, whose pending request *)
(* a send would then be confused with: allIdle keeps the thread polling.   *)
NoFanOutInHandshake ==
  pc = "drain" => \A c \in clients : event[c] \notin HandshakeEvents

(* A subscriber holds a subscription only if a command asked for it under  *)
(* what of his name had been read by some moment, whichever of the command,*)
(* the list and his handshake came first: never one for a name that is not *)
(* even the beginning of his.  (One for somebody whose name is the         *)
(* beginning of his he may get, while clientName is being filled.)         *)
SubscriptionWasCommanded ==
  \A c \in Clients : \A s \in subscriptions[c] :
    \E k \in 1 .. nameReads[c] : <<NameReads[c][k], s>> \in issued

(* A handler that was told its connection is closed submits nothing more,  *)
(* although batches of its subscriptions go on coming and completions of   *)
(* earlier requests may still arrive.                                      *)
DisconnectedIsSilent ==
  [][\A c \in Clients : isDisconnected[c] =>
       isDisconnected'[c] /\ Len(sq'[c]) <= Len(sq[c])]_vars
-------------------------------------------------------------------------------
(* The inductive invariant the proofs rest on.                             *)

(* How far the name is tells how far the handshake is.                     *)
NameInv(c) ==
  /\ nameReads[c] <= Len(NameReads[c])
  /\ event[c] \in {"NotSet", "SetNonblockingPublisher", "ReceiveIntent", "ReceiveName"}
       => ~NameComplete(c)
  /\ event[c] = "SendAck" => NameComplete(c)

(* What `event` says about the batches a client holds, its descriptor and  *)
(* its requests.  A client whose connection failed before its name was     *)
(* complete may be subscribed under the part that came, and be sent to     *)
(* while it is being closed: only then are two requests outstanding.       *)
EventInv(c) ==
  /\ c \in clients <=> event[c] # "NotSet"
  /\ event[c] = "NotSet" => Len(sq[c]) = 0 /\ Len(cq[c]) = 0
  /\ event[c] \in HandshakeEvents \cup {"NotSet", "Ready"} => ~HasContent(c)
  /\ event[c] = "SendData" => HasContent(c)
  /\ NameComplete(c) /\ event[c] = "Disconnected" => HasContent(c)
  /\ (NameComplete(c) \/ event[c] \in HandshakeEvents) /\ event[c] # "Disconnected"
       => fdOpen[c]
  /\ isDisconnected[c] => event[c] = "Disconnected"
  /\ event[c] \in {"Ready", "SendData", "Disconnected"} =>
       /\ \A i \in DOMAIN sq[c] : sq[c][i].op \in {"send", "close"}
       /\ \A i \in DOMAIN cq[c] : cq[c][i].op \in {"send", "close"}

RequestInv(c) ==
  NameComplete(c) \/ event[c] \in HandshakeEvents =>
    /\ Len(sq[c]) + Len(cq[c]) <= 1
    /\ \A i \in DOMAIN sq[c] : sq[c][i].op \in OpsOf(event[c])
    /\ \A i \in DOMAIN cq[c] : cq[c][i].op \in OpsOf(event[c])

(* At most one send is outstanding, and it is for currentItem.             *)
SendInv(c) ==
  /\ \A i \in DOMAIN sq[c] : sq[c][i].op = "send" =>
       /\ sq[c][i].item = currentItem[c]
       /\ sq[c][i].item.len > 0
       /\ \A j \in DOMAIN sq[c] : sq[c][j].op = "send" => j = i
       /\ \A j \in DOMAIN cq[c] : cq[c][j].op # "send"
  /\ \A i \in DOMAIN cq[c] : cq[c][i].op = "send" =>
       /\ cq[c][i].item = currentItem[c]
       /\ cq[c][i].item.len > 0
       /\ cq[c][i].res <= cq[c][i].item.len
       /\ \A j \in DOMAIN cq[c] : cq[c][j].op = "send" => j = i
  /\ \A i \in DOMAIN cq[c] : cq[c][i].op = "close" => cq[c][i].res <= 0

BacklogInv(c) ==
  /\ pendingItems[c] # <<>> => HasContent(c)
  /\ \A i \in DOMAIN pendingItems[c] : pendingItems[c][i].len > 0

(* The subscriber thread leaves the polling loop only when no handshake is *)
(* under way, and none begins before it polls again.                       *)
GateInv == pc \in {"wait", "drain"} => \A c \in clients : event[c] \notin HandshakeEvents

ClientInv(c) == NameInv(c) /\ EventInv(c) /\ RequestInv(c) /\ SendInv(c) /\ BacklogInv(c)

(* Every variable has its type, the gate holds, and what a handler's event *)
(* says of its name, its requests, its batches and its descriptor is so.   *)
IInv == TypeOK /\ GateInv /\ \A c \in Clients : ClientInv(c)

(* Every subscription on its way to a subscriber, in the command thread's  *)
(* hands, in the list or taken out of it, was commanded under the name it  *)
(* is looked for with.                                                     *)
CommandedInv ==
  /\ SubscriptionWasCommanded
  /\ scan.active => <<scan.name, scan.sub>> \in issued
  /\ \A p \in pendingSubscriptions \ {MovedFrom} : <<p.name, p.sub>> \in issued
  /\ pc = "take" =>
       /\ taker \in Clients
       /\ nameReads[taker] > 0
       /\ \A s \in taken : <<ClientName(taker), s>> \in issued

(* Bytes the kernel took are accounted for by the handler they belong to,  *)
(* whatever other completions it is given before: a close that fails finds *)
(* the descriptor closed, and then no send takes anything any more.        *)
TakenInv(c) ==
  /\ \A i \in DOMAIN cq[c] : cq[c][i].op = "send" /\ cq[c][i].res > 0 =>
       /\ event[c] = "SendData"
       /\ \A j \in DOMAIN cq[c] : j < i => cq[c][j].res >= 0
  /\ \A i \in DOMAIN cq[c] : cq[c][i].op = "close" /\ cq[c][i].res < 0 => ~fdOpen[c]
  /\ \A i \in DOMAIN sq[c] : sq[c][i].op = "send" =>
       event[c] = "SendData" \/ ~fdOpen[c]
-------------------------------------------------------------------------------
(* The server implements PubSub.  A client is owed the part of currentItem *)
(* the kernel did not take yet, then its pending batches.                  *)
TakenBytes(completions) ==
  LET sends == {i \in DOMAIN completions : completions[i].op = "send" /\ completions[i].res > 0}
  IN  IF sends = {} THEN 0 ELSE completions[CHOOSE i \in sends : TRUE].res

Remaining(item, n, backlog) ==
  IF item.len = n THEN backlog ELSE <<Advance(item, n)>> \o backlog

Owed(c) == Remaining(currentItem[c], TakenBytes(cq[c]), pendingItems[c])

Promise == INSTANCE PubSub WITH
  published  <- published,
  queue      <- messageQueue,
  connected  <- {c \in clients : ~isDisconnected[c]},
  subscribed <- subscriptions,
  owed       <- [c \in Clients |-> Owed(c)],
  wire       <- wire

(* Every step of the server is one PubSub allows, or changes nothing of it.*)
ImplementsPubSub == Promise!Spec

(* The bytes w a client received, the batches o it is owed and the queue q *)
(* are, in this order, in the order of publication; only the first batch   *)
(* that is owed may be begun, and the last byte received says how far.     *)
Ordered(q, o, w, latest) ==
  /\ \A i \in DOMAIN q : q[i].id <= latest /\ \A j \in DOMAIN q : i < j => q[i].id < q[j].id
  /\ \A i \in DOMAIN o :
       /\ o[i].id <= latest /\ o[i].len > 0 /\ (i > 1 => o[i].pos = 0)
       /\ \A j \in DOMAIN o : i < j => o[i].id < o[j].id
       /\ \A j \in DOMAIN q : o[i].id < q[j].id
  /\ \A k \in 1 .. Len(w) - 1 : Follows(w[k], w[k + 1])
  /\ w # <<>> =>
       /\ w[Len(w)][1] <= latest
       /\ o # <<>> => Follows(w[Len(w)], <<o[1].id, o[1].pos>>)
       /\ \A j \in DOMAIN q : w[Len(w)][1] < q[j].id

OrderInv(c) == Ordered(messageQueue, Owed(c), wire[c], published)

(* IInv, and what it takes besides that subscriptions were commanded, that *)
(* the server implements PubSub and that what is received is in order.     *)
DeliveryInv ==
  /\ IInv
  /\ CommandedInv
  /\ \A c \in Clients : TakenInv(c) /\ OrderInv(c)
-------------------------------------------------------------------------------
(* Batch n waits in the queue.                                             *)
Queued(n) == \E i \in DOMAIN messageQueue : messageQueue[i].id = n

(* A client that nothing can move: not idle, and without a request.        *)
Stalled(c) == ~GetIsIdle(c) /\ Outstanding(c) = {}

(* A completion after which the handler submits nothing: a read of 0 bytes *)
(* in the handshake, or -EAGAIN, which eventLoop skips.                    *)
LeavesNothing(c) ==
  \E i \in DOMAIN cq[c] :
    \/ cq[c][i].res = EAGAIN
    \/ cq[c][i].op \in {"recv_intent", "recv_name"} /\ cq[c][i].res = 0

(* A batch that waits in the queue while the flag is up is handed out, but *)
(* for the step that is about to lower the flag without looking            *)
(* (PublishedIsForwarded), unless a client stalls: allIdle is false then   *)
(* for ever, for all the others too.                                       *)
DrainedUnlessStalled ==
  \A n \in 1 .. MaxBatches :
    Queued(n) /\ hasPendingData /\ pc # "clear"
      ~> ~Queued(n) \/ \E c \in Clients : Stalled(c)

(* What a subscriber is owed and is being sent, it receives, unless its    *)
(* connection fails or a send ends with -EAGAIN and is not tried again.    *)
OwedIsSent ==
  \A c \in Clients :
    Owed(c) # <<>> /\ (\E q \in Outstanding(c) : q.op = "send")
      ~> Owed(c) = <<>> \/ event[c] = "Disconnected" \/ LeavesNothing(c)

(* A handshake in which a request is outstanding is finished, the client   *)
(* Ready or being disconnected, over all the reads its name comes in,      *)
(* unless one of its requests ends in a way the handler does not answer.   *)
HandshakeEnds ==
  \A c \in Clients :
    event[c] \in HandshakeEvents /\ Outstanding(c) # {}
      ~> event[c] \notin HandshakeEvents \/ LeavesNothing(c)
-------------------------------------------------------------------------------
(* Statements of the code's comments that its behaviour does not keep.     *)

(* TCPPublisherHandler.hpp:110: a batch in the queue is forwarded to the   *)
(* subscribers.  push_back finds hasPendingData still set by a batch that  *)
(* was already popped, and drainQueue clears it afterwards.                *)
PublishedIsForwarded == messageQueue # <<>> ~> messageQueue = <<>>

(* The same from the moment the flag is up, the step that lowers it left   *)
(* out: what was announced is handed out.  TCPPublisherHandler.hpp:100     *)
(* says of a read of 0 bytes "The client has disconnected", but            *)
(* PubSubHandler.hpp:186 "no data", and leaves a handler in its handshake  *)
(* that is idle never again.  The test of SubscriberServer.hpp:111, "if is *)
(* nothing left to do then break", then stays false, drainQueue is not     *)
(* called any more, and no subscriber is sent anything.                    *)
AnnouncedIsDrained ==
  \A n \in 1 .. MaxBatches :
    Queued(n) /\ hasPendingData /\ pc # "clear" ~> ~Queued(n)

(* ServerContext.hpp:50: takePendingSubscriptions removes only entries it  *)
(* sends back to the caller, so a subscription a command left for somebody *)
(* is kept until he has it.  What the command thread adds after the list   *)
(* was searched for the name is erased all the same, and sent to nobody.   *)
AckedSubscriptionIsKept ==
  \A p \in acked : p[2] \notin Timed =>
    \/ [name |-> p[1], sub |-> p[2]] \in pendingSubscriptions
    \/ pc = "take" /\ p[2] \in taken /\ ClientName(taker) = p[1]
    \/ \E c \in Clients : p[2] \in subscriptions[c]
===============================================================================
