-------------------------- MODULE SubscriberHandler --------------------------
(***************************************************************************)
(* subscriber/TCPSubscriberHandler.hpp: a connection that is sent every    *)
(* batch whose type it subscribed to, one send at a time; and the list of  *)
(* subscriptions ServerContext keeps for subscribers still to come.        *)
(*                                                                         *)
(* Time is left out: a subscription in Timed may have expired whenever     *)
(* handleTimeout looks at it.                                              *)
(***************************************************************************)
EXTENDS PubSubHandler, MessageQueue

CONSTANTS
  Subs,        (* subscriptions a command can ask for                      *)
  StartsWith,  (* the pairs <<s, t>> for which s.starts_with(t)            *)
  Timed,       (* the subscriptions asked for with a timeout               *)
  NoSub        (* the subscription of a moved-from PendingSubscription     *)

ASSUME SubscriberAssumption ==
  /\ StartsWith \subseteq Subs \X Types
  /\ Timed \subseteq Subs
  /\ NoSub \notin Subs

VARIABLES
  subscriptions,         (* per client                                     *)
  currentItem,           (* the batch being sent, per client               *)
  pendingItems,          (* batches waiting for it, per client             *)
  pendingSubscriptions,  (* ServerContext's list, order and copies aside   *)
  taken,                 (* what takePendingSubscriptions has moved out    *)
  wire                   (* the bytes the kernel accepted, per client:     *)
                         (* <<batch, offset>>                              *)

sendVars == <<currentItem, pendingItems>>
subVars == <<subscriptions, currentItem, pendingItems, pendingSubscriptions, taken, wire>>

(* A std::string moved from is empty, and so is the husk it leaves behind. *)
MovedFrom == [name |-> EmptyName, sub |-> NoSub]
PendingSubscription == [name : Names, sub : Subs] \cup {MovedFrom}

SubTypeOK ==
  /\ subscriptions \in [Clients -> SUBSET Subs]
  /\ currentItem \in [Clients -> Item]
  /\ pendingItems \in [Clients -> Seq(Item)]
  /\ pendingSubscriptions \in SUBSET PendingSubscription
  /\ taken \in SUBSET Subs
  /\ wire \in [Clients -> Seq(Nat \X Nat)]

SubInit ==
  /\ subscriptions = [c \in Clients |-> {}]
  /\ currentItem = [c \in Clients |-> NoItem]
  /\ pendingItems = [c \in Clients |-> <<>>]
  /\ pendingSubscriptions = {}
  /\ taken = {}
  /\ wire = [c \in Clients |-> <<>>]

HasContent(c) == currentItem[c].len > 0
IsSubscribed(c, t) == \E s \in subscriptions[c] : <<s, t>> \in StartsWith

(* Mutants. *)
AdvanceOneTooFar(item, n) == [item EXCEPT !.pos = @ + n, !.len = @ - n - 1]
AdvanceKeepsPosition(item, n) == [item EXCEPT !.len = @ - n]

(* MessageBatch::advance.  The guard in the code compares an unsigned      *)
(* value with 0 and is always true, so len would wrap if n were larger.    *)
Advance(item, n) == [item EXCEPT !.pos = @ + n, !.len = @ - n]

ItemOf(batch) == [id |-> batch.id, pos |-> 0, len |-> batch.len]
-------------------------------------------------------------------------------
SendCurrentMessage(c, item) ==
  /\ currentItem' = [currentItem EXCEPT ![c] = item]
  /\ Begin(c, "SendData", "send", item)

(* Mutants: no test of hasContent; a busy client loses the batch; the first*)
(* client is given the batch itself, not a copy.                           *)
PushMessageBatchAlwaysSends(batch, receivers) ==
  LET item == ItemOf(batch)
  IN  /\ currentItem' = [c \in Clients |-> IF c \in receivers THEN item ELSE currentItem[c]]
      /\ event' = [c \in Clients |-> IF c \in receivers THEN "SendData" ELSE event[c]]
      /\ sq' = [c \in Clients |-> IF c \in receivers
                                  THEN Append(sq[c], [op |-> "send", item |-> item])
                                  ELSE sq[c]]
      /\ UNCHANGED pendingItems

PushMessageBatchDropsWhenBusy(batch, receivers) ==
  PushMessageBatchAlwaysSends(batch, {c \in receivers : ~HasContent(c)})

PushMessageBatchMoves(batch, receivers) ==
  IF receivers = {}
  THEN UNCHANGED <<currentItem, event, sq, pendingItems>>
  ELSE PushMessageBatchDropsWhenBusy(batch, {CHOOSE c \in receivers : TRUE})

(* pushMessageBatch on every client of `receivers`: an idle one starts to  *)
(* send, a busy one queues.                                                *)
PushMessageBatch(batch, receivers) ==
  LET idle == {c \in receivers : ~HasContent(c)}
      item == ItemOf(batch)
  IN  /\ currentItem' = [c \in Clients |-> IF c \in idle THEN item ELSE currentItem[c]]
      /\ event' = [c \in Clients |-> IF c \in idle THEN "SendData" ELSE event[c]]
      /\ sq' = [c \in Clients |-> IF c \in idle
                                  THEN Append(sq[c], [op |-> "send", item |-> item])
                                  ELSE sq[c]]
      /\ pendingItems' = [c \in Clients |-> IF c \in receivers \ idle
                                            THEN Append(pendingItems[c], item)
                                            ELSE pendingItems[c]]

SendNextPendingMessageBatch(c) ==
  LET next == Head(pendingItems[c])
  IN  /\ pendingItems' = [pendingItems EXCEPT ![c] = Tail(@)]
      /\ IF next.len > 0
         THEN SendCurrentMessage(c, next)
         ELSE currentItem' = [currentItem EXCEPT ![c] = next] /\ NoRequest

(* Mutant: the backlog is not looked at. *)
SentAllForgetsBacklog(c) ==
  /\ currentItem' = [currentItem EXCEPT ![c] = NoItem]
  /\ event' = [event EXCEPT ![c] = "Ready"]
  /\ UNCHANGED <<sq, pendingItems>>

SentAll(c) ==
  \/ /\ pendingItems[c] # <<>>
     /\ SendNextPendingMessageBatch(c)
  \/ /\ pendingItems[c] = <<>>
     /\ currentItem' = [currentItem EXCEPT ![c] = NoItem]
     /\ event' = [event EXCEPT ![c] = "Ready"]
     /\ UNCHANGED <<sq, pendingItems>>

(* Mutants: an error clears the batch; what a send left over is not sent.  *)
OnSendCompleteClearsOnError(c, res) ==
  /\ event[c] = "SendData"
  /\ \/ /\ res < 0
        /\ BeginDisconnect(c)
        /\ currentItem' = [currentItem EXCEPT ![c] = NoItem]
        /\ pendingItems' = [pendingItems EXCEPT ![c] = <<>>]
     \/ res = 0 /\ NoRequest /\ UNCHANGED sendVars
     \/ /\ res > 0
        /\ LET rest == Advance(currentItem[c], res)
           IN  IF rest.len = 0
               THEN SentAll(c)
               ELSE SendCurrentMessage(c, rest) /\ UNCHANGED pendingItems
  /\ UNCHANGED <<isDisconnected, handshakeVars>>

OnSendCompleteSendsOnce(c, res) ==
  /\ event[c] = "SendData"
  /\ \/ res = 0 /\ NoRequest /\ UNCHANGED sendVars
     \/ res < 0 /\ BeginDisconnect(c) /\ UNCHANGED sendVars
     \/ /\ res > 0
        /\ LET rest == Advance(currentItem[c], res)
           IN  IF rest.len = 0
               THEN SentAll(c)
               ELSE /\ currentItem' = [currentItem EXCEPT ![c] = rest]
                    /\ NoRequest
                    /\ UNCHANGED pendingItems
  /\ UNCHANGED <<isDisconnected, handshakeVars>>

OnSendCurrentMessageComplete(c, res) ==
  /\ event[c] = "SendData"
  /\ \/ res = 0 /\ NoRequest /\ UNCHANGED sendVars
     \/ res < 0 /\ BeginDisconnect(c) /\ UNCHANGED sendVars
     \/ /\ res > 0
        /\ LET rest == Advance(currentItem[c], res)
           IN  IF rest.len = 0
               THEN SentAll(c)
               ELSE SendCurrentMessage(c, rest) /\ UNCHANGED pendingItems
  /\ UNCHANGED <<isDisconnected, handshakeVars>>

(* Mutant: every entry of the list is taken. *)
OnSendAckCompleteTakesAll(c, res) ==
  /\ event[c] = "SendAck"
  /\ event' = [event EXCEPT ![c] = "Ready"]
  /\ taken' = {p.sub : p \in pendingSubscriptions \ {MovedFrom}}
  /\ pendingSubscriptions' = {MovedFrom : p \in pendingSubscriptions}
  /\ UNCHANGED <<sq, isDisconnected, handshakeVars>>

(* onSendAckComplete and afterSendAckComplete, up to the first loop of     *)
(* takePendingSubscriptions: it moves the client's entries out, which      *)
(* leaves empty strings in the list.                                       *)
OnSendAckComplete(c, res) ==
  LET Mine(p) == p.name = ClientName(c)
  IN  /\ event[c] = "SendAck"
      /\ event' = [event EXCEPT ![c] = "Ready"]
      /\ taken' = {p.sub : p \in {q \in pendingSubscriptions : Mine(q)}}
      /\ pendingSubscriptions' =
           {IF Mine(p) THEN MovedFrom ELSE p : p \in pendingSubscriptions}
      /\ UNCHANGED <<sq, isDisconnected, handshakeVars>>

(* addSubscriptions: those the client has already are left as they are.    *)
AddSubscriptions(c, subs) ==
  subscriptions' = [subscriptions EXCEPT ![c] = @ \cup subs]

(* The rest of it: erase_if on the list, then addSubscriptions.            *)
AddTakenSubscriptions(c) ==
  /\ pendingSubscriptions' =
       {p \in pendingSubscriptions : p.name # ClientName(c)}
  /\ AddSubscriptions(c, taken)
  /\ taken' = {}

HandleEvent(c, res) ==
  IF isDisconnected[c]
  THEN UNCHANGED <<event, sq, isDisconnected, handshakeVars, sendVars,
                   taken, pendingSubscriptions>>
  ELSE \/ /\ \/ OnMakeNonblockingSocketComplete(c, res)
             \/ OnIntentReceived(c, res)
             \/ OnReceiveNameComplete(c, res)
             \/ OnDisconnected(c, res)
             \/ /\ event[c] = "Ready"    \* no case of handle() applies
                /\ NoRequest
                /\ UNCHANGED <<isDisconnected, handshakeVars>>
          /\ UNCHANGED <<sendVars, taken, pendingSubscriptions>>
       \/ /\ OnSendCurrentMessageComplete(c, res)
          /\ UNCHANGED <<taken, pendingSubscriptions>>
       \/ /\ OnSendAckComplete(c, res)
          /\ UNCHANGED sendVars

(* handleTimeout: the subscriptions in `expired` have been idle too long.  *)
HandleTimeout(expired) ==
  subscriptions' = [c \in Clients |-> subscriptions[c] \ expired[c]]
-------------------------------------------------------------------------------
(* The kernel completes request i of c; bytes it accepts reach the peer.   *)
Bytes(item, n) == [k \in 1 .. n |-> <<item.id, item.pos + k - 1>>]

Kernel(c) ==
  \E i \in DOMAIN sq[c] : \E res \in Outcomes(c, sq[c][i]) :
    /\ KernelCompletes(c, i, res)
    /\ wire' = IF sq[c][i].op = "send" /\ res > 0
               THEN [wire EXCEPT ![c] = @ \o Bytes(sq[c][i].item, res)]
               ELSE wire
===============================================================================
