----------------------------- MODULE PubSubHandler ----------------------------
(***************************************************************************)
(* server/PubSubHandler.hpp: one connection of a server thread, driven by  *)
(* the completions of the io_uring requests it submits.  A completion says *)
(* which handler it belongs to and its result, nothing else: handleEvent   *)
(* interprets the result by the handler's own `event`.                     *)
(*                                                                         *)
(* sq[c] holds the requests of handler c the kernel has not completed, and *)
(* cq[c] its completions the thread has not reaped.  The kernel completes  *)
(* requests in any order; the thread reaps completions in the order they   *)
(* were made.                                                              *)
(***************************************************************************)
EXTENDS Integers, Sequences, SequencesExt

CONSTANTS
  Clients,    (* the connections that may be accepted                      *)
  Names,      (* values a clientName can take once something was read      *)
  EmptyName,  (* clientName before that                                    *)
  NameReads,  (* per client, the value of clientName after each of the     *)
              (* reads its name arrives in; the last read ends in "\r"     *)
  Faults      (* which of "error", "zero", "again" the kernel may report   *)

ASSUME HandlerAssumption ==
  /\ EmptyName \notin Names
  /\ NameReads \in [Clients -> Seq(Names)]
  /\ \A c \in Clients : NameReads[c] # <<>>
  /\ Faults \subseteq {"error", "zero", "again"}

VARIABLES
  event,           (* what the handler believes its next completion is     *)
  isDisconnected,
  intent,          (* characters of the intent received so far             *)
  nameReads,       (* reads of the name received so far                    *)
  sq,
  cq,
  fdOpen           (* the connection's descriptor is open in the kernel    *)

handshakeVars == <<intent, nameReads>>
connVars == <<event, isDisconnected, intent, nameReads, sq, cq, fdOpen>>

HandshakeEvents == {"SetNonblockingPublisher", "ReceiveIntent", "ReceiveName", "SendAck"}
Events == HandshakeEvents \cup {"NotSet", "Ready", "SendData", "Disconnected"}

Ops == {"epoll_ctl", "recv_intent", "recv_name", "send_ack", "send", "close"}

NB_INTENT_CHARS == 2
ERROR  == -1      \* stands for every negative result but -EAGAIN
EAGAIN == -11

(* What is left to send of a batch: pos and len are bufferPosition and     *)
(* bufferLength.  NoItem is a cleared batch.                               *)
Item == [id : Nat, pos : Nat, len : Nat]
NoItem == [id |-> 0, pos |-> 0, len |-> 0]

Request == [op : Ops, item : Item]
Completion == [op : Ops, item : Item, res : Int]

ConnTypeOK ==
  /\ event \in [Clients -> Events]
  /\ isDisconnected \in [Clients -> BOOLEAN]
  /\ intent \in [Clients -> Nat]
  /\ nameReads \in [Clients -> Nat]
  /\ sq \in [Clients -> Seq(Request)]
  /\ cq \in [Clients -> Seq(Completion)]
  /\ fdOpen \in [Clients -> BOOLEAN]

ConnInit ==
  /\ event = [c \in Clients |-> "NotSet"]
  /\ isDisconnected = [c \in Clients |-> FALSE]
  /\ intent = [c \in Clients |-> 0]
  /\ nameReads = [c \in Clients |-> 0]
  /\ sq = [c \in Clients |-> <<>>]
  /\ cq = [c \in Clients |-> <<>>]
  /\ fdOpen = [c \in Clients |-> FALSE]

ClientName(c) == IF nameReads[c] = 0 THEN EmptyName ELSE NameReads[c][nameReads[c]]
NameComplete(c) == nameReads[c] = Len(NameReads[c])

(* Mutant. *)
GetIsIdleUnlessSending(c) == event[c] # "SendData"

GetIsIdle(c) == event[c] \in {"Ready", "NotSet", "Disconnected"}
-------------------------------------------------------------------------------
(* Every begin... function submits one request and moves `event` on.  The  *)
(* on... handlers run on a completion already reaped, whose result is res. *)
Begin(c, ev, op, item) ==
  /\ event' = [event EXCEPT ![c] = ev]
  /\ sq' = [sq EXCEPT ![c] = Append(@, [op |-> op, item |-> item])]

NoRequest == UNCHANGED <<event, sq>>

BeginDisconnect(c) == Begin(c, "Disconnected", "close", NoItem)
BeginReceiveIntent(c) == Begin(c, "ReceiveIntent", "recv_intent", NoItem)
BeginReceiveName(c) == Begin(c, "ReceiveName", "recv_name", NoItem)

(* Mutant: the event is left as it was. *)
BeginSendAckKeepsEvent(c) == Begin(c, "ReceiveName", "send_ack", NoItem)
BeginSendAck(c) == Begin(c, "SendAck", "send_ack", NoItem)

(* A connection is accepted: its handler is constructed, and handleEvent   *)
(* is called on it while its event is NotSet.                              *)
BeginMakeNonblockingSocket(c) ==
  /\ event[c] = "NotSet"
  /\ Begin(c, "SetNonblockingPublisher", "epoll_ctl", NoItem)
  /\ fdOpen' = [fdOpen EXCEPT ![c] = TRUE]
  /\ UNCHANGED <<isDisconnected, handshakeVars, cq>>

OnMakeNonblockingSocketComplete(c, res) ==
  /\ event[c] = "SetNonblockingPublisher"
  /\ IF res < 0 THEN BeginDisconnect(c) ELSE BeginReceiveIntent(c)
  /\ UNCHANGED <<isDisconnected, handshakeVars>>

(* Mutant: half an intent is not read on. *)
OnIntentReceivedOnce(c, res) ==
  /\ event[c] = "ReceiveIntent"
  /\ IF res < 0 THEN BeginDisconnect(c)
     ELSE IF res < NB_INTENT_CHARS THEN NoRequest ELSE BeginReceiveName(c)
  /\ UNCHANGED <<isDisconnected, handshakeVars>>

(* A read of 0 bytes submits nothing: the handler is never called again.   *)
OnIntentReceived(c, res) ==
  /\ event[c] = "ReceiveIntent"
  /\ \/ res = 0 /\ NoRequest /\ UNCHANGED intent
     \/ res < 0 /\ BeginDisconnect(c) /\ UNCHANGED intent
     \/ /\ res > 0
        /\ intent' = [intent EXCEPT ![c] = @ + res]
        /\ IF intent[c] + res < NB_INTENT_CHARS
           THEN BeginReceiveIntent(c) ELSE BeginReceiveName(c)
  /\ UNCHANGED <<isDisconnected, nameReads>>

OnReceiveNameComplete(c, res) ==
  /\ event[c] = "ReceiveName"
  /\ \/ res = 0 /\ NoRequest /\ UNCHANGED nameReads
     \/ res < 0 /\ BeginDisconnect(c) /\ UNCHANGED nameReads
     \/ /\ res > 0
        /\ nameReads' = [nameReads EXCEPT ![c] = @ + 1]
        /\ IF nameReads[c] + 1 = Len(NameReads[c])
           THEN BeginSendAck(c) ELSE BeginReceiveName(c)
  /\ UNCHANGED <<isDisconnected, intent>>

OnDisconnected(c, res) ==
  /\ event[c] = "Disconnected"
  /\ isDisconnected' = [isDisconnected EXCEPT ![c] = TRUE]
  /\ NoRequest
  /\ UNCHANGED handshakeVars
-------------------------------------------------------------------------------
(* The kernel's side of a request: the results it can give.                *)
FaultResult == [error |-> ERROR, zero |-> 0, again |-> EAGAIN]
FaultOps == [error |-> Ops \ {"close"},
             zero  |-> {"recv_intent", "recv_name"},
             again |-> {"recv_intent", "recv_name", "send_ack", "send"}]

FaultOutcomes(q) == {FaultResult[f] : f \in {g \in Faults : q.op \in FaultOps[g]}}

NormalOutcomes(q) ==
  CASE q.op \in {"epoll_ctl", "close"}       -> {0}
    [] q.op \in {"recv_name", "send_ack"} -> {1}
    [] q.op = "recv_intent"               -> 1 .. NB_INTENT_CHARS
    [] q.op = "send"                      -> 1 .. q.item.len

(* A closed descriptor fails every request (EBADF).                        *)
Outcomes(c, q) == IF fdOpen[c] THEN NormalOutcomes(q) \cup FaultOutcomes(q) ELSE {ERROR}

KernelCompletes(c, i, res) ==
  /\ res \in Outcomes(c, sq[c][i])
  /\ sq' = [sq EXCEPT ![c] = RemoveAt(@, i)]
  /\ cq' = [cq EXCEPT ![c] = Append(@, [op   |-> sq[c][i].op,
                                        item |-> sq[c][i].item,
                                        res  |-> res])]
  /\ fdOpen' = [fdOpen EXCEPT ![c] = @ /\ sq[c][i].op # "close"]
  /\ UNCHANGED <<event, isDisconnected, handshakeVars>>
===============================================================================
