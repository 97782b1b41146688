--------------------------- MODULE SubscriberServer ---------------------------
(***************************************************************************)
(* subscriber/SubscriberServer.hpp and the listener of BaseServer.hpp: the *)
(* one thread that accepts subscribers, runs their handlers and drains the *)
(* message queue.                                                          *)
(*                                                                         *)
(* doEventLoop polls, one completion at a time, until every client is      *)
(* idle; only then does it wait for batches.  A wait that succeeds drains  *)
(* the queue.  drainQueue always returns false, so the second loop ends    *)
(* there: its eventLoop call and its allIdle test are never reached.       *)
(***************************************************************************)
EXTENDS SubscriberHandler

CONSTANT NoClient

ASSUME ServerAssumption == NoClient \notin Clients

VARIABLES
  pc,        (* where the thread is                                        *)
  taker,     (* at "take": the client inside takePendingSubscriptions      *)
  listener,  (* `event` of the server, or "stopped" when nothing is armed  *)
  clients    (* the accepted ones; none is ever removed                    *)

serverVars == <<pc, taker, listener, clients>>
threadVars == <<connVars, subVars, queueVars>>

ServerTypeOK ==
  /\ pc \in {"poll", "take", "expire", "wait", "drain", "clear"}
  /\ taker \in Clients \cup {NoClient}
  /\ listener \in {"setup", "accepting", "stopped"}
  /\ clients \in SUBSET Clients

ServerInit ==
  /\ pc = "poll"
  /\ taker = NoClient
  /\ listener = "setup"
  /\ clients = {}

AllIdle == \A c \in clients : GetIsIdle(c)
-------------------------------------------------------------------------------
(* eventLoop with a completion of the listener.                            *)
OnSetupListeningSocketComplete ==
  /\ pc = "poll"
  /\ listener = "setup"
  /\ \/ listener' = "accepting"
     \/ "error" \in Faults /\ listener' = "stopped"
  /\ pc' = "expire"
  /\ UNCHANGED <<threadVars, taker, clients>>

OnAcceptConnectionComplete(c) ==
  /\ pc = "poll"
  /\ listener = "accepting"
  /\ c \notin clients
  /\ clients' = clients \cup {c}
  /\ BeginMakeNonblockingSocket(c)
  /\ pc' = "expire"
  /\ UNCHANGED <<subVars, queueVars, taker, listener>>

(* An accept that fails is reported and never submitted again, unless the  *)
(* failure is -EAGAIN: that completion is skipped, with the same effect.   *)
OnAcceptConnectionFailed ==
  /\ pc = "poll"
  /\ listener = "accepting"
  /\ "error" \in Faults
  /\ listener' = "stopped"
  /\ pc' = "expire"
  /\ UNCHANGED <<threadVars, taker, clients>>

(* eventLoop with a completion of client c.  -EAGAIN is skipped.           *)
PollClient(c) ==
  /\ pc = "poll"
  /\ cq[c] # <<>>
  /\ cq' = [cq EXCEPT ![c] = Tail(@)]
  /\ IF Head(cq[c]).res = EAGAIN
     THEN UNCHANGED <<event, sq, isDisconnected, handshakeVars, sendVars,
                      taken, pendingSubscriptions>>
     ELSE HandleEvent(c, Head(cq[c]).res)
  /\ IF event[c] = "SendAck" /\ event'[c] = "Ready"
     THEN pc' = "take" /\ taker' = c
     ELSE pc' = "expire" /\ UNCHANGED taker
  /\ UNCHANGED <<fdOpen, subscriptions, wire, queueVars, listener, clients>>

(* The handler's call of takePendingSubscriptions returns.                 *)
FinishTake ==
  /\ pc = "take"
  /\ AddTakenSubscriptions(taker)
  /\ pc' = "expire"
  /\ taker' = NoClient
  /\ UNCHANGED <<connVars, sendVars, wire, queueVars, listener, clients>>

(* eventLoop returns after a second without a completion.                  *)
PollTimeout ==
  /\ pc = "poll"
  /\ \A c \in clients : cq[c] = <<>>
  /\ pc' = "expire"
  /\ UNCHANGED <<threadVars, taker, listener, clients>>

(* handleTimeouts, and the test that leaves the first loop.                *)
HandleTimeouts ==
  /\ pc = "expire"
  /\ \E expired \in [Clients -> SUBSET Timed] : HandleTimeout(expired)
  /\ pc' = IF AllIdle THEN "wait" ELSE "poll"
  /\ UNCHANGED <<connVars, sendVars, pendingSubscriptions, taken, wire, queueVars,
                 taker, listener, clients>>

(* cvQueue.wait_for: a batch was announced, or a second has passed.        *)
WaitForData ==
  /\ pc = "wait"
  /\ pc' = IF hasPendingData THEN "drain" ELSE "poll"
  /\ UNCHANGED <<threadVars, taker, listener, clients>>

(* One round of drainQueue's loop.                                         *)
(* Mutant: no test of isDisconnected. *)
ReceiversEvenDisconnected(batch) == {c \in clients : IsSubscribed(c, batch.type)}
Receivers(batch) == {c \in clients : ~isDisconnected[c] /\ IsSubscribed(c, batch.type)}

FanOut ==
  /\ pc = "drain"
  /\ TryPop
  /\ PushMessageBatch(Head(messageQueue), Receivers(Head(messageQueue)))
  /\ UNCHANGED <<isDisconnected, handshakeVars, cq, fdOpen, subscriptions,
                 pendingSubscriptions, taken, wire, serverVars>>

(* Mutant: one round only. *)
DrainDoneEarly ==
  /\ pc = "drain"
  /\ pc' = "clear"
  /\ UNCHANGED <<threadVars, taker, listener, clients>>

(* A try_pop that finds nothing ends the loop.                             *)
DrainDone ==
  /\ pc = "drain"
  /\ messageQueue = <<>>
  /\ pc' = "clear"
  /\ UNCHANGED <<threadVars, taker, listener, clients>>

Clear ==
  /\ pc = "clear"
  /\ ClearPendingData
  /\ pc' = "poll"
  /\ UNCHANGED <<connVars, subVars, taker, listener, clients>>

SubscriberThread ==
  \/ OnSetupListeningSocketComplete
  \/ \E c \in Clients : OnAcceptConnectionComplete(c)
  \/ OnAcceptConnectionFailed
  \/ \E c \in clients : PollClient(c)
  \/ FinishTake
  \/ PollTimeout
  \/ HandleTimeouts
  \/ WaitForData
  \/ FanOut
  \/ DrainDone
  \/ Clear
===============================================================================
