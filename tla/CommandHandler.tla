---------------------------- MODULE CommandHandler ----------------------------
(***************************************************************************)
(* command/CommandHandler.hpp, processCommand and addSubscription: the     *)
(* command thread gives a subscription to every connected subscriber of a  *)
(* name or, when it meets none, leaves it in ServerContext's list.  It     *)
(* walks a copy of the subscriber server's clients while the subscriber    *)
(* thread goes on; nothing is locked.                                      *)
(*                                                                         *)
(* The handshake of a command connection is PubSubHandler's and touches    *)
(* nothing a subscriber sees, so a command starts here when its last byte  *)
(* has been read.                                                          *)
(***************************************************************************)
EXTENDS SubscriberServer

CONSTANT MaxCommands  (* bound: commands in a behaviour                    *)

ASSUME CommandAssumption == MaxCommands \in Nat

VARIABLES
  scan,      (* the addSubscription call in progress                       *)
  received,  (* number of commands received so far                         *)
  issued,    (* history: the commands, as <<name, sub>>                    *)
  acked      (* history: those that were processed                         *)

commandVars == <<scan, received, issued, acked>>

Scan == [active : {TRUE}, name : Names, sub : Subs, todo : SUBSET Clients,
         wasFound : BOOLEAN]
NoScan == [active |-> FALSE, name |-> EmptyName, sub |-> NoSub,
           todo |-> {}, wasFound |-> FALSE]

CommandTypeOK ==
  /\ scan \in Scan \cup {NoScan}
  /\ received \in Nat
  /\ issued \in SUBSET (Names \X Subs)
  /\ acked \in SUBSET (Names \X Subs)

CommandInit ==
  /\ scan = NoScan
  /\ received = 0
  /\ issued = {}
  /\ acked = {}

(* getClients() copies the vector when the call begins.  A command may be  *)
(* given again.                                                            *)
CommandReceived(n, s) ==
  /\ ~scan.active
  /\ received < MaxCommands
  /\ received' = received + 1
  /\ issued' = issued \cup {<<n, s>>}
  /\ scan' = [active |-> TRUE, name |-> n, sub |-> s, todo |-> clients, wasFound |-> FALSE]
  /\ UNCHANGED <<acked, subscriptions, pendingSubscriptions>>

VisitClient(c) ==
  /\ scan.active
  /\ c \in scan.todo
  /\ IF ClientName(c) = scan.name /\ ~isDisconnected[c]
     THEN /\ AddSubscriptions(c, {scan.sub})
          /\ scan' = [scan EXCEPT !.todo = @ \ {c}, !.wasFound = TRUE]
     ELSE /\ scan' = [scan EXCEPT !.todo = @ \ {c}]
          /\ UNCHANGED subscriptions
  /\ UNCHANGED <<received, issued, acked, pendingSubscriptions>>

FinishScan ==
  /\ scan.active
  /\ scan.todo = {}
  /\ pendingSubscriptions' =
       IF scan.wasFound THEN pendingSubscriptions
       ELSE pendingSubscriptions \cup {[name |-> scan.name, sub |-> scan.sub]}
  /\ acked' = acked \cup {<<scan.name, scan.sub>>}
  /\ scan' = NoScan
  /\ UNCHANGED <<received, issued, subscriptions>>

CommandThread ==
  /\ \/ \E n \in Names, s \in Subs : CommandReceived(n, s)
     \/ \E c \in Clients : VisitClient(c)
     \/ FinishScan
  /\ UNCHANGED <<connVars, sendVars, taken, wire, queueVars, serverVars>>
===============================================================================
