-------------------------------- MODULE PubSub --------------------------------
(***************************************************************************)
(* What the server promises its subscribers, without threads, requests or  *)
(* completions: a batch taken from the queue is owed, whole, to exactly    *)
(* the connected clients subscribed to its type at that moment, and what a *)
(* client is owed reaches it in order, once, and unmixed.                  *)
(***************************************************************************)
EXTENDS Integers, Sequences, SequencesExt

CONSTANTS Clients, Types, Lengths, Subs, StartsWith

VARIABLES
  published,   (* number of batches published so far                       *)
  queue,       (* those not handed out yet                                 *)
  connected,   (* clients accepted and not known to be gone                *)
  subscribed,  (* subscriptions of each client                             *)
  owed,        (* what each client is still to receive, batch by batch     *)
  wire         (* bytes each client received                               *)

vars == <<published, queue, connected, subscribed, owed, wire>>

Whole(b) == [id |-> b.id, pos |-> 0, len |-> b.len]
Rest(item, n) == [id |-> item.id, pos |-> item.pos + n, len |-> item.len - n]
FirstBytes(item, n) == [k \in 1 .. n |-> <<item.id, item.pos + k - 1>>]
Wants(c, b) == c \in connected /\ \E s \in subscribed[c] : <<s, b.type>> \in StartsWith

Init ==
  /\ published = 0
  /\ queue = <<>>
  /\ connected = {}
  /\ subscribed = [c \in Clients |-> {}]
  /\ owed = [c \in Clients |-> <<>>]
  /\ wire = [c \in Clients |-> <<>>]

Publish ==
  /\ published' = published + 1
  /\ \E t \in Types, n \in Lengths :
       queue' = Append(queue, [id |-> published', type |-> t, len |-> n])
  /\ UNCHANGED <<connected, subscribed, owed, wire>>

(* Clients come and go, and change their subscriptions, at any time. *)
Connect ==
  /\ connected' \in SUBSET Clients
  /\ UNCHANGED <<published, queue, subscribed, owed, wire>>

Subscribe ==
  /\ subscribed' \in [Clients -> SUBSET Subs]
  /\ UNCHANGED <<published, queue, connected, owed, wire>>

FanOut ==
  /\ queue # <<>>
  /\ queue' = Tail(queue)
  /\ owed' = [c \in Clients |-> IF Wants(c, Head(queue))
                                THEN Append(owed[c], Whole(Head(queue)))
                                ELSE owed[c]]
  /\ UNCHANGED <<published, connected, subscribed, wire>>

(* Some bytes of the first batch c is owed.                                *)
Transmit(c) ==
  /\ owed[c] # <<>>
  /\ LET first == Head(owed[c])
     IN  \E n \in 1 .. first.len :
           /\ wire' = [wire EXCEPT ![c] = @ \o FirstBytes(first, n)]
           /\ owed' = [owed EXCEPT ![c] = IF n = first.len THEN Tail(@)
                                          ELSE <<Rest(first, n)>> \o Tail(@)]
  /\ UNCHANGED <<published, queue, connected, subscribed>>

Next ==
  \/ Publish
  \/ Connect
  \/ Subscribe
  \/ FanOut
  \/ \E c \in Clients : Transmit(c)

Spec == Init /\ [][Next]_vars
===============================================================================
