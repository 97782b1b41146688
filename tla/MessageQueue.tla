----------------------------- MODULE MessageQueue -----------------------------
(***************************************************************************)
(* server/MessageQueue.hpp: the queue between the publisher thread, which  *)
(* calls push_back, and the subscriber thread, which drains it.            *)
(*                                                                         *)
(* push_back is two steps: the push into the lock-free ring, then, under   *)
(* mQueue, the announcement through hasPendingData and cvQueue.  The ring  *)
(* itself (lib/MPMCQueue) is taken here as a linearizable bounded FIFO.    *)
(* afQueue is set and cleared by the code but nothing ever waits on it or  *)
(* tests it, so it is left out.                                            *)
(***************************************************************************)
EXTENDS Integers, Sequences, SequencesExt

CONSTANTS
  Types,        (* message types a batch can be labelled with              *)
  Lengths,      (* lengths of batches, in units the kernel can split       *)
  Capacity,     (* slots of the ring, 1000000 in the code                  *)
  MaxBatches    (* bound: batches published in a behaviour                 *)

ASSUME QueueAssumption ==
  /\ Lengths \subseteq Nat \ {0}
  /\ Capacity \in Nat \ {0}
  /\ MaxBatches \in Nat

VARIABLES
  messageQueue,    (* batches pushed and not yet popped                    *)
  hasPendingData,  (* the flag the subscriber thread waits for             *)
  pushing,         (* the publisher thread is inside push_back             *)
  published        (* number of batches pushed so far: names the batches   *)

queueVars == <<messageQueue, hasPendingData, pushing, published>>

Batch == [id : Nat, type : Types, len : Lengths]

QueueTypeOK ==
  /\ messageQueue \in Seq(Batch)
  /\ hasPendingData \in BOOLEAN
  /\ pushing \in BOOLEAN
  /\ published \in Nat

QueueInit ==
  /\ messageQueue = <<>>
  /\ hasPendingData = FALSE
  /\ pushing = FALSE
  /\ published = 0

(* First half of push_back.  emplace spins while its slot is occupied.     *)
Push(t, n) ==
  /\ ~pushing
  /\ published < MaxBatches
  /\ Len(messageQueue) < Capacity
  /\ published' = published + 1
  /\ messageQueue' = Append(messageQueue, [id |-> published + 1, type |-> t, len |-> n])
  /\ pushing' = TRUE
  /\ UNCHANGED hasPendingData

(* Second half of push_back: the critical section on mQueue.  Whether the  *)
(* flag was already set or is set now, it is TRUE afterwards.              *)
Announce ==
  /\ pushing
  /\ pushing' = FALSE
  /\ hasPendingData' = TRUE
  /\ UNCHANGED <<messageQueue, published>>

(* A try_pop that finds a batch. *)
TryPop ==
  /\ messageQueue # <<>>
  /\ messageQueue' = Tail(messageQueue)
  /\ UNCHANGED <<hasPendingData, pushing, published>>

(* The critical section at the end of drainQueue. *)
ClearPendingData ==
  /\ hasPendingData' = FALSE
  /\ UNCHANGED <<messageQueue, pushing, published>>
===============================================================================
