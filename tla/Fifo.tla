--------------------------------- MODULE Fifo ---------------------------------
(***************************************************************************)
(* What lib/MPMCQueue promises the threads that share it.  A push takes    *)
(* the next place in the queue; the places whose values may be taken are   *)
(* always the first ones without a gap, so that a push that is late holds  *)
(* back the pushes behind it; a try_pop takes the value of the first place *)
(* nobody has taken, and answers FALSE only if, at a moment of the call,   *)
(* there was none.                                                         *)
(***************************************************************************)
EXTENDS Integers, Sequences

CONSTANTS Values, Consumers, Capacity

VARIABLES
  pushed,   (* the values of the pushes, in the order of their places      *)
  ready,    (* so many of them may be taken                                *)
  taken,    (* so many of them have been taken                             *)
  popping   (* how far the try_pop of each consumer has come               *)

fifoVars == <<pushed, ready, taken, popping>>

Calling == [step : {"idle", "calling", "saw empty"}]
Holding == [step : {"holds"}, value : Values]

FifoInit ==
  /\ pushed = <<>> /\ ready = 0 /\ taken = 0
  /\ popping = [c \in Consumers |-> [step |-> "idle"]]

(* A consumer may lose interest in having seen the queue empty. *)
Others(c) ==
  \A d \in Consumers \ {c} :
    \/ popping'[d] = popping[d]
    \/ popping[d].step = "saw empty" /\ popping'[d] = [step |-> "calling"]

Claim ==
  /\ \E v \in Values : pushed' = Append(pushed, v)
  /\ UNCHANGED <<ready, taken, popping>>

Arrive ==
  /\ ready' \in ready + 1 .. Len(pushed)
  /\ ready' - taken <= Capacity
  /\ UNCHANGED <<pushed, taken, popping>>

Call(c) ==
  /\ popping[c].step \in {"idle", "saw empty"}
  /\ popping' = [popping EXCEPT ![c] = [step |-> "calling"]]
  /\ UNCHANGED <<pushed, ready, taken>>

Take(c) ==
  /\ popping[c].step = "calling" /\ taken < ready
  /\ taken' = taken + 1
  /\ popping'[c] = [step |-> "holds", value |-> pushed[taken + 1]]
  /\ DOMAIN popping' = Consumers /\ Others(c)
  /\ UNCHANGED <<pushed, ready>>

SeeEmpty(c) ==
  /\ popping[c].step = "calling" /\ taken = ready
  /\ popping' = [popping EXCEPT ![c] = [step |-> "saw empty"]]
  /\ UNCHANGED <<pushed, ready, taken>>

Return(c) ==
  /\ popping[c].step \in {"saw empty", "holds"}
  /\ popping' = [popping EXCEPT ![c] = [step |-> "idle"]]
  /\ UNCHANGED <<pushed, ready, taken>>

FifoNext ==
  \/ Claim \/ Arrive
  \/ \E c \in Consumers : Call(c) \/ Take(c) \/ SeeEmpty(c) \/ Return(c)

FifoSpec == FifoInit /\ [][FifoNext]_fifoVars
===============================================================================
