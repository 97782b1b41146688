--------------------------------- MODULE Mpmc ---------------------------------
(***************************************************************************)
(* lib/MPMCQueue/MPMCQueue.hpp: the ring under MessageQueue, for any       *)
(* number of pushing and popping threads, at the grain of its accesses to  *)
(* memory that other threads can see: head_, tail_, the turn of a slot and *)
(* its storage.  The operations are push, which is emplace, and try_pop,   *)
(* the two the program calls.                                              *)
(*                                                                         *)
(* The accesses interleave as if memory were sequentially consistent: what *)
(* a thread writes before the release store of a turn is read after an     *)
(* acquire load of that turn.  head_ and tail_, of 64 bits, do not wrap.   *)
(***************************************************************************)
EXTENDS Integers, Sequences

CONSTANTS
  Capacity,    (* slots of the ring, 1000000 in the code                   *)
  Producers,   (* threads that push                                        *)
  Consumers,   (* threads that pop                                         *)
  Values,      (* what is pushed                                           *)
  NoValue,     (* storage that holds no object                             *)
  MaxPushes    (* bound: pushes in a behaviour                             *)

ASSUME MpmcAssumption ==
  /\ Capacity \in Nat \ {0}
  /\ MaxPushes \in Nat
  /\ Producers \cap Consumers = {}
  /\ NoValue \notin Values

Threads == Producers \cup Consumers
Slots == 0 .. Capacity - 1
Tickets == 0 .. MaxPushes

VARIABLES
  head,     (* the next ticket of a push                                   *)
  tail,     (* the next ticket of a pop                                    *)
  turn,     (* slot -> its turn: 2k, free for the k-th use; 2k + 1, filled *)
  storage,  (* slot -> the object in it                                    *)
  pc,       (* what each thread does next                                  *)
  ticket,   (* the local variable head or tail of each thread              *)
  value,    (* the value a producer pushes, or the one a consumer has got  *)
  claims    (* history: the values of the pushes, by ticket                *)

mpmcVars == <<head, tail, turn, storage, pc, ticket, value, claims>>

Idx(k) == k % Capacity
Turn(k) == k \div Capacity

(* The use a ticket stands for has been filled, or emptied again. *)
Filled(k) == turn[Idx(k)] >= 2 * Turn(k) + 1
Emptied(k) == turn[Idx(k)] >= 2 * Turn(k) + 2

Goto(t, from, to) == pc[t] = from /\ pc' = [pc EXCEPT ![t] = to]

(* A call ends, and its local variables with it. *)
Return(t, from) ==
  /\ Goto(t, from, "idle")
  /\ ticket' = [ticket EXCEPT ![t] = 0]
  /\ value' = [value EXCEPT ![t] = NoValue]

MpmcInit ==
  /\ head = 0 /\ tail = 0
  /\ turn = [s \in Slots |-> 0]
  /\ storage = [s \in Slots |-> NoValue]
  /\ pc = [t \in Threads |-> "idle"]
  /\ ticket = [t \in Threads |-> 0]
  /\ value = [t \in Threads |-> NoValue]
  /\ claims = <<>>

(***************************************************************************)
(* emplace                                                                 *)
(***************************************************************************)
(* head_.fetch_add(1) *)
BeginPush(p, v) ==
  /\ Goto(p, "idle", "await")
  /\ head < MaxPushes
  /\ head' = head + 1
  /\ ticket' = [ticket EXCEPT ![p] = head]
  /\ value' = [value EXCEPT ![p] = v]
  /\ claims' = Append(claims, v)
  /\ UNCHANGED <<tail, turn, storage>>

(* Mutant: it waits for any even turn. *)
AwaitAnyTurn(p) ==
  /\ Goto(p, "await", "construct")
  /\ turn[Idx(ticket[p])] % 2 = 0
  /\ UNCHANGED <<head, tail, turn, storage, ticket, value, claims>>

(* The load that ends the loop, which spins until the slot was emptied. *)
AwaitTurn(p) ==
  /\ Goto(p, "await", "construct")
  /\ turn[Idx(ticket[p])] = 2 * Turn(ticket[p])
  /\ UNCHANGED <<head, tail, turn, storage, ticket, value, claims>>

Construct(p) ==
  /\ Goto(p, "construct", "publish")
  /\ storage' = [storage EXCEPT ![Idx(ticket[p])] = value[p]]
  /\ UNCHANGED <<head, tail, turn, ticket, value, claims>>

(* The release store of the odd turn. *)
Publish(p) ==
  /\ Return(p, "publish")
  /\ turn' = [turn EXCEPT ![Idx(ticket[p])] = 2 * Turn(ticket[p]) + 1]
  /\ UNCHANGED <<head, tail, storage, claims>>

(***************************************************************************)
(* try_pop                                                                 *)
(***************************************************************************)
LoadTail(c) ==
  /\ Goto(c, "idle", "check")
  /\ ticket' = [ticket EXCEPT ![c] = tail]
  /\ UNCHANGED <<head, tail, turn, storage, value, claims>>

(* Mutant: any odd turn is taken for filled. *)
CheckAnyTurn(c) ==
  /\ IF turn[Idx(ticket[c])] % 2 = 1
       THEN Goto(c, "check", "exchange")
       ELSE Goto(c, "check", "reload")
  /\ UNCHANGED <<head, tail, turn, storage, ticket, value, claims>>

(* Whether the slot is filled for this ticket. *)
CheckTurn(c) ==
  /\ IF turn[Idx(ticket[c])] = 2 * Turn(ticket[c]) + 1
       THEN Goto(c, "check", "exchange")
       ELSE Goto(c, "check", "reload")
  /\ UNCHANGED <<head, tail, turn, storage, ticket, value, claims>>

(* Mutant: a store, without the comparison. *)
ExchangeAlways(c) ==
  /\ Goto(c, "exchange", "take")
  /\ tail' = ticket[c] + 1
  /\ UNCHANGED <<head, turn, storage, ticket, value, claims>>

(* tail_.compare_exchange_strong(tail, tail + 1), which loads tail_ into   *)
(* tail when it fails.                                                     *)
Exchange(c) ==
  \/ /\ tail = ticket[c]
     /\ Goto(c, "exchange", "take")
     /\ tail' = tail + 1
     /\ UNCHANGED <<head, turn, storage, ticket, value, claims>>
  \/ /\ tail # ticket[c]
     /\ Goto(c, "exchange", "check")
     /\ ticket' = [ticket EXCEPT ![c] = tail]
     /\ UNCHANGED <<head, tail, turn, storage, value, claims>>

(* Mutant: destroy() is left out. *)
TakeOutUndestroyed(c) ==
  /\ Goto(c, "take", "release")
  /\ value' = [value EXCEPT ![c] = storage[Idx(ticket[c])]]
  /\ UNCHANGED <<head, tail, turn, storage, ticket, claims>>

(* v = slot.move() and slot.destroy() *)
TakeOut(c) ==
  /\ Goto(c, "take", "release")
  /\ value' = [value EXCEPT ![c] = storage[Idx(ticket[c])]]
  /\ storage' = [storage EXCEPT ![Idx(ticket[c])] = NoValue]
  /\ UNCHANGED <<head, tail, turn, ticket, claims>>

(* Mutant: the slot is given back with the turn it had. *)
ReleaseToStart(c) ==
  /\ Return(c, "release")
  /\ turn' = [turn EXCEPT ![Idx(ticket[c])] = 2 * Turn(ticket[c])]
  /\ UNCHANGED <<head, tail, storage, claims>>

(* The release store of the next even turn; try_pop returns TRUE. *)
Release(c) ==
  /\ Return(c, "release")
  /\ turn' = [turn EXCEPT ![Idx(ticket[c])] = 2 * Turn(ticket[c]) + 2]
  /\ UNCHANGED <<head, tail, storage, claims>>

(* The slot was not filled: try again if tail_ has moved, else return      *)
(* FALSE.                                                                  *)
Reload(c) ==
  /\ \/ tail = ticket[c] /\ Return(c, "reload")
     \/ /\ tail # ticket[c]
        /\ Goto(c, "reload", "check")
        /\ ticket' = [ticket EXCEPT ![c] = tail]
        /\ UNCHANGED value
  /\ UNCHANGED <<head, tail, turn, storage, claims>>

Producer(p) ==
  \/ \E v \in Values : BeginPush(p, v)
  \/ AwaitTurn(p) \/ Construct(p) \/ Publish(p)
Consumer(c) ==
  \/ LoadTail(c) \/ CheckTurn(c) \/ Exchange(c)
  \/ TakeOut(c) \/ Release(c) \/ Reload(c)

MpmcNext == (\E p \in Producers : Producer(p)) \/ (\E c \in Consumers : Consumer(c))

(* Threads run, so a call that was begun goes on.  None need be begun: the *)
(* only consumer, drainQueue, pops while it drains and may never drain     *)
(* again.                                                                  *)
MpmcFairness ==
  /\ \A p \in Producers : WF_mpmcVars(AwaitTurn(p) \/ Construct(p) \/ Publish(p))
  /\ \A c \in Consumers :
       WF_mpmcVars(CheckTurn(c) \/ Exchange(c) \/ TakeOut(c) \/ Release(c) \/ Reload(c))

MpmcSpec == MpmcInit /\ [][MpmcNext]_mpmcVars
FairMpmcSpec == MpmcSpec /\ MpmcFairness

(***************************************************************************)
(* Properties                                                              *)
(***************************************************************************)
ProducerSteps == {"idle", "await", "construct", "publish"}
ConsumerSteps == {"idle", "check", "exchange", "take", "release", "reload"}
PcTypeOK ==
  /\ pc \in [Threads -> ProducerSteps \cup ConsumerSteps]
  /\ \A p \in Producers : pc[p] \in ProducerSteps
  /\ \A c \in Consumers : pc[c] \in ConsumerSteps

MpmcTypeOK ==
  /\ head \in Tickets /\ tail \in Nat
  /\ turn \in [Slots -> Nat]
  /\ storage \in [Slots -> Values \cup {NoValue}]
  /\ PcTypeOK
  /\ ticket \in [Threads -> Nat]
  /\ value \in [Threads -> Values \cup {NoValue}]
  /\ claims \in Seq(Values)

Writes(p, k) == pc[p] \in {"await", "construct", "publish"} /\ ticket[p] = k
Reads(c, k) == pc[c] \in {"take", "release"} /\ ticket[c] = k

InSlot(t) == pc[t] \in {"construct", "publish", "take", "release"}

(* Two threads are never inside the same slot at once, whichever rounds of *)
(* the ring they are in: the accesses of emplace and try_pop to storage,   *)
(* which is not atomic, do not race.                                       *)
NoTwoInSlot ==
  \A t, u \in Threads :
    t # u /\ InSlot(t) /\ InSlot(u) => Idx(ticket[t]) # Idx(ticket[u])

(* try_pop returns the value that the push of the same ticket was given.   *)
TakenAsPushed ==
  \A c \in Consumers :
    pc[c] = "release" => /\ ticket[c] < Len(claims)
                         /\ value[c] = claims[ticket[c] + 1]

(* No object is constructed over a live one, the one that is moved out is  *)
(* live, and the destructor of a slot, which destroys the object if the    *)
(* turn is odd, is right when no thread is inside.                         *)
SlotLifetimes ==
  /\ \A p \in Producers : pc[p] = "construct" => storage[Idx(ticket[p])] = NoValue
  /\ \A c \in Consumers : pc[c] = "take" => storage[Idx(ticket[c])] # NoValue
  /\ \A s \in Slots :
       (\A t \in Threads : InSlot(t) => Idx(ticket[t]) # s)
         => (turn[s] % 2 = 1 <=> storage[s] # NoValue)

(***************************************************************************)
(* The inductive invariant behind the first two: the tickets below head    *)
(* are those that are filled or being written, those below tail the ones   *)
(* emptied or being read; a thread inside a slot knows its turn.           *)
(***************************************************************************)
HeadInv == \A k \in Tickets : k < head <=> Filled(k) \/ \E p \in Producers : Writes(p, k)
TailInv == \A k \in Tickets : k < tail <=> Emptied(k) \/ \E c \in Consumers : Reads(c, k)
ClaimInv == Len(claims) = head /\ tail <= head
ProducerInv(p) ==
  /\ pc[p] \in {"await", "construct", "publish"} =>
       ticket[p] < head /\ value[p] = claims[ticket[p] + 1]
  /\ pc[p] = "await" => ~Filled(ticket[p])
  /\ pc[p] \in {"construct", "publish"} => turn[Idx(ticket[p])] = 2 * Turn(ticket[p])
  /\ pc[p] = "publish" => storage[Idx(ticket[p])] = claims[ticket[p] + 1]
ConsumerInv(c) ==
  /\ pc[c] \in {"check", "exchange", "reload"} => ticket[c] <= tail
  /\ pc[c] = "exchange" => Filled(ticket[c])
  /\ pc[c] \in {"take", "release"} =>
       ticket[c] < tail /\ turn[Idx(ticket[c])] = 2 * Turn(ticket[c]) + 1
  /\ pc[c] = "release" => value[c] = claims[ticket[c] + 1]
OneEach ==
  /\ \A p, q \in Producers, k \in Tickets : Writes(p, k) /\ Writes(q, k) => p = q
  /\ \A c, d \in Consumers, k \in Tickets : Reads(c, k) /\ Reads(d, k) => c = d
StorageInv ==
  \A k \in Tickets :
    Filled(k) /\ ~Emptied(k) /\ ~(\E c \in Consumers : pc[c] = "release" /\ ticket[c] = k)
      => storage[Idx(k)] = claims[k + 1]

MpmcInv ==
  /\ MpmcTypeOK /\ HeadInv /\ TailInv /\ ClaimInv /\ OneEach /\ StorageInv
  /\ \A p \in Producers : ProducerInv(p)
  /\ \A c \in Consumers : ConsumerInv(c)

(* A push spins no longer than its slot is occupied by a value that nobody *)
(* pops: once a try_pop has claimed the ticket one round before its own,   *)
(* or when there is none, it ends, although no other try_pop is ever       *)
(* called.                                                                 *)
PushEnds ==
  \A p \in Producers : pc[p] = "await" /\ ticket[p] < tail + Capacity ~> pc[p] = "idle"

(* The ring implements the queue of Fifo: pushes take places in the order  *)
(* of head_, values become ready without gaps, and try_pop takes the first *)
(* or, finding its slot unfilled, has seen that none was ready.            *)
IsReady(n) ==
  /\ \A k \in 0 .. n - 1 : Filled(k)
  /\ n < head => ~Filled(n)
ReadyNow == CHOOSE n \in 0 .. head : IsReady(n)
PoppingNow(c) ==
  CASE pc[c] = "idle" -> [step |-> "idle"]
    [] pc[c] = "take" -> [step |-> "holds", value |-> claims[ticket[c] + 1]]
    [] pc[c] = "release" -> [step |-> "holds", value |-> value[c]]
    [] pc[c] = "reload" /\ ticket[c] = tail -> [step |-> "saw empty"]
    [] OTHER -> [step |-> "calling"]
FifoQueue == INSTANCE Fifo
  WITH pushed <- claims, ready <- ReadyNow, taken <- tail,
       popping <- [c \in Consumers |-> PoppingNow(c)]
IsFifo == FifoQueue!FifoSpec
===============================================================================
