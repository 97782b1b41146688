------------------------------ MODULE MpmcProofs ------------------------------
(***************************************************************************)
(* Proofs about Mpmc, for every capacity and any number of threads.        *)
(***************************************************************************)
EXTENDS Mpmc, SeqLemmas

(* A ticket is known by its slot and its turn. *)
LEMMA IdxTurn ==
  \A k \in Nat :
    /\ Idx(k) \in Slots /\ Turn(k) \in Nat
    /\ k = Capacity * Turn(k) + Idx(k)
BY MpmcAssumption DEF Idx, Turn, Slots

(* Slot and turn together tell the tickets apart. *)
LEMMA SameTicket ==
  \A j, k \in Nat : Idx(j) = Idx(k) /\ Turn(j) = Turn(k) => j = k
BY IdxTurn, MpmcAssumption

(* The ring is built with every slot free for its first push. *)
LEMMA InvInit == MpmcInit => MpmcInv
<1> SUFFICES ASSUME MpmcInit PROVE MpmcInv
  OBVIOUS
<1>1. MpmcTypeOK
  BY MpmcAssumption DEF MpmcInit, MpmcTypeOK, PcTypeOK, ProducerSteps, ConsumerSteps, Threads, Tickets
<1>2. \A k \in Tickets : ~Filled(k) /\ ~Emptied(k)
  <2> TAKE k \in Tickets
  <2>1. Idx(k) \in Slots /\ Turn(k) \in Nat
    BY IdxTurn, MpmcAssumption DEF Tickets
  <2>2. turn[Idx(k)] = 0
    BY <2>1 DEF MpmcInit
  <2>3. QED
    BY <2>1, <2>2 DEF Filled, Emptied
<1>3. \A t \in Threads : pc[t] = "idle"
  BY DEF MpmcInit
<1>4. HeadInv /\ TailInv
  BY <1>2, <1>3 DEF MpmcInit, HeadInv, TailInv, Writes, Reads, Threads, Tickets
<1>5. /\ ClaimInv /\ OneEach
      /\ \A p \in Producers : ProducerInv(p)
      /\ \A c \in Consumers : ConsumerInv(c)
  BY <1>3 DEF MpmcInit, ClaimInv, OneEach, ProducerInv, ConsumerInv, Writes, Reads, Threads
<1>6. StorageInv
  BY <1>2 DEF StorageInv
<1>7. QED
  BY <1>1, <1>4, <1>5, <1>6 DEF MpmcInv

(* The constants of the proofs below, apart from the ring's. *)
LEMMA TicketFacts ==
  ASSUME NEW k \in Tickets
  PROVE  k \in Nat /\ Idx(k) \in Slots /\ Turn(k) \in Nat
BY IdxTurn, MpmcAssumption DEF Tickets

(* No thread pushes and pops. *)
LEMMA ThreadsDiffer == \A p \in Producers, c \in Consumers : p # c
BY MpmcAssumption

(* A thread goes on to a step of its own kind. *)
LEMMA GotoType ==
  ASSUME PcTypeOK, NEW t \in Threads, NEW from, NEW to, Goto(t, from, to),
         t \in Producers => to \in ProducerSteps, t \in Consumers => to \in ConsumerSteps
  PROVE  PcTypeOK'
<1>1. to \in ProducerSteps \cup ConsumerSteps
  BY DEF Threads
<1>2. pc' = [pc EXCEPT ![t] = to]
  BY DEF Goto
<1>3. QED
  BY <1>1, <1>2 DEF PcTypeOK, Threads

(* Filled and Emptied depend on nothing but the turns. *)
LEMMA SameTurns ==
  ASSUME turn' = turn
  PROVE  \A k \in Nat : (Filled(k)' <=> Filled(k)) /\ (Emptied(k)' <=> Emptied(k))
BY DEF Filled, Emptied

(* A store of the odd turn fills one ticket and empties none. *)
LEMMA FillsOne ==
  ASSUME MpmcTypeOK, NEW j \in Nat, turn[Idx(j)] = 2 * Turn(j),
         turn' = [turn EXCEPT ![Idx(j)] = 2 * Turn(j) + 1]
  PROVE  \A k \in Nat : /\ Filled(k)' <=> Filled(k) \/ k = j
                        /\ Emptied(k)' <=> Emptied(k)
<1> TAKE k \in Nat
<1>1. /\ Idx(j) \in Slots /\ Turn(j) \in Nat
      /\ Idx(k) \in Slots /\ Turn(k) \in Nat /\ turn[Idx(k)] \in Nat
  BY IdxTurn DEF MpmcTypeOK
<1>2. CASE Idx(k) = Idx(j)
  <2>1. turn'[Idx(k)] = 2 * Turn(j) + 1
    BY <1>1, <1>2 DEF MpmcTypeOK
  <2>2. k = j <=> Turn(k) = Turn(j)
    BY <1>2, SameTicket
  <2>3. QED
    BY <1>1, <1>2, <2>1, <2>2 DEF Filled, Emptied
<1>3. CASE Idx(k) # Idx(j)
  <2>1. turn'[Idx(k)] = turn[Idx(k)]
    BY <1>1, <1>3 DEF MpmcTypeOK
  <2>2. QED
    BY <1>3, <2>1 DEF Filled, Emptied
<1>4. QED
  BY <1>2, <1>3

(* A store of the next even turn empties one ticket and fills none. *)
LEMMA EmptiesOne ==
  ASSUME MpmcTypeOK, NEW j \in Nat, turn[Idx(j)] = 2 * Turn(j) + 1,
         turn' = [turn EXCEPT ![Idx(j)] = 2 * Turn(j) + 2]
  PROVE  \A k \in Nat : /\ Filled(k)' <=> Filled(k)
                        /\ Emptied(k)' <=> Emptied(k) \/ k = j
<1> TAKE k \in Nat
<1>1. /\ Idx(j) \in Slots /\ Turn(j) \in Nat
      /\ Idx(k) \in Slots /\ Turn(k) \in Nat /\ turn[Idx(k)] \in Nat
  BY IdxTurn DEF MpmcTypeOK
<1>2. CASE Idx(k) = Idx(j)
  <2>1. turn'[Idx(k)] = 2 * Turn(j) + 2
    BY <1>1, <1>2 DEF MpmcTypeOK
  <2>2. k = j <=> Turn(k) = Turn(j)
    BY <1>2, SameTicket
  <2>3. QED
    BY <1>1, <1>2, <2>1, <2>2 DEF Filled, Emptied
<1>3. CASE Idx(k) # Idx(j)
  <2>1. turn'[Idx(k)] = turn[Idx(k)]
    BY <1>1, <1>3 DEF MpmcTypeOK
  <2>2. QED
    BY <1>3, <2>1 DEF Filled, Emptied
<1>4. QED
  BY <1>2, <1>3

(* tail never passes head. *)
LEMMA EmptiedIsFilled ==
  ASSUME MpmcTypeOK, NEW k \in Tickets, Emptied(k)
  PROVE  Filled(k)
<1>1. turn[Idx(k)] \in Nat /\ Turn(k) \in Nat
  BY TicketFacts DEF MpmcTypeOK
<1>2. QED
  BY <1>1 DEF Emptied, Filled

(* A filled ticket that is not emptied has the odd turn of its slot. *)
LEMMA FullTurn ==
  ASSUME MpmcTypeOK, NEW k \in Tickets
  PROVE  /\ Filled(k) /\ ~Emptied(k) <=> turn[Idx(k)] = 2 * Turn(k) + 1
         /\ turn[Idx(k)] = 2 * Turn(k) => ~Filled(k) /\ ~Emptied(k)
<1>1. turn[Idx(k)] \in Nat /\ Turn(k) \in Nat
  BY TicketFacts DEF MpmcTypeOK
<1>2. QED
  BY <1>1 DEF Emptied, Filled

(* Threads inside a slot know its turn, hence hold the same ticket if they *)
(* are of the same kind, and are not inside together if they are not.      *)
LEMMA InsideFacts ==
  ASSUME MpmcInv
  PROVE  /\ \A p, q \in Producers :
              /\ pc[p] \in {"construct", "publish"} /\ pc[q] \in {"construct", "publish"}
              /\ Idx(ticket[p]) = Idx(ticket[q])
              => p = q
         /\ \A c, d \in Consumers :
              /\ pc[c] \in {"take", "release"} /\ pc[d] \in {"take", "release"}
              /\ Idx(ticket[c]) = Idx(ticket[d])
              => c = d
         /\ \A p \in Producers, c \in Consumers :
              pc[p] \in {"construct", "publish"} /\ pc[c] \in {"take", "release"}
              => Idx(ticket[p]) # Idx(ticket[c])
<1>1. \A t \in Threads : ticket[t] \in Nat
  BY DEF MpmcInv, MpmcTypeOK
<1>2. \A k \in Nat : k < head => k \in Tickets
  BY MpmcAssumption DEF MpmcInv, MpmcTypeOK, Tickets
<1>3. \A p, q \in Producers :
        /\ pc[p] \in {"construct", "publish"} /\ pc[q] \in {"construct", "publish"}
        /\ Idx(ticket[p]) = Idx(ticket[q])
        => p = q
  <2> SUFFICES ASSUME NEW p \in Producers, NEW q \in Producers,
                      pc[p] \in {"construct", "publish"}, pc[q] \in {"construct", "publish"},
                      Idx(ticket[p]) = Idx(ticket[q])
               PROVE  p = q
    OBVIOUS
  <2>1. ticket[p] \in Nat /\ ticket[q] \in Nat /\ ticket[p] \in Tickets
    BY <1>1, <1>2 DEF MpmcInv, ProducerInv, Threads
  <2>2. 2 * Turn(ticket[p]) = 2 * Turn(ticket[q])
    BY DEF MpmcInv, ProducerInv
  <2>3. Turn(ticket[p]) = Turn(ticket[q])
    BY <2>1, <2>2, IdxTurn
  <2>4. ticket[p] = ticket[q]
    BY <2>1, <2>3, SameTicket
  <2>5. QED
    BY <2>1, <2>4 DEF MpmcInv, OneEach, Writes
<1>4. \A c, d \in Consumers :
        /\ pc[c] \in {"take", "release"} /\ pc[d] \in {"take", "release"}
        /\ Idx(ticket[c]) = Idx(ticket[d])
        => c = d
  <2> SUFFICES ASSUME NEW c \in Consumers, NEW d \in Consumers,
                      pc[c] \in {"take", "release"}, pc[d] \in {"take", "release"},
                      Idx(ticket[c]) = Idx(ticket[d])
               PROVE  c = d
    OBVIOUS
  <2>1. ticket[c] \in Nat /\ ticket[d] \in Nat /\ ticket[c] < tail
    BY <1>1 DEF MpmcInv, ConsumerInv, Threads
  <2>2. ticket[c] \in Tickets
    BY <1>2, <2>1, MpmcAssumption DEF MpmcInv, ClaimInv, MpmcTypeOK, Tickets
  <2>3. 2 * Turn(ticket[c]) + 1 = 2 * Turn(ticket[d]) + 1
    BY DEF MpmcInv, ConsumerInv
  <2>4. Turn(ticket[c]) = Turn(ticket[d])
    BY <2>1, <2>3, IdxTurn
  <2>5. ticket[c] = ticket[d]
    BY <2>1, <2>4, SameTicket
  <2>6. QED
    BY <2>2, <2>5 DEF MpmcInv, OneEach, Reads
<1>5. ASSUME NEW p \in Producers, NEW c \in Consumers,
             pc[p] \in {"construct", "publish"}, pc[c] \in {"take", "release"}
      PROVE  Idx(ticket[p]) # Idx(ticket[c])
  <2>1. Turn(ticket[p]) \in Nat /\ Turn(ticket[c]) \in Nat
    BY <1>1, IdxTurn DEF Threads
  <2>2. /\ turn[Idx(ticket[p])] = 2 * Turn(ticket[p])
        /\ turn[Idx(ticket[c])] = 2 * Turn(ticket[c]) + 1
    BY <1>5 DEF MpmcInv, ProducerInv, ConsumerInv
  <2>3. 2 * Turn(ticket[p]) # 2 * Turn(ticket[c]) + 1
    BY <2>1
  <2>4. QED
    BY <2>2, <2>3
<1>6. QED
  BY <1>3, <1>4, <1>5

(***************************************************************************)
(* Every step keeps the invariant.                                         *)
(***************************************************************************)
LEMMA BeginPushInv ==
  ASSUME MpmcInv, NEW p \in Producers, NEW v \in Values, BeginPush(p, v)
  PROVE  MpmcInv'
<1>0. /\ head \in Nat /\ head < MaxPushes /\ MaxPushes \in Nat /\ tail \in Nat /\ tail <= head
      /\ head \in Tickets /\ pc[p] = "idle" /\ Len(claims) = head /\ claims \in Seq(Values)
  BY MpmcAssumption DEF MpmcInv, MpmcTypeOK, PcTypeOK, ClaimInv, BeginPush, Goto, Tickets
<1>1. MpmcTypeOK'
  <2>1. PcTypeOK'
    BY <1>0, GotoType, ThreadsDiffer
       DEF MpmcInv, MpmcTypeOK, BeginPush, Threads, ProducerSteps, ConsumerSteps
  <2>2. QED
    BY <1>0, <2>1, MpmcAssumption DEF MpmcInv, MpmcTypeOK, BeginPush, Goto, Tickets, Threads
<1>2. /\ \A t \in Threads : t # p => pc'[t] = pc[t] /\ ticket'[t] = ticket[t] /\ value'[t] = value[t]
      /\ pc'[p] = "await" /\ ticket'[p] = head /\ value'[p] = v
      /\ head' = head + 1 /\ tail' = tail /\ turn' = turn /\ storage' = storage
  BY DEF MpmcInv, MpmcTypeOK, PcTypeOK, BeginPush, Goto, Threads
<1>3. \A k \in Tickets : (Filled(k)' <=> Filled(k)) /\ (Emptied(k)' <=> Emptied(k))
  BY <1>2, SameTurns, TicketFacts
<1>4. /\ Len(claims') = head + 1 /\ claims'[head + 1] = v
      /\ \A k \in Nat : k < head => claims'[k + 1] = claims[k + 1]
  BY <1>0 DEF BeginPush
<1>5. \A c \in Consumers : pc'[c] = pc[c] /\ ticket'[c] = ticket[c] /\ value'[c] = value[c]
  BY <1>2, ThreadsDiffer DEF Threads
<1>6. \A q \in Producers, k \in Tickets : Writes(q, k)' <=> Writes(q, k) \/ (q = p /\ k = head)
  BY <1>0, <1>2 DEF Writes, Threads
<1>7. HeadInv'
  BY <1>0, <1>2, <1>3, <1>6, TicketFacts DEF MpmcInv, HeadInv
<1>8. TailInv'
  BY <1>2, <1>3, <1>5 DEF MpmcInv, TailInv, Reads
<1>9. ~Filled(head) /\ \A q \in Producers : ~Writes(q, head)
  BY <1>0 DEF MpmcInv, HeadInv
<1>10. ClaimInv' /\ OneEach'
  BY <1>0, <1>2, <1>4, <1>5, <1>6, <1>9 DEF MpmcInv, ClaimInv, OneEach, Reads
<1>11. /\ \A q \in Producers : ProducerInv(q)'
       /\ \A c \in Consumers : ConsumerInv(c)'
  <2>1. ASSUME NEW q \in Producers PROVE ProducerInv(q)'
    <3>1. CASE q = p
      BY <1>0, <1>2, <1>3, <1>4, <1>9, <3>1 DEF ProducerInv
    <3>2. CASE q # p
      <4>1. pc'[q] = pc[q] /\ ticket'[q] = ticket[q] /\ value'[q] = value[q] /\ ticket[q] \in Nat
        BY <1>2, <3>2 DEF Threads, MpmcInv, MpmcTypeOK
      <4>2. Filled(ticket[q])' <=> Filled(ticket[q])
        BY <1>2, <4>1 DEF Filled
      <4>3. QED
        BY <1>0, <1>2, <1>4, <4>1, <4>2 DEF MpmcInv, ProducerInv
    <3>3. QED
      BY <3>1, <3>2
  <2>2. ASSUME NEW c \in Consumers PROVE ConsumerInv(c)'
    <3>1. ticket[c] \in Nat /\ (Filled(ticket[c])' <=> Filled(ticket[c]))
      BY <1>2, <1>5 DEF MpmcInv, MpmcTypeOK, Threads, Filled
    <3>2. QED
      BY <1>0, <1>2, <1>4, <1>5, <3>1 DEF MpmcInv, ConsumerInv
  <2>3. QED
    BY <2>1, <2>2
<1>12. StorageInv'
  <2> SUFFICES ASSUME NEW k \in Tickets, Filled(k)', ~Emptied(k)',
                      ~(\E c \in Consumers : pc'[c] = "release" /\ ticket'[c] = k)
               PROVE  storage'[Idx(k)] = claims'[k + 1]
    BY DEF StorageInv
  <2>1. storage[Idx(k)] = claims[k + 1]
    BY <1>3, <1>5 DEF MpmcInv, StorageInv
  <2>2. k < head
    BY <1>3 DEF MpmcInv, HeadInv
  <2>3. QED
    BY <1>2, <1>4, <2>1, <2>2, TicketFacts
<1>13. QED
  BY <1>1, <1>7, <1>8, <1>10, <1>11, <1>12 DEF MpmcInv

(* A step that changes nothing but the local variables of one thread, and  *)
(* leaves it outside its slot or inside, as it was.                        *)
LEMMA LocalStep ==
  ASSUME MpmcInv, MpmcTypeOK', NEW t \in Threads,
         UNCHANGED <<head, tail, turn, storage, claims>>,
         \A u \in Threads \ {t} :
           pc'[u] = pc[u] /\ ticket'[u] = ticket[u] /\ value'[u] = value[u],
         t \in Producers => ProducerInv(t)' /\ \A k \in Tickets : Writes(t, k)' <=> Writes(t, k),
         t \in Consumers => /\ ConsumerInv(t)'
                            /\ \A k \in Tickets : Reads(t, k)' <=> Reads(t, k)
                            /\ pc[t] # "release" /\ pc'[t] # "release"
  PROVE  MpmcInv'
<1>1. \A k \in Nat : (Filled(k)' <=> Filled(k)) /\ (Emptied(k)' <=> Emptied(k))
  BY SameTurns
<1>2. /\ \A p \in Producers, k \in Tickets : Writes(p, k)' <=> Writes(p, k)
      /\ \A c \in Consumers, k \in Tickets : Reads(c, k)' <=> Reads(c, k)
  BY ThreadsDiffer DEF Threads, Writes, Reads
<1>3. HeadInv' /\ TailInv' /\ ClaimInv' /\ OneEach'
  BY <1>1, <1>2, TicketFacts DEF MpmcInv, HeadInv, TailInv, ClaimInv, OneEach
<1>4. StorageInv'
  <2> SUFFICES ASSUME NEW k \in Tickets, Filled(k)', ~Emptied(k)',
                      ~(\E c \in Consumers : pc'[c] = "release" /\ ticket'[c] = k)
               PROVE  storage'[Idx(k)] = claims'[k + 1]
    BY DEF StorageInv
  <2>1. ~(\E c \in Consumers : pc[c] = "release" /\ ticket[c] = k)
    BY DEF Threads
  <2>2. QED
    BY <1>1, <2>1, TicketFacts DEF MpmcInv, StorageInv
<1>5. ASSUME NEW p \in Producers PROVE ProducerInv(p)'
  <2>1. CASE p = t
    BY <2>1
  <2>2. CASE p # t
    BY <2>2 DEF MpmcInv, ProducerInv, Threads, Filled
  <2>3. QED
    BY <2>1, <2>2
<1>6. ASSUME NEW c \in Consumers PROVE ConsumerInv(c)'
  <2>1. CASE c = t
    BY <2>1
  <2>2. CASE c # t
    BY <2>2 DEF MpmcInv, ConsumerInv, Threads, Filled
  <2>3. QED
    BY <2>1, <2>2
<1>7. QED
  BY <1>3, <1>4, <1>5, <1>6 DEF MpmcInv

(* The push that has waited for its turn may construct. *)
LEMMA AwaitTurnInv ==
  ASSUME MpmcInv, NEW p \in Producers, AwaitTurn(p)
  PROVE  MpmcInv'
<1>1. MpmcTypeOK'
  <2>1. PcTypeOK'
    BY GotoType, ThreadsDiffer
       DEF MpmcInv, MpmcTypeOK, AwaitTurn, Threads, ProducerSteps, ConsumerSteps
  <2>2. QED
    BY <2>1 DEF MpmcInv, MpmcTypeOK, AwaitTurn, Goto, Threads
<1>2. /\ UNCHANGED <<head, tail, turn, storage, claims>>
      /\ pc[p] = "await" /\ pc'[p] = "construct"
      /\ ticket' = ticket /\ value' = value /\ p \in Threads /\ p \notin Consumers
      /\ \A u \in Threads \ {p} : pc'[u] = pc[u]
  BY ThreadsDiffer DEF MpmcInv, MpmcTypeOK, PcTypeOK, AwaitTurn, Goto, Threads
<1>3. ProducerInv(p)'
  BY <1>2 DEF MpmcInv, ProducerInv, AwaitTurn
<1>4. \A k \in Tickets : Writes(p, k)' <=> Writes(p, k)
  BY <1>2 DEF Writes
<1>5. QED
  BY <1>1, <1>2, <1>3, <1>4, LocalStep

(* try_pop reads the tail. *)
LEMMA LoadTailInv ==
  ASSUME MpmcInv, NEW c \in Consumers, LoadTail(c)
  PROVE  MpmcInv'
<1>1. MpmcTypeOK'
  <2>1. PcTypeOK'
    BY GotoType, ThreadsDiffer
       DEF MpmcInv, MpmcTypeOK, LoadTail, Threads, ProducerSteps, ConsumerSteps
  <2>2. QED
    BY <2>1 DEF MpmcInv, MpmcTypeOK, LoadTail, Goto, Threads
<1>2. /\ UNCHANGED <<head, tail, turn, storage, claims>>
      /\ pc[c] = "idle" /\ pc'[c] = "check" /\ ticket'[c] = tail
      /\ value' = value /\ c \in Threads /\ c \notin Producers
      /\ \A u \in Threads \ {c} : pc'[u] = pc[u] /\ ticket'[u] = ticket[u]
  BY ThreadsDiffer DEF MpmcInv, MpmcTypeOK, PcTypeOK, LoadTail, Goto, Threads
<1>3. ConsumerInv(c)'
  BY <1>2 DEF MpmcInv, MpmcTypeOK, ConsumerInv
<1>4. \A k \in Tickets : Reads(c, k)' <=> Reads(c, k)
  BY <1>2 DEF Reads
<1>5. QED
  BY <1>1, <1>2, <1>3, <1>4, LocalStep

(* try_pop compares the turn of the slot it read the tail for. *)
LEMMA CheckTurnInv ==
  ASSUME MpmcInv, NEW c \in Consumers, CheckTurn(c)
  PROVE  MpmcInv'
<1>1. MpmcTypeOK'
  <2>1. PcTypeOK'
    BY GotoType, ThreadsDiffer
       DEF MpmcInv, MpmcTypeOK, CheckTurn, Threads, ProducerSteps, ConsumerSteps
  <2>2. QED
    BY <2>1 DEF MpmcInv, MpmcTypeOK, CheckTurn, Goto, Threads
<1>2. /\ UNCHANGED <<head, tail, turn, storage, claims>>
      /\ pc[c] = "check" /\ pc'[c] \in {"exchange", "reload"}
      /\ pc'[c] = "exchange" => turn[Idx(ticket[c])] = 2 * Turn(ticket[c]) + 1
      /\ ticket' = ticket /\ value' = value /\ c \in Threads /\ c \notin Producers
      /\ \A u \in Threads \ {c} : pc'[u] = pc[u]
  BY ThreadsDiffer DEF MpmcInv, MpmcTypeOK, PcTypeOK, CheckTurn, Goto, Threads
<1>3. pc'[c] = "exchange" => Filled(ticket[c])'
  <2>1. ticket[c] \in Nat
    BY <1>2 DEF MpmcInv, MpmcTypeOK
  <2>2. Turn(ticket[c]) \in Nat
    BY <2>1, IdxTurn
  <2>3. QED
    BY <1>2, <2>2 DEF Filled
<1>4. ConsumerInv(c)'
  BY <1>2, <1>3 DEF MpmcInv, ConsumerInv
<1>5. \A k \in Tickets : Reads(c, k)' <=> Reads(c, k)
  BY <1>2 DEF Reads
<1>6. QED
  BY <1>1, <1>2, <1>4, <1>5, LocalStep

(* try_pop reads the tail again when the slot is not filled. *)
LEMMA ReloadInv ==
  ASSUME MpmcInv, NEW c \in Consumers, Reload(c)
  PROVE  MpmcInv'
<1>1. MpmcTypeOK'
  <2>1. PcTypeOK'
    BY GotoType, ThreadsDiffer
       DEF MpmcInv, MpmcTypeOK, Reload, Return, Threads, ProducerSteps, ConsumerSteps
  <2>2. ticket' \in [Threads -> Nat] /\ value' \in [Threads -> Values \cup {NoValue}]
    <3>1. tail \in Nat /\ ticket \in [Threads -> Nat]
      BY DEF MpmcInv, MpmcTypeOK
    <3>2. ticket' = [ticket EXCEPT ![c] = 0] \/ ticket' = [ticket EXCEPT ![c] = tail]
      BY DEF Reload, Return
    <3>3. value' \in [Threads -> Values \cup {NoValue}]
      BY DEF MpmcInv, MpmcTypeOK, Reload, Return
    <3>4. QED
      BY <3>1, <3>2, <3>3
  <2>3. QED
    BY <2>1, <2>2 DEF MpmcInv, MpmcTypeOK, Reload
<1>2. /\ UNCHANGED <<head, tail, turn, storage, claims>>
      /\ pc[c] = "reload" /\ pc'[c] \in {"idle", "check"}
      /\ pc'[c] = "check" => ticket'[c] = tail
      /\ c \in Threads /\ c \notin Producers
      /\ \A u \in Threads \ {c} :
           pc'[u] = pc[u] /\ ticket'[u] = ticket[u] /\ value'[u] = value[u]
  BY ThreadsDiffer DEF MpmcInv, MpmcTypeOK, PcTypeOK, Reload, Return, Goto, Threads
<1>3. ConsumerInv(c)'
  BY <1>2 DEF MpmcInv, MpmcTypeOK, ConsumerInv
<1>4. \A k \in Tickets : Reads(c, k)' <=> Reads(c, k)
  BY <1>2 DEF Reads
<1>5. QED
  BY <1>1, <1>2, <1>3, <1>4, LocalStep

(* The compare-exchange of try_pop takes the ticket, or finds the tail     *)
(* moved.                                                                  *)
LEMMA ExchangeInv ==
  ASSUME MpmcInv, NEW c \in Consumers, Exchange(c)
  PROVE  MpmcInv'
<1>0. c \in Threads /\ c \notin Producers /\ ticket[c] \in Nat /\ tail \in Nat
  BY ThreadsDiffer DEF Threads, MpmcInv, MpmcTypeOK
<1>1. MpmcTypeOK'
  <2>1. UNCHANGED <<head, turn, storage, value, claims>>
    BY DEF Exchange
  <2>2. tail' \in Nat /\ ticket' \in [Threads -> Nat]
    BY <1>0 DEF MpmcInv, MpmcTypeOK, Exchange
  <2>3. PcTypeOK'
    BY <1>0, GotoType DEF MpmcInv, MpmcTypeOK, Exchange, ProducerSteps, ConsumerSteps
  <2>4. QED
    BY <1>0, <2>1, <2>2, <2>3 DEF MpmcInv, MpmcTypeOK
<1>2. CASE tail # ticket[c]
  <2>1. /\ UNCHANGED <<head, tail, turn, storage, claims>>
        /\ pc[c] = "exchange" /\ pc'[c] = "check" /\ ticket'[c] = tail /\ value' = value
        /\ \A u \in Threads \ {c} : pc'[u] = pc[u] /\ ticket'[u] = ticket[u]
    BY <1>0, <1>2 DEF MpmcInv, MpmcTypeOK, PcTypeOK, Exchange, Goto
  <2>2. ConsumerInv(c)'
    BY <1>0, <2>1 DEF ConsumerInv
  <2>3. \A k \in Tickets : Reads(c, k)' <=> Reads(c, k)
    BY <2>1 DEF Reads
  <2>4. QED
    BY <1>0, <1>1, <2>1, <2>2, <2>3, LocalStep
<1>3. CASE tail = ticket[c]
  <2>1. /\ pc[c] = "exchange" /\ pc'[c] = "take" /\ tail' = tail + 1
        /\ UNCHANGED <<head, turn, storage, ticket, value, claims>>
        /\ \A u \in Threads \ {c} : pc'[u] = pc[u]
    BY <1>0, <1>3 DEF MpmcInv, MpmcTypeOK, PcTypeOK, Exchange, Goto
  <2>2. tail \in Tickets /\ head \in Tickets
    BY <1>0, MpmcAssumption DEF MpmcInv, MpmcTypeOK, ClaimInv, Tickets
  <2>3. Filled(tail) /\ ~Emptied(tail)
    BY <1>0, <1>3, <2>1, <2>2 DEF MpmcInv, ConsumerInv, TailInv
  <2>4. tail < head
    BY <2>2, <2>3 DEF MpmcInv, HeadInv
  <2>5. \A k \in Nat : (Filled(k)' <=> Filled(k)) /\ (Emptied(k)' <=> Emptied(k))
    BY <2>1, SameTurns
  <2>6. \A d \in Consumers, k \in Tickets : Reads(d, k)' <=> Reads(d, k) \/ (d = c /\ k = tail)
    BY <1>0, <1>3, <2>1 DEF Reads, Threads
  <2>7. \A p \in Producers : pc'[p] = pc[p]
    BY <1>0, <2>1 DEF Threads
  <2>8. HeadInv' /\ ClaimInv'
    <3>1. HeadInv'
      BY <2>1, <2>5, <2>7, TicketFacts DEF MpmcInv, HeadInv, Writes
    <3>2. head \in Nat /\ tail + 1 <= head
      BY <1>0, <2>2, <2>4 DEF Tickets
    <3>3. QED
      BY <2>1, <3>1, <3>2 DEF MpmcInv, ClaimInv
  <2>9. TailInv'
    BY <1>0, <2>1, <2>5, <2>6, TicketFacts DEF MpmcInv, TailInv
  <2>10. OneEach'
    <3>1. \A d \in Consumers : ~Reads(d, tail)
      BY <1>0, <2>2 DEF MpmcInv, TailInv
    <3>2. QED
      BY <2>1, <2>6, <2>7, <3>1 DEF MpmcInv, OneEach, Writes
  <2>11. StorageInv'
    BY <1>0, <2>1, <2>5, TicketFacts DEF MpmcInv, StorageInv, Threads
  <2>12. ASSUME NEW p \in Producers PROVE ProducerInv(p)'
    BY <2>1, <2>7 DEF MpmcInv, ProducerInv, Filled
  <2>13. ASSUME NEW d \in Consumers PROVE ConsumerInv(d)'
    <3>1. CASE d = c
      <4>1. turn[Idx(tail)] = 2 * Turn(tail) + 1
        BY <2>2, <2>3, FullTurn DEF MpmcInv
      <4>2. QED
        BY <1>0, <1>3, <2>1, <3>1, <4>1 DEF ConsumerInv
    <3>2. CASE d # c
      <4>1. d \in Threads /\ ticket[d] \in Nat
        BY DEF Threads, MpmcInv, MpmcTypeOK
      <4>2. QED
        BY <1>0, <2>1, <3>2, <4>1 DEF MpmcInv, ConsumerInv, Filled
    <3>3. QED
      BY <3>1, <3>2
  <2>14. QED
    BY <1>1, <2>8, <2>9, <2>10, <2>11, <2>12, <2>13 DEF MpmcInv
<1>4. QED
  BY <1>2, <1>3

(* A push constructs its value in the slot whose turn it has. *)
LEMMA ConstructInv ==
  ASSUME MpmcInv, NEW p \in Producers, Construct(p)
  PROVE  MpmcInv'
<1>0. /\ p \in Threads /\ p \notin Consumers /\ ticket[p] \in Nat /\ Turn(ticket[p]) \in Nat
      /\ Idx(ticket[p]) \in Slots /\ value[p] \in Values
  <2>1. p \in Threads /\ p \notin Consumers /\ ticket[p] \in Nat
    BY ThreadsDiffer DEF Threads, MpmcInv, MpmcTypeOK
  <2>2. ticket[p] < head /\ value[p] = claims[ticket[p] + 1] /\ Len(claims) = head
    BY DEF MpmcInv, ClaimInv, ProducerInv, Construct, Goto
  <2>3. claims \in Seq(Values)
    BY DEF MpmcInv, MpmcTypeOK
  <2>4. value[p] \in Values
    BY <2>1, <2>2, <2>3
  <2>5. QED
    BY <2>1, <2>4, IdxTurn
<1>1. MpmcTypeOK'
  <2>1. PcTypeOK'
    BY <1>0, GotoType, ThreadsDiffer
       DEF MpmcInv, MpmcTypeOK, Construct, Threads, ProducerSteps, ConsumerSteps
  <2>2. QED
    BY <1>0, <2>1 DEF MpmcInv, MpmcTypeOK, Construct, Goto
<1>2. /\ UNCHANGED <<head, tail, turn, ticket, value, claims>>
      /\ pc[p] = "construct" /\ pc'[p] = "publish"
      /\ \A u \in Threads \ {p} : pc'[u] = pc[u]
      /\ storage'[Idx(ticket[p])] = value[p]
      /\ \A s \in Slots : s # Idx(ticket[p]) => storage'[s] = storage[s]
  BY <1>0 DEF MpmcInv, MpmcTypeOK, PcTypeOK, Construct, Goto
<1>3. \A k \in Nat : (Filled(k)' <=> Filled(k)) /\ (Emptied(k)' <=> Emptied(k))
  BY <1>2, SameTurns
<1>4. /\ \A q \in Producers, k \in Tickets : Writes(q, k)' <=> Writes(q, k)
      /\ \A c \in Consumers, k \in Tickets : Reads(c, k)' <=> Reads(c, k)
  BY <1>0, <1>2 DEF Writes, Reads, Threads
<1>5. HeadInv' /\ TailInv' /\ ClaimInv' /\ OneEach'
  BY <1>2, <1>3, <1>4, TicketFacts DEF MpmcInv, HeadInv, TailInv, ClaimInv, OneEach
<1>6. turn[Idx(ticket[p])] = 2 * Turn(ticket[p])
  BY <1>2 DEF MpmcInv, ProducerInv
<1>7. StorageInv'
  <2> SUFFICES ASSUME NEW k \in Tickets, Filled(k)', ~Emptied(k)',
                      ~(\E c \in Consumers : pc'[c] = "release" /\ ticket'[c] = k)
               PROVE  storage'[Idx(k)] = claims'[k + 1]
    BY DEF StorageInv
  <2>1. k \in Nat /\ Idx(k) \in Slots /\ Turn(k) \in Nat
    BY TicketFacts
  <2>2. turn[Idx(k)] = 2 * Turn(k) + 1
    BY <1>3, <2>1, FullTurn DEF MpmcInv
  <2>3. 2 * Turn(k) + 1 # 2 * Turn(ticket[p])
    BY <1>0, <2>1
  <2>4. Idx(k) # Idx(ticket[p])
    BY <1>6, <2>2, <2>3
  <2>5. ~(\E c \in Consumers : pc[c] = "release" /\ ticket[c] = k)
    BY <1>0, <1>2 DEF Threads
  <2>6. QED
    BY <1>2, <1>3, <2>1, <2>4, <2>5 DEF MpmcInv, StorageInv
<1>8. ASSUME NEW q \in Producers PROVE ProducerInv(q)'
  <2>1. CASE q = p
    BY <1>0, <1>2, <2>1 DEF MpmcInv, ProducerInv
  <2>2. CASE q # p
    <3>1. q \in Threads /\ pc'[q] = pc[q] /\ Idx(ticket[q]) \in Slots
      BY <1>2, <2>2, IdxTurn DEF Threads, MpmcInv, MpmcTypeOK
    <3>2. pc[q] = "publish" => storage'[Idx(ticket[q])] = storage[Idx(ticket[q])]
      BY <1>2, <2>2, <3>1, InsideFacts
    <3>3. QED
      BY <1>2, <3>1, <3>2 DEF MpmcInv, ProducerInv, Filled
  <2>3. QED
    BY <2>1, <2>2
<1>9. ASSUME NEW c \in Consumers PROVE ConsumerInv(c)'
  BY <1>0, <1>2 DEF MpmcInv, ConsumerInv, Filled, Threads
<1>10. QED
  BY <1>1, <1>5, <1>7, <1>8, <1>9 DEF MpmcInv

(* The store of the turn hands the slot to the pops. *)
LEMMA PublishInv ==
  ASSUME MpmcInv, NEW p \in Producers, Publish(p)
  PROVE  MpmcInv'
<1> DEFINE j == ticket[p]
<1>0. p \in Threads /\ p \notin Consumers /\ j \in Nat /\ Turn(j) \in Nat /\ Idx(j) \in Slots
  BY ThreadsDiffer, IdxTurn DEF Threads, MpmcInv, MpmcTypeOK
<1>1. MpmcTypeOK'
  <2>1. PcTypeOK'
    BY <1>0, GotoType, ThreadsDiffer
       DEF MpmcInv, MpmcTypeOK, Publish, Return, Threads, ProducerSteps, ConsumerSteps
  <2>2. QED
    BY <1>0, <2>1 DEF MpmcInv, MpmcTypeOK, Publish, Return, Goto, Threads
<1>2. /\ UNCHANGED <<head, tail, storage, claims>>
      /\ pc[p] = "publish" /\ pc'[p] = "idle"
      /\ turn' = [turn EXCEPT ![Idx(j)] = 2 * Turn(j) + 1]
      /\ \A u \in Threads \ {p} :
           pc'[u] = pc[u] /\ ticket'[u] = ticket[u] /\ value'[u] = value[u]
  BY <1>0 DEF MpmcInv, MpmcTypeOK, PcTypeOK, Publish, Return, Goto
<1>3. turn[Idx(j)] = 2 * Turn(j) /\ storage[Idx(j)] = claims[j + 1] /\ j < head /\ j \in Tickets
  BY <1>0, <1>2, MpmcAssumption DEF MpmcInv, ProducerInv, MpmcTypeOK, Tickets
<1> HIDE DEF j
<1>4. \A k \in Nat : (Filled(k)' <=> Filled(k) \/ k = j) /\ (Emptied(k)' <=> Emptied(k))
  BY <1>0, <1>2, <1>3, FillsOne DEF MpmcInv
<1>5. /\ \A q \in Producers, k \in Tickets : Writes(q, k)' <=> Writes(q, k) /\ q # p
      /\ \A k \in Tickets : Writes(p, k) <=> k = j
      /\ \A c \in Consumers, k \in Tickets : Reads(c, k)' <=> Reads(c, k)
      /\ \A c \in Consumers : pc'[c] = pc[c] /\ ticket'[c] = ticket[c] /\ value'[c] = value[c]
  BY <1>0, <1>2 DEF Writes, Reads, Threads, j
<1>6. HeadInv'
  <2>1. \A q \in Producers : q # p => ~Writes(q, j)
    BY <1>3, <1>5 DEF MpmcInv, OneEach
  <2>2. QED
    BY <1>2, <1>4, <1>5, <2>1, TicketFacts DEF MpmcInv, HeadInv
<1>7. TailInv' /\ ClaimInv' /\ OneEach'
  BY <1>2, <1>4, <1>5, TicketFacts DEF MpmcInv, TailInv, ClaimInv, OneEach
<1>8. StorageInv'
  <2> SUFFICES ASSUME NEW k \in Tickets, Filled(k)', ~Emptied(k)',
                      ~(\E c \in Consumers : pc'[c] = "release" /\ ticket'[c] = k)
               PROVE  storage'[Idx(k)] = claims'[k + 1]
    BY DEF StorageInv
  <2>1. QED
    BY <1>2, <1>3, <1>4, <1>5, TicketFacts DEF MpmcInv, StorageInv
<1>9. ASSUME NEW q \in Producers PROVE ProducerInv(q)'
  <2>1. CASE q = p
    BY <1>2, <2>1 DEF ProducerInv
  <2>2. CASE q # p
    <3>1. /\ q \in Threads /\ pc'[q] = pc[q] /\ ticket'[q] = ticket[q] /\ value'[q] = value[q]
          /\ ticket[q] \in Nat /\ Idx(ticket[q]) \in Slots
      BY <1>2, <2>2, IdxTurn DEF Threads, MpmcInv, MpmcTypeOK
    <3>2. pc[q] \in {"construct", "publish"} => turn'[Idx(ticket[q])] = turn[Idx(ticket[q])]
      BY <1>0, <1>2, <2>2, <3>1, InsideFacts DEF j, MpmcInv, MpmcTypeOK
    <3>3. pc[q] = "await" => ticket[q] # j
      <4>1. ~Writes(q, j)
        BY <1>3, <1>5, <2>2 DEF MpmcInv, OneEach
      <4>2. QED
        BY <4>1 DEF Writes
    <3>4. Filled(ticket[q])' <=> Filled(ticket[q]) \/ ticket[q] = j
      BY <1>4, <3>1
    <3>5. QED
      BY <1>2, <3>1, <3>2, <3>3, <3>4 DEF MpmcInv, ProducerInv
  <2>3. QED
    BY <2>1, <2>2
<1>10. ASSUME NEW c \in Consumers PROVE ConsumerInv(c)'
  <2>1. ticket[c] \in Nat /\ Idx(ticket[c]) \in Slots
    BY IdxTurn DEF Threads, MpmcInv, MpmcTypeOK
  <2>2. pc[c] \in {"take", "release"} => turn'[Idx(ticket[c])] = turn[Idx(ticket[c])]
    BY <1>0, <1>2, <2>1, InsideFacts DEF j, MpmcInv, MpmcTypeOK
  <2>3. Filled(ticket[c]) => Filled(ticket[c])'
    BY <1>4, <1>5, <2>1
  <2>4. QED
    BY <1>2, <1>5, <2>2, <2>3 DEF MpmcInv, ConsumerInv
<1>11. QED
  BY <1>1, <1>6, <1>7, <1>8, <1>9, <1>10 DEF MpmcInv

(* A pop moves the value out and destroys it. *)
LEMMA TakeOutInv ==
  ASSUME MpmcInv, NEW c \in Consumers, TakeOut(c)
  PROVE  MpmcInv'
<1> DEFINE j == ticket[c]
<1>0. /\ c \in Threads /\ c \notin Producers
      /\ j \in Nat /\ Turn(j) \in Nat /\ Idx(j) \in Slots
      /\ storage[Idx(j)] \in Values \cup {NoValue}
  BY ThreadsDiffer, IdxTurn DEF Threads, MpmcInv, MpmcTypeOK
<1>1. MpmcTypeOK'
  <2>1. PcTypeOK'
    BY <1>0, GotoType, ThreadsDiffer
       DEF MpmcInv, MpmcTypeOK, TakeOut, Threads, ProducerSteps, ConsumerSteps
  <2>2. QED
    BY <1>0, <2>1 DEF MpmcInv, MpmcTypeOK, TakeOut, Goto
<1>2. /\ UNCHANGED <<head, tail, turn, ticket, claims>>
      /\ pc[c] = "take" /\ pc'[c] = "release"
      /\ \A u \in Threads \ {c} : pc'[u] = pc[u] /\ value'[u] = value[u]
      /\ value'[c] = storage[Idx(j)]
      /\ \A s \in Slots : s # Idx(j) => storage'[s] = storage[s]
  BY <1>0 DEF MpmcInv, MpmcTypeOK, PcTypeOK, TakeOut, Goto
<1>3. turn[Idx(j)] = 2 * Turn(j) + 1 /\ j < tail /\ j < head /\ j \in Tickets
  BY <1>0, <1>2, MpmcAssumption
     DEF MpmcInv, ConsumerInv, ClaimInv, MpmcTypeOK, Tickets
<1>4. storage[Idx(j)] = claims[j + 1]
  <2>1. Filled(j) /\ ~Emptied(j)
    BY <1>3, FullTurn DEF MpmcInv
  <2>2. ASSUME NEW d \in Consumers, pc[d] = "release", ticket[d] = j PROVE FALSE
    <3>1. d = c
      BY <1>2, <2>2, InsideFacts
    <3>2. QED
      BY <1>2, <2>2, <3>1
  <2>3. QED
    BY <1>3, <2>1, <2>2 DEF MpmcInv, StorageInv
<1>5. \A k \in Nat : (Filled(k)' <=> Filled(k)) /\ (Emptied(k)' <=> Emptied(k))
  BY <1>2, SameTurns
<1>6. /\ \A q \in Producers, k \in Tickets : Writes(q, k)' <=> Writes(q, k)
      /\ \A d \in Consumers, k \in Tickets : Reads(d, k)' <=> Reads(d, k)
  BY <1>0, <1>2 DEF Writes, Reads, Threads
<1>7. HeadInv' /\ TailInv' /\ ClaimInv' /\ OneEach'
  BY <1>2, <1>5, <1>6, TicketFacts DEF MpmcInv, HeadInv, TailInv, ClaimInv, OneEach
<1>8. StorageInv'
  <2> SUFFICES ASSUME NEW k \in Tickets, Filled(k)', ~Emptied(k)',
                      ~(\E d \in Consumers : pc'[d] = "release" /\ ticket'[d] = k)
               PROVE  storage'[Idx(k)] = claims'[k + 1]
    BY DEF StorageInv
  <2>1. k \in Nat /\ Idx(k) \in Slots /\ Turn(k) \in Nat /\ k # j
    BY <1>2, TicketFacts
  <2>2. turn[Idx(k)] = 2 * Turn(k) + 1
    BY <1>5, <2>1, FullTurn DEF MpmcInv
  <2>3. ASSUME Idx(k) = Idx(j) PROVE FALSE
    <3>1. 2 * Turn(k) + 1 = 2 * Turn(j) + 1
      BY <1>3, <2>2, <2>3
    <3>2. Turn(k) = Turn(j)
      BY <1>0, <2>1, <3>1
    <3>3. QED
      BY <1>0, <2>1, <2>3, <3>2, SameTicket
  <2>4. ~(\E d \in Consumers : pc[d] = "release" /\ ticket[d] = k)
    BY <1>2, <2>1 DEF Threads
  <2>5. QED
    BY <1>2, <1>5, <2>1, <2>3, <2>4 DEF MpmcInv, StorageInv
<1>9. ASSUME NEW q \in Producers PROVE ProducerInv(q)'
  <2>1. q \in Threads /\ q # c /\ ticket[q] \in Nat /\ Idx(ticket[q]) \in Slots
    BY <1>0, IdxTurn DEF Threads, MpmcInv, MpmcTypeOK
  <2>2. pc[q] = "publish" => storage'[Idx(ticket[q])] = storage[Idx(ticket[q])]
    BY <1>2, <2>1, InsideFacts
  <2>3. QED
    BY <1>2, <2>1, <2>2 DEF MpmcInv, ProducerInv, Filled
<1>10. ASSUME NEW d \in Consumers PROVE ConsumerInv(d)'
  <2>1. CASE d = c
    BY <1>2, <1>3, <1>4, <2>1 DEF ConsumerInv
  <2>2. CASE d # c
    BY <1>2, <2>2 DEF MpmcInv, ConsumerInv, Filled, Threads
  <2>3. QED
    BY <2>1, <2>2
<1>11. QED
  BY <1>1, <1>7, <1>8, <1>9, <1>10 DEF MpmcInv

(* The store of the turn hands the slot to the push of the next round. *)
LEMMA ReleaseInv ==
  ASSUME MpmcInv, NEW c \in Consumers, Release(c)
  PROVE  MpmcInv'
<1> DEFINE j == ticket[c]
<1>0. c \in Threads /\ c \notin Producers /\ j \in Nat /\ Turn(j) \in Nat /\ Idx(j) \in Slots
  BY ThreadsDiffer, IdxTurn DEF Threads, MpmcInv, MpmcTypeOK
<1>1. MpmcTypeOK'
  <2>1. PcTypeOK'
    BY <1>0, GotoType, ThreadsDiffer
       DEF MpmcInv, MpmcTypeOK, Release, Return, Threads, ProducerSteps, ConsumerSteps
  <2>2. QED
    BY <1>0, <2>1 DEF MpmcInv, MpmcTypeOK, Release, Return, Goto, Threads
<1>2. /\ UNCHANGED <<head, tail, storage, claims>>
      /\ pc[c] = "release" /\ pc'[c] = "idle"
      /\ turn' = [turn EXCEPT ![Idx(j)] = 2 * Turn(j) + 2]
      /\ \A u \in Threads \ {c} :
           pc'[u] = pc[u] /\ ticket'[u] = ticket[u] /\ value'[u] = value[u]
  BY <1>0 DEF MpmcInv, MpmcTypeOK, PcTypeOK, Release, Return, Goto
<1>3. turn[Idx(j)] = 2 * Turn(j) + 1 /\ j < tail /\ j \in Tickets
  BY <1>0, <1>2, MpmcAssumption
     DEF MpmcInv, ConsumerInv, ClaimInv, MpmcTypeOK, Tickets
<1> HIDE DEF j
<1>4. \A k \in Nat : (Filled(k)' <=> Filled(k)) /\ (Emptied(k)' <=> Emptied(k) \/ k = j)
  BY <1>0, <1>2, <1>3, EmptiesOne DEF MpmcInv
<1>5. /\ \A d \in Consumers, k \in Tickets : Reads(d, k)' <=> Reads(d, k) /\ d # c
      /\ \A k \in Tickets : Reads(c, k) <=> k = j
      /\ \A q \in Producers, k \in Tickets : Writes(q, k)' <=> Writes(q, k)
      /\ \A q \in Producers : pc'[q] = pc[q] /\ ticket'[q] = ticket[q] /\ value'[q] = value[q]
  BY <1>0, <1>2 DEF Writes, Reads, Threads, j
<1>6. TailInv'
  <2>1. \A d \in Consumers : d # c => ~Reads(d, j)
    BY <1>3, <1>5 DEF MpmcInv, OneEach
  <2>2. QED
    BY <1>2, <1>4, <1>5, <2>1, TicketFacts DEF MpmcInv, TailInv
<1>7. HeadInv' /\ ClaimInv' /\ OneEach'
  BY <1>2, <1>4, <1>5, TicketFacts DEF MpmcInv, HeadInv, ClaimInv, OneEach
<1>8. StorageInv'
  <2> SUFFICES ASSUME NEW k \in Tickets, Filled(k)', ~Emptied(k)',
                      ~(\E d \in Consumers : pc'[d] = "release" /\ ticket'[d] = k)
               PROVE  storage'[Idx(k)] = claims'[k + 1]
    BY DEF StorageInv
  <2>1. Filled(k) /\ ~Emptied(k) /\ k # j
    BY <1>4, TicketFacts
  <2>2. ~(\E d \in Consumers : pc[d] = "release" /\ ticket[d] = k)
    BY <1>2, <2>1 DEF Threads, j
  <2>3. QED
    BY <1>2, <2>1, <2>2 DEF MpmcInv, StorageInv
<1>9. ASSUME NEW q \in Producers PROVE ProducerInv(q)'
  <2>1. ticket[q] \in Nat /\ Idx(ticket[q]) \in Slots
    BY IdxTurn DEF Threads, MpmcInv, MpmcTypeOK
  <2>2. pc[q] \in {"construct", "publish"} => turn'[Idx(ticket[q])] = turn[Idx(ticket[q])]
    BY <1>0, <1>2, <2>1, InsideFacts DEF j, MpmcInv, MpmcTypeOK
  <2>3. Filled(ticket[q])' <=> Filled(ticket[q])
    BY <1>4, <1>5, <2>1
  <2>4. QED
    BY <1>2, <1>5, <2>2, <2>3 DEF MpmcInv, ProducerInv
<1>10. ASSUME NEW d \in Consumers PROVE ConsumerInv(d)'
  <2>1. CASE d = c
    BY <1>2, <2>1 DEF ConsumerInv
  <2>2. CASE d # c
    <3>1. /\ d \in Threads /\ pc'[d] = pc[d] /\ ticket'[d] = ticket[d] /\ value'[d] = value[d]
          /\ ticket[d] \in Nat /\ Idx(ticket[d]) \in Slots
      BY <1>2, <2>2, IdxTurn DEF Threads, MpmcInv, MpmcTypeOK
    <3>2. pc[d] \in {"take", "release"} => turn'[Idx(ticket[d])] = turn[Idx(ticket[d])]
      BY <1>0, <1>2, <2>2, <3>1, InsideFacts DEF j, MpmcInv, MpmcTypeOK
    <3>3. Filled(ticket[d])' <=> Filled(ticket[d])
      BY <1>4, <3>1
    <3>4. QED
      BY <1>2, <3>1, <3>2, <3>3 DEF MpmcInv, ConsumerInv
  <2>3. QED
    BY <2>1, <2>2
<1>11. QED
  BY <1>1, <1>6, <1>7, <1>8, <1>9, <1>10 DEF MpmcInv

(* No access of any thread breaks the invariant. *)
LEMMA StepInv == MpmcInv /\ [MpmcNext]_mpmcVars => MpmcInv'
<1> SUFFICES ASSUME MpmcInv, [MpmcNext]_mpmcVars PROVE MpmcInv'
  OBVIOUS
<1>1. ASSUME NEW p \in Producers, Producer(p) PROVE MpmcInv'
  BY <1>1, BeginPushInv, AwaitTurnInv, ConstructInv, PublishInv DEF Producer
<1>2. ASSUME NEW c \in Consumers, Consumer(c) PROVE MpmcInv'
  BY <1>2, LoadTailInv, CheckTurnInv, ExchangeInv, TakeOutInv, ReleaseInv, ReloadInv
     DEF Consumer
<1>3. CASE UNCHANGED mpmcVars
  BY <1>3 DEF mpmcVars, MpmcInv, MpmcTypeOK, PcTypeOK, HeadInv, TailInv, ClaimInv, OneEach,
     StorageInv, ProducerInv, ConsumerInv, Writes, Reads, Filled, Emptied
<1>4. QED
  BY <1>1, <1>2, <1>3 DEF MpmcNext

(***************************************************************************)
(* Theorems                                                                *)
(***************************************************************************)
(* The inductive invariant of the turns holds for any capacity, any number *)
(* of threads and whatever they push.                                      *)
THEOREM RingInvariant == MpmcSpec => []MpmcInv
<1>1. MpmcInit => MpmcInv
  BY InvInit
<1>2. MpmcInv /\ [MpmcNext]_mpmcVars => MpmcInv'
  BY StepInv
<1>3. QED
  BY <1>1, <1>2, PTL DEF MpmcSpec

(* Two threads are never inside the same slot, so that the accesses of     *)
(* emplace and try_pop to its storage do not race.                         *)
THEOREM SlotsAreExclusive == MpmcSpec => []NoTwoInSlot
<1>1. MpmcInv => NoTwoInSlot
  <2> SUFFICES ASSUME MpmcInv, NEW t \in Threads, NEW u \in Threads, t # u,
                      InSlot(t), InSlot(u), Idx(ticket[t]) = Idx(ticket[u])
               PROVE  FALSE
    BY DEF NoTwoInSlot
  <2>1. /\ \A p \in Producers : InSlot(p) => pc[p] \in {"construct", "publish"}
        /\ \A c \in Consumers : InSlot(c) => pc[c] \in {"take", "release"}
    BY DEF InSlot, MpmcInv, MpmcTypeOK, PcTypeOK, ProducerSteps, ConsumerSteps
  <2>2. QED
    BY <2>1, InsideFacts DEF Threads
<1>2. QED
  BY <1>1, RingInvariant, PTL

(* A value returned by try_pop is the one pushed with the same ticket.     *)
THEOREM ValuesArrive == MpmcSpec => []TakenAsPushed
<1>1. MpmcInv => TakenAsPushed
  <2> SUFFICES ASSUME MpmcInv, NEW c \in Consumers, pc[c] = "release"
               PROVE  ticket[c] < Len(claims) /\ value[c] = claims[ticket[c] + 1]
    BY DEF TakenAsPushed
  <2>1. ticket[c] \in Nat /\ tail \in Nat /\ head \in Nat
    BY MpmcAssumption DEF MpmcInv, MpmcTypeOK, Threads, Tickets
  <2>2. ticket[c] < tail /\ tail <= head /\ Len(claims) = head
    BY DEF MpmcInv, ConsumerInv, ClaimInv
  <2>3. QED
    BY <2>1, <2>2 DEF MpmcInv, ConsumerInv
<1>2. QED
  BY <1>1, RingInvariant, PTL

(***************************************************************************)
(* Lifetimes: a slot holds an object from its construction to its          *)
(* destruction, which the turn tells to all but the thread inside.         *)
(***************************************************************************)
Constructed(s) == \E p \in Producers : pc[p] = "publish" /\ Idx(ticket[p]) = s
Destroyed(s) == \E c \in Consumers : pc[c] = "release" /\ Idx(ticket[c]) = s
LifetimeInv ==
  \A s \in Slots :
    storage[s] # NoValue <=> Constructed(s) \/ (turn[s] % 2 = 1 /\ ~Destroyed(s))

(* The turns of pushes are even, those of pops odd. *)
LEMMA Parity ==
  \A n \in Nat : (2 * n) % 2 = 0 /\ (2 * n + 1) % 2 = 1 /\ (2 * n + 2) % 2 = 0
OBVIOUS

(* No slot holds a value when the ring is built. *)
LEMMA LifetimeInit == MpmcInit => LifetimeInv
<1>1. MpmcInit => /\ \A s \in Slots : storage[s] = NoValue /\ turn[s] = 0
                  /\ \A t \in Threads : pc[t] = "idle"
  BY DEF MpmcInit
<1>2. 0 % 2 = 0
  OBVIOUS
<1> QED
  BY <1>1, <1>2 DEF LifetimeInv, Constructed, Threads

(* The steps that neither enter nor leave the storage of a slot. *)
LEMMA LifetimeFrame ==
  ASSUME LifetimeInv, UNCHANGED <<storage, turn>>, NEW t \in Threads,
         pc[t] \notin {"publish", "release"}, pc'[t] \notin {"publish", "release"},
         \A u \in Threads \ {t} : pc'[u] = pc[u] /\ ticket'[u] = ticket[u]
  PROVE  LifetimeInv'
<1>1. \A s \in Slots : Constructed(s)' <=> Constructed(s)
  BY DEF Constructed, Threads, Idx
<1>2. \A s \in Slots : Destroyed(s)' <=> Destroyed(s)
  BY DEF Destroyed, Threads, Idx
<1> QED
  BY <1>1, <1>2 DEF LifetimeInv

(* Accesses outside the slots begin and end no lifetime. *)
LEMMA OutsideSteps ==
  ASSUME MpmcInv, LifetimeInv, NEW t \in Threads,
         \/ \E v \in Values : BeginPush(t, v)
         \/ AwaitTurn(t) \/ LoadTail(t) \/ CheckTurn(t) \/ Exchange(t) \/ Reload(t)
  PROVE  LifetimeInv'
<1>0. DOMAIN pc = Threads /\ DOMAIN ticket = Threads
  BY DEF MpmcInv, MpmcTypeOK, PcTypeOK
<1>1. UNCHANGED <<storage, turn>>
  BY DEF BeginPush, AwaitTurn, LoadTail, CheckTurn, Exchange, Reload
<1>2. pc[t] \notin {"publish", "release"} /\ pc'[t] \notin {"publish", "release"}
  BY <1>0 DEF BeginPush, AwaitTurn, LoadTail, CheckTurn, Exchange, Reload, Goto, Return
<1>3. \A u \in Threads \ {t} : pc'[u] = pc[u] /\ ticket'[u] = ticket[u]
  BY <1>0 DEF BeginPush, AwaitTurn, LoadTail, CheckTurn, Exchange, Reload, Goto, Return
<1> QED
  BY <1>1, <1>2, <1>3, LifetimeFrame

(* What a step inside slot Idx(ticket[t]) leaves of the others. *)
LEMMA OtherSlots ==
  ASSUME LifetimeInv, MpmcInv, NEW t \in Threads, NEW s \in Slots, s # Idx(ticket[t]),
         pc[t] \in {"construct", "publish", "take", "release"},
         ticket'[t] = ticket[t] \/ pc'[t] = "idle",
         storage'[s] = storage[s], turn'[s] = turn[s],
         \A u \in Threads \ {t} : pc'[u] = pc[u] /\ ticket'[u] = ticket[u]
  PROVE  storage'[s] # NoValue <=> Constructed(s)' \/ (turn'[s] % 2 = 1 /\ ~Destroyed(s)')
<1>1. Constructed(s)' <=> Constructed(s)
  BY DEF Constructed, Threads, Idx
<1>2. Destroyed(s)' <=> Destroyed(s)
  BY DEF Destroyed, Threads, Idx
<1> QED
  BY <1>1, <1>2 DEF LifetimeInv

(* A push constructs into a slot that holds nothing. *)
LEMMA ProducerInside ==
  ASSUME MpmcInv, LifetimeInv, NEW p \in Producers, Construct(p) \/ Publish(p)
  PROVE  LifetimeInv'
<1> DEFINE j == ticket[p]
<1>0. /\ p \in Threads /\ j \in Nat /\ Turn(j) \in Nat /\ Idx(j) \in Slots
      /\ DOMAIN pc = Threads /\ DOMAIN ticket = Threads
      /\ DOMAIN turn = Slots /\ DOMAIN storage = Slots
  BY IdxTurn DEF Threads, MpmcInv, MpmcTypeOK, PcTypeOK
<1>1. \A u \in Threads \ {p} : pc'[u] = pc[u] /\ ticket'[u] = ticket[u]
  BY <1>0 DEF Construct, Publish, Goto, Return
<1>2. /\ pc[p] \in {"construct", "publish"}
      /\ ticket'[p] = ticket[p] \/ pc'[p] = "idle"
  BY <1>0 DEF Construct, Publish, Goto, Return
<1>3. ASSUME NEW s \in Slots, s # Idx(j)
      PROVE  storage'[s] # NoValue <=> Constructed(s)' \/ (turn'[s] % 2 = 1 /\ ~Destroyed(s)')
  <2>1. storage'[s] = storage[s] /\ turn'[s] = turn[s]
    BY <1>0, <1>3 DEF Construct, Publish
  <2> QED
    BY <1>0, <1>1, <1>2, <1>3, <2>1, OtherSlots
<1>4. ASSUME NEW s \in Slots, s = Idx(j)
      PROVE  storage'[s] # NoValue /\ (Constructed(s)' \/ (turn'[s] % 2 = 1 /\ ~Destroyed(s)'))
  <2>1. CASE Construct(p)
    <3>1. value[p] \in Values
      <4>1. /\ j < head /\ value[p] = claims[j + 1] /\ Len(claims) = head
            /\ claims \in Seq(Values) /\ head \in Nat
        BY <2>1, MpmcAssumption
           DEF Construct, Goto, MpmcInv, ProducerInv, ClaimInv, MpmcTypeOK, Tickets
      <4> QED
        BY <1>0, <4>1
    <3>2. storage'[s] # NoValue
      BY <1>0, <1>4, <2>1, <3>1, MpmcAssumption DEF Construct
    <3>3. pc'[p] = "publish" /\ Idx(ticket'[p]) = s
      BY <1>0, <1>4, <2>1 DEF Construct, Goto
    <3> QED
      BY <3>2, <3>3 DEF Constructed, Idx
  <2>2. CASE Publish(p)
    <3>1. Constructed(s)
      BY <1>4, <2>2 DEF Publish, Return, Goto, Constructed
    <3>2. storage'[s] # NoValue
      BY <2>2, <3>1 DEF LifetimeInv, Publish
    <3>3. turn'[s] = 2 * Turn(j) + 1
      BY <1>0, <1>4, <2>2 DEF Publish
    <3>4. turn'[s] % 2 = 1
      BY <1>0, <3>3, Parity
    <3>5. \A c \in Consumers : pc'[c] = pc[c] /\ ticket'[c] = ticket[c]
      BY <1>1, ThreadsDiffer DEF Threads
    <3>6. \A c \in Consumers : pc[c] = "release" => Idx(ticket[c]) # s
      BY <1>2, <1>4, InsideFacts
    <3>7. ~Destroyed(s)'
      BY <3>5, <3>6 DEF Destroyed, Idx
    <3> QED
      BY <3>2, <3>4, <3>7
  <2> QED
    BY <2>1, <2>2
<1> QED
  BY <1>3, <1>4 DEF LifetimeInv

(* A pop destroys what its slot holds. *)
LEMMA ConsumerInside ==
  ASSUME MpmcInv, LifetimeInv, NEW c \in Consumers, TakeOut(c) \/ Release(c)
  PROVE  LifetimeInv'
<1> DEFINE j == ticket[c]
<1>0. /\ c \in Threads /\ j \in Nat /\ Turn(j) \in Nat /\ Idx(j) \in Slots
      /\ DOMAIN pc = Threads /\ DOMAIN ticket = Threads
      /\ DOMAIN turn = Slots /\ DOMAIN storage = Slots
  BY IdxTurn DEF Threads, MpmcInv, MpmcTypeOK, PcTypeOK
<1>1. \A u \in Threads \ {c} : pc'[u] = pc[u] /\ ticket'[u] = ticket[u]
  BY <1>0 DEF TakeOut, Release, Goto, Return
<1>2. /\ pc[c] \in {"take", "release"}
      /\ ticket'[c] = ticket[c] \/ pc'[c] = "idle"
  BY <1>0 DEF TakeOut, Release, Goto, Return
<1>3. ASSUME NEW s \in Slots, s # Idx(j)
      PROVE  storage'[s] # NoValue <=> Constructed(s)' \/ (turn'[s] % 2 = 1 /\ ~Destroyed(s)')
  <2>1. storage'[s] = storage[s] /\ turn'[s] = turn[s]
    BY <1>0, <1>3 DEF TakeOut, Release
  <2> QED
    BY <1>0, <1>1, <1>2, <1>3, <2>1, OtherSlots
<1>4. ASSUME NEW s \in Slots, s = Idx(j)
      PROVE  storage'[s] = NoValue /\ ~Constructed(s)' /\ (turn'[s] % 2 = 0 \/ Destroyed(s)')
  <2>1. \A p \in Producers : /\ pc'[p] = pc[p] /\ ticket'[p] = ticket[p]
                             /\ pc[p] = "publish" => Idx(ticket[p]) # s
    BY <1>1, <1>2, <1>4, InsideFacts, ThreadsDiffer DEF Threads
  <2>2. ~Constructed(s) /\ ~Constructed(s)'
    BY <2>1 DEF Constructed, Idx
  <2>3. CASE TakeOut(c)
    <3>1. storage'[s] = NoValue
      BY <1>0, <1>4, <2>3 DEF TakeOut
    <3>2. pc'[c] = "release" /\ Idx(ticket'[c]) = s
      BY <1>0, <1>4, <2>3 DEF TakeOut, Goto
    <3> QED
      BY <2>2, <3>1, <3>2 DEF Destroyed, Idx
  <2>4. CASE Release(c)
    <3>1. Destroyed(s)
      BY <1>4, <2>4 DEF Release, Return, Goto, Destroyed
    <3>2. storage'[s] = NoValue
      BY <2>2, <2>4, <3>1 DEF LifetimeInv, Release
    <3>3. turn'[s] = 2 * Turn(j) + 2
      BY <1>0, <1>4, <2>4 DEF Release
    <3>4. turn'[s] % 2 = 0
      BY <1>0, <3>3, Parity
    <3> QED
      BY <2>2, <3>2, <3>4
  <2> QED
    BY <2>3, <2>4
<1> QED
  BY <1>3, <1>4 DEF LifetimeInv

(* No access of any thread breaks the invariant of the lifetimes. *)
LEMMA LifetimeStep == MpmcInv /\ LifetimeInv /\ [MpmcNext]_mpmcVars => LifetimeInv'
<1> SUFFICES ASSUME MpmcInv, LifetimeInv, [MpmcNext]_mpmcVars PROVE LifetimeInv'
  OBVIOUS
<1>1. ASSUME NEW p \in Producers, Producer(p) PROVE LifetimeInv'
  <2>1. p \in Threads
    BY DEF Threads
  <2> QED
    BY <1>1, <2>1, OutsideSteps, ProducerInside DEF Producer
<1>2. ASSUME NEW c \in Consumers, Consumer(c) PROVE LifetimeInv'
  <2>1. c \in Threads
    BY DEF Threads
  <2> QED
    BY <1>2, <2>1, OutsideSteps, ConsumerInside DEF Consumer
<1>3. CASE UNCHANGED mpmcVars
  BY <1>3 DEF mpmcVars, LifetimeInv, Constructed, Destroyed, Idx
<1> QED
  BY <1>1, <1>2, <1>3 DEF MpmcNext

(* An object is constructed in empty storage only, moved out of a live one *)
(* only, and what the turn of a slot says when no thread is inside decides *)
(* rightly whether its destructor destroys an object.                      *)
THEOREM ObjectsLiveOnce == MpmcSpec => []SlotLifetimes
<1>1. MpmcInit => LifetimeInv
  BY LifetimeInit
<1>2. MpmcInv /\ LifetimeInv /\ [MpmcNext]_mpmcVars => LifetimeInv'
  BY LifetimeStep
<1>3. MpmcInv /\ LifetimeInv => SlotLifetimes
  <2> SUFFICES ASSUME MpmcInv, LifetimeInv PROVE SlotLifetimes
    OBVIOUS
  <2>0. \A t \in Threads : ticket[t] \in Nat /\ Idx(ticket[t]) \in Slots
                             /\ Turn(ticket[t]) \in Nat
    BY IdxTurn DEF MpmcInv, MpmcTypeOK
  <2>1. ASSUME NEW p \in Producers, pc[p] = "construct"
        PROVE  storage[Idx(ticket[p])] = NoValue
    <3>1. turn[Idx(ticket[p])] = 2 * Turn(ticket[p])
      BY <2>1 DEF MpmcInv, ProducerInv
    <3>2. turn[Idx(ticket[p])] % 2 = 0
      BY <2>0, <3>1, Parity DEF Threads
    <3>3. ~Constructed(Idx(ticket[p]))
      BY <2>1, InsideFacts DEF Constructed
    <3> QED
      BY <2>0, <3>2, <3>3 DEF LifetimeInv, Threads
  <2>2. ASSUME NEW c \in Consumers, pc[c] = "take"
        PROVE  storage[Idx(ticket[c])] # NoValue
    <3>1. turn[Idx(ticket[c])] = 2 * Turn(ticket[c]) + 1
      BY <2>2 DEF MpmcInv, ConsumerInv
    <3>2. turn[Idx(ticket[c])] % 2 = 1
      BY <2>0, <3>1, Parity DEF Threads
    <3>3. ~Destroyed(Idx(ticket[c]))
      BY <2>2, InsideFacts DEF Destroyed
    <3> QED
      BY <2>0, <3>2, <3>3 DEF LifetimeInv, Threads
  <2>3. ASSUME NEW s \in Slots, \A t \in Threads : InSlot(t) => Idx(ticket[t]) # s
        PROVE  turn[s] % 2 = 1 <=> storage[s] # NoValue
    <3>1. ~Constructed(s) /\ ~Destroyed(s)
      BY <2>3 DEF Constructed, Destroyed, InSlot, Threads
    <3> QED
      BY <3>1 DEF LifetimeInv
  <2> QED
    BY <2>1, <2>2, <2>3 DEF SlotLifetimes
<1> QED
  BY <1>1, <1>2, <1>3, RingInvariant, PTL DEF MpmcSpec

(***************************************************************************)
(* The ring implements the queue of Fifo.                                  *)
(***************************************************************************)
(* head and tail, and the slots behind them.                               *)
LEMMA BoundsFacts ==
  ASSUME MpmcInv
  PROVE  /\ head \in Nat /\ tail \in Nat /\ tail <= head /\ Len(claims) = head
         /\ claims \in Seq(Values)
         /\ \A k \in Nat : k <= head => k \in Tickets
         /\ head \in Tickets /\ tail \in Tickets
         /\ ~Filled(head) /\ ~Emptied(tail)
         /\ \A k \in Nat : k < tail => Filled(k)
<1>1. /\ head \in Nat /\ tail \in Nat /\ tail <= head /\ Len(claims) = head /\ head <= MaxPushes
      /\ MaxPushes \in Nat /\ claims \in Seq(Values)
  BY MpmcAssumption DEF MpmcInv, MpmcTypeOK, ClaimInv, Tickets
<1>2. \A k \in Nat : k <= head => k \in Tickets
  BY <1>1 DEF Tickets
<1>3. ~Filled(head) /\ ~Emptied(tail)
  BY <1>1, <1>2 DEF MpmcInv, HeadInv, TailInv
<1>4. ASSUME NEW k \in Nat, k < tail PROVE Filled(k)
  <2>1. k \in Tickets
    BY <1>1, <1>2, <1>4
  <2>2. CASE Emptied(k)
    BY <2>1, <2>2, EmptiedIsFilled DEF MpmcInv
  <2>3. ASSUME NEW c \in Consumers, Reads(c, k) PROVE Filled(k)
    <3>1. turn[Idx(k)] = 2 * Turn(k) + 1
      BY <2>3 DEF Reads, MpmcInv, ConsumerInv
    <3>2. QED
      BY <2>1, <3>1, FullTurn DEF MpmcInv
  <2>4. QED
    BY <1>4, <2>1, <2>2, <2>3 DEF MpmcInv, TailInv
<1>5. QED
  BY <1>1, <1>2, <1>3, <1>4

(* The values that may be taken are well defined: there is one place       *)
(* before which every use is filled and which is not, and tail is not      *)
(* behind it.                                                              *)
ReadyInv ==
  /\ ReadyNow \in 0 .. head /\ IsReady(ReadyNow)
  /\ \A n \in 0 .. head : IsReady(n) => n = ReadyNow
  /\ tail <= ReadyNow

(* There is one ticket up to which the pushes are complete, and the tail   *)
(* is not beyond it.                                                       *)
LEMMA ReadyFacts == MpmcInv => ReadyInv
<1> SUFFICES ASSUME MpmcInv PROVE ReadyInv
  OBVIOUS
<1> DEFINE Unfilled == {k \in Nat : k = head \/ ~Filled(k)}
<1>1. head \in Nat /\ tail \in Nat /\ tail <= head /\ ~Filled(head)
      /\ \A k \in Nat : k < tail => Filled(k)
  BY BoundsFacts
<1>2. PICK n \in Unfilled : \A k \in Unfilled : n <= k
  <2>1. head \in Unfilled
    BY <1>1
  <2>2. QED
    BY <2>1, LeastNatural
<1>3. n \in 0 .. head /\ IsReady(n)
  <2>1. n \in Nat /\ n <= head /\ (n < head => ~Filled(n))
    BY <1>1, <1>2
  <2>2. \A k \in 0 .. n - 1 : Filled(k)
    BY <1>2, <2>1
  <2>3. QED
    BY <1>1, <2>1, <2>2 DEF IsReady
<1>4. ReadyNow \in 0 .. head /\ IsReady(ReadyNow)
  <2> HIDE DEF IsReady
  <2>1. QED
    BY <1>3 DEF ReadyNow
<1>5. ASSUME NEW a \in 0 .. head, NEW b \in 0 .. head, IsReady(a), IsReady(b), a < b PROVE FALSE
  <2>1. a < head /\ a \in 0 .. b - 1
    BY <1>1, <1>5
  <2>2. QED
    BY <1>5, <2>1 DEF IsReady
<1>6. \A m \in 0 .. head : IsReady(m) => m = ReadyNow
  BY <1>1, <1>4, <1>5
<1>7. tail <= ReadyNow
  <2> DEFINE r == ReadyNow
  <2>1. r \in Nat /\ r <= head /\ (r < head => ~Filled(r))
    BY <1>1, <1>4 DEF IsReady
  <2> HIDE DEF r
  <2>2. tail <= r
    BY <1>1, <2>1
  <2>3. QED
    BY <2>2 DEF r
<1>8. QED
  BY <1>4, <1>6, <1>7 DEF ReadyInv

(* They change only when a use is filled.                                  *)
LEMMA ReadyStays ==
  ASSUME MpmcInv, MpmcInv', head' = head \/ head' = head + 1,
         \A k \in Nat : Filled(k)' <=> Filled(k)
  PROVE  ReadyNow' = ReadyNow
<1>1. head \in Nat /\ head' \in Nat /\ ~Filled(head)
  BY BoundsFacts
<1>2. PICK r \in 0 .. head : r = ReadyNow /\ IsReady(r)
  BY ReadyFacts DEF ReadyInv
<1>3. /\ \A k \in 0 .. r - 1 : Filled(k)'
      /\ r < head' => ~Filled(r)'
  <2>1. r \in Nat /\ (r < head' => ~Filled(r))
    BY <1>1, <1>2 DEF IsReady
  <2>2. \A k \in 0 .. r - 1 : k \in Nat /\ Filled(k)
    BY <1>1, <1>2 DEF IsReady
  <2>3. QED
    BY <2>1, <2>2
<1>4. ReadyInv'
  BY ReadyFacts, PTL
<1>5. r \in 0 .. head'
  BY <1>1, <1>2
<1>6. IsReady(r)'
  BY <1>3 DEF IsReady
<1>7. r = ReadyNow'
  BY <1>4, <1>5, <1>6 DEF ReadyInv
<1>8. QED
  BY <1>2, <1>7

(* Not more values are ready than the ring has slots: the slot of the one  *)
(* beyond would still be filled with a value nobody took.                  *)
LEMMA ReadyFits == MpmcInv => ReadyNow - tail <= Capacity
<1> SUFFICES ASSUME MpmcInv PROVE ReadyNow - tail <= Capacity
  OBVIOUS
<1> DEFINE r == ReadyNow
           k == tail + Capacity
<1>1. head \in Nat /\ tail \in Nat /\ ~Emptied(tail) /\ tail \in Tickets
      /\ r \in 0 .. head /\ IsReady(r)
  BY BoundsFacts, ReadyFacts DEF ReadyInv
<1>2. Capacity \in Nat /\ Capacity # 0 /\ k \in Nat
  BY <1>1, MpmcAssumption
<1>3. Idx(k) = Idx(tail) /\ Turn(k) = Turn(tail) + 1
  BY <1>1, <1>2 DEF Idx, Turn
<1>4. ~Filled(k)
  <2>1. turn[Idx(tail)] \in Nat /\ Turn(tail) \in Nat
    BY <1>1, TicketFacts DEF MpmcInv, MpmcTypeOK
  <2>2. QED
    BY <1>1, <1>3, <2>1 DEF Filled, Emptied
<1> HIDE DEF r
<1>5. r \in Nat /\ ~(k \in 0 .. r - 1)
  BY <1>1, <1>4 DEF IsReady
<1>6. r - tail <= Capacity
  BY <1>1, <1>2, <1>5
<1>7. QED
  BY <1>6 DEF r

(* A step that does not concern a consumer leaves it where it was.         *)
LEMMA PoppingStays ==
  ASSUME NEW c \in Consumers, pc'[c] = pc[c], ticket'[c] = ticket[c], value'[c] = value[c],
         tail' = tail, pc[c] = "take" => claims'[ticket[c] + 1] = claims[ticket[c] + 1]
  PROVE  PoppingNow(c)' = PoppingNow(c)
BY DEF PoppingNow

(* Steps of which Fifo sees nothing.                                       *)
LEMMA FifoStutter ==
  ASSUME claims' = claims, tail' = tail, ReadyNow' = ReadyNow,
         \A c \in Consumers : PoppingNow(c)' = PoppingNow(c)
  PROVE  UNCHANGED FifoQueue!fifoVars
<1>1. [c \in Consumers |-> PoppingNow(c)]' = [c \in Consumers |-> PoppingNow(c)]
  OBVIOUS
<1>2. QED
  BY <1>1 DEF FifoQueue!fifoVars

(* One consumer's step, which the others do not notice.                    *)
LEMMA PoppingMoves ==
  ASSUME NEW c \in Consumers, NEW to, PoppingNow(c)' = to,
         \A d \in Consumers \ {c} : PoppingNow(d)' = PoppingNow(d)
  PROVE  [d \in Consumers |-> PoppingNow(d)]' =
           [[d \in Consumers |-> PoppingNow(d)] EXCEPT ![c] = to]
OBVIOUS

(* fetch_add claims the next place.                                        *)
LEMMA BeginPushClaims ==
  ASSUME MpmcInv, MpmcInv', NEW p \in Producers, NEW v \in Values, BeginPush(p, v)
  PROVE  FifoQueue!Claim
<1>1. /\ turn' = turn /\ head' = head + 1 /\ tail' = tail /\ claims' = Append(claims, v)
      /\ \A u \in Threads \ {p} : pc'[u] = pc[u] /\ ticket'[u] = ticket[u] /\ value'[u] = value[u]
  BY DEF BeginPush, Goto, MpmcInv, MpmcTypeOK, PcTypeOK, Threads
<1>2. ReadyNow' = ReadyNow
  BY <1>1, SameTurns, ReadyStays
<1>3. ASSUME NEW c \in Consumers PROVE PoppingNow(c)' = PoppingNow(c)
  <2>1. c \in Threads \ {p}
    BY ThreadsDiffer DEF Threads
  <2>2. ASSUME pc[c] = "take" PROVE claims'[ticket[c] + 1] = claims[ticket[c] + 1]
    <3>1. ticket[c] \in Nat /\ ticket[c] < tail
      BY <2>1, <2>2 DEF MpmcInv, MpmcTypeOK, ConsumerInv
    <3>2. ticket[c] + 1 \in 1 .. Len(claims) /\ claims \in Seq(Values)
      BY <3>1, BoundsFacts
    <3>3. QED
      BY <1>1, <3>2
  <2>3. QED
    BY <1>1, <2>1, <2>2, PoppingStays
<1>4. [c \in Consumers |-> PoppingNow(c)]' = [c \in Consumers |-> PoppingNow(c)]
  BY <1>3
<1>5. QED
  BY <1>1, <1>2, <1>4 DEF FifoQueue!Claim

(* The release store of the odd turn makes a value ready, and with it      *)
(* those behind it that were waiting; or none, if one before it is late.   *)
LEMMA PublishArrives ==
  ASSUME MpmcInv, MpmcInv', NEW p \in Producers, Publish(p)
  PROVE  FifoQueue!Arrive \/ UNCHANGED FifoQueue!fifoVars
<1>1. /\ head' = head /\ tail' = tail /\ claims' = claims
      /\ \A u \in Threads \ {p} : pc'[u] = pc[u] /\ ticket'[u] = ticket[u] /\ value'[u] = value[u]
  BY DEF Publish, Return, Goto, MpmcInv, MpmcTypeOK, PcTypeOK, Threads
<1>2. ASSUME NEW c \in Consumers PROVE PoppingNow(c)' = PoppingNow(c)
  <2>1. c \in Threads \ {p}
    BY ThreadsDiffer DEF Threads
  <2>2. QED
    BY <1>1, <2>1, PoppingStays
<1>3. \A k \in Nat : Filled(k) => Filled(k)'
  <2>1. /\ ticket[p] \in Nat /\ turn[Idx(ticket[p])] = 2 * Turn(ticket[p])
        /\ turn' = [turn EXCEPT ![Idx(ticket[p])] = 2 * Turn(ticket[p]) + 1]
    BY DEF Publish, Return, Goto, MpmcInv, MpmcTypeOK, ProducerInv, Threads
  <2>2. QED
    BY <2>1, FillsOne DEF MpmcInv
<1>4. PICK r \in 0 .. head : r = ReadyNow /\ IsReady(r)
  BY ReadyFacts DEF ReadyInv
<1>5. ReadyInv' /\ (ReadyNow - tail <= Capacity)'
  BY ReadyFacts, ReadyFits, PTL
<1>6. PICK s \in 0 .. head' : s = ReadyNow' /\ IsReady(s)'
  BY <1>5 DEF ReadyInv
<1>7. head \in Nat /\ s \in Nat /\ r \in Nat /\ s <= head
  BY <1>1, BoundsFacts
<1>8. r <= s
  <2> SUFFICES ASSUME s < r PROVE FALSE
    BY <1>7
  <2>1. s < head' /\ s \in 0 .. r - 1
    BY <1>1, <1>4, <1>7
  <2>2. Filled(s) /\ ~Filled(s)'
    BY <1>4, <1>6, <2>1 DEF IsReady
  <2>3. QED
    BY <1>3, <1>7, <2>2
<1>9. [c \in Consumers |-> PoppingNow(c)]' = [c \in Consumers |-> PoppingNow(c)]
  BY <1>2
<1>10. CASE s = r
  BY <1>1, <1>2, <1>4, <1>6, <1>10, FifoStutter
<1>11. CASE s # r
  <2>1. s \in r + 1 .. Len(claims)
    BY <1>7, <1>8, <1>11, BoundsFacts
  <2>2. s - tail <= Capacity
    BY <1>1, <1>5, <1>6
  <2>3. QED
    BY <1>1, <1>4, <1>6, <1>9, <2>1, <2>2 DEF FifoQueue!Arrive
<1>12. QED
  BY <1>10, <1>11

(* AwaitTurn and Construct are seen by nobody.                             *)
LEMMA ProducerInSlot ==
  ASSUME MpmcInv, MpmcInv', NEW p \in Producers, AwaitTurn(p) \/ Construct(p)
  PROVE  UNCHANGED FifoQueue!fifoVars
<1>1. /\ turn' = turn /\ head' = head /\ tail' = tail /\ claims' = claims
      /\ ticket' = ticket /\ value' = value /\ \A u \in Threads \ {p} : pc'[u] = pc[u]
  BY DEF AwaitTurn, Construct, Goto, MpmcInv, MpmcTypeOK, PcTypeOK, Threads
<1>2. ReadyNow' = ReadyNow
  BY <1>1, SameTurns, ReadyStays
<1>3. \A c \in Consumers : PoppingNow(c)' = PoppingNow(c)
  BY <1>1, ThreadsDiffer, PoppingStays DEF Threads
<1>4. QED
  BY <1>1, <1>2, <1>3, FifoStutter

(* What a consumer's step leaves, if it moves no turn.                     *)
LEMMA ConsumerFrame ==
  ASSUME MpmcInv, MpmcInv', NEW c \in Consumers,
         LoadTail(c) \/ CheckTurn(c) \/ Exchange(c) \/ TakeOut(c) \/ Release(c) \/ Reload(c)
  PROVE  /\ ReadyNow' = ReadyNow /\ claims' = claims
         /\ \A d \in Consumers \ {c} :
              /\ pc'[d] = pc[d] /\ ticket'[d] = ticket[d] /\ value'[d] = value[d]
              /\ tail' = tail => PoppingNow(d)' = PoppingNow(d)
<1>1. /\ head' = head /\ claims' = claims
      /\ \A d \in Consumers \ {c} : pc'[d] = pc[d] /\ ticket'[d] = ticket[d] /\ value'[d] = value[d]
  BY DEF LoadTail, CheckTurn, Exchange, TakeOut, Release, Reload, Return, Goto, MpmcInv,
         MpmcTypeOK, PcTypeOK, Threads
<1>2. \A k \in Nat : Filled(k)' <=> Filled(k)
  <2>1. CASE turn' = turn
    BY <2>1, SameTurns
  <2>2. CASE Release(c)
    <3>1. /\ ticket[c] \in Nat /\ turn[Idx(ticket[c])] = 2 * Turn(ticket[c]) + 1
          /\ turn' = [turn EXCEPT ![Idx(ticket[c])] = 2 * Turn(ticket[c]) + 2]
      BY <2>2 DEF Release, Return, Goto, MpmcInv, MpmcTypeOK, ConsumerInv, Threads
    <3>2. QED
      BY <3>1, EmptiesOne DEF MpmcInv
  <2>3. QED
    BY <2>1, <2>2 DEF LoadTail, CheckTurn, Exchange, TakeOut, Reload
<1>3. ReadyNow' = ReadyNow
  BY <1>1, <1>2, ReadyStays
<1>4. \A d \in Consumers \ {c} : tail' = tail => PoppingNow(d)' = PoppingNow(d)
  BY <1>1, PoppingStays
<1>5. QED
  BY <1>1, <1>3, <1>4

(* tail is loaded: the call begins. *)
LEMMA LoadTailCalls ==
  ASSUME MpmcInv, MpmcInv', NEW c \in Consumers, LoadTail(c)
  PROVE  FifoQueue!Call(c)
<1> DEFINE popping == [d \in Consumers |-> PoppingNow(d)]
<1>1. pc[c] = "idle" /\ pc'[c] = "check" /\ tail' = tail
  BY DEF LoadTail, Goto, MpmcInv, MpmcTypeOK, PcTypeOK, Threads
<1>2. PoppingNow(c)' = [step |-> "calling"] /\ PoppingNow(c) = [step |-> "idle"]
  BY <1>1 DEF PoppingNow
<1>3. /\ ReadyNow' = ReadyNow /\ claims' = claims
      /\ \A d \in Consumers \ {c} : PoppingNow(d)' = PoppingNow(d)
  BY <1>1, ConsumerFrame
<1>4. popping' = [popping EXCEPT ![c] = [step |-> "calling"]]
  BY <1>2, <1>3, PoppingMoves
<1>5. popping[c].step = "idle"
  BY <1>2
<1>6. QED
  BY <1>1, <1>3, <1>4, <1>5 DEF FifoQueue!Call

(* The slot is not filled: if nobody took the value before, none is ready. *)
LEMMA CheckTurnSees ==
  ASSUME MpmcInv, MpmcInv', NEW c \in Consumers, CheckTurn(c)
  PROVE  FifoQueue!SeeEmpty(c) \/ UNCHANGED FifoQueue!fifoVars
<1> DEFINE popping == [d \in Consumers |-> PoppingNow(d)]
<1>1. /\ pc[c] = "check" /\ tail' = tail /\ ticket' = ticket
      /\ IF turn[Idx(ticket[c])] = 2 * Turn(ticket[c]) + 1
           THEN pc'[c] = "exchange" ELSE pc'[c] = "reload"
  BY DEF CheckTurn, Goto, MpmcInv, MpmcTypeOK, PcTypeOK, Threads
<1>2. PoppingNow(c) = [step |-> "calling"]
  BY <1>1 DEF PoppingNow
<1>3. /\ ReadyNow' = ReadyNow /\ claims' = claims
      /\ \A d \in Consumers \ {c} : PoppingNow(d)' = PoppingNow(d)
  BY <1>1, ConsumerFrame
<1>4. CASE pc'[c] = "reload" /\ ticket[c] = tail
  <2>1. turn[Idx(tail)] # 2 * Turn(tail) + 1
    BY <1>1, <1>4
  <2>2. tail \in Tickets /\ tail \in Nat /\ head \in Nat /\ ~Emptied(tail)
    BY BoundsFacts
  <2>3. ~Filled(tail)
    BY <2>1, <2>2, FullTurn DEF MpmcInv
  <2>4. PICK r \in 0 .. head : r = ReadyNow /\ IsReady(r) /\ tail <= r
    BY ReadyFacts DEF ReadyInv
  <2>5. tail = r
    <3>1. tail \notin 0 .. r - 1
      BY <2>3, <2>4 DEF IsReady
    <3>2. QED
      BY <2>2, <2>4, <3>1
  <2>6. PoppingNow(c)' = [step |-> "saw empty"]
    BY <1>1, <1>4 DEF PoppingNow
  <2>7. popping' = [popping EXCEPT ![c] = [step |-> "saw empty"]]
    BY <1>3, <2>6, PoppingMoves
  <2>8. popping[c].step = "calling"
    BY <1>2
  <2>9. QED
    BY <1>1, <1>3, <2>4, <2>5, <2>7, <2>8 DEF FifoQueue!SeeEmpty
<1>5. CASE ~(pc'[c] = "reload" /\ ticket[c] = tail)
  <2>1. PoppingNow(c)' = [step |-> "calling"]
    BY <1>1, <1>5 DEF PoppingNow
  <2>2. \A d \in Consumers : PoppingNow(d)' = PoppingNow(d)
    BY <1>2, <1>3, <2>1
  <2>3. QED
    BY <1>1, <1>3, <2>2, FifoStutter
<1>6. QED
  BY <1>4, <1>5

(* compare_exchange takes the first place, or finds that somebody did; who *)
(* had seen this place unfilled has not seen an empty queue any more.      *)
LEMMA ExchangeTakes ==
  ASSUME MpmcInv, MpmcInv', NEW c \in Consumers, Exchange(c)
  PROVE  FifoQueue!Take(c) \/ UNCHANGED FifoQueue!fifoVars
<1> DEFINE popping == [d \in Consumers |-> PoppingNow(d)]
<1>1. /\ pc[c] = "exchange" /\ pc'[c] \in {"take", "check"}
      /\ IF tail = ticket[c] THEN pc'[c] = "take" /\ tail' = tail + 1 /\ ticket' = ticket
         ELSE pc'[c] = "check" /\ tail' = tail
  BY DEF Exchange, Goto, MpmcInv, MpmcTypeOK, PcTypeOK, Threads
<1>2. PoppingNow(c) = [step |-> "calling"]
  BY <1>1 DEF PoppingNow
<1>3. /\ ReadyNow' = ReadyNow /\ claims' = claims
      /\ \A d \in Consumers \ {c} :
           /\ pc'[d] = pc[d] /\ ticket'[d] = ticket[d] /\ value'[d] = value[d]
           /\ tail' = tail => PoppingNow(d)' = PoppingNow(d)
  BY ConsumerFrame
<1>4. CASE tail = ticket[c]
  <2>1. Filled(tail) /\ tail \in Nat /\ head \in Nat /\ tail <= head
    BY <1>1, <1>4, BoundsFacts DEF MpmcInv, ConsumerInv
  <2>2. tail < head
    BY <2>1, BoundsFacts
  <2>3. PICK r \in 0 .. head : r = ReadyNow /\ IsReady(r) /\ tail <= r
    BY ReadyFacts DEF ReadyInv
  <2>4. tail < r
    <3>1. r # tail
      BY <2>1, <2>2, <2>3 DEF IsReady
    <3>2. QED
      BY <2>1, <2>3, <3>1
  <2>5. PoppingNow(c)' = [step |-> "holds", value |-> claims[tail + 1]]
    BY <1>1, <1>3, <1>4 DEF PoppingNow
  <2>6. ASSUME NEW d \in Consumers \ {c}
        PROVE  \/ PoppingNow(d)' = PoppingNow(d)
               \/ PoppingNow(d).step = "saw empty" /\ PoppingNow(d)' = [step |-> "calling"]
    <3>1. CASE pc[d] = "reload"
      <4>1. ticket[d] \in Nat /\ ticket[d] <= tail
        BY <3>1 DEF MpmcInv, MpmcTypeOK, ConsumerInv, Threads
      <4>2. pc'[d] = "reload" /\ ticket'[d] # tail'
        BY <1>1, <1>3, <1>4, <2>1, <3>1, <4>1
      <4>3. PoppingNow(d)' = [step |-> "calling"]
        BY <4>2 DEF PoppingNow
      <4>4. CASE ticket[d] = tail
        <5>1. PoppingNow(d).step = "saw empty"
          BY <3>1, <4>4 DEF PoppingNow
        <5>2. QED
          BY <4>3, <5>1
      <4>5. CASE ticket[d] # tail
        <5>1. PoppingNow(d) = [step |-> "calling"]
          BY <3>1, <4>5 DEF PoppingNow
        <5>2. QED
          BY <4>3, <5>1
      <4>6. QED
        BY <4>4, <4>5
    <3>2. CASE pc[d] # "reload"
      BY <1>3, <3>2 DEF PoppingNow
    <3>3. QED
      BY <3>1, <3>2
  <2>7. popping'[c] = [step |-> "holds", value |-> claims[tail + 1]] /\ DOMAIN popping' = Consumers
    BY <2>5
  <2>8. FifoQueue!Others(c)
    BY <2>6 DEF FifoQueue!Others
  <2>9. popping[c].step = "calling"
    BY <1>2
  <2>10. QED
    BY <1>1, <1>3, <1>4, <2>3, <2>4, <2>7, <2>8, <2>9 DEF FifoQueue!Take
<1>5. CASE tail # ticket[c]
  <2>1. PoppingNow(c)' = [step |-> "calling"]
    BY <1>1, <1>5 DEF PoppingNow
  <2>2. \A d \in Consumers : PoppingNow(d)' = PoppingNow(d)
    BY <1>1, <1>2, <1>3, <1>5, <2>1
  <2>3. QED
    BY <1>1, <1>3, <1>5, <2>2, FifoStutter
<1>6. QED
  BY <1>4, <1>5

(* The value is moved out of the slot: it is the one of this place.        *)
LEMMA TakeOutHolds ==
  ASSUME MpmcInv, MpmcInv', NEW c \in Consumers, TakeOut(c)
  PROVE  UNCHANGED FifoQueue!fifoVars
<1>1. /\ pc[c] = "take" /\ pc'[c] = "release" /\ tail' = tail
      /\ value'[c] = storage[Idx(ticket[c])]
  BY DEF TakeOut, Goto, MpmcInv, MpmcTypeOK, PcTypeOK, Threads
<1>2. /\ ReadyNow' = ReadyNow /\ claims' = claims
      /\ \A d \in Consumers \ {c} : PoppingNow(d)' = PoppingNow(d)
  BY <1>1, ConsumerFrame
<1>3. storage[Idx(ticket[c])] = claims[ticket[c] + 1]
  <2>1. /\ ticket[c] \in Nat /\ ticket[c] < tail
        /\ turn[Idx(ticket[c])] = 2 * Turn(ticket[c]) + 1
    BY <1>1 DEF MpmcInv, MpmcTypeOK, ConsumerInv, Threads
  <2>2. ticket[c] \in Tickets
    BY <2>1, BoundsFacts
  <2>3. Filled(ticket[c]) /\ ~Emptied(ticket[c])
    BY <2>1, <2>2, FullTurn DEF MpmcInv
  <2>4. ~(\E d \in Consumers : pc[d] = "release" /\ ticket[d] = ticket[c])
    BY <1>1, <2>2 DEF MpmcInv, OneEach, Reads
  <2>5. QED
    BY <2>2, <2>3, <2>4 DEF MpmcInv, StorageInv
<1>4. PoppingNow(c)' = [step |-> "holds", value |-> value'[c]]
  BY <1>1 DEF PoppingNow
<1>5. PoppingNow(c) = [step |-> "holds", value |-> claims[ticket[c] + 1]]
  BY <1>1 DEF PoppingNow
<1>6. \A d \in Consumers : PoppingNow(d)' = PoppingNow(d)
  BY <1>1, <1>2, <1>3, <1>4, <1>5
<1>7. QED
  BY <1>1, <1>2, <1>6, FifoStutter

(* try_pop returns, with a value or having seen that none was ready; or it *)
(* tries again.                                                            *)
LEMMA PopReturns ==
  ASSUME MpmcInv, MpmcInv', NEW c \in Consumers, Release(c) \/ Reload(c)
  PROVE  FifoQueue!Return(c) \/ UNCHANGED FifoQueue!fifoVars
<1> DEFINE popping == [d \in Consumers |-> PoppingNow(d)]
<1>1. /\ tail' = tail
      /\ \/ pc[c] = "release" /\ pc'[c] = "idle"
         \/ pc[c] = "reload" /\ tail = ticket[c] /\ pc'[c] = "idle"
         \/ pc[c] = "reload" /\ tail # ticket[c] /\ pc'[c] = "check"
  BY DEF Release, Reload, Return, Goto, MpmcInv, MpmcTypeOK, PcTypeOK, Threads
<1>2. /\ ReadyNow' = ReadyNow /\ claims' = claims
      /\ \A d \in Consumers \ {c} : PoppingNow(d)' = PoppingNow(d)
  BY <1>1, ConsumerFrame
<1>3. CASE pc'[c] = "idle"
  <2>1. PoppingNow(c)' = [step |-> "idle"]
    BY <1>3 DEF PoppingNow
  <2>2. PoppingNow(c).step \in {"saw empty", "holds"}
    <3>1. CASE pc[c] = "release"
      BY <3>1 DEF PoppingNow
    <3>2. CASE pc[c] = "reload" /\ tail = ticket[c]
      BY <3>2 DEF PoppingNow
    <3>3. QED
      BY <1>1, <1>3, <3>1, <3>2
  <2>3. popping' = [popping EXCEPT ![c] = [step |-> "idle"]]
    BY <1>2, <2>1, PoppingMoves
  <2>4. popping[c].step \in {"saw empty", "holds"}
    BY <2>2
  <2>5. QED
    BY <1>1, <1>2, <2>3, <2>4 DEF FifoQueue!Return
<1>4. CASE pc'[c] = "check"
  <2>1. PoppingNow(c)' = [step |-> "calling"] /\ PoppingNow(c) = [step |-> "calling"]
    BY <1>1, <1>4 DEF PoppingNow
  <2>2. \A d \in Consumers : PoppingNow(d)' = PoppingNow(d)
    BY <1>2, <2>1
  <2>3. QED
    BY <1>1, <1>2, <2>2, FifoStutter
<1>5. QED
  BY <1>1, <1>3, <1>4

(* Every step is one Fifo allows, or changes nothing of it.                *)
LEMMA StepIsFifo ==
  ASSUME MpmcInv, MpmcInv', [MpmcNext]_mpmcVars
  PROVE  [FifoQueue!FifoNext]_(FifoQueue!fifoVars)
<1>1. ASSUME NEW p \in Producers, Producer(p) PROVE [FifoQueue!FifoNext]_(FifoQueue!fifoVars)
  BY <1>1, BeginPushClaims, PublishArrives, ProducerInSlot DEF Producer, FifoQueue!FifoNext
<1>2. ASSUME NEW c \in Consumers, Consumer(c) PROVE [FifoQueue!FifoNext]_(FifoQueue!fifoVars)
  BY <1>2, LoadTailCalls, CheckTurnSees, ExchangeTakes, TakeOutHolds, PopReturns
     DEF Consumer, FifoQueue!FifoNext
<1>3. CASE UNCHANGED mpmcVars
  <2>1. UNCHANGED <<head, tail, turn, claims, pc, ticket, value>>
    BY <1>3 DEF mpmcVars
  <2>2. ReadyNow' = ReadyNow
    BY <2>1, SameTurns, ReadyStays
  <2>3. \A c \in Consumers : PoppingNow(c)' = PoppingNow(c)
    BY <2>1, PoppingStays
  <2>4. QED
    BY <2>1, <2>2, <2>3, FifoStutter
<1>4. QED
  BY <1>1, <1>2, <1>3 DEF MpmcNext

(* Nothing was pushed, and nobody pops.                                    *)
LEMMA InitIsFifo == MpmcInit => FifoQueue!FifoInit
<1> SUFFICES ASSUME MpmcInit PROVE FifoQueue!FifoInit
  OBVIOUS
<1>1. MpmcInv
  BY InvInit
<1>2. ReadyNow = 0
  BY <1>1, ReadyFacts DEF ReadyInv, MpmcInit
<1>3. \A c \in Consumers : PoppingNow(c) = [step |-> "idle"]
  BY DEF MpmcInit, PoppingNow, Threads
<1>4. QED
  BY <1>2, <1>3 DEF MpmcInit, FifoQueue!FifoInit

(* The ring is a queue, whatever the threads that share it: places in the  *)
(* order of the pushes, no gaps among the values that may be taken, and a  *)
(* try_pop that fails has seen none ready.                                 *)
THEOREM RingIsFifo == MpmcSpec => IsFifo
<1>1. MpmcInit => FifoQueue!FifoInit
  BY InitIsFifo
<1>2. MpmcInv /\ MpmcInv' /\ [MpmcNext]_mpmcVars => [FifoQueue!FifoNext]_(FifoQueue!fifoVars)
  BY StepIsFifo
<1>3. QED
  BY <1>1, <1>2, RingInvariant, PTL DEF MpmcSpec, IsFifo, FifoQueue!FifoSpec
===============================================================================
