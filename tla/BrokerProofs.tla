----------------------------- MODULE BrokerProofs -----------------------------
(***************************************************************************)
(* Proofs about Broker, for every set of clients, names, types, lengths    *)
(* and subscriptions, every capacity and every kind of fault.              *)
(***************************************************************************)
EXTENDS Broker, SeqLemmas

(* The results the kernel can give: a send takes no more than it is given, *)
(* a close gives no positive result.                                       *)
LEMMA OutcomesProps ==
  ASSUME NEW c \in Clients, NEW q \in Request, NEW res \in Outcomes(c, q),
         q.op = "send" => q.item.len > 0
  PROVE  /\ res \in Int
         /\ q.op = "send" => res <= q.item.len
         /\ q.op = "close" => res <= 0
<1>1. q.op \in Ops /\ q.item.len \in Nat
  BY DEF Request, Item
<1>2. ASSUME res \in FaultOutcomes(q)
      PROVE  res \in {ERROR, EAGAIN} \/ (res = 0 /\ q.op \in {"recv_intent", "recv_name"})
  <2>1. PICK f \in Faults : res = FaultResult[f] /\ q.op \in FaultOps[f]
    BY <1>2 DEF FaultOutcomes
  <2>2. f \in {"error", "zero", "again"}
    BY HandlerAssumption
  <2>3. QED
    BY <2>1, <2>2 DEF FaultResult, FaultOps
<1>3. ASSUME res \in NormalOutcomes(q)
      PROVE  /\ res \in Int
             /\ q.op = "send" => res <= q.item.len
             /\ q.op = "close" => res <= 0
  BY <1>1, <1>3 DEF NormalOutcomes, Ops, NB_INTENT_CHARS
<1>4. QED
  BY <1>1, <1>2, <1>3 DEF Outcomes, ERROR, EAGAIN

(* The state of a client that no step touches keeps its invariant. *)
LEMMA ClientFrame ==
  ASSUME NEW d \in Clients, ClientInv(d),
         event'[d] = event[d], isDisconnected'[d] = isDisconnected[d],
         nameReads'[d] = nameReads[d], fdOpen'[d] = fdOpen[d],
         sq'[d] = sq[d], cq'[d] = cq[d],
         currentItem'[d] = currentItem[d], pendingItems'[d] = pendingItems[d],
         d \in clients' <=> d \in clients
  PROVE  ClientInv(d)'
<1>1. NameInv(d)'
  BY DEF ClientInv, NameInv, NameComplete
<1>2. EventInv(d)'
  BY DEF ClientInv, EventInv, NameComplete, HasContent
<1>3. RequestInv(d)'
  BY DEF ClientInv, RequestInv, NameComplete
<1>4. SendInv(d)'
  BY DEF ClientInv, SendInv
<1>5. BacklogInv(d)'
  BY DEF ClientInv, BacklogInv, HasContent
<1>6. QED
  BY <1>1, <1>2, <1>3, <1>4, <1>5 DEF ClientInv

(* IInv holds at the start, when no connection was accepted yet. *)
LEMMA InitIInv == Init => IInv
<1> SUFFICES ASSUME Init PROVE IInv
  OBVIOUS
<1> USE DEF Init, QueueInit, ConnInit, SubInit, ServerInit, CommandInit
<1>1. TypeOK
  <2>1. QueueTypeOK
    <3>1. messageQueue \in Seq(Batch) /\ published \in Nat
      OBVIOUS
    <3>2. hasPendingData \in BOOLEAN /\ pushing \in BOOLEAN
      OBVIOUS
    <3>3. QED
      BY <3>1, <3>2 DEF QueueTypeOK
  <2>5. ServerTypeOK
    BY DEF ServerTypeOK
  <2>6. CommandTypeOK
    BY DEF CommandTypeOK
  <2>2. ConnTypeOK
    BY DEF ConnTypeOK, Events
  <2>3. SubTypeOK
    BY DEF SubTypeOK, Item, NoItem
  <2>4. QED
    BY <2>1, <2>2, <2>3, <2>5, <2>6 DEF TypeOK
<1>2. GateInv
  BY DEF GateInv
<1>3. ASSUME NEW c \in Clients PROVE ClientInv(c)
  <2>1. Len(NameReads[c]) \in Nat /\ Len(NameReads[c]) > 0
    <3>1. NameReads[c] \in Seq(Names) /\ NameReads[c] # <<>>
      BY HandlerAssumption
    <3>2. QED
      BY <3>1, EmptySeq, LenProperties
  <2>2. NameInv(c)
    BY <2>1 DEF NameInv, NameComplete
  <2>3. EventInv(c) /\ RequestInv(c) /\ SendInv(c) /\ BacklogInv(c)
    BY <2>1 DEF EventInv, RequestInv, SendInv, BacklogInv, NameComplete, HasContent,
                HandshakeEvents, NoItem
  <2>4. QED
    BY <2>2, <2>3 DEF ClientInv
<1>4. QED
  BY <1>1, <1>2, <1>3 DEF IInv
-------------------------------------------------------------------------------
(* Steps that leave the handlers alone.                                    *)
LEMMA QuietStep ==
  ASSUME IInv, UNCHANGED <<connVars, sendVars, clients>>, TypeOK', GateInv'
  PROVE  IInv'
<1>1. ASSUME NEW d \in Clients PROVE ClientInv(d)'
  BY <1>1, ClientFrame DEF IInv, connVars, sendVars
<1>2. QED
  BY <1>1 DEF IInv

(* The types of what a step leaves unchanged. *)
LEMMA TypesUnchanged ==
  /\ QueueTypeOK /\ UNCHANGED queueVars => QueueTypeOK'
  /\ ConnTypeOK /\ UNCHANGED connVars => ConnTypeOK'
  /\ SubTypeOK /\ UNCHANGED subVars => SubTypeOK'
  /\ ServerTypeOK /\ UNCHANGED serverVars => ServerTypeOK'
  /\ CommandTypeOK /\ UNCHANGED commandVars => CommandTypeOK'
BY DEF QueueTypeOK, queueVars, ConnTypeOK, connVars, SubTypeOK, subVars,
       ServerTypeOK, serverVars, CommandTypeOK, commandVars

(* Pushing and announcing batches touches the queue only. *)
LEMMA PublisherStep == IInv /\ PublisherThread => IInv'
<1> SUFFICES ASSUME IInv, PublisherThread PROVE IInv'
  OBVIOUS
<1>1. QueueTypeOK /\ TypeOK /\ GateInv
  BY DEF IInv, TypeOK
<1>2. QueueTypeOK'
  <2>1. CASE Announce
    BY <1>1, <2>1 DEF Announce, QueueTypeOK
  <2>2. ASSUME NEW t \in Types, NEW n \in Lengths, Push(t, n) PROVE QueueTypeOK'
    <3>1. published + 1 \in Nat
      BY <1>1 DEF QueueTypeOK
    <3>2. [id |-> published + 1, type |-> t, len |-> n] \in Batch
      BY <3>1 DEF Batch
    <3>3. messageQueue' \in Seq(Batch)
      BY <1>1, <2>2, <3>2, AppendProps DEF Push, QueueTypeOK
    <3>4. published' \in Nat /\ pushing' \in BOOLEAN /\ hasPendingData' \in BOOLEAN
      BY <1>1, <2>2, <3>1 DEF Push, QueueTypeOK
    <3>5. QED
      BY <3>3, <3>4 DEF QueueTypeOK
  <2>3. QED
    BY <2>1, <2>2 DEF PublisherThread
<1>3. UNCHANGED <<connVars, subVars, serverVars, commandVars>>
  BY DEF PublisherThread
<1>4. TypeOK'
  BY <1>1, <1>2, <1>3, TypesUnchanged DEF TypeOK
<1>5. GateInv'
  BY <1>1, <1>3 DEF GateInv, serverVars, connVars
<1>6. UNCHANGED <<connVars, sendVars, clients>>
  BY <1>3 DEF subVars, sendVars, serverVars
<1>7. QED
  BY <1>4, <1>5, <1>6, QuietStep

(* A command touches the subscriptions and the list of pending ones only.  *)
LEMMA CommandStep == IInv /\ CommandThread => IInv'
<1> SUFFICES ASSUME IInv, CommandThread PROVE IInv'
  OBVIOUS
<1>1. /\ TypeOK /\ GateInv /\ CommandTypeOK /\ ServerTypeOK
      /\ subscriptions \in [Clients -> SUBSET Subs]
      /\ pendingSubscriptions \in SUBSET PendingSubscription
  BY DEF IInv, TypeOK, SubTypeOK
<1>2. UNCHANGED <<connVars, sendVars, taken, wire, queueVars, serverVars>>
  BY DEF CommandThread
<1>3. scan.active => scan \in Scan
  BY <1>1 DEF CommandTypeOK, NoScan
<1> DEFINE Typed == /\ CommandTypeOK'
                    /\ subscriptions' \in [Clients -> SUBSET Subs]
                    /\ pendingSubscriptions' \in SUBSET PendingSubscription
<1>4. Typed
  <2>1. ASSUME NEW n \in Names, NEW s \in Subs, CommandReceived(n, s) PROVE Typed
    BY <1>1, <2>1 DEF CommandReceived, CommandTypeOK, Scan, ServerTypeOK
  <2>2. ASSUME NEW c \in Clients, VisitClient(c) PROVE Typed
    <3>1. scan \in Scan /\ scan.sub \in Subs
      BY <1>3, <2>2 DEF VisitClient, AddSubscriptions, Scan
    <3>2. scan' \in Scan
      BY <3>1, <2>2 DEF VisitClient, AddSubscriptions, Scan
    <3>3. subscriptions' \in [Clients -> SUBSET Subs]
      <4>1. \/ subscriptions' = [subscriptions EXCEPT ![c] = @ \cup {scan.sub}]
            \/ UNCHANGED subscriptions
        BY <2>2 DEF VisitClient, AddSubscriptions
      <4>2. QED
        BY <1>1, <3>1, <4>1
    <3>4. QED
      BY <1>1, <2>2, <3>2, <3>3 DEF VisitClient, AddSubscriptions, CommandTypeOK
  <2>3. CASE FinishScan
    BY <1>1, <1>3, <2>3 DEF FinishScan, CommandTypeOK, Scan, PendingSubscription
  <2>4. QED
    BY <2>1, <2>2, <2>3 DEF CommandThread
<1> HIDE DEF Typed
<1>5. TypeOK'
  <2>1. SubTypeOK'
    BY <1>1, <1>2, <1>4 DEF Typed, TypeOK, SubTypeOK, sendVars
  <2>2. QED
    BY <1>1, <1>2, <1>4, <2>1, TypesUnchanged DEF Typed, TypeOK
<1>6. GateInv'
  BY <1>1, <1>2 DEF GateInv, serverVars, connVars
<1>7. UNCHANGED <<connVars, sendVars, clients>>
  BY <1>2 DEF serverVars
<1>8. QED
  BY <1>5, <1>6, <1>7, QuietStep

(* The steps of the subscriber thread between two completions. *)
QuietThread ==
  \/ OnSetupListeningSocketComplete
  \/ OnAcceptConnectionFailed
  \/ FinishTake
  \/ PollTimeout
  \/ HandleTimeouts
  \/ WaitForData
  \/ DrainDone
  \/ Clear

(* The steps of the subscriber thread that run no handler. *)
LEMMA QuietThreadStep == IInv /\ QuietThread /\ UNCHANGED commandVars => IInv'
<1> SUFFICES ASSUME IInv, QuietThread, UNCHANGED commandVars PROVE IInv'
  OBVIOUS
<1>1. TypeOK /\ GateInv /\ QueueTypeOK /\ ConnTypeOK /\ SubTypeOK /\ ServerTypeOK
  BY DEF IInv, TypeOK
<1>2. UNCHANGED <<connVars, sendVars, clients>>
  BY DEF QuietThread, OnSetupListeningSocketComplete, OnAcceptConnectionFailed, FinishTake,
         PollTimeout, HandleTimeouts, WaitForData, DrainDone, Clear,
         threadVars, subVars, sendVars
<1>3. ServerTypeOK'
  BY <1>1 DEF QuietThread, OnSetupListeningSocketComplete, OnAcceptConnectionFailed, FinishTake,
         PollTimeout, HandleTimeouts, WaitForData, DrainDone, Clear, ServerTypeOK
<1>4. QueueTypeOK'
  <2>1. CASE Clear
    BY <1>1, <2>1 DEF Clear, ClearPendingData, QueueTypeOK
  <2>2. CASE ~Clear
    <3>1. UNCHANGED queueVars
      BY <2>2 DEF QuietThread, OnSetupListeningSocketComplete, OnAcceptConnectionFailed,
         FinishTake, PollTimeout, HandleTimeouts, WaitForData, DrainDone, threadVars
    <3>2. QED
      BY <1>1, <3>1, TypesUnchanged
  <2>3. QED
    BY <2>1, <2>2
<1>5. SubTypeOK'
  <2>1. CASE FinishTake
    <3>1. UNCHANGED <<sendVars, wire>> /\ AddTakenSubscriptions(taker)
      BY <2>1 DEF FinishTake
    <3>2. subscriptions' \in [Clients -> SUBSET Subs]
      BY <1>1, <3>1 DEF AddTakenSubscriptions, AddSubscriptions, SubTypeOK
    <3>3. /\ pendingSubscriptions' \in SUBSET PendingSubscription
          /\ taken' \in SUBSET Subs
      BY <1>1, <3>1 DEF AddTakenSubscriptions, AddSubscriptions, SubTypeOK
    <3>4. QED
      BY <1>1, <3>1, <3>2, <3>3 DEF SubTypeOK, sendVars
  <2>2. CASE HandleTimeouts
    <3>1. PICK expired \in [Clients -> SUBSET Timed] : HandleTimeout(expired)
      BY <2>2 DEF HandleTimeouts
    <3>2. subscriptions' \in [Clients -> SUBSET Subs]
      BY <1>1, <3>1 DEF HandleTimeout, SubTypeOK
    <3>3. QED
      BY <1>1, <2>2, <3>2 DEF HandleTimeouts, SubTypeOK, sendVars
  <2>3. CASE ~FinishTake /\ ~HandleTimeouts
    <3>1. UNCHANGED subVars
      BY <2>3 DEF QuietThread, OnSetupListeningSocketComplete, OnAcceptConnectionFailed,
         PollTimeout, WaitForData, DrainDone, Clear, threadVars
    <3>2. QED
      BY <1>1, <3>1, TypesUnchanged
  <2>4. QED
    BY <2>1, <2>2, <2>3
<1>6. TypeOK'
  BY <1>1, <1>2, <1>3, <1>4, <1>5, TypesUnchanged DEF TypeOK
<1>7. GateInv'
  <2>1. CASE HandleTimeouts
    <3>1. ASSUME NEW c \in clients, GetIsIdle(c) PROVE event[c] \notin HandshakeEvents
      BY <3>1 DEF GetIsIdle, HandshakeEvents
    <3>2. QED
      BY <1>2, <2>1, <3>1 DEF HandleTimeouts, AllIdle, GateInv, connVars
  <2>2. CASE WaitForData
    BY <1>1, <1>2, <2>2 DEF WaitForData, GateInv, connVars
  <2>3. CASE ~HandleTimeouts /\ ~WaitForData
    <3>1. pc' \in {"expire", "clear", "poll"}
      BY <2>3 DEF QuietThread, OnSetupListeningSocketComplete, OnAcceptConnectionFailed,
         FinishTake, PollTimeout, DrainDone, Clear
    <3>2. QED
      BY <3>1 DEF GateInv
  <2>4. QED
    BY <2>1, <2>2, <2>3
<1>8. QED
  BY <1>2, <1>6, <1>7, QuietStep
-------------------------------------------------------------------------------
(* The kernel completes a request.                                         *)
LEMMA KernelStepIInv ==
  ASSUME IInv, NEW c \in Clients, KernelStep(c)
  PROVE  IInv'
<1>1. /\ TypeOK /\ GateInv /\ ConnTypeOK /\ SubTypeOK
      /\ \A d \in Clients : ClientInv(d)
  BY DEF IInv, TypeOK
<1>30. PICK i \in DOMAIN sq[c] : \E res \in Outcomes(c, sq[c][i]) :
         /\ KernelCompletes(c, i, res)
         /\ wire' = IF sq[c][i].op = "send" /\ res > 0
                    THEN [wire EXCEPT ![c] = @ \o Bytes(sq[c][i].item, res)]
                    ELSE wire
  BY DEF KernelStep, Kernel
<1>2. PICK res \in Outcomes(c, sq[c][i]) :
        /\ KernelCompletes(c, i, res)
        /\ wire' = IF sq[c][i].op = "send" /\ res > 0
                   THEN [wire EXCEPT ![c] = @ \o Bytes(sq[c][i].item, res)]
                   ELSE wire
  BY <1>30
<1>3. UNCHANGED <<event, isDisconnected, handshakeVars, sendVars, subscriptions,
                  pendingSubscriptions, taken, queueVars, serverVars, commandVars>>
  BY <1>2 DEF KernelStep, KernelCompletes
<1> DEFINE q == sq[c][i]
           done == [op |-> q.op, item |-> q.item, res |-> res]
<1>4. /\ sq \in [Clients -> Seq(Request)] /\ cq \in [Clients -> Seq(Completion)]
      /\ fdOpen \in [Clients -> BOOLEAN]
  BY <1>1 DEF ConnTypeOK
<1>5. q \in Request /\ (q.op = "send" => q.item.len > 0)
  <2>1. sq[c] \in Seq(Request)
    BY <1>4
  <2>2. q \in Request
    BY <2>1, ElementOfSeq, LenProperties
  <2>3. QED
    BY <1>1, <2>2 DEF ClientInv, SendInv
<1>6. /\ res \in Int
      /\ q.op = "send" => res <= q.item.len
      /\ q.op = "close" => res <= 0
  BY <1>5, OutcomesProps
<1>7. done \in Completion
  BY <1>5, <1>6 DEF Request, Completion
<1>8. /\ sq' = [sq EXCEPT ![c] = RemoveAt(@, i)]
      /\ cq' = [cq EXCEPT ![c] = Append(@, done)]
      /\ fdOpen' = [fdOpen EXCEPT ![c] = @ /\ q.op # "close"]
  BY <1>2 DEF KernelCompletes
<1>9. /\ sq'[c] = RemoveAt(sq[c], i) /\ cq'[c] = Append(cq[c], done)
      /\ sq'[c] \in Seq(Request) /\ cq'[c] \in Seq(Completion)
      /\ Len(sq'[c]) = Len(sq[c]) - 1 /\ Len(cq'[c]) = Len(cq[c]) + 1
      /\ \A j \in DOMAIN sq'[c] :
           \/ j < i /\ j \in DOMAIN sq[c] /\ sq'[c][j] = sq[c][j]
           \/ j >= i /\ j + 1 \in DOMAIN sq[c] /\ sq'[c][j] = sq[c][j + 1]
      /\ \A j \in DOMAIN cq'[c] :
           \/ j \in DOMAIN cq[c] /\ cq'[c][j] = cq[c][j]
           \/ j = Len(cq[c]) + 1 /\ cq'[c][j] = done
  <2> HIDE DEF done
  <2>1. sq'[c] = RemoveAt(sq[c], i) /\ cq'[c] = Append(cq[c], done)
    BY <1>4, <1>8
  <2>2. sq[c] \in Seq(Request) /\ cq[c] \in Seq(Completion)
    BY <1>4
  <2>3. /\ RemoveAt(sq[c], i) \in Seq(Request)
        /\ Len(RemoveAt(sq[c], i)) = Len(sq[c]) - 1
        /\ \A j \in DOMAIN RemoveAt(sq[c], i) :
             \/ j < i /\ j \in DOMAIN sq[c] /\ RemoveAt(sq[c], i)[j] = sq[c][j]
             \/ j >= i /\ j + 1 \in DOMAIN sq[c] /\ RemoveAt(sq[c], i)[j] = sq[c][j + 1]
    BY <2>2, RemoveAtProps
  <2>4. /\ Append(cq[c], done) \in Seq(Completion)
        /\ Len(Append(cq[c], done)) = Len(cq[c]) + 1
        /\ \A j \in DOMAIN Append(cq[c], done) :
             \/ j \in DOMAIN cq[c] /\ Append(cq[c], done)[j] = cq[c][j]
             \/ j = Len(cq[c]) + 1 /\ Append(cq[c], done)[j] = done
    BY <1>7, <2>2, AppendProps
  <2>5. QED
    BY <2>1, <2>3, <2>4
<1>10. ClientInv(c)
  BY <1>1
<1>11. i \in DOMAIN sq[c] /\ i \in 1 .. Len(sq[c]) /\ Len(sq[c]) \in Nat /\ Len(cq[c]) \in Nat
  BY <1>4, LenProperties
<1>12. /\ event'[c] = event[c] /\ nameReads'[c] = nameReads[c]
       /\ isDisconnected'[c] = isDisconnected[c]
       /\ currentItem'[c] = currentItem[c] /\ pendingItems'[c] = pendingItems[c]
       /\ clients' = clients
  BY <1>3 DEF handshakeVars, sendVars, serverVars
<1>13. done.op = q.op /\ done.item = q.item /\ done.res = res
  OBVIOUS
<1>14. (NameComplete(c) \/ event[c] \in HandshakeEvents) => q.op \in OpsOf(event[c])
  BY <1>10, <1>11 DEF ClientInv, RequestInv
<1>15. q.op = "close" \/ fdOpen'[c] = fdOpen[c]
  BY <1>4, <1>8
<1>16. \A j \in DOMAIN sq'[c] : \E m \in DOMAIN sq[c] :
         sq'[c][j] = sq[c][m] /\ ((m = j /\ j < i) \/ (m = j + 1 /\ j >= i))
  <2>1. TAKE j \in DOMAIN sq'[c]
  <2>2. CASE j < i /\ j \in DOMAIN sq[c] /\ sq'[c][j] = sq[c][j]
    BY <2>2
  <2>3. CASE j >= i /\ j + 1 \in DOMAIN sq[c] /\ sq'[c][j] = sq[c][j + 1]
    BY <2>3
  <2>4. QED
    BY <1>9, <2>2, <2>3
<1> HIDE DEF q, done
<1>20. NameInv(c)' /\ BacklogInv(c)'
  BY <1>10, <1>12 DEF ClientInv, NameInv, BacklogInv, NameComplete, HasContent
<1>21. RequestInv(c)'
  <2>1. SUFFICES ASSUME NameComplete(c) \/ event[c] \in HandshakeEvents
        PROVE  /\ Len(sq'[c]) + Len(cq'[c]) <= 1
               /\ \A j \in DOMAIN sq'[c] : sq'[c][j].op \in OpsOf(event[c])
               /\ \A j \in DOMAIN cq'[c] : cq'[c][j].op \in OpsOf(event[c])
    BY <1>12 DEF RequestInv, NameComplete
  <2>2. /\ Len(sq[c]) + Len(cq[c]) <= 1
        /\ \A j \in DOMAIN sq[c] : sq[c][j].op \in OpsOf(event[c])
        /\ \A j \in DOMAIN cq[c] : cq[c][j].op \in OpsOf(event[c])
    BY <1>10, <2>1 DEF ClientInv, RequestInv
  <2>3. Len(sq'[c]) + Len(cq'[c]) <= 1
    <3>1. Len(sq'[c]) = Len(sq[c]) - 1 /\ Len(cq'[c]) = Len(cq[c]) + 1
      BY <1>9
    <3>2. Len(sq[c]) + Len(cq[c]) <= 1 /\ Len(sq[c]) \in Nat /\ Len(cq[c]) \in Nat
      BY <1>11, <2>2
    <3>3. \A m, n \in Nat : m + n <= 1 => (m - 1) + (n + 1) <= 1
      OBVIOUS
    <3>4. QED
      BY <3>1, <3>2, <3>3
  <2>4. \A j \in DOMAIN sq'[c] : sq'[c][j].op \in OpsOf(event[c])
    BY <1>16, <2>2
  <2>5. \A j \in DOMAIN cq'[c] : cq'[c][j].op \in OpsOf(event[c])
    BY <1>9, <1>13, <1>14, <2>1, <2>2
  <2>6. QED
    BY <2>3, <2>4, <2>5
<1>22. EventInv(c)'
  <2>1. event[c] # "NotSet"
    BY <1>10, <1>11 DEF ClientInv, EventInv
  <2>2. (NameComplete(c) \/ event[c] \in HandshakeEvents) /\ event[c] # "Disconnected"
           => fdOpen'[c]
    <3>1. SUFFICES ASSUME NameComplete(c) \/ event[c] \in HandshakeEvents,
                          event[c] # "Disconnected"
                   PROVE  fdOpen'[c]
      OBVIOUS
    <3>2. fdOpen[c]
      BY <1>10, <3>1 DEF ClientInv, EventInv
    <3>3. q.op # "close"
      BY <1>14, <2>1, <3>1 DEF OpsOf, HandshakeEvents
    <3>4. QED
      BY <1>15, <3>2, <3>3
  <2>3. ASSUME event[c] \in {"Ready", "SendData", "Disconnected"}
        PROVE  /\ \A j \in DOMAIN sq'[c] : sq'[c][j].op \in {"send", "close"}
               /\ \A j \in DOMAIN cq'[c] : cq'[c][j].op \in {"send", "close"}
    <3>1. /\ \A j \in DOMAIN sq[c] : sq[c][j].op \in {"send", "close"}
          /\ \A j \in DOMAIN cq[c] : cq[c][j].op \in {"send", "close"}
      BY <1>10, <2>3 DEF ClientInv, EventInv
    <3>2. q.op \in {"send", "close"}
      BY <1>11, <3>1 DEF q
    <3>3. QED
      BY <1>9, <1>13, <3>1, <3>2
  <2>4. EventInv(c)
    BY <1>10 DEF ClientInv
  <2>5. (NameComplete(c)' <=> NameComplete(c)) /\ (HasContent(c)' <=> HasContent(c))
    BY <1>12 DEF NameComplete, HasContent
  <2>6. QED
    BY <1>12, <2>1, <2>2, <2>3, <2>4, <2>5 DEF EventInv
<1>23. SendInv(c)'
  <2>1. SendInv(c)
    BY <1>10 DEF ClientInv
  <2>2. \A j \in DOMAIN sq'[c] : sq'[c][j].op = "send" =>
          /\ sq'[c][j].item = currentItem[c]
          /\ sq'[c][j].item.len > 0
          /\ \A k \in DOMAIN sq'[c] : sq'[c][k].op = "send" => k = j
    <3>1. TAKE j \in DOMAIN sq'[c]
    <3>2. HAVE sq'[c][j].op = "send"
    <3>3. PICK m \in DOMAIN sq[c] : sq'[c][j] = sq[c][m] /\ ((m = j /\ j < i) \/ (m = j + 1 /\ j >= i))
      BY <1>16
    <3>4. sq'[c][j].item = currentItem[c] /\ sq'[c][j].item.len > 0
      BY <2>1, <3>2, <3>3 DEF SendInv
    <3>5. ASSUME NEW k \in DOMAIN sq'[c], sq'[c][k].op = "send" PROVE k = j
      <4>1. PICK n \in DOMAIN sq[c] : sq'[c][k] = sq[c][n] /\ ((n = k /\ k < i) \/ (n = k + 1 /\ k >= i))
        BY <1>16
      <4>2. n = m
        BY <2>1, <3>2, <3>3, <3>5, <4>1 DEF SendInv
      <4>3. i \in Int /\ j \in Int /\ k \in Int
        BY <1>9, <1>11, LenProperties
      <4>4. QED
        BY <3>3, <4>1, <4>2, <4>3
    <3>6. QED
      BY <3>4, <3>5
  <2>3. ASSUME NEW j \in DOMAIN sq'[c], sq'[c][j].op = "send", q.op = "send" PROVE FALSE
    <3>1. PICK m \in DOMAIN sq[c] : sq'[c][j] = sq[c][m] /\ m # i
      <4>1. PICK m \in DOMAIN sq[c] : sq'[c][j] = sq[c][m] /\ ((m = j /\ j < i) \/ (m = j + 1 /\ j >= i))
        BY <1>16
      <4>2. i \in Int /\ j \in Int
        BY <1>9, <1>11, LenProperties
      <4>3. QED
        BY <4>1, <4>2
    <3>2. QED
      BY <1>11, <2>1, <2>3, <3>1 DEF SendInv, q
  <2>4. ASSUME q.op = "send"
        PROVE  q.item = currentItem[c] /\ \A j \in DOMAIN cq[c] : cq[c][j].op # "send"
    BY <1>11, <2>1, <2>4 DEF SendInv, q
  <2>5. \A j \in DOMAIN sq'[c] : sq'[c][j].op = "send" =>
          \A k \in DOMAIN cq'[c] : cq'[c][k].op # "send"
    <3>1. TAKE j \in DOMAIN sq'[c]
    <3>2. HAVE sq'[c][j].op = "send"
    <3>3. q.op # "send"
      BY <2>3, <3>2
    <3>4. \E m \in DOMAIN sq[c] : sq[c][m].op = "send"
      BY <1>9, <3>2
    <3>5. \A k \in DOMAIN cq[c] : cq[c][k].op # "send"
      BY <2>1, <3>4 DEF SendInv
    <3>6. QED
      BY <1>9, <1>13, <3>3, <3>5
  <2>6. \A j \in DOMAIN cq'[c] : cq'[c][j].op = "send" =>
          /\ cq'[c][j].item = currentItem[c]
          /\ cq'[c][j].item.len > 0
          /\ cq'[c][j].res <= cq'[c][j].item.len
          /\ \A k \in DOMAIN cq'[c] : cq'[c][k].op = "send" => k = j
    <3>1. CASE q.op = "send"
      BY <1>5, <1>6, <1>9, <1>13, <2>4, <3>1
    <3>2. CASE q.op # "send"
      BY <1>9, <1>13, <2>1, <3>2 DEF SendInv
    <3>3. QED
      BY <3>1, <3>2
  <2>7. \A j \in DOMAIN cq'[c] : cq'[c][j].op = "close" => cq'[c][j].res <= 0
    BY <1>6, <1>9, <1>13, <2>1 DEF SendInv
  <2>8. QED
    BY <1>12, <2>2, <2>5, <2>6, <2>7 DEF SendInv
<1>24. ASSUME NEW d \in Clients, d # c PROVE ClientInv(d)'
  <2>1. sq'[d] = sq[d] /\ cq'[d] = cq[d] /\ fdOpen'[d] = fdOpen[d]
    BY <1>4, <1>8, <1>24
  <2>2. QED
    BY <1>1, <1>3, <2>1, ClientFrame DEF handshakeVars, sendVars, serverVars
<1>25. ConnTypeOK'
  <2>1. sq' \in [Clients -> Seq(Request)] /\ cq' \in [Clients -> Seq(Completion)]
    BY <1>4, <1>8, <1>9
  <2>2. fdOpen' \in [Clients -> BOOLEAN]
    BY <1>4, <1>8
  <2>3. QED
    BY <1>1, <1>3, <2>1, <2>2 DEF ConnTypeOK, handshakeVars
<1>26. SubTypeOK'
  <2>1. ASSUME q.op = "send", res > 0 PROVE Bytes(q.item, res) \in Seq(Nat \X Nat)
    <3>1. q.item.id \in Nat /\ q.item.pos \in Nat /\ res \in Nat
      BY <1>5, <1>6, <2>1 DEF Request, Item
    <3>2. \A k \in 1 .. res : <<q.item.id, q.item.pos + k - 1>> \in Nat \X Nat
      BY <3>1
    <3>3. QED
      BY <3>1, <3>2, IsASeq DEF Bytes
  <2>2. wire' \in [Clients -> Seq(Nat \X Nat)]
    <3>1. wire \in [Clients -> Seq(Nat \X Nat)]
      BY <1>1 DEF SubTypeOK
    <3>2. CASE q.op = "send" /\ res > 0
      <4>1. wire' = [wire EXCEPT ![c] = @ \o Bytes(q.item, res)]
        BY <1>2, <3>2 DEF q
      <4>2. wire[c] \o Bytes(q.item, res) \in Seq(Nat \X Nat)
        BY <2>1, <3>1, <3>2, ConcatProperties
      <4>3. QED
        BY <3>1, <4>1, <4>2
    <3>3. CASE ~(q.op = "send" /\ res > 0)
      BY <1>2, <3>1, <3>3 DEF q
    <3>4. QED
      BY <3>2, <3>3
  <2>3. QED
    BY <1>1, <1>3, <2>2 DEF SubTypeOK, sendVars
<1>27. TypeOK'
  BY <1>1, <1>3, <1>25, <1>26, TypesUnchanged DEF TypeOK
<1>28. GateInv'
  BY <1>1, <1>3 DEF GateInv, serverVars
<1>29. QED
  BY <1>20, <1>21, <1>22, <1>23, <1>24, <1>27, <1>28 DEF IInv, ClientInv
-------------------------------------------------------------------------------
(* A connection is accepted.                                               *)
LEMMA AcceptStep ==
  ASSUME IInv, NEW c \in Clients, OnAcceptConnectionComplete(c), UNCHANGED commandVars
  PROVE  IInv'
<1> DEFINE r == [op |-> "epoll_ctl", item |-> NoItem]
<1>1. /\ TypeOK /\ ConnTypeOK /\ ServerTypeOK
      /\ \A d \in Clients : ClientInv(d)
      /\ sq \in [Clients -> Seq(Request)] /\ cq \in [Clients -> Seq(Completion)]
      /\ event \in [Clients -> Events] /\ fdOpen \in [Clients -> BOOLEAN]
  BY DEF IInv, TypeOK, ConnTypeOK
<1>2. /\ event' = [event EXCEPT ![c] = "SetNonblockingPublisher"]
      /\ sq' = [sq EXCEPT ![c] = Append(@, r)]
      /\ fdOpen' = [fdOpen EXCEPT ![c] = TRUE]
      /\ UNCHANGED <<isDisconnected, handshakeVars, cq>>
      /\ UNCHANGED <<subVars, queueVars, taker, listener>>
      /\ c \notin clients /\ clients' = clients \cup {c}
      /\ pc' = "expire" /\ event[c] = "NotSet"
  BY DEF OnAcceptConnectionComplete, BeginMakeNonblockingSocket, Begin
<1>3. r \in Request
  BY DEF Request, Ops, Item, NoItem
<1>4. NameInv(c) /\ EventInv(c) /\ BacklogInv(c) /\ sq[c] \in Seq(Request) /\ cq[c] \in Seq(Completion)
  BY <1>1 DEF ClientInv
<1>5. sq[c] = <<>> /\ cq[c] = <<>> /\ ~HasContent(c)
  <2>1. Len(sq[c]) = 0 /\ Len(cq[c]) = 0 /\ ~HasContent(c)
    BY <1>2, <1>4 DEF EventInv
  <2>2. QED
    BY <1>4, <2>1, EmptySeq
<1>6. /\ sq'[c] = <<r>> /\ cq'[c] = <<>> /\ fdOpen'[c] = TRUE
      /\ event'[c] = "SetNonblockingPublisher"
      /\ currentItem'[c] = currentItem[c] /\ pendingItems'[c] = pendingItems[c]
      /\ nameReads'[c] = nameReads[c] /\ isDisconnected'[c] = isDisconnected[c]
  BY <1>1, <1>2, <1>5 DEF handshakeVars, subVars
<1>7. r.op = "epoll_ctl"
  OBVIOUS
<1> HIDE DEF r
<1>8. NameInv(c)' /\ BacklogInv(c)'
  BY <1>2, <1>4, <1>6 DEF NameInv, BacklogInv, NameComplete, HasContent
<1>9. EventInv(c)'
  BY <1>2, <1>4, <1>5, <1>6 DEF EventInv, HasContent, NameComplete
<1>10. RequestInv(c)' /\ SendInv(c)'
  <2>1. DOMAIN sq'[c] = {1} /\ Len(sq'[c]) = 1 /\ sq'[c][1] = r /\ Len(cq'[c]) = 0 /\ DOMAIN cq'[c] = {}
    BY <1>6
  <2>2. r.op \in OpsOf("SetNonblockingPublisher")
    BY <1>7 DEF OpsOf
  <2>3. QED
    BY <1>6, <1>7, <2>1, <2>2 DEF RequestInv, SendInv
<1>11. ASSUME NEW d \in Clients, d # c PROVE ClientInv(d)'
  <2>1. sq'[d] = sq[d] /\ event'[d] = event[d] /\ fdOpen'[d] = fdOpen[d]
        /\ (d \in clients' <=> d \in clients)
    BY <1>1, <1>2, <1>11
  <2>2. QED
    BY <1>1, <1>2, <2>1, ClientFrame DEF handshakeVars, subVars
<1>12. TypeOK'
  <2>1. ConnTypeOK'
    <3>1. sq' \in [Clients -> Seq(Request)]
      BY <1>1, <1>2, <1>3, <1>4, AppendProps
    <3>2. QED
      BY <1>1, <1>2, <3>1 DEF ConnTypeOK, Events, HandshakeEvents, handshakeVars
  <2>2. ServerTypeOK'
    BY <1>1, <1>2 DEF ServerTypeOK
  <2>3. QED
    BY <1>1, <1>2, <2>1, <2>2, TypesUnchanged DEF TypeOK
<1>13. GateInv'
  BY <1>2 DEF GateInv
<1>14. QED
  BY <1>8, <1>9, <1>10, <1>11, <1>12, <1>13 DEF IInv, ClientInv
-------------------------------------------------------------------------------
(* A send begins for a client whose earlier sends are all reaped.          *)
LEMMA BeginSend ==
  ASSUME NEW c \in Clients, ClientInv(c), NEW item \in Item, item.len > 0,
         sq[c] \in Seq(Request), cq'[c] \in Seq(Completion),
         event[c] \in {"Ready", "SendData", "Disconnected"}, ~isDisconnected[c],
         event'[c] = "SendData", isDisconnected'[c] = isDisconnected[c],
         nameReads'[c] = nameReads[c], fdOpen'[c] = fdOpen[c],
         c \in clients, clients' = clients,
         currentItem'[c] = item,
         sq'[c] = Append(sq[c], [op |-> "send", item |-> item]),
         \A i \in DOMAIN sq[c] : sq[c][i].op = "close",
         \A i \in DOMAIN cq'[c] : cq'[c][i].op = "close" /\ cq'[c][i].res <= 0,
         NameComplete(c) => /\ Len(sq[c]) = 0 /\ Len(cq'[c]) = 0
                            /\ event[c] # "Disconnected",
         \A i \in DOMAIN pendingItems'[c] : pendingItems'[c][i].len > 0
  PROVE  ClientInv(c)'
<1> DEFINE r == [op |-> "send", item |-> item]
<1>1. r \in Request /\ r.op = "send" /\ r.item = item
  BY DEF Request, Ops
<1> HIDE DEF r
<1>2. sq'[c] = Append(sq[c], r)
  BY DEF r
<1>3. /\ Len(sq'[c]) = Len(sq[c]) + 1
      /\ \A j \in DOMAIN sq'[c] : \/ j \in DOMAIN sq[c] /\ sq'[c][j] = sq[c][j]
                                  \/ j = Len(sq[c]) + 1 /\ sq'[c][j] = r
  BY <1>1, <1>2, AppendProps
<1>4. NameInv(c) /\ EventInv(c)
  BY DEF ClientInv
<1>5. (NameComplete(c)' <=> NameComplete(c)) /\ HasContent(c)'
  BY DEF NameComplete, HasContent
<1>6. NameInv(c)'
  BY <1>4, <1>5 DEF NameInv
<1>7. EventInv(c)'
  <2>1. \A j \in DOMAIN sq'[c] : sq'[c][j].op \in {"send", "close"}
    BY <1>1, <1>3
  <2>2. QED
    BY <1>4, <1>5, <2>1 DEF EventInv, HandshakeEvents
<1>8. RequestInv(c)'
  <2>1. SUFFICES ASSUME NameComplete(c)
        PROVE  /\ Len(sq'[c]) + Len(cq'[c]) <= 1
               /\ \A i \in DOMAIN sq'[c] : sq'[c][i].op \in OpsOf("SendData")
               /\ \A i \in DOMAIN cq'[c] : cq'[c][i].op \in OpsOf("SendData")
    BY <1>5 DEF RequestInv, HandshakeEvents
  <2>2. Len(sq[c]) = 0 /\ Len(cq'[c]) = 0 /\ DOMAIN sq[c] = {} /\ DOMAIN cq'[c] = {}
    BY <2>1, LenProperties
  <2>3. QED
    BY <1>1, <1>3, <2>2 DEF OpsOf
<1>9. SendInv(c)'
  BY <1>1, <1>3 DEF SendInv
<1>10. BacklogInv(c)'
  BY <1>5 DEF BacklogInv
<1>11. QED
  BY <1>6, <1>7, <1>8, <1>9, <1>10 DEF ClientInv

(* Without content there is no send outstanding. *)
LEMMA IdleHasNoSend ==
  ASSUME NEW c \in Clients, SendInv(c), ~HasContent(c), currentItem[c] \in Item
  PROVE  /\ \A i \in DOMAIN sq[c] : sq[c][i].op # "send"
         /\ \A i \in DOMAIN cq[c] : cq[c][i].op # "send"
BY DEF SendInv, HasContent, Item

(* A batch is fanned out: an idle receiver starts to send it, a busy one   *)
(* queues it, and the others do not see it.                                *)
LEMMA FanOutStep ==
  ASSUME IInv, FanOut, UNCHANGED commandVars
  PROVE  IInv'
<1> DEFINE batch == Head(messageQueue)
           item == ItemOf(batch)
           idle == {c \in Receivers(batch) : ~HasContent(c)}
           busy == Receivers(batch) \ idle
           r == [op |-> "send", item |-> item]
<1>1. /\ TypeOK /\ QueueTypeOK /\ ConnTypeOK /\ SubTypeOK /\ ServerTypeOK /\ GateInv
      /\ \A d \in Clients : ClientInv(d)
      /\ sq \in [Clients -> Seq(Request)] /\ cq \in [Clients -> Seq(Completion)]
      /\ event \in [Clients -> Events]
      /\ currentItem \in [Clients -> Item] /\ pendingItems \in [Clients -> Seq(Item)]
      /\ clients \in SUBSET Clients
  BY DEF IInv, TypeOK, ConnTypeOK, SubTypeOK, ServerTypeOK
<1>2. /\ pc = "drain" /\ messageQueue # <<>> /\ messageQueue' = Tail(messageQueue)
      /\ UNCHANGED <<hasPendingData, pushing, published>>
      /\ UNCHANGED <<isDisconnected, handshakeVars, cq, fdOpen, subscriptions,
                     pendingSubscriptions, taken, wire, serverVars>>
  BY DEF FanOut, TryPop
<1>3. /\ currentItem' = [c \in Clients |-> IF c \in idle THEN item ELSE currentItem[c]]
      /\ event' = [c \in Clients |-> IF c \in idle THEN "SendData" ELSE event[c]]
      /\ sq' = [c \in Clients |-> IF c \in idle THEN Append(sq[c], r) ELSE sq[c]]
      /\ pendingItems' = [c \in Clients |-> IF c \in busy THEN Append(pendingItems[c], item)
                                            ELSE pendingItems[c]]
  BY DEF FanOut, PushMessageBatch
<1>4. item \in Item /\ item.len > 0
  <2>1. messageQueue \in Seq(Batch)
    BY <1>1 DEF QueueTypeOK
  <2>2. batch \in Batch
    BY <1>2, <2>1, TailProps
  <2>3. batch.id \in Nat /\ batch.len \in Nat /\ batch.len > 0
    <3> HIDE DEF batch
    <3>1. batch.id \in Nat /\ batch.len \in Lengths
      BY <2>2 DEF Batch
    <3>2. batch.len \in Nat /\ batch.len # 0
      BY <3>1, QueueAssumption
    <3>3. QED
      BY <3>1, <3>2
  <2>4. item = [id |-> batch.id, pos |-> 0, len |-> batch.len]
    BY DEF ItemOf
  <2>5. QED
    BY <2>3, <2>4 DEF Item
<1>5. r \in Request /\ r.op = "send" /\ r.item = item
  BY <1>4 DEF Request, Ops
<1>6. ASSUME NEW c \in idle
      PROVE  /\ c \in Clients /\ c \in clients /\ ~isDisconnected[c] /\ ~HasContent(c)
             /\ event[c] \in {"Ready", "Disconnected"}
  <2>1. c \in Clients /\ c \in clients /\ ~isDisconnected[c] /\ ~HasContent(c)
    BY <1>1 DEF Receivers
  <2>2. EventInv(c) /\ event[c] \in Events
    BY <1>1, <2>1 DEF ClientInv
  <2>3. event[c] \notin HandshakeEvents
    BY <1>1, <1>2, <2>1 DEF GateInv
  <2>4. QED
    BY <2>1, <2>2, <2>3 DEF EventInv, Events
<1>7. ASSUME NEW c \in busy PROVE c \in Clients /\ HasContent(c)
  BY <1>1 DEF Receivers
<1> HIDE DEF batch, item, idle, busy, r
<1>8. /\ clients' = clients /\ cq' = cq /\ isDisconnected' = isDisconnected
      /\ nameReads' = nameReads /\ fdOpen' = fdOpen
  BY <1>2 DEF handshakeVars, serverVars
<1>9. ASSUME NEW c \in Clients PROVE ClientInv(c)'
  <2>1. ClientInv(c)
    BY <1>1
  <2>2. CASE c \in idle
    <3>1. /\ event'[c] = "SendData" /\ currentItem'[c] = item
          /\ sq'[c] = Append(sq[c], r) /\ pendingItems'[c] = pendingItems[c]
      <4>1. c \notin busy
        BY <1>6, <1>7, <2>2
      <4>2. QED
        BY <1>3, <2>2, <4>1
    <3>2. /\ \A i \in DOMAIN sq[c] : sq[c][i].op # "send"
          /\ \A i \in DOMAIN cq[c] : cq[c][i].op # "send"
      <4>1. SendInv(c) /\ currentItem[c] \in Item /\ ~HasContent(c)
        BY <1>1, <1>6, <2>1, <2>2 DEF ClientInv
      <4>2. QED
        BY <4>1, IdleHasNoSend
    <3>3. /\ \A i \in DOMAIN sq[c] : sq[c][i].op = "close"
          /\ \A i \in DOMAIN cq[c] : cq[c][i].op = "close" /\ cq[c][i].res <= 0
      <4>1. EventInv(c) /\ SendInv(c) /\ event[c] \in {"Ready", "Disconnected"}
        BY <1>6, <2>1, <2>2 DEF ClientInv
      <4>2. /\ \A i \in DOMAIN sq[c] : sq[c][i].op \in {"send", "close"}
            /\ \A i \in DOMAIN cq[c] : cq[c][i].op \in {"send", "close"}
        BY <4>1 DEF EventInv
      <4>3. QED
        BY <3>2, <4>1, <4>2 DEF SendInv
    <3>4. ASSUME NameComplete(c)
          PROVE  Len(sq[c]) = 0 /\ Len(cq[c]) = 0 /\ event[c] = "Ready"
      <4>1. event[c] = "Ready"
        BY <1>6, <2>1, <2>2, <3>4 DEF ClientInv, EventInv
      <4>2. /\ \A i \in DOMAIN sq[c] : sq[c][i].op \in {}
            /\ \A i \in DOMAIN cq[c] : cq[c][i].op \in {}
        BY <2>1, <3>4, <4>1 DEF ClientInv, RequestInv, OpsOf
      <4>3. sq[c] \in Seq(Request) /\ cq[c] \in Seq(Completion)
        BY <1>1
      <4>4. DOMAIN sq[c] = {} /\ DOMAIN cq[c] = {}
        BY <4>2
      <4>5. Len(sq[c]) = 0 /\ Len(cq[c]) = 0
        <5>1. \A n \in Nat : 1 .. n = {} => n = 0
          OBVIOUS
        <5>2. QED
          BY <4>3, <4>4, <5>1, LenProperties
      <4>6. QED
        BY <4>1, <4>5
    <3>5. \A i \in DOMAIN pendingItems'[c] : pendingItems'[c][i].len > 0
      BY <2>1, <3>1 DEF ClientInv, BacklogInv
    <3>6. /\ sq[c] \in Seq(Request) /\ cq'[c] \in Seq(Completion) /\ cq'[c] = cq[c]
          /\ event[c] \in {"Ready", "SendData", "Disconnected"}
          /\ ~isDisconnected[c] /\ c \in clients
      BY <1>1, <1>6, <1>8, <2>2
    <3>7. QED
      BY <1>4, <1>8, <2>1, <3>1, <3>3, <3>4, <3>5, <3>6, BeginSend DEF r
  <2>3. CASE c \in busy
    <3>1. /\ event'[c] = event[c] /\ currentItem'[c] = currentItem[c] /\ sq'[c] = sq[c]
          /\ pendingItems'[c] = Append(pendingItems[c], item)
      <4>1. c \notin idle
        BY <1>6, <1>7, <2>3
      <4>2. QED
        BY <1>3, <2>3, <4>1
    <3>2. HasContent(c) /\ HasContent(c)' /\ (NameComplete(c)' <=> NameComplete(c))
      BY <1>7, <1>8, <2>3, <3>1 DEF HasContent, NameComplete
    <3>3. NameInv(c)' /\ RequestInv(c)' /\ SendInv(c)'
      BY <1>8, <2>1, <3>1, <3>2 DEF ClientInv, NameInv, RequestInv, SendInv
    <3>4. EventInv(c)'
      BY <1>8, <2>1, <3>1, <3>2 DEF ClientInv, EventInv
    <3>5. BacklogInv(c)'
      <4>1. pendingItems[c] \in Seq(Item)
        BY <1>1
      <4>2. \A i \in DOMAIN pendingItems'[c] :
              \/ i \in DOMAIN pendingItems[c] /\ pendingItems'[c][i] = pendingItems[c][i]
              \/ pendingItems'[c][i] = item
        BY <1>4, <3>1, <4>1, AppendProps
      <4>3. QED
        BY <1>4, <2>1, <3>2, <4>2 DEF ClientInv, BacklogInv
    <3>6. QED
      BY <3>3, <3>4, <3>5 DEF ClientInv
  <2>4. CASE c \notin idle /\ c \notin busy
    <3>1. /\ event'[c] = event[c] /\ currentItem'[c] = currentItem[c] /\ sq'[c] = sq[c]
          /\ pendingItems'[c] = pendingItems[c]
      BY <1>3, <2>4
    <3>2. QED
      BY <1>8, <2>1, <3>1, ClientFrame
  <2>5. QED
    BY <2>2, <2>3, <2>4
<1>10. TypeOK'
  <2>1. QueueTypeOK'
    <3>1. messageQueue \in Seq(Batch)
      BY <1>1 DEF QueueTypeOK
    <3>2. Tail(messageQueue) \in Seq(Batch)
      BY <1>2, <3>1, TailProps
    <3>3. QED
      BY <1>1, <1>2, <3>2 DEF QueueTypeOK
  <2>2. ConnTypeOK'
    <3>1. ASSUME NEW c \in Clients PROVE Append(sq[c], r) \in Seq(Request)
      BY <1>1, <1>5, AppendProps
    <3>2. sq' \in [Clients -> Seq(Request)]
      BY <1>1, <1>3, <3>1
    <3>3. event' \in [Clients -> Events]
      BY <1>1, <1>3 DEF Events
    <3>4. QED
      BY <1>1, <1>2, <3>2, <3>3 DEF ConnTypeOK, handshakeVars
  <2>3. SubTypeOK'
    <3>1. ASSUME NEW c \in Clients PROVE Append(pendingItems[c], item) \in Seq(Item)
      BY <1>1, <1>4, AppendProps
    <3>2. pendingItems' \in [Clients -> Seq(Item)]
      BY <1>1, <1>3, <3>1
    <3>3. currentItem' \in [Clients -> Item]
      BY <1>1, <1>3, <1>4
    <3>4. QED
      BY <1>1, <1>2, <3>2, <3>3 DEF SubTypeOK
  <2>4. QED
    BY <1>1, <1>2, <2>1, <2>2, <2>3, TypesUnchanged DEF TypeOK
<1>11. GateInv'
  <2>1. ASSUME NEW c \in clients PROVE event'[c] \in {event[c], "SendData"}
    BY <1>1, <1>3
  <2>2. QED
    BY <1>1, <1>2, <1>8, <2>1 DEF GateInv, HandshakeEvents
<1>12. QED
  BY <1>9, <1>10, <1>11 DEF IInv
-------------------------------------------------------------------------------
(* The subscriber thread reaps a completion of client c.  Good says what   *)
(* the handler must leave: types, the other clients untouched, and the     *)
(* invariant of c.                                                         *)
Reaping(c) ==
  /\ IInv
  /\ c \in clients
  /\ cq[c] # <<>>
  /\ cq' = [cq EXCEPT ![c] = Tail(@)]
  /\ UNCHANGED <<fdOpen, subscriptions, wire, queueVars, listener, clients, commandVars>>

Typed ==
  /\ event' \in [Clients -> Events]
  /\ sq' \in [Clients -> Seq(Request)]
  /\ isDisconnected' \in [Clients -> BOOLEAN]
  /\ intent' \in [Clients -> Nat]
  /\ nameReads' \in [Clients -> Nat]
  /\ currentItem' \in [Clients -> Item]
  /\ pendingItems' \in [Clients -> Seq(Item)]
  /\ taken' \in SUBSET Subs
  /\ pendingSubscriptions' \in SUBSET PendingSubscription

OthersKept(c) ==
  \A d \in Clients \ {c} :
    /\ event'[d] = event[d]
    /\ sq'[d] = sq[d]
    /\ isDisconnected'[d] = isDisconnected[d]
    /\ nameReads'[d] = nameReads[d]
    /\ currentItem'[d] = currentItem[d]
    /\ pendingItems'[d] = pendingItems[d]

Good(c) == Typed /\ OthersKept(c) /\ ClientInv(c)'

(* What is known of client c when one of its completions is reaped. *)
LEMMA ReapedProps ==
  ASSUME NEW c, Reaping(c)
  PROVE  /\ c \in Clients /\ c \in clients /\ clients' = clients /\ ClientInv(c)
         /\ ConnTypeOK /\ SubTypeOK
         /\ event \in [Clients -> Events] /\ isDisconnected \in [Clients -> BOOLEAN]
         /\ intent \in [Clients -> Nat] /\ nameReads \in [Clients -> Nat]
         /\ sq \in [Clients -> Seq(Request)] /\ cq \in [Clients -> Seq(Completion)]
         /\ sq[c] \in Seq(Request) /\ cq[c] \in Seq(Completion)
         /\ currentItem \in [Clients -> Item] /\ pendingItems \in [Clients -> Seq(Item)]
         /\ taken \in SUBSET Subs /\ pendingSubscriptions \in SUBSET PendingSubscription
         /\ fdOpen'[c] = fdOpen[c] /\ fdOpen' = fdOpen
         /\ Head(cq[c]) = cq[c][1] /\ 1 \in DOMAIN cq[c] /\ Head(cq[c]) \in Completion
         /\ cq'[c] \in Seq(Completion) /\ cq' \in [Clients -> Seq(Completion)]
         /\ Len(cq[c]) \in Nat /\ Len(sq[c]) \in Nat /\ Len(cq'[c]) = Len(cq[c]) - 1
         /\ \A j \in DOMAIN cq'[c] : j + 1 \in DOMAIN cq[c] /\ cq'[c][j] = cq[c][j + 1]
         /\ \A j \in DOMAIN cq'[c] : j \in Nat /\ j >= 1
<1>1. /\ TypeOK /\ ConnTypeOK /\ SubTypeOK /\ ServerTypeOK
      /\ \A d \in Clients : ClientInv(d)
  BY DEF Reaping, IInv, TypeOK
<1>2. c \in Clients /\ c \in clients /\ clients' = clients /\ fdOpen' = fdOpen
  BY <1>1 DEF Reaping, ServerTypeOK
<1>3. /\ sq \in [Clients -> Seq(Request)] /\ cq \in [Clients -> Seq(Completion)]
      /\ sq[c] \in Seq(Request) /\ cq[c] \in Seq(Completion)
  BY <1>1, <1>2 DEF ConnTypeOK
<1>4. cq[c] # <<>> /\ cq' = [cq EXCEPT ![c] = Tail(cq[c])]
  BY DEF Reaping
<1>5. /\ Head(cq[c]) \in Completion /\ 1 \in DOMAIN cq[c] /\ Head(cq[c]) = cq[c][1]
      /\ Tail(cq[c]) \in Seq(Completion) /\ Len(Tail(cq[c])) = Len(cq[c]) - 1
      /\ \A j \in DOMAIN Tail(cq[c]) : j + 1 \in DOMAIN cq[c] /\ Tail(cq[c])[j] = cq[c][j + 1]
  BY <1>3, <1>4, TailProps
<1>6. cq'[c] = Tail(cq[c]) /\ cq' \in [Clients -> Seq(Completion)]
  BY <1>2, <1>3, <1>4, <1>5
<1>7. Len(cq[c]) \in Nat /\ Len(sq[c]) \in Nat
  BY <1>3, LenProperties
<1>8. \A j \in DOMAIN cq'[c] : j \in Nat /\ j >= 1
  BY <1>5, <1>6, LenProperties
<1>9. QED
  BY <1>1, <1>2, <1>3, <1>5, <1>6, <1>7, <1>8 DEF ConnTypeOK, SubTypeOK

(* With the one request of a named or handshaking client reaped, none is   *)
(* left.                                                                   *)
LEMMA NothingLeft ==
  ASSUME NEW c, Reaping(c), NameComplete(c) \/ event[c] \in HandshakeEvents
  PROVE  /\ sq[c] = <<>> /\ cq'[c] = <<>>
         /\ Len(sq[c]) = 0 /\ Len(cq'[c]) = 0
         /\ DOMAIN sq[c] = {} /\ DOMAIN cq'[c] = {}
<1>1. Len(sq[c]) + Len(cq[c]) <= 1
  BY ReapedProps DEF ClientInv, RequestInv
<1>2. /\ Len(cq'[c]) = Len(cq[c]) - 1 /\ Len(cq'[c]) \in Nat
      /\ Len(cq[c]) \in Nat /\ Len(sq[c]) \in Nat
      /\ sq[c] \in Seq(Request) /\ cq'[c] \in Seq(Completion)
  BY ReapedProps, LenProperties
<1>3. \A k, m, n \in Nat : m + n <= 1 /\ k = n - 1 => k = 0 /\ m = 0
  OBVIOUS
<1>4. Len(sq[c]) = 0 /\ Len(cq'[c]) = 0
  BY <1>1, <1>2, <1>3
<1>5. sq[c] = <<>> /\ cq'[c] = <<>>
  BY <1>2, <1>4, EmptySeq
<1>6. QED
  BY <1>2, <1>4, <1>5, LenProperties

(* What a begin... function does to `event` and the requests. *)
LEMMA BeginProps ==
  ASSUME ConnTypeOK, NEW c \in Clients, NEW ev \in Events, NEW op \in Ops, NEW item \in Item,
         Begin(c, ev, op, item)
  PROVE  /\ event' \in [Clients -> Events] /\ sq' \in [Clients -> Seq(Request)]
         /\ event'[c] = ev /\ sq'[c] = Append(sq[c], [op |-> op, item |-> item])
         /\ Len(sq'[c]) = Len(sq[c]) + 1
         /\ \A j \in DOMAIN sq'[c] :
              \/ j \in DOMAIN sq[c] /\ sq'[c][j] = sq[c][j]
              \/ j = Len(sq[c]) + 1 /\ sq'[c][j] = [op |-> op, item |-> item]
         /\ \A d \in Clients \ {c} : event'[d] = event[d] /\ sq'[d] = sq[d]
<1> DEFINE r == [op |-> op, item |-> item]
<1>1. event \in [Clients -> Events] /\ sq \in [Clients -> Seq(Request)]
  BY DEF ConnTypeOK
<1>2. r \in Request
  BY DEF Request
<1> HIDE DEF r
<1>3. event' = [event EXCEPT ![c] = ev] /\ sq' = [sq EXCEPT ![c] = Append(sq[c], r)]
  BY DEF Begin, r
<1>4. /\ Append(sq[c], r) \in Seq(Request)
      /\ Len(Append(sq[c], r)) = Len(sq[c]) + 1
      /\ \A j \in DOMAIN Append(sq[c], r) :
           \/ j \in DOMAIN sq[c] /\ Append(sq[c], r)[j] = sq[c][j]
           \/ j = Len(sq[c]) + 1 /\ Append(sq[c], r)[j] = r
  BY <1>1, <1>2, AppendProps
<1>5. sq'[c] = Append(sq[c], r) /\ event'[c] = ev
  BY <1>1, <1>3
<1>6. QED
  BY <1>1, <1>3, <1>4, <1>5 DEF r

(* A completion that changes nothing but, at most, isDisconnected of a     *)
(* handler that was closing.                                               *)
LEMMA ReapQuiet ==
  ASSUME NEW c, Reaping(c),
         UNCHANGED <<event, sq, handshakeVars, sendVars, taken, pendingSubscriptions>>,
         \/ UNCHANGED isDisconnected
         \/ /\ event[c] = "Disconnected"
            /\ isDisconnected' = [isDisconnected EXCEPT ![c] = TRUE]
  PROVE  Good(c)
<1>1. /\ c \in Clients /\ clients' = clients /\ ClientInv(c) /\ fdOpen'[c] = fdOpen[c]
      /\ isDisconnected \in [Clients -> BOOLEAN]
      /\ Len(cq'[c]) = Len(cq[c]) - 1 /\ Len(cq[c]) \in Nat /\ Len(sq[c]) \in Nat
      /\ \A j \in DOMAIN cq'[c] : j + 1 \in DOMAIN cq[c] /\ cq'[c][j] = cq[c][j + 1]
      /\ \A j \in DOMAIN cq'[c] : j \in Nat /\ j >= 1
  BY ReapedProps
<1>2. /\ event' = event /\ sq' = sq /\ nameReads' = nameReads /\ intent' = intent
      /\ currentItem' = currentItem /\ pendingItems' = pendingItems
      /\ taken' = taken /\ pendingSubscriptions' = pendingSubscriptions
  BY DEF handshakeVars, sendVars
<1>3. /\ isDisconnected' \in [Clients -> BOOLEAN]
      /\ \A d \in Clients \ {c} : isDisconnected'[d] = isDisconnected[d]
  BY <1>1
<1>4. isDisconnected'[c] => event[c] = "Disconnected"
  <2>1. isDisconnected[c] => event[c] = "Disconnected"
    BY <1>1 DEF ClientInv, EventInv
  <2>2. QED
    BY <1>1, <2>1
<1>5. Typed /\ OthersKept(c)
  BY <1>2, <1>3, ReapedProps DEF Typed, OthersKept
<1>6. (NameComplete(c)' <=> NameComplete(c)) /\ (HasContent(c)' <=> HasContent(c))
  BY <1>2 DEF NameComplete, HasContent
<1>7. NameInv(c)' /\ BacklogInv(c)'
  BY <1>1, <1>2, <1>6 DEF ClientInv, NameInv, BacklogInv
<1>8. EventInv(c)'
  <2>1. EventInv(c) /\ event[c] # "NotSet"
    BY ReapedProps DEF ClientInv, EventInv
  <2>2. ASSUME event[c] \in {"Ready", "SendData", "Disconnected"}
        PROVE  \A j \in DOMAIN cq'[c] : cq'[c][j].op \in {"send", "close"}
    BY <1>1, <2>1, <2>2 DEF EventInv
  <2>3. QED
    BY <1>1, <1>2, <1>4, <1>6, <2>1, <2>2 DEF EventInv
<1>9. RequestInv(c)'
  <2>1. SUFFICES ASSUME NameComplete(c) \/ event[c] \in HandshakeEvents
        PROVE  /\ Len(sq[c]) + Len(cq'[c]) <= 1
               /\ \A j \in DOMAIN sq[c] : sq[c][j].op \in OpsOf(event[c])
               /\ \A j \in DOMAIN cq'[c] : cq'[c][j].op \in OpsOf(event[c])
    BY <1>2, <1>6 DEF RequestInv
  <2>2. Len(sq[c]) = 0 /\ Len(cq'[c]) = 0 /\ DOMAIN sq[c] = {} /\ DOMAIN cq'[c] = {}
    BY <2>1, NothingLeft
  <2>3. QED
    BY <2>2
<1>10. SendInv(c)'
  <2>1. SendInv(c)
    BY <1>1 DEF ClientInv
  <2>2. \A j \in DOMAIN sq[c] : sq[c][j].op = "send" =>
          \A k \in DOMAIN cq'[c] : cq'[c][k].op # "send"
    BY <1>1, <2>1 DEF SendInv
  <2>3. \A j, k \in DOMAIN cq'[c] : cq'[c][j].op = "send" /\ cq'[c][k].op = "send" => k = j
    <3>1. TAKE j, k \in DOMAIN cq'[c]
    <3>2. HAVE cq'[c][j].op = "send" /\ cq'[c][k].op = "send"
    <3>3. k + 1 = j + 1
      BY <1>1, <2>1, <3>2 DEF SendInv
    <3>4. QED
      BY <1>1, <3>3
  <2>4. \A j \in DOMAIN cq'[c] : cq'[c][j].op = "send" =>
          /\ cq'[c][j].item = currentItem[c]
          /\ cq'[c][j].item.len > 0
          /\ cq'[c][j].res <= cq'[c][j].item.len
    BY <1>1, <2>1 DEF SendInv
  <2>5. \A j \in DOMAIN cq'[c] : cq'[c][j].op = "close" => cq'[c][j].res <= 0
    BY <1>1, <2>1 DEF SendInv
  <2>6. QED
    BY <1>2, <2>1, <2>2, <2>3, <2>4, <2>5 DEF SendInv
<1>11. QED
  BY <1>5, <1>7, <1>8, <1>9, <1>10 DEF Good, ClientInv

(* A step of the handshake submits the next request, or the close. *)
LEMMA ReapHandshake ==
  ASSUME NEW c, Reaping(c), event[c] \in HandshakeEvents,
         NEW ev \in HandshakeEvents \cup {"Disconnected"}, NEW op \in OpsOf(ev),
         Begin(c, ev, op, NoItem),
         UNCHANGED <<isDisconnected, sendVars, taken, pendingSubscriptions>>,
         intent' \in [Clients -> Nat], nameReads' \in [Clients -> Nat],
         \A d \in Clients \ {c} : nameReads'[d] = nameReads[d],
         NameInv(c)', ev = "Disconnected" => ~NameComplete(c)'
  PROVE  Good(c)
<1> DEFINE r == [op |-> op, item |-> NoItem]
<1>1. /\ c \in Clients /\ c \in clients /\ clients' = clients /\ ClientInv(c) /\ ConnTypeOK
      /\ fdOpen'[c] = fdOpen[c] /\ isDisconnected \in [Clients -> BOOLEAN]
      /\ event[c] \in HandshakeEvents
  BY ReapedProps
<1>2. /\ sq[c] = <<>> /\ Len(sq[c]) = 0 /\ Len(cq'[c]) = 0
      /\ DOMAIN sq[c] = {} /\ DOMAIN cq'[c] = {}
  BY NothingLeft
<1>3. ev \in Events /\ op \in Ops /\ NoItem \in Item /\ op # "send"
  BY DEF Events, HandshakeEvents, OpsOf, Ops, Item, NoItem
<1>4. /\ event' \in [Clients -> Events] /\ sq' \in [Clients -> Seq(Request)]
      /\ event'[c] = ev /\ Len(sq'[c]) = 1
      /\ \A j \in DOMAIN sq'[c] : j = 1 /\ sq'[c][j] = r
      /\ \A d \in Clients \ {c} : event'[d] = event[d] /\ sq'[d] = sq[d]
  <2>1. /\ event' \in [Clients -> Events] /\ sq' \in [Clients -> Seq(Request)]
        /\ event'[c] = ev /\ Len(sq'[c]) = Len(sq[c]) + 1
        /\ \A j \in DOMAIN sq'[c] : \/ j \in DOMAIN sq[c] /\ sq'[c][j] = sq[c][j]
                                    \/ j = Len(sq[c]) + 1 /\ sq'[c][j] = r
        /\ \A d \in Clients \ {c} : event'[d] = event[d] /\ sq'[d] = sq[d]
    BY <1>1, <1>3, BeginProps
  <2>2. QED
    BY <1>2, <2>1
<1>5. r.op = op
  OBVIOUS
<1> HIDE DEF r
<1>6. /\ isDisconnected' = isDisconnected /\ currentItem' = currentItem
      /\ pendingItems' = pendingItems /\ taken' = taken
      /\ pendingSubscriptions' = pendingSubscriptions
  BY DEF sendVars
<1>7. Typed /\ OthersKept(c)
  BY <1>4, <1>6, ReapedProps DEF Typed, OthersKept
<1>8. /\ ~HasContent(c) /\ fdOpen[c] /\ ~isDisconnected[c]
  <2>1. EventInv(c) /\ event[c] # "Disconnected"
    BY <1>1 DEF ClientInv, HandshakeEvents
  <2>2. QED
    BY <1>1, <2>1 DEF EventInv
<1>9. BacklogInv(c)' /\ ~HasContent(c)'
  BY <1>1, <1>6, <1>8 DEF ClientInv, BacklogInv, HasContent
<1>10. EventInv(c)'
  <2>1. ev # "NotSet" /\ ev # "SendData"
    BY DEF HandshakeEvents
  <2>2. ev \in {"Ready", "SendData", "Disconnected"} => op = "close"
    BY DEF HandshakeEvents, OpsOf
  <2>3. QED
    BY <1>1, <1>2, <1>4, <1>5, <1>6, <1>8, <1>9, <2>1, <2>2 DEF EventInv
<1>11. RequestInv(c)'
  BY <1>2, <1>4, <1>5 DEF RequestInv
<1>12. SendInv(c)'
  BY <1>2, <1>3, <1>4, <1>5 DEF SendInv
<1>13. QED
  BY <1>7, <1>9, <1>10, <1>11, <1>12 DEF Good, ClientInv

(* The acknowledgment was sent: the handler is ready, with nothing        *)
(* outstanding.                                                            *)
LEMMA ReapSendAck ==
  ASSUME NEW c, Reaping(c), NEW res, OnSendAckComplete(c, res), UNCHANGED sendVars
  PROVE  Good(c)
<1>1. /\ event[c] = "SendAck" /\ event' = [event EXCEPT ![c] = "Ready"]
      /\ UNCHANGED <<sq, isDisconnected, handshakeVars>>
      /\ taken' = {p.sub : p \in {q \in pendingSubscriptions : q.name = ClientName(c)}}
      /\ pendingSubscriptions' = {IF p.name = ClientName(c) THEN MovedFrom ELSE p :
                                    p \in pendingSubscriptions}
  BY DEF OnSendAckComplete
<1>2. /\ c \in Clients /\ c \in clients /\ clients' = clients /\ ClientInv(c)
      /\ fdOpen'[c] = fdOpen[c] /\ event \in [Clients -> Events]
      /\ nameReads \in [Clients -> Nat]
      /\ pendingSubscriptions \in SUBSET PendingSubscription
  BY ReapedProps
<1>3. /\ sq' = sq /\ isDisconnected' = isDisconnected /\ nameReads' = nameReads
      /\ intent' = intent /\ currentItem' = currentItem /\ pendingItems' = pendingItems
  BY <1>1 DEF handshakeVars, sendVars
<1>4. event[c] \in HandshakeEvents
  BY <1>1 DEF HandshakeEvents
<1>5. Len(sq[c]) = 0 /\ Len(cq'[c]) = 0 /\ DOMAIN sq[c] = {} /\ DOMAIN cq'[c] = {}
  BY <1>4, NothingLeft
<1>6. NameComplete(c) /\ NameInv(c) /\ EventInv(c) /\ BacklogInv(c)
  BY <1>1, <1>2 DEF ClientInv, NameInv
<1>7. ClientName(c) \in Names
  <2>1. NameReads[c] \in Seq(Names) /\ NameReads[c] # <<>>
    BY <1>2, HandlerAssumption
  <2>2. nameReads[c] = Len(NameReads[c]) /\ Len(NameReads[c]) \in Nat /\ Len(NameReads[c]) # 0
    BY <1>6, <2>1, EmptySeq, LenProperties DEF NameComplete
  <2>3. \A n \in Nat : n # 0 => n \in 1 .. n
    OBVIOUS
  <2>4. nameReads[c] \in 1 .. Len(NameReads[c]) /\ nameReads[c] # 0
    BY <2>2, <2>3
  <2>5. NameReads[c][nameReads[c]] \in Names
    BY <2>1, <2>4, ElementOfSeq
  <2>6. QED
    BY <2>4, <2>5 DEF ClientName
<1>8. taken' \in SUBSET Subs
  <2>1. ASSUME NEW p \in pendingSubscriptions, p.name = ClientName(c) PROVE p.sub \in Subs
    <3>1. p \in PendingSubscription /\ p.name # EmptyName
      BY <1>2, <1>7, <2>1, HandlerAssumption
    <3>2. p \in [name : Names, sub : Subs]
      BY <3>1 DEF PendingSubscription, MovedFrom
    <3>3. QED
      BY <3>2
  <2>2. QED
    BY <1>1, <2>1
<1>9. pendingSubscriptions' \in SUBSET PendingSubscription
  <2>1. ASSUME NEW p \in pendingSubscriptions
        PROVE  (IF p.name = ClientName(c) THEN MovedFrom ELSE p) \in PendingSubscription
    BY <1>2 DEF PendingSubscription
  <2>2. QED
    BY <1>1, <2>1
<1>10. /\ event' \in [Clients -> Events] /\ event'[c] = "Ready"
       /\ \A d \in Clients \ {c} : event'[d] = event[d]
  BY <1>1, <1>2 DEF Events
<1>11. Typed /\ OthersKept(c)
  BY <1>3, <1>8, <1>9, <1>10, ReapedProps DEF Typed, OthersKept
<1>12. (NameComplete(c)' <=> NameComplete(c)) /\ (HasContent(c)' <=> HasContent(c))
  BY <1>3 DEF NameComplete, HasContent
<1>13. ClientInv(c)'
  <2>1. NameInv(c)' /\ BacklogInv(c)'
    BY <1>3, <1>6, <1>10, <1>12 DEF NameInv, BacklogInv
  <2>2. EventInv(c)'
    BY <1>1, <1>2, <1>3, <1>4, <1>5, <1>6, <1>10, <1>12 DEF EventInv
  <2>3. RequestInv(c)' /\ SendInv(c)'
    BY <1>3, <1>5 DEF RequestInv, SendInv
  <2>4. QED
    BY <2>1, <2>2, <2>3 DEF ClientInv
<1>14. QED
  BY <1>11, <1>13 DEF Good

(* A send failed: the handler begins to close, keeping what it holds. *)
LEMMA ReapSendError ==
  ASSUME NEW c, Reaping(c), event[c] = "SendData", BeginDisconnect(c),
         UNCHANGED <<isDisconnected, handshakeVars, sendVars, taken, pendingSubscriptions>>
  PROVE  Good(c)
<1> DEFINE r == [op |-> "close", item |-> NoItem]
<1>1. /\ c \in Clients /\ c \in clients /\ clients' = clients /\ ClientInv(c) /\ ConnTypeOK
      /\ fdOpen'[c] = fdOpen[c] /\ isDisconnected \in [Clients -> BOOLEAN]
      /\ sq[c] \in Seq(Request) /\ cq[c] \in Seq(Completion)
      /\ \A j \in DOMAIN cq'[c] : j + 1 \in DOMAIN cq[c] /\ cq'[c][j] = cq[c][j + 1]
      /\ \A j \in DOMAIN cq'[c] : j \in Nat /\ j >= 1
  BY ReapedProps
<1>2. /\ event' \in [Clients -> Events] /\ sq' \in [Clients -> Seq(Request)]
      /\ event'[c] = "Disconnected" /\ Len(sq'[c]) = Len(sq[c]) + 1
      /\ \A j \in DOMAIN sq'[c] : \/ j \in DOMAIN sq[c] /\ sq'[c][j] = sq[c][j]
                                  \/ j = Len(sq[c]) + 1 /\ sq'[c][j] = r
      /\ \A d \in Clients \ {c} : event'[d] = event[d] /\ sq'[d] = sq[d]
  <2>1. "Disconnected" \in Events /\ "close" \in Ops /\ NoItem \in Item
    BY DEF Events, Ops, Item, NoItem
  <2>2. QED
    BY <1>1, <2>1, BeginProps DEF BeginDisconnect
<1>3. r.op = "close"
  OBVIOUS
<1> HIDE DEF r
<1>4. /\ isDisconnected' = isDisconnected /\ currentItem' = currentItem
      /\ pendingItems' = pendingItems /\ taken' = taken /\ nameReads' = nameReads
      /\ pendingSubscriptions' = pendingSubscriptions /\ intent' = intent
  BY DEF sendVars, handshakeVars
<1>5. Typed /\ OthersKept(c)
  BY <1>2, <1>4, ReapedProps DEF Typed, OthersKept
<1>6. (NameComplete(c)' <=> NameComplete(c)) /\ (HasContent(c)' <=> HasContent(c))
  BY <1>4 DEF NameComplete, HasContent
<1>7. NameInv(c) /\ EventInv(c) /\ SendInv(c) /\ BacklogInv(c) /\ HasContent(c)
  BY <1>1 DEF ClientInv, EventInv
<1>8. NameInv(c)' /\ BacklogInv(c)'
  BY <1>2, <1>4, <1>6, <1>7 DEF NameInv, BacklogInv
<1>9. EventInv(c)'
  BY <1>1, <1>2, <1>3, <1>4, <1>6, <1>7 DEF EventInv, HandshakeEvents
<1>10. RequestInv(c)'
  <2>1. SUFFICES ASSUME NameComplete(c)
        PROVE  /\ Len(sq'[c]) + Len(cq'[c]) <= 1
               /\ \A j \in DOMAIN sq'[c] : sq'[c][j].op \in OpsOf("Disconnected")
               /\ \A j \in DOMAIN cq'[c] : cq'[c][j].op \in OpsOf("Disconnected")
    BY <1>2, <1>6 DEF RequestInv, HandshakeEvents
  <2>2. Len(sq[c]) = 0 /\ Len(cq'[c]) = 0 /\ DOMAIN sq[c] = {} /\ DOMAIN cq'[c] = {}
    BY <2>1, NothingLeft
  <2>3. QED
    BY <1>2, <1>3, <2>2 DEF OpsOf
<1>11. SendInv(c)'
  <2>1. \A j \in DOMAIN sq'[c] : sq'[c][j].op = "send" =>
          j \in DOMAIN sq[c] /\ sq'[c][j] = sq[c][j]
    BY <1>2, <1>3
  <2>2. \A j, k \in DOMAIN cq'[c] : cq'[c][j].op = "send" /\ cq'[c][k].op = "send" => k = j
    <3>1. TAKE j, k \in DOMAIN cq'[c]
    <3>2. HAVE cq'[c][j].op = "send" /\ cq'[c][k].op = "send"
    <3>3. k + 1 = j + 1
      BY <1>1, <1>7, <3>2 DEF SendInv
    <3>4. QED
      BY <1>1, <3>3
  <2>3. QED
    BY <1>1, <1>4, <1>7, <2>1, <2>2 DEF SendInv
<1>12. QED
  BY <1>5, <1>8, <1>9, <1>10, <1>11 DEF Good, ClientInv

(* A positive result is that of the send, which is the only one and took   *)
(* no more than was left of currentItem: nothing underflows.               *)
LEMMA SendResult ==
  ASSUME NEW c, Reaping(c), event[c] = "SendData", Head(cq[c]).res > 0
  PROVE  /\ \A j \in DOMAIN sq[c] : sq[c][j].op = "close"
         /\ \A j \in DOMAIN cq'[c] : cq'[c][j].op = "close" /\ cq'[c][j].res <= 0
         /\ Head(cq[c]).res \in Nat
         /\ Head(cq[c]).res <= currentItem[c].len
         /\ currentItem[c] \in Item
<1> DEFINE h == Head(cq[c])
<1>1. /\ c \in Clients /\ ClientInv(c) /\ currentItem[c] \in Item
      /\ h = cq[c][1] /\ 1 \in DOMAIN cq[c] /\ h \in Completion
      /\ \A j \in DOMAIN cq'[c] : j + 1 \in DOMAIN cq[c] /\ cq'[c][j] = cq[c][j + 1]
      /\ \A j \in DOMAIN cq'[c] : j \in Nat /\ j >= 1
  BY ReapedProps
<1> HIDE DEF h
<1>2. /\ \A j \in DOMAIN sq[c] : sq[c][j].op \in {"send", "close"}
      /\ \A j \in DOMAIN cq[c] : cq[c][j].op \in {"send", "close"}
  BY <1>1 DEF ClientInv, EventInv
<1>3. h.res \in Int /\ h.res > 0
  BY <1>1 DEF Completion, h
<1>4. h.op = "send"
  <2>1. h.op \in {"send", "close"}
    BY <1>1, <1>2
  <2>2. h.op = "close" => h.res <= 0
    BY <1>1 DEF ClientInv, SendInv
  <2>3. QED
    BY <1>3, <2>1, <2>2
<1>5. SendInv(c)
  BY <1>1 DEF ClientInv
<1>6. /\ h.item = currentItem[c] /\ h.res <= h.item.len
      /\ \A j \in DOMAIN cq[c] : cq[c][j].op = "send" => j = 1
  BY <1>1, <1>4, <1>5 DEF SendInv
<1>7. \A j \in DOMAIN sq[c] : sq[c][j].op # "send"
  BY <1>1, <1>4, <1>5 DEF SendInv
<1>8. \A j \in DOMAIN cq'[c] : cq'[c][j].op # "send"
  <2>1. TAKE j \in DOMAIN cq'[c]
  <2>2. SUFFICES ASSUME cq'[c][j].op = "send" PROVE FALSE
    OBVIOUS
  <2>3. j + 1 = 1
    BY <1>1, <1>6, <2>2
  <2>4. QED
    BY <1>1, <2>3
<1>9. \A j \in DOMAIN cq'[c] : cq'[c][j].op = "close" /\ cq'[c][j].res <= 0
  BY <1>1, <1>2, <1>5, <1>8 DEF SendInv
<1>10. QED
  BY <1>1, <1>2, <1>3, <1>6, <1>7, <1>9 DEF h

(* Bytes were taken: what is left of the batch is sent, or the next batch  *)
(* of the backlog, or the handler is ready.                                *)
LEMMA ReapSendTaken ==
  ASSUME NEW c, Reaping(c), Head(cq[c]).res > 0,
         OnSendCurrentMessageComplete(c, Head(cq[c]).res),
         UNCHANGED <<taken, pendingSubscriptions>>
  PROVE  Good(c)
<1> DEFINE res == Head(cq[c]).res
           rest == Advance(currentItem[c], res)
<1>1. /\ c \in Clients /\ c \in clients /\ clients' = clients /\ ClientInv(c) /\ ConnTypeOK
      /\ fdOpen'[c] = fdOpen[c] /\ isDisconnected \in [Clients -> BOOLEAN]
      /\ sq[c] \in Seq(Request) /\ cq'[c] \in Seq(Completion)
      /\ event \in [Clients -> Events] /\ sq \in [Clients -> Seq(Request)]
      /\ currentItem \in [Clients -> Item] /\ pendingItems \in [Clients -> Seq(Item)]
  BY ReapedProps
<1>2. /\ event[c] = "SendData" /\ UNCHANGED <<isDisconnected, handshakeVars>>
      /\ IF rest.len = 0 THEN SentAll(c)
         ELSE SendCurrentMessage(c, rest) /\ UNCHANGED pendingItems
  <2>1. res > 0 => ~(res < 0) /\ res # 0
    BY SendResult DEF OnSendCurrentMessageComplete
  <2>2. QED
    BY <2>1 DEF OnSendCurrentMessageComplete
<1>3. /\ \A j \in DOMAIN sq[c] : sq[c][j].op = "close"
      /\ \A j \in DOMAIN cq'[c] : cq'[c][j].op = "close" /\ cq'[c][j].res <= 0
      /\ res \in Nat /\ res <= currentItem[c].len /\ currentItem[c] \in Item
  BY <1>2, SendResult
<1>4. rest \in Item
  <2> HIDE DEF res
  <2>1. /\ currentItem[c].pos + res \in Nat /\ currentItem[c].len - res \in Nat
    BY <1>3 DEF Item
  <2>2. QED
    BY <1>3, <2>1 DEF Advance, Item
<1> HIDE DEF res, rest
<1>5. /\ isDisconnected' = isDisconnected /\ nameReads' = nameReads /\ intent' = intent
      /\ taken' = taken /\ pendingSubscriptions' = pendingSubscriptions
  BY <1>2 DEF handshakeVars
<1>6. ~isDisconnected[c] /\ NameInv(c) /\ EventInv(c) /\ BacklogInv(c)
  BY <1>1, <1>2 DEF ClientInv, EventInv
<1>7. NameComplete(c) => Len(sq[c]) = 0 /\ Len(cq'[c]) = 0
  BY NothingLeft
<1>8. ASSUME NEW item \in Item, item.len > 0, SendCurrentMessage(c, item),
             pendingItems' \in [Clients -> Seq(Item)],
             \A i \in DOMAIN pendingItems'[c] : pendingItems'[c][i].len > 0,
             \A d \in Clients \ {c} : pendingItems'[d] = pendingItems[d]
      PROVE  Good(c)
  <2>1. /\ event' \in [Clients -> Events] /\ sq' \in [Clients -> Seq(Request)]
        /\ event'[c] = "SendData"
        /\ sq'[c] = Append(sq[c], [op |-> "send", item |-> item])
        /\ \A d \in Clients \ {c} : event'[d] = event[d] /\ sq'[d] = sq[d]
    <3>1. "SendData" \in Events /\ "send" \in Ops
      BY DEF Events, Ops
    <3>2. QED
      BY <1>1, <1>8, <3>1, BeginProps DEF SendCurrentMessage
  <2>2. /\ currentItem' \in [Clients -> Item] /\ currentItem'[c] = item
        /\ \A d \in Clients \ {c} : currentItem'[d] = currentItem[d]
    BY <1>1, <1>8 DEF SendCurrentMessage
  <2>3. Typed /\ OthersKept(c)
    BY <1>5, <1>8, <2>1, <2>2, ReapedProps DEF Typed, OthersKept
  <2>4. ClientInv(c)'
    BY <1>1, <1>2, <1>3, <1>5, <1>6, <1>7, <1>8, <2>1, <2>2, BeginSend
  <2>5. QED
    BY <2>3, <2>4 DEF Good
<1>9. CASE rest.len # 0
  <2>1. rest.len > 0
    BY <1>4, <1>9 DEF Item
  <2>2. SendCurrentMessage(c, rest) /\ pendingItems' = pendingItems
    BY <1>2, <1>9
  <2>3. QED
    BY <1>1, <1>4, <1>6, <1>8, <2>1, <2>2 DEF BacklogInv
<1>10. CASE rest.len = 0 /\ pendingItems[c] # <<>>
  <2> DEFINE next == Head(pendingItems[c])
  <2>1. pendingItems[c] \in Seq(Item)
    BY <1>1
  <2>2. /\ next \in Item /\ next = pendingItems[c][1] /\ 1 \in DOMAIN pendingItems[c]
        /\ Tail(pendingItems[c]) \in Seq(Item)
        /\ \A j \in DOMAIN Tail(pendingItems[c]) :
             /\ j + 1 \in DOMAIN pendingItems[c]
             /\ Tail(pendingItems[c])[j] = pendingItems[c][j + 1]
    BY <1>10, <2>1, TailProps
  <2>3. next.len > 0
    BY <1>6, <2>2 DEF BacklogInv
  <2>4. /\ pendingItems' = [pendingItems EXCEPT ![c] = Tail(@)]
        /\ SendCurrentMessage(c, next)
    BY <1>2, <1>10, <2>3 DEF SentAll, SendNextPendingMessageBatch
  <2> HIDE DEF next
  <2>5. pendingItems'[c] = Tail(pendingItems[c]) /\ pendingItems' \in [Clients -> Seq(Item)]
        /\ \A d \in Clients \ {c} : pendingItems'[d] = pendingItems[d]
    BY <1>1, <2>2, <2>4
  <2>6. \A i \in DOMAIN pendingItems'[c] : pendingItems'[c][i].len > 0
    BY <1>6, <2>2, <2>5 DEF BacklogInv
  <2>7. QED
    BY <1>8, <2>2, <2>3, <2>4, <2>5, <2>6
<1>11. CASE rest.len = 0 /\ pendingItems[c] = <<>>
  <2>1. /\ currentItem' = [currentItem EXCEPT ![c] = NoItem]
        /\ event' = [event EXCEPT ![c] = "Ready"]
        /\ sq' = sq /\ pendingItems' = pendingItems
    BY <1>2, <1>11 DEF SentAll
  <2>2. /\ currentItem' \in [Clients -> Item] /\ currentItem'[c] = NoItem
        /\ event' \in [Clients -> Events] /\ event'[c] = "Ready"
        /\ \A d \in Clients \ {c} : currentItem'[d] = currentItem[d] /\ event'[d] = event[d]
    BY <1>1, <2>1 DEF Item, NoItem, Events
  <2>3. Typed /\ OthersKept(c)
    BY <1>1, <1>5, <2>1, <2>2, ReapedProps DEF Typed, OthersKept
  <2>4. ~HasContent(c)' /\ (NameComplete(c)' <=> NameComplete(c))
    BY <1>5, <2>2 DEF HasContent, NoItem, NameComplete
  <2>5. NameInv(c)' /\ BacklogInv(c)'
    <3>1. pendingItems'[c] = pendingItems[c] /\ pendingItems[c] = <<>>
      BY <1>11, <2>1
    <3>2. BacklogInv(c)'
      BY <1>6, <3>1 DEF BacklogInv
    <3>3. NameInv(c)'
      BY <1>5, <1>6, <2>2, <2>4 DEF NameInv
    <3>4. QED
      BY <3>2, <3>3
  <2>6. EventInv(c)'
    BY <1>1, <1>2, <1>3, <1>5, <1>6, <2>1, <2>2, <2>4 DEF EventInv, HandshakeEvents
  <2>7. RequestInv(c)'
    <3>1. ASSUME NameComplete(c)
          PROVE  /\ Len(sq[c]) + Len(cq'[c]) <= 1
                 /\ DOMAIN sq[c] = {} /\ DOMAIN cq'[c] = {}
      <4>1. Len(sq[c]) = 0 /\ Len(cq'[c]) = 0 /\ DOMAIN sq[c] = {} /\ DOMAIN cq'[c] = {}
        BY <3>1, NothingLeft
      <4>2. QED
        BY <4>1
    <3>2. QED
      BY <2>1, <2>2, <2>4, <3>1 DEF RequestInv, HandshakeEvents
  <2>8. SendInv(c)'
    BY <1>3, <2>1 DEF SendInv
  <2>9. QED
    BY <2>3, <2>5, <2>6, <2>7, <2>8 DEF Good, ClientInv
<1>12. QED
  BY <1>9, <1>10, <1>11

(* A step of the handshake that leaves the name as it was. *)
LEMMA HandshakeContinues ==
  ASSUME NEW c, Reaping(c),
         event[c] \in {"SetNonblockingPublisher", "ReceiveIntent", "ReceiveName"},
         NEW ev \in {"Disconnected", "ReceiveIntent", "ReceiveName"}, NEW op \in OpsOf(ev),
         Begin(c, ev, op, NoItem),
         UNCHANGED <<isDisconnected, sendVars, taken, pendingSubscriptions, nameReads>>,
         intent' \in [Clients -> Nat]
  PROVE  Good(c)
<1>1. /\ c \in Clients /\ ClientInv(c) /\ event \in [Clients -> Events]
      /\ nameReads \in [Clients -> Nat]
  BY ReapedProps
<1>2. NameInv(c) /\ ~NameComplete(c)
  BY <1>1 DEF ClientInv, NameInv
<1>3. event'[c] = ev /\ nameReads' = nameReads
  BY <1>1 DEF Begin
<1>4. NameInv(c)' /\ ~NameComplete(c)'
  BY <1>2, <1>3 DEF NameInv, NameComplete
<1>5. event[c] \in HandshakeEvents /\ ev \in HandshakeEvents \cup {"Disconnected"}
  BY DEF HandshakeEvents
<1>6. /\ nameReads' \in [Clients -> Nat]
      /\ \A d \in Clients \ {c} : nameReads'[d] = nameReads[d]
      /\ UNCHANGED <<isDisconnected, sendVars, taken, pendingSubscriptions>>
  BY <1>1, <1>3
<1>7. QED
  BY <1>4, <1>5, <1>6, ReapHandshake

(* Any completion of a client, whatever its handler makes of it. *)
LEMMA ReapGood ==
  ASSUME NEW c, Reaping(c), PollClient(c)
  PROVE  Good(c)
<1> DEFINE res == Head(cq[c]).res
<1>1. res \in Int /\ ClientInv(c) /\ ConnTypeOK /\ c \in Clients
      /\ nameReads \in [Clients -> Nat] /\ intent \in [Clients -> Nat]
  BY ReapedProps DEF Completion
<1>2. CASE UNCHANGED <<event, sq, isDisconnected, handshakeVars, sendVars,
                       taken, pendingSubscriptions>>
  BY <1>2, ReapQuiet
<1>3. CASE HandleEvent(c, res)
  <2>1. CASE isDisconnected[c]
    BY <1>2, <1>3, <2>1 DEF HandleEvent
  <2>2. CASE ~isDisconnected[c] /\ OnMakeNonblockingSocketComplete(c, res)
             /\ UNCHANGED <<sendVars, taken, pendingSubscriptions>>
    <3>1. NameInv(c) /\ event[c] = "SetNonblockingPublisher"
          /\ UNCHANGED <<isDisconnected, handshakeVars>>
      BY <1>1, <2>2 DEF ClientInv, OnMakeNonblockingSocketComplete
    <3>2. \E ev \in {"Disconnected", "ReceiveIntent"} : \E op \in OpsOf(ev) : Begin(c, ev, op, NoItem)
      BY <2>2 DEF OnMakeNonblockingSocketComplete, BeginDisconnect, BeginReceiveIntent, OpsOf
    <3>3. PICK ev \in {"Disconnected", "ReceiveIntent"} :
            \E op \in OpsOf(ev) : Begin(c, ev, op, NoItem)
      BY <3>2
    <3>4. PICK op \in OpsOf(ev) : Begin(c, ev, op, NoItem)
      BY <3>3
    <3>5. QED
      BY <1>1, <2>2, <3>1, <3>4, HandshakeContinues DEF HandshakeEvents, handshakeVars
  <2>3. CASE ~isDisconnected[c] /\ OnIntentReceived(c, res)
             /\ UNCHANGED <<sendVars, taken, pendingSubscriptions>>
    <3>1. event[c] = "ReceiveIntent" /\ UNCHANGED <<isDisconnected, nameReads>>
      BY <2>3 DEF OnIntentReceived
    <3>2. CASE res = 0 /\ NoRequest /\ UNCHANGED intent
      BY <2>3, <3>1, <3>2, ReapQuiet DEF NoRequest, handshakeVars
    <3>3. CASE ~(res = 0 /\ NoRequest /\ UNCHANGED intent)
      <4>1. \E ev \in {"Disconnected", "ReceiveIntent", "ReceiveName"} :
              \E op \in OpsOf(ev) : Begin(c, ev, op, NoItem)
        BY <2>3, <3>3 DEF OnIntentReceived, BeginDisconnect, BeginReceiveIntent,
                          BeginReceiveName, OpsOf
      <4>2. intent' \in [Clients -> Nat]
        <5>1. res > 0 => intent[c] + res \in Nat
          BY <1>1
        <5>2. CASE UNCHANGED intent
          BY <1>1, <5>2
        <5>3. CASE res > 0 /\ intent' = [intent EXCEPT ![c] = intent[c] + res]
          BY <1>1, <5>1, <5>3
        <5>4. QED
          BY <2>3, <5>2, <5>3 DEF OnIntentReceived
      <4>3. PICK ev \in {"Disconnected", "ReceiveIntent", "ReceiveName"} :
              \E op \in OpsOf(ev) : Begin(c, ev, op, NoItem)
        BY <4>1
      <4>4. PICK op \in OpsOf(ev) : Begin(c, ev, op, NoItem)
        BY <4>3
      <4>5. QED
        BY <1>1, <2>3, <3>1, <4>2, <4>4, HandshakeContinues DEF HandshakeEvents
    <3>4. QED
      BY <3>2, <3>3
  <2>4. CASE ~isDisconnected[c] /\ OnReceiveNameComplete(c, res)
             /\ UNCHANGED <<sendVars, taken, pendingSubscriptions>>
    <3>1. event[c] = "ReceiveName" /\ UNCHANGED <<isDisconnected, intent>>
      BY <2>4 DEF OnReceiveNameComplete
    <3>2. CASE res = 0 /\ NoRequest /\ UNCHANGED nameReads
      BY <2>4, <3>1, <3>2, ReapQuiet DEF NoRequest, handshakeVars
    <3>3. CASE res < 0 /\ BeginDisconnect(c) /\ UNCHANGED nameReads
      <4>1. Begin(c, "Disconnected", "close", NoItem) /\ "close" \in OpsOf("Disconnected")
        BY <3>3 DEF BeginDisconnect, OpsOf
      <4>2. QED
        BY <1>1, <2>4, <3>1, <3>3, <4>1, HandshakeContinues DEF HandshakeEvents
    <3>4. CASE /\ res > 0
               /\ nameReads' = [nameReads EXCEPT ![c] = @ + 1]
               /\ IF nameReads[c] + 1 = Len(NameReads[c])
                  THEN BeginSendAck(c) ELSE BeginReceiveName(c)
      <4>1. NameReads[c] \in Seq(Names) /\ Len(NameReads[c]) \in Nat
        BY <1>1, HandlerAssumption, LenProperties
      <4>2. nameReads[c] \in Nat /\ nameReads[c] <= Len(NameReads[c])
            /\ nameReads[c] # Len(NameReads[c])
        BY <1>1, <3>1 DEF ClientInv, NameInv, NameComplete
      <4>3. nameReads[c] + 1 \in Nat /\ nameReads[c] + 1 <= Len(NameReads[c])
        BY <4>1, <4>2
      <4>4. nameReads' \in [Clients -> Nat] /\ nameReads'[c] = nameReads[c] + 1
            /\ \A d \in Clients \ {c} : nameReads'[d] = nameReads[d]
        BY <1>1, <3>4, <4>3
      <4>5. intent' \in [Clients -> Nat]
        BY <1>1, <3>1
      <4>6. event \in [Clients -> Events] /\ event[c] \in HandshakeEvents
        BY <1>1, <3>1 DEF ConnTypeOK, HandshakeEvents
      <4>7. CASE nameReads[c] + 1 = Len(NameReads[c])
        <5>1. Begin(c, "SendAck", "send_ack", NoItem) /\ "send_ack" \in OpsOf("SendAck")
          BY <3>4, <4>7 DEF BeginSendAck, OpsOf
        <5>2. event'[c] = "SendAck"
          BY <1>1, <4>6, <5>1 DEF Begin
        <5>3. NameInv(c)'
          BY <4>3, <4>4, <4>7, <5>2 DEF NameInv, NameComplete
        <5>4. QED
          BY <2>4, <3>1, <4>4, <4>5, <4>6, <5>1, <5>3, ReapHandshake DEF HandshakeEvents
      <4>8. CASE nameReads[c] + 1 # Len(NameReads[c])
        <5>1. Begin(c, "ReceiveName", "recv_name", NoItem) /\ "recv_name" \in OpsOf("ReceiveName")
          BY <3>4, <4>8 DEF BeginReceiveName, OpsOf
        <5>2. event'[c] = "ReceiveName"
          BY <1>1, <4>6, <5>1 DEF Begin
        <5>3. NameInv(c)'
          BY <4>3, <4>4, <4>8, <5>2 DEF NameInv, NameComplete
        <5>4. QED
          BY <2>4, <3>1, <4>4, <4>5, <4>6, <5>1, <5>3, ReapHandshake DEF HandshakeEvents
      <4>9. QED
        BY <4>7, <4>8
    <3>5. QED
      BY <2>4, <3>2, <3>3, <3>4 DEF OnReceiveNameComplete
  <2>5. CASE ~isDisconnected[c] /\ OnDisconnected(c, res)
             /\ UNCHANGED <<sendVars, taken, pendingSubscriptions>>
    BY <2>5, ReapQuiet DEF OnDisconnected, NoRequest
  <2>6. CASE ~isDisconnected[c] /\ NoRequest /\ UNCHANGED <<isDisconnected, handshakeVars>>
             /\ UNCHANGED <<sendVars, taken, pendingSubscriptions>>
    BY <2>6, ReapQuiet DEF NoRequest
  <2>7. CASE ~isDisconnected[c] /\ OnSendCurrentMessageComplete(c, res)
             /\ UNCHANGED <<taken, pendingSubscriptions>>
    <3>1. event[c] = "SendData" /\ UNCHANGED <<isDisconnected, handshakeVars>>
      BY <2>7 DEF OnSendCurrentMessageComplete
    <3>2. CASE res = 0 /\ NoRequest /\ UNCHANGED sendVars
      BY <2>7, <3>1, <3>2, ReapQuiet DEF NoRequest
    <3>3. CASE res < 0 /\ BeginDisconnect(c) /\ UNCHANGED sendVars
      BY <2>7, <3>1, <3>3, ReapSendError
    <3>4. CASE res > 0
      BY <2>7, <3>4, ReapSendTaken
    <3>5. QED
      BY <2>7, <3>2, <3>3, <3>4 DEF OnSendCurrentMessageComplete
  <2>8. CASE ~isDisconnected[c] /\ OnSendAckComplete(c, res) /\ UNCHANGED sendVars
    BY <2>8, ReapSendAck
  <2>9. QED
    BY <1>3, <2>1, <2>2, <2>3, <2>4, <2>5, <2>6, <2>7, <2>8 DEF HandleEvent
<1>4. QED
  BY <1>2, <1>3 DEF PollClient

(* A completion of a client is reaped and handled. *)
LEMMA PollClientStep ==
  ASSUME IInv, NEW c \in clients, PollClient(c), UNCHANGED commandVars
  PROVE  IInv'
<1>1. Reaping(c)
  BY DEF PollClient, Reaping
<1>2. Good(c)
  BY <1>1, ReapGood
<1>3. /\ TypeOK /\ QueueTypeOK /\ ServerTypeOK /\ CommandTypeOK /\ ConnTypeOK /\ SubTypeOK
      /\ \A d \in Clients : ClientInv(d)
  BY DEF IInv, TypeOK
<1>4. c \in Clients /\ clients' = clients /\ cq' \in [Clients -> Seq(Completion)]
      /\ fdOpen' = fdOpen /\ cq \in [Clients -> Seq(Completion)]
  BY <1>1, ReapedProps
<1>5. ASSUME NEW d \in Clients, d # c PROVE ClientInv(d)'
  <2>1. cq'[d] = cq[d]
    BY <1>1, <1>4, <1>5 DEF Reaping
  <2>2. QED
    BY <1>2, <1>3, <1>4, <1>5, <2>1, ClientFrame DEF Good, OthersKept
<1>6. TypeOK'
  <2>1. ConnTypeOK'
    BY <1>2, <1>3, <1>4 DEF Good, Typed, ConnTypeOK
  <2>2. SubTypeOK'
    BY <1>1, <1>2, <1>3 DEF Good, Typed, SubTypeOK, Reaping
  <2>3. ServerTypeOK'
    BY <1>1, <1>3, <1>4 DEF ServerTypeOK, PollClient
  <2>4. QED
    BY <1>1, <1>3, <2>1, <2>2, <2>3, TypesUnchanged DEF TypeOK, Reaping
<1>7. GateInv'
  BY DEF PollClient, GateInv
<1>8. QED
  BY <1>2, <1>5, <1>6, <1>7 DEF IInv, Good
-------------------------------------------------------------------------------
(* Every step, by the thread that takes it, keeps IInv.                    *)
LEMMA NextIInv == IInv /\ [Next]_vars => IInv'
<1> SUFFICES ASSUME IInv, [Next]_vars PROVE IInv'
  OBVIOUS
<1>1. CASE UNCHANGED vars
  <2>1. /\ UNCHANGED <<queueVars, connVars, subVars, serverVars, commandVars>>
        /\ TypeOK /\ GateInv
    BY <1>1 DEF vars, IInv
  <2>2. TypeOK'
    BY <2>1, TypesUnchanged DEF TypeOK
  <2>3. GateInv'
    BY <2>1 DEF GateInv, serverVars, connVars
  <2>4. UNCHANGED <<connVars, sendVars, clients>>
    BY <2>1 DEF subVars, sendVars, serverVars
  <2>5. QED
    BY <2>2, <2>3, <2>4, QuietStep
<1>2. CASE PublisherThread
  BY <1>2, PublisherStep
<1>3. CASE CommandThread
  BY <1>3, CommandStep
<1>4. ASSUME NEW c \in Clients, KernelStep(c) PROVE IInv'
  BY <1>4, KernelStepIInv
<1>5. CASE SubscriberThread /\ UNCHANGED commandVars
  <2>1. CASE QuietThread
    BY <1>5, <2>1, QuietThreadStep
  <2>2. ASSUME NEW c \in Clients, OnAcceptConnectionComplete(c) PROVE IInv'
    BY <1>5, <2>2, AcceptStep
  <2>3. ASSUME NEW c \in clients, PollClient(c) PROVE IInv'
    BY <1>5, <2>3, PollClientStep
  <2>4. CASE FanOut
    BY <1>5, <2>4, FanOutStep
  <2>5. QED
    BY <1>5, <2>1, <2>2, <2>3, <2>4 DEF SubscriberThread, QuietThread
<1>6. QED
  BY <1>1, <1>2, <1>3, <1>4, <1>5 DEF Next

(* In every state of every behaviour what `event` says of a handler agrees *)
(* with its requests, its batches and its descriptor.                      *)
THEOREM InductiveInvariant == Spec => []IInv
BY InitIInv, NextIInv, PTL DEF Spec

(* Every variable keeps its type; in particular no length of what is left  *)
(* to send ever wraps below zero, whatever part of a batch a send takes.   *)
THEOREM TypeCorrect == Spec => []TypeOK
<1>1. IInv => TypeOK
  BY DEF IInv
<1>2. QED
  BY <1>1, InductiveInvariant, PTL

(* A handshaking or named client has at most one request outstanding, and  *)
(* `event` tells which one: no completion is taken for another's.          *)
THEOREM CompletionsAreUnderstood == Spec => []OneRequest
<1>1. IInv => OneRequest
  <2>1. SUFFICES ASSUME IInv, NEW c \in Clients, NameComplete(c) \/ event[c] \in HandshakeEvents
                 PROVE  /\ Len(sq[c]) + Len(cq[c]) <= 1
                        /\ \A q \in Outstanding(c) : q.op \in OpsOf(event[c])
    BY DEF OneRequest
  <2>2. RequestInv(c)
    BY <2>1 DEF IInv, ClientInv
  <2>3. ASSUME NEW q \in Outstanding(c) PROVE q.op \in OpsOf(event[c])
    <3>1. CASE \E i \in DOMAIN sq[c] : q = sq[c][i]
      BY <2>1, <2>2, <3>1 DEF RequestInv
    <3>2. CASE \E i \in DOMAIN cq[c] : q = [op |-> cq[c][i].op, item |-> cq[c][i].item]
      <4>1. PICK i \in DOMAIN cq[c] : q = [op |-> cq[c][i].op, item |-> cq[c][i].item]
        BY <3>2
      <4>2. q.op = cq[c][i].op
        BY <4>1
      <4>3. QED
        BY <2>1, <2>2, <4>2 DEF RequestInv
    <3>3. QED
      BY <3>1, <3>2 DEF Outstanding
  <2>4. QED
    BY <2>1, <2>2, <2>3 DEF RequestInv
<1>2. QED
  BY <1>1, InductiveInvariant, PTL

(* The batch a send reads from stays in place until the send is reaped.    *)
THEOREM BuffersStayInPlace == Spec => []SendReadsCurrentItem
<1>1. IInv => SendReadsCurrentItem
  <2>1. SUFFICES ASSUME IInv, NEW c \in Clients, NEW q \in Outstanding(c), q.op = "send"
                 PROVE  q.item = currentItem[c] /\ q.item.len > 0
    BY DEF SendReadsCurrentItem
  <2>2. SendInv(c)
    BY <2>1 DEF IInv, ClientInv
  <2>3. QED
    BY <2>1, <2>2 DEF SendInv, Outstanding
<1>2. QED
  BY <1>1, InductiveInvariant, PTL

(* No backlog is left without a send that will come back to it. *)
THEOREM BacklogIsAttended == Spec => []BacklogHasSender
<1>1. IInv => BacklogHasSender
  BY DEF IInv, ClientInv, BacklogInv, BacklogHasSender
<1>2. QED
  BY <1>1, InductiveInvariant, PTL

(* A named client is never sent to on a closed descriptor. *)
THEOREM ClosedSocketsAreLeftAlone == Spec => []NoSendOnClosedSocket
<1>1. IInv => NoSendOnClosedSocket
  <2>1. SUFFICES ASSUME IInv, NEW c \in Clients, NameComplete(c),
                        NEW i \in DOMAIN sq[c], sq[c][i].op = "send"
                 PROVE  fdOpen[c]
    BY DEF NoSendOnClosedSocket
  <2>2. RequestInv(c) /\ EventInv(c)
    BY <2>1 DEF IInv, ClientInv
  <2>3. "send" \in OpsOf(event[c])
    BY <2>1, <2>2 DEF RequestInv
  <2>4. event[c] # "Disconnected"
    BY <2>3 DEF OpsOf
  <2>5. QED
    BY <2>1, <2>2, <2>4 DEF EventInv
<1>2. QED
  BY <1>1, InductiveInvariant, PTL

(* No batch is fanned out while a handshake is under way. *)
THEOREM GateHolds == Spec => []NoFanOutInHandshake
<1>1. IInv => NoFanOutInHandshake
  BY DEF IInv, GateInv, NoFanOutInHandshake
<1>2. QED
  BY <1>1, InductiveInvariant, PTL

(* A handler told that its connection is closed submits nothing more.      *)
THEOREM ClosedHandlersAreSilent == Spec => DisconnectedIsSilent
<1> DEFINE Silent(c) == isDisconnected[c] =>
                          isDisconnected'[c] /\ Len(sq'[c]) <= Len(sq[c])
<1>1. ASSUME IInv, Next, NEW c \in Clients, isDisconnected[c] PROVE Silent(c)
  <2>1. /\ isDisconnected \in [Clients -> BOOLEAN] /\ sq \in [Clients -> Seq(Request)]
        /\ event \in [Clients -> Events] /\ event[c] = "Disconnected"
        /\ clients \in SUBSET Clients /\ Len(sq[c]) \in Nat
    <3>1. ConnTypeOK /\ ServerTypeOK /\ EventInv(c)
      BY <1>1 DEF IInv, TypeOK, ClientInv
    <3>2. sq[c] \in Seq(Request)
      BY <3>1 DEF ConnTypeOK
    <3>3. QED
      BY <1>1, <3>1, <3>2, LenProperties DEF ConnTypeOK, ServerTypeOK, EventInv
  <2>2. CASE sq'[c] = sq[c] /\ isDisconnected'[c] = isDisconnected[c]
    BY <1>1, <2>1, <2>2
  <2>3. CASE PublisherThread \/ CommandThread
    BY <2>2, <2>3 DEF PublisherThread, CommandThread, connVars
  <2>4. ASSUME NEW d \in Clients, KernelStep(d) PROVE Silent(c)
    <3>1. PICK i \in DOMAIN sq[d] : /\ sq' = [sq EXCEPT ![d] = RemoveAt(@, i)]
                                    /\ isDisconnected' = isDisconnected
      BY <2>4 DEF KernelStep, Kernel, KernelCompletes
    <3>2. CASE d # c
      BY <2>1, <2>2, <3>1, <3>2
    <3>3. CASE d = c
      <4>1. sq[c] \in Seq(Request) /\ i \in DOMAIN sq[c]
        BY <2>1, <3>1, <3>3
      <4>2. Len(RemoveAt(sq[c], i)) = Len(sq[c]) - 1
        BY <4>1, RemoveAtProps
      <4>3. sq'[c] = RemoveAt(sq[c], i)
        BY <2>1, <3>1, <3>3
      <4>4. QED
        BY <1>1, <2>1, <3>1, <4>2, <4>3
    <3>4. QED
      BY <3>2, <3>3
  <2>5. CASE QuietThread
    <3>1. UNCHANGED connVars
      BY <2>5 DEF QuietThread, OnSetupListeningSocketComplete, OnAcceptConnectionFailed,
         FinishTake, PollTimeout, HandleTimeouts, WaitForData, DrainDone, Clear, threadVars
    <3>2. QED
      BY <2>2, <3>1 DEF connVars
  <2>6. ASSUME NEW d \in Clients, OnAcceptConnectionComplete(d) PROVE Silent(c)
    <3>1. /\ event[d] = "NotSet" /\ UNCHANGED isDisconnected
          /\ \E r : sq' = [sq EXCEPT ![d] = Append(@, r)]
      BY <2>6 DEF OnAcceptConnectionComplete, BeginMakeNonblockingSocket, Begin
    <3>2. d # c
      BY <2>1, <3>1
    <3>3. QED
      BY <2>1, <2>2, <3>1, <3>2
  <2>7. ASSUME NEW d \in clients, PollClient(d), UNCHANGED commandVars PROVE Silent(c)
    <3>1. CASE d = c
      <4>1. UNCHANGED <<sq, isDisconnected>>
        BY <1>1, <2>7, <3>1 DEF PollClient, HandleEvent
      <4>2. QED
        BY <2>2, <4>1
    <3>2. CASE d # c
      <4>1. Reaping(d)
        BY <1>1, <2>7 DEF PollClient, Reaping
      <4>2. OthersKept(d)
        BY <2>7, <4>1, ReapGood DEF Good
      <4>3. QED
        BY <2>2, <3>2, <4>2 DEF OthersKept
    <3>3. QED
      BY <3>1, <3>2
  <2>8. CASE FanOut
    <3>1. c \notin Receivers(Head(messageQueue))
      BY <1>1 DEF Receivers
    <3>2. /\ UNCHANGED isDisconnected
          /\ sq' = [e \in Clients |->
                      IF e \in {f \in Receivers(Head(messageQueue)) : ~HasContent(f)}
                      THEN Append(sq[e], [op |-> "send", item |-> ItemOf(Head(messageQueue))])
                      ELSE sq[e]]
      BY <2>8 DEF FanOut, PushMessageBatch
    <3>3. sq'[c] = sq[c]
      BY <3>1, <3>2
    <3>4. QED
      BY <2>2, <3>2, <3>3
  <2>9. QED
    BY <1>1, <2>3, <2>4, <2>5, <2>6, <2>7, <2>8 DEF Next, SubscriberThread, QuietThread
<1>2. ASSUME IInv, UNCHANGED vars, NEW c \in Clients, isDisconnected[c] PROVE Silent(c)
  <2>1. sq' = sq /\ isDisconnected' = isDisconnected
    BY <1>2 DEF vars, connVars
  <2>2. sq[c] \in Seq(Request)
    BY <1>2 DEF IInv, TypeOK, ConnTypeOK
  <2>3. QED
    BY <1>2, <2>1, <2>2, LenProperties
<1>3. IInv /\ [Next]_vars => [\A c \in Clients : Silent(c)]_vars
  BY <1>1, <1>2
<1>4. QED
  BY <1>3, InductiveInvariant, PTL DEF DisconnectedIsSilent, Spec
-------------------------------------------------------------------------------
(* The steps of the subscriber thread that run no handler touch no         *)
(* connection.                                                             *)
LEMMA QuietThreadKeeps == QuietThread => UNCHANGED <<connVars, sendVars, clients, wire>>
BY DEF QuietThread, OnSetupListeningSocketComplete, OnAcceptConnectionFailed, FinishTake,
       PollTimeout, HandleTimeouts, WaitForData, DrainDone, Clear, threadVars, subVars, sendVars

(* What a step may do to names and commands: both only grow.               *)
LEMMA NamesGrow ==
  ASSUME IInv, [Next]_vars, NEW c \in Clients
  PROVE  /\ nameReads[c] \in Nat /\ nameReads'[c] \in Nat
         /\ nameReads'[c] >= nameReads[c]
         /\ issued \subseteq issued'
<1>1. /\ nameReads \in [Clients -> Nat] /\ clients \in SUBSET Clients /\ IInv'
  BY NextIInv DEF IInv, TypeOK, ConnTypeOK, ServerTypeOK
<1>2. nameReads'[c] \in Nat
  BY <1>1 DEF IInv, TypeOK, ConnTypeOK
<1>3. nameReads[c] \in Nat
  BY <1>1
<1>4. issued \subseteq issued'
  <2>1. UNCHANGED commandVars \/ CommandThread
    BY DEF Next, PublisherThread, KernelStep, vars
  <2>2. QED
    BY <2>1 DEF commandVars, CommandThread, CommandReceived, VisitClient, FinishScan
<1>5. nameReads'[c] >= nameReads[c]
  <2>1. CASE UNCHANGED nameReads
    BY <1>3, <2>1
  <2>2. ASSUME NEW d \in Clients, PollClient(d) PROVE nameReads'[c] >= nameReads[c]
    <3>1. UNCHANGED nameReads \/ OnReceiveNameComplete(d, Head(cq[d]).res)
      BY <2>2 DEF PollClient, HandleEvent, handshakeVars, OnMakeNonblockingSocketComplete,
         OnIntentReceived, OnDisconnected, OnSendCurrentMessageComplete, OnSendAckComplete
    <3>2. UNCHANGED nameReads \/ nameReads' = [nameReads EXCEPT ![d] = @ + 1]
      BY <3>1 DEF OnReceiveNameComplete
    <3>3. QED
      BY <1>1, <1>3, <2>1, <3>2
  <2>3. CASE PublisherThread \/ CommandThread \/ UNCHANGED vars
    BY <2>1, <2>3 DEF PublisherThread, CommandThread, connVars, vars
  <2>4. ASSUME NEW d \in Clients, KernelStep(d) PROVE nameReads' = nameReads
    BY <2>4 DEF KernelStep, Kernel, KernelCompletes, handshakeVars
  <2>5. CASE QuietThread
    BY <2>1, <2>5, QuietThreadKeeps DEF connVars
  <2>6. ASSUME NEW d \in Clients, OnAcceptConnectionComplete(d) PROVE nameReads' = nameReads
    BY <2>6 DEF OnAcceptConnectionComplete, BeginMakeNonblockingSocket, handshakeVars
  <2>7. CASE FanOut
    BY <2>1, <2>7 DEF FanOut, handshakeVars
  <2>8. QED
    BY <1>1, <2>1, <2>2, <2>3, <2>4, <2>5, <2>6, <2>7 DEF Next, SubscriberThread, QuietThread
<1>6. QED
  BY <1>2, <1>3, <1>4, <1>5

(* Subscription s was commanded for a name client c bore. *)
Commanded(c, s) == \E k \in 1 .. nameReads[c] : <<NameReads[c][k], s>> \in issued

(* It stays so: names that were read and commands that were issued stay.   *)
LEMMA StaysCommanded ==
  ASSUME IInv, [Next]_vars, NEW c \in Clients, NEW s, Commanded(c, s)
  PROVE  Commanded(c, s)'
<1>1. PICK k \in 1 .. nameReads[c] : <<NameReads[c][k], s>> \in issued
  BY DEF Commanded
<1>2. k \in 1 .. nameReads'[c] /\ <<NameReads[c][k], s>> \in issued'
  BY <1>1, NamesGrow
<1>3. QED
  BY <1>2 DEF Commanded

(* A client that bears a name of the protocol has read it. *)
LEMMA NameWasRead ==
  ASSUME NEW c \in Clients, nameReads[c] \in Nat,
         nameReads[c] > 0 \/ ClientName(c) \in Names,
         NEW s, <<ClientName(c), s>> \in issued
  PROVE  Commanded(c, s)
<1>1. nameReads[c] # 0
  BY HandlerAssumption DEF ClientName
<1>2. nameReads[c] \in 1 .. nameReads[c] /\ ClientName(c) = NameReads[c][nameReads[c]]
  BY <1>1 DEF ClientName
<1>3. QED
  BY <1>2 DEF Commanded

(* The command thread: what it gives a subscriber, or leaves in the list,  *)
(* is what the command said.                                               *)
LEMMA CommandedByCommands ==
  ASSUME IInv, CommandedInv, CommandThread
  PROVE  CommandedInv'
<1>1. /\ subscriptions \in [Clients -> SUBSET Subs]
      /\ pendingSubscriptions \in SUBSET PendingSubscription
      /\ nameReads \in [Clients -> Nat] /\ CommandTypeOK
      /\ \A c \in Clients : nameReads[c] \in Nat
  BY DEF IInv, TypeOK, SubTypeOK, ConnTypeOK
<1>2. /\ nameReads' = nameReads /\ taken' = taken /\ pc' = pc /\ taker' = taker
      /\ UNCHANGED isDisconnected
  BY DEF CommandThread, connVars, handshakeVars, serverVars
<1>3. [Next]_vars
  BY DEF Next
<1>4. issued \subseteq issued'
  BY DEF CommandThread, CommandReceived, VisitClient, FinishScan
<1>5. \A c \in Clients : \A s \in subscriptions[c] : Commanded(c, s)'
  BY <1>3, StaysCommanded DEF CommandedInv, SubscriptionWasCommanded, Commanded
<1>6. pc' = "take" =>
        /\ taker' \in Clients
        /\ nameReads'[taker'] > 0
        /\ \A s \in taken' : <<ClientName(taker)', s>> \in issued'
  BY <1>2, <1>4 DEF CommandedInv, ClientName
<1>7. scan.active => scan.name \in Names /\ scan.sub \in Subs
  <2>1. scan.active => scan \in Scan
    BY <1>1 DEF CommandTypeOK, NoScan
  <2>2. QED
    BY <2>1 DEF Scan
<1>8. ASSUME NEW n \in Names, NEW s \in Subs, CommandReceived(n, s) PROVE CommandedInv'
  <2>1. /\ issued' = issued \cup {<<n, s>>} /\ scan'.name = n /\ scan'.sub = s
        /\ subscriptions' = subscriptions /\ pendingSubscriptions' = pendingSubscriptions
    BY <1>8 DEF CommandReceived
  <2>2. QED
    BY <1>5, <1>6, <2>1 DEF CommandedInv, SubscriptionWasCommanded, Commanded
<1>9. ASSUME NEW c \in Clients, VisitClient(c) PROVE CommandedInv'
  <2>1. /\ scan.active /\ issued' = issued /\ pendingSubscriptions' = pendingSubscriptions
        /\ <<scan.name, scan.sub>> \in issued
    BY <1>9 DEF VisitClient, CommandedInv
  <2>2. scan' \in {[scan EXCEPT !.todo = @ \ {c}, !.wasFound = TRUE],
                   [scan EXCEPT !.todo = @ \ {c}]}
    BY <1>9 DEF VisitClient
  <2>3. scan'.name = scan.name /\ scan'.sub = scan.sub
    <3>1. scan \in Scan
      BY <1>1, <2>1 DEF CommandTypeOK, NoScan
    <3>2. QED
      BY <2>2, <3>1 DEF Scan
  <2>4. \/ subscriptions' = subscriptions
        \/ /\ ClientName(c) = scan.name
           /\ subscriptions' = [subscriptions EXCEPT ![c] = @ \cup {scan.sub}]
    BY <1>9 DEF VisitClient, AddSubscriptions
  <2>5. ASSUME NEW s, s = scan.sub, ClientName(c) = scan.name PROVE Commanded(c, s)'
    <3>1. <<ClientName(c), s>> \in issued /\ ClientName(c) \in Names
      BY <1>7, <2>1, <2>5
    <3>2. Commanded(c, s)
      BY <1>1, <3>1, NameWasRead
    <3>3. QED
      BY <1>3, <3>2, StaysCommanded
  <2>6. \A d \in Clients : \A s \in subscriptions'[d] : Commanded(d, s)'
    <3>1. TAKE d \in Clients
    <3>2. TAKE s \in subscriptions'[d]
    <3>3. CASE s \in subscriptions[d]
      BY <1>5, <3>3
    <3>4. CASE s \notin subscriptions[d]
      <4>1. d = c /\ s = scan.sub /\ ClientName(c) = scan.name
        <5>1. subscriptions' # subscriptions
          BY <3>2, <3>4
        <5>2. ClientName(c) = scan.name /\ subscriptions' = [subscriptions EXCEPT ![c] = @ \cup {scan.sub}]
          BY <2>4, <5>1
        <5>3. QED
          BY <1>1, <3>2, <3>4, <5>2
      <4>2. QED
        BY <2>5, <4>1
    <3>5. QED
      BY <3>3, <3>4
  <2>7. SubscriptionWasCommanded'
    BY <2>6 DEF SubscriptionWasCommanded, Commanded
  <2>8. scan'.active => <<scan'.name, scan'.sub>> \in issued'
    BY <2>1, <2>3
  <2>9. QED
    BY <1>6, <2>1, <2>7, <2>8 DEF CommandedInv
<1>10. ASSUME FinishScan PROVE CommandedInv'
  <2>1. /\ <<scan.name, scan.sub>> \in issued /\ issued' = issued
        /\ ~scan'.active /\ subscriptions' = subscriptions
    BY <1>10 DEF FinishScan, CommandedInv, NoScan
  <2>2. \A p \in pendingSubscriptions' :
          p \in pendingSubscriptions \/ p = [name |-> scan.name, sub |-> scan.sub]
    BY <1>10 DEF FinishScan
  <2>3. \A p \in pendingSubscriptions' \ {MovedFrom} : <<p.name, p.sub>> \in issued'
    <3>1. TAKE p \in pendingSubscriptions' \ {MovedFrom}
    <3>2. CASE p \in pendingSubscriptions
      BY <2>1, <3>2 DEF CommandedInv
    <3>3. CASE p = [name |-> scan.name, sub |-> scan.sub]
      BY <2>1, <3>3
    <3>4. QED
      BY <2>2, <3>2, <3>3
  <2>4. QED
    BY <1>5, <1>6, <2>1, <2>3 DEF CommandedInv, SubscriptionWasCommanded, Commanded
<1>11. QED
  BY <1>8, <1>9, <1>10 DEF CommandThread

(* The subscriber thread takes a subscriber's entries out of the list. *)
LEMMA CommandedByPolls ==
  ASSUME IInv, CommandedInv, NEW c \in clients, PollClient(c), UNCHANGED commandVars
  PROVE  CommandedInv'
<1>1. /\ nameReads \in [Clients -> Nat] /\ c \in Clients /\ ClientInv(c)
      /\ pendingSubscriptions \in SUBSET PendingSubscription
      /\ event \in [Clients -> Events]
  BY DEF IInv, TypeOK, SubTypeOK, ConnTypeOK, ServerTypeOK
<1>2. [Next]_vars
  BY DEF Next, SubscriberThread
<1>3. subscriptions' = subscriptions /\ issued' = issued /\ scan' = scan
  BY DEF PollClient, commandVars
<1>4. SubscriptionWasCommanded'
  BY <1>2, <1>3, StaysCommanded DEF CommandedInv, SubscriptionWasCommanded, Commanded
<1>5. scan'.active => <<scan'.name, scan'.sub>> \in issued'
  BY <1>3 DEF CommandedInv
<1>6. CASE event[c] = "SendAck" /\ event'[c] = "Ready"
  <2>1. OnSendAckComplete(c, Head(cq[c]).res) /\ pc' = "take" /\ taker' = c
    <3>1. pc' = "take" /\ taker' = c /\ event' # event
      BY <1>6 DEF PollClient
    <3>2. HandleEvent(c, Head(cq[c]).res) /\ ~isDisconnected[c]
      BY <3>1 DEF PollClient, HandleEvent
    <3>3. QED
      BY <1>6, <3>1, <3>2 DEF HandleEvent, OnMakeNonblockingSocketComplete, OnIntentReceived,
         OnReceiveNameComplete, OnDisconnected, OnSendCurrentMessageComplete
  <2>2. /\ nameReads' = nameReads
        /\ taken' = {p.sub : p \in {q \in pendingSubscriptions : q.name = ClientName(c)}}
        /\ pendingSubscriptions' = {IF p.name = ClientName(c) THEN MovedFrom ELSE p :
                                      p \in pendingSubscriptions}
    BY <2>1 DEF OnSendAckComplete, handshakeVars
  <2>3. nameReads[c] > 0
    <3>1. nameReads[c] = Len(NameReads[c])
      BY <1>1, <1>6 DEF ClientInv, NameInv, NameComplete
    <3>2. NameReads[c] \in Seq(Names) /\ NameReads[c] # <<>>
      BY <1>1, HandlerAssumption
    <3>3. Len(NameReads[c]) \in Nat /\ Len(NameReads[c]) # 0
      BY <3>2, EmptySeq, LenProperties
    <3>4. QED
      BY <3>1, <3>3
  <2>4. ClientName(c) \in Names
    <3>1. nameReads[c] \in Nat /\ nameReads[c] # 0 /\ nameReads[c] <= Len(NameReads[c])
      BY <1>1, <2>3 DEF ClientInv, NameInv
    <3>2. NameReads[c] \in Seq(Names)
      BY <1>1, HandlerAssumption
    <3>3. nameReads[c] \in 1 .. Len(NameReads[c])
      BY <3>1, <3>2, LenProperties
    <3>4. QED
      BY <3>1, <3>2, <3>3, ElementOfSeq DEF ClientName
  <2>5. ASSUME NEW s \in taken' PROVE <<ClientName(c), s>> \in issued
    <3>1. PICK p \in pendingSubscriptions : p.name = ClientName(c) /\ s = p.sub
      BY <2>2
    <3>2. p # MovedFrom
      BY <2>4, <3>1, HandlerAssumption DEF MovedFrom
    <3>3. QED
      BY <3>1, <3>2 DEF CommandedInv
  <2>6. \A p \in pendingSubscriptions' \ {MovedFrom} : p \in pendingSubscriptions
    BY <2>2
  <2>7. ClientName(c)' = ClientName(c)
    BY <2>2 DEF ClientName
  <2>8. pc' = "take" => /\ taker' \in Clients
                        /\ nameReads'[taker'] > 0
                        /\ \A s \in taken' : <<ClientName(taker)', s>> \in issued'
    BY <1>1, <1>3, <2>1, <2>2, <2>3, <2>5 DEF ClientName
  <2>9. QED
    BY <1>3, <1>4, <1>5, <2>6, <2>8 DEF CommandedInv
<1>7. CASE ~(event[c] = "SendAck" /\ event'[c] = "Ready")
  <2>1. pc' = "expire"
    BY <1>7 DEF PollClient
  <2>2. pendingSubscriptions' = pendingSubscriptions
    <3>1. CASE OnSendAckComplete(c, Head(cq[c]).res)
      BY <1>1, <1>7, <3>1 DEF OnSendAckComplete
    <3>2. CASE ~OnSendAckComplete(c, Head(cq[c]).res)
      BY <3>2 DEF PollClient, HandleEvent
    <3>3. QED
      BY <3>1, <3>2
  <2>3. QED
    BY <1>3, <1>4, <1>5, <2>1, <2>2 DEF CommandedInv
<1>8. QED
  BY <1>6, <1>7

(* No other step creates a subscription, or moves one. *)
LEMMA CommandedByOthers ==
  ASSUME IInv, CommandedInv, [Next]_vars, UNCHANGED commandVars,
         \A c \in Clients : subscriptions'[c] \subseteq subscriptions[c],
         pendingSubscriptions' \subseteq pendingSubscriptions,
         pc' = "take" => pc = "take" /\ UNCHANGED <<taker, taken, nameReads>>
  PROVE  CommandedInv'
<1>1. scan' = scan /\ issued' = issued
  BY DEF commandVars
<1>2. SubscriptionWasCommanded'
  BY StaysCommanded DEF CommandedInv, SubscriptionWasCommanded, Commanded
<1>3. pc' = "take" => /\ taker' \in Clients
                      /\ nameReads'[taker'] > 0
                      /\ \A s \in taken' : <<ClientName(taker)', s>> \in issued'
  BY <1>1 DEF CommandedInv, ClientName
<1>4. QED
  BY <1>1, <1>2, <1>3 DEF CommandedInv

(* Every step of any thread keeps subscriptions to what was commanded.     *)
LEMMA CommandedStep == IInv /\ CommandedInv /\ [Next]_vars => CommandedInv'
<1> SUFFICES ASSUME IInv, CommandedInv, [Next]_vars PROVE CommandedInv'
  OBVIOUS
<1>1. /\ subscriptions \in [Clients -> SUBSET Subs] /\ nameReads \in [Clients -> Nat]
      /\ clients \in SUBSET Clients
  BY DEF IInv, TypeOK, SubTypeOK, ConnTypeOK, ServerTypeOK
<1>2. CASE CommandThread
  BY <1>2, CommandedByCommands
<1>3. ASSUME NEW c \in clients, PollClient(c), UNCHANGED commandVars PROVE CommandedInv'
  BY <1>3, CommandedByPolls
<1>4. CASE FinishTake /\ UNCHANGED commandVars
  <2>1. /\ pc = "take" /\ nameReads' = nameReads /\ pc' = "expire"
        /\ subscriptions' = [subscriptions EXCEPT ![taker] = @ \cup taken]
        /\ pendingSubscriptions' \subseteq pendingSubscriptions
        /\ issued' = issued /\ scan' = scan
    BY <1>4 DEF FinishTake, AddTakenSubscriptions, AddSubscriptions, connVars, handshakeVars,
                commandVars
  <2>2. taker \in Clients /\ \A s \in taken : Commanded(taker, s)
    BY <1>1, <2>1, NameWasRead DEF CommandedInv
  <2>3. \A c \in Clients : \A s \in subscriptions'[c] : Commanded(c, s)'
    <3>1. TAKE c \in Clients
    <3>2. TAKE s \in subscriptions'[c]
    <3>3. s \in subscriptions[c] \/ (c = taker /\ s \in taken)
      BY <1>1, <2>1, <2>2
    <3>4. Commanded(c, s)
      BY <2>2, <3>3 DEF CommandedInv, SubscriptionWasCommanded, Commanded
    <3>5. QED
      BY <3>4, StaysCommanded
  <2>4. QED
    BY <2>1, <2>3 DEF CommandedInv, SubscriptionWasCommanded, Commanded
<1>5. CASE HandleTimeouts /\ UNCHANGED commandVars
  <2>1. PICK expired \in [Clients -> SUBSET Timed] :
          subscriptions' = [c \in Clients |-> subscriptions[c] \ expired[c]]
    BY <1>5 DEF HandleTimeouts, HandleTimeout
  <2>2. \A c \in Clients : subscriptions'[c] \subseteq subscriptions[c]
    BY <2>1
  <2>3. pendingSubscriptions' = pendingSubscriptions /\ pc' # "take"
    BY <1>5 DEF HandleTimeouts
  <2>4. QED
    BY <1>5, <2>2, <2>3, CommandedByOthers
<1> DEFINE Aside == /\ UNCHANGED <<subscriptions, pendingSubscriptions, commandVars>>
                    /\ pc' = "take" => pc = "take" /\ UNCHANGED <<taker, taken, nameReads>>
<1>6. ASSUME Aside PROVE CommandedInv'
  BY <1>6, CommandedByOthers
<1>7. CASE PublisherThread \/ UNCHANGED vars
  BY <1>6, <1>7 DEF PublisherThread, subVars, serverVars, connVars, handshakeVars, vars
<1>8. ASSUME NEW c \in Clients, KernelStep(c) PROVE CommandedInv'
  BY <1>6, <1>8 DEF KernelStep, Kernel, KernelCompletes, handshakeVars, serverVars
<1>9. CASE /\ QuietThread /\ ~FinishTake /\ ~HandleTimeouts
           /\ UNCHANGED commandVars
  <2>1. UNCHANGED <<subscriptions, pendingSubscriptions>> /\ pc' # "take"
    BY <1>9 DEF QuietThread, OnSetupListeningSocketComplete, OnAcceptConnectionFailed,
       PollTimeout, WaitForData, DrainDone, Clear, threadVars, subVars
  <2>2. QED
    BY <1>6, <1>9, <2>1
<1>10. ASSUME NEW c \in Clients, OnAcceptConnectionComplete(c), UNCHANGED commandVars
       PROVE CommandedInv'
  BY <1>6, <1>10 DEF OnAcceptConnectionComplete, subVars
<1>11. CASE FanOut /\ UNCHANGED commandVars
  BY <1>6, <1>11 DEF FanOut, serverVars
<1>12. QED
  BY <1>2, <1>3, <1>4, <1>5, <1>7, <1>8, <1>9, <1>10, <1>11
  DEF Next, SubscriberThread, QuietThread

(* Nobody is subscribed to anything yet.                                   *)
LEMMA InitCommanded == Init => CommandedInv
BY DEF Init, SubInit, ServerInit, CommandInit, NoScan, CommandedInv, SubscriptionWasCommanded

(* A subscriber holds a subscription only if a command asked for it under  *)
(* what of his name had been read by some moment, whichever thread gave it *)
(* to him; that the name was whole then is not so and is not said.         *)
THEOREM SubscriptionsComeFromCommands == Spec => []SubscriptionWasCommanded
<1>1. CommandedInv => SubscriptionWasCommanded
  BY DEF CommandedInv
<1>2. Spec => []CommandedInv
  BY InitCommanded, CommandedStep, InductiveInvariant, PTL DEF Spec
<1>3. QED
  BY <1>1, <1>2, PTL
===============================================================================
