---------------------------- MODULE DeliveryProofs ----------------------------
(***************************************************************************)
(* The server implements PubSub, and its subscribers receive their batches *)
(* in order, for every instance of the constants.  Bytes the kernel took   *)
(* leave what a client is owed at once and what its handler holds when the *)
(* completion is reaped: TakenInv says that nothing is lost in between.    *)
(***************************************************************************)
EXTENDS BrokerProofs

(* The handler's answers to a completion, as far as sends are concerned: a *)
(* handshake goes on, a send fails, or some of its bytes were taken.       *)
HandshakeGoesOn(c) ==
  /\ event[c] \in HandshakeEvents
  /\ \/ \E ev \in Events, op \in Ops \ {"send"} : Begin(c, ev, op, NoItem)
     \/ event' = [event EXCEPT ![c] = "Ready"] /\ sq' = sq
  /\ UNCHANGED sendVars

SendFails(c) ==
  /\ event[c] = "SendData"
  /\ Head(cq[c]).res < 0
  /\ BeginDisconnect(c)
  /\ UNCHANGED sendVars

SendGoesOn(c) ==
  /\ Head(cq[c]).res > 0
  /\ OnSendCurrentMessageComplete(c, Head(cq[c]).res)

(* There is no other answer.                                               *)
LEMMA PollCases ==
  ASSUME NEW c \in Clients, PollClient(c)
  PROVE  \/ UNCHANGED <<event, sq, sendVars>>
         \/ HandshakeGoesOn(c)
         \/ SendFails(c)
         \/ SendGoesOn(c)
<1> DEFINE res == Head(cq[c]).res
           Quiet == UNCHANGED <<event, sq, sendVars>>
<1>1. CASE UNCHANGED <<event, sq, sendVars>>
  BY <1>1
<1>2. CASE HandleEvent(c, res) /\ ~isDisconnected[c]
  <2>1. ASSUME OnMakeNonblockingSocketComplete(c, res), UNCHANGED sendVars PROVE HandshakeGoesOn(c)
    BY <2>1 DEF OnMakeNonblockingSocketComplete, HandshakeGoesOn, BeginDisconnect,
       BeginReceiveIntent, HandshakeEvents, Events, Ops
  <2>2. ASSUME OnIntentReceived(c, res), UNCHANGED sendVars PROVE HandshakeGoesOn(c) \/ Quiet
    BY <2>2 DEF OnIntentReceived, HandshakeGoesOn, BeginDisconnect, NoRequest,
       BeginReceiveIntent, BeginReceiveName, HandshakeEvents, Events, Ops
  <2>3. ASSUME OnReceiveNameComplete(c, res), UNCHANGED sendVars PROVE HandshakeGoesOn(c) \/ Quiet
    BY <2>3 DEF OnReceiveNameComplete, HandshakeGoesOn, BeginDisconnect, NoRequest,
       BeginSendAck, BeginReceiveName, HandshakeEvents, Events, Ops
  <2>4. ASSUME OnDisconnected(c, res) \/ NoRequest, UNCHANGED sendVars PROVE Quiet
    BY <2>4 DEF OnDisconnected, NoRequest
  <2>5. ASSUME OnSendCurrentMessageComplete(c, res) PROVE Quiet \/ SendFails(c) \/ SendGoesOn(c)
    BY <2>5 DEF OnSendCurrentMessageComplete, NoRequest, SendFails, SendGoesOn
  <2>6. ASSUME OnSendAckComplete(c, res), UNCHANGED sendVars PROVE HandshakeGoesOn(c)
    BY <2>6 DEF OnSendAckComplete, HandshakeGoesOn, HandshakeEvents
  <2>7. QED
    BY <1>2, <2>1, <2>2, <2>3, <2>4, <2>5, <2>6 DEF HandleEvent
<1>3. QED
  BY <1>1, <1>2 DEF PollClient, HandleEvent

(* A client none of whose requests, completions or descriptor changes.     *)
LEMMA TakenFrame ==
  ASSUME NEW c \in Clients, TakenInv(c),
         event'[c] = event[c], sq'[c] = sq[c], cq'[c] = cq[c], fdOpen'[c] = fdOpen[c]
  PROVE  TakenInv(c)'
BY DEF TakenInv

(* During a handshake nothing is sent. *)
LEMMA HandshakeHasNoSend ==
  ASSUME NEW c \in Clients, ClientInv(c), event[c] \in HandshakeEvents
  PROVE  /\ \A i \in DOMAIN sq[c] : sq[c][i].op # "send"
         /\ \A i \in DOMAIN cq[c] : cq[c][i].op # "send"
<1>1. "send" \notin OpsOf(event[c])
  BY DEF OpsOf, HandshakeEvents
<1>2. QED
  BY <1>1 DEF ClientInv, RequestInv

(* After bytes were taken the handler sends on, or nothing is left to send.*)
LEMMA SendOutcome ==
  ASSUME NEW c \in Clients, event \in [Clients -> Events], Head(cq[c]).res \in Int,
         SendGoesOn(c)
  PROVE  event'[c] = "SendData" \/ sq' = sq
<1>1. \/ sq' = sq
      \/ SentAll(c)
      \/ \E item : SendCurrentMessage(c, item)
  BY DEF SendGoesOn, OnSendCurrentMessageComplete
<1>2. sq' = sq \/ \E item : SendCurrentMessage(c, item)
  BY <1>1 DEF SentAll, SendNextPendingMessageBatch, NoRequest
<1>3. QED
  BY <1>2 DEF SendCurrentMessage, Begin

(* A connection that was just accepted has sent nothing.                   *)
LEMMA TakenAccept ==
  ASSUME IInv, NEW c \in Clients, OnAcceptConnectionComplete(c)
  PROVE  TakenInv(c)'
<1> DEFINE r == [op |-> "epoll_ctl", item |-> NoItem]
<1>1. /\ sq \in [Clients -> Seq(Request)] /\ cq \in [Clients -> Seq(Completion)]
      /\ EventInv(c)
  BY DEF IInv, TypeOK, ConnTypeOK, ClientInv
<1>2. event[c] = "NotSet" /\ sq' = [sq EXCEPT ![c] = Append(@, r)] /\ cq' = cq
  BY DEF OnAcceptConnectionComplete, BeginMakeNonblockingSocket, Begin
<1>3. sq[c] \in Seq(Request) /\ cq[c] \in Seq(Completion) /\ Len(sq[c]) = 0 /\ Len(cq[c]) = 0
  BY <1>1, <1>2 DEF EventInv
<1>4. sq[c] = <<>> /\ cq[c] = <<>>
  BY <1>3, EmptySeq
<1>5. sq'[c] = <<r>> /\ cq'[c] = <<>>
  BY <1>1, <1>2, <1>4
<1>6. DOMAIN sq'[c] = {1} /\ sq'[c][1].op = "epoll_ctl" /\ DOMAIN cq'[c] = {}
  BY <1>5
<1>7. QED
  BY <1>6 DEF TakenInv

(* A batch is handed out: an idle client has no send outstanding, and gets *)
(* one while it is sending.                                                *)
LEMMA TakenFanOut ==
  ASSUME IInv, NEW c \in Clients, TakenInv(c), FanOut
  PROVE  TakenInv(c)'
<1>1. /\ currentItem \in [Clients -> Item] /\ SendInv(c)
  BY DEF IInv, TypeOK, SubTypeOK, ClientInv
<1>2. cq' = cq /\ fdOpen' = fdOpen
  BY DEF FanOut
<1>3. CASE c \in Receivers(Head(messageQueue)) /\ ~HasContent(c)
  <2>1. event'[c] = "SendData"
    BY <1>3 DEF FanOut, PushMessageBatch
  <2>2. \A i \in DOMAIN cq[c] : cq[c][i].op # "send"
    BY <1>1, <1>3, IdleHasNoSend
  <2>3. QED
    BY <1>2, <2>1, <2>2 DEF TakenInv
<1>4. CASE ~(c \in Receivers(Head(messageQueue)) /\ ~HasContent(c))
  <2>1. event'[c] = event[c] /\ sq'[c] = sq[c]
    BY <1>4 DEF FanOut, PushMessageBatch
  <2>2. QED
    BY <1>2, <2>1, TakenFrame
<1>5. QED
  BY <1>3, <1>4

(* A completion is reaped: what was taken by the send behind it is still to *)
(* be accounted for, by a handler that is still sending.                   *)
LEMMA TakenPoll ==
  ASSUME IInv, NEW c \in clients, PollClient(c), TakenInv(c), UNCHANGED commandVars
  PROVE  TakenInv(c)'
<1>1. Reaping(c)
  BY DEF PollClient, Reaping
<1>2. /\ c \in Clients /\ ClientInv(c) /\ fdOpen'[c] = fdOpen[c] /\ ConnTypeOK
      /\ Head(cq[c]) = cq[c][1] /\ 1 \in DOMAIN cq[c]
      /\ \A j \in DOMAIN cq'[c] : j + 1 \in DOMAIN cq[c] /\ cq'[c][j] = cq[c][j + 1]
      /\ \A j \in DOMAIN cq'[c] : j \in Nat /\ j >= 1
      /\ event \in [Clients -> Events] /\ sq \in [Clients -> Seq(Request)]
  BY <1>1, ReapedProps
<1>3. \A i \in DOMAIN cq'[c] : cq'[c][i].op = "close" /\ cq'[c][i].res < 0 => ~fdOpen'[c]
  BY <1>2 DEF TakenInv
<1>4. CASE UNCHANGED <<event, sq, sendVars>>
  <2>1. ASSUME NEW i \in DOMAIN cq'[c], cq'[c][i].op = "send", cq'[c][i].res > 0
        PROVE  /\ event'[c] = "SendData"
               /\ \A j \in DOMAIN cq'[c] : j < i => cq'[c][j].res >= 0
    <3>1. i + 1 \in DOMAIN cq[c] /\ cq'[c][i] = cq[c][i + 1]
      BY <1>2
    <3>2. ASSUME NEW j \in DOMAIN cq'[c], j < i PROVE cq'[c][j].res >= 0
      <4>1. j + 1 \in DOMAIN cq[c] /\ cq'[c][j] = cq[c][j + 1] /\ j + 1 < i + 1
        BY <1>2, <3>2
      <4>2. QED
        BY <2>1, <3>1, <4>1 DEF TakenInv
    <3>3. QED
      BY <1>4, <2>1, <3>1, <3>2 DEF TakenInv
  <2>2. QED
    BY <1>2, <1>3, <1>4, <2>1 DEF TakenInv
<1>5. CASE HandshakeGoesOn(c)
  <2>1. /\ \A i \in DOMAIN sq[c] : sq[c][i].op # "send"
        /\ \A i \in DOMAIN cq[c] : cq[c][i].op # "send"
    BY <1>2, <1>5, HandshakeHasNoSend DEF HandshakeGoesOn
  <2>2. \A i \in DOMAIN sq'[c] : sq'[c][i].op # "send"
    <3>1. CASE sq' = sq
      BY <2>1, <3>1
    <3>2. ASSUME NEW ev \in Events, NEW op \in Ops \ {"send"}, Begin(c, ev, op, NoItem)
          PROVE  \A i \in DOMAIN sq'[c] : sq'[c][i].op # "send"
      <4>1. NoItem \in Item
        BY DEF NoItem, Item
      <4>2. \A j \in DOMAIN sq'[c] :
              \/ j \in DOMAIN sq[c] /\ sq'[c][j] = sq[c][j]
              \/ j = Len(sq[c]) + 1 /\ sq'[c][j] = [op |-> op, item |-> NoItem]
        BY <1>2, <3>2, <4>1, BeginProps
      <4>3. QED
        BY <2>1, <4>2
    <3>3. QED
      BY <1>5, <3>1, <3>2 DEF HandshakeGoesOn
  <2>3. \A i \in DOMAIN cq'[c] : cq'[c][i].op # "send"
    BY <1>2, <2>1
  <2>4. QED
    BY <1>3, <2>2, <2>3 DEF TakenInv
<1>6. CASE SendFails(c)
  <2>1. event[c] = "SendData" /\ cq[c][1].res < 0 /\ Begin(c, "Disconnected", "close", NoItem)
    BY <1>2, <1>6 DEF SendFails, BeginDisconnect
  <2>2. ASSUME NEW i \in DOMAIN cq'[c], cq'[c][i].op = "send", cq'[c][i].res > 0 PROVE FALSE
    <3>1. i + 1 \in DOMAIN cq[c] /\ cq'[c][i] = cq[c][i + 1] /\ 1 < i + 1
      BY <1>2
    <3>2. cq[c][1].res >= 0
      BY <1>2, <2>2, <3>1 DEF TakenInv
    <3>3. QED
      BY <1>1, <1>2, <2>1, <3>2, ReapedProps DEF Completion
  <2>3. ASSUME NEW i \in DOMAIN sq'[c], sq'[c][i].op = "send" PROVE ~fdOpen'[c]
    <3>1. i \in DOMAIN sq[c] /\ sq[c][i].op = "send"
      <4>1. NoItem \in Item /\ "Disconnected" \in Events /\ "close" \in Ops
        BY DEF NoItem, Item, Events, Ops
      <4>2. \/ i \in DOMAIN sq[c] /\ sq'[c][i] = sq[c][i]
            \/ i = Len(sq[c]) + 1 /\ sq'[c][i] = [op |-> "close", item |-> NoItem]
        BY <1>2, <2>1, <4>1, BeginProps
      <4>3. QED
        BY <2>3, <4>2
    <3>2. cq[c][1].op = "close"
      <4>1. cq[c][1].op # "send"
        BY <1>2, <3>1 DEF ClientInv, SendInv
      <4>2. cq[c][1].op \in {"send", "close"}
        BY <1>2, <2>1 DEF ClientInv, EventInv
      <4>3. QED
        BY <4>1, <4>2
    <3>3. QED
      BY <1>2, <2>1, <3>2 DEF TakenInv
  <2>4. QED
    BY <1>3, <2>2, <2>3 DEF TakenInv
<1>7. CASE SendGoesOn(c)
  <2>1. event[c] = "SendData" /\ Head(cq[c]).res > 0
    BY <1>7 DEF SendGoesOn, OnSendCurrentMessageComplete
  <2>2. /\ \A j \in DOMAIN sq[c] : sq[c][j].op = "close"
        /\ \A j \in DOMAIN cq'[c] : cq'[c][j].op = "close" /\ cq'[c][j].res <= 0
    BY <1>1, <2>1, SendResult
  <2>3. event'[c] = "SendData" \/ sq' = sq
    <3>1. Head(cq[c]).res \in Int
      BY <1>1, ReapedProps DEF Completion
    <3>2. QED
      BY <1>2, <1>7, <3>1, SendOutcome
  <2>4. QED
    BY <1>3, <2>2, <2>3 DEF TakenInv
<1>8. QED
  BY <1>2, <1>4, <1>5, <1>6, <1>7, PollCases

(* The kernel completes a request: only a send on an open descriptor takes *)
(* bytes, and only a close on a closed one fails.                          *)
LEMMA TakenKernel ==
  ASSUME IInv, NEW c \in Clients, TakenInv(c), KernelStep(c)
  PROVE  TakenInv(c)'
<1>1. /\ ClientInv(c) /\ sq \in [Clients -> Seq(Request)] /\ cq \in [Clients -> Seq(Completion)]
      /\ fdOpen \in [Clients -> BOOLEAN]
      /\ sq[c] \in Seq(Request) /\ cq[c] \in Seq(Completion)
  BY DEF IInv, TypeOK, ConnTypeOK
<1>2. PICK i \in DOMAIN sq[c] : \E res \in Outcomes(c, sq[c][i]) : KernelCompletes(c, i, res)
  BY DEF KernelStep, Kernel
<1>3. PICK res \in Outcomes(c, sq[c][i]) : KernelCompletes(c, i, res)
  BY <1>2
<1> DEFINE q == sq[c][i]
           done == [op |-> q.op, item |-> q.item, res |-> res]
<1>4. q \in Request /\ (q.op = "send" => q.item.len > 0)
  <2>1. q \in Request
    BY <1>1, ElementOfSeq, LenProperties
  <2>2. QED
    BY <1>1, <2>1 DEF ClientInv, SendInv
<1>5. res \in Int
  BY <1>4, OutcomesProps
<1>6. done \in Completion /\ done.op = q.op /\ done.res = res
  BY <1>4, <1>5 DEF Request, Completion
<1>7. /\ sq'[c] = RemoveAt(sq[c], i) /\ cq'[c] = Append(cq[c], done)
      /\ fdOpen'[c] = (fdOpen[c] /\ q.op # "close")
      /\ event'[c] = event[c]
  BY <1>1, <1>3 DEF KernelCompletes
<1>8. res # ERROR => fdOpen[c]
  BY DEF Outcomes
<1> HIDE DEF q, done
<1>9. \A j \in DOMAIN cq'[c] : \/ j \in DOMAIN cq[c] /\ cq'[c][j] = cq[c][j]
                               \/ j = Len(cq[c]) + 1 /\ cq'[c][j] = done
  <2>1. \A j \in DOMAIN Append(cq[c], done) :
          \/ j \in DOMAIN cq[c] /\ Append(cq[c], done)[j] = cq[c][j]
          \/ j = Len(cq[c]) + 1 /\ Append(cq[c], done)[j] = done
    BY <1>1, <1>6, AppendProps
  <2>2. QED
    BY <1>7, <2>1
<1>10. \A j \in DOMAIN sq'[c] : \E k \in DOMAIN sq[c] : sq'[c][j] = sq[c][k]
  <2>1. \A j \in DOMAIN RemoveAt(sq[c], i) :
          \/ j < i /\ j \in DOMAIN sq[c] /\ RemoveAt(sq[c], i)[j] = sq[c][j]
          \/ j >= i /\ j + 1 \in DOMAIN sq[c] /\ RemoveAt(sq[c], i)[j] = sq[c][j + 1]
    BY <1>1, RemoveAtProps
  <2>2. QED
    BY <1>7, <2>1
<1>11. \A j \in DOMAIN cq[c] : j \in Nat /\ j <= Len(cq[c]) /\ cq[c][j] \in Completion
  BY <1>1, LenProperties, ElementOfSeq
<1>12. ASSUME NEW j \in DOMAIN cq'[c], cq'[c][j].op = "send", cq'[c][j].res > 0
       PROVE  /\ event'[c] = "SendData"
              /\ \A k \in DOMAIN cq'[c] : k < j => cq'[c][k].res >= 0
  <2>1. CASE j \in DOMAIN cq[c] /\ cq'[c][j] = cq[c][j]
    <3>1. \A k \in DOMAIN cq'[c] : k < j => k \in DOMAIN cq[c] /\ cq'[c][k] = cq[c][k]
      BY <1>1, <1>9, <1>11, <2>1, LenProperties
    <3>2. QED
      BY <1>7, <1>12, <2>1, <3>1 DEF TakenInv
  <2>2. CASE j = Len(cq[c]) + 1 /\ cq'[c][j] = done
    <3>1. q.op = "send" /\ fdOpen[c]
      BY <1>5, <1>6, <1>8, <1>12, <2>2 DEF ERROR
    <3>2. event[c] = "SendData"
      BY <3>1 DEF TakenInv, q
    <3>3. ASSUME NEW k \in DOMAIN cq'[c], k < j PROVE cq'[c][k].res >= 0
      <4>1. k \in DOMAIN cq[c] /\ cq'[c][k] = cq[c][k]
        BY <1>1, <1>9, <2>2, <3>3, LenProperties
      <4>2. cq[c][k].op \in {"send", "close"} /\ cq[c][k].op # "send"
        BY <1>1, <3>1, <3>2, <4>1 DEF ClientInv, EventInv, SendInv, q
      <4>3. ~(cq[c][k].res < 0)
        BY <3>1, <4>1, <4>2 DEF TakenInv
      <4>4. cq[c][k].res \in Int
        BY <1>11, <4>1 DEF Completion
      <4>5. QED
        BY <4>1, <4>3, <4>4
    <3>4. QED
      BY <1>7, <3>2, <3>3
  <2>3. QED
    BY <1>9, <2>1, <2>2
<1>13. ASSUME NEW j \in DOMAIN cq'[c], cq'[c][j].op = "close", cq'[c][j].res < 0
       PROVE  ~fdOpen'[c]
  <2>1. CASE j \in DOMAIN cq[c] /\ cq'[c][j] = cq[c][j]
    BY <1>7, <1>13, <2>1 DEF TakenInv
  <2>2. CASE cq'[c][j] = done
    BY <1>6, <1>7, <1>13, <2>2
  <2>3. QED
    BY <1>9, <2>1, <2>2
<1>14. ASSUME NEW j \in DOMAIN sq'[c], sq'[c][j].op = "send"
       PROVE  event'[c] = "SendData" \/ ~fdOpen'[c]
  BY <1>7, <1>10, <1>14 DEF TakenInv
<1>15. QED
  BY <1>12, <1>13, <1>14 DEF TakenInv

(* No request was made yet.                                                *)
LEMMA InitTaken == Init => \A c \in Clients : TakenInv(c)
BY DEF Init, ConnInit, TakenInv

(* No step of any thread, and nothing the kernel does, loses bytes taken.  *)
LEMMA TakenStep ==
  ASSUME IInv, NEW c \in Clients, TakenInv(c), [Next]_vars
  PROVE  TakenInv(c)'
<1>1. clients \in SUBSET Clients /\ event \in [Clients -> Events]
      /\ sq \in [Clients -> Seq(Request)] /\ cq \in [Clients -> Seq(Completion)]
      /\ fdOpen \in [Clients -> BOOLEAN]
  BY DEF IInv, TypeOK, ServerTypeOK, ConnTypeOK
<1>2. CASE UNCHANGED connVars
  BY <1>2, TakenFrame DEF connVars
<1>3. CASE PublisherThread \/ CommandThread \/ QuietThread \/ UNCHANGED vars
  BY <1>2, <1>3, QuietThreadKeeps DEF PublisherThread, CommandThread, vars
<1>4. ASSUME NEW d \in Clients, KernelStep(d) PROVE TakenInv(c)'
  <2>1. CASE d = c
    BY <1>4, <2>1, TakenKernel
  <2>2. CASE d # c
    <3>1. PICK i \in DOMAIN sq[d] : \E res \in Outcomes(d, sq[d][i]) : KernelCompletes(d, i, res)
      BY <1>4 DEF KernelStep, Kernel
    <3>2. PICK res \in Outcomes(d, sq[d][i]) : KernelCompletes(d, i, res)
      BY <3>1
    <3>3. QED
      BY <1>1, <2>2, <3>2, TakenFrame DEF KernelCompletes
  <2>3. QED
    BY <2>1, <2>2
<1>5. ASSUME NEW d \in Clients, OnAcceptConnectionComplete(d) PROVE TakenInv(c)'
  <2>1. CASE d = c
    BY <1>5, <2>1, TakenAccept
  <2>2. CASE d # c
    BY <1>1, <1>5, <2>2, TakenFrame DEF OnAcceptConnectionComplete, BeginMakeNonblockingSocket, Begin
  <2>3. QED
    BY <2>1, <2>2
<1>6. ASSUME NEW d \in clients, PollClient(d), UNCHANGED commandVars PROVE TakenInv(c)'
  <2>1. CASE d = c
    BY <1>6, <2>1, TakenPoll
  <2>2. CASE d # c
    <3>1. Reaping(d) /\ d \in Clients
      BY <1>1, <1>6 DEF PollClient, Reaping
    <3>2. OthersKept(d) /\ cq' = [cq EXCEPT ![d] = Tail(@)] /\ fdOpen' = fdOpen
      BY <1>6, <3>1, ReapGood DEF Good, Reaping
    <3>3. QED
      BY <1>1, <2>2, <3>2, TakenFrame DEF OthersKept
  <2>3. QED
    BY <2>1, <2>2
<1>7. CASE FanOut
  BY <1>7, TakenFanOut
<1>8. QED
  BY <1>3, <1>4, <1>5, <1>6, <1>7 DEF Next, SubscriberThread, QuietThread
-------------------------------------------------------------------------------
(* No send among the completions took any bytes.                           *)
LEMMA NoneTaken ==
  ASSUME NEW s, \A i \in DOMAIN s : ~(s[i].op = "send" /\ s[i].res > 0)
  PROVE  TakenBytes(s) = 0
BY DEF TakenBytes

(* If one send among them took bytes, these are the bytes taken.           *)
LEMMA OneTaken ==
  ASSUME NEW s, NEW i \in DOMAIN s, s[i].op = "send", s[i].res > 0,
         \A j \in DOMAIN s : s[j].op = "send" => j = i
  PROVE  TakenBytes(s) = s[i].res
<1> DEFINE sends == {j \in DOMAIN s : s[j].op = "send" /\ s[j].res > 0}
<1>1. sends = {i}
  OBVIOUS
<1>2. (CHOOSE j \in sends : TRUE) = i
  BY <1>1
<1>3. QED
  BY <1>1, <1>2 DEF TakenBytes

(* What advancing the position by n bytes makes of a batch.                *)
LEMMA AdvanceProps ==
  ASSUME NEW item \in Item, NEW n \in 0 .. item.len
  PROVE  /\ Advance(item, n) = [id |-> item.id, pos |-> item.pos + n, len |-> item.len - n]
         /\ Advance(item, n) \in Item
         /\ n = 0 => Advance(item, n) = item
<1>1. item \in [id : Nat, pos : Nat, len : Nat]
  BY DEF Item
<1>2. item.pos + n \in Nat /\ item.len - n \in Nat /\ n \in Nat
  BY <1>1
<1>3. Advance(item, n) \in Item
  BY <1>1, <1>2 DEF Advance, Item
<1>4. Advance(item, n) = [id |-> item.id, pos |-> item.pos + n, len |-> item.len - n]
  <2>1. /\ Advance(item, n).id = item.id
        /\ Advance(item, n).pos = item.pos + n
        /\ Advance(item, n).len = item.len - n
    BY <1>1 DEF Advance
  <2>2. Advance(item, n) \in [id : Nat, pos : Nat, len : Nat]
    BY <1>3 DEF Item
  <2>3. \A x \in [id : Nat, pos : Nat, len : Nat] : x = [id |-> x.id, pos |-> x.pos, len |-> x.len]
    OBVIOUS
  <2>4. QED
    BY <2>1, <2>2, <2>3
<1>5. ASSUME n = 0 PROVE Advance(item, n) = item
  <2>1. item = [id |-> item.id, pos |-> item.pos, len |-> item.len]
    BY <1>1
  <2>2. item.pos + n = item.pos /\ item.len - n = item.len
    BY <1>1, <1>5
  <2>3. QED
    BY <1>4, <2>1, <2>2
<1>6. QED
  BY <1>3, <1>4, <1>5

(* A batch that is queued behind others is the last that is owed.          *)
LEMMA RemainingProps ==
  ASSUME NEW item \in Item, NEW backlog \in Seq(Item), NEW n \in 0 .. item.len
  PROVE  /\ Remaining(item, n, backlog) \in Seq(Item)
         /\ \A m \in Item : item.len > 0 =>
              Remaining(item, n, Append(backlog, m)) = Append(Remaining(item, n, backlog), m)
<1>1. Advance(item, n) \in Item /\ Advance(item, 0) = item
  BY AdvanceProps DEF Item
<1>2. ASSUME NEW x \in Item, NEW m \in Item
      PROVE  /\ <<x>> \o backlog \in Seq(Item)
             /\ <<x>> \o Append(backlog, m) = Append(<<x>> \o backlog, m)
  OBVIOUS
<1>3. QED
  BY <1>1, <1>2 DEF Remaining

(* Of a batch no bytes of which were taken everything is owed.             *)
LEMMA RemainingWhole ==
  ASSUME NEW item \in Item, item.len > 0, NEW backlog
  PROVE  Remaining(item, 0, backlog) = <<item>> \o backlog
<1>1. Advance(item, 0) = item /\ item.len # 0
  BY AdvanceProps DEF Item
<1>2. QED
  BY <1>1 DEF Remaining

(* Typing, and what the invariants say of what a client is owed.           *)
LEMMA OwedProps ==
  ASSUME IInv, NEW c \in Clients
  PROVE  /\ currentItem[c] \in Item /\ pendingItems[c] \in Seq(Item)
         /\ cq[c] \in Seq(Completion) /\ sq[c] \in Seq(Request)
         /\ TakenBytes(cq[c]) \in 0 .. currentItem[c].len
         /\ Owed(c) \in Seq(Item)
         /\ ~HasContent(c) => Owed(c) = <<>> /\ TakenBytes(cq[c]) = 0
<1>1. /\ currentItem[c] \in Item /\ pendingItems[c] \in Seq(Item)
      /\ cq[c] \in Seq(Completion) /\ sq[c] \in Seq(Request) /\ SendInv(c) /\ BacklogInv(c)
  BY DEF IInv, TypeOK, SubTypeOK, ConnTypeOK, ClientInv
<1>2. TakenBytes(cq[c]) \in 0 .. currentItem[c].len
  <2>1. CASE \A i \in DOMAIN cq[c] : ~(cq[c][i].op = "send" /\ cq[c][i].res > 0)
    BY <1>1, <2>1, NoneTaken DEF Item
  <2>2. ASSUME NEW i \in DOMAIN cq[c], cq[c][i].op = "send", cq[c][i].res > 0
        PROVE  TakenBytes(cq[c]) \in 0 .. currentItem[c].len
    <3>1. cq[c][i].res \in Int
      <4>1. cq[c][i] \in Completion
        BY <1>1, ElementOfSeq, LenProperties
      <4>2. QED
        BY <4>1 DEF Completion
    <3>2. TakenBytes(cq[c]) = cq[c][i].res /\ cq[c][i].res <= currentItem[c].len
      BY <1>1, <2>2, OneTaken DEF SendInv
    <3>3. currentItem[c].len \in Nat
      BY <1>1 DEF Item
    <3>4. QED
      BY <2>2, <3>1, <3>2, <3>3
  <2>3. QED
    BY <2>1, <2>2
<1>3. Owed(c) \in Seq(Item)
  BY <1>1, <1>2, RemainingProps DEF Owed
<1>4. ASSUME ~HasContent(c) PROVE Owed(c) = <<>> /\ TakenBytes(cq[c]) = 0
  <2>1. pendingItems[c] = <<>> /\ currentItem[c].len = 0
    BY <1>1, <1>4 DEF BacklogInv, HasContent, Item
  <2>2. TakenBytes(cq[c]) = 0
    BY <1>2, <2>1
  <2>3. QED
    BY <2>1, <2>2 DEF Owed, Remaining
<1>5. QED
  BY <1>1, <1>2, <1>3, <1>4

(* Steps that hand over no batch and no bytes.                             *)
LEMMA OwedFrame ==
  ASSUME \A c \in Clients : Owed(c)' = Owed(c)
  PROVE  [c \in Clients |-> Owed(c)]' = [c \in Clients |-> Owed(c)]
OBVIOUS

(* A client whose batches and completions stay is owed what it was.        *)
LEMMA OwedUntouched ==
  ASSUME NEW c \in Clients, currentItem'[c] = currentItem[c], pendingItems'[c] = pendingItems[c],
         cq'[c] = cq[c]
  PROVE  Owed(c)' = Owed(c)
BY DEF Owed

(* A completion is reaped: what the client is owed stays what it was, for  *)
(* the bytes it says were taken had left what is owed when they were.      *)
LEMMA OwedPoll ==
  ASSUME IInv, NEW c \in clients, PollClient(c), TakenInv(c), UNCHANGED commandVars
  PROVE  Owed(c)' = Owed(c)
<1>1. Reaping(c)
  BY DEF PollClient, Reaping
<1>2. /\ c \in Clients /\ ClientInv(c) /\ ConnTypeOK
      /\ Head(cq[c]) = cq[c][1] /\ 1 \in DOMAIN cq[c]
      /\ \A j \in DOMAIN cq'[c] : j + 1 \in DOMAIN cq[c] /\ cq'[c][j] = cq[c][j + 1]
      /\ \A j \in DOMAIN cq'[c] : j \in Nat /\ j >= 1
      /\ currentItem \in [Clients -> Item] /\ pendingItems \in [Clients -> Seq(Item)]
      /\ cq[c] \in Seq(Completion) /\ Head(cq[c]).res \in Int /\ Len(cq[c]) \in Nat
      /\ Len(cq'[c]) = Len(cq[c]) - 1 /\ cq'[c] \in Seq(Completion)
  BY <1>1, ReapedProps DEF Completion
<1>3. ASSUME UNCHANGED sendVars, ~(cq[c][1].op = "send" /\ cq[c][1].res > 0)
      PROVE  Owed(c)' = Owed(c)
  <2>1. TakenBytes(cq'[c]) = TakenBytes(cq[c])
    <3>1. CASE \A i \in DOMAIN cq[c] : ~(cq[c][i].op = "send" /\ cq[c][i].res > 0)
      BY <1>2, <3>1, NoneTaken
    <3>2. ASSUME NEW i \in DOMAIN cq[c], cq[c][i].op = "send", cq[c][i].res > 0
          PROVE  TakenBytes(cq'[c]) = TakenBytes(cq[c])
      <4>1. TakenBytes(cq[c]) = cq[c][i].res
        BY <1>2, <3>2, OneTaken DEF ClientInv, SendInv
      <4>2. i # 1
        BY <1>3, <3>2
      <4>3. i - 1 \in DOMAIN cq'[c] /\ cq'[c][i - 1] = cq[c][i]
        BY <1>2, <4>2, LenProperties, SMTT(30)
      <4>4. \A j \in DOMAIN cq'[c] : cq'[c][j].op = "send" => j = i - 1
        BY <1>2, <3>2 DEF ClientInv, SendInv
      <4>5. QED
        BY <3>2, <4>1, <4>3, <4>4, OneTaken
    <3>3. QED
      BY <3>1, <3>2
  <2>2. QED
    BY <1>3, <2>1 DEF Owed, sendVars
<1>4. CASE ~(cq[c][1].op = "send" /\ cq[c][1].res > 0)
  <2>1. CASE UNCHANGED sendVars
    BY <1>3, <1>4, <2>1
  <2>2. CASE SendGoesOn(c)
    <3>1. event[c] = "SendData" /\ cq[c][1].res > 0
      BY <1>2, <2>2 DEF SendGoesOn, OnSendCurrentMessageComplete
    <3>2. cq[c][1].op \in {"send", "close"} /\ ~(cq[c][1].op = "close")
      BY <1>2, <3>1 DEF ClientInv, EventInv, SendInv
    <3>3. QED
      BY <1>4, <3>1, <3>2
  <2>3. QED
    BY <1>2, <2>1, <2>2, PollCases DEF HandshakeGoesOn, SendFails
<1>5. CASE cq[c][1].op = "send" /\ cq[c][1].res > 0
  <2> DEFINE res == Head(cq[c]).res
             rest == Advance(currentItem[c], res)
             next == Head(pendingItems[c])
  <2>1. event[c] = "SendData" /\ ~isDisconnected[c] /\ res # EAGAIN
    BY <1>2, <1>5 DEF TakenInv, ClientInv, EventInv, EAGAIN
  <2>2. OnSendCurrentMessageComplete(c, res)
    BY <1>2, <2>1 DEF PollClient, HandleEvent, OnMakeNonblockingSocketComplete,
       OnIntentReceived, OnReceiveNameComplete, OnDisconnected, OnSendAckComplete
  <2>3. /\ \A j \in DOMAIN cq'[c] : cq'[c][j].op = "close" /\ cq'[c][j].res <= 0
        /\ res \in Nat /\ res > 0 /\ res <= currentItem[c].len /\ currentItem[c] \in Item
    BY <1>1, <1>2, <1>5, <2>1, SendResult
  <2>4. TakenBytes(cq'[c]) = 0 /\ TakenBytes(cq[c]) = res
    <3>1. TakenBytes(cq'[c]) = 0
      BY <2>3, NoneTaken
    <3>2. TakenBytes(cq[c]) = cq[c][1].res
      BY <1>2, <1>5, OneTaken DEF ClientInv, SendInv
    <3>3. QED
      BY <1>2, <3>1, <3>2
  <2>5. rest \in Item /\ rest.len = currentItem[c].len - res /\ pendingItems[c] \in Seq(Item)
    <3> HIDE DEF res
    <3>1. res \in 0 .. currentItem[c].len
      BY <2>3 DEF Item
    <3>2. QED
      BY <1>2, <2>3, <3>1, AdvanceProps
  <2>6. IF rest.len = 0 THEN SentAll(c) ELSE SendCurrentMessage(c, rest) /\ UNCHANGED pendingItems
    BY <2>2, <2>3 DEF OnSendCurrentMessageComplete
  <2>7. Owed(c) = IF rest.len = 0 THEN pendingItems[c] ELSE <<rest>> \o pendingItems[c]
    <3>1. currentItem[c].len \in Nat
      BY <2>3 DEF Item
    <3>2. QED
      BY <2>3, <2>4, <2>5, <3>1 DEF Owed, Remaining
  <2> HIDE DEF res, rest, next
  <2>8. CASE rest.len # 0
    <3>1. currentItem'[c] = rest /\ pendingItems'[c] = pendingItems[c] /\ rest.len > 0
      BY <1>2, <2>5, <2>6, <2>8 DEF SendCurrentMessage, Item
    <3>2. Owed(c)' = Remaining(rest, 0, pendingItems[c])
      BY <2>4, <3>1 DEF Owed
    <3>3. QED
      BY <2>5, <2>7, <2>8, <3>1, <3>2, RemainingWhole
  <2>9. CASE rest.len = 0 /\ pendingItems[c] # <<>>
    <3>1. /\ next \in Item /\ next = pendingItems[c][1] /\ 1 \in DOMAIN pendingItems[c]
          /\ Tail(pendingItems[c]) \in Seq(Item)
          /\ pendingItems[c] = <<next>> \o Tail(pendingItems[c])
      <4>1. \A t \in Seq(Item) : t # <<>> =>
              /\ Head(t) \in Item /\ Head(t) = t[1] /\ 1 \in DOMAIN t /\ Tail(t) \in Seq(Item)
              /\ t = <<Head(t)>> \o Tail(t)
        OBVIOUS
      <4>2. QED
        BY <2>5, <2>9, <4>1 DEF next
    <3>2. next.len > 0
      BY <1>2, <3>1 DEF ClientInv, BacklogInv
    <3>3. currentItem'[c] = next /\ pendingItems'[c] = Tail(pendingItems[c])
      BY <1>2, <2>6, <2>9, <3>2 DEF SentAll, SendNextPendingMessageBatch, SendCurrentMessage, next
    <3>4. Owed(c)' = Remaining(next, 0, Tail(pendingItems[c]))
      BY <2>4, <3>3 DEF Owed
    <3>5. Owed(c)' = <<next>> \o Tail(pendingItems[c])
      BY <3>1, <3>2, <3>4, RemainingWhole
    <3>6. QED
      BY <2>7, <2>9, <3>1, <3>5
  <2>10. CASE rest.len = 0 /\ pendingItems[c] = <<>>
    <3>1. currentItem'[c] = NoItem /\ pendingItems'[c] = <<>>
      BY <1>2, <2>6, <2>10 DEF SentAll
    <3>2. Owed(c)' = <<>>
      BY <2>4, <3>1 DEF Owed, Remaining, NoItem
    <3>3. QED
      BY <2>7, <2>10, <3>2
  <2>11. QED
    BY <2>8, <2>9, <2>10
<1>6. QED
  BY <1>4, <1>5
-------------------------------------------------------------------------------
(* Clients come and go: nothing is owed or received.                       *)
LEMMA ConnectStep ==
  ASSUME clients' \in SUBSET Clients, \A c \in Clients : Owed(c)' = Owed(c),
         UNCHANGED <<published, messageQueue, subscriptions, wire>>
  PROVE  Promise!Connect
BY OwedFrame DEF Promise!Connect

(* So are commands and timeouts: they change subscriptions only.           *)
LEMMA SubscribeStep ==
  ASSUME subscriptions' \in [Clients -> SUBSET Subs],
         \A c \in Clients : Owed(c)' = Owed(c),
         UNCHANGED <<published, messageQueue, clients, isDisconnected, wire>>
  PROVE  Promise!Subscribe
BY OwedFrame DEF Promise!Subscribe

(* Steps of which PubSub sees nothing.                                     *)
LEMMA StutterStep ==
  ASSUME UNCHANGED <<published, messageQueue, subscriptions, clients, isDisconnected, wire,
                     currentItem, pendingItems>>,
         \A c \in Clients : TakenBytes(cq'[c]) = TakenBytes(cq[c])
  PROVE  UNCHANGED Promise!vars
<1>1. \A c \in Clients : Owed(c)' = Owed(c)
  BY DEF Owed
<1>2. QED
  BY <1>1, OwedFrame DEF Promise!vars

(* A batch is published, or announced, which PubSub does not see.          *)
LEMMA PublishStep ==
  ASSUME IInv, PublisherThread
  PROVE  Promise!Publish \/ UNCHANGED Promise!vars
<1>1. UNCHANGED <<connVars, subVars, serverVars>>
  BY DEF PublisherThread
<1>2. /\ cq' = cq /\ currentItem' = currentItem /\ pendingItems' = pendingItems
      /\ UNCHANGED <<subscriptions, clients, isDisconnected, wire>>
  BY <1>1 DEF connVars, subVars, serverVars
<1>3. CASE Announce
  BY <1>2, <1>3, StutterStep DEF Announce
<1>4. ASSUME NEW t \in Types, NEW n \in Lengths, Push(t, n) PROVE Promise!Publish
  <2>1. [c \in Clients |-> Owed(c)]' = [c \in Clients |-> Owed(c)]
    BY <1>2, OwedUntouched
  <2>2. published' = published + 1
        /\ messageQueue' = Append(messageQueue, [id |-> published', type |-> t, len |-> n])
    BY <1>4 DEF Push
  <2>3. QED
    BY <1>2, <2>1, <2>2 DEF Promise!Publish
<1>5. QED
  BY <1>3, <1>4 DEF PublisherThread

(* A batch of the queue as a client is owed it. *)
LEMMA WholeProps ==
  ASSUME messageQueue \in Seq(Batch), messageQueue # <<>>
  PROVE  /\ Promise!Whole(Head(messageQueue)) \in Item
         /\ Promise!Whole(Head(messageQueue)).id = Head(messageQueue).id
         /\ Promise!Whole(Head(messageQueue)).pos = 0
         /\ Promise!Whole(Head(messageQueue)).len > 0
         /\ Promise!Whole(Head(messageQueue)) = ItemOf(Head(messageQueue))
<1> DEFINE batch == Head(messageQueue)
<1>1. batch \in Batch
  BY TailProps
<1> HIDE DEF batch
<1>2. batch.id \in Nat /\ batch.len \in Nat /\ batch.len # 0
  BY <1>1, QueueAssumption DEF Batch
<1>3. Promise!Whole(batch) = [id |-> batch.id, pos |-> 0, len |-> batch.len]
  BY DEF Promise!Whole
<1>4. Promise!Whole(batch) = ItemOf(batch)
  BY DEF Promise!Whole, ItemOf
<1>5. /\ Promise!Whole(batch) \in Item /\ Promise!Whole(batch).id = batch.id
      /\ Promise!Whole(batch).pos = 0 /\ Promise!Whole(batch).len > 0
  BY <1>2, <1>3 DEF Item
<1>6. QED
  BY <1>4, <1>5 DEF batch

(* A batch is handed out: those connected and subscribed are owed it.      *)
LEMMA HandOutStep ==
  ASSUME IInv, FanOut
  PROVE  Promise!FanOut
<1> DEFINE batch == Head(messageQueue)
           item == ItemOf(batch)
<1>1. item \in Item /\ item.len > 0 /\ Promise!Whole(batch) = item
  BY WholeProps DEF IInv, TypeOK, QueueTypeOK, FanOut, TryPop
<1>2. /\ messageQueue # <<>> /\ messageQueue' = Tail(messageQueue)
      /\ UNCHANGED <<published, subscriptions, wire, clients, isDisconnected>> /\ cq' = cq
  BY DEF FanOut, TryPop, serverVars
<1>3. ASSUME NEW c \in Clients PROVE Promise!Wants(c, batch) <=> c \in Receivers(batch)
  BY DEF Promise!Wants, Receivers, IsSubscribed
<1>4. ASSUME NEW c \in Clients
      PROVE  Owed(c)' = IF c \in Receivers(batch) THEN Append(Owed(c), item) ELSE Owed(c)
  <2>1. /\ currentItem' = [d \in Clients |-> IF d \in {e \in Receivers(batch) : ~HasContent(e)}
                                             THEN item ELSE currentItem[d]]
        /\ pendingItems' = [d \in Clients |->
             IF d \in Receivers(batch) \ {e \in Receivers(batch) : ~HasContent(e)}
             THEN Append(pendingItems[d], item) ELSE pendingItems[d]]
    BY DEF FanOut, PushMessageBatch
  <2>2. /\ currentItem[c] \in Item /\ pendingItems[c] \in Seq(Item)
        /\ TakenBytes(cq[c]) \in 0 .. currentItem[c].len
        /\ ~HasContent(c) => Owed(c) = <<>> /\ TakenBytes(cq[c]) = 0 /\ pendingItems[c] = <<>>
    BY OwedProps DEF IInv, ClientInv, BacklogInv
  <2> HIDE DEF batch, item
  <2>3. CASE c \in Receivers(batch) /\ ~HasContent(c)
    <3>1. currentItem'[c] = item /\ pendingItems'[c] = <<>>
      BY <2>1, <2>2, <2>3
    <3>2. Owed(c)' = <<item>> \o <<>>
      BY <1>1, <1>2, <2>2, <2>3, <3>1, RemainingWhole DEF Owed
    <3>3. QED
      BY <1>1, <2>2, <2>3, <3>2
  <2>4. CASE c \in Receivers(batch) /\ HasContent(c)
    <3>1. currentItem'[c] = currentItem[c] /\ pendingItems'[c] = Append(pendingItems[c], item)
      BY <2>1, <2>4
    <3>2. QED
      BY <1>1, <1>2, <2>2, <2>4, <3>1, RemainingProps, SMTT(30) DEF Owed, HasContent
  <2>5. CASE c \notin Receivers(batch)
    <3>1. currentItem'[c] = currentItem[c] /\ pendingItems'[c] = pendingItems[c]
      BY <2>1, <2>5
    <3>2. QED
      BY <1>2, <2>5, <3>1 DEF Owed
  <2>6. QED
    BY <2>3, <2>4, <2>5
<1>5. [c \in Clients |-> Owed(c)]' =
        [c \in Clients |-> IF Promise!Wants(c, batch)
                           THEN Append([d \in Clients |-> Owed(d)][c], Promise!Whole(batch))
                           ELSE [d \in Clients |-> Owed(d)][c]]
  BY <1>1, <1>3, <1>4
<1>6. QED
  BY <1>2, <1>5 DEF Promise!FanOut

(* The kernel takes bytes of a send, and they leave what the client is     *)
(* owed; any other completion leaves everything as it was.                 *)
LEMMA TransmitStep ==
  ASSUME IInv, NEW c \in Clients, KernelStep(c)
  PROVE  Promise!Transmit(c) \/ UNCHANGED Promise!vars
<1>1. PICK i \in DOMAIN sq[c] : \E res \in Outcomes(c, sq[c][i]) :
        /\ KernelCompletes(c, i, res)
        /\ wire' = IF sq[c][i].op = "send" /\ res > 0
                   THEN [wire EXCEPT ![c] = @ \o Bytes(sq[c][i].item, res)]
                   ELSE wire
  BY DEF KernelStep, Kernel
<1>2. PICK res \in Outcomes(c, sq[c][i]) :
        /\ KernelCompletes(c, i, res)
        /\ wire' = IF sq[c][i].op = "send" /\ res > 0
                   THEN [wire EXCEPT ![c] = @ \o Bytes(sq[c][i].item, res)]
                   ELSE wire
  BY <1>1
<1> DEFINE q == sq[c][i]
           done == [op |-> q.op, item |-> q.item, res |-> res]
           item == currentItem[c]
<1>3. /\ SendInv(c)
      /\ sq[c] \in Seq(Request) /\ cq[c] \in Seq(Completion) /\ cq \in [Clients -> Seq(Completion)]
      /\ item \in Item /\ pendingItems[c] \in Seq(Item)
  BY DEF IInv, TypeOK, ConnTypeOK, SubTypeOK, ClientInv
<1>4. q \in Request /\ (q.op = "send" => q.item = item /\ item.len > 0)
  <2>1. q \in Request
    BY <1>3, ElementOfSeq, LenProperties
  <2>2. QED
    BY <1>3, <2>1 DEF SendInv
<1>5. res \in Int /\ (q.op = "send" => res <= item.len)
  BY <1>4, OutcomesProps
<1>6. done \in Completion /\ done.op = q.op /\ done.res = res
  BY <1>4, <1>5 DEF Request, Completion
<1>7. /\ cq' = [cq EXCEPT ![c] = Append(@, done)]
      /\ UNCHANGED <<currentItem, pendingItems, published, messageQueue, subscriptions,
                     clients, isDisconnected>>
      /\ wire' = IF q.op = "send" /\ res > 0
                 THEN [wire EXCEPT ![c] = @ \o Bytes(q.item, res)]
                 ELSE wire
  BY <1>2 DEF KernelStep, KernelCompletes, sendVars, queueVars, serverVars
<1> HIDE DEF q, done
<1>8. /\ cq'[c] = Append(cq[c], done)
      /\ \A d \in Clients \ {c} : cq'[d] = cq[d]
  BY <1>3, <1>7
<1>9. /\ Len(cq[c]) \in Nat /\ DOMAIN cq[c] = 1 .. Len(cq[c])
      /\ Len(cq[c]) + 1 \in DOMAIN cq'[c] /\ cq'[c][Len(cq[c]) + 1] = done
      /\ \A j \in DOMAIN cq[c] : j \in DOMAIN cq'[c] /\ cq'[c][j] = cq[c][j]
      /\ \A j \in DOMAIN cq'[c] : \/ j \in DOMAIN cq[c] /\ cq'[c][j] = cq[c][j]
                                  \/ j = Len(cq[c]) + 1 /\ cq'[c][j] = done
  BY <1>3, <1>6, <1>8, AppendProperties, AppendProps, LenProperties
<1>10. CASE ~(q.op = "send" /\ res > 0)
  <2>1. TakenBytes(cq'[c]) = TakenBytes(cq[c])
    <3>1. CASE \A j \in DOMAIN cq[c] : ~(cq[c][j].op = "send" /\ cq[c][j].res > 0)
      <4>1. \A j \in DOMAIN cq'[c] : ~(cq'[c][j].op = "send" /\ cq'[c][j].res > 0)
        BY <1>6, <1>9, <1>10, <3>1
      <4>2. QED
        BY <3>1, <4>1, NoneTaken
    <3>2. ASSUME NEW j \in DOMAIN cq[c], cq[c][j].op = "send", cq[c][j].res > 0
          PROVE  TakenBytes(cq'[c]) = TakenBytes(cq[c])
      <4>1. q.op # "send"
        BY <1>3, <3>2 DEF SendInv, q
      <4>2. \A k \in DOMAIN cq'[c] : cq'[c][k].op = "send" => k = j
        BY <1>3, <1>6, <1>9, <3>2, <4>1 DEF SendInv
      <4>3. TakenBytes(cq'[c]) = cq[c][j].res
        BY <1>9, <3>2, <4>2, OneTaken
      <4>4. TakenBytes(cq[c]) = cq[c][j].res
        BY <1>3, <3>2, OneTaken DEF SendInv
      <4>5. QED
        BY <4>3, <4>4
    <3>3. QED
      BY <3>1, <3>2
  <2>2. QED
    BY <1>7, <1>8, <1>10, <2>1, StutterStep
<1>11. CASE q.op = "send" /\ res > 0
  <2>1. \A j \in DOMAIN cq[c] : cq[c][j].op # "send"
    BY <1>3, <1>11 DEF SendInv, q
  <2>2. TakenBytes(cq[c]) = 0
    BY <2>1, NoneTaken
  <2>3. TakenBytes(cq'[c]) = res
    <3>1. \A j \in DOMAIN cq'[c] : cq'[c][j].op = "send" => j = Len(cq[c]) + 1
      BY <1>9, <2>1
    <3>2. QED
      BY <1>6, <1>9, <1>11, <3>1, OneTaken
  <2>4. Owed(c) = <<item>> \o pendingItems[c] /\ res \in 1 .. item.len /\ item.len \in Nat
    <3>1. item.len \in Nat /\ item.len > 0 /\ res \in Int /\ res <= item.len
      BY <1>3, <1>4, <1>5, <1>11 DEF Item
    <3>2. res \in 1 .. item.len
      <4> HIDE DEF item
      <4> QED BY <1>11, <3>1
    <3>3. Owed(c) = <<item>> \o pendingItems[c]
      BY <1>3, <2>2, <3>1, RemainingWhole DEF Owed
    <3>4. QED
      BY <3>1, <3>2, <3>3
  <2>5. Owed(c)' = Remaining(item, res, pendingItems[c])
    BY <1>7, <2>3 DEF Owed
  <2>6. Owed(c)' = IF res = item.len THEN Tail(Owed(c))
                   ELSE <<Promise!Rest(item, res)>> \o Tail(Owed(c))
    <3> HIDE DEF item
    <3>1. \A x \in Item, s \in Seq(Item) : Tail(<<x>> \o s) = s
      OBVIOUS
    <3>2. Advance(item, res) = Promise!Rest(item, res)
      BY <1>3, <2>4, AdvanceProps DEF Promise!Rest
    <3>3. QED
      BY <1>3, <2>4, <2>5, <3>1, <3>2 DEF Remaining
  <2>7. Head(Owed(c)) = item /\ Owed(c) # <<>>
    <3> HIDE DEF item
    <3>1. \A x \in Item, s \in Seq(Item) : Head(<<x>> \o s) = x /\ <<x>> \o s # <<>>
      OBVIOUS
    <3>2. QED
      BY <1>3, <2>4, <3>1
  <2>8. \A d \in Clients \ {c} : Owed(d)' = Owed(d)
    BY <1>7, <1>8 DEF Owed
  <2> DEFINE owed == [d \in Clients |-> Owed(d)]
  <2>9. owed' = [owed EXCEPT ![c] = IF res = item.len THEN Tail(@)
                   ELSE <<Promise!Rest(item, res)>> \o Tail(@)]
    <3>1. owed' = [d \in Clients |-> Owed(d)']
      OBVIOUS
    <3>2. owed[c] = Owed(c)
      OBVIOUS
    <3>3. QED
      BY <2>6, <2>8, <3>1, <3>2
  <2>10. wire' = [wire EXCEPT ![c] = @ \o Promise!FirstBytes(item, res)]
    BY <1>4, <1>7, <1>11 DEF Bytes, Promise!FirstBytes
  <2>11. Head(owed[c]) = item /\ owed[c] # <<>>
    BY <2>7
  <2>12. QED
    BY <1>7, <2>4, <2>9, <2>10, <2>11 DEF Promise!Transmit
<1>12. QED
  BY <1>10, <1>11

(* The server starts as PubSub does.                                       *)
LEMMA InitImplements == Init => Promise!Init
<1> SUFFICES ASSUME Init PROVE Promise!Init
  OBVIOUS
<1>1. [c \in Clients |-> Owed(c)] = [c \in Clients |-> <<>>]
  <2>1. ASSUME NEW c \in Clients PROVE Owed(c) = <<>>
    <3>1. ~HasContent(c)
      BY DEF Init, SubInit, HasContent, NoItem
    <3>2. QED
      BY <3>1, InitIInv, OwedProps
  <2>2. QED
    BY <2>1
<1>2. QED
  BY <1>1 DEF Init, QueueInit, ConnInit, SubInit, ServerInit, Promise!Init

(* Every step is one PubSub allows, or changes nothing it sees.            *)
LEMMA StepImplements ==
  ASSUME IInv, \A c \in Clients : TakenInv(c), [Next]_vars
  PROVE  [Promise!Next]_(Promise!vars)
<1>1. /\ IInv' /\ clients \in SUBSET Clients /\ clients' \in SUBSET Clients
      /\ subscriptions' \in [Clients -> SUBSET Subs]
      /\ cq \in [Clients -> Seq(Completion)]
  BY NextIInv DEF IInv, TypeOK, ServerTypeOK, SubTypeOK, ConnTypeOK
<1>2. CASE UNCHANGED vars
  BY <1>2, StutterStep DEF vars, queueVars, connVars, subVars, serverVars
<1>3. CASE PublisherThread
  BY <1>3, PublishStep DEF Promise!Next
<1>4. CASE CommandThread
  <2>1. UNCHANGED <<published, messageQueue, clients, isDisconnected, wire, currentItem,
                    pendingItems, cq>>
    BY <1>4 DEF CommandThread, connVars, sendVars, queueVars, serverVars
  <2>2. \A c \in Clients : Owed(c)' = Owed(c)
    BY <2>1, OwedUntouched
  <2>3. QED
    BY <1>1, <2>1, <2>2, SubscribeStep DEF Promise!Next
<1>5. ASSUME NEW c \in Clients, KernelStep(c) PROVE [Promise!Next]_(Promise!vars)
  BY <1>5, TransmitStep DEF Promise!Next
<1>6. CASE QuietThread
  <2>1. UNCHANGED <<connVars, sendVars, clients, wire, published, messageQueue>>
    <3>1. UNCHANGED <<published, messageQueue>>
      BY <1>6 DEF QuietThread, OnSetupListeningSocketComplete, OnAcceptConnectionFailed,
         FinishTake, PollTimeout, HandleTimeouts, WaitForData, DrainDone, Clear, threadVars,
         queueVars, ClearPendingData
    <3>2. QED
      BY <1>6, <3>1, QuietThreadKeeps
  <2>2. \A c \in Clients : Owed(c)' = Owed(c)
    BY <2>1, OwedUntouched DEF connVars, sendVars
  <2>3. QED
    BY <1>1, <2>1, <2>2, SubscribeStep DEF Promise!Next, connVars
<1>7. ASSUME NEW c \in Clients, OnAcceptConnectionComplete(c) PROVE [Promise!Next]_(Promise!vars)
  <2>1. UNCHANGED <<published, messageQueue, subscriptions, wire, currentItem, pendingItems, cq>>
    BY <1>7 DEF OnAcceptConnectionComplete, BeginMakeNonblockingSocket, subVars, queueVars
  <2>2. \A d \in Clients : Owed(d)' = Owed(d)
    BY <2>1, OwedUntouched
  <2>3. QED
    BY <1>1, <2>1, <2>2, ConnectStep DEF Promise!Next
<1>8. ASSUME NEW c \in clients, PollClient(c), UNCHANGED commandVars
      PROVE  [Promise!Next]_(Promise!vars)
  <2>1. UNCHANGED <<published, messageQueue, subscriptions, wire>>
    BY <1>8 DEF PollClient, queueVars
  <2>2. ASSUME NEW d \in Clients PROVE Owed(d)' = Owed(d)
    <3>1. CASE d = c
      BY <1>8, <3>1, OwedPoll
    <3>2. CASE d # c
      <4>1. Reaping(c) /\ c \in Clients
        BY <1>1, <1>8 DEF PollClient, Reaping
      <4>2. OthersKept(c) /\ cq' = [cq EXCEPT ![c] = Tail(@)]
        BY <1>8, <4>1, ReapGood DEF Good, Reaping
      <4>3. QED
        BY <1>1, <3>2, <4>2, OwedUntouched DEF OthersKept
    <3>3. QED
      BY <3>1, <3>2
  <2>3. QED
    BY <1>1, <2>1, <2>2, ConnectStep DEF Promise!Next
<1>9. CASE FanOut
  BY <1>9, HandOutStep DEF Promise!Next
<1>10. QED
  BY <1>2, <1>3, <1>4, <1>5, <1>6, <1>7, <1>8, <1>9 DEF Next, SubscriberThread, QuietThread
-------------------------------------------------------------------------------
(* What is in the queue, owed and received, and where.                     *)
LEMMA OrderedTypes ==
  ASSUME NEW q \in Seq(Batch), NEW o \in Seq(Item), NEW w \in Seq(Nat \X Nat)
  PROVE  /\ Len(q) \in Nat /\ Len(o) \in Nat /\ Len(w) \in Nat
         /\ \A i \in DOMAIN q : i \in Nat /\ i >= 1 /\ i <= Len(q) /\ q[i].id \in Nat
         /\ \A i \in DOMAIN o : i \in Nat /\ i >= 1 /\ i <= Len(o)
         /\ \A i \in DOMAIN o : o[i].id \in Nat /\ o[i].pos \in Nat /\ o[i].len \in Nat
         /\ w # <<>> => w[Len(w)][1] \in Nat
         /\ w = <<>> <=> Len(w) = 0
<1>1. /\ Len(q) \in Nat /\ Len(o) \in Nat /\ Len(w) \in Nat
      /\ DOMAIN q = 1 .. Len(q) /\ DOMAIN o = 1 .. Len(o)
      /\ w = <<>> <=> Len(w) = 0
  BY LenProperties, EmptySeq
<1>2. ASSUME NEW i \in DOMAIN q PROVE q[i].id \in Nat
  <2>1. q[i] \in Batch
    BY <1>1, ElementOfSeq
  <2>2. QED
    BY <2>1 DEF Batch
<1>3. ASSUME NEW i \in DOMAIN o PROVE o[i].id \in Nat /\ o[i].pos \in Nat /\ o[i].len \in Nat
  <2>1. o[i] \in Item
    BY <1>1, ElementOfSeq
  <2>2. QED
    BY <2>1 DEF Item
<1>4. ASSUME w # <<>> PROVE w[Len(w)][1] \in Nat
  <2>1. w[Len(w)] \in Nat \X Nat
    BY <1>1, <1>4, ElementOfSeq
  <2>2. QED
    BY <2>1
<1>5. QED
  BY <1>1, <1>2, <1>3, <1>4

(* A batch is published: it is behind everything published before it.      *)
LEMMA OrderedPublish ==
  ASSUME NEW q \in Seq(Batch), NEW o \in Seq(Item), NEW w \in Seq(Nat \X Nat), NEW p \in Nat,
         NEW b \in Batch, b.id = p + 1, Ordered(q, o, w, p)
  PROVE  Ordered(Append(q, b), o, w, p + 1)
<1> DEFINE q2 == Append(q, b)
<1>1. \A i \in DOMAIN q2 : \/ i \in DOMAIN q /\ q2[i] = q[i]
                           \/ i = Len(q) + 1 /\ q2[i] = b
  BY AppendProps
<1>2. /\ Len(q) \in Nat /\ \A i \in DOMAIN q : i \in Nat /\ i <= Len(q) /\ q[i].id \in Nat
      /\ \A i \in DOMAIN o : o[i].id \in Nat
      /\ w # <<>> => w[Len(w)][1] \in Nat
  BY OrderedTypes
<1>3. /\ \A i \in DOMAIN q : q[i].id <= p /\ q[i].id < b.id
      /\ \A i \in DOMAIN o : o[i].id <= p /\ o[i].id < b.id
      /\ w # <<>> => w[Len(w)][1] <= p /\ w[Len(w)][1] < b.id
  <2>1. /\ \A i \in DOMAIN q : q[i].id <= p
        /\ \A i \in DOMAIN o : o[i].id <= p
        /\ w # <<>> => w[Len(w)][1] <= p
    BY DEF Ordered
  <2>2. QED
    BY <1>2, <2>1
<1> HIDE DEF q2
<1>4. ASSUME NEW i \in DOMAIN q2
      PROVE  q2[i].id <= p + 1 /\ \A j \in DOMAIN q2 : i < j => q2[i].id < q2[j].id
  <2>1. q2[i].id <= p + 1
    BY <1>1, <1>2, <1>3
  <2>2. \A k, j \in DOMAIN q : k < j => q[k].id < q[j].id
    BY DEF Ordered
  <2>3. \A j \in DOMAIN q2 : i < j => q2[i].id < q2[j].id
    BY <1>1, <1>2, <1>3, <2>2
  <2>4. QED
    BY <2>1, <2>3
<1>5. ASSUME NEW i \in DOMAIN o
      PROVE  /\ o[i].id <= p + 1 /\ o[i].len > 0 /\ (i > 1 => o[i].pos = 0)
             /\ \A j \in DOMAIN o : i < j => o[i].id < o[j].id
             /\ \A j \in DOMAIN q2 : o[i].id < q2[j].id
  <2>1. o[i].len > 0 /\ (i > 1 => o[i].pos = 0) /\ \A j \in DOMAIN o : i < j => o[i].id < o[j].id
    BY DEF Ordered
  <2>2. o[i].id <= p + 1
    BY <1>2, <1>3
  <2>3. \A j \in DOMAIN q2 : o[i].id < q2[j].id
    <3>1. \A j \in DOMAIN q : o[i].id < q[j].id
      BY DEF Ordered
    <3>2. QED
      BY <1>1, <1>3, <3>1
  <2>4. QED
    BY <2>1, <2>2, <2>3
<1>6. w # <<>> => /\ w[Len(w)][1] <= p + 1
                  /\ o # <<>> => Follows(w[Len(w)], <<o[1].id, o[1].pos>>)
                  /\ \A j \in DOMAIN q2 : w[Len(w)][1] < q2[j].id
  <2>1. w # <<>> => /\ o # <<>> => Follows(w[Len(w)], <<o[1].id, o[1].pos>>)
                    /\ \A j \in DOMAIN q : w[Len(w)][1] < q[j].id
    BY DEF Ordered
  <2>2. w # <<>> => \A j \in DOMAIN q2 : w[Len(w)][1] < q2[j].id
    BY <1>1, <1>3, <2>1
  <2>3. w # <<>> => w[Len(w)][1] <= p + 1
    BY <1>2, <1>3
  <2>4. QED
    BY <2>1, <2>2, <2>3
<1>7. Ordered(q2, o, w, p + 1)
  BY <1>4, <1>5, <1>6 DEF Ordered
<1>8. QED
  BY <1>7 DEF q2

(* A batch leaves the queue, and is owed or not: it is behind everything   *)
(* owed and received, and before the rest of the queue.                    *)
LEMMA OrderedHandOut ==
  ASSUME NEW q \in Seq(Batch), q # <<>>, NEW o \in Seq(Item), NEW w \in Seq(Nat \X Nat),
         NEW p \in Nat, NEW item \in Item,
         item.id = Head(q).id, item.pos = 0, item.len > 0, Ordered(q, o, w, p)
  PROVE  Ordered(Tail(q), o, w, p) /\ Ordered(Tail(q), Append(o, item), w, p)
<1> DEFINE q2 == Tail(q)
           o2 == Append(o, item)
<1>1. /\ \A i \in DOMAIN q2 : i \in Nat /\ i >= 1 /\ i + 1 \in DOMAIN q /\ q2[i] = q[i + 1]
      /\ 1 \in DOMAIN q /\ item.id = q[1].id
      /\ \A i \in DOMAIN q : i \in Nat /\ q[i].id \in Nat
  <2>1. \A i \in DOMAIN q : q[i] \in Batch
    BY LenProperties, ElementOfSeq
  <2>2. q2 \in Seq(Batch)
    BY TailProps
  <2>3. \A i \in DOMAIN q2 : i \in Nat /\ i >= 1
    BY <2>2, LenProperties
  <2>4. QED
    BY <2>1, <2>3, TailProps, LenProperties DEF Batch
<1>2. \A i \in DOMAIN o2 : \/ i \in DOMAIN o /\ o2[i] = o[i]
                           \/ i = Len(o) + 1 /\ o2[i] = item
  BY AppendProps
<1>3. /\ \A i \in DOMAIN o : i \in Nat /\ i <= Len(o) /\ o[i].id \in Nat
      /\ Len(o) \in Nat /\ item.id \in Nat
      /\ o = <<>> => o2[1] = item
      /\ o # <<>> => o2[1] = o[1]
  <2>1. item.id \in Nat
    BY DEF Item
  <2>2. o = <<>> => o2[1] = item
    BY AppendProperties, EmptySeq
  <2>3. o # <<>> => o2[1] = o[1]
    BY AppendProperties, EmptySeq, LenProperties
  <2>4. QED
    BY <2>1, <2>2, <2>3, OrderedTypes
<1>4. w # <<>> => w[Len(w)][1] \in Nat
  BY EmptySeq, LenProperties, ElementOfSeq
<1> HIDE DEF q2, o2
<1>5. ASSUME NEW i \in DOMAIN q2
      PROVE  /\ q2[i].id <= p /\ item.id < q2[i].id
             /\ \A j \in DOMAIN q2 : i < j => q2[i].id < q2[j].id
  <2>1. q2[i].id <= p
    BY <1>1 DEF Ordered
  <2>2. item.id < q2[i].id
    <3>1. 1 < i + 1
      BY <1>1
    <3>2. q[1].id < q[i + 1].id
      BY <1>1, <3>1 DEF Ordered
    <3>3. QED
      BY <1>1, <3>2
  <2>3. ASSUME NEW j \in DOMAIN q2, i < j PROVE q2[i].id < q2[j].id
    <3>1. i + 1 < j + 1 /\ i + 1 \in DOMAIN q /\ j + 1 \in DOMAIN q
      BY <1>1, <2>3
    <3>2. QED
      BY <1>1, <3>1 DEF Ordered
  <2>4. QED
    BY <2>1, <2>2, <2>3
<1>6. \A i \in DOMAIN o : o[i].id < item.id /\ \A j \in DOMAIN q2 : o[i].id < q2[j].id
  BY <1>1 DEF Ordered
<1>7. w # <<>> => w[Len(w)][1] < item.id /\ \A j \in DOMAIN q2 : w[Len(w)][1] < q2[j].id
  BY <1>1 DEF Ordered
<1>8. Ordered(q2, o, w, p)
  BY <1>5, <1>6, <1>7 DEF Ordered
<1>9. Ordered(q2, o2, w, p)
  <2>1. item.id <= p
    BY <1>1 DEF Ordered
  <2>2. ASSUME NEW i \in DOMAIN o2
        PROVE  /\ o2[i].id <= p /\ o2[i].len > 0 /\ (i > 1 => o2[i].pos = 0)
               /\ \A j \in DOMAIN o2 : i < j => o2[i].id < o2[j].id
               /\ \A j \in DOMAIN q2 : o2[i].id < q2[j].id
    <3>1. o2[i].id <= p /\ o2[i].len > 0 /\ (i > 1 => o2[i].pos = 0)
      BY <1>2, <2>1 DEF Ordered
    <3>2. \A j \in DOMAIN o2 : i < j => o2[i].id < o2[j].id
      BY <1>2, <1>3, <1>6 DEF Ordered
    <3>3. \A j \in DOMAIN q2 : o2[i].id < q2[j].id
      BY <1>2, <1>5, <1>6
    <3>4. QED
      BY <3>1, <3>2, <3>3
  <2>3. w # <<>> => Follows(w[Len(w)], <<o2[1].id, o2[1].pos>>)
    <3>1. CASE o = <<>>
      BY <1>3, <1>7, <3>1 DEF Follows
    <3>2. CASE o # <<>>
      BY <1>3, <3>2 DEF Ordered
    <3>3. QED
      BY <3>1, <3>2
  <2>4. QED
    BY <1>5, <1>7, <2>2, <2>3 DEF Ordered
<1>10. QED
  BY <1>8, <1>9 DEF q2, o2

(* Bytes of the first batch that is owed reach the client.                 *)
LEMMA OrderedTransmit ==
  ASSUME NEW q \in Seq(Batch), NEW o \in Seq(Item), NEW w \in Seq(Nat \X Nat), NEW p \in Nat,
         o # <<>>, NEW n \in 1 .. Head(o).len, Ordered(q, o, w, p)
  PROVE  Ordered(q, IF n = Head(o).len THEN Tail(o) ELSE <<Promise!Rest(Head(o), n)>> \o Tail(o),
                 w \o Promise!FirstBytes(Head(o), n), p)
<1> DEFINE first == Head(o)
           bytes == Promise!FirstBytes(first, n)
           rest == Promise!Rest(first, n)
           w2 == w \o bytes
           last == <<first.id, first.pos + n - 1>>
<1>1. /\ first \in Item /\ first = o[1] /\ 1 \in DOMAIN o
      /\ Tail(o) \in Seq(Item)
      /\ \A i \in DOMAIN Tail(o) : i \in Nat /\ i >= 1 /\ i + 1 \in DOMAIN o /\ Tail(o)[i] = o[i + 1]
      /\ \A i \in DOMAIN o : i \in Nat /\ o[i] \in Item
  <2>1. Tail(o) \in Seq(Item)
    BY TailProps
  <2>2. \A i \in DOMAIN Tail(o) : i \in Nat /\ i >= 1
    BY <2>1, LenProperties
  <2>3. \A i \in DOMAIN o : i \in Nat /\ o[i] \in Item
    BY LenProperties, ElementOfSeq
  <2>4. QED
    BY <2>1, <2>2, <2>3, TailProps
<1>2. first.id \in Nat /\ first.pos \in Nat /\ first.len \in Nat /\ n \in Nat /\ n >= 1 /\ n <= first.len
  BY <1>1 DEF Item
<1>3. /\ bytes \in Seq(Nat \X Nat) /\ Len(bytes) = n
      /\ \A k \in 1 .. n : bytes[k] = <<first.id, first.pos + k - 1>>
  <2> HIDE DEF first
  <2>1. bytes = [k \in 1 .. n |-> <<first.id, first.pos + k - 1>>]
    BY DEF Promise!FirstBytes
  <2>2. \A k \in 1 .. n : <<first.id, first.pos + k - 1>> \in Nat \X Nat
    BY <1>2
  <2>3. QED
    BY <1>2, <2>1, <2>2
<1>4. rest \in Item /\ rest.id = first.id /\ rest.pos = first.pos + n /\ rest.len = first.len - n
  <2> HIDE DEF first
  <2>1. rest = [id |-> first.id, pos |-> first.pos + n, len |-> first.len - n]
    BY DEF Promise!Rest
  <2>2. first.pos + n \in Nat /\ first.len - n \in Nat
    BY <1>2, SMTT(30)
  <2>3. QED
    BY <1>2, <2>1, <2>2 DEF Item
<1> HIDE DEF first, bytes, rest
<1>5. /\ w2 \in Seq(Nat \X Nat) /\ Len(w2) = Len(w) + n
      /\ \A k \in 1 .. Len(w) + n : w2[k] = IF k <= Len(w) THEN w[k] ELSE bytes[k - Len(w)]
  BY <1>3, ConcatProperties
<1>6. Len(w) \in Nat
  BY LenProperties
<1> HIDE DEF w2
<1>7. w2 # <<>> /\ w2[Len(w2)] = last
  <2>1. Len(w) + n \in 1 .. Len(w) + n /\ ~(Len(w) + n <= Len(w)) /\ (Len(w) + n) - Len(w) = n
    BY <1>2, <1>6
  <2>2. w2[Len(w) + n] = bytes[n]
    BY <1>5, <2>1
  <2>3. Len(w2) # 0
    BY <1>2, <1>5, <1>6
  <2>4. bytes[n] = last
    BY <1>2, <1>3
  <2>5. w2 # <<>>
    BY <2>3, EmptySeq
  <2>6. QED
    BY <1>5, <2>2, <2>4, <2>5
<1>8. ASSUME NEW k \in 1 .. Len(w2) - 1 PROVE Follows(w2[k], w2[k + 1])
  <2>1. k \in 1 .. Len(w) + n /\ k + 1 \in 1 .. Len(w) + n
    BY <1>2, <1>5, <1>6
  <2>2. CASE k + 1 <= Len(w)
    <3>1. k \in 1 .. Len(w) - 1 /\ k <= Len(w)
      BY <1>6, <2>1, <2>2
    <3>2. w2[k] = w[k] /\ w2[k + 1] = w[k + 1]
      BY <1>5, <2>1, <2>2, <3>1
    <3>3. QED
      BY <3>1, <3>2 DEF Ordered
  <2>3. CASE k = Len(w)
    <3>1. k <= Len(w) /\ ~(k + 1 <= Len(w)) /\ (k + 1) - Len(w) = 1 /\ Len(w) # 0
      BY <1>6, <2>1, <2>3
    <3>2. w2[k] = w[Len(w)] /\ w2[k + 1] = bytes[1]
      BY <1>5, <2>1, <2>3, <3>1
    <3>3. bytes[1] = <<o[1].id, o[1].pos>>
      BY <1>1, <1>2, <1>3, SMTT(30)
    <3>4. w # <<>>
      BY <3>1, EmptySeq
    <3>5. QED
      BY <3>2, <3>3, <3>4 DEF Ordered
  <2>4. CASE k > Len(w)
    <3>1. k - Len(w) \in 1 .. n /\ k + 1 - Len(w) \in 1 .. n
      BY <1>2, <1>6, <2>1, <2>4
    <3>2. w2[k] = bytes[k - Len(w)] /\ w2[k + 1] = bytes[k + 1 - Len(w)]
      <4>1. ~(k <= Len(w)) /\ ~(k + 1 <= Len(w))
        BY <1>6, <2>1, <2>4
      <4>2. w2[k] = bytes[k - Len(w)]
        BY <1>5, <2>1, <4>1
      <4>3. w2[k + 1] = bytes[k + 1 - Len(w)]
        <5> DEFINE l == k + 1
        <5>1. l \in 1 .. Len(w) + n /\ ~(l <= Len(w))
          BY <2>1, <4>1
        <5> HIDE DEF l
        <5>2. w2[l] = bytes[l - Len(w)]
          BY <1>5, <5>1
        <5>3. QED
          BY <5>2 DEF l
      <4>4. QED
        BY <4>2, <4>3
    <3>3. /\ w2[k] = <<first.id, first.pos + (k - Len(w)) - 1>>
          /\ w2[k + 1] = <<first.id, first.pos + (k + 1 - Len(w)) - 1>>
      BY <1>3, <3>1, <3>2
    <3>4. first.pos + (k + 1 - Len(w)) - 1 = (first.pos + (k - Len(w)) - 1) + 1
      BY <1>2, <1>6, <2>1
    <3>5. QED
      BY <3>3, <3>4 DEF Follows
  <2>5. QED
    BY <1>6, <2>1, <2>2, <2>3, <2>4
<1>9. last[1] = first.id /\ first.id <= p /\ \A j \in DOMAIN q : first.id < q[j].id
  BY <1>1 DEF Ordered
<1>10. ASSUME NEW o2 \in Seq(Item),
              \A i \in DOMAIN o2 :
                /\ o2[i].id <= p /\ o2[i].len > 0 /\ (i > 1 => o2[i].pos = 0)
                /\ \A j \in DOMAIN o2 : i < j => o2[i].id < o2[j].id
                /\ \A j \in DOMAIN q : o2[i].id < q[j].id,
              o2 # <<>> => Follows(last, <<o2[1].id, o2[1].pos>>)
       PROVE  Ordered(q, o2, w2, p)
  <2>1. \A i \in DOMAIN q : q[i].id <= p /\ \A j \in DOMAIN q : i < j => q[i].id < q[j].id
    BY DEF Ordered
  <2>2. QED
    BY <1>7, <1>8, <1>9, <1>10, <2>1 DEF Ordered
<1>11. ASSUME NEW i \in DOMAIN Tail(o)
       PROVE  /\ Tail(o)[i].id <= p /\ Tail(o)[i].len > 0 /\ Tail(o)[i].pos = 0
              /\ first.id < Tail(o)[i].id
              /\ \A j \in DOMAIN Tail(o) : i < j => Tail(o)[i].id < Tail(o)[j].id
              /\ \A j \in DOMAIN q : Tail(o)[i].id < q[j].id
  <2>1. i + 1 \in DOMAIN o /\ Tail(o)[i] = o[i + 1] /\ i + 1 > 1
    BY <1>1
  <2>2. \A j \in DOMAIN Tail(o) : i < j => Tail(o)[i].id < Tail(o)[j].id
    <3>1. TAKE j \in DOMAIN Tail(o)
    <3>2. HAVE i < j
    <3>3. j + 1 \in DOMAIN o /\ Tail(o)[j] = o[j + 1] /\ i + 1 < j + 1
      BY <1>1, <3>2
    <3>4. QED
      BY <2>1, <3>3 DEF Ordered
  <2>3. QED
    BY <1>1, <2>1, <2>2 DEF Ordered
<1>12. CASE n = first.len
  <2>1. Tail(o) # <<>> => Follows(last, <<Tail(o)[1].id, Tail(o)[1].pos>>)
    <3>1. Tail(o) # <<>> => 1 \in DOMAIN Tail(o)
      BY <1>1, EmptySeq, LenProperties
    <3>2. QED
      BY <1>11, <3>1 DEF Follows
  <2>2. Ordered(q, Tail(o), w2, p)
    BY <1>1, <1>10, <1>11, <2>1
  <2>3. QED
    BY <1>12, <2>2 DEF w2, bytes, first
<1>13. CASE n # first.len
  <2> DEFINE o2 == <<rest>> \o Tail(o)
  <2>1. /\ o2 \in Seq(Item) /\ o2[1] = rest
        /\ \A i \in DOMAIN o2 : \/ i = 1 /\ o2[i] = rest
                                \/ i - 1 \in DOMAIN Tail(o) /\ i > 1 /\ o2[i] = Tail(o)[i - 1]
    <3>1. \A x \in Item, s \in Seq(Item) :
            /\ <<x>> \o s \in Seq(Item) /\ (<<x>> \o s)[1] = x
            /\ \A i \in DOMAIN (<<x>> \o s) :
                 \/ i = 1 /\ (<<x>> \o s)[i] = x
                 \/ i - 1 \in DOMAIN s /\ i > 1 /\ (<<x>> \o s)[i] = s[i - 1]
      OBVIOUS
    <3>2. QED
      BY <1>1, <1>4, <3>1
  <2> HIDE DEF o2
  <2>2. rest.len > 0 /\ Follows(last, <<rest.id, rest.pos>>)
    BY <1>2, <1>4, <1>13 DEF Follows
  <2>3. ASSUME NEW i \in DOMAIN o2
        PROVE  /\ o2[i].id <= p /\ o2[i].len > 0 /\ (i > 1 => o2[i].pos = 0)
               /\ \A j \in DOMAIN o2 : i < j => o2[i].id < o2[j].id
               /\ \A j \in DOMAIN q : o2[i].id < q[j].id
    <3>1. o2[i].id <= p /\ o2[i].len > 0 /\ (i > 1 => o2[i].pos = 0)
      <4>1. CASE i = 1 /\ o2[i] = rest
        BY <1>4, <1>9, <2>2, <4>1
      <4>2. CASE i - 1 \in DOMAIN Tail(o) /\ o2[i] = Tail(o)[i - 1]
        BY <1>11, <4>2
      <4>3. QED
        BY <2>1, <4>1, <4>2
    <3>2. \A j \in DOMAIN q : o2[i].id < q[j].id
      BY <1>4, <1>9, <1>11, <2>1
    <3>3. ASSUME NEW j \in DOMAIN o2, i < j PROVE o2[i].id < o2[j].id
      <4>1. i \in Nat /\ j \in Nat /\ i >= 1
        BY <2>1, LenProperties
      <4>2. j > 1 /\ j - 1 \in DOMAIN Tail(o) /\ o2[j] = Tail(o)[j - 1]
        BY <2>1, <3>3, <4>1
      <4>3. CASE i = 1 /\ o2[i] = rest
        BY <1>4, <1>11, <4>2, <4>3
      <4>4. CASE i - 1 \in DOMAIN Tail(o) /\ i > 1 /\ o2[i] = Tail(o)[i - 1]
        <5>1. i - 1 < j - 1
          BY <3>3, <4>1
        <5>2. QED
          BY <1>11, <4>2, <4>4, <5>1
      <4>5. QED
        BY <2>1, <4>3, <4>4
    <3>4. QED
      BY <3>1, <3>2, <3>3
  <2>4. Ordered(q, o2, w2, p)
    BY <1>10, <2>1, <2>2, <2>3
  <2>5. QED
    BY <1>13, <2>4 DEF w2, bytes, first, o2, rest
<1>14. QED
  BY <1>12, <1>13

(* Whatever the server does, it does to one who watches what is promised,  *)
(* and none of PubSub's steps disturbs the order.                          *)
LEMMA OrderStep ==
  ASSUME IInv, NEW c \in Clients, OrderInv(c), [Promise!Next]_(Promise!vars)
  PROVE  OrderInv(c)'
<1> DEFINE q == messageQueue
           o == Owed(c)
           w == wire[c]
           p == published
           owed == [d \in Clients |-> Owed(d)]
<1>1. /\ q \in Seq(Batch) /\ o \in Seq(Item) /\ w \in Seq(Nat \X Nat) /\ p \in Nat
      /\ wire \in [Clients -> Seq(Nat \X Nat)]
  BY OwedProps DEF IInv, TypeOK, QueueTypeOK, SubTypeOK
<1>2. Ordered(q, o, w, p)
  BY DEF OrderInv
<1>3. owed[c] = o /\ owed'[c] = o'
  OBVIOUS
<1>4. CASE UNCHANGED Promise!vars
  <2>1. messageQueue' = messageQueue /\ wire' = wire /\ published' = published /\ owed' = owed
    BY <1>4 DEF Promise!vars
  <2>2. o' = o
    BY <1>3, <2>1
  <2>3. QED
    BY <1>2, <2>1, <2>2 DEF OrderInv
<1>5. CASE Promise!Publish
  <2>1. /\ published' = published + 1 /\ wire' = wire /\ owed' = owed
        /\ \E t \in Types, n \in Lengths :
             messageQueue' = Append(messageQueue, [id |-> published + 1, type |-> t, len |-> n])
    BY <1>5 DEF Promise!Publish
  <2>2. PICK t \in Types, n \in Lengths :
          messageQueue' = Append(messageQueue, [id |-> published + 1, type |-> t, len |-> n])
    BY <2>1
  <2>3. [id |-> published + 1, type |-> t, len |-> n] \in Batch
    BY <1>1 DEF Batch
  <2>4. Ordered(Append(q, [id |-> published + 1, type |-> t, len |-> n]), o, w, p + 1)
    BY <1>1, <1>2, <2>3, OrderedPublish
  <2>5. o' = o
    BY <1>3, <2>1
  <2>6. QED
    BY <2>1, <2>2, <2>4, <2>5 DEF OrderInv
<1>6. CASE Promise!Connect \/ Promise!Subscribe
  <2>1. messageQueue' = messageQueue /\ wire' = wire /\ published' = published /\ owed' = owed
    BY <1>6 DEF Promise!Connect, Promise!Subscribe
  <2>2. o' = o
    BY <1>3, <2>1
  <2>3. QED
    BY <1>2, <2>1, <2>2 DEF OrderInv
<1>7. CASE Promise!FanOut
  <2> DEFINE item == Promise!Whole(Head(messageQueue))
  <2>1. /\ messageQueue # <<>> /\ messageQueue' = Tail(messageQueue)
        /\ wire' = wire /\ published' = published
        /\ owed' = [d \in Clients |-> IF Promise!Wants(d, Head(messageQueue))
                                      THEN Append(owed[d], item) ELSE owed[d]]
    BY <1>7 DEF Promise!FanOut
  <2>2. item \in Item /\ item.id = Head(q).id /\ item.pos = 0 /\ item.len > 0
    BY <1>1, <2>1, WholeProps
  <2>3. o' = Append(o, item) \/ o' = o
    BY <1>3, <2>1
  <2>4. Ordered(Tail(q), o, w, p) /\ Ordered(Tail(q), Append(o, item), w, p)
    <3> HIDE DEF item
    <3>1. QED
      BY <1>1, <1>2, <2>1, <2>2, OrderedHandOut
  <2>5. QED
    BY <2>1, <2>3, <2>4 DEF OrderInv
<1>8. ASSUME NEW d \in Clients, Promise!Transmit(d) PROVE OrderInv(c)'
  <2>1. PICK n \in 1 .. Head(owed[d]).len :
          /\ wire' = [wire EXCEPT ![d] = @ \o Promise!FirstBytes(Head(owed[d]), n)]
          /\ owed' = [owed EXCEPT ![d] = IF n = Head(owed[d]).len THEN Tail(@)
                                         ELSE <<Promise!Rest(Head(owed[d]), n)>> \o Tail(@)]
    BY <1>8 DEF Promise!Transmit
  <2>2. messageQueue' = messageQueue /\ published' = published /\ owed[d] # <<>>
    BY <1>8 DEF Promise!Transmit
  <2>3. CASE d # c
    <3>1. wire'[c] = w
      BY <1>1, <2>1, <2>3
    <3>2. owed'[c] = owed[c]
      BY <2>1, <2>3
    <3>3. QED
      BY <1>2, <1>3, <2>2, <3>1, <3>2 DEF OrderInv
  <2>4. CASE d = c
    <3>1. wire'[c] = w \o Promise!FirstBytes(Head(o), n)
      BY <1>1, <1>3, <2>1, <2>4
    <3>2. owed'[c] = IF n = Head(o).len THEN Tail(o)
                     ELSE <<Promise!Rest(Head(o), n)>> \o Tail(o)
      BY <1>3, <2>1, <2>4
    <3>3. o # <<>> /\ n \in 1 .. Head(o).len
      BY <1>3, <2>1, <2>2, <2>4
    <3>4. Ordered(q, IF n = Head(o).len THEN Tail(o)
                     ELSE <<Promise!Rest(Head(o), n)>> \o Tail(o),
                  w \o Promise!FirstBytes(Head(o), n), p)
      BY <1>1, <1>2, <3>3, OrderedTransmit
    <3>5. QED
      BY <1>3, <2>2, <3>1, <3>2, <3>4 DEF OrderInv
  <2>5. QED
    BY <2>3, <2>4
<1>9. QED
  BY <1>4, <1>5, <1>6, <1>7, <1>8 DEF Promise!Next

(* Nothing was published, owed or received yet. *)
LEMMA InitOrder == Init => \A c \in Clients : OrderInv(c)
<1> SUFFICES ASSUME Init, NEW c \in Clients PROVE OrderInv(c)
  OBVIOUS
<1>1. messageQueue = <<>> /\ wire[c] = <<>>
  BY DEF Init, QueueInit, SubInit
<1>2. Owed(c) = <<>>
  <2>1. ~HasContent(c)
    BY DEF Init, SubInit, HasContent, NoItem
  <2>2. QED
    BY <2>1, InitIInv, OwedProps
<1>3. Ordered(<<>>, <<>>, <<>>, published)
  BY DEF Ordered
<1>4. QED
  BY <1>1, <1>2, <1>3 DEF OrderInv

(* The whole inductive invariant: IInv, that subscriptions were commanded, *)
(* that bytes taken are accounted for, and the order of what is received,  *)
(* owed and queued.                                                        *)
THEOREM DeliveryInvariant == Spec => []DeliveryInv
<1>1. Init => DeliveryInv
  BY InitIInv, InitCommanded, InitTaken, InitOrder DEF DeliveryInv
<1>2. DeliveryInv /\ [Next]_vars => DeliveryInv'
  <2> SUFFICES ASSUME DeliveryInv, [Next]_vars PROVE DeliveryInv'
    OBVIOUS
  <2>1. IInv /\ CommandedInv /\ \A c \in Clients : TakenInv(c) /\ OrderInv(c)
    BY DEF DeliveryInv
  <2>2. IInv' /\ CommandedInv'
    BY <2>1, NextIInv, CommandedStep
  <2>3. [Promise!Next]_(Promise!vars)
    BY <2>1, StepImplements
  <2>4. ASSUME NEW c \in Clients PROVE TakenInv(c)' /\ OrderInv(c)'
    BY <2>1, <2>3, TakenStep, OrderStep
  <2>5. QED
    BY <2>2, <2>4 DEF DeliveryInv
<1>3. QED
  BY <1>1, <1>2, PTL DEF Spec

(* Each subscriber receives its batches in the order of publication, none  *)
(* begun before the one before it is complete, however sends are split,    *)
(* fail or are interrupted by others.                                      *)
THEOREM BatchesArriveInOrder == Spec => []WireInOrder
<1>1. DeliveryInv => WireInOrder
  BY DEF DeliveryInv, OrderInv, Ordered, WireInOrder
<1>2. QED
  BY <1>1, DeliveryInvariant, PTL

(* The server, with its threads, requests and completions, implements      *)
(* PubSub: a batch taken from the queue is owed to exactly the connected   *)
(* clients subscribed to its type, and only the kernel's taking bytes of   *)
(* it changes what is owed, whatever becomes of completions in between.    *)
THEOREM ServerKeepsItsPromise == Spec => ImplementsPubSub
<1>1. Init => Promise!Init
  BY InitImplements
<1>2. DeliveryInv /\ [Next]_vars => [Promise!Next]_(Promise!vars)
  BY StepImplements DEF DeliveryInv
<1>3. QED
  BY <1>1, <1>2, DeliveryInvariant, PTL DEF Spec, ImplementsPubSub, Promise!Spec
===============================================================================
