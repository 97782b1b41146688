--------------------------- MODULE LifecycleProofs ---------------------------
(***************************************************************************)
(* The shutdown is orderly for any clients, any size of the ring and any   *)
(* number of signals: the inductive invariant of Lifecycle, and what it    *)
(* implies.                                                                *)
(***************************************************************************)
EXTENDS Lifecycle, TLAPS

USE DEF Places

(* Which server dies, by the servers that exist. *)
LEMMA DyingIs ==
  /\ exists = {"subscriber"} => Dying = "subscriber"
  /\ exists = {"subscriber", "publisher"} => Dying = "publisher"
  /\ exists = Servers => Dying = "command"
<1>1. Servers # {"subscriber"} /\ Servers # {"subscriber", "publisher"}
  BY DEF Servers
<1>2. {"subscriber"} # {"subscriber", "publisher"}
  OBVIOUS
<1> QED
  BY <1>1, <1>2 DEF Dying

(* The sets of servers that exist, one after the other. *)
LEMMA Scopes ==
  {{}} \cup {Before(s) \cup {s} : s \in Servers}
    = {{}, {"subscriber"}, {"subscriber", "publisher"}, Servers}
<1>1. /\ Before("subscriber") \cup {"subscriber"} = {"subscriber"}
      /\ Before("publisher") \cup {"publisher"} = {"subscriber", "publisher"}
      /\ Before("command") \cup {"command"} = Servers
  BY DEF Before, Servers
<1> QED
  BY <1>1 DEF Servers

(* The server being destroyed is one that was built. *)
LEMMA DyingExists ==
  ASSUME ScopeInv, Destroying
  PROVE  Dying \in exists /\ Dying \in Servers
BY DyingIs, Scopes DEF ScopeInv, Servers

(* A thread whose server main has not left is the command thread only as   *)
(* long as no other server is being destroyed.                             *)
LEMMA CommandSeesAll ==
  ASSUME ScopeInv, DeletedInv, "command" \in exists
  PROVE  Alive("subscriber") /\ deleted["subscriber"] = {}
<1>1. exists = Servers
  BY Scopes DEF ScopeInv
<1>2. Alive("subscriber")
  BY <1>1, DyingIs DEF Alive, Servers
<1> QED
  BY <1>2 DEF DeletedInv, Servers
-------------------------------------------------------------------------------
(* Before main runs, no server is built and nothing was touched. *)
THEOREM InitShutdown == Init => ShutdownInv
<1> SUFFICES ASSUME Init PROVE ShutdownInv
  OBVIOUS
<1> USE DEF Init
<1>1. LifecycleTypeOK
  <2>1. latch \in 1 - MaxSignals .. 1 /\ handlers \in 0 .. MaxSignals
    BY LifecycleAssumption DEF LifecycleAssumption
  <2>2. ring \in 0 .. RingCapacity /\ left \in 0 .. MaxPerRead /\ signals \in 0 .. MaxSignals
    BY LifecycleAssumption DEF LifecycleAssumption
  <2>3. /\ clients \in [Servers -> SUBSET Clients] /\ deleted \in [Servers -> SUBSET Clients]
        /\ \A s \in Servers : thread[s] = "none"
    OBVIOUS
  <2> QED
    BY <2>1, <2>2, <2>3 DEF LifecycleTypeOK
<1>2. ScopeInv
  BY DEF ScopeInv, Servers, Destroying
<1>3. SignalInv
  BY DEF SignalInv
<1>4. DeletedInv
  BY DEF DeletedInv, Servers
<1>5. ThreadsEndFirst /\ LateTouchesAreOwn
  BY DEF ThreadsEndFirst, LateTouchesAreOwn, Servers
<1> QED
  BY <1>1, <1>2, <1>3, <1>4, <1>5 DEF ShutdownInv

(* A step of a thread leaves main, the signals and what was deleted alone. *)
LEMMA ThreadFrame ==
  ASSUME ShutdownInv, UNCHANGED <<mainVars, signalVars, deleted>>,
         LifecycleTypeOK', ThreadsEndFirst', LateTouchesAreOwn'
  PROVE  ShutdownInv'
<1> USE DEF ShutdownInv, mainVars, signalVars
<1>1. UNCHANGED <<main, exists, isRunning, latch, handlers, signals, deleted>>
  OBVIOUS
<1>2. ScopeInv'
  BY <1>1 DEF ScopeInv, Destroying
<1>3. SignalInv'
  BY <1>1 DEF SignalInv
<1>4. DeletedInv'
  BY <1>1 DEF DeletedInv, Alive, Destroying, Dying
<1> QED
  BY <1>2, <1>3, <1>4

(* A thread that goes on is one that runs, so main has not left its scope. *)
LEMMA GoKeepsScope ==
  ASSUME LifecycleTypeOK, ThreadsEndFirst, UNCHANGED exists,
         NEW s \in Servers, NEW from, NEW to, from \notin {"none", "ended"},
         to \in Places \ {"none"},
         Go(s, from, to)
  PROVE  /\ ThreadsEndFirst'
         /\ s \in exists
         /\ thread' \in [Servers -> Places]
BY DEF Go, LifecycleTypeOK, ThreadsEndFirst

(* A thread that touches an object of its own server breaks nothing. *)
LEMMA NoteOwn ==
  ASSUME LifecycleTypeOK, LateTouchesAreOwn, NEW s \in Servers, NEW isLate \in BOOLEAN,
         Note(s, s, isLate)
  PROVE  LateTouchesAreOwn' /\ late' \subseteq Servers \X Servers
BY DEF Note, LifecycleTypeOK, LateTouchesAreOwn
-------------------------------------------------------------------------------
(***************************************************************************)
(* The steps of main                                                       *)
(***************************************************************************)
LEMMA BuildPreserves ==
  ASSUME ShutdownInv, NEW s \in Servers, Build(s)
  PROVE  ShutdownInv'
<1> USE DEF ShutdownInv, Build, signalVars, queueVars, serverVars
<1>1. exists \in {{}, {"subscriber"}, {"subscriber", "publisher"}} /\ s \notin exists
  BY DEF Before, Servers
<1>2. exists' \in {{"subscriber"}, {"subscriber", "publisher"}, Servers}
  BY DEF Before, Servers
<1>3. main' \in {"build", "wait"} /\ ~Destroying'
  BY DEF Destroying
<1>4. LifecycleTypeOK'
  <2>1. exists' \subseteq Servers
    BY DEF LifecycleTypeOK
  <2> QED
    BY <1>3, <2>1 DEF LifecycleTypeOK
<1>5. ScopeInv'
  BY <1>2, <1>3, Scopes DEF ScopeInv, Servers
<1>6. SignalInv'
  BY <1>3 DEF SignalInv
<1>7. DeletedInv'
  BY <1>3 DEF DeletedInv, Alive, Servers
<1>8. ThreadsEndFirst' /\ LateTouchesAreOwn'
  BY DEF ThreadsEndFirst, LateTouchesAreOwn, LifecycleTypeOK
<1> QED
  BY <1>4, <1>5, <1>6, <1>7, <1>8

(* The latch is at 0 only if a handler was left. *)
LEMMA PassLatchPreserves ==
  ASSUME ShutdownInv, PassLatch
  PROVE  ShutdownInv'
<1> USE DEF ShutdownInv, PassLatch, signalVars, queueVars, serverVars, threadVars
<1>1. LifecycleTypeOK'
  BY DEF LifecycleTypeOK
<1>2. ScopeInv'
  BY DEF ScopeInv, Destroying, Servers
<1>3. SignalInv'
  <2>1. signals > 0
    BY DEF SignalInv, LifecycleTypeOK
  <2> QED
    BY <2>1 DEF SignalInv
<1>4. DeletedInv'
  BY DEF DeletedInv, Alive, Servers
<1>5. ThreadsEndFirst' /\ LateTouchesAreOwn'
  BY DEF ThreadsEndFirst, LateTouchesAreOwn
<1> QED
  BY <1>1, <1>2, <1>3, <1>4, <1>5

(* The destructor of BaseServer deletes one client. *)
LEMMA DeleteClientPreserves ==
  ASSUME ShutdownInv, NEW c \in Clients, DeleteClient(c)
  PROVE  ShutdownInv'
<1> USE DEF ShutdownInv, DeleteClient, mainVars, signalVars, queueVars, threadVars
<1>1. Dying' = Dying /\ Dying \in Servers /\ Destroying /\ Destroying'
  BY DyingExists DEF Dying, Destroying
<1>2. LifecycleTypeOK'
  BY <1>1 DEF LifecycleTypeOK
<1>3. ScopeInv' /\ SignalInv'
  BY DEF ScopeInv, SignalInv, Destroying
<1>4. DeletedInv'
  BY <1>1 DEF DeletedInv, Alive, LifecycleTypeOK
<1>5. ThreadsEndFirst' /\ LateTouchesAreOwn'
  BY DEF ThreadsEndFirst, LateTouchesAreOwn
<1> QED
  BY <1>2, <1>3, <1>4, <1>5

(* Its last client is deleted, and it comes to join its thread. *)
LEMMA ClientsDeletedPreserves ==
  ASSUME ShutdownInv, ClientsDeleted
  PROVE  ShutdownInv'
<1> USE DEF ShutdownInv, ClientsDeleted, signalVars, queueVars, serverVars, threadVars
<1>1. Dying' = Dying /\ Destroying /\ Destroying'
  BY DEF Dying, Destroying
<1>2. LifecycleTypeOK'
  BY DEF LifecycleTypeOK
<1>3. ScopeInv' /\ SignalInv'
  BY <1>1 DEF ScopeInv, SignalInv, Servers
<1>4. DeletedInv'
  BY <1>1 DEF DeletedInv, Alive, Destroying
<1>5. ThreadsEndFirst' /\ LateTouchesAreOwn'
  BY DEF ThreadsEndFirst, LateTouchesAreOwn
<1> QED
  BY <1>2, <1>3, <1>4, <1>5

(* The scope main leaves is that of a thread that has ended. *)
LEMMA JoinThreadPreserves ==
  ASSUME ShutdownInv, JoinThread
  PROVE  ShutdownInv'
<1> USE DEF ShutdownInv, JoinThread, Gone, signalVars, queueVars, serverVars, threadVars
<1>1. Destroying /\ Dying \in exists /\ Dying \in Servers
  BY DyingExists DEF Destroying
<1>2. /\ exists \in {{"subscriber"}, {"subscriber", "publisher"}, Servers}
      /\ exists' \in {{}, {"subscriber"}, {"subscriber", "publisher"}}
  BY <1>1, Scopes, DyingIs DEF ScopeInv, Servers
<1>3. main' \in {"delete", "exited"} /\ (main' = "exited" <=> exists' = {})
  OBVIOUS
<1>4. LifecycleTypeOK'
  BY <1>3 DEF LifecycleTypeOK
<1>5. ScopeInv'
  BY <1>2, <1>3, Scopes DEF ScopeInv, Destroying, Servers
<1>6. SignalInv'
  BY <1>3 DEF SignalInv
<1>7. DeletedInv'
  <2> SUFFICES ASSUME NEW s \in Servers, Alive(s)' PROVE deleted'[s] = {}
    BY <1>3 DEF DeletedInv
  <2>1. s \in exists /\ s # Dying
    BY DEF Alive
  <2> QED
    BY <2>1 DEF DeletedInv, Alive
<1>8. ThreadsEndFirst' /\ LateTouchesAreOwn'
  BY DEF ThreadsEndFirst, LateTouchesAreOwn
<1> QED
  BY <1>4, <1>5, <1>6, <1>7, <1>8

(***************************************************************************)
(* The signal handler                                                      *)
(***************************************************************************)
LEMMA SignalsPreserve ==
  ASSUME ShutdownInv, ReceiveSignal \/ CountDown
  PROVE  ShutdownInv'
<1> USE DEF ShutdownInv, mainVars, queueVars, serverVars, threadVars
<1>1. UNCHANGED <<main, exists, thread, clients, deleted, scan, ring, hasPendingData,
                  left, late>>
  BY DEF ReceiveSignal, CountDown
<1>2. /\ MaxSignals \in Nat /\ handlers \in 0 .. MaxSignals /\ signals \in 0 .. MaxSignals
      /\ handlers <= signals /\ latch = 1 - (signals - handlers)
  BY LifecycleAssumption DEF LifecycleTypeOK, LifecycleAssumption, SignalInv
<1>3. /\ handlers' \in 0 .. MaxSignals /\ signals' \in 0 .. MaxSignals
      /\ handlers' <= signals' /\ latch' = 1 - (signals' - handlers')
  <2>1. CASE ReceiveSignal
    <3>1. handlers' = handlers + 1 /\ signals' = signals + 1 /\ latch' = latch
            /\ signals < MaxSignals
      BY <2>1 DEF ReceiveSignal
    <3> QED
      BY <1>2, <3>1
  <2>2. CASE CountDown
    <3>1. handlers' = handlers - 1 /\ signals' = signals /\ latch' = latch - 1
            /\ handlers > 0
      BY <2>2 DEF CountDown
    <3> QED
      BY <1>2, <3>1
  <2> QED
    BY <2>1, <2>2
<1>4. isRunning' \in BOOLEAN /\ (signals' > 0 <=> ~isRunning') /\ (~isRunning => ~isRunning')
  <2>1. CASE ReceiveSignal
    <3>1. isRunning' = FALSE /\ signals' = signals + 1
      BY <2>1 DEF ReceiveSignal
    <3>2. signals' > 0
      BY <1>2, <3>1
    <3> QED
      BY <3>1, <3>2
  <2>2. CASE CountDown
    BY <2>2 DEF CountDown, SignalInv, LifecycleTypeOK
  <2> QED
    BY <2>1, <2>2
<1>5. SignalInv'
  BY <1>1, <1>3, <1>4 DEF SignalInv
<1>6. LifecycleTypeOK'
  <2>1. latch' \in 1 - MaxSignals .. 1
    <3>1. /\ MaxSignals \in Int /\ handlers' \in Int /\ signals' \in Int
          /\ 0 <= handlers' /\ handlers' <= signals' /\ signals' <= MaxSignals
      BY <1>2, <1>3
    <3>2. latch' = 1 - (signals' - handlers')
      BY <1>3
    <3>3. \A m, h, k \in Int :
             0 <= h /\ h <= k /\ k <= m => 1 - (k - h) \in 1 - m .. 1
      OBVIOUS
    <3> QED
      BY <3>1, <3>2, <3>3
  <2> QED
    BY <1>1, <1>3, <1>4, <2>1 DEF LifecycleTypeOK
<1>7. ScopeInv'
  BY <1>1 DEF ScopeInv, Destroying
<1>8. DeletedInv'
  BY <1>1 DEF DeletedInv, Alive, Destroying, Dying
<1>9. ThreadsEndFirst' /\ LateTouchesAreOwn'
  BY <1>1 DEF ThreadsEndFirst, LateTouchesAreOwn
<1> QED
  BY <1>5, <1>6, <1>7, <1>8, <1>9

(***************************************************************************)
(* The steps of the threads                                                *)
(***************************************************************************)
(* What the steps share: where the thread is, and whom it touches.         *)
LEMMA StepFrame ==
  ASSUME ShutdownInv, UNCHANGED <<mainVars, signalVars, deleted>>,
         ThreadsEndFirst', LateTouchesAreOwn', late' \subseteq Servers \X Servers,
         thread' \in [Servers -> Places],
         clients' \in [Servers -> SUBSET Clients], scan' \subseteq Clients,
         ring' \in 0 .. RingCapacity, left' \in 0 .. MaxPerRead,
         hasPendingData' \in BOOLEAN
  PROVE  ShutdownInv'
<1>1. UNCHANGED <<main, exists, isRunning, latch, handlers, signals, deleted>>
  BY DEF mainVars, signalVars
<1>2. LifecycleTypeOK'
  BY <1>1 DEF ShutdownInv, LifecycleTypeOK
<1> QED
  BY <1>2, ThreadFrame

(* A step that only moves on. *)
LEMMA GoPreserves ==
  ASSUME ShutdownInv, NEW s \in Servers, NEW from, NEW to, Go(s, from, to),
         from \notin {"none", "ended"},
         to \in Places \ {"none"},
         UNCHANGED <<mainVars, signalVars, queueVars, serverVars, scan>>,
         LateTouchesAreOwn', late' \subseteq Servers \X Servers
  PROVE  ShutdownInv'
<1>1. UNCHANGED <<exists, deleted, clients, ring, left, hasPendingData>>
  BY DEF mainVars, queueVars, serverVars
<1>2. LifecycleTypeOK /\ ThreadsEndFirst
  BY DEF ShutdownInv
<1>3. /\ ThreadsEndFirst'
      /\ thread' \in [Servers -> Places]
  BY <1>1, <1>2, GoKeepsScope
<1>4. /\ clients' \in [Servers -> SUBSET Clients] /\ scan' \subseteq Clients
      /\ ring' \in 0 .. RingCapacity /\ left' \in 0 .. MaxPerRead
      /\ hasPendingData' \in BOOLEAN
  BY <1>1, <1>2 DEF LifecycleTypeOK
<1> QED
  BY <1>1, <1>3, <1>4, StepFrame

(* A step that touches nothing late keeps what was touched. *)
LEMMA UntouchedIsOwn ==
  ASSUME ShutdownInv, UNCHANGED late
  PROVE  LateTouchesAreOwn' /\ late' \subseteq Servers \X Servers
BY DEF ShutdownInv, LateTouchesAreOwn, LifecycleTypeOK

(* A loop tests isRunning, waits for a completion, or begins. *)
LEMMA SilentStepsPreserve ==
  ASSUME ShutdownInv, NEW s \in Servers,
         TestIsRunning(s) \/ WaitTimeout(s) \/ Begin(s)
  PROVE  ShutdownInv'
<1>1. CASE TestIsRunning(s)
  BY <1>1, UntouchedIsOwn, GoPreserves DEF TestIsRunning
<1>2. CASE WaitTimeout(s)
  BY <1>2, UntouchedIsOwn, GoPreserves DEF WaitTimeout
<1>3. CASE Begin(s)
  <2>1. LateTouchesAreOwn' /\ late' \subseteq Servers \X Servers
    <3>1. (~Alive(s)) \in BOOLEAN
      BY DEF Alive
    <3> QED
      BY <1>3, <3>1, NoteOwn DEF Begin, Call, ShutdownInv
  <2> QED
    BY <1>3, <2>1, GoPreserves DEF Begin
<1> QED
  BY <1>1, <1>2, <1>3

(* A loop accepts a client. *)
LEMMA AcceptPreserves ==
  ASSUME ShutdownInv, NEW s \in Servers, NEW c \in Clients, NEW to,
         to \in {"test", "expire"}, Go(s, "cycle", to), Accept(s, c)
  PROVE  ShutdownInv'
<1> USE DEF Accept
<1>1. LifecycleTypeOK /\ ThreadsEndFirst /\ LateTouchesAreOwn
  BY DEF ShutdownInv
<1>2. LateTouchesAreOwn' /\ late' \subseteq Servers \X Servers
  <2>1. (~Alive(s)) \in BOOLEAN
    BY DEF Alive
  <2> QED
    BY <1>1, <2>1, NoteOwn DEF Call
<1>3. clients' \in [Servers -> SUBSET Clients] /\ scan' \subseteq Clients
  BY <1>1 DEF LifecycleTypeOK
<1>4. /\ UNCHANGED exists
      /\ ring' \in 0 .. RingCapacity /\ left' \in 0 .. MaxPerRead
      /\ hasPendingData' \in BOOLEAN
  BY <1>1 DEF LifecycleTypeOK, queueVars, mainVars
<1>5. /\ ThreadsEndFirst'
      /\ thread' \in [Servers -> Places]
  BY <1>1, <1>4, GoKeepsScope
<1> QED
  BY <1>2, <1>3, <1>4, <1>5, StepFrame

(* A completion of a client, after which only scan or the batches to push  *)
(* may have changed.                                                       *)
LEMMA HandlePreserves ==
  ASSUME ShutdownInv, NEW s \in Servers, NEW c \in Clients, NEW to,
         to \in {"test", "expire", "push", "scan"}, Go(s, "cycle", to), Handle(s, c),
         UNCHANGED <<ring, hasPendingData>>,
         left' \in 0 .. MaxPerRead, scan' \subseteq Clients
  PROVE  ShutdownInv'
<1> USE DEF Handle
<1>1. LifecycleTypeOK /\ ThreadsEndFirst /\ LateTouchesAreOwn
  BY DEF ShutdownInv
<1>2. LateTouchesAreOwn' /\ late' \subseteq Servers \X Servers
  <2>1. (c \in deleted[s]) \in BOOLEAN
    OBVIOUS
  <2> QED
    BY <1>1, <2>1, NoteOwn DEF Complete
<1>3. /\ UNCHANGED <<exists, clients, deleted>>
      /\ clients' \in [Servers -> SUBSET Clients]
      /\ ring' \in 0 .. RingCapacity /\ hasPendingData' \in BOOLEAN
  BY <1>1 DEF LifecycleTypeOK, serverVars, mainVars
<1>4. /\ ThreadsEndFirst'
      /\ thread' \in [Servers -> Places]
  BY <1>1, <1>3, GoKeepsScope
<1> QED
  BY <1>2, <1>3, <1>4, StepFrame

(* The threads' own steps. *)
LEMMA PublisherPreserves ==
  ASSUME ShutdownInv, PublisherCycle \/ Push
  PROVE  ShutdownInv'
<1>1. "publisher" \in Servers
  BY DEF Servers
<1>2. LifecycleTypeOK /\ ThreadsEndFirst
  BY DEF ShutdownInv
<1>3. CASE PublisherCycle
  <2>1. CASE WaitTimeout("publisher")
    BY <1>1, <2>1, SilentStepsPreserve
  <2>2. CASE \E c \in Clients : Go("publisher", "cycle", "test") /\ Accept("publisher", c)
    BY <1>1, <2>2, AcceptPreserves
  <2>3. CASE \E c \in Clients :
               /\ Go("publisher", "cycle", "push")
               /\ Handle("publisher", c)
               /\ left' \in 0 .. MaxPerRead
               /\ UNCHANGED <<ring, hasPendingData, scan>>
    <3>1. scan \subseteq Clients
      BY <1>2 DEF LifecycleTypeOK
    <3> QED
      BY <1>1, <2>3, <3>1, HandlePreserves
  <2> QED
    BY <1>3, <2>1, <2>2, <2>3 DEF PublisherCycle
<1>4. CASE Push
  <2>1. LateTouchesAreOwn' /\ late' \subseteq Servers \X Servers
    BY <1>4, UntouchedIsOwn DEF Push
  <2>2. CASE Go("publisher", "push", "test") /\ UNCHANGED queueVars
    BY <1>1, <1>4, <2>1, <2>2, GoPreserves DEF Push
  <2>3. CASE /\ UNCHANGED thread
             /\ ring < RingCapacity /\ left # 0
             /\ ring' = ring + 1 /\ hasPendingData' = TRUE /\ left' = left - 1
    <3>1. ring' \in 0 .. RingCapacity /\ left' \in 0 .. MaxPerRead
      BY <1>2, <2>3, LifecycleAssumption DEF LifecycleTypeOK, LifecycleAssumption
    <3>2. ThreadsEndFirst' /\ UNCHANGED <<clients, deleted, scan>>
      BY <1>2, <1>4, <2>3 DEF Push, ThreadsEndFirst, mainVars, serverVars
    <3>3. /\ thread' \in [Servers -> Places]
          /\ clients' \in [Servers -> SUBSET Clients] /\ scan' \subseteq Clients
          /\ hasPendingData' \in BOOLEAN
      BY <1>2, <2>3, <3>2 DEF LifecycleTypeOK
    <3> QED
      BY <1>4, <2>1, <3>1, <3>2, <3>3, StepFrame DEF Push
  <2> QED
    BY <1>4, <2>2, <2>3 DEF Push
<1> QED
  BY <1>3, <1>4

(* A command visits the subscribers before main leaves the command         *)
(* server's scope, so none of them is deleted.                             *)
LEMMA CommandPreserves ==
  ASSUME ShutdownInv, CommandCycle \/ VisitSubscribers
  PROVE  ShutdownInv'
<1>1. "command" \in Servers /\ "subscriber" \in Servers
  BY DEF Servers
<1>2. /\ LifecycleTypeOK /\ ThreadsEndFirst /\ LateTouchesAreOwn
      /\ ScopeInv /\ DeletedInv
  BY DEF ShutdownInv
<1>3. CASE CommandCycle
  <2>1. CASE WaitTimeout("command")
    BY <1>1, <2>1, SilentStepsPreserve
  <2>2. CASE \E c \in Clients : Go("command", "cycle", "test") /\ Accept("command", c)
    BY <1>1, <2>2, AcceptPreserves
  <2>3. ASSUME NEW c \in Clients,
               \/ Go("command", "cycle", "test") /\ UNCHANGED scan
               \/ Go("command", "cycle", "scan") /\ scan' = clients["subscriber"],
               Handle("command", c), UNCHANGED queueVars
        PROVE  ShutdownInv'
    <3>1. scan' \subseteq Clients /\ left' \in 0 .. MaxPerRead
            /\ UNCHANGED <<ring, hasPendingData>>
      BY <1>1, <1>2, <2>3 DEF LifecycleTypeOK, queueVars
    <3> QED
      BY <1>1, <2>3, <3>1, HandlePreserves
  <2> QED
    BY <1>3, <2>1, <2>2, <2>3 DEF CommandCycle
<1>4. CASE VisitSubscribers
  <2>1. Go("command", "scan", "test") /\ UNCHANGED <<exists, clients, deleted>>
    BY <1>4 DEF VisitSubscribers, mainVars, serverVars
  <2>2. "command" \in exists
    BY <1>1, <1>2, <2>1, GoKeepsScope
  <2>3. Alive("subscriber") /\ deleted["subscriber"] = {}
    BY <1>2, <2>2, CommandSeesAll
  <2>4. late' = late
    BY <1>4, <2>3 DEF VisitSubscribers, Note
  <2>5. LateTouchesAreOwn' /\ late' \subseteq Servers \X Servers
    BY <2>4, UntouchedIsOwn
  <2>6. /\ ThreadsEndFirst'
        /\ thread' \in [Servers -> Places]
    BY <1>1, <1>2, <2>1, GoKeepsScope
  <2>7. /\ clients' \in [Servers -> SUBSET Clients] /\ scan' \subseteq Clients
        /\ ring' \in 0 .. RingCapacity /\ left' \in 0 .. MaxPerRead
        /\ hasPendingData' \in BOOLEAN
    BY <1>2, <1>4, <2>1 DEF VisitSubscribers, LifecycleTypeOK, queueVars
  <2> QED
    BY <1>4, <2>1, <2>5, <2>6, <2>7, StepFrame DEF VisitSubscribers
<1> QED
  BY <1>3, <1>4

(* The steps of the loop of the subscriber server. *)
LEMMA SubscriberPreserves ==
  ASSUME ShutdownInv,
         \/ SubscriberCycle \/ HandleTimeouts \/ TestIsRunningIdle
         \/ WaitForData \/ FanOut \/ DrainDone
  PROVE  ShutdownInv'
<1>1. "subscriber" \in Servers
  BY DEF Servers
<1>2. LifecycleTypeOK /\ ThreadsEndFirst /\ LateTouchesAreOwn
  BY DEF ShutdownInv
<1>3. (main = "delete" /\ "subscriber" = Dying) \in BOOLEAN
  OBVIOUS
<1>4. ASSUME Walk("subscriber")
      PROVE  LateTouchesAreOwn' /\ late' \subseteq Servers \X Servers
  BY <1>1, <1>2, <1>3, <1>4, NoteOwn DEF Walk
<1>5. CASE SubscriberCycle
  <2>1. CASE /\ Go("subscriber", "cycle", "expire")
             /\ UNCHANGED <<mainVars, signalVars, queueVars, serverVars, scan, late>>
    BY <1>1, <2>1, UntouchedIsOwn, GoPreserves
  <2>2. CASE \E c \in Clients :
               Go("subscriber", "cycle", "expire") /\ Accept("subscriber", c)
    BY <1>1, <2>2, AcceptPreserves
  <2>3. CASE \E c \in Clients :
               /\ Go("subscriber", "cycle", "expire")
               /\ Handle("subscriber", c)
               /\ UNCHANGED <<queueVars, scan>>
    <3>1. scan \subseteq Clients /\ left \in 0 .. MaxPerRead
      BY <1>2 DEF LifecycleTypeOK
    <3> QED
      BY <1>1, <2>3, <3>1, HandlePreserves DEF queueVars
  <2> QED
    BY <1>5, <2>1, <2>2, <2>3 DEF SubscriberCycle
<1>6. CASE HandleTimeouts
  BY <1>1, <1>4, <1>6, GoPreserves DEF HandleTimeouts
<1>7. CASE TestIsRunningIdle
  BY <1>1, <1>7, UntouchedIsOwn, GoPreserves DEF TestIsRunningIdle
<1>8. CASE WaitForData
  BY <1>1, <1>8, UntouchedIsOwn, GoPreserves DEF WaitForData
<1>9. CASE FanOut
  <2>1. /\ ring' \in 0 .. RingCapacity
        /\ UNCHANGED <<exists, thread, clients, deleted, scan, left, hasPendingData>>
    BY <1>2, <1>9, LifecycleAssumption
    DEF FanOut, LifecycleTypeOK, LifecycleAssumption, mainVars, serverVars
  <2>2. ThreadsEndFirst'
    BY <1>2, <2>1 DEF ThreadsEndFirst
  <2>3. LateTouchesAreOwn' /\ late' \subseteq Servers \X Servers
    BY <1>4, <1>9 DEF FanOut
  <2>4. /\ thread' \in [Servers -> Places]
        /\ clients' \in [Servers -> SUBSET Clients] /\ scan' \subseteq Clients
        /\ left' \in 0 .. MaxPerRead /\ hasPendingData' \in BOOLEAN
    BY <1>2, <2>1 DEF LifecycleTypeOK
  <2> QED
    BY <1>9, <2>1, <2>2, <2>3, <2>4, StepFrame DEF FanOut
<1>10. CASE DrainDone
  <2>1. /\ Go("subscriber", "drain", "test")
        /\ UNCHANGED <<exists, clients, deleted, scan, ring, left, late>>
        /\ hasPendingData' \in BOOLEAN
    BY <1>10 DEF DrainDone, mainVars, serverVars
  <2>2. LateTouchesAreOwn' /\ late' \subseteq Servers \X Servers
    BY <2>1, UntouchedIsOwn
  <2>3. /\ ThreadsEndFirst'
        /\ thread' \in [Servers -> Places]
    BY <1>1, <1>2, <2>1, GoKeepsScope
  <2>4. /\ clients' \in [Servers -> SUBSET Clients] /\ scan' \subseteq Clients
        /\ ring' \in 0 .. RingCapacity /\ left' \in 0 .. MaxPerRead
    BY <1>2, <2>1 DEF LifecycleTypeOK
  <2> QED
    BY <1>10, <2>1, <2>2, <2>3, <2>4, StepFrame DEF DrainDone
<1> QED
  BY <1>5, <1>6, <1>7, <1>8, <1>9, <1>10

-------------------------------------------------------------------------------
(***************************************************************************)
(* The theorems                                                            *)
(***************************************************************************)
LEMMA StutterPreserves ==
  ASSUME ShutdownInv, UNCHANGED vars
  PROVE  ShutdownInv'
<1>1. /\ UNCHANGED <<mainVars, signalVars, deleted, thread, late>>
      /\ UNCHANGED <<clients, scan, ring, left, hasPendingData, exists>>
  BY DEF vars, serverVars, threadVars, queueVars, mainVars
<1>2. LifecycleTypeOK /\ ThreadsEndFirst /\ LateTouchesAreOwn
  BY DEF ShutdownInv
<1>3. ThreadsEndFirst' /\ LateTouchesAreOwn'
  BY <1>1, <1>2 DEF ThreadsEndFirst, LateTouchesAreOwn
<1>4. LifecycleTypeOK'
  BY <1>1, <1>2 DEF LifecycleTypeOK, mainVars, signalVars
<1> QED
  BY <1>1, <1>3, <1>4, ThreadFrame

(* For any clients, ring and signals, main's scopes, the latch, the        *)
(* deleted clients and the threads agree.                                  *)
THEOREM ShutdownInvariant == Spec => []ShutdownInv
<1>1. Init => ShutdownInv
  BY InitShutdown
<1>2. ShutdownInv /\ [Next]_vars => ShutdownInv'
  <2> SUFFICES ASSUME ShutdownInv, [Next]_vars PROVE ShutdownInv'
    OBVIOUS
  <2>1. CASE MainStep
    BY <2>1, BuildPreserves, PassLatchPreserves, DeleteClientPreserves,
       ClientsDeletedPreserves, JoinThreadPreserves DEF MainStep
  <2>2. CASE ReceiveSignal \/ CountDown
    BY <2>2, SignalsPreserve
  <2>3. ASSUME NEW s \in Servers, Step(s) PROVE ShutdownInv'
    BY <2>3, SilentStepsPreserve, PublisherPreserves, CommandPreserves,
       SubscriberPreserves DEF Step
  <2>4. CASE UNCHANGED vars
    BY <2>4, StutterPreserves
  <2> QED
    BY <2>1, <2>2, <2>3, <2>4 DEF Next
<1> QED
  BY <1>1, <1>2, PTL DEF Spec

(* A deleted object is touched only by the thread of its own server: the   *)
(* order of main's declarations protects the subscribers from commands.    *)
THEOREM CommandsFindSubscribers == Spec => []LateTouchesAreOwn
<1>1. ShutdownInv => LateTouchesAreOwn
  BY DEF ShutdownInv
<1> QED
  BY <1>1, ShutdownInvariant, PTL

(* No thread runs after main has left the scope of its server.             *)
THEOREM ThreadsAreJoined == Spec => []ThreadsEndFirst
<1>1. ShutdownInv => ThreadsEndFirst
  BY DEF ShutdownInv
<1> QED
  BY <1>1, ShutdownInvariant, PTL

(* A step into a cycle finds isRunning set. *)
LEMMA CyclesBeginRunning ==
  ASSUME ShutdownInv, [Next]_vars, NEW s \in Servers,
         thread[s] # "cycle", thread'[s] = "cycle"
  PROVE  isRunning
<1>1. thread \in [Servers -> Places]
  BY DEF ShutdownInv, LifecycleTypeOK
<1>2. ASSUME NEW t \in Servers, NEW from, NEW to, Go(t, from, to)
      PROVE  to = "cycle" /\ t = s
  BY <1>1, <1>2 DEF Go
<1>3. ~UNCHANGED thread
  OBVIOUS
<1>4. "publisher" \in Servers /\ "command" \in Servers /\ "subscriber" \in Servers
  BY DEF Servers
<1>5. ~MainStep
  BY <1>1, <1>3 DEF MainStep, Build, PassLatch, DeleteClient, ClientsDeleted, JoinThread,
                    threadVars
<1>6. ~(ReceiveSignal \/ CountDown) /\ ~UNCHANGED vars
  BY <1>3 DEF ReceiveSignal, CountDown, threadVars, vars
<1>7. ~(PublisherCycle \/ Push)
  BY <1>2, <1>3, <1>4 DEF PublisherCycle, Push, WaitTimeout
<1>8. ~(CommandCycle \/ VisitSubscribers)
  BY <1>2, <1>4 DEF CommandCycle, VisitSubscribers, WaitTimeout
<1>9. ~(\/ SubscriberCycle \/ HandleTimeouts \/ TestIsRunningIdle
        \/ WaitForData \/ FanOut \/ DrainDone)
  <2>1. ~TestIsRunningIdle /\ ~WaitForData
    BY <1>2, <1>4 DEF TestIsRunningIdle, WaitForData
  <2> QED
    BY <1>2, <1>3, <1>4, <2>1 DEF SubscriberCycle, HandleTimeouts, FanOut, DrainDone
<1>10. PICK t \in Servers : Begin(t) \/ TestIsRunning(t)
  BY <1>5, <1>6, <1>7, <1>8, <1>9 DEF Next, Step
<1>11. TestIsRunning(t)
  BY <1>2, <1>10 DEF Begin
<1> QED
  BY <1>2, <1>11 DEF TestIsRunning

(* Once main destroys servers no thread begins another cycle.              *)
THEOREM LastCycles == Spec => NoCycleWhileDestroying
<1>1. ShutdownInv /\ [Next]_vars =>
        [Destroying => \A s \in Servers : thread[s] # "cycle" => thread'[s] # "cycle"]_vars
  BY CyclesBeginRunning DEF ShutdownInv, SignalInv, Destroying
<1> QED
  BY <1>1, ShutdownInvariant, PTL DEF Spec, NoCycleWhileDestroying
===============================================================================
