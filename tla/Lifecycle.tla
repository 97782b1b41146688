------------------------------ MODULE Lifecycle ------------------------------
(***************************************************************************)
(* main.cpp, the destructor of BaseServer.hpp and the loops of the three   *)
(* servers: main builds and starts them, waits on the latch, and leaves    *)
(* its scope, which destroys them in reverse order.  A destructor deletes  *)
(* the clients and then, as a member, joins the thread that uses them.     *)
(*                                                                         *)
(* A touch of a deleted object, or a virtual call on a server whose        *)
(* destructor runs, is undefined; it is recorded in `late` and the step    *)
(* goes on.  A wait that a signal interrupts is one that times out.        *)
(***************************************************************************)
EXTENDS Integers

CONSTANTS
  Clients,        (* the clients a server may accept                       *)
  RingCapacity,   (* 1000000 in MessageQueue.hpp                           *)
  MaxPerRead,     (* bound: batches pushed while one read is handled       *)
  MaxSignals      (* bound: SIGINT and SIGTERM received                    *)

ASSUME LifecycleAssumption ==
  RingCapacity \in Nat \ {0} /\ MaxPerRead \in Nat /\ MaxSignals \in Nat

VARIABLES
  main,        (* where main is                                            *)
  exists,      (* the servers whose scope main is in                       *)
  isRunning,
  latch,
  handlers,    (* signal handlers between their two statements             *)
  thread,      (* where each server's thread is                            *)
  clients,     (* server -> its vector of clients                          *)
  deleted,     (* server -> the clients deleted                            *)
  scan,        (* the copy of the subscriber clients a command walks       *)
  ring,        (* batches in the message queue                             *)
  hasPendingData,
  left,        (* batches the publisher thread has still to push           *)
  signals,     (* history: signals received                                *)
  late         (* history: <<thread, server>>, as explained above          *)

mainVars == <<main, exists>>
signalVars == <<isRunning, latch, handlers, signals>>
queueVars == <<ring, hasPendingData, left>>
serverVars == <<clients, deleted>>
threadVars == <<thread, scan, late>>
vars == <<mainVars, signalVars, queueVars, serverVars, threadVars>>

Servers == {"subscriber", "publisher", "command"}
(* The servers declared before one in main.                                *)
Before(s) == CASE s = "subscriber" -> {}
               [] s = "publisher" -> {"subscriber"}
               [] s = "command" -> {"subscriber", "publisher"}

(* Where a thread can be. *)
Places == {"none", "starting", "test", "cycle", "expire", "idle", "wait", "drain",
           "push", "scan", "ended"}

LifecycleTypeOK ==
  /\ main \in {"build", "wait", "delete", "join", "exited"}
  /\ exists \subseteq Servers
  /\ isRunning \in BOOLEAN /\ hasPendingData \in BOOLEAN
  /\ latch \in 1 - MaxSignals .. 1 /\ handlers \in 0 .. MaxSignals
  /\ thread \in [Servers -> Places]
  /\ clients \in [Servers -> SUBSET Clients] /\ deleted \in [Servers -> SUBSET Clients]
  /\ scan \subseteq Clients
  /\ ring \in 0 .. RingCapacity /\ left \in 0 .. MaxPerRead
  /\ signals \in 0 .. MaxSignals
  /\ late \subseteq Servers \X Servers

Init ==
  /\ main = "build" /\ exists = {}
  /\ isRunning = TRUE /\ latch = 1 /\ handlers = 0 /\ signals = 0
  /\ thread = [s \in Servers |-> "none"]
  /\ clients = [s \in Servers |-> {}] /\ deleted = [s \in Servers |-> {}]
  /\ scan = {} /\ late = {}
  /\ ring = 0 /\ hasPendingData = FALSE /\ left = 0
-------------------------------------------------------------------------------
(***************************************************************************)
(* main                                                                    *)
(***************************************************************************)
(* A server is constructed and started, whatever signals came already.     *)
Build(s) ==
  /\ main = "build"
  /\ exists = Before(s)
  /\ exists' = exists \cup {s}
  /\ thread' = [thread EXCEPT ![s] = "starting"]
  /\ main' = IF exists' = Servers THEN "wait" ELSE "build"
  /\ UNCHANGED <<signalVars, queueVars, serverVars, scan, late>>

(* latch.wait() returns when it finds the counter at 0, and only then.     *)
PassLatch ==
  /\ main = "wait" /\ latch = 0
  /\ main' = "delete"
  /\ UNCHANGED <<exists, signalVars, queueVars, serverVars, threadVars>>

(* Mutant: the servers are destroyed in the order they were built in. *)
DyingInOrder == CHOOSE s \in exists : Before(s) \cap exists = {}

(* The server destroyed next is the one built last.                        *)
Dying == CASE exists = {"subscriber"} -> "subscriber"
           [] exists = {"subscriber", "publisher"} -> "publisher"
           [] OTHER -> "command"

Destroying == main \in {"delete", "join"}
Alive(s) == s \in exists /\ ~(Destroying /\ s = Dying)

DeleteClient(c) ==
  /\ main = "delete"
  /\ c \in clients[Dying]
  /\ clients' = [clients EXCEPT ![Dying] = @ \ {c}]
  /\ deleted' = [deleted EXCEPT ![Dying] = @ \cup {c}]
  /\ UNCHANGED <<mainVars, signalVars, queueVars, threadVars>>

ClientsDeleted ==
  /\ main = "delete"
  /\ clients[Dying] = {}
  /\ main' = "join"
  /\ UNCHANGED <<exists, signalVars, queueVars, serverVars, threadVars>>

Gone == /\ exists' = exists \ {Dying}
        /\ main' = IF exists' = {} THEN "exited" ELSE "delete"

(* Mutant: the thread is detached. *)
DetachThread ==
  /\ main = "join"
  /\ Gone
  /\ UNCHANGED <<signalVars, queueVars, serverVars, threadVars>>

JoinThread ==
  /\ main = "join" /\ thread[Dying] = "ended"
  /\ Gone
  /\ UNCHANGED <<signalVars, queueVars, serverVars, threadVars>>

MainStep ==
  \/ \E s \in Servers : Build(s)
  \/ PassLatch
  \/ \E c \in Clients : DeleteClient(c)
  \/ ClientsDeleted
  \/ JoinThread

(***************************************************************************)
(* signalHandler, in whatever thread it runs                               *)
(***************************************************************************)
(* Mutant: the flag stays. *)
ReceiveSignalUncleared ==
  /\ signals < MaxSignals
  /\ signals' = signals + 1 /\ handlers' = handlers + 1
  /\ UNCHANGED <<isRunning, latch, mainVars, queueVars, serverVars, threadVars>>

(* Two statements: the flag is cleared, then the latch counted down.       *)
ReceiveSignal ==
  /\ signals < MaxSignals
  /\ signals' = signals + 1 /\ handlers' = handlers + 1 /\ isRunning' = FALSE
  /\ UNCHANGED <<latch, mainVars, queueVars, serverVars, threadVars>>

CountDown ==
  /\ handlers > 0
  /\ handlers' = handlers - 1 /\ latch' = latch - 1
  /\ UNCHANGED <<isRunning, signals, mainVars, queueVars, serverVars, threadVars>>
-------------------------------------------------------------------------------
(***************************************************************************)
(* The threads                                                             *)
(***************************************************************************)
Go(s, from, to) == thread[s] = from /\ thread' = [thread EXCEPT ![s] = to]

(* What thread t does to server s: a virtual call of it, a completion of   *)
(* a client, or a walk over its vector, which the destructor may be        *)
(* emptying.                                                               *)
Note(t, s, isLate) == late' = IF isLate THEN late \cup {<<t, s>>} ELSE late
Call(s) == Note(s, s, ~Alive(s))
Complete(s, c) == Note(s, s, c \in deleted[s])
Walk(s) == Note(s, s, main = "delete" /\ s = Dying)

(* handleEvent, then doEventLoop: both are virtual.                        *)
Begin(s) ==
  /\ Go(s, "starting", "test")
  /\ Call(s)
  /\ UNCHANGED <<mainVars, signalVars, queueVars, serverVars, scan>>

(* Mutant: the loop is endless. *)
TestNothing(s) ==
  /\ Go(s, "test", "cycle")
  /\ UNCHANGED <<mainVars, signalVars, queueVars, serverVars, scan, late>>

TestIsRunning(s) ==
  /\ Go(s, "test", IF isRunning THEN "cycle" ELSE "ended")
  /\ UNCHANGED <<mainVars, signalVars, queueVars, serverVars, scan, late>>

(* A completion of the listener: the server's handleEvent.                 *)
Accept(s, c) ==
  /\ c \notin clients[s] \cup deleted[s]
  /\ clients' = [clients EXCEPT ![s] = @ \cup {c}]
  /\ Call(s)
  /\ UNCHANGED <<deleted, mainVars, signalVars, queueVars, scan>>

(* A completion of a client: the vector is not asked.                      *)
Handle(s, c) ==
  /\ c \in clients[s] \cup deleted[s]
  /\ Complete(s, c)
  /\ UNCHANGED <<serverVars, mainVars, signalVars>>

WaitTimeout(s) ==
  /\ Go(s, "cycle", "test")
  /\ UNCHANGED <<mainVars, signalVars, queueVars, serverVars, scan, late>>

(* PublisherServer: a read may complete several batches, and a push that   *)
(* finds the ring full waits for a slot.                                   *)
PublisherCycle ==
  \/ WaitTimeout("publisher")
  \/ \E c \in Clients : Go("publisher", "cycle", "test") /\ Accept("publisher", c)
  \/ \E c \in Clients :
       /\ Go("publisher", "cycle", "push")
       /\ Handle("publisher", c)
       /\ left' \in 0 .. MaxPerRead
       /\ UNCHANGED <<ring, hasPendingData, scan>>
Push ==
  /\ IF left = 0
     THEN Go("publisher", "push", "test") /\ UNCHANGED queueVars
     ELSE /\ thread["publisher"] = "push" /\ UNCHANGED thread
          /\ ring < RingCapacity
          /\ ring' = ring + 1 /\ hasPendingData' = TRUE /\ left' = left - 1
  /\ UNCHANGED <<mainVars, signalVars, serverVars, scan, late>>

(* CommandServer: a command copies the subscriber server's vector, then    *)
(* visits the clients in the copy.                                         *)
CommandCycle ==
  \/ WaitTimeout("command")
  \/ \E c \in Clients : Go("command", "cycle", "test") /\ Accept("command", c)
  \/ \E c \in Clients :
       /\ \/ Go("command", "cycle", "test") /\ UNCHANGED scan
          \/ Go("command", "cycle", "scan") /\ scan' = clients["subscriber"]
       /\ Handle("command", c)
       /\ UNCHANGED queueVars
VisitSubscribers ==
  /\ Go("command", "scan", "test")
  /\ scan' = {}
  /\ Note("command", "subscriber",
          ~Alive("subscriber") \/ scan \cap deleted["subscriber"] # {})
  /\ UNCHANGED <<mainVars, signalVars, queueVars, serverVars>>

(* SubscriberServer: a completion or none, then handleTimeouts and         *)
(* allIdle.                                                                *)
SubscriberCycle ==
  \/ /\ Go("subscriber", "cycle", "expire")
     /\ UNCHANGED <<mainVars, signalVars, queueVars, serverVars, scan, late>>
  \/ \E c \in Clients : Go("subscriber", "cycle", "expire") /\ Accept("subscriber", c)
  \/ \E c \in Clients :
       /\ Go("subscriber", "cycle", "expire")
       /\ Handle("subscriber", c)
       /\ UNCHANGED <<queueVars, scan>>
HandleTimeouts ==
  /\ \/ Go("subscriber", "expire", "test")
     \/ Go("subscriber", "expire", "idle")
  /\ Walk("subscriber")
  /\ UNCHANGED <<mainVars, signalVars, queueVars, serverVars, scan>>
TestIsRunningIdle ==
  /\ Go("subscriber", "idle", IF isRunning THEN "wait" ELSE "test")
  /\ UNCHANGED <<mainVars, signalVars, queueVars, serverVars, scan, late>>
WaitForData ==
  /\ Go("subscriber", "wait", IF hasPendingData THEN "drain" ELSE "test")
  /\ UNCHANGED <<mainVars, signalVars, queueVars, serverVars, scan, late>>
(* drainQueue does not look at isRunning.                                  *)
FanOut ==
  /\ thread["subscriber"] = "drain" /\ UNCHANGED thread
  /\ ring > 0
  /\ ring' = ring - 1
  /\ Walk("subscriber")
  /\ UNCHANGED <<mainVars, signalVars, serverVars, hasPendingData, left, scan>>
DrainDone ==
  /\ Go("subscriber", "drain", "test")
  /\ ring = 0
  /\ hasPendingData' = FALSE
  /\ UNCHANGED <<mainVars, signalVars, serverVars, ring, left, scan, late>>

Step(s) ==
  \/ Begin(s) \/ TestIsRunning(s)
  \/ s = "publisher" /\ (PublisherCycle \/ Push)
  \/ s = "command" /\ (CommandCycle \/ VisitSubscribers)
  \/ s = "subscriber" /\ \/ SubscriberCycle \/ HandleTimeouts \/ TestIsRunningIdle
                         \/ WaitForData \/ FanOut \/ DrainDone

Next ==
  \/ MainStep \/ ReceiveSignal \/ CountDown
  \/ \E s \in Servers : Step(s)

(* Threads are scheduled and a handler that was entered returns; no signal *)
(* need come.                                                              *)
Spec ==
  /\ Init /\ [][Next]_vars
  /\ WF_vars(MainStep) /\ WF_vars(CountDown)
  /\ \A s \in Servers : WF_vars(Step(s))
-------------------------------------------------------------------------------
(***************************************************************************)
(* Properties                                                              *)
(***************************************************************************)
(* An object is touched after its deletion only by the thread of its own   *)
(* server, which the destructor has yet to join; in particular a command   *)
(* in progress never visits a deleted subscriber.                          *)
LateTouchesAreOwn == \A use \in late : use[1] = use[2]

(* Once main has left a server's scope, and so when it returns and the     *)
(* queue, the latch and the flag go, no thread of that server runs.        *)
ThreadsEndFirst ==
  \A s \in Servers : thread[s] \notin {"none", "ended"} => s \in exists

(* After main has passed the latch no thread begins another cycle: what it *)
(* may still touch of the deleted clients is what one cycle touches.       *)
NoCycleWhileDestroying ==
  [][Destroying => \A s \in Servers : thread[s] # "cycle" => thread'[s] # "cycle"]_vars

(* The inductive invariant behind them: servers are nested; the latch has  *)
(* counted the handlers that were left, and only a handler opens it; the   *)
(* clients of a server that main is not destroying, or past, are there.    *)
ScopeInv ==
  /\ exists \in {{}} \cup {Before(s) \cup {s} : s \in Servers}
  /\ main = "build" => exists # Servers
  /\ main = "wait" => exists = Servers
  /\ Destroying => exists # {}
  /\ main = "exited" => exists = {}
SignalInv ==
  /\ handlers <= signals /\ latch = 1 - (signals - handlers)
  /\ signals > 0 <=> ~isRunning
  /\ main \in {"delete", "join", "exited"} => ~isRunning
DeletedInv ==
  /\ main \in {"build", "wait"} => \A s \in Servers : deleted[s] = {}
  /\ \A s \in Servers : Alive(s) => deleted[s] = {}
ShutdownInv ==
  /\ LifecycleTypeOK /\ ScopeInv /\ SignalInv /\ DeletedInv
  /\ ThreadsEndFirst /\ LateTouchesAreOwn

(* A signal ends the program, unless a second one came before main had     *)
(* seen the latch at 0, or the publisher thread waits for a slot of a full *)
(* ring and the subscriber thread, the only one to empty it, has ended.    *)
MissedLatch == latch < 0 /\ main \in {"build", "wait"}
SpinsForever ==
  /\ thread["publisher"] = "push" /\ left > 0 /\ ring = RingCapacity
  /\ thread["subscriber"] = "ended"
ShutdownEnds == ~isRunning ~> main = "exited" \/ MissedLatch \/ SpinsForever
===============================================================================
