---------------------------- MODULE Subscriptions ----------------------------
(***************************************************************************)
(* The subscriptions of one subscriber and the clock: the map in           *)
(* subscriber/TCPSubscriberHandler.hpp that the command thread adds to,    *)
(* and that the subscriber thread adds to as well, sweeps for timeouts,    *)
(* looks batches up in and refreshes.  Nothing is locked, so the threads   *)
(* interleave at each item of a sweep and at each store of an addition.  A *)
(* race may do more to an unordered_map than that; what it may do to its   *)
(* nodes and buckets is left out.                                          *)
(***************************************************************************)
EXTENDS Integers, Sequences, SequencesExt

CONSTANTS
  Subs,       (* names a subscription can have, as sequences of characters *)
  Types,      (* types of the batches                                      *)
  ClockMod,   (* unsigned long holds the numbers below it, 2^64            *)
  MaxNow      (* bound: the clock                                          *)

ASSUME ClockAssumption == ClockMod \in Nat \ {0} /\ MaxNow \in 1 .. ClockMod - 1

VARIABLES
  now,            (* the clock, in units of a timeout                      *)
  subscriptions,  (* name -> its SubscriptionData, for those subscribed to *)
  sweep,          (* the call of handleTimeout in progress                 *)
  adding,         (* per thread, its insertion in addSubscriptions         *)
  active,         (* history: when a name was last added, or its exact     *)
                  (* type delivered                                        *)
  fresh,          (* history: the names added since the sweep began, and   *)
                  (* the one being added then                              *)
  setBack         (* history: the names whose time was overwritten by an   *)
                  (* addition that had read the clock before that time     *)

mapVars == <<subscriptions, adding, sweep, active, fresh, setBack>>

Threads == {"command", "subscriber"}

NoSweep == [step |-> "none"]
NotAdding == [step |-> "none"]

MapInit ==
  /\ now = 1
  /\ subscriptions = <<>>
  /\ sweep = NoSweep
  /\ adding = [th \in Threads |-> NotAdding]
  /\ active = [s \in Subs |-> 0]
  /\ fresh = {}
  /\ setBack = {}

Subscribed == DOMAIN subscriptions
Without(S) == [s \in Subscribed \ S |-> subscriptions[s]]
Updated(s, data) == [r \in Subscribed \cup {s} |-> IF r = s THEN data ELSE subscriptions[r]]

Tick ==
  /\ now < MaxNow
  /\ now' = now + 1
  /\ UNCHANGED mapVars

(***************************************************************************)
(* The subscriber thread's sweeps and deliveries, one call after another,  *)
(* and never inside its own addSubscriptions                               *)
(***************************************************************************)
IsAdding(th, s) == adding[th] # NotAdding /\ adding[th].sub = s

BeginSweep ==
  /\ sweep = NoSweep /\ adding["subscriber"] = NotAdding
  /\ sweep' = [step |-> "visit", now |-> now, seen |-> {}, todo |-> Subscribed]
  /\ fresh' = {s \in Subs : IsAdding("command", s)}
  /\ UNCHANGED <<now, subscriptions, adding, active, setBack>>

(* Mutant: as long as the timeout is too long. *)
IsOverdueAtTimeout(data, asOf) ==
  data.timeout > 0 /\ (asOf - data.lastAction) % ClockMod >= data.timeout

(* The difference is unsigned. *)
IsOverdue(data, asOf) ==
  data.timeout > 0 /\ (asOf - data.lastAction) % ClockMod > data.timeout

(* One item of the loop.  An item inserted meanwhile may be met or missed. *)
VisitItem(s) ==
  /\ sweep.step = "visit"
  /\ s \in Subscribed \ sweep.seen
  /\ IF IsOverdue(subscriptions[s], sweep.now)
     THEN subscriptions' = [subscriptions EXCEPT ![s].timeoutExpired = TRUE]
     ELSE UNCHANGED subscriptions
  /\ sweep' = [sweep EXCEPT !.seen = @ \cup {s}, !.todo = @ \ {s}]
  /\ UNCHANGED <<now, adding, active, fresh, setBack>>

(* Mutant: the erased items stay. *)
EndSweepKeeping ==
  /\ sweep.step = "visit" /\ sweep.todo = {}
  /\ sweep' = NoSweep
  /\ UNCHANGED <<now, subscriptions, adding, active, fresh, setBack>>

(* erase_if, which finds nothing unless an item was marked. *)
EndSweep ==
  /\ sweep.step = "visit" /\ sweep.todo = {}
  /\ subscriptions' = Without({s \in Subscribed : subscriptions[s].timeoutExpired})
  /\ sweep' = NoSweep
  /\ UNCHANGED <<now, adding, active, fresh, setBack>>

(* isSubscribed: some subscription begins with the type of the batch. *)
IsSubscribed(t) ==
  \E s \in Subscribed : ~subscriptions[s].timeoutExpired /\ IsPrefix(t, s)

(* updateLastAction: only the subscription of exactly this name. *)
UpdateLastAction(t) ==
  subscriptions' = IF t \in Subscribed
                   THEN [subscriptions EXCEPT ![t].lastAction = now]
                   ELSE subscriptions

(* drainQueue has a batch for this client. *)
PushMessageBatch(t) ==
  /\ sweep = NoSweep /\ adding["subscriber"] = NotAdding
  /\ IsSubscribed(t)
  /\ UpdateLastAction(t)
  /\ active' = IF t \in Subscribed THEN [active EXCEPT ![t] = now] ELSE active
  /\ setBack' = setBack \ {t}
  /\ UNCHANGED <<now, sweep, adding, fresh>>

Sweeping ==
  \/ BeginSweep
  \/ \E s \in Subs : VisitItem(s)
  \/ EndSweep

(***************************************************************************)
(* Either thread, one name of addSubscriptions                             *)
(***************************************************************************)
(* The names that are there already are left as they are.  For another one *)
(* the clock is read, operator[] inserts an item of zeroes, and the data   *)
(* is stored into it field by field; the item may be erased in between.    *)
BeginAdd(th, s, timeout) ==
  /\ adding[th] = NotAdding
  /\ th = "subscriber" => sweep = NoSweep
  /\ s \notin Subscribed
  /\ adding' = [adding EXCEPT ![th] =
                  [step |-> "insert", sub |-> s, timeout |-> timeout, now |-> now]]
  /\ active' = [active EXCEPT ![s] = now]
  /\ fresh' = fresh \cup {s}
  /\ UNCHANGED <<now, subscriptions, sweep, setBack>>

Zeroes == [timeout |-> 0, lastAction |-> 0, timeoutExpired |-> FALSE]

(* An item the other thread has put there meanwhile is left in its place.  *)
Insert(th) ==
  /\ adding[th].step = "insert"
  /\ subscriptions' = IF adding[th].sub \in Subscribed THEN subscriptions
                      ELSE Updated(adding[th].sub, Zeroes)
  /\ adding' = [adding EXCEPT ![th].step = "timeout"]
  /\ UNCHANGED <<now, sweep, active, fresh, setBack>>

(* A store into an item that was erased meanwhile is lost, unless the name *)
(* has been inserted again.                                                *)
Store(th, from, to, data) ==
  /\ adding[th].step = from
  /\ subscriptions' = IF adding[th].sub \in Subscribed
                      THEN Updated(adding[th].sub, data)
                      ELSE subscriptions
  /\ adding' = [adding EXCEPT ![th] = IF to = "none" THEN NotAdding
                                      ELSE [@ EXCEPT !.step = to]]
  /\ UNCHANGED <<now, sweep, active, fresh>>

StoreTimeout(th) ==
  /\ Store(th, "timeout", "lastAction",
           [subscriptions[adding[th].sub] EXCEPT !.timeout = adding[th].timeout])
  /\ UNCHANGED setBack
StoreLastAction(th) ==
  /\ Store(th, "lastAction", "expired",
           [subscriptions[adding[th].sub] EXCEPT !.lastAction = adding[th].now])
  /\ setBack' = IF adding[th].now < active[adding[th].sub]
                THEN setBack \cup {adding[th].sub}
                ELSE setBack \ {adding[th].sub}
StoreExpired(th) ==
  /\ Store(th, "expired", "none",
           [subscriptions[adding[th].sub] EXCEPT !.timeoutExpired = FALSE])
  /\ UNCHANGED setBack

AddingThread(th) ==
  Insert(th) \/ StoreTimeout(th) \/ StoreLastAction(th) \/ StoreExpired(th)

(* What both threads may do, whatever names they add with what timeouts.   *)
MapNext ==
  \/ Tick
  \/ Sweeping
  \/ \E t \in Types : PushMessageBatch(t)
  \/ \E th \in Threads, s \in Subs, timeout \in Nat : BeginAdd(th, s, timeout)
  \/ \E th \in Threads : AddingThread(th)
MapSpec == MapInit /\ [][MapNext]_<<now, mapVars>>

(***************************************************************************)
(* Properties                                                              *)
(***************************************************************************)
IdleFor(s) == now - active[s]

(* handleTimeout takes a subscription away only if it has a timeout and    *)
(* has been idle for longer, that is neither added nor sent a batch of     *)
(* just its type, but for two races of the threads.  One that is added     *)
(* during the sweep may go at once: its time is ahead of the sweep's clock *)
(* and the unsigned difference wraps, or its item is half stored.  One     *)
(* that was sent a batch while it was being added may go too early: the    *)
(* addition has stored its own, older time over that of the delivery.      *)
MayGo(s) ==
  \/ s \in fresh
  \/ /\ subscriptions[s].timeout > 0
     /\ s \in setBack \/ IdleFor(s) > subscriptions[s].timeout
RemovedWereIdle ==
  [][\A s \in Subscribed \ DOMAIN subscriptions' : MayGo(s)]_subscriptions

(* A subscription that has been idle too long does not stay so: a sweep    *)
(* removes it, unless a batch of just its type comes before.               *)
Overdue(s) ==
  s \in Subscribed /\ subscriptions[s].timeout > 0 /\ IdleFor(s) > subscriptions[s].timeout
OverdueIsRemoved == \A s \in Subs : []<>~Overdue(s)

(***************************************************************************)
(* The inductive invariant behind RemovedWereIdle.                         *)
(***************************************************************************)
Moments == 0 .. MaxNow
SubscriptionData == [timeout : Nat, lastAction : Nat, timeoutExpired : BOOLEAN]
AddingSteps == {"insert", "timeout", "lastAction", "expired"}
MapTypeOK ==
  /\ now \in Moments
  /\ Subscribed \subseteq Subs
  /\ \A s \in Subscribed : subscriptions[s] \in SubscriptionData
  /\ sweep \in {NoSweep} \cup
       [step : {"visit"}, now : Moments, seen : SUBSET Subs, todo : SUBSET Subs]
  /\ adding \in [Threads -> {NotAdding} \cup
       [step : AddingSteps, sub : Subs, timeout : Nat, now : Moments]]
  /\ active \in [Subs -> Moments]
  /\ fresh \subseteq Subs
  /\ setBack \subseteq Subs

(* No time is ahead of the clock, nor of the sweep's unless it is of a     *)
(* fresh name.                                                             *)
TimesInv ==
  /\ \A s \in Subs : active[s] <= now
  /\ sweep.step = "visit" =>
       /\ sweep.now <= now
       /\ \A s \in Subs \ fresh : active[s] <= sweep.now
(* A name being added was added then or has been delivered since; while a  *)
(* sweep goes on, it is fresh, and the subscriber thread adds none.        *)
AddingInv ==
  \A th \in Threads : adding[th] # NotAdding =>
    /\ adding[th].now <= active[adding[th].sub]
    /\ sweep.step = "visit" => th = "command" /\ adding[th].sub \in fresh
(* Whether an addition has still to store the time of s. *)
TimeIsMissing(s) == \E th \in Threads : IsAdding(th, s) /\ adding[th].step # "expired"
(* An item has its last time, and a marked one deserves it. *)
ItemInv(s) ==
  /\ TimeIsMissing(s) \/ s \in setBack \/ subscriptions[s].lastAction = active[s]
  /\ subscriptions[s].timeoutExpired => sweep.step = "visit" /\ MayGo(s)
MapInv == MapTypeOK /\ TimesInv /\ AddingInv /\ \A s \in Subscribed : ItemInv(s)
===============================================================================
