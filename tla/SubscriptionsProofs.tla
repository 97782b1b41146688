------------------------- MODULE SubscriptionsProofs -------------------------
(***************************************************************************)
(* Proofs about Subscriptions, for any names, timeouts and clock: only     *)
(* idle subscriptions are removed.  And about CommandConnection, for any   *)
(* commands in any batches, cut into reads of any length: they are carried *)
(* out as they were written, and nothing else is subscribed to.            *)
(***************************************************************************)
EXTENDS CommandConnection, SeqLemmas

(* The times a run reaches lie below the modulus of the clock. *)
LEMMA MomentsBelowMod == MaxNow \in Nat /\ ClockMod \in Nat \ {0} /\ MaxNow < ClockMod
BY ClockAssumption DEF ClockAssumption

(* A difference below the modulus does not wrap. *)
LEMMA ModIsIdentity ==
  ASSUME NEW d \in Nat, NEW m \in Nat \ {0}, d < m
  PROVE  d % m = d
OBVIOUS

(* A sweep is in progress or not. *)
LEMMA SweepKinds ==
  ASSUME MapTypeOK
  PROVE  \/ sweep = NoSweep /\ sweep.step = "none"
         \/ /\ sweep # NoSweep /\ sweep.step = "visit" /\ sweep.now \in Moments
            /\ sweep.seen \subseteq Subs /\ sweep.todo \subseteq Subs
BY DEF MapTypeOK, NoSweep

(* What an addition in progress consists of. *)
Addition == [step : AddingSteps, sub : Subs, timeout : Nat, now : Moments]

(* The steps an addition of a thread can be at. *)
LEMMA AddingKinds ==
  ASSUME MapTypeOK, NEW th \in Threads
  PROVE  \/ adding[th] = NotAdding /\ adding[th].step = "none"
         \/ /\ adding[th] # NotAdding /\ adding[th] \in Addition
            /\ adding[th].step \in AddingSteps /\ adding[th].sub \in Subs
            /\ adding[th].timeout \in Nat /\ adding[th].now \in Moments
<1>1. adding[th] \in {NotAdding} \cup Addition
  BY DEF MapTypeOK, Addition
<1>2. NotAdding.step = "none" /\ "none" \notin AddingSteps
  BY DEF NotAdding, AddingSteps
<1>3. CASE adding[th] = NotAdding
  BY <1>2, <1>3
<1>4. CASE adding[th] \in Addition
  <2>1. /\ adding[th].step \in AddingSteps /\ adding[th].sub \in Subs
        /\ adding[th].timeout \in Nat /\ adding[th].now \in Moments
    BY <1>4 DEF Addition
  <2> QED
    BY <1>2, <1>4, <2>1
<1> QED
  BY <1>1, <1>3, <1>4

(* A step of one thread's addition leaves the other's as it is.            *)
LEMMA NextAdding ==
  ASSUME MapTypeOK, NEW th \in Threads, NEW a \in {NotAdding} \cup Addition,
         adding' = [adding EXCEPT ![th] = a]
  PROVE  /\ adding' \in [Threads -> {NotAdding} \cup Addition]
         /\ adding'[th] = a
         /\ \A o \in Threads \ {th} : adding'[o] = adding[o]
BY DEF MapTypeOK, Addition

(* What the clock says of an item that is not being added is right: the    *)
(* difference does not wrap.                                               *)
LEMMA OverdueMeansIdle ==
  ASSUME MapInv, NEW s \in Subscribed, sweep.step = "visit",
         IsOverdue(subscriptions[s], sweep.now)
  PROVE  MayGo(s)
<1>1. subscriptions[s].timeout > 0
  BY DEF IsOverdue
<1>2. CASE s \in fresh
  BY <1>2 DEF MayGo
<1>3. CASE s \in setBack
  BY <1>1, <1>3 DEF MayGo
<1>4. CASE s \notin fresh /\ s \notin setBack
  <2>1. s \in Subs /\ subscriptions[s].timeout \in Nat
    BY DEF MapInv, MapTypeOK, SubscriptionData
  <2>2. ~TimeIsMissing(s)
    BY <1>4 DEF MapInv, AddingInv, TimeIsMissing, IsAdding
  <2>3. subscriptions[s].lastAction = active[s]
    BY <1>4, <2>2 DEF MapInv, ItemInv
  <2>4. active[s] <= sweep.now /\ sweep.now <= now
    BY <1>4, <2>1 DEF MapInv, TimesInv
  <2>5. active[s] \in Moments /\ sweep.now \in Moments /\ now \in Moments
    BY <2>1, SweepKinds DEF MapInv, MapTypeOK
  <2>6. sweep.now - active[s] \in Nat /\ sweep.now - active[s] < ClockMod
    BY <2>4, <2>5, MomentsBelowMod DEF Moments
  <2>7. (sweep.now - active[s]) % ClockMod = sweep.now - active[s]
    BY <2>6, ModIsIdentity, MomentsBelowMod
  <2>8. sweep.now - active[s] > subscriptions[s].timeout
    BY <2>3, <2>7 DEF IsOverdue
  <2>9. IdleFor(s) > subscriptions[s].timeout
    BY <2>1, <2>4, <2>5, <2>8, MomentsBelowMod DEF IdleFor, Moments
  <2> QED
    BY <1>1, <2>9 DEF MayGo
<1> QED
  BY <1>2, <1>3, <1>4

(* Nothing is marked while no sweep is in progress. *)
LEMMA UnmarkedWithoutSweep ==
  ASSUME MapInv, sweep = NoSweep, NEW s \in Subscribed
  PROVE  subscriptions[s].timeoutExpired = FALSE
<1>1. sweep.step # "visit"
  BY SweepKinds DEF MapInv
<1>2. subscriptions[s].timeoutExpired \in BOOLEAN
  BY DEF MapInv, MapTypeOK, SubscriptionData
<1> QED
  BY <1>1, <1>2 DEF MapInv, ItemInv
-------------------------------------------------------------------------------
(* A subscriber begins without subscriptions and with neither thread at    *)
(* work.                                                                   *)
THEOREM InitMap == MapInit => MapInv
<1> SUFFICES ASSUME MapInit PROVE MapInv
  OBVIOUS
<1> USE DEF MapInit
<1>1. Subscribed = {}
  BY DEF Subscribed
<1>2. now \in Moments /\ active \in [Subs -> Moments]
  BY ClockAssumption DEF ClockAssumption, Moments
<1>3. sweep.step = "none" /\ \A th \in Threads : adding[th] = NotAdding
  BY DEF NoSweep
<1>4. MapTypeOK
  BY <1>1, <1>2 DEF MapTypeOK
<1>5. TimesInv
  BY <1>2, <1>3, MomentsBelowMod DEF TimesInv, Moments
<1>6. AddingInv
  BY <1>3 DEF AddingInv
<1> QED
  BY <1>1, <1>4, <1>5, <1>6 DEF MapInv

(* Time passes. *)
LEMMA TickPreserves ==
  ASSUME MapInv, Tick
  PROVE  MapInv'
<1> USE DEF MapInv, Tick, mapVars
<1>1. now \in Nat /\ now' = now + 1 /\ now' \in Moments
  BY MomentsBelowMod DEF MapTypeOK, Moments
<1>2. MapTypeOK'
  BY <1>1 DEF MapTypeOK, Subscribed
<1>3. TimesInv'
  <2>1. \A s \in Subs : active[s] \in Nat
    BY MomentsBelowMod DEF MapTypeOK, Moments
  <2>2. sweep.step = "visit" => sweep.now \in Nat
    BY SweepKinds, MomentsBelowMod DEF Moments
  <2> QED
    BY <1>1, <2>1, <2>2 DEF TimesInv
<1>4. AddingInv'
  BY DEF AddingInv
<1>5. ASSUME NEW s \in Subscribed
      PROVE  ItemInv(s)'
  <2>1. active[s] \in Nat /\ subscriptions[s].timeout \in Nat
    BY <1>5, MomentsBelowMod DEF MapTypeOK, SubscriptionData, Moments
  <2>2. MayGo(s) => MayGo(s)'
    BY <1>1, <2>1 DEF MayGo, IdleFor
  <2> QED
    BY <1>5, <2>2 DEF ItemInv, TimeIsMissing, IsAdding
<1> QED
  BY <1>2, <1>3, <1>4, <1>5 DEF Subscribed
-------------------------------------------------------------------------------
(***************************************************************************)
(* The subscriber thread's sweeps and deliveries                           *)
(***************************************************************************)
LEMMA BeginSweepPreserves ==
  ASSUME MapInv, BeginSweep
  PROVE  MapInv'
<1> USE DEF MapInv, BeginSweep
<1>1. sweep'.step = "visit" /\ sweep'.now = now /\ now \in Nat
  BY MomentsBelowMod DEF MapTypeOK, Moments
<1>2. /\ fresh' \subseteq Subs
      /\ \A th \in Threads : adding[th] # NotAdding => th = "command" /\ adding[th].sub \in fresh'
  BY AddingKinds DEF IsAdding, Threads
<1>3. MapTypeOK'
  BY <1>2 DEF MapTypeOK, Subscribed
<1>4. TimesInv'
  BY <1>1 DEF TimesInv
<1>5. AddingInv'
  BY <1>2 DEF AddingInv
<1>6. ASSUME NEW s \in Subscribed
      PROVE  ItemInv(s)'
  BY <1>6, UnmarkedWithoutSweep DEF ItemInv, TimeIsMissing, IsAdding
<1> QED
  BY <1>3, <1>4, <1>5, <1>6 DEF Subscribed

(* handleTimeout looks at one item of the map and may mark it. *)
LEMMA VisitItemPreserves ==
  ASSUME MapInv, NEW v \in Subs, VisitItem(v)
  PROVE  MapInv'
<1> USE DEF MapInv, VisitItem
<1>1. Subscribed' = Subscribed
  BY DEF Subscribed
<1>2. /\ sweep'.step = "visit" /\ sweep'.now = sweep.now
      /\ sweep' \in [step : {"visit"}, now : Moments, seen : SUBSET Subs, todo : SUBSET Subs]
  <2>1. sweep \in [step : {"visit"}, now : Moments, seen : SUBSET Subs, todo : SUBSET Subs]
    BY DEF MapTypeOK, NoSweep
  <2>2. sweep.seen \cup {v} \in SUBSET Subs /\ sweep.todo \ {v} \in SUBSET Subs
    BY <2>1
  <2>3. sweep' = [sweep EXCEPT !.seen = sweep.seen \cup {v}, !.todo = sweep.todo \ {v}]
    OBVIOUS
  <2> QED
    BY <2>1, <2>2, <2>3
(* The item of v keeps its times, and the others all they have. *)
<1>3. ASSUME NEW s \in Subscribed
      PROVE  /\ subscriptions'[s] \in SubscriptionData
             /\ subscriptions'[s].timeout = subscriptions[s].timeout
             /\ subscriptions'[s].lastAction = subscriptions[s].lastAction
             /\ \/ subscriptions'[s].timeoutExpired = subscriptions[s].timeoutExpired
                \/ s = v /\ IsOverdue(subscriptions[v], sweep.now)
  <2>1. subscriptions[s] \in SubscriptionData
    BY <1>3 DEF MapTypeOK
  <2>2. CASE subscriptions' = subscriptions
    BY <2>1, <2>2
  <2>3. CASE /\ IsOverdue(subscriptions[v], sweep.now)
             /\ subscriptions' = [subscriptions EXCEPT ![v].timeoutExpired = TRUE]
    <3>1. subscriptions'[s] = IF s = v
                              THEN [subscriptions[v] EXCEPT !.timeoutExpired = TRUE]
                              ELSE subscriptions[s]
      BY <1>3, <2>3 DEF Subscribed
    <3>2. CASE s = v
      <4>1. /\ subscriptions'[s] \in SubscriptionData
            /\ subscriptions'[s].timeout = subscriptions[s].timeout
            /\ subscriptions'[s].lastAction = subscriptions[s].lastAction
        BY <2>1, <3>1, <3>2 DEF SubscriptionData
      <4> QED
        BY <2>3, <3>2, <4>1
    <3>3. CASE s # v
      BY <2>1, <3>1, <3>3
    <3> QED
      BY <3>2, <3>3
  <2> QED
    BY <2>2, <2>3
<1>4. MapTypeOK'
  BY <1>1, <1>2, <1>3 DEF MapTypeOK
<1>5. TimesInv'
  BY <1>2 DEF TimesInv
<1>6. AddingInv'
  BY DEF AddingInv
<1>7. ASSUME NEW s \in Subscribed
      PROVE  ItemInv(s)'
  <2>1. IsOverdue(subscriptions[s], sweep.now) => MayGo(s)
    BY <1>7, OverdueMeansIdle
  <2>2. MayGo(s) => MayGo(s)'
    BY <1>3, <1>7 DEF MayGo, IdleFor
  <2> QED
    BY <1>2, <1>3, <1>7, <2>1, <2>2 DEF ItemInv, TimeIsMissing, IsAdding
<1> QED
  BY <1>1, <1>4, <1>5, <1>6, <1>7

(* The erase_if of handleTimeout. *)
LEMMA EndSweepPreserves ==
  ASSUME MapInv, EndSweep
  PROVE  MapInv'
<1> USE DEF MapInv, EndSweep
<1>1. /\ Subscribed' \subseteq Subscribed
      /\ \A s \in Subscribed' : /\ subscriptions'[s] = subscriptions[s]
                                /\ ~subscriptions[s].timeoutExpired
  BY DEF Subscribed, Without
<1>2. sweep'.step = "none"
  BY DEF NoSweep
<1>3. MapTypeOK'
  BY <1>1 DEF MapTypeOK
<1>4. TimesInv'
  BY <1>2 DEF TimesInv
<1>5. AddingInv'
  BY <1>2 DEF AddingInv
<1>6. ASSUME NEW s \in Subscribed'
      PROVE  ItemInv(s)'
  BY <1>1, <1>6 DEF ItemInv, TimeIsMissing, IsAdding
<1> QED
  BY <1>3, <1>4, <1>5, <1>6

(* pushMessageBatch looks an item up, refreshes it and copies its type. *)
LEMMA PushPreserves ==
  ASSUME MapInv, NEW t \in Types, PushMessageBatch(t)
  PROVE  MapInv'
<1> USE DEF MapInv, PushMessageBatch
<1>1. Subscribed' = Subscribed
  BY DEF UpdateLastAction, Subscribed
<1>2. now \in Moments /\ now \in Nat
  BY MomentsBelowMod DEF MapTypeOK, Moments
<1>3. sweep.step = "none"
  BY DEF NoSweep
<1>4. ASSUME NEW s \in Subscribed
      PROVE  /\ subscriptions'[s] \in SubscriptionData
             /\ subscriptions'[s].lastAction =
                  IF s = t THEN now ELSE subscriptions[s].lastAction
             /\ subscriptions'[s].timeoutExpired = subscriptions[s].timeoutExpired
  <2>1. subscriptions[s] \in SubscriptionData
    BY <1>4 DEF MapTypeOK
  <2>2. subscriptions'[s] = IF s = t THEN [subscriptions[s] EXCEPT !.lastAction = now]
                            ELSE subscriptions[s]
    BY <1>4 DEF UpdateLastAction, Subscribed
  <2> QED
    BY <1>2, <2>1, <2>2 DEF SubscriptionData
<1>5. /\ active' \in [Subs -> Moments]
      /\ \A s \in Subs : active'[s] = IF s = t /\ t \in Subscribed THEN now ELSE active[s]
  BY <1>2 DEF MapTypeOK
<1>6. MapTypeOK'
  BY <1>1, <1>4, <1>5 DEF MapTypeOK
<1>7. TimesInv'
  BY <1>2, <1>3, <1>5 DEF TimesInv
(* The clock is not behind what an addition has read of it. *)
<1>8. AddingInv'
  <2>1. ASSUME NEW th \in Threads, adding[th] # NotAdding
        PROVE  adding[th].now <= active'[adding[th].sub]
    <3>1. adding[th].sub \in Subs /\ adding[th].now \in Nat
      BY <2>1, AddingKinds, MomentsBelowMod DEF Moments
    <3>2. active[adding[th].sub] \in Nat /\ active[adding[th].sub] <= now
      BY <3>1, MomentsBelowMod DEF TimesInv, MapTypeOK, Moments
    <3>3. adding[th].now <= active[adding[th].sub]
      BY <2>1 DEF AddingInv
    <3> QED
      BY <1>2, <1>5, <3>1, <3>2, <3>3
  <2> QED
    BY <1>3, <2>1 DEF AddingInv
<1>9. ASSUME NEW s \in Subscribed
      PROVE  ItemInv(s)'
  <2>1. \/ TimeIsMissing(s) \/ s \in setBack'
        \/ subscriptions'[s].lastAction = active'[s]
    BY <1>4, <1>5, <1>9 DEF ItemInv, MapTypeOK
  <2>2. ~subscriptions'[s].timeoutExpired
    BY <1>4, <1>9, UnmarkedWithoutSweep
  <2> QED
    BY <2>1, <2>2 DEF ItemInv, TimeIsMissing, IsAdding
<1> QED
  BY <1>1, <1>6, <1>7, <1>8, <1>9
-------------------------------------------------------------------------------
(***************************************************************************)
(* Either thread's additions                                               *)
(***************************************************************************)
LEMMA BeginAddPreserves ==
  ASSUME MapInv, NEW th \in Threads, NEW a \in Subs, NEW timeout \in Nat,
         BeginAdd(th, a, timeout)
  PROVE  MapInv'
<1> USE DEF MapInv, BeginAdd
<1> DEFINE new == [step |-> "insert", sub |-> a, timeout |-> timeout, now |-> now]
<1>1. /\ Subscribed' = Subscribed /\ a \notin Subscribed
      /\ \A s \in Subscribed : s # a
  BY DEF Subscribed
<1>2. now \in Moments /\ now \in Nat
  BY MomentsBelowMod DEF MapTypeOK, Moments
<1>3. new \in Addition
  BY <1>2 DEF AddingSteps, Addition
<1>4. /\ adding' \in [Threads -> {NotAdding} \cup Addition]
      /\ adding'[th] = new
      /\ \A o \in Threads \ {th} : adding'[o] = adding[o]
  BY <1>3, NextAdding
<1>5. /\ active' \in [Subs -> Moments]
      /\ \A s \in Subs : active'[s] = IF s = a THEN now ELSE active[s]
  BY <1>2 DEF MapTypeOK
<1>6. MapTypeOK'
  BY <1>1, <1>4, <1>5 DEF MapTypeOK, Addition
<1>7. TimesInv'
  BY <1>2, <1>5 DEF TimesInv
<1>8. AddingInv'
  <2>1. ASSUME NEW o \in Threads, adding'[o] # NotAdding
        PROVE  /\ adding'[o].now <= active'[adding'[o].sub]
               /\ sweep.step = "visit" => o = "command" /\ adding'[o].sub \in fresh'
    <3>1. CASE o = th
      <4>1. adding'[o].sub = a /\ adding'[o].now = now /\ active'[a] = now
        BY <1>4, <1>5, <3>1
      <4>2. th = "command" \/ sweep.step = "none"
        BY DEF Threads, NoSweep
      <4> QED
        BY <1>2, <3>1, <4>1, <4>2
    <3>2. CASE o # th
      <4>1. adding'[o] = adding[o] /\ adding[o] # NotAdding
        BY <1>4, <2>1, <3>2
      <4>2. adding[o].sub \in Subs /\ adding[o].now \in Nat
        BY <4>1, AddingKinds, MomentsBelowMod DEF Moments
      <4>3. active[adding[o].sub] \in Nat /\ active[adding[o].sub] <= now
        BY <4>2, MomentsBelowMod DEF TimesInv, MapTypeOK, Moments
      <4>4. /\ adding[o].now <= active[adding[o].sub]
            /\ sweep.step = "visit" => o = "command" /\ adding[o].sub \in fresh
        BY <4>1 DEF AddingInv
      <4>5. adding[o].now <= active'[adding[o].sub]
        BY <1>2, <1>5, <4>2, <4>3, <4>4
      <4> QED
        BY <4>1, <4>4, <4>5
    <3> QED
      BY <3>1, <3>2
  <2> QED
    BY <2>1 DEF AddingInv
<1>9. ASSUME NEW s \in Subscribed
      PROVE  ItemInv(s)'
  <2>1. s \in Subs /\ s # a /\ active'[s] = active[s]
    BY <1>1, <1>5, <1>9 DEF MapTypeOK
  <2>2. TimeIsMissing(s) => TimeIsMissing(s)'
    <3>1. \A o \in Threads : IsAdding(o, s) => adding'[o] = adding[o]
      BY <1>4 DEF IsAdding
    <3> QED
      BY <3>1 DEF TimeIsMissing, IsAdding
  <2>3. MayGo(s) => MayGo(s)'
    BY <2>1 DEF MayGo, IdleFor
  <2> QED
    BY <1>9, <2>1, <2>2, <2>3 DEF ItemInv
<1> QED
  BY <1>1, <1>6, <1>7, <1>8, <1>9

(* What a step of an addition does to the additions: one thread's goes on, *)
(* with the same name, or is over.                                         *)
LEMMA AddingGoesOn ==
  ASSUME MapInv, NEW th \in Threads, NEW new \in {NotAdding} \cup Addition,
         adding[th] # NotAdding,
         adding' = [adding EXCEPT ![th] = new],
         new # NotAdding => new.sub = adding[th].sub /\ new.now = adding[th].now,
         UNCHANGED <<now, sweep, active, fresh>>
  PROVE  AddingInv' /\ TimesInv'
<1>1. /\ adding'[th] = new
      /\ \A o \in Threads \ {th} : adding'[o] = adding[o]
  BY NextAdding DEF MapInv
<1>2. \A o \in Threads : adding'[o] # NotAdding =>
        /\ adding[o] # NotAdding
        /\ adding'[o].sub = adding[o].sub /\ adding'[o].now = adding[o].now
  BY <1>1
<1>3. AddingInv'
  BY <1>2 DEF MapInv, AddingInv
<1>4. TimesInv'
  BY DEF MapInv, TimesInv
<1> QED
  BY <1>3, <1>4

(* operator[] of the map puts a zeroed item there, or finds one. *)
LEMMA InsertPreserves ==
  ASSUME MapInv, NEW th \in Threads, Insert(th)
  PROVE  MapInv'
<1> USE DEF MapInv, Insert
<1> DEFINE a   == adding[th].sub
           new == [adding[th] EXCEPT !.step = "timeout"]
<1>1. adding[th] # NotAdding /\ adding[th] \in Addition /\ a \in Subs
  BY AddingKinds
<1>2. /\ new \in Addition /\ new # NotAdding
      /\ new.step = "timeout" /\ new.sub = a /\ new.now = adding[th].now
  BY <1>1 DEF Addition, AddingSteps, NotAdding
<1>3. adding' = [adding EXCEPT ![th] = new]
  OBVIOUS
<1> HIDE DEF new
<1>4. /\ adding' \in [Threads -> {NotAdding} \cup Addition]
      /\ adding'[th] = new
      /\ \A o \in Threads \ {th} : adding'[o] = adding[o]
  BY <1>2, <1>3, NextAdding
<1>5. /\ Subscribed' = Subscribed \cup {a}
      /\ \A s \in Subscribed : subscriptions'[s] = subscriptions[s]
      /\ a \notin Subscribed => subscriptions'[a] = Zeroes
  BY <1>1 DEF Subscribed, Updated
<1>6. Zeroes \in SubscriptionData /\ ~Zeroes.timeoutExpired
  BY DEF Zeroes, SubscriptionData
<1>7. MapTypeOK'
  BY <1>1, <1>4, <1>5, <1>6 DEF MapTypeOK, Addition
<1>8. AddingInv' /\ TimesInv'
  BY <1>1, <1>2, <1>3, AddingGoesOn
<1>9. ASSUME NEW s \in Subscribed'
      PROVE  ItemInv(s)'
  <2>1. TimeIsMissing(a)'
    BY <1>2, <1>4 DEF TimeIsMissing, IsAdding
  <2>2. CASE s \notin Subscribed
    BY <1>5, <1>6, <1>9, <2>1, <2>2 DEF ItemInv
  <2>3. CASE s \in Subscribed
    <3>1. TimeIsMissing(s) => TimeIsMissing(s)'
      BY <1>2, <1>4, <2>1 DEF TimeIsMissing, IsAdding
    <3>2. MayGo(s) => MayGo(s)'
      BY <1>5, <2>3 DEF MayGo, IdleFor
    <3> QED
      BY <1>5, <2>3, <3>1, <3>2 DEF ItemInv
  <2> QED
    BY <2>2, <2>3
<1> QED
  BY <1>7, <1>8, <1>9

(* What a store does: to the item being added, and to nothing if that was  *)
(* erased; the other thread's addition stays as it is.                     *)
LEMMA StoreEffect ==
  ASSUME MapInv, NEW th \in Threads, NEW from \in AddingSteps,
         NEW to \in AddingSteps \cup {"none"}, NEW data, Store(th, from, to, data),
         adding[th].sub \in Subscribed => data \in SubscriptionData
  PROVE  /\ setBack' \subseteq Subs => MapTypeOK'
         /\ AddingInv' /\ TimesInv'
         /\ Subscribed' = Subscribed
         /\ \A s \in Subscribed : subscriptions'[s] = IF s = adding[th].sub THEN data
                                                      ELSE subscriptions[s]
         /\ adding[th] # NotAdding /\ adding[th].step = from
         /\ adding[th].sub \in Subs /\ adding[th].timeout \in Nat
         /\ adding[th].now \in Moments
         /\ \A o \in Threads \ {th} : adding'[o] = adding[o]
         /\ to = "none" => adding'[th] = NotAdding
         /\ to # "none" => /\ adding'[th] # NotAdding /\ adding'[th].step = to
                           /\ adding'[th].sub = adding[th].sub
         /\ UNCHANGED <<now, sweep, active, fresh>>
<1> DEFINE a   == adding[th].sub
           new == IF to = "none" THEN NotAdding ELSE [adding[th] EXCEPT !.step = to]
<1>1. /\ adding[th] # NotAdding /\ adding[th] \in Addition /\ adding[th].step = from
      /\ a \in Subs /\ adding[th].timeout \in Nat /\ adding[th].now \in Moments
  BY AddingKinds DEF Store, AddingSteps, MapInv
<1>2. /\ new \in {NotAdding} \cup Addition
      /\ to = "none" => new = NotAdding
      /\ to # "none" => /\ new # NotAdding /\ new.step = to
                        /\ new.sub = a /\ new.now = adding[th].now
  <2>1. CASE to = "none"
    BY <2>1
  <2>2. CASE to # "none"
    <3>1. /\ [adding[th] EXCEPT !.step = to] \in Addition
          /\ [adding[th] EXCEPT !.step = to].step = to
          /\ [adding[th] EXCEPT !.step = to].sub = a
          /\ [adding[th] EXCEPT !.step = to].now = adding[th].now
      BY <1>1, <2>2 DEF Addition
    <3>2. NotAdding.step = "none"
      BY DEF NotAdding
    <3> QED
      BY <2>2, <3>1, <3>2
  <2> QED
    BY <2>1, <2>2
<1>3. adding' = [adding EXCEPT ![th] = new]
  BY DEF Store
<1> HIDE DEF new
<1>4. /\ adding' \in [Threads -> {NotAdding} \cup Addition]
      /\ adding'[th] = new
      /\ \A o \in Threads \ {th} : adding'[o] = adding[o]
  BY <1>2, <1>3, NextAdding DEF MapInv
<1>5. UNCHANGED <<now, sweep, active, fresh>>
  BY DEF Store
<1>6. AddingInv' /\ TimesInv'
  BY <1>1, <1>2, <1>3, <1>5, AddingGoesOn
<1>7. /\ Subscribed' = Subscribed
      /\ \A s \in Subscribed : subscriptions'[s] = IF s = a THEN data ELSE subscriptions[s]
  BY DEF Store, Updated, Subscribed
<1>8. ASSUME setBack' \subseteq Subs
      PROVE  MapTypeOK'
  <2>1. \A s \in Subscribed' : subscriptions'[s] \in SubscriptionData
    BY <1>7 DEF MapInv, MapTypeOK
  <2> QED
    BY <1>4, <1>5, <1>7, <1>8, <2>1 DEF MapInv, MapTypeOK, Addition
<1> QED
  BY <1>1, <1>2, <1>4, <1>5, <1>6, <1>7, <1>8

(* An item that is being added while a sweep goes on may go with it.       *)
LEMMA AddedMayGo ==
  ASSUME MapInv, NEW th \in Threads, adding[th] # NotAdding, sweep.step = "visit"
  PROVE  adding[th].sub \in fresh
BY DEF MapInv, AddingInv

(* The items of other names stay as they are. *)
LEMMA OthersStay ==
  ASSUME MapInv, NEW th \in Threads, NEW s \in Subscribed, s # adding[th].sub,
         subscriptions'[s] = subscriptions[s],
         s \in setBack <=> s \in setBack',
         \A o \in Threads \ {th} : adding'[o] = adding[o],
         UNCHANGED <<now, sweep, active, fresh>>
  PROVE  ItemInv(s)'
<1>1. TimeIsMissing(s) => TimeIsMissing(s)'
  BY DEF TimeIsMissing, IsAdding
<1>2. MayGo(s) => MayGo(s)'
  BY DEF MayGo, IdleFor
<1> QED
  BY <1>1, <1>2 DEF MapInv, ItemInv

(* The first store of addSubscriptions, that of the timeout. *)
LEMMA StoreTimeoutPreserves ==
  ASSUME MapInv, NEW th \in Threads, StoreTimeout(th)
  PROVE  MapInv'
<1> DEFINE a    == adding[th].sub
           data == [subscriptions[a] EXCEPT !.timeout = adding[th].timeout]
<1>1. Store(th, "timeout", "lastAction", data) /\ setBack' = setBack
  BY DEF StoreTimeout
<1>2. a \in Subscribed =>
        data \in SubscriptionData /\ data.timeoutExpired = subscriptions[a].timeoutExpired
  <2>1. adding[th].timeout \in Nat
    BY <1>1, AddingKinds DEF Store, MapInv
  <2>2. a \in Subscribed => subscriptions[a] \in SubscriptionData
    BY DEF MapInv, MapTypeOK
  <2> QED
    BY <2>1, <2>2 DEF SubscriptionData
<1> HIDE DEF data
<1>3. /\ setBack' \subseteq Subs => MapTypeOK'
      /\ AddingInv' /\ TimesInv' /\ Subscribed' = Subscribed
      /\ \A s \in Subscribed : subscriptions'[s] = IF s = a THEN data ELSE subscriptions[s]
      /\ adding[th] # NotAdding
      /\ \A o \in Threads \ {th} : adding'[o] = adding[o]
      /\ adding'[th] # NotAdding /\ adding'[th].step = "lastAction" /\ adding'[th].sub = a
      /\ UNCHANGED <<now, sweep, active, fresh>>
  BY <1>1, <1>2, StoreEffect DEF AddingSteps
<1>4. MapTypeOK'
  BY <1>1, <1>3 DEF MapInv, MapTypeOK
<1>5. ASSUME NEW s \in Subscribed
      PROVE  ItemInv(s)'
  <2>1. CASE s = a
    <3>1. TimeIsMissing(s)'
      BY <1>3, <2>1 DEF TimeIsMissing, IsAdding
    <3>2. subscriptions'[s].timeoutExpired = subscriptions[s].timeoutExpired
      BY <1>2, <1>3, <1>5, <2>1
    <3>3. subscriptions[s].timeoutExpired => sweep.step = "visit" /\ s \in fresh
      BY <1>3, <1>5, <2>1, AddedMayGo DEF MapInv, ItemInv
    <3> QED
      BY <1>3, <3>1, <3>2, <3>3 DEF ItemInv, MayGo
  <2>2. CASE s # a
    BY <1>1, <1>3, <1>5, <2>2, OthersStay
  <2> QED
    BY <2>1, <2>2
<1> QED
  BY <1>3, <1>4, <1>5 DEF MapInv

(* The second store, that of the time of the last action. *)
LEMMA StoreLastActionPreserves ==
  ASSUME MapInv, NEW th \in Threads, StoreLastAction(th)
  PROVE  MapInv'
<1> DEFINE a    == adding[th].sub
           data == [subscriptions[a] EXCEPT !.lastAction = adding[th].now]
<1>1. /\ Store(th, "lastAction", "expired", data)
      /\ setBack' = IF adding[th].now < active[a] THEN setBack \cup {a} ELSE setBack \ {a}
  BY DEF StoreLastAction
<1>2. adding[th].now \in Nat
  BY <1>1, AddingKinds, MomentsBelowMod DEF Store, MapInv, Moments
<1>3. a \in Subscribed =>
        /\ data \in SubscriptionData /\ data.lastAction = adding[th].now
        /\ data.timeoutExpired = subscriptions[a].timeoutExpired
  <2>1. a \in Subscribed => subscriptions[a] \in SubscriptionData
    BY DEF MapInv, MapTypeOK
  <2> QED
    BY <1>2, <2>1 DEF SubscriptionData
<1> HIDE DEF data
<1>4. /\ setBack' \subseteq Subs => MapTypeOK'
      /\ AddingInv' /\ TimesInv' /\ Subscribed' = Subscribed
      /\ \A s \in Subscribed : subscriptions'[s] = IF s = a THEN data ELSE subscriptions[s]
      /\ adding[th] # NotAdding /\ a \in Subs
      /\ \A o \in Threads \ {th} : adding'[o] = adding[o]
      /\ UNCHANGED <<now, sweep, active, fresh>>
  BY <1>1, <1>3, StoreEffect DEF AddingSteps
<1>5. MapTypeOK'
  BY <1>1, <1>4 DEF MapInv, MapTypeOK
<1>6. ASSUME NEW s \in Subscribed
      PROVE  ItemInv(s)'
  <2>1. CASE s = a
    (* The time of the name is the one stored now, or is set back to it.   *)
    <3>1. s \in setBack' \/ subscriptions'[s].lastAction = active[s]
      <4>1. adding[th].now <= active[a] /\ active[a] \in Nat
        BY <1>4, MomentsBelowMod DEF MapInv, AddingInv, MapTypeOK, Moments
      <4>2. subscriptions'[s].lastAction = adding[th].now
        BY <1>3, <1>4, <1>6, <2>1
      <4> QED
        BY <1>1, <1>2, <2>1, <4>1, <4>2
    <3>2. subscriptions'[s].timeoutExpired = subscriptions[s].timeoutExpired
      BY <1>3, <1>4, <1>6, <2>1
    <3>3. subscriptions[s].timeoutExpired => sweep.step = "visit" /\ s \in fresh
      BY <1>4, <1>6, <2>1, AddedMayGo DEF MapInv, ItemInv
    <3> QED
      BY <1>4, <3>1, <3>2, <3>3 DEF ItemInv, MayGo
  <2>2. CASE s # a
    <3>1. s \in setBack <=> s \in setBack'
      BY <1>1, <2>2
    <3> QED
      BY <1>4, <1>6, <2>2, <3>1, OthersStay
  <2> QED
    BY <2>1, <2>2
<1> QED
  BY <1>4, <1>5, <1>6 DEF MapInv

(* The third store, that of the expired mark. *)
LEMMA StoreExpiredPreserves ==
  ASSUME MapInv, NEW th \in Threads, StoreExpired(th)
  PROVE  MapInv'
<1> DEFINE a    == adding[th].sub
           data == [subscriptions[a] EXCEPT !.timeoutExpired = FALSE]
<1>1. Store(th, "expired", "none", data) /\ setBack' = setBack
  BY DEF StoreExpired
<1>2. a \in Subscribed =>
        /\ data \in SubscriptionData /\ data.lastAction = subscriptions[a].lastAction
        /\ ~data.timeoutExpired
  <2>1. a \in Subscribed => subscriptions[a] \in SubscriptionData
    BY DEF MapInv, MapTypeOK
  <2> QED
    BY <2>1 DEF SubscriptionData
<1> HIDE DEF data
<1>3. /\ setBack' \subseteq Subs => MapTypeOK'
      /\ AddingInv' /\ TimesInv' /\ Subscribed' = Subscribed
      /\ \A s \in Subscribed : subscriptions'[s] = IF s = a THEN data ELSE subscriptions[s]
      /\ adding[th].step = "expired"
      /\ \A o \in Threads \ {th} : adding'[o] = adding[o]
      /\ UNCHANGED <<now, sweep, active, fresh>>
  BY <1>1, <1>2, StoreEffect DEF AddingSteps
<1>4. MapTypeOK'
  BY <1>1, <1>3 DEF MapInv, MapTypeOK
<1>5. ASSUME NEW s \in Subscribed
      PROVE  ItemInv(s)'
  <2>1. CASE s = a
    <3>1. TimeIsMissing(s) => TimeIsMissing(s)'
      BY <1>3 DEF TimeIsMissing, IsAdding
    <3> QED
      BY <1>1, <1>2, <1>3, <1>5, <2>1, <3>1 DEF MapInv, ItemInv
  <2>2. CASE s # a
    BY <1>1, <1>3, <1>5, <2>2, OthersStay
  <2> QED
    BY <2>1, <2>2
<1> QED
  BY <1>3, <1>4, <1>5 DEF MapInv
-------------------------------------------------------------------------------
(* No step of either thread breaks the invariant of the map. *)
THEOREM NextMap == MapInv /\ [MapNext]_<<now, mapVars>> => MapInv'
<1> SUFFICES ASSUME MapInv, [MapNext]_<<now, mapVars>> PROVE MapInv'
  OBVIOUS
<1>1. CASE Tick
  BY <1>1, TickPreserves
<1>2. CASE Sweeping
  BY <1>2, BeginSweepPreserves, VisitItemPreserves, EndSweepPreserves DEF Sweeping
<1>3. CASE \E th \in Threads : AddingThread(th)
  BY <1>3, InsertPreserves, StoreTimeoutPreserves, StoreLastActionPreserves,
     StoreExpiredPreserves DEF AddingThread
<1>4. CASE \E t \in Types : PushMessageBatch(t)
  BY <1>4, PushPreserves
<1>5. CASE \E th \in Threads, s \in Subs, timeout \in Nat : BeginAdd(th, s, timeout)
  BY <1>5, BeginAddPreserves
<1>6. CASE UNCHANGED <<now, mapVars>>
  <2> USE <1>6 DEF mapVars
  <2>1. MapTypeOK' /\ TimesInv' /\ AddingInv'
    BY DEF MapInv, MapTypeOK, TimesInv, AddingInv, Subscribed
  <2>2. \A s \in Subscribed' : ItemInv(s)'
    BY DEF MapInv, ItemInv, TimeIsMissing, IsAdding, Subscribed, MayGo, IdleFor
  <2> QED
    BY <2>1, <2>2 DEF MapInv
<1> QED
  BY <1>1, <1>2, <1>3, <1>4, <1>5, <1>6 DEF MapNext

(* The invariant of the map, its clock, its sweeps and its additions.      *)
THEOREM MapInvariant == MapSpec => []MapInv
BY InitMap, NextMap, PTL DEF MapSpec

(* handleTimeout removes no subscription that was not idle for longer than *)
(* its timeout, in whatever order the two threads touch the map, but for   *)
(* those added during the sweep and those whose time an addition set back. *)
THEOREM IdleOnlyAreRemoved == MapSpec => RemovedWereIdle
<1> DEFINE Fair == \A s \in Subscribed \ DOMAIN subscriptions' : MayGo(s)
<1>1. MapInv /\ [MapNext]_<<now, mapVars>> => [Fair]_subscriptions
  <2> SUFFICES ASSUME MapInv, MapNext, NEW s \in Subscribed \ Subscribed'
               PROVE  MayGo(s)
    BY DEF Subscribed, mapVars
  <2>1. EndSweep
    <3>1. CASE Tick
      BY <3>1 DEF Tick, mapVars, Subscribed
    <3>2. CASE BeginSweep \/ \E v \in Subs : VisitItem(v)
      BY <3>2 DEF BeginSweep, VisitItem, Subscribed
    <3>3. ASSUME NEW th \in Threads, Insert(th)
          PROVE  FALSE
      BY <3>3 DEF Insert, Updated, Subscribed
    <3>4. ASSUME NEW th \in Threads, StoreTimeout(th) \/ StoreLastAction(th) \/ StoreExpired(th)
          PROVE  FALSE
      BY <3>4 DEF StoreTimeout, StoreLastAction, StoreExpired, Store, Updated, Subscribed
    <3>5. CASE \E t \in Types : PushMessageBatch(t)
      BY <3>5 DEF PushMessageBatch, UpdateLastAction, Subscribed
    <3>6. CASE \E th \in Threads, r \in Subs, timeout \in Nat : BeginAdd(th, r, timeout)
      BY <3>6 DEF BeginAdd, Subscribed
    <3> QED
      BY <3>1, <3>2, <3>3, <3>4, <3>5, <3>6 DEF MapNext, Sweeping, AddingThread
  <2>2. subscriptions[s].timeoutExpired
    BY <2>1 DEF EndSweep, Without, Subscribed
  <2> QED
    BY <2>2 DEF MapInv, ItemInv
<1> QED
  BY <1>1, MapInvariant, PTL DEF MapSpec, RemovedWereIdle
-------------------------------------------------------------------------------
(***************************************************************************)
(* What the peer writes                                                    *)
(***************************************************************************)
LEMMA LinesProps ==
  /\ Lines \in Seq(Seq(Characters \ {Cr})) /\ Len(Lines) = Len(Commands)
  /\ Len(Commands) \in Nat
  /\ \A i \in 1 .. Len(Commands) :
       /\ Commands[i] \in Seq(Seq(Characters \ {Cr, Bar})) /\ Commands[i] # <<>>
       /\ Split(Lines[i], Bar) = Meant(Commands[i])
<1> DEFINE S == Characters \ {Cr}
<1>1. Len(Commands) \in Nat /\ DOMAIN Commands = 1 .. Len(Commands)
  BY ConnectionAssumption
<1>2. \A i \in 1 .. Len(Commands) : Commands[i] \in Seq(Seq(Characters \ {Cr, Bar})) /\ Commands[i] # <<>>
  BY ConnectionAssumption, SMTT(30)
<1>3. Bar \in S /\ S \ {Bar} = Characters \ {Cr, Bar}
  BY ConnectionAssumption
<1> HIDE DEF S
<1>4. ASSUME NEW i \in 1 .. Len(Commands)
      PROVE  Join(Commands[i], Bar) \in Seq(S) /\ Split(Join(Commands[i], Bar), Bar) = Meant(Commands[i])
  <2> DEFINE p == Commands[i]
  <2>1. p \in Seq(Seq(S \ {Bar})) /\ p # <<>>
    BY <1>2, <1>3
  <2> HIDE DEF p
  <2>2. Join(p, Bar) \in Seq(S)
    BY <1>3, <2>1, JoinProps
  <2>3. Split(Join(p, Bar), Bar) = Meant(p)
    BY <1>3, <2>1, SplitOfJoin DEF Meant
  <2>4. QED
    BY <2>2, <2>3 DEF p
<1>5. Lines = [i \in 1 .. Len(Commands) |-> Join(Commands[i], Bar)]
  BY <1>1 DEF Lines
<1>6. Lines \in Seq(Seq(S)) /\ Len(Lines) = Len(Commands)
      /\ \A i \in 1 .. Len(Commands) : Lines[i] = Join(Commands[i], Bar)
  BY <1>1, <1>4, <1>5
<1>7. QED
  BY <1>1, <1>2, <1>4, <1>6 DEF S

(* The lines as they are written. *)
Written == Ended(Lines, Cr)

(* The commands with their separators are sequences of characters. *)
LEMMA WrittenProps ==
  /\ Written \in Seq(Seq(Characters)) /\ Len(Written) = Len(Commands) /\ Len(Commands) \in Nat
  /\ \A n \in 0 .. Len(Commands) :
       Concats(Written)[n] \in Seq(Characters) /\ Len(Concats(Written)[n]) \in Nat
<1>1. Lines \in Seq(Seq(Characters \ {Cr})) /\ Len(Lines) = Len(Commands) /\ Len(Commands) \in Nat
  BY LinesProps
<1>2. Cr \in Characters
  BY ConnectionAssumption
<1>3. Written \in Seq(Seq(Characters)) /\ Len(Written) = Len(Lines)
  BY <1>1, <1>2, EndedProps DEF Written
<1>4. Written \in Seq(Seq(Characters))
  BY <1>3
<1>5. \A n \in 0 .. Len(Written) :
        Concats(Written)[n] \in Seq(Characters) /\ Len(Concats(Written)[n]) \in Nat
  BY <1>4, ConcatsType
<1>6. QED
  BY <1>1, <1>3, <1>5

(* Behind the intent the only separator of the handshake is its last       *)
(* character.                                                              *)
LEMMA HandshakeProps ==
  /\ Cat(Intent, Name) \in Seq(Characters)
  /\ Len(Cat(Intent, Name)) = 2 + Len(Name) /\ Len(Name) \in Nat
  /\ Handshake = Append(Cat(Intent, Name), Cr)
  /\ Handshake \in Seq(Characters) /\ Len(Handshake) = 3 + Len(Name)
  /\ \A j \in 3 .. Len(Handshake) : Handshake[j] = Cr => j = Len(Handshake)
<1> DEFINE a == Cat(Intent, Name)
<1>1. Intent \in Seq(Characters) /\ Len(Intent) = 2 /\ Cr \in Characters
  BY ConnectionAssumption
<1>2. Name \in Seq(Characters) /\ Len(Name) \in Nat /\ \A j \in 1 .. Len(Name) : Name[j] # Cr
  <2>1. Name \in Seq(Characters \ {Cr})
    BY ConnectionAssumption
  <2>2. QED
    BY <2>1
<1>3. a \in Seq(Characters)
  BY <1>1, <1>2, CatProps
<1>4. Len(a) = Len(Intent) + Len(Name)
  BY <1>1, <1>2, CatProps
<1>5. \A j \in 1 .. Len(Name) : a[Len(Intent) + j] = Name[j]
  <2>1. Intent \in Seq(Characters) /\ Name \in Seq(Characters)
    BY <1>1, <1>2
  <2>2. QED
    BY <2>1, CatProps
<1>6. Handshake = Cat(a, <<Cr>>)
  BY DEF Handshake, Cat
<1> HIDE DEF a
<1>7. Handshake = Append(a, Cr)
  BY <1>1, <1>3, <1>6, AppendIsCat
<1>8. /\ Handshake \in Seq(Characters) /\ Len(Handshake) = Len(a) + 1
      /\ \A j \in 1 .. Len(a) : Handshake[j] = a[j]
  BY <1>1, <1>3, <1>7
<1>9. ASSUME NEW j \in 3 .. Len(Handshake), Handshake[j] = Cr PROVE j = Len(Handshake)
  <2>1. SUFFICES ASSUME j # Len(Handshake) PROVE FALSE
    OBVIOUS
  <2>2. j - 2 \in 1 .. Len(Name) /\ 2 + (j - 2) = j /\ j \in 1 .. Len(a)
    BY <1>1, <1>2, <1>4, <1>8, <2>1
  <2>3. Handshake[j] = Name[j - 2]
    <3>1. Handshake[j] = a[j]
      BY <1>8, <2>2
    <3>2. a[Len(Intent) + (j - 2)] = Name[j - 2]
      BY <1>5, <2>2
    <3>3. Len(Intent) + (j - 2) = j
      BY <1>1, <2>2
    <3>4. QED
      BY <3>1, <3>2, <3>3
  <2>4. QED
    BY <1>2, <1>9, <2>2, <2>3
<1>10. Len(a) = 2 + Len(Name) /\ Len(Handshake) = 3 + Len(Name)
  BY <1>1, <1>2, <1>4, <1>8
<1>11. QED
  BY <1>2, <1>3, <1>7, <1>8, <1>9, <1>10 DEF a

(* The text is the handshake and all that is written behind it. *)
LEMMA TextProps ==
  /\ Text \in Seq(Characters)
  /\ Len(Text) = EndOf(Len(Commands))
  /\ \A j \in 1 .. Len(Handshake) : Text[j] = Handshake[j]
  /\ \A j \in 1 .. Len(Concats(Written)[Len(Commands)]) :
       Text[Len(Handshake) + j] = Concats(Written)[Len(Commands)][j]
<1> DEFINE N == Len(Commands)
           w == Concats(Written)[N]
           h == Handshake
<1>1. N \in 0 .. N /\ Len(Written) = N
  BY WrittenProps
<1>2. w \in Seq(Characters)
  BY <1>1, WrittenProps
<1>3. h \in Seq(Characters)
  BY HandshakeProps
<1>4. Text = Cat(h, w) /\ EndOf(N) = Len(h) + Len(w)
  BY <1>1 DEF Text, Cat, Concat, EndOf, Written
<1> HIDE DEF w, h
<1>5. Cat(h, w) \in Seq(Characters)
  BY <1>2, <1>3, CatProps
<1>6. Len(Cat(h, w)) = Len(h) + Len(w)
  BY <1>2, <1>3, CatProps
<1>7. \A j \in 1 .. Len(h) : Cat(h, w)[j] = h[j]
  BY <1>2, <1>3, CatProps
<1>8. \A j \in 1 .. Len(w) : Cat(h, w)[Len(h) + j] = w[j]
  BY <1>2, <1>3, CatProps
<1>9. QED
  BY <1>4, <1>5, <1>6, <1>7, <1>8 DEF w, h

(* The ends of the commands lie in the text, in the order of the           *)
(* commands.                                                               *)
LEMMA EndOfProps ==
  /\ EndOf(0) = Len(Handshake)
  /\ \A n \in 0 .. Len(Commands) :
       /\ EndOf(n) \in Nat /\ Len(Handshake) <= EndOf(n) /\ EndOf(n) <= Len(Text)
       /\ \A m \in 0 .. Len(Commands) : n <= m => EndOf(n) <= EndOf(m)
<1> DEFINE N == Len(Commands)
           t == Concats(Written)
<1>1. N \in Nat /\ Len(Written) = N /\ Written \in Seq(Seq(Characters))
  BY WrittenProps
<1>2. \A n \in 0 .. N : Len(t[n]) \in Nat
  BY WrittenProps
<1>3. Len(t[0]) = 0
  BY <1>1, ConcatsSteps
<1>4. Len(Handshake) \in Nat
  BY HandshakeProps
<1>5. \A n : EndOf(n) = Len(Handshake) + Len(t[n])
  BY DEF EndOf, Written
<1>6. ASSUME NEW n \in 0 .. N, NEW m \in 0 .. N, n <= m
      PROVE  EndOf(n) <= EndOf(m)
  <2>1. n \in Nat /\ m \in Nat /\ m <= Len(Written)
    BY <1>1
  <2>2. Written \in Seq(Seq(Characters))
    BY <1>1
  <2>3. Len(Concats(Written)[n]) <= Len(Concats(Written)[m])
    BY <1>6, <2>1, <2>2, ConcatsPrefix
  <2>4. QED
    BY <1>2, <1>4, <1>5, <2>3
<1>7. Len(Text) = EndOf(N) /\ N \in 0 .. N
  BY <1>1, TextProps
<1>8. ASSUME NEW n \in 0 .. N
      PROVE  EndOf(n) \in Nat /\ Len(Handshake) <= EndOf(n) /\ EndOf(n) <= Len(Text)
  <2>1. n <= N
    BY <1>1
  <2>2. QED
    BY <1>2, <1>4, <1>5, <1>6, <1>7, <2>1
<1>9. EndOf(0) = Len(Handshake)
  BY <1>3, <1>4, <1>5
<1>10. QED
  BY <1>6, <1>8, <1>9

(* Among the commands written, a separator is at the end of one of them. *)
LEMMA WrittenEnds ==
  \A n \in 0 .. Len(Commands) : \A i \in 1 .. Len(Concats(Written)[n]) :
    Concats(Written)[n][i] = Cr => \E m \in 1 .. n : i = Len(Concats(Written)[m])
<1> DEFINE S == Characters
           d == Cr
           parts == Lines
<1>1. parts \in Seq(Seq(S \ {d})) /\ Len(parts) = Len(Commands)
  BY LinesProps
<1>2. parts \in Seq(Seq(S \ {d})) /\ d \in S
  BY <1>1, ConnectionAssumption
<1> HIDE DEF S, d, parts
<1>3. \A n \in 0 .. Len(parts) : \A i \in 1 .. Len(Concats(Ended(parts, d))[n]) :
           Concats(Ended(parts, d))[n][i] = d
             => \E m \in 1 .. n : i = Len(Concats(Ended(parts, d))[m])
  BY <1>2, DelimiterEnds
<1>4. Written = Ended(parts, d)
  BY DEF Written, parts, d
<1>5. QED
  BY <1>1, <1>3, <1>4 DEF d

(* Behind the handshake, the separator ends a command. *)
LEMMA CrEndsCommand ==
  ASSUME NEW i \in Nat, Len(Handshake) < i, i <= Len(Text), Text[i] = Cr
  PROVE  \E m \in 1 .. Len(Commands) : i = EndOf(m)
<1> DEFINE N == Len(Commands)
           h == Len(Handshake)
           w == Concats(Written)[N]
<1>1. N \in Nat /\ N \in 0 .. N /\ Len(w) \in Nat
  BY WrittenProps
<1>2. h \in Nat
  BY HandshakeProps
<1>3. Len(Text) = h + Len(w) /\ \A j \in 1 .. Len(w) : Text[h + j] = w[j]
  BY TextProps DEF EndOf, Written
<1>4. \A m : EndOf(m) = h + Len(Concats(Written)[m])
  BY DEF EndOf, Written
<1>5. h < i
  OBVIOUS
<1>6. \A j \in 1 .. Len(w) : w[j] = Cr => \E m \in 1 .. N : j = Len(Concats(Written)[m])
  BY <1>1, WrittenEnds
<1> HIDE DEF h, w, N
<1>7. i - h \in 1 .. Len(w) /\ h + (i - h) = i
  BY <1>1, <1>2, <1>3, <1>5
<1>8. w[i - h] = Cr
  BY <1>3, <1>7
<1>9. PICK m \in 1 .. N : i - h = Len(Concats(Written)[m])
  BY <1>6, <1>7, <1>8
<1>10. i = EndOf(m)
  BY <1>4, <1>7, <1>9
<1>11. QED
  BY <1>10 DEF N

(* The text between the ends of two commands is those between them, each   *)
(* with the separator behind it.                                           *)
LEMMA TextBetween ==
  ASSUME NEW n \in Nat, NEW m \in Nat, n <= m, m <= Len(Commands)
  PROVE  SubSeq(Text, EndOf(n) + 1, EndOf(m)) = Concat(Ended(SubSeq(Lines, n + 1, m), Cr))
<1> DEFINE t == Concats(Written)
           b == Concat(SubSeq(Written, n + 1, m))
           a == SubSeq(Text, EndOf(n) + 1, EndOf(m))
           h == Len(Handshake)
           N == Len(Commands)
<1>1. Written \in Seq(Seq(Characters)) /\ m <= Len(Written) /\ Len(Written) = N /\ N \in Nat
  BY WrittenProps
<1>2. Written \in Seq(Seq(Characters)) /\ m <= Len(Written)
  BY <1>1
<1>3. b \in Seq(Characters) /\ t[m] = Cat(t[n], b)
  BY <1>2, ConcatsBetween
<1>4. n \in 0 .. N /\ m \in 0 .. N /\ N \in 0 .. N
  BY <1>1
<1>5. t[n] \in Seq(Characters) /\ t[m] \in Seq(Characters) /\ Len(t[n]) \in Nat /\ Len(t[m]) \in Nat
  BY <1>4, WrittenProps
<1>6. Len(t[m]) <= Len(t[N]) /\ \A j \in 1 .. Len(t[m]) : t[N][j] = t[m][j]
  <2>1. m <= N /\ N <= Len(Written) /\ N \in Nat
    BY <1>1
  <2>2. QED
    BY <1>2, <2>1, ConcatsPrefix
<1>7. \A j \in 1 .. Len(t[N]) : Text[h + j] = t[N][j]
  BY TextProps
<1>8. EndOf(n) = h + Len(t[n]) /\ EndOf(m) = h + Len(t[m])
  BY DEF EndOf, Written
<1>9. h \in Nat
  BY HandshakeProps
<1>10. EndOf(n) \in Nat /\ EndOf(m) \in Nat /\ EndOf(n) <= EndOf(m) /\ EndOf(m) <= Len(Text)
  BY <1>4, EndOfProps
<1>11. Text \in Seq(Characters)
  BY TextProps
<1>12. /\ a \in Seq(Characters) /\ Len(a) = EndOf(m) - EndOf(n)
       /\ \A j \in 1 .. EndOf(m) - EndOf(n) : a[j] = Text[EndOf(n) + j]
  BY <1>10, <1>11, MiddleOnes
<1>13. Len(t[N]) \in Nat
  BY <1>4, WrittenProps
<1> HIDE DEF a, b, t, h
<1>14. Len(t[m]) = Len(t[n]) + Len(b)
  <2> DEFINE x == t[n]
  <2>1. x \in Seq(Characters) /\ b \in Seq(Characters)
    BY <1>3, <1>5
  <2>2. t[m] = Cat(x, b)
    BY <1>3
  <2> HIDE DEF x
  <2>3. Len(Cat(x, b)) = Len(x) + Len(b)
    BY <2>1, CatProps
  <2>4. QED
    BY <2>2, <2>3 DEF x
<1>15. \A j \in 1 .. Len(b) : t[m][Len(t[n]) + j] = b[j]
  <2>1. t[n] \in Seq(Characters) /\ b \in Seq(Characters)
    BY <1>3, <1>5
  <2>2. \A j \in 1 .. Len(b) : Cat(t[n], b)[Len(t[n]) + j] = b[j]
    <3> DEFINE x == t[n]
               S == Characters
    <3>1. x \in Seq(S) /\ b \in Seq(S)
      BY <2>1
    <3> HIDE DEF x, S, N
    <3>2. \A j \in 1 .. Len(b) : Cat(x, b)[Len(x) + j] = b[j]
      BY <3>1, CatProps
    <3>3. QED
      BY <3>2 DEF x
  <2>3. QED
    BY <1>3, <2>2
<1>16. Len(b) \in Nat
  BY <1>3
<1>17. Len(a) = Len(b)
  BY <1>5, <1>8, <1>9, <1>12, <1>14, <1>16
<1>18. ASSUME NEW j \in 1 .. Len(a) PROVE a[j] = b[j]
  <2>1. j \in 1 .. Len(b) /\ j \in 1 .. EndOf(m) - EndOf(n)
    BY <1>12, <1>17
  <2>2. Len(t[n]) + j \in 1 .. Len(t[m])
    BY <1>5, <1>14, <1>16, <2>1
  <2>3. Len(t[n]) + j \in 1 .. Len(t[N])
    BY <1>5, <1>6, <1>13, <2>2
  <2>4. EndOf(n) + j = h + (Len(t[n]) + j)
    BY <1>5, <1>8, <1>9, <2>1
  <2>5. a[j] = Text[h + (Len(t[n]) + j)]
    BY <1>12, <2>1, <2>4
  <2>6. Text[h + (Len(t[n]) + j)] = t[N][Len(t[n]) + j]
    BY <1>7, <2>3
  <2>7. t[N][Len(t[n]) + j] = t[m][Len(t[n]) + j]
    BY <1>6, <2>2
  <2>8. QED
    BY <1>15, <2>1, <2>5, <2>6, <2>7
<1>19. a = b
  <2>1. a \in Seq(Characters) /\ b \in Seq(Characters)
    BY <1>3, <1>12
  <2>2. QED
    BY <1>17, <1>18, <2>1, SameSequence
<1>20. SubSeq(Written, n + 1, m) = Ended(SubSeq(Lines, n + 1, m), Cr)
  <2> DEFINE S == Characters
             d == Cr
             parts == Lines
  <2>1. parts \in Seq(Seq(S \ {d})) /\ d \in S /\ Len(parts) = N
    BY LinesProps, ConnectionAssumption
  <2>2. parts \in Seq(Seq(S \ {d})) /\ d \in S /\ m <= Len(parts)
    BY <2>1
  <2> HIDE DEF S, d, parts
  <2>3. SubSeq(Ended(parts, d), n + 1, m) = Ended(SubSeq(parts, n + 1, m), d)
    BY <2>2, EndedBetween
  <2>4. QED
    BY <2>3 DEF d, parts, Written
<1>21. QED
  BY <1>19, <1>20 DEF a, b

(***************************************************************************)
(* What the commands order                                                 *)
(***************************************************************************)
OrderSet == [name : Seq(Characters), subs : Seq(Subs), timeout : Nat]

(* Whatever the field holds, the timeout is a number. *)
LEMMA StoullIsNat == \A text : Stoull(text) \in Nat
<1> SUFFICES ASSUME NEW text PROVE Stoull(text) \in Nat
  OBVIOUS
<1> DEFINE signed == From(text, Span(text, Blanks))
           isSigned == signed # <<>> /\ Head(signed) \in {Plus, Minus}
           value == Number(IF isSigned THEN Tail(signed) ELSE signed)
           negative == isSigned /\ Head(signed) = Minus
<1>1. ClockMod \in Nat \ {0}
  BY ClockAssumption
<1>2. Stoull(text) = IF value \notin 0 .. ClockMod - 1 THEN 0
                     ELSE IF negative THEN (ClockMod - value) % ClockMod ELSE value
  BY DEF Stoull
<1> HIDE DEF value, negative
<1>3. ASSUME value \in 0 .. ClockMod - 1 PROVE (ClockMod - value) % ClockMod \in Nat
  <2>1. ClockMod - value \in Int
    BY <1>1, <1>3
  <2>2. QED
    BY <1>1, <2>1
<1>4. QED
  BY <1>1, <1>2, <1>3

(* What a command means is a sequence of fields, the names in it names a   *)
(* subscription can have.                                                  *)
LEMMA MeantProps ==
  ASSUME NEW i \in 1 .. Len(Commands)
  PROVE  /\ Meant(Commands[i]) \in Seq(Seq(Characters))
         /\ IsSubscribe(Meant(Commands[i])) =>
              /\ Split(Meant(Commands[i])[3], Comma) \in Seq(Subs)
              /\ Meant(Commands[i])[1] \in Seq(Characters)
              /\ Meant(Commands[i])[3] \in Seq(Characters)
<1> DEFINE c == Commands[i]
           f == Meant(c)
           S == Characters \ {Cr, Bar}
<1>1. c \in Seq(Seq(S)) /\ c # <<>>
  BY LinesProps
<1>2. \A s \in Seq(S) : s \in Seq(Characters)
  OBVIOUS
<1> HIDE DEF c, S
<1>3. f \in Seq(Seq(S))
  BY <1>1, FrontAndLast DEF Meant
<1> HIDE DEF f
<1>4. f \in Seq(Seq(Characters))
  BY <1>2, <1>3
<1>5. ASSUME IsSubscribe(f)
      PROVE  Split(f[3], Comma) \in Seq(Subs) /\ f[1] \in Seq(Characters) /\ f[3] \in Seq(Characters)
  <2>1. Len(f) = 4
    BY <1>5 DEF IsSubscribe
  <2>2. f[1] \in Seq(Characters) /\ f[3] \in Seq(Characters)
    <3>1. \A k \in 1 .. Len(f) : f[k] \in Seq(Characters)
      BY <1>4
    <3>2. QED
      BY <2>1, <3>1
  <2> DEFINE names == Split(f[3], Comma)
  <2>3. names \in Seq(Seq(Characters \ {Comma}))
    BY <2>2, SplitType
  <2>4. \A k \in DOMAIN names : names[k] \in Subs
    <3>1. i \in DOMAIN Commands
      BY ConnectionAssumption
    <3>2. f = Meant(Commands[i])
      BY DEF f, c
    <3>3. QED
      BY <1>5, <3>1, <3>2, NamesAssumption
  <2> HIDE DEF names
  <2>5. names \in Seq(Subs)
    BY <2>3, <2>4
  <2>6. QED
    BY <2>2, <2>5 DEF names
<1>6. QED
  BY <1>4, <1>5 DEF f, c

(* What one command orders, and what it means. *)
Meanings == [i \in DOMAIN Commands |-> IF IsSubscribe(Meant(Commands[i])) THEN <<Meant(Commands[i])>> ELSE <<>>]

(* A command orders one thing or nothing: what its meaning says. *)
LEMMA OrdersProps ==
  /\ Orders \in Seq(Seq(OrderSet)) /\ Len(Orders) = Len(Commands)
  /\ \A i \in 1 .. Len(Commands) : Orders[i] = CarriedOut(Meant(Commands[i]))
  /\ Meanings \in Seq(Seq(Seq(Seq(Characters)))) /\ Len(Meanings) = Len(Commands)
  /\ \A i \in 1 .. Len(Commands) :
       /\ Len(Orders[i]) = Len(Meanings[i])
       /\ \A k \in 1 .. Len(Orders[i]) :
            LET f == Meanings[i][k]
            IN  /\ Orders[i][k] = [name |-> f[1], subs |-> Split(f[3], Comma), timeout |-> Stoull(f[4])]
                /\ f[3] \in Seq(Characters)
<1>1. Len(Commands) \in Nat /\ DOMAIN Commands = 1 .. Len(Commands)
  BY ConnectionAssumption
<1>2. Orders = [i \in 1 .. Len(Commands) |-> CarriedOut(Meant(Commands[i]))]
  BY <1>1 DEF Orders
<1>3. Meanings = [i \in 1 .. Len(Commands) |->
                    IF IsSubscribe(Meant(Commands[i])) THEN <<Meant(Commands[i])>> ELSE <<>>]
  BY <1>1 DEF Meanings
<1>4. ASSUME NEW i \in 1 .. Len(Commands)
      PROVE  /\ CarriedOut(Meant(Commands[i])) \in Seq(OrderSet)
             /\ Meanings[i] \in Seq(Seq(Seq(Characters)))
             /\ Len(CarriedOut(Meant(Commands[i]))) = Len(Meanings[i])
             /\ \A k \in 1 .. Len(CarriedOut(Meant(Commands[i]))) :
                  LET f == Meanings[i][k]
                  IN  /\ CarriedOut(Meant(Commands[i]))[k]
                           = [name |-> f[1], subs |-> Split(f[3], Comma), timeout |-> Stoull(f[4])]
                      /\ f[3] \in Seq(Characters)
  <2> DEFINE f == Meant(Commands[i])
             o == [name |-> f[1], subs |-> Split(f[3], Comma), timeout |-> Stoull(f[4])]
  <2>1. /\ f \in Seq(Seq(Characters))
        /\ IsSubscribe(f) => /\ Split(f[3], Comma) \in Seq(Subs)
                             /\ f[1] \in Seq(Characters) /\ f[3] \in Seq(Characters)
    BY MeantProps
  <2>2. Meanings[i] = IF IsSubscribe(f) THEN <<f>> ELSE <<>>
    BY <1>3
  <2>3. CarriedOut(f) = IF IsSubscribe(f) THEN <<o>> ELSE <<>>
    BY DEF CarriedOut
  <2>4. IsSubscribe(f) => o \in OrderSet
    BY <2>1, StoullIsNat DEF OrderSet
  <2> HIDE DEF f
  <2>5. CASE IsSubscribe(f)
    <3>1. CarriedOut(f) = <<o>> /\ Meanings[i] = <<f>>
      BY <2>2, <2>3, <2>5
    <3>2. o \in OrderSet /\ f[3] \in Seq(Characters) /\ f \in Seq(Seq(Characters))
      BY <2>1, <2>4, <2>5
    <3>3. o = [name |-> f[1], subs |-> Split(f[3], Comma), timeout |-> Stoull(f[4])]
      OBVIOUS
    <3> HIDE DEF o
    <3>4. /\ <<o>> \in Seq(OrderSet) /\ <<f>> \in Seq(Seq(Seq(Characters)))
          /\ Len(<<o>>) = 1 /\ Len(<<f>>) = 1 /\ <<o>>[1] = o /\ <<f>>[1] = f
          /\ \A k \in 1 .. 1 : k = 1
      BY <3>2
    <3>5. QED
      BY <3>1, <3>2, <3>3, <3>4 DEF f
  <2>6. CASE ~IsSubscribe(f)
    <3>1. CarriedOut(f) = <<>> /\ Meanings[i] = <<>>
      BY <2>2, <2>3, <2>6
    <3>2. QED
      BY <3>1 DEF f
  <2>7. QED
    BY <2>5, <2>6
<1>5. Orders \in Seq(Seq(OrderSet)) /\ Len(Orders) = Len(Commands)
  BY <1>1, <1>2, <1>4
<1>6. \A i \in 1 .. Len(Commands) : Orders[i] = CarriedOut(Meant(Commands[i]))
  BY <1>2
<1>7. Meanings \in Seq(Seq(Seq(Seq(Characters)))) /\ Len(Meanings) = Len(Commands)
  <2> HIDE DEF Meanings
  <2> DEFINE M == Meanings
  <2>1. M = [i \in 1 .. Len(Commands) |-> M[i]]
    BY <1>3
  <2>2. \A i \in 1 .. Len(Commands) : M[i] \in Seq(Seq(Seq(Characters)))
    BY <1>4
  <2> HIDE DEF M
  <2>3. M \in Seq(Seq(Seq(Seq(Characters)))) /\ Len(M) = Len(Commands)
    BY <1>1, <2>1, <2>2
  <2>4. QED
    BY <2>3 DEF M
<1>8. QED
  BY <1>4, <1>5, <1>6, <1>7

EachCarriedOut(lines) == [i \in DOMAIN lines |-> CarriedOut(Split(lines[i], Bar))]

(* Lines that split into what the orders come from are carried out as      *)
(* those orders.                                                           *)
LEMMA EachCarriedOutProps ==
  ASSUME NEW lines \in Seq(Seq(Characters \ {Cr})), NEW orders \in Seq(Seq(OrderSet)),
         Len(lines) <= Len(orders),
         \A j \in 1 .. Len(lines) : CarriedOut(Split(lines[j], Bar)) = orders[j]
  PROVE  /\ EachCarriedOut(lines) \in Seq(Seq(OrderSet))
         /\ Len(EachCarriedOut(lines)) = Len(lines)
         /\ \A j \in 1 .. Len(lines) : EachCarriedOut(lines)[j] = orders[j]
<1> DEFINE q == EachCarriedOut(lines)
           L == Len(lines)
<1>1. L \in Nat /\ DOMAIN lines = 1 .. L /\ Len(orders) \in Nat
  OBVIOUS
<1>2. q = [i \in 1 .. L |-> CarriedOut(Split(lines[i], Bar))]
  BY <1>1 DEF EachCarriedOut
<1>3. \A j \in 1 .. L : q[j] = orders[j]
  BY <1>2
<1>4. \A j \in 1 .. L : orders[j] \in Seq(OrderSet)
  <2>1. \A j \in 1 .. L : j \in 1 .. Len(orders)
    BY <1>1
  <2>2. QED
    BY <2>1
<1>5. q = [i \in 1 .. L |-> q[i]]
  BY <1>2
<1> HIDE DEF q, L
<1>6. q \in Seq(Seq(OrderSet)) /\ Len(q) = L
  <2>1. \A j \in 1 .. L : q[j] \in Seq(OrderSet)
    BY <1>3, <1>4
  <2>2. L \in Nat
    BY <1>1
  <2>3. QED
    BY <1>5, <2>1, <2>2, TupleIsSequence
<1>7. QED
  BY <1>3, <1>6 DEF q, L

(* What is behind the first n commands, up to the end of a later one, is   *)
(* split into the orders of the commands between.                          *)
LEMMA AcceptedBetween ==
  ASSUME NEW n \in Nat, NEW m \in Nat, n < m, m <= Len(Commands)
  PROVE  Accepted(Front(SubSeq(Text, EndOf(n) + 1, EndOf(m)))) = Concat(SubSeq(Orders, n + 1, m))
<1> DEFINE ls == SubSeq(Lines, n + 1, m)
           os == SubSeq(Orders, n + 1, m)
           text == SubSeq(Text, EndOf(n) + 1, EndOf(m))
           S == Characters
           d == Cr
<1>1. n <= m /\ m - n \in Nat \ {0} /\ m <= Len(Lines) /\ m <= Len(Orders)
  BY LinesProps, OrdersProps
<1>2. Lines \in Seq(Seq(S \ {d})) /\ Orders \in Seq(Seq(OrderSet))
  BY LinesProps, OrdersProps
<1>3. ls \in Seq(Seq(S \ {d})) /\ Len(ls) = m - n /\ \A j \in 1 .. m - n : ls[j] = Lines[n + j]
  BY <1>1, <1>2, MiddleOnes
<1>4. os \in Seq(Seq(OrderSet)) /\ Len(os) = m - n /\ \A j \in 1 .. m - n : os[j] = Orders[n + j]
  BY <1>1, <1>2, MiddleOnes
<1>5. text = Concat(Ended(ls, d))
  BY <1>1, TextBetween
<1>6. d \in S /\ Bar \in S
  BY ConnectionAssumption
<1>7. \A j \in 1 .. m - n : CarriedOut(Split(ls[j], Bar)) = os[j]
  <2>1. ASSUME NEW j \in 1 .. m - n PROVE CarriedOut(Split(ls[j], Bar)) = os[j]
    <3>1. n + j \in 1 .. Len(Commands)
      BY <1>1, LinesProps
    <3>2. Split(Lines[n + j], Bar) = Meant(Commands[n + j])
      BY <3>1, LinesProps
    <3>3. Orders[n + j] = CarriedOut(Meant(Commands[n + j]))
      BY <3>1, OrdersProps
    <3>4. ls[j] = Lines[n + j] /\ os[j] = Orders[n + j]
      BY <1>3, <1>4
    <3>5. QED
      BY <3>2, <3>3, <3>4
  <2>2. QED
    BY <2>1
<1> HIDE DEF ls, os, text, S, d
<1>8. ls \in Seq(Seq(S \ {d})) /\ ls # <<>>
  BY <1>1, <1>3
<1>9. Join(ls, d) \in Seq(S) /\ text = Append(Join(ls, d), d)
  BY <1>5, <1>6, <1>8, JoinProps
<1>10. Front(text) = Join(ls, d)
  BY <1>6, <1>9, AppendFront
<1>11. Split(Front(text), d) = Meant(ls)
  BY <1>6, <1>8, <1>10, SplitOfJoin DEF Meant
<1>12. Accepted(Front(text)) = Concat(EachCarriedOut(Meant(ls)))
  BY <1>11 DEF Accepted, EachCarriedOut, d
<1>13. /\ Front(ls) \in Seq(Seq(S \ {d})) /\ Len(Front(ls)) = Len(ls) - 1
       /\ Last(ls) = ls[Len(ls)]
       /\ \A j \in 1 .. Len(ls) - 1 : Front(ls)[j] = ls[j]
  BY <1>8, FrontAndLast
<1>14. CASE Last(ls) # <<>>
  <2> DEFINE q == EachCarriedOut(ls)
  <2>1. Meant(ls) = ls
    BY <1>14 DEF Meant
  <2>2. /\ ls \in Seq(Seq(Characters \ {Cr})) /\ os \in Seq(Seq(OrderSet))
        /\ Len(ls) <= Len(os) /\ \A j \in 1 .. Len(ls) : CarriedOut(Split(ls[j], Bar)) = os[j]
    BY <1>1, <1>3, <1>4, <1>7, SMTT(30) DEF S, d
  <2>3. q \in Seq(Seq(OrderSet)) /\ Len(q) = Len(ls) /\ \A j \in 1 .. Len(ls) : q[j] = os[j]
    BY <2>2, EachCarriedOutProps
  <2> HIDE DEF q
  <2>4. q = os
    BY <1>3, <1>4, <2>3, SameSequence
  <2>5. QED
    BY <1>12, <2>1, <2>4 DEF q, text, os
<1>15. CASE Last(ls) = <<>>
  <2> DEFINE f == Front(ls)
             q == EachCarriedOut(f)
             t == Concats(os)
             M == m - n
  <2>1. Meant(ls) = f
    BY <1>15 DEF Meant
  <2>2. M \in Nat \ {0} /\ M - 1 \in Nat /\ M - 1 <= M /\ \A j \in 1 .. M - 1 : j \in 1 .. M
    BY <1>1
  <2>3. Len(f) = M - 1 /\ \A j \in 1 .. M - 1 : f[j] = ls[j]
    BY <1>3, <1>13
  <2>4. f \in Seq(Seq(S \ {d}))
    BY <1>13
  <2> HIDE DEF f
  <2>5. /\ f \in Seq(Seq(Characters \ {Cr})) /\ os \in Seq(Seq(OrderSet))
        /\ Len(f) <= Len(os) /\ \A j \in 1 .. Len(f) : CarriedOut(Split(f[j], Bar)) = os[j]
    <3>1. os \in Seq(Seq(OrderSet)) /\ Len(os) = M
      BY <1>4
    <3>2. \A j \in 1 .. M - 1 : CarriedOut(Split(f[j], Bar)) = os[j]
      BY <1>7, <2>2, <2>3
    <3>3. QED
      BY <2>2, <2>3, <2>4, <3>1, <3>2 DEF S, d
  <2>6. q \in Seq(Seq(OrderSet)) /\ Len(q) = Len(f) /\ \A j \in 1 .. Len(f) : q[j] = os[j]
    BY <2>5, EachCarriedOutProps
  <2> HIDE DEF q
  <2>7. q \in Seq(Seq(OrderSet)) /\ os \in Seq(Seq(OrderSet)) /\ Len(q) <= Len(os)
        /\ \A j \in 1 .. Len(q) : q[j] = os[j]
    BY <2>5, <2>6
  <2>8. \A k \in 0 .. Len(q) : Concats(q)[k] = t[k]
    BY <2>7, ConcatsAgree
  <2>9. Len(q) = M - 1 /\ M - 1 \in 0 .. M - 1 /\ Len(os) = M
    BY <1>4, <2>2, <2>3, <2>6
  <2>10. Concat(q) = t[M - 1]
    BY <2>8, <2>9 DEF Concat
  <2>11. t[M] = Cat(t[M - 1], os[M])
    <3>1. Len(os) \in Nat /\ M \in 1 .. Len(os)
      BY <2>2, <2>9
    <3>2. QED
      BY <3>1, ConcatsSteps
  <2>12. os[M] = <<>>
    <3>1. M \in 1 .. M /\ ls[M] = <<>>
      BY <1>3, <1>13, <1>15, <2>2
    <3>2. os[M] = CarriedOut(Split(<<>>, Bar))
      BY <1>7, <3>1
    <3>3. Split(<<>>, Bar) = <<>>
      <4> DEFINE e == <<>>
      <4>1. e \in Seq(S)
        OBVIOUS
      <4>2. e = <<>>
        OBVIOUS
      <4> HIDE DEF e
      <4>3. Split(e, Bar) = <<>>
        BY <4>1, <4>2, SplitType
      <4>4. QED
        BY <4>2, <4>3
    <3>4. CarriedOut(<<>>) = <<>>
      BY DEF CarriedOut, IsSubscribe
    <3>5. QED
      BY <3>2, <3>3, <3>4
  <2>13. t[M - 1] \in Seq(OrderSet)
    <3>1. os \in Seq(Seq(OrderSet)) /\ M - 1 \in 0 .. Len(os)
      BY <2>2, <2>5, <2>9
    <3>2. QED
      BY <3>1, ConcatsType
  <2>14. Cat(t[M - 1], <<>>) = t[M - 1]
    BY <2>13, CatEmpty
  <2>15. Concat(os) = t[M]
    BY <2>9 DEF Concat
  <2>16. QED
    BY <1>12, <2>1, <2>10, <2>11, <2>12, <2>14, <2>15 DEF text, os, q
<1>16. QED
  BY <1>14, <1>15

(* Carrying it out continues what was carried out. *)
LEMMA AcceptedContinues ==
  ASSUME NEW n \in Nat, NEW m \in Nat, n < m, m <= Len(Commands)
  PROVE  LET accepted == Accepted(Front(SubSeq(Text, EndOf(n) + 1, EndOf(m))))
         IN  /\ accepted \in Seq(OrderSet)
             /\ Concats(Orders)[n] \in Seq(OrderSet)
             /\ Concats(Orders)[m] = Cat(Concats(Orders)[n], accepted)
<1> DEFINE accepted == Accepted(Front(SubSeq(Text, EndOf(n) + 1, EndOf(m))))
<1>1. accepted = Concat(SubSeq(Orders, n + 1, m))
  BY AcceptedBetween
<1> HIDE DEF accepted
<1>2. Orders \in Seq(Seq(OrderSet)) /\ Len(Orders) = Len(Commands) /\ Len(Commands) \in Nat
  BY OrdersProps, LinesProps
<1>3. Orders \in Seq(Seq(OrderSet)) /\ n <= m /\ m <= Len(Orders) /\ n \in 0 .. Len(Orders)
  BY <1>2
<1>4. /\ Concat(SubSeq(Orders, n + 1, m)) \in Seq(OrderSet)
      /\ Concats(Orders)[m] = Cat(Concats(Orders)[n], Concat(SubSeq(Orders, n + 1, m)))
  BY <1>3, ConcatsBetween
<1>5. Concats(Orders)[n] \in Seq(OrderSet)
  BY <1>3, ConcatsType
<1>6. QED
  BY <1>1, <1>4, <1>5 DEF accepted

(***************************************************************************)
(* The commands as they were written                                       *)
(***************************************************************************)
(* What was carried out is what was ordered. *)
LEMMA ExecutedType ==
  ASSUME CommandsInv
  PROVE  executed \in Seq(OrderSet)
<1>1. Orders \in Seq(Seq(OrderSet)) /\ Len(Orders) = Len(Commands)
  BY OrdersProps
<1>2. Orders \in Seq(Seq(OrderSet))
  BY <1>1
<1>3. \A n \in 0 .. Len(Orders) : Concats(Orders)[n] \in Seq(OrderSet)
  BY <1>2, ConcatsType
<1>4. QED
  BY <1>1, <1>3 DEF CommandsInv

(* What was carried out are the first commands as they were meant. *)
LEMMA CommandsFollow ==
  ASSUME CommandsInv
  PROVE  CommandsAsWritten
<1> DEFINE N == Len(Commands)
           R == OrderSet
           F == Seq(Seq(Characters))
           Ordered(f) == [name |-> f[1], subs |-> Split(f[3], Comma), timeout |-> Stoull(f[4])]
           Rel == {p \in R \X F : p[1] = Ordered(p[2]) /\ p[2][3] \in Seq(Characters)}
           a == Orders
           b == Meanings
<1>1. N \in Nat /\ N \in 0 .. N
  BY ConnectionAssumption
<1>2. a \in Seq(Seq(R)) /\ b \in Seq(Seq(F)) /\ Len(a) = N /\ Len(b) = N
  BY OrdersProps
<1>3. ASSUME NEW i \in 1 .. N
      PROVE  /\ Len(a[i]) = Len(b[i])
             /\ \A k \in 1 .. Len(a[i]) : <<a[i][k], b[i][k]>> \in Rel
  <2> DEFINE p == a[i]
             q == b[i]
  <2>1. Len(p) = Len(q) /\ \A k \in 1 .. Len(p) : p[k] = Ordered(q[k]) /\ q[k][3] \in Seq(Characters)
    BY OrdersProps
  <2>2. p \in Seq(R) /\ q \in Seq(F)
    <3>1. \A j \in 1 .. N : a[j] \in Seq(R)
      BY <1>2
    <3>2. \A j \in 1 .. N : b[j] \in Seq(F)
      BY <1>2
    <3>3. QED
      BY <3>1, <3>2
  <2> HIDE DEF p, q, Ordered, R, F
  <2>3. \A k \in 1 .. Len(p) : p[k] \in R /\ q[k] \in F
    <3>1. \A k \in 1 .. Len(p) : p[k] \in R
      BY <2>2
    <3>2. \A k \in 1 .. Len(q) : q[k] \in F
      BY <2>2
    <3>3. QED
      BY <2>1, <3>1, <3>2
  <2>4. \A k \in 1 .. Len(p) : <<p[k], q[k]>> \in Rel
    BY <2>1, <2>3
  <2>5. QED
    BY <2>1, <2>4 DEF p, q
<1>4. PICK n \in 0 .. N : executed = Concats(a)[n]
  BY DEF CommandsInv
<1>5. MeantCommands = Concats(b)[N]
  BY <1>2 DEF MeantCommands, Meanings, Concat
<1> HIDE DEF a, b, N, Rel, R, F
<1>6. a \in Seq(Seq(R)) /\ b \in Seq(Seq(F))
  BY <1>2
<1>7. Len(a) = Len(b) /\ \A j \in 1 .. Len(a) : /\ Len(a[j]) = Len(b[j])
                                              /\ \A k \in 1 .. Len(a[j]) : <<a[j][k], b[j][k]>> \in Rel
  BY <1>2, <1>3
<1>8. \A m \in 0 .. Len(a) :
           /\ Len(Concats(a)[m]) = Len(Concats(b)[m])
           /\ \A i \in 1 .. Len(Concats(a)[m]) : <<Concats(a)[m][i], Concats(b)[m][i]>> \in Rel
  BY <1>6, <1>7, ConcatsRelated
<1> DEFINE x == Concats(a)[n]
           y == Concats(b)[n]
           z == Concats(b)[N]
<1>9. Len(x) = Len(y) /\ \A i \in 1 .. Len(x) : <<x[i], y[i]>> \in Rel
  BY <1>2, <1>8
<1>10. Len(y) <= Len(z) /\ \A j \in 1 .. Len(y) : z[j] = y[j]
  <2>1. n \in Nat /\ N \in Nat /\ n <= N /\ N <= Len(b)
    BY <1>1, <1>2
  <2>2. b \in Seq(Seq(F))
    BY <1>6
  <2>3. QED
    BY <2>1, <2>2, ConcatsPrefix
<1>11. x \in Seq(R)
  BY <1>2, <1>6, ConcatsType
<1> HIDE DEF x, y, z
<1>12. executed = x /\ MeantCommands = z
  BY <1>4, <1>5 DEF x, z
<1>13. Len(executed) <= Len(MeantCommands)
  BY <1>9, <1>10, <1>12
<1>14. ASSUME NEW i \in DOMAIN executed
       PROVE  /\ executed[i].name = MeantCommands[i][1]
              /\ executed[i].timeout = Stoull(MeantCommands[i][4])
              /\ Join(executed[i].subs, Comma) = MeantNames(MeantCommands[i][3])
  <2>1. i \in 1 .. Len(x)
    BY <1>11, <1>12
  <2> DEFINE f == y[i]
  <2>2. <<x[i], f>> \in Rel /\ z[i] = f
    BY <1>9, <1>10, <2>1
  <2> HIDE DEF f
  <2>3. x[i] = Ordered(f) /\ f[3] \in Seq(Characters)
    BY <2>2 DEF Rel
  <2>4. x[i].name = f[1] /\ x[i].timeout = Stoull(f[4]) /\ x[i].subs = Split(f[3], Comma)
    BY <2>3
  <2>5. Comma \in Characters
    BY ConnectionAssumption
  <2>6. Join(Split(f[3], Comma), Comma)
          = IF f[3] # <<>> /\ Last(f[3]) = Comma THEN Front(f[3]) ELSE f[3]
    <3> DEFINE g == f[3]
    <3>1. g \in Seq(Characters)
      BY <2>3
    <3> HIDE DEF g
    <3>2. Join(Split(g, Comma), Comma) = IF g # <<>> /\ Last(g) = Comma THEN Front(g) ELSE g
      BY <2>5, <3>1, JoinOfSplit
    <3>3. QED
      BY <3>2 DEF g
  <2>7. QED
    BY <1>12, <2>2, <2>4, <2>6 DEF MeantNames
<1>15. QED
  BY <1>13, <1>14 DEF CommandsAsWritten

(* The additions of accepted commands are what they asked for.             *)
LEMMA AdditionsProps ==
  ASSUME NEW accepted \in Seq(OrderSet)
  PROVE  /\ Additions(accepted) \in Seq([sub : Subs, timeout : Nat])
         /\ \A k \in DOMAIN Additions(accepted) : \E i \in 1 .. Len(accepted) :
              /\ accepted[i].name = SubscriberName
              /\ \E j \in DOMAIN accepted[i].subs : accepted[i].subs[j] = Additions(accepted)[k].sub
              /\ accepted[i].timeout = Additions(accepted)[k].timeout
<1> DEFINE A == [sub : Subs, timeout : Nat]
           L == Len(accepted)
           parts == [i \in DOMAIN accepted |-> AddedBy(accepted[i])]
<1>1. L \in Nat /\ DOMAIN accepted = 1 .. L /\ \A i \in 1 .. L : accepted[i] \in OrderSet
  OBVIOUS
<1>2. ASSUME NEW i \in 1 .. L
      PROVE  /\ AddedBy(accepted[i]) \in Seq(A)
             /\ \A k \in DOMAIN AddedBy(accepted[i]) :
                  /\ accepted[i].name = SubscriberName
                  /\ k \in DOMAIN accepted[i].subs
                  /\ AddedBy(accepted[i])[k] = [sub |-> accepted[i].subs[k], timeout |-> accepted[i].timeout]
  <2> DEFINE o == accepted[i]
  <2>1. o.subs \in Seq(Subs) /\ o.timeout \in Nat
    BY <1>1 DEF OrderSet
  <2> HIDE DEF o
  <2>2. CASE o.name = SubscriberName
    <3> DEFINE s == o.subs
               q == [k \in DOMAIN s |-> [sub |-> s[k], timeout |-> o.timeout]]
    <3>1. AddedBy(o) = q
      BY <2>2 DEF AddedBy
    <3>2. Len(s) \in Nat /\ DOMAIN s = 1 .. Len(s) /\ \A k \in 1 .. Len(s) : s[k] \in Subs
      BY <2>1
    <3>3. \A k \in 1 .. Len(s) : q[k] = [sub |-> s[k], timeout |-> o.timeout]
      BY <3>2
    <3>4. \A k \in 1 .. Len(s) : q[k] \in A
      BY <2>1, <3>2, <3>3
    <3>5. q = [k \in 1 .. Len(s) |-> q[k]]
      BY <3>2
    <3> HIDE DEF q, s, A
    <3>6. q \in Seq(A)
      BY <3>2, <3>4, <3>5, TupleIsSequence
    <3>7. DOMAIN q = DOMAIN s
      BY <3>2, <3>5
    <3>8. QED
      BY <2>2, <3>1, <3>2, <3>3, <3>6, <3>7 DEF o, s
  <2>3. CASE o.name # SubscriberName
    <3>1. AddedBy(o) = <<>>
      BY <2>3 DEF AddedBy
    <3>2. QED
      BY <3>1 DEF o
  <2>4. QED
    BY <2>2, <2>3
<1>3. \A i \in 1 .. L : parts[i] = AddedBy(accepted[i])
  BY <1>1
<1>4. parts = [i \in 1 .. L |-> parts[i]]
  BY <1>1
<1> HIDE DEF parts, L, A
<1>5. parts \in Seq(Seq(A)) /\ Len(parts) = L
  <2>1. \A i \in 1 .. L : parts[i] \in Seq(A)
    BY <1>2, <1>3
  <2>2. L \in Nat
    BY <1>1
  <2>3. QED
    BY <1>4, <2>1, <2>2, TupleIsSequence
<1> DEFINE adds == Concats(parts)[L]
<1>6. Additions(accepted) = adds
  BY <1>5 DEF Additions, Concat, parts
<1>7. parts \in Seq(Seq(A)) /\ L \in 0 .. Len(parts)
  BY <1>1, <1>5
<1>8. adds \in Seq(A)
  BY <1>7, ConcatsType
<1>9. \A k \in 1 .. Len(adds) : \E i \in 1 .. L : \E j \in DOMAIN parts[i] : adds[k] = parts[i][j]
  <2>1. parts \in Seq(Seq(A))
    BY <1>7
  <2>2. \A n \in 0 .. Len(parts) : EachIsFrom(Concats(parts)[n], parts, n)
    BY <2>1, ConcatsElements
  <2>3. EachIsFrom(adds, parts, L)
    BY <1>7, <2>2
  <2>4. QED
    BY <2>3 DEF EachIsFrom
<1> HIDE DEF adds
<1>10. ASSUME NEW k \in DOMAIN adds
       PROVE  \E i \in 1 .. L : /\ accepted[i].name = SubscriberName
                                /\ \E j \in DOMAIN accepted[i].subs : accepted[i].subs[j] = adds[k].sub
                                /\ accepted[i].timeout = adds[k].timeout
  <2>1. k \in 1 .. Len(adds)
    BY <1>8
  <2>2. PICK i \in 1 .. L : \E j \in DOMAIN parts[i] : adds[k] = parts[i][j]
    BY <1>9, <2>1
  <2>3. PICK j \in DOMAIN parts[i] : adds[k] = parts[i][j]
    BY <2>2
  <2>4. /\ accepted[i].name = SubscriberName
        /\ j \in DOMAIN accepted[i].subs
        /\ adds[k] = [sub |-> accepted[i].subs[j], timeout |-> accepted[i].timeout]
    BY <1>2, <1>3, <2>3
  <2>5. adds[k].sub = accepted[i].subs[j] /\ adds[k].timeout = accepted[i].timeout
    BY <2>4
  <2>6. QED
    BY <2>4, <2>5
<1>11. QED
  BY <1>6, <1>8, <1>10 DEF A, L

(***************************************************************************)
(* Reading                                                                 *)
(***************************************************************************)
(* What is written is never beyond the text, and only the handshake before *)
(* the first acknowledgement.                                              *)
LEMMA UnreadProps ==
  ASSUME HandshakeInv, CommandsInv, NEW n \in 1 .. Unread
  PROVE  /\ n \in Nat \ {0} /\ read \in Nat /\ read + n \in Nat /\ read + n <= Len(Text)
         /\ acks = 0 => read + n <= Len(Handshake)
         /\ Chars(n) \in Seq(Characters) /\ Len(Chars(n)) = n
         /\ \A j \in 1 .. n : Chars(n)[j] = Text[read + j]
<1> DEFINE k == IF acks < Len(BatchEnds) THEN acks ELSE Len(BatchEnds)
           w == WrittenAfter(k)
<1>1. acks \in Nat /\ Len(BatchEnds) \in Nat
  BY ConnectionAssumption DEF HandshakeInv
<1>2. k \in 0 .. Len(BatchEnds) /\ (acks = 0 => k = 0)
  BY <1>1
<1>3. \A i \in 1 .. Len(BatchEnds) : BatchEnds[i] \in 0 .. Len(Commands)
  BY ConnectionAssumption, SMTT(30)
<1>4. Unread = w - read
  BY DEF Unread
<1>5. w = EndOf(IF k = 0 THEN 0 ELSE BatchEnds[k])
  BY DEF WrittenAfter
<1> HIDE DEF k, w
<1>6. (IF k = 0 THEN 0 ELSE BatchEnds[k]) \in 0 .. Len(Commands)
  <2>1. 0 \in 0 .. Len(Commands)
    BY LinesProps
  <2>2. k # 0 => k \in 1 .. Len(BatchEnds)
    BY <1>1, <1>2
  <2>3. QED
    BY <1>3, <2>1, <2>2
<1>7. w \in Nat /\ w <= Len(Text)
  BY <1>5, <1>6, EndOfProps
<1>8. acks = 0 => w = Len(Handshake)
  BY <1>2, <1>5, EndOfProps
<1>9. read \in Nat /\ Text \in Seq(Characters) /\ Len(Text) \in Nat
  BY TextProps DEF CommandsInv
<1>10. n \in Nat \ {0} /\ read + n \in Nat /\ read + n <= w
  BY <1>4, <1>7, <1>9
<1>11. read + n <= Len(Text) /\ (acks = 0 => read + n <= Len(Handshake))
  BY <1>7, <1>8, <1>9, <1>10
<1>12. /\ Chars(n) \in Seq(Characters) /\ Len(Chars(n)) = n
       /\ \A j \in 1 .. n : Chars(n)[j] = Text[read + j]
  <2> DEFINE m == read + n
  <2>1. m \in Nat /\ read <= m /\ m <= Len(Text) /\ m - read = n
    BY <1>9, <1>10, <1>11
  <2> HIDE DEF m
  <2>2. /\ SubSeq(Text, read + 1, m) \in Seq(Characters) /\ Len(SubSeq(Text, read + 1, m)) = m - read
        /\ \A j \in 1 .. m - read : SubSeq(Text, read + 1, m)[j] = Text[read + j]
    BY <1>9, <2>1, MiddleOnes
  <2>3. Chars(n) = SubSeq(Text, read + 1, m)
    BY DEF Chars, m
  <2>4. QED
    BY <2>1, <2>2, <2>3
<1>13. QED
  BY <1>9, <1>10, <1>11, <1>12

(* What was kept and what is read now are what follows what was used.      *)
LEMMA ReadOn ==
  ASSUME HandshakeInv, CommandsInv, NEW n \in 1 .. Unread, NEW from \in Nat, from <= read
  PROVE  SubSeq(Text, from + 1, read) \o Chars(n) = SubSeq(Text, from + 1, read + n)
<1> DEFINE m == read + n
<1>1. m \in Nat /\ read \in Nat /\ read <= m /\ m <= Len(Text)
  BY UnreadProps
<1>2. Text \in Seq(Characters)
  BY TextProps
<1>3. Chars(n) = SubSeq(Text, read + 1, m)
  BY DEF Chars
<1> HIDE DEF m
<1>4. Cat(SubSeq(Text, from + 1, read), SubSeq(Text, read + 1, m)) = SubSeq(Text, from + 1, m)
  BY <1>1, <1>2, MiddleOfMiddle
<1>5. QED
  BY <1>3, <1>4 DEF Cat, m

(* In the handshake, all that was read is kept. *)
LEMMA ReadOnFromStart ==
  ASSUME HandshakeInv, CommandsInv, NEW n \in 1 .. Unread
  PROVE  SubSeq(Text, 1, read) \o Chars(n) = SubSeq(Text, 1, read + n)
<1> DEFINE z == 0
<1>1. z \in Nat /\ z <= read /\ z + 1 = 1
  BY UnreadProps
<1> HIDE DEF z
<1>2. SubSeq(Text, z + 1, read) \o Chars(n) = SubSeq(Text, z + 1, read + n)
  BY <1>1, ReadOn
<1>3. QED
  BY <1>1, <1>2

(* The text begins with intent, name and the separator that ends them. *)
LEMMA TextHandshake ==
  /\ Text \in Seq(Characters) /\ Len(Handshake) \in Nat /\ Len(Handshake) <= Len(Text)
  /\ \A j \in 3 .. Len(Handshake) : Text[j] = Cr => j = Len(Handshake)
  /\ SubSeq(Text, 1, Len(Handshake) - 1) = Intent \o Name
<1>1. Text \in Seq(Characters) /\ \A j \in 1 .. Len(Handshake) : Text[j] = Handshake[j]
  BY TextProps
<1>2. Len(Handshake) \in Nat /\ \A j \in 3 .. Len(Handshake) : Handshake[j] = Cr => j = Len(Handshake)
  BY HandshakeProps
<1>3. Len(Handshake) <= Len(Text)
  <2>1. 0 \in 0 .. Len(Commands)
    BY LinesProps
  <2>2. QED
    BY <2>1, EndOfProps
<1>4. SubSeq(Text, 1, Len(Handshake) - 1) = Intent \o Name
  <2> DEFINE a == Cat(Intent, Name)
             h == Len(Handshake) - 1
             b == SubSeq(Text, 1, h)
  <2>1. a \in Seq(Characters) /\ Handshake = Append(a, Cr) /\ Len(a) \in Nat
    BY HandshakeProps
  <2> HIDE DEF a
  <2>2. h = Len(a) /\ \A j \in 1 .. Len(a) : Handshake[j] = a[j]
    BY <2>1, ConnectionAssumption
  <2>3. h \in Nat /\ h <= Len(Text) /\ \A j \in 1 .. h : j \in 1 .. Len(Handshake)
    BY <1>2, <1>3, <2>1, <2>2
  <2> HIDE DEF h
  <2>4. b \in Seq(Characters) /\ Len(b) = h /\ \A j \in 1 .. h : b[j] = Text[j]
    BY <1>1, <2>3, FirstOnes
  <2> HIDE DEF b
  <2>5. \A j \in 1 .. Len(b) : b[j] = a[j]
    BY <1>1, <2>2, <2>3, <2>4
  <2>6. b = a
    BY <2>1, <2>2, <2>4, <2>5, SameSequence
  <2>7. QED
    BY <2>6 DEF a, b, h, Cat
<1>5. \A j \in 3 .. Len(Handshake) : Text[j] = Cr => j = Len(Handshake)
  <2>1. \A j \in 3 .. Len(Handshake) : j \in 1 .. Len(Handshake)
    BY <1>2
  <2>2. QED
    BY <1>1, <1>2, <2>1
<1>6. QED
  BY <1>1, <1>2, <1>3, <1>4, <1>5

(* Before the commands nothing is used up but the handshake.               *)
LEMMA NothingExecuted ==
  ASSUME HandshakeInv, CommandsInv, event \in {"ReceiveIntent", "ReceiveName"}
  PROVE  /\ executed = Concats(Orders)[0] /\ command = <<>>
         /\ 0 \in 0 .. Len(Commands) /\ EndOf(0) = Len(Handshake)
<1>1. executed = Concats(Orders)[0] /\ command = SubSeq(Text, EndOf(0) + 1, read)
  BY DEF CommandsInv
<1>2. 0 \in 0 .. Len(Commands) /\ EndOf(0) = Len(Handshake) /\ Len(Handshake) \in Nat
  BY LinesProps, EndOfProps, HandshakeProps
<1>3. read <= Len(Handshake) /\ read \in Nat
  BY TextProps DEF HandshakeInv, CommandsInv
<1>4. command = <<>>
  BY <1>1, <1>2, <1>3, SubSeqEmpty
<1>5. QED
  BY <1>1, <1>2, <1>4

(* A read of the handshake takes nothing from the commands. *)
LEMMA HandshakeRead ==
  ASSUME HandshakeInv, CommandsInv, NEW n \in 1 .. Unread,
         event \in {"ReceiveIntent", "ReceiveName"}, read' = read + n,
         UNCHANGED <<command, executed>>,
         event' \in {"ReceiveIntent", "ReceiveName", "SendAck"},
         event' = "SendAck" => read' = Len(Handshake)
  PROVE  CommandsInv'
<1>1. /\ executed = Concats(Orders)[0] /\ command = <<>>
      /\ 0 \in 0 .. Len(Commands) /\ EndOf(0) = Len(Handshake)
  BY NothingExecuted
<1>2. /\ read + n \in Nat /\ read + n <= Len(Text) /\ read + n <= Len(Handshake)
      /\ Len(Handshake) \in Nat /\ Len(Text) \in Nat
  <2>1. acks = 0
    BY DEF HandshakeInv
  <2>2. Len(Handshake) \in Nat /\ Len(Text) \in Nat
    BY HandshakeProps, TextProps
  <2>3. QED
    BY <2>1, <2>2, UnreadProps
<1>3. read' \in 0 .. Len(Text)
  BY <1>2
<1>4. command' = SubSeq(Text, EndOf(0) + 1, read')
  BY <1>1, <1>2, SubSeqEmpty
<1>5. executed' = Concats(Orders)[0]
  BY <1>1
<1>6. QED
  BY <1>1, <1>3, <1>4, <1>5 DEF CommandsInv

(* onIntentReceived, for a read of any length. *)
LEMMA IntentReadPreserves ==
  ASSUME HandshakeInv, CommandsInv, NEW n \in 1 .. Unread, OnIntentReceived(n)
  PROVE  HandshakeInv' /\ CommandsInv'
<1> DEFINE i1 == intent \o Chars(n)
<1>1. /\ event = "ReceiveIntent" /\ n <= 2 /\ read' = read + n /\ intent' = i1
      /\ event' = IF Len(i1) < 2 THEN "ReceiveIntent" ELSE "ReceiveName"
      /\ UNCHANGED <<clientName, command, todo, acks, executed>>
  BY DEF OnIntentReceived, Received
<1>2. /\ acks = 0 /\ read <= Len(Handshake) /\ intent \o clientName = SubSeq(Text, 1, read)
      /\ Len(intent) < 2 /\ clientName = <<>> /\ intent \in Seq(Characters)
      /\ acks \in Nat
  BY <1>1 DEF HandshakeInv
<1>3. intent = SubSeq(Text, 1, read)
  <2>1. Cat(intent, <<>>) = intent
    BY <1>2, CatEmpty
  <2>2. QED
    BY <1>2, <2>1 DEF Cat
<1>4. /\ n \in Nat \ {0} /\ read \in Nat /\ read + n <= Len(Handshake)
      /\ Chars(n) \in Seq(Characters) /\ Len(Chars(n)) = n
  BY <1>2, UnreadProps
<1>5. i1 = SubSeq(Text, 1, read + n)
  <2>1. SubSeq(Text, 1, read) \o Chars(n) = SubSeq(Text, 1, read + n)
    BY ReadOnFromStart
  <2>2. QED
    BY <1>3, <2>1
<1>6. i1 \in Seq(Characters) /\ Len(i1) = Len(intent) + n
  <2>1. Cat(intent, Chars(n)) \in Seq(Characters)
    BY <1>2, <1>4, CatProps
  <2>2. Len(Cat(intent, Chars(n))) = Len(intent) + Len(Chars(n))
    BY <1>2, <1>4, CatProps
  <2>3. QED
    BY <1>4, <2>1, <2>2 DEF Cat
<1> HIDE DEF i1
<1>7. i1 \o <<>> = i1
  <2>1. Cat(i1, <<>>) = i1
    BY <1>6, CatEmpty
  <2>2. QED
    BY <2>1 DEF Cat
<1>8. Len(i1) < 2 \/ Len(i1) \in {2, 3}
  <2>1. Len(intent) \in Nat
    BY <1>2
  <2>2. QED
    BY <1>1, <1>2, <1>4, <1>6, <2>1
<1>9. HandshakeInv'
  <2>1. event' \in {"ReceiveIntent", "ReceiveName"}
    BY <1>1
  <2>2. intent' \o clientName' = SubSeq(Text, 1, read')
    BY <1>1, <1>2, <1>5, <1>7
  <2>3. read' <= Len(Handshake)
    BY <1>1, <1>4
  <2>4. intent' \in Seq(Characters) /\ clientName' \in Seq(Characters) /\ acks' \in Nat /\ acks' = 0
    BY <1>1, <1>2, <1>6
  <2>5. event' = "ReceiveIntent" => Len(intent') < 2 /\ clientName' = <<>>
    BY <1>1, <1>2
  <2>6. event' = "ReceiveName" => Len(intent') \in {2, 3}
    BY <1>1, <1>8
  <2>7. NameAsWritten'
    BY <2>1 DEF NameAsWritten
  <2>8. QED
    BY <2>1, <2>2, <2>3, <2>4, <2>5, <2>6, <2>7 DEF HandshakeInv
<1>10. CommandsInv'
  <2>1. event \in {"ReceiveIntent", "ReceiveName"}
    BY <1>1
  <2>2. event' \in {"ReceiveIntent", "ReceiveName", "SendAck"} /\ event' # "SendAck"
    BY <1>1
  <2>3. UNCHANGED <<command, executed>> /\ read' = read + n
    BY <1>1
  <2>4. QED
    BY <2>1, <2>2, <2>3, HandshakeRead
<1>11. QED
  BY <1>9, <1>10

(* onReceiveNameComplete, for a read of any length: the separator ends     *)
(* the handshake and nothing else does.                                    *)
LEMMA NameReadPreserves ==
  ASSUME HandshakeInv, CommandsInv, NEW n \in 1 .. Unread, OnReceiveNameComplete(n)
  PROVE  HandshakeInv' /\ CommandsInv'
<1> DEFINE name == clientName \o Chars(n)
           m == read + n
           w == SubSeq(Text, 1, m)
<1>1. /\ event = "ReceiveName" /\ read' = m
      /\ IF EndsWithCr(name) THEN clientName' = Front(name) /\ event' = "SendAck"
         ELSE clientName' = name /\ event' = event
      /\ UNCHANGED <<intent, command, todo, acks, executed>>
  BY DEF OnReceiveNameComplete, Received
<1>2. /\ acks = 0 /\ read <= Len(Handshake) /\ intent \o clientName = SubSeq(Text, 1, read)
      /\ Len(intent) \in {2, 3} /\ intent \in Seq(Characters) /\ clientName \in Seq(Characters)
  BY <1>1 DEF HandshakeInv
<1>3. /\ n \in Nat \ {0} /\ read \in Nat /\ m <= Len(Handshake) /\ m <= Len(Text) /\ m \in Nat \ {0}
      /\ Chars(n) \in Seq(Characters) /\ Len(Chars(n)) = n
  BY <1>2, UnreadProps
<1>4. name = Cat(clientName, Chars(n))
  BY DEF Cat
<1>5. name \in Seq(Characters)
  BY <1>2, <1>3, <1>4, CatProps
<1>6. Len(name) = Len(clientName) + n
  <2>1. clientName \in Seq(Characters) /\ Chars(n) \in Seq(Characters)
    BY <1>2, <1>3
  <2>2. Len(Cat(clientName, Chars(n))) = Len(clientName) + Len(Chars(n))
    BY <2>1, CatProps
  <2>3. QED
    BY <1>3, <1>4, <2>2
<1>7. Cat(intent, name) = w
  <2>1. Cat(Cat(intent, clientName), Chars(n)) = Cat(intent, Cat(clientName, Chars(n)))
    BY <1>2, <1>3, CatAssociative
  <2>2. SubSeq(Text, 1, read) \o Chars(n) = SubSeq(Text, 1, read + n)
    BY ReadOnFromStart
  <2>3. Cat(Cat(intent, clientName), Chars(n)) = w
    BY <1>2, <2>2 DEF Cat
  <2>4. QED
    BY <1>4, <2>1, <2>3
<1>8. w \in Seq(Characters) /\ Len(w) = m /\ \A j \in 1 .. m : w[j] = Text[j]
  <2>1. Text \in Seq(Characters) /\ m \in Nat /\ m <= Len(Text)
    BY <1>3, TextProps
  <2> HIDE DEF m
  <2>2. QED
    BY <2>1, FirstOnes
<1> HIDE DEF name, m, w
<1>9. Len(clientName) \in Nat /\ acks' \in Nat
  BY <1>1, <1>2
<1>10. CASE EndsWithCr(name)
  <2> DEFINE f == Front(name)
             h == m - 1
  <2>1. name # <<>> /\ Last(name) = Cr
    BY <1>10 DEF EndsWithCr
  <2>2. f \in Seq(Characters) /\ name = Append(f, Cr) /\ Len(name) \in Nat \ {0} /\ name[Len(name)] = Cr
    BY <1>5, <2>1, FrontAndLast
  <2>3. Cr \in Characters
    BY ConnectionAssumption
  <2> HIDE DEF f
  <2>4. w = Append(Cat(intent, f), Cr)
    <3>1. Cat(intent, Append(f, Cr)) = Append(Cat(intent, f), Cr)
      BY <1>2, <2>2, <2>3, CatOfAppend
    <3>2. QED
      BY <1>7, <2>2, <3>1
  <2>5. Cat(intent, f) \in Seq(Characters)
    BY <1>2, <2>2, CatProps
  <2>6. Len(w) = Len(intent) + Len(name) /\ w[m] = Cr
    <3>1. Len(Cat(intent, name)) = Len(intent) + Len(name)
      BY <1>2, <1>5, CatProps
    <3>2. Len(w) = Len(Cat(intent, f)) + 1 /\ w[Len(Cat(intent, f)) + 1] = Cr
      BY <2>3, <2>4, <2>5
    <3>3. QED
      BY <1>7, <1>8, <3>1, <3>2
  <2>7. m \in 3 .. Len(Handshake)
    <3>1. Len(intent) >= 2 /\ Len(intent) \in Nat /\ m = Len(intent) + Len(name) /\ Len(Handshake) \in Nat
      BY <1>2, <1>8, <2>6, TextHandshake, SMTT(30)
    <3>2. QED
      BY <1>3, <2>2, <3>1
  <2>8. m \in 1 .. m
    BY <1>3
  <2>9. Text[m] = Cr
    BY <1>8, <2>6, <2>8
  <2>10. m = Len(Handshake)
    BY <2>7, <2>9, TextHandshake
  <2>11. w = Append(SubSeq(Text, 1, h), Text[h + 1])
    <3>1. h \in Nat /\ h + 1 = m /\ h + 1 <= Len(Text) /\ Text \in Seq(Characters)
      BY <1>3, TextHandshake
    <3> HIDE DEF h
    <3>2. SubSeq(Text, 1, h + 1) = Append(SubSeq(Text, 1, h), Text[h + 1])
      BY <3>1, FirstAndNext
    <3>3. QED
      BY <3>1, <3>2 DEF w
  <2>12. SubSeq(Text, 1, h) = Intent \o Name
    BY <2>10, TextHandshake
  <2>13. Cat(intent, f) = Intent \o Name
    <3>1. Front(w) = Cat(intent, f)
      BY <2>3, <2>4, <2>5, AppendFront
    <3> DEFINE g == SubSeq(Text, 1, h)
    <3>2. h \in Nat /\ h <= Len(Text) /\ h + 1 = m /\ Text \in Seq(Characters)
      BY <1>3, TextHandshake
    <3> HIDE DEF h
    <3>3. g \in Seq(Characters)
      BY <3>2, FirstOnes
    <3>4. w = Append(g, Cr)
      BY <2>9, <2>11, <3>2
    <3> HIDE DEF g
    <3>5. Front(w) = g
      BY <2>3, <3>3, <3>4, AppendFront
    <3>6. QED
      BY <2>12, <3>1, <3>5 DEF g
  <2>14. event' = "SendAck" /\ clientName' = f /\ intent' = intent
    BY <1>1, <1>10 DEF f
  <2>15. NameAsWritten'
    BY <1>2, <2>13, <2>14 DEF NameAsWritten, Cat
  <2>16. HandshakeInv'
    BY <1>2, <1>9, <2>2, <2>14, <2>15 DEF HandshakeInv
  <2>17. CommandsInv'
    <3>1. event \in {"ReceiveIntent", "ReceiveName"}
      BY <1>1
    <3>2. event' \in {"ReceiveIntent", "ReceiveName", "SendAck"} /\ read' = Len(Handshake)
      BY <1>1, <2>10, <2>14
    <3>3. UNCHANGED <<command, executed>> /\ read' = read + n
      BY <1>1 DEF m
    <3>4. QED
      BY <3>1, <3>2, <3>3, HandshakeRead
  <2>18. QED
    BY <2>16, <2>17
<1>11. CASE ~EndsWithCr(name)
  <2>1. event' = "ReceiveName" /\ clientName' = name /\ intent' = intent /\ acks' = 0 /\ read' = m
    BY <1>1, <1>2, <1>11
  <2>2. intent' \o clientName' = SubSeq(Text, 1, read')
    BY <1>7, <2>1 DEF Cat, w
  <2>3. NameAsWritten'
    BY <2>1 DEF NameAsWritten
  <2>4. HandshakeInv'
    BY <1>2, <1>3, <1>5, <1>9, <2>1, <2>2, <2>3 DEF HandshakeInv
  <2>5. CommandsInv'
    <3>1. event \in {"ReceiveIntent", "ReceiveName"}
      BY <1>1
    <3>2. event' \in {"ReceiveIntent", "ReceiveName", "SendAck"} /\ event' # "SendAck"
      BY <2>1
    <3>3. UNCHANGED <<command, executed>> /\ read' = read + n
      BY <1>1 DEF m
    <3>4. QED
      BY <3>1, <3>2, <3>3, HandshakeRead
  <2>6. QED
    BY <2>4, <2>5
<1>12. QED
  BY <1>10, <1>11

(* Intent and name are done when the handshake is.                         *)
LEMMA HandshakeDone ==
  ASSUME HandshakeInv, UNCHANGED handshakeVars, acks' \in Nat,
         \/ event' = "Disconnected"
         \/ /\ event \in {"SendAck", "ReceivePublisherData", "processing"}
            /\ event' \in {"SendAck", "ReceivePublisherData", "processing"}
  PROVE  HandshakeInv'
<1>1. intent' = intent /\ clientName' = clientName
  BY DEF handshakeVars
<1>2. intent \in Seq(Characters) /\ clientName \in Seq(Characters)
  BY DEF HandshakeInv
<1>3. NameAsWritten'
  BY <1>1 DEF HandshakeInv, NameAsWritten
<1>4. QED
  BY <1>1, <1>2, <1>3 DEF HandshakeInv

(* The read of commands: they are kept, or carried out when their end is   *)
(* read.                                                                   *)
LEMMA DataReadPreserves ==
  ASSUME HandshakeInv, CommandsInv, NEW n \in 1 .. Unread, OnReceiveDataComplete(n)
  PROVE  /\ HandshakeInv' /\ CommandsInv'
         /\ \/ UNCHANGED <<executed, todo>>
            \/ \E accepted \in Seq(OrderSet) : /\ executed' = Cat(executed, accepted)
                                               /\ todo' = Additions(accepted)
<1> DEFINE text == command \o Chars(n)
           m == read + n
           N == Len(Commands)
<1>1. /\ event = "ReceivePublisherData" /\ read' = m /\ UNCHANGED <<handshakeVars, acks>>
      /\ IF EndsWithCr(text) THEN ProcessCommand(Front(text))
         ELSE command' = text /\ UNCHANGED <<event, executed, todo>>
  BY DEF OnReceiveDataComplete, Received
<1>2. PICK k \in 0 .. N :
        executed = Concats(Orders)[k] /\ command = SubSeq(Text, EndOf(k) + 1, read) /\ EndOf(k) <= read
  BY <1>1 DEF CommandsInv
<1>3. N \in Nat /\ EndOf(k) \in Nat /\ Len(Handshake) <= EndOf(k) /\ Len(Handshake) \in Nat
  BY LinesProps, EndOfProps, HandshakeProps
<1>4. n \in Nat \ {0} /\ read \in Nat /\ m \in Nat /\ m <= Len(Text) /\ read < m
  BY UnreadProps
<1>5. text = SubSeq(Text, EndOf(k) + 1, m)
  BY <1>2, <1>3, ReadOn
<1>6. Text \in Seq(Characters) /\ Len(Text) \in Nat
  BY TextProps
<1>7. text \in Seq(Characters) /\ Len(text) = m - EndOf(k)
      /\ \A j \in 1 .. m - EndOf(k) : text[j] = Text[EndOf(k) + j]
  <2>1. EndOf(k) <= m /\ EndOf(k) \in Nat
    BY <1>2, <1>3, <1>4
  <2> DEFINE e == EndOf(k)
  <2>2. e <= m /\ e \in Nat /\ m \in Nat /\ m <= Len(Text) /\ text = SubSeq(Text, e + 1, m)
    BY <1>4, <1>5, <2>1
  <2> HIDE DEF e, m, text
  <2>3. /\ SubSeq(Text, e + 1, m) \in Seq(Characters) /\ Len(SubSeq(Text, e + 1, m)) = m - e
        /\ \A j \in 1 .. m - e : SubSeq(Text, e + 1, m)[j] = Text[e + j]
    BY <1>6, <2>2, MiddleOnes
  <2>4. QED
    BY <2>2, <2>3 DEF e
<1>8. m - EndOf(k) \in Nat \ {0} /\ read' \in 0 .. Len(Text) /\ Len(Handshake) < m
  BY <1>1, <1>2, <1>3, <1>4, <1>6
<1>9. acks' \in Nat
  BY <1>1 DEF HandshakeInv
<1> HIDE DEF text, m, N
<1>10. CASE EndsWithCr(text)
  <2> DEFINE accepted == Accepted(Front(text))
  <2>1. /\ event' = "processing" /\ executed' = executed \o accepted
        /\ todo' = Additions(accepted) /\ command' = <<>>
    BY <1>1, <1>10 DEF ProcessCommand
  <2>2. Text[m] = Cr
    <3>1. text[Len(text)] = Cr
      BY <1>10 DEF EndsWithCr, Last
    <3>2. Len(text) \in 1 .. m - EndOf(k) /\ EndOf(k) + Len(text) = m
      BY <1>3, <1>4, <1>7, <1>8
    <3>3. QED
      BY <1>7, <3>1, <3>2
  <2>3. PICK e \in 1 .. N : m = EndOf(e)
    BY <1>4, <1>8, <2>2, CrEndsCommand DEF N
  <2>4. k < e /\ k \in Nat /\ e \in Nat /\ e <= N /\ e \in 0 .. N
    <3>1. k \in Nat /\ e \in Nat /\ e <= N /\ e \in 0 .. N
      BY <1>3
    <3>2. ~(e <= k)
      <4>1. ASSUME e <= k PROVE FALSE
        <5>1. EndOf(e) <= EndOf(k)
          BY <3>1, <4>1, EndOfProps DEF N
        <5>2. QED
          BY <1>3, <1>4, <1>8, <2>3, <5>1
      <4>2. QED
        BY <4>1
    <3>3. QED
      BY <3>1, <3>2
  <2>5. /\ accepted \in Seq(OrderSet)
        /\ Concats(Orders)[e] = Cat(Concats(Orders)[k], accepted)
    BY <1>5, <2>3, <2>4, AcceptedContinues DEF N
  <2> HIDE DEF accepted
  <2>6. executed' = Cat(executed, accepted)
    BY <2>1 DEF Cat
  <2>7. executed' = Concats(Orders)[e]
    BY <1>2, <2>5, <2>6
  <2>8. command' = SubSeq(Text, EndOf(e) + 1, read')
    <3>1. SubSeq(Text, m + 1, m) = <<>>
      BY <1>4, SubSeqEmpty
    <3>2. QED
      BY <1>1, <2>1, <2>3, <3>1
  <2>9. CommandsInv'
    BY <1>1, <1>8, <2>1, <2>3, <2>4, <2>7, <2>8 DEF CommandsInv, N
  <2>10. HandshakeInv'
    BY <1>1, <1>9, <2>1, HandshakeDone
  <2>11. QED
    BY <2>1, <2>5, <2>6, <2>9, <2>10
<1>11. CASE ~EndsWithCr(text)
  <2>1. command' = text /\ UNCHANGED <<event, executed, todo>>
    BY <1>1, <1>11
  <2>2. command' = SubSeq(Text, EndOf(k) + 1, read')
    BY <1>1, <1>5, <2>1
  <2>3. EndOf(k) <= read'
    BY <1>1, <1>2, <1>3, <1>4
  <2>4. CommandsInv'
    <3>1. executed' = Concats(Orders)[k] /\ event' = "ReceivePublisherData"
      BY <1>1, <1>2, <2>1
    <3>2. QED
      BY <1>8, <2>2, <2>3, <3>1 DEF CommandsInv, N
  <2>5. HandshakeInv'
    BY <1>1, <1>9, <2>1, HandshakeDone
  <2>6. QED
    BY <2>1, <2>4, <2>5
<1>12. QED
  BY <1>10, <1>11

(* The handshake and the commands do not change while neither is read.     *)
LEMMA NothingRead ==
  ASSUME HandshakeInv, CommandsInv, UNCHANGED connectionVars
  PROVE  HandshakeInv' /\ CommandsInv'
BY DEF HandshakeInv, CommandsInv, NameAsWritten, connectionVars

(***************************************************************************)
(* What is subscribed to was commanded                                     *)
(***************************************************************************)
(* What was commanded stays so.                                            *)
LEMMA CommandedStays ==
  ASSUME NEW accepted \in Seq(OrderSet), executed \in Seq(OrderSet),
         executed' = Cat(executed, accepted)
  PROVE  /\ \A s, timeout : WasCommanded(s, timeout) => WasCommanded(s, timeout)'
         /\ \A i \in 1 .. Len(accepted) : \A j \in DOMAIN accepted[i].subs :
              accepted[i].name = SubscriberName =>
                WasCommanded(accepted[i].subs[j], accepted[i].timeout)'
<1> DEFINE x == executed'
<1>1. x \in Seq(OrderSet)
  BY CatProps
<1>2. Len(x) = Len(executed) + Len(accepted)
  BY CatProps
<1>3. \A i \in 1 .. Len(executed) : x[i] = executed[i]
  BY CatProps
<1>4. \A i \in 1 .. Len(accepted) : x[Len(executed) + i] = accepted[i]
  <2> DEFINE S == OrderSet
             e == executed
             b == accepted
  <2>1. e \in Seq(S) /\ b \in Seq(S)
    OBVIOUS
  <2>2. x = Cat(e, b)
    OBVIOUS
  <2> HIDE DEF S, e, b, x
  <2>3. \A i \in 1 .. Len(b) : Cat(e, b)[Len(e) + i] = b[i]
    BY <2>1, CatProps
  <2>4. QED
    BY <2>2, <2>3 DEF e, b
<1>5. /\ Len(executed) \in Nat /\ Len(accepted) \in Nat /\ DOMAIN executed = 1 .. Len(executed)
      /\ DOMAIN x = 1 .. Len(x)
  BY <1>1
<1>6. ASSUME NEW s, NEW timeout, WasCommanded(s, timeout)
      PROVE  WasCommanded(s, timeout)'
  <2>1. CASE \E k \in DOMAIN Taken : Taken[k] = [sub |-> s, timeout |-> timeout]
    BY <2>1 DEF WasCommanded
  <2>2. CASE \E i \in DOMAIN executed :
               /\ executed[i].name = SubscriberName
               /\ \E k \in DOMAIN executed[i].subs : executed[i].subs[k] = s
               /\ executed[i].timeout = timeout
    <3>1. PICK i \in DOMAIN executed :
            /\ executed[i].name = SubscriberName
            /\ \E k \in DOMAIN executed[i].subs : executed[i].subs[k] = s
            /\ executed[i].timeout = timeout
      BY <2>2
    <3>2. i \in DOMAIN x /\ x[i] = executed[i]
      BY <1>2, <1>3, <1>5
    <3>3. QED
      BY <3>1, <3>2 DEF WasCommanded
  <2>3. QED
    BY <1>6, <2>1, <2>2 DEF WasCommanded
<1>7. ASSUME NEW i \in 1 .. Len(accepted), NEW j \in DOMAIN accepted[i].subs,
             accepted[i].name = SubscriberName
      PROVE  WasCommanded(accepted[i].subs[j], accepted[i].timeout)'
  <2>1. Len(executed) + i \in DOMAIN x /\ x[Len(executed) + i] = accepted[i]
    BY <1>2, <1>4, <1>5
  <2>2. QED
    BY <1>7, <2>1 DEF WasCommanded
<1>8. QED
  BY <1>6, <1>7

(* What reading does to the entries: nothing, but for the additions it     *)
(* begins.                                                                 *)
LEMMA ReadingKeepsEntries ==
  ASSUME EntriesInv, CommandsInv, UNCHANGED <<now, mapVars>>, UNCHANGED taken,
         \/ UNCHANGED <<executed, todo>>
         \/ \E accepted \in Seq(OrderSet) : /\ executed' = Cat(executed, accepted)
                                            /\ todo' = Additions(accepted)
  PROVE  EntriesInv'
<1>1. subscriptions' = subscriptions /\ adding' = adding
  BY DEF mapVars
<1>2. CASE UNCHANGED <<executed, todo>>
  <2>1. \A s, timeout : WasCommanded(s, timeout)' <=> WasCommanded(s, timeout)
    BY <1>2 DEF WasCommanded
  <2>2. \A th \in Threads : \A s : IsAdding(th, s)' <=> IsAdding(th, s)
    BY <1>1 DEF IsAdding
  <2>3. QED
    BY <1>1, <1>2, <2>1, <2>2 DEF EntriesInv, WasCommanded, IsAdding, Subscribed
<1>3. CASE \E accepted \in Seq(OrderSet) : /\ executed' = Cat(executed, accepted)
                                           /\ todo' = Additions(accepted)
  <2>1. PICK accepted \in Seq(OrderSet) : executed' = Cat(executed, accepted) /\ todo' = Additions(accepted)
    BY <1>3
  <2>2. executed \in Seq(OrderSet)
    BY ExecutedType
  <2>3. \A s, timeout : WasCommanded(s, timeout) => WasCommanded(s, timeout)'
    BY <2>1, <2>2, CommandedStays
  <2>4. \A i \in 1 .. Len(accepted) : \A j \in DOMAIN accepted[i].subs :
          accepted[i].name = SubscriberName =>
            WasCommanded(accepted[i].subs[j], accepted[i].timeout)'
    BY <2>1, <2>2, CommandedStays
  <2>5. /\ todo' \in Seq([sub : Subs, timeout : Nat])
        /\ \A k \in DOMAIN todo' : \E i \in 1 .. Len(accepted) :
              /\ accepted[i].name = SubscriberName
              /\ \E j \in DOMAIN accepted[i].subs : accepted[i].subs[j] = todo'[k].sub
              /\ accepted[i].timeout = todo'[k].timeout
    BY <2>1, AdditionsProps
  <2>6. ASSUME NEW k \in DOMAIN todo' PROVE WasCommanded(todo[k].sub, todo[k].timeout)'
    <3>1. PICK i \in 1 .. Len(accepted) :
              /\ accepted[i].name = SubscriberName
              /\ \E j \in DOMAIN accepted[i].subs : accepted[i].subs[j] = todo'[k].sub
              /\ accepted[i].timeout = todo'[k].timeout
      BY <2>5
    <3>2. PICK j \in DOMAIN accepted[i].subs : accepted[i].subs[j] = todo'[k].sub
      BY <3>1
    <3>3. WasCommanded(accepted[i].subs[j], accepted[i].timeout)'
      BY <2>4, <3>1
    <3>4. QED
      BY <3>1, <3>2, <3>3 DEF WasCommanded
  <2>7. \A th \in Threads :
          adding'[th] # NotAdding => WasCommanded(adding[th].sub, adding[th].timeout)'
    BY <1>1, <2>3 DEF EntriesInv
  <2>8. \A s \in Subscribed :
          \/ WasCommanded(s, subscriptions[s].timeout)'
          \/ \E th \in Threads : IsAdding(th, s)' /\ adding'[th].step = "timeout"
    BY <1>1, <2>3 DEF EntriesInv, IsAdding
  <2>9. QED
    BY <1>1, <2>5, <2>6, <2>7, <2>8 DEF EntriesInv, Subscribed
<1>4. QED
  BY <1>2, <1>3

(* What the map keeps of its items, while nothing is added, keeps them     *)
(* commanded.                                                              *)
LEMMA ItemsKeepTimeouts ==
  ASSUME EntriesInv, UNCHANGED <<executed, todo, taken, adding>>,
         Subscribed' \subseteq Subscribed,
         \A s \in Subscribed' : subscriptions'[s].timeout = subscriptions[s].timeout
  PROVE  EntriesInv'
BY DEF EntriesInv, WasCommanded, IsAdding

(* A store of one thread's addition leaves its item commanded if it was,   *)
(* or has its own timeout.  The other thread's addition stays.             *)
LEMMA StoreKeepsEntries ==
  ASSUME MapTypeOK, EntriesInv, NEW th \in Threads, NEW from, NEW to, NEW data,
         Store(th, from, to, data), from \in AddingSteps,
         UNCHANGED connectionVars, UNCHANGED taken,
         adding[th].sub \in Subscribed =>
           \/ data.timeout = adding[th].timeout
           \/ from # "timeout" /\ data.timeout = subscriptions[adding[th].sub].timeout
  PROVE  EntriesInv'
<1> DEFINE a == adding[th].sub
<1>0. /\ executed' = executed /\ todo' = todo /\ taken' = taken
      /\ \A s, timeout : WasCommanded(s, timeout)' <=> WasCommanded(s, timeout)
  BY DEF connectionVars, WasCommanded
<1>1. /\ Subscribed' = Subscribed
      /\ a \in Subscribed => subscriptions'[a] = data
      /\ \A s \in Subscribed \ {a} : subscriptions'[s] = subscriptions[s]
  BY DEF Store, Updated, Subscribed
<1>2. /\ adding[th] # NotAdding /\ adding[th].step = from
      /\ \A u \in Threads : u # th => adding'[u] = adding[u]
      /\ \/ adding'[th] = NotAdding
         \/ adding'[th].sub = a /\ adding'[th].timeout = adding[th].timeout
  <2>1. adding[th].step = from /\ adding[th] # NotAdding
    BY DEF Store, AddingSteps, NotAdding
  <2>2. adding[th] \in [step : AddingSteps, sub : Subs, timeout : Nat, now : Moments]
    BY <2>1 DEF MapTypeOK
  <2>3. /\ adding \in [Threads -> {NotAdding} \cup
              [step : AddingSteps, sub : Subs, timeout : Nat, now : Moments]]
        /\ adding' = [adding EXCEPT ![th] = IF to = "none" THEN NotAdding ELSE [@ EXCEPT !.step = to]]
    BY DEF MapTypeOK, Store
  <2>4. \A u \in Threads : u # th => adding'[u] = adding[u]
    BY <2>3
  <2>5. adding'[th] = IF to = "none" THEN NotAdding ELSE [adding[th] EXCEPT !.step = to]
    BY <2>3
  <2>6. QED
    BY <2>1, <2>2, <2>4, <2>5
<1>3. WasCommanded(a, adding[th].timeout)
  BY <1>2 DEF EntriesInv
<1>4. \A u \in Threads : adding'[u] # NotAdding =>
        WasCommanded(adding'[u].sub, adding'[u].timeout)
  <2> SUFFICES ASSUME NEW u \in Threads, adding'[u] # NotAdding
               PROVE  WasCommanded(adding'[u].sub, adding'[u].timeout)
    OBVIOUS
  <2>1. CASE u = th
    BY <1>2, <1>3, <2>1
  <2>2. CASE u # th
    BY <1>2, <2>2 DEF EntriesInv
  <2>3. QED
    BY <2>1, <2>2
<1>5. ASSUME NEW s \in Subscribed
      PROVE  \/ WasCommanded(s, subscriptions'[s].timeout)
             \/ \E u \in Threads : IsAdding(u, s)' /\ adding'[u].step = "timeout"
  <2>1. \/ WasCommanded(s, subscriptions[s].timeout)
        \/ \E u \in Threads : IsAdding(u, s) /\ adding[u].step = "timeout"
    BY DEF EntriesInv
  <2>2. CASE s = a /\ data.timeout = adding[th].timeout
    BY <1>1, <1>3, <2>2
  <2>3. CASE \/ s # a
             \/ from # "timeout" /\ data.timeout = subscriptions[a].timeout
    <3>1. subscriptions'[s].timeout = subscriptions[s].timeout
      BY <1>1, <2>3
    <3>2. ASSUME NEW u \in Threads, IsAdding(u, s), adding[u].step = "timeout"
          PROVE  IsAdding(u, s)' /\ adding'[u].step = "timeout"
      <4>1. u # th
        BY <1>2, <2>3, <3>2 DEF IsAdding
      <4>2. QED
        BY <1>2, <3>2, <4>1 DEF IsAdding
    <3>3. QED
      BY <2>1, <3>1, <3>2
  <2>4. QED
    BY <2>2, <2>3
<1>6. QED
  <2>1. /\ todo' \in Seq([sub : Subs, timeout : Nat])
        /\ taken' \in Seq([sub : Subs, timeout : Nat])
        /\ \A k \in DOMAIN todo' : WasCommanded(todo'[k].sub, todo'[k].timeout)
        /\ \A k \in DOMAIN taken' : \E j \in DOMAIN Taken : taken'[k] = Taken[j]
    BY <1>0 DEF EntriesInv
  <2>2. \A k \in DOMAIN todo' : WasCommanded(todo[k].sub, todo[k].timeout)'
    BY <1>0, <2>1 DEF WasCommanded
  <2>3. \A u \in Threads :
          adding'[u] # NotAdding => WasCommanded(adding[u].sub, adding[u].timeout)'
    BY <1>0, <1>4 DEF WasCommanded
  <2>4. \A s \in Subscribed' :
          \/ WasCommanded(s, subscriptions[s].timeout)'
          \/ \E u \in Threads : IsAdding(u, s)' /\ adding'[u].step = "timeout"
    BY <1>0, <1>1, <1>5 DEF WasCommanded
  <2>5. QED
    BY <2>1, <2>2, <2>3, <2>4 DEF EntriesInv

(* The stores of addSubscriptions into one item, of either thread. *)
LEMMA AddingPreservesEntries ==
  ASSUME MapInv, EntriesInv, NEW th \in Threads, AddingThread(th),
         UNCHANGED connectionVars, UNCHANGED taken
  PROVE  EntriesInv'
<1> DEFINE a == adding[th].sub
<1>1. MapTypeOK
  BY DEF MapInv
<1>2. \A s \in Subscribed : subscriptions[s] \in SubscriptionData
  BY <1>1 DEF MapTypeOK
<1>3. CASE Insert(th)
  <2>1. /\ adding[th] # NotAdding /\ adding[th].step = "insert"
        /\ adding[th] \in [step : AddingSteps, sub : Subs, timeout : Nat, now : Moments]
    BY <1>1, <1>3 DEF Insert, MapTypeOK, NotAdding
  <2>2. /\ adding'[th].step = "timeout" /\ adding'[th].sub = a
        /\ adding'[th].timeout = adding[th].timeout /\ adding'[th] # NotAdding
        /\ \A u \in Threads : u # th => adding'[u] = adding[u]
    <3>1. /\ adding \in [Threads -> {NotAdding} \cup
                [step : AddingSteps, sub : Subs, timeout : Nat, now : Moments]]
          /\ adding' = [adding EXCEPT ![th].step = "timeout"]
      BY <1>1, <1>3 DEF MapTypeOK, Insert
    <3>2. adding'[th] = [adding[th] EXCEPT !.step = "timeout"]
      BY <3>1
    <3>3. \A u \in Threads : u # th => adding'[u] = adding[u]
      BY <3>1
    <3>4. QED
      BY <2>1, <3>2, <3>3 DEF NotAdding
  <2>3. /\ Subscribed' = Subscribed \cup {a}
        /\ \A s \in Subscribed : s # a => subscriptions'[s] = subscriptions[s]
    BY <1>3 DEF Insert, Updated, Subscribed
  <2>4. /\ executed' = executed /\ todo' = todo /\ taken' = taken
        /\ \A s, timeout : WasCommanded(s, timeout)' <=> WasCommanded(s, timeout)
    BY DEF connectionVars, WasCommanded
  <2>5. ASSUME NEW s \in Subscribed'
        PROVE  \/ WasCommanded(s, subscriptions'[s].timeout)
               \/ \E u \in Threads : IsAdding(u, s)' /\ adding'[u].step = "timeout"
    <3>1. CASE s = a
      BY <2>2, <3>1 DEF IsAdding
    <3>2. CASE s # a
      <4>1. s \in Subscribed /\ subscriptions'[s] = subscriptions[s]
        BY <2>3, <2>5, <3>2
      <4>2. ASSUME NEW u \in Threads, IsAdding(u, s), adding[u].step = "timeout"
            PROVE  IsAdding(u, s)' /\ adding'[u].step = "timeout"
        <5>1. u # th
          BY <2>1, <4>2
        <5>2. QED
          BY <2>2, <4>2, <5>1 DEF IsAdding
      <4>3. \/ WasCommanded(s, subscriptions[s].timeout)
            \/ \E u \in Threads : IsAdding(u, s) /\ adding[u].step = "timeout"
        BY <4>1 DEF EntriesInv
      <4>4. QED
        BY <4>1, <4>2, <4>3
    <3>3. QED
      BY <3>1, <3>2
  <2>6. \A u \in Threads : adding'[u] # NotAdding =>
          WasCommanded(adding'[u].sub, adding'[u].timeout)
    <3>1. WasCommanded(a, adding[th].timeout)
      BY <2>1 DEF EntriesInv
    <3>2. QED
      BY <2>2, <3>1 DEF EntriesInv
  <2>7. /\ todo' \in Seq([sub : Subs, timeout : Nat])
        /\ taken' \in Seq([sub : Subs, timeout : Nat])
        /\ \A k \in DOMAIN todo' : WasCommanded(todo'[k].sub, todo'[k].timeout)
        /\ \A k \in DOMAIN taken' : \E j \in DOMAIN Taken : taken'[k] = Taken[j]
    BY <2>4 DEF EntriesInv
  <2>8. \A k \in DOMAIN todo' : WasCommanded(todo[k].sub, todo[k].timeout)'
    BY <2>4, <2>7 DEF WasCommanded
  <2>9. \A u \in Threads :
          adding'[u] # NotAdding => WasCommanded(adding[u].sub, adding[u].timeout)'
    BY <2>4, <2>6 DEF WasCommanded
  <2>10. \A s \in Subscribed' :
           \/ WasCommanded(s, subscriptions[s].timeout)'
           \/ \E u \in Threads : IsAdding(u, s)' /\ adding'[u].step = "timeout"
    BY <2>4, <2>5 DEF WasCommanded
  <2>11. QED
    BY <2>7, <2>8, <2>9, <2>10 DEF EntriesInv
<1>4. CASE StoreTimeout(th)
  <2> DEFINE data == [subscriptions[a] EXCEPT !.timeout = adding[th].timeout]
  <2>1. Store(th, "timeout", "lastAction", data)
    BY <1>4 DEF StoreTimeout
  <2>2. a \in Subscribed => data.timeout = adding[th].timeout
    BY <1>2 DEF SubscriptionData
  <2> HIDE DEF data
  <2>3. QED
    BY <1>1, <2>1, <2>2, StoreKeepsEntries DEF AddingSteps
<1>5. CASE StoreLastAction(th)
  <2> DEFINE data == [subscriptions[a] EXCEPT !.lastAction = adding[th].now]
  <2>1. Store(th, "lastAction", "expired", data)
    BY <1>5 DEF StoreLastAction
  <2>2. a \in Subscribed => data.timeout = subscriptions[a].timeout
    BY <1>2 DEF SubscriptionData
  <2> HIDE DEF data
  <2>3. QED
    BY <1>1, <2>1, <2>2, StoreKeepsEntries DEF AddingSteps
<1>6. CASE StoreExpired(th)
  <2> DEFINE data == [subscriptions[a] EXCEPT !.timeoutExpired = FALSE]
  <2>1. Store(th, "expired", "none", data)
    BY <1>6 DEF StoreExpired
  <2>2. a \in Subscribed => data.timeout = subscriptions[a].timeout
    BY <1>2 DEF SubscriptionData
  <2> HIDE DEF data
  <2>3. QED
    BY <1>1, <2>1, <2>2, StoreKeepsEntries DEF AddingSteps
<1>7. QED
  BY <1>3, <1>4, <1>5, <1>6 DEF AddingThread

(* An addition begun with a commanded name leaves the items as they are. *)
LEMMA BeginAddKeepsEntries ==
  ASSUME MapTypeOK, EntriesInv, NEW th \in Threads, NEW s \in Subs, NEW timeout \in Nat,
         BeginAdd(th, s, timeout), WasCommanded(s, timeout), executed' = executed,
         todo' \in Seq([sub : Subs, timeout : Nat]),
         \A k \in DOMAIN todo' : WasCommanded(todo'[k].sub, todo'[k].timeout),
         taken' \in Seq([sub : Subs, timeout : Nat]),
         \A k \in DOMAIN taken' : \E j \in DOMAIN Taken : taken'[k] = Taken[j]
  PROVE  EntriesInv'
<1>1. \A r, t : WasCommanded(r, t)' <=> WasCommanded(r, t)
  BY DEF WasCommanded
<1>2. /\ adding[th] = NotAdding
      /\ subscriptions' = subscriptions
      /\ adding'[th] = [step |-> "insert", sub |-> s, timeout |-> timeout, now |-> now]
      /\ \A u \in Threads : u # th => adding'[u] = adding[u]
  BY DEF BeginAdd, MapTypeOK
<1>3. \A u \in Threads : adding'[u] # NotAdding =>
        WasCommanded(adding'[u].sub, adding'[u].timeout)
  <2> SUFFICES ASSUME NEW u \in Threads, adding'[u] # NotAdding
               PROVE  WasCommanded(adding'[u].sub, adding'[u].timeout)
    OBVIOUS
  <2>1. CASE u = th
    <3>1. adding'[u].sub = s /\ adding'[u].timeout = timeout
      BY <1>2, <2>1
    <3>2. QED
      BY <3>1
  <2>2. CASE u # th
    BY <1>2, <2>2 DEF EntriesInv
  <2>3. QED
    BY <2>1, <2>2
<1>4. ASSUME NEW r \in Subscribed
      PROVE  \/ WasCommanded(r, subscriptions'[r].timeout)
             \/ \E u \in Threads : IsAdding(u, r)' /\ adding'[u].step = "timeout"
  <2>1. \/ WasCommanded(r, subscriptions[r].timeout)
        \/ \E u \in Threads : IsAdding(u, r) /\ adding[u].step = "timeout"
    BY DEF EntriesInv
  <2>2. \A u \in Threads : IsAdding(u, r) => u # th /\ IsAdding(u, r)' /\ adding'[u] = adding[u]
    BY <1>2 DEF IsAdding
  <2>3. QED
    BY <1>2, <2>1, <2>2
<1>5. Subscribed' = Subscribed
  BY <1>2 DEF Subscribed
<1>6. QED
  <2>1. \A u \in Threads : adding'[u] # NotAdding => WasCommanded(adding[u].sub, adding[u].timeout)'
    BY <1>1, <1>3 DEF WasCommanded
  <2>2. \A k \in DOMAIN todo' : WasCommanded(todo[k].sub, todo[k].timeout)'
    BY <1>1 DEF WasCommanded
  <2>3. \A r \in Subscribed' :
          \/ WasCommanded(r, subscriptions[r].timeout)'
          \/ \E u \in Threads : IsAdding(u, r)' /\ adding'[u].step = "timeout"
    BY <1>1, <1>4, <1>5 DEF WasCommanded
  <2> HIDE DEF WasCommanded, IsAdding
  <2>4. QED
    BY <2>1, <2>2, <2>3 DEF EntriesInv

(* The next name is added as it was commanded; to the map this is one      *)
(* addition begun.                                                         *)
LEMMA NextAdditionPreserves ==
  ASSUME MapInv, EntriesInv, NextAddition, UNCHANGED taken
  PROVE  /\ EntriesInv'
         /\ \/ UNCHANGED <<now, mapVars>>
            \/ \E th \in Threads, s \in Subs, timeout \in Nat : BeginAdd(th, s, timeout)
<1> DEFINE h == Head(todo)
<1>1. /\ todo # <<>> /\ todo' = Tail(todo) /\ executed' = executed /\ taken' = taken
      /\ IF h.sub \in Subscribed THEN UNCHANGED <<now, mapVars>>
         ELSE BeginAdd("command", h.sub, h.timeout)
  BY DEF NextAddition
<1>2. todo \in Seq([sub : Subs, timeout : Nat])
  BY DEF EntriesInv
<1>3. /\ Head(todo) \in [sub : Subs, timeout : Nat] /\ 1 \in DOMAIN todo /\ Head(todo) = todo[1]
      /\ Tail(todo) \in Seq([sub : Subs, timeout : Nat])
      /\ \A j \in DOMAIN Tail(todo) : j + 1 \in DOMAIN todo /\ Tail(todo)[j] = todo[j + 1]
  BY <1>1, <1>2, TailProps
<1>4. h.sub \in Subs /\ h.timeout \in Nat /\ WasCommanded(h.sub, h.timeout)
  BY <1>3 DEF EntriesInv
<1>5. /\ todo' \in Seq([sub : Subs, timeout : Nat])
      /\ \A k \in DOMAIN todo' : WasCommanded(todo'[k].sub, todo'[k].timeout)
  BY <1>1, <1>3 DEF EntriesInv
<1>6. /\ taken' \in Seq([sub : Subs, timeout : Nat])
      /\ \A k \in DOMAIN taken' : \E j \in DOMAIN Taken : taken'[k] = Taken[j]
  BY <1>1 DEF EntriesInv
<1>7. "command" \in Threads /\ MapTypeOK
  BY DEF Threads, MapInv
<1> HIDE DEF h
<1>8. CASE h.sub \in Subscribed
  <2>1. UNCHANGED <<now, mapVars>>
    BY <1>1, <1>8
  <2>2. EntriesInv'
    BY <1>1, <1>5, <1>6, <2>1 DEF EntriesInv, WasCommanded, mapVars, Subscribed, IsAdding
  <2>3. QED
    BY <2>1, <2>2
<1>9. CASE h.sub \notin Subscribed
  <2>1. BeginAdd("command", h.sub, h.timeout)
    BY <1>1, <1>9
  <2>2. EntriesInv'
    BY <1>1, <1>4, <1>5, <1>6, <1>7, <2>1, BeginAddKeepsEntries
  <2>3. QED
    BY <1>4, <1>7, <2>1, <2>2
<1>10. QED
  BY <1>8, <1>9

(* So is the next name that was left for the subscriber.                   *)
LEMMA NextTakenPreserves ==
  ASSUME MapInv, EntriesInv, NextTaken, UNCHANGED connectionVars
  PROVE  /\ EntriesInv'
         /\ \/ UNCHANGED <<now, mapVars>>
            \/ \E th \in Threads, s \in Subs, timeout \in Nat : BeginAdd(th, s, timeout)
<1> DEFINE h == Head(taken)
<1>1. /\ taken # <<>> /\ taken' = Tail(taken) /\ executed' = executed /\ todo' = todo
      /\ IF h.sub \in Subscribed THEN UNCHANGED <<now, mapVars>>
         ELSE BeginAdd("subscriber", h.sub, h.timeout)
  BY DEF NextTaken, connectionVars
<1>2. taken \in Seq([sub : Subs, timeout : Nat])
  BY DEF EntriesInv
<1>3. /\ Head(taken) \in [sub : Subs, timeout : Nat] /\ 1 \in DOMAIN taken /\ Head(taken) = taken[1]
      /\ Tail(taken) \in Seq([sub : Subs, timeout : Nat])
      /\ \A j \in DOMAIN Tail(taken) : j + 1 \in DOMAIN taken /\ Tail(taken)[j] = taken[j + 1]
  BY <1>1, <1>2, TailProps
<1>4. h.sub \in Subs /\ h.timeout \in Nat /\ WasCommanded(h.sub, h.timeout)
  <2>1. PICK j \in DOMAIN Taken : h = Taken[j]
    BY <1>3 DEF EntriesInv
  <2>2. h \in [sub : Subs, timeout : Nat]
    BY <1>3
  <2>3. h = [sub |-> h.sub, timeout |-> h.timeout]
    BY <2>2
  <2>4. QED
    BY <2>1, <2>2, <2>3 DEF WasCommanded
<1>5. /\ todo' \in Seq([sub : Subs, timeout : Nat])
      /\ \A k \in DOMAIN todo' : WasCommanded(todo'[k].sub, todo'[k].timeout)
  BY <1>1 DEF EntriesInv
<1>6. /\ taken' \in Seq([sub : Subs, timeout : Nat])
      /\ \A k \in DOMAIN taken' : \E j \in DOMAIN Taken : taken'[k] = Taken[j]
  BY <1>1, <1>3 DEF EntriesInv
<1>7. "subscriber" \in Threads /\ MapTypeOK
  BY DEF Threads, MapInv
<1> HIDE DEF h
<1>8. CASE h.sub \in Subscribed
  <2>1. UNCHANGED <<now, mapVars>>
    BY <1>1, <1>8
  <2>2. EntriesInv'
    BY <1>1, <1>5, <1>6, <2>1 DEF EntriesInv, WasCommanded, mapVars, Subscribed, IsAdding
  <2>3. QED
    BY <2>1, <2>2
<1>9. CASE h.sub \notin Subscribed
  <2>1. BeginAdd("subscriber", h.sub, h.timeout)
    BY <1>1, <1>9
  <2>2. EntriesInv'
    BY <1>1, <1>4, <1>5, <1>6, <1>7, <2>1, BeginAddKeepsEntries
  <2>3. QED
    BY <1>4, <1>7, <2>1, <2>2
<1>10. QED
  BY <1>8, <1>9

(* A sweep and a delivery store no timeout: what is in the map stays as    *)
(* commanded.                                                              *)
LEMMA MapStepKeepsEntries ==
  ASSUME MapInv, EntriesInv, UNCHANGED connectionVars, UNCHANGED taken,
         Tick \/ Sweeping \/ \E t \in Types : PushMessageBatch(t)
  PROVE  EntriesInv'
<1>1. UNCHANGED <<executed, todo, taken>>
  BY DEF connectionVars
<1>2. CASE Tick
  BY <1>1, <1>2, ItemsKeepTimeouts DEF Tick, mapVars, Subscribed
<1>3. CASE BeginSweep
  BY <1>1, <1>3, ItemsKeepTimeouts DEF BeginSweep, Subscribed
<1>4. CASE \E s \in Subs : VisitItem(s)
  <2>1. PICK v \in Subs : VisitItem(v)
    BY <1>4
  <2>2. /\ adding' = adding
        /\ \/ subscriptions' = subscriptions
           \/ subscriptions' = [subscriptions EXCEPT ![v].timeoutExpired = TRUE]
    BY <2>1 DEF VisitItem
  <2>3. Subscribed' = Subscribed
    BY <2>2 DEF Subscribed
  <2>4. ASSUME NEW s \in Subscribed PROVE subscriptions'[s].timeout = subscriptions[s].timeout
    <3>1. subscriptions[s] \in SubscriptionData
      BY <2>4 DEF MapInv, MapTypeOK
    <3>2. \/ subscriptions'[s] = subscriptions[s]
          \/ subscriptions'[s] = [subscriptions[s] EXCEPT !.timeoutExpired = TRUE]
      BY <2>2, <2>4 DEF Subscribed
    <3>3. QED
      BY <3>1, <3>2 DEF SubscriptionData
  <2>5. QED
    BY <1>1, <2>2, <2>3, <2>4, ItemsKeepTimeouts
<1>5. CASE EndSweep
  BY <1>1, <1>5, ItemsKeepTimeouts DEF EndSweep, Without, Subscribed
<1>6. CASE \E t \in Types : PushMessageBatch(t)
  <2>1. PICK t \in Types : PushMessageBatch(t)
    BY <1>6
  <2>2. /\ adding' = adding
        /\ subscriptions' = IF t \in Subscribed THEN [subscriptions EXCEPT ![t].lastAction = now]
                            ELSE subscriptions
    BY <2>1 DEF PushMessageBatch, UpdateLastAction
  <2>3. Subscribed' = Subscribed
    BY <2>2 DEF Subscribed
  <2>4. ASSUME NEW s \in Subscribed PROVE subscriptions'[s].timeout = subscriptions[s].timeout
    <3>1. subscriptions[s] \in SubscriptionData
      BY <2>4 DEF MapInv, MapTypeOK
    <3>2. \/ subscriptions'[s] = subscriptions[s]
          \/ subscriptions'[s] = [subscriptions[s] EXCEPT !.lastAction = now]
      BY <2>2, <2>4 DEF Subscribed
    <3>3. QED
      BY <3>1, <3>2 DEF SubscriptionData
  <2>5. QED
    BY <1>1, <2>2, <2>3, <2>4, ItemsKeepTimeouts
<1>7. QED
  BY <1>2, <1>3, <1>4, <1>5, <1>6 DEF Sweeping

-------------------------------------------------------------------------------

(* An accepted command connection, and the map it will add to, satisfy     *)
(* the invariant.                                                          *)
THEOREM InitConnection == Init => ConnectionInv
<1> SUFFICES ASSUME Init PROVE ConnectionInv
  OBVIOUS
<1>1. /\ MapInit /\ event = "ReceiveIntent" /\ read = 0
      /\ intent = <<>> /\ clientName = <<>> /\ command = <<>>
      /\ todo = <<>> /\ acks = 0 /\ executed = <<>> /\ taken = Taken
  BY DEF Init, ConnectionInit
<1>2. MapInv
  BY <1>1, InitMap
<1>3. Len(Handshake) \in Nat /\ Len(Text) \in Nat /\ 0 \in 0 .. Len(Commands) /\ EndOf(0) = Len(Handshake)
  BY TextHandshake, LinesProps, EndOfProps
<1>4. HandshakeInv
  <2>1. <<>> \o <<>> = SubSeq(Text, 1, 0)
    BY SubSeqEmpty
  <2>2. <<>> \in Seq(Characters) /\ Len(<<>>) = 0
    OBVIOUS
  <2>3. NameAsWritten
    BY <1>1 DEF NameAsWritten
  <2>4. QED
    BY <1>1, <1>3, <2>1, <2>2, <2>3 DEF HandshakeInv
<1>5. CommandsInv
  <2>1. Concats(Orders)[0] = <<>>
    BY OrdersProps, LinesProps, ConcatsSteps
  <2>2. SubSeq(Text, EndOf(0) + 1, 0) = <<>>
    BY <1>3, SubSeqEmpty
  <2>3. QED
    BY <1>1, <1>3, <2>1, <2>2 DEF CommandsInv
<1>6. EntriesInv
  <2>1. Subscribed = {} /\ \A th \in Threads : adding[th] = NotAdding
    BY <1>1 DEF MapInit, Subscribed
  <2>2. Taken \in Seq([sub : Subs, timeout : Nat])
    <3>1. Taken \in Seq([sub : Subs, timeout : 0 .. ClockMod - 1])
      BY ConnectionAssumption
    <3>2. [sub : Subs, timeout : 0 .. ClockMod - 1] \subseteq [sub : Subs, timeout : Nat]
      BY ClockAssumption
    <3>3. QED
      <4> DEFINE S == [sub : Subs, timeout : 0 .. ClockMod - 1]
                 U == [sub : Subs, timeout : Nat]
      <4>1. Taken \in Seq(S) /\ S \subseteq U
        BY <3>1, <3>2
      <4> HIDE DEF S, U
      <4>2. Taken \in Seq(U)
        BY <4>1
      <4>3. QED
        BY <4>2 DEF U
  <2>3. QED
    BY <1>1, <2>1, <2>2 DEF EntriesInv
<1>7. QED
  BY <1>2, <1>4, <1>5, <1>6 DEF ConnectionInv

(* Every step is one of the map's, and keeps the rest. *)
LEMMA StepOfConnection ==
  ASSUME ConnectionInv, [Next]_commandVars
  PROVE  [MapNext]_<<now, mapVars>> /\ HandshakeInv' /\ CommandsInv' /\ EntriesInv'
<1>0. MapInv /\ HandshakeInv /\ CommandsInv /\ EntriesInv
  BY DEF ConnectionInv
<1>1. CASE Reading /\ UNCHANGED taken
  <2>1. UNCHANGED <<now, mapVars, taken>>
    BY <1>1 DEF Reading
  <2>2. PICK n \in 1 .. Unread : OnIntentReceived(n) \/ OnReceiveNameComplete(n) \/ OnReceiveDataComplete(n)
    BY <1>1 DEF Reading
  <2>3. CASE OnIntentReceived(n)
    <3>1. UNCHANGED <<executed, todo>>
      BY <2>3 DEF OnIntentReceived
    <3>2. HandshakeInv' /\ CommandsInv'
      BY <1>0, <2>3, IntentReadPreserves
    <3>3. QED
      BY <1>0, <2>1, <3>1, <3>2, ReadingKeepsEntries
  <2>4. CASE OnReceiveNameComplete(n)
    <3>1. UNCHANGED <<executed, todo>>
      BY <2>4 DEF OnReceiveNameComplete
    <3>2. HandshakeInv' /\ CommandsInv'
      BY <1>0, <2>4, NameReadPreserves
    <3>3. QED
      BY <1>0, <2>1, <3>1, <3>2, ReadingKeepsEntries
  <2>5. CASE OnReceiveDataComplete(n)
    <3>1. /\ HandshakeInv' /\ CommandsInv'
          /\ \/ UNCHANGED <<executed, todo>>
             \/ \E accepted \in Seq(OrderSet) : /\ executed' = Cat(executed, accepted)
                                                /\ todo' = Additions(accepted)
      BY <1>0, <2>5, DataReadPreserves
    <3>2. EntriesInv'
      BY <1>0, <2>1, <3>1, ReadingKeepsEntries
    <3>3. QED
      BY <2>1, <3>1, <3>2
  <2>6. QED
    BY <2>2, <2>3, <2>4, <2>5
<1>2. CASE (OnSendAckComplete \/ CommandsDone \/ ConnectionEnds) /\ UNCHANGED <<now, mapVars, taken>>
  <2>1. /\ UNCHANGED <<now, mapVars, taken, read, handshakeVars, command, todo, executed>>
        /\ acks' \in {acks, acks + 1}
        /\ \/ event = "SendAck" /\ event' = "ReceivePublisherData"
           \/ event = "processing" /\ event' = "SendAck"
           \/ event' = "Disconnected"
    BY <1>2 DEF OnSendAckComplete, CommandsDone, ConnectionEnds
  <2>2. acks' \in Nat
    BY <1>0, <2>1 DEF HandshakeInv
  <2>3. HandshakeInv'
    BY <1>0, <2>1, <2>2, HandshakeDone
  <2>4. CommandsInv'
    <3>1. PICK n \in 0 .. Len(Commands) :
            /\ executed = Concats(Orders)[n] /\ command = SubSeq(Text, EndOf(n) + 1, read)
            /\ event \in {"SendAck", "processing"} => read = EndOf(n)
      BY <1>0 DEF CommandsInv
    <3>2. EndOf(n) \in Nat
      BY EndOfProps
    <3>3. /\ event' \notin {"ReceiveIntent", "ReceiveName"}
          /\ event' \in {"SendAck", "processing"} => read' = EndOf(n)
          /\ event' = "ReceivePublisherData" => EndOf(n) <= read'
      BY <2>1, <3>1, <3>2
    <3>4. executed' = Concats(Orders)[n] /\ command' = SubSeq(Text, EndOf(n) + 1, read')
      BY <2>1, <3>1
    <3>5. read' \in 0 .. Len(Text)
      BY <1>0, <2>1 DEF CommandsInv
    <3>6. QED
      BY <3>3, <3>4, <3>5 DEF CommandsInv
  <2>5. EntriesInv'
    BY <1>0, <2>1, ReadingKeepsEntries
  <2>6. QED
    BY <2>1, <2>3, <2>4, <2>5
<1>3. CASE NextAddition /\ UNCHANGED taken
  <2>1. UNCHANGED <<event, read, handshakeVars, command, acks, executed>>
    BY <1>3 DEF NextAddition
  <2>2. HandshakeInv' /\ CommandsInv'
    BY <1>0, <2>1 DEF HandshakeInv, CommandsInv, NameAsWritten, handshakeVars
  <2>3. /\ EntriesInv'
        /\ \/ UNCHANGED <<now, mapVars>>
           \/ \E th \in Threads, s \in Subs, timeout \in Nat : BeginAdd(th, s, timeout)
    BY <1>0, <1>3, NextAdditionPreserves
  <2>4. QED
    BY <2>2, <2>3 DEF MapNext
<1>4. CASE \E th \in Threads : AddingThread(th) /\ UNCHANGED connectionVars /\ UNCHANGED taken
  <2>1. EntriesInv'
    BY <1>0, <1>4, AddingPreservesEntries
  <2>2. QED
    BY <1>0, <1>4, <2>1, NothingRead DEF MapNext
<1>5. CASE NextTaken /\ UNCHANGED connectionVars
  <2>1. /\ EntriesInv'
        /\ \/ UNCHANGED <<now, mapVars>>
           \/ \E th \in Threads, s \in Subs, timeout \in Nat : BeginAdd(th, s, timeout)
    BY <1>0, <1>5, NextTakenPreserves
  <2>2. QED
    BY <1>0, <1>5, <2>1, NothingRead DEF MapNext
<1>6. CASE /\ Tick \/ Sweeping \/ \E t \in Types : PushMessageBatch(t)
           /\ UNCHANGED connectionVars /\ UNCHANGED taken
  <2>1. EntriesInv'
    BY <1>0, <1>6, MapStepKeepsEntries
  <2>2. QED
    BY <1>0, <1>6, <2>1, NothingRead DEF MapNext
<1>7. CASE UNCHANGED commandVars
  <2>1. UNCHANGED <<now, mapVars, taken>> /\ UNCHANGED connectionVars /\ UNCHANGED <<executed, todo>>
    BY <1>7 DEF commandVars, connectionVars
  <2>2. QED
    BY <1>0, <2>1, NothingRead, ReadingKeepsEntries
<1>8. QED
  <2>1. CASE CommandThread /\ UNCHANGED taken
    BY <1>2, <1>3, <1>4, <2>1 DEF CommandThread, Threads
  <2>2. CASE SubscriberThread /\ UNCHANGED connectionVars
    BY <1>4, <1>5, <1>6, <2>2 DEF SubscriberThread, Threads
  <2>3. CASE Delivery /\ UNCHANGED connectionVars
    BY <1>6, <2>3 DEF Delivery
  <2>4. CASE ConnectionEnds /\ UNCHANGED <<now, mapVars, taken>>
    BY <1>2, <2>4
  <2>5. CASE Tick /\ UNCHANGED <<connectionVars, taken>>
    BY <1>6, <2>5 DEF connectionVars
  <2>6. QED
    BY <1>1, <1>7, <2>1, <2>2, <2>3, <2>4, <2>5 DEF Next

(* The invariant of the connection and the map it adds to.                 *)
THEOREM ConnectionInvariant == Spec => []ConnectionInv
<1>1. ConnectionInv /\ [Next]_commandVars => ConnectionInv'
  BY StepOfConnection, NextMap DEF ConnectionInv
<1>2. QED
  BY <1>1, InitConnection, PTL DEF Spec

(* The connection and the subscriber thread do to the map what the two     *)
(* threads may do, whatever they add.                                      *)
THEOREM ConnectionUsesMap == Spec => MapSpec
<1>1. Init => MapInit
  BY DEF Init
<1>2. ConnectionInv /\ [Next]_commandVars => [MapNext]_<<now, mapVars>>
  BY StepOfConnection
<1>3. QED
  BY <1>1, <1>2, ConnectionInvariant, PTL DEF Spec, MapSpec

(* However io_uring cuts the reads, processCommand carries the commands    *)
(* out as they were written, in order, none twice.                         *)
THEOREM CommandsAreReadAsWritten == Spec => []CommandsAsWritten
<1>1. ConnectionInv => CommandsAsWritten
  BY CommandsFollow DEF ConnectionInv
<1>2. QED
  BY <1>1, ConnectionInvariant, PTL

(* The intent and the name of the connection are what the peer wrote, but  *)
(* for the character a second read of the intent takes from the name.      *)
THEOREM NameIsReadAsWritten == Spec => []NameAsWritten
<1>1. ConnectionInv => NameAsWritten
  BY DEF ConnectionInv, HandshakeInv
<1>2. QED
  BY <1>1, ConnectionInvariant, PTL

(* Each item of subscriptions that neither thread is storing into holds a  *)
(* timeout that some command gave for it, or that it was taken with from   *)
(* the pending ones, whatever the sweeps that met it half stored and the   *)
(* other thread's addition of the same name did.                           *)
THEOREM EntriesComeFromCommands == Spec => []EntriesWereCommanded
<1>1. ConnectionInv => EntriesWereCommanded
  <2> SUFFICES ASSUME ConnectionInv, NEW s \in Subscribed,
                      \A th \in Threads : ~IsAdding(th, s)
               PROVE  /\ WasCommanded(s, subscriptions[s].timeout)
                      /\ ~subscriptions[s].timeoutExpired \/ sweep.step = "visit"
    BY DEF EntriesWereCommanded
  <2>1. WasCommanded(s, subscriptions[s].timeout)
    BY DEF ConnectionInv, EntriesInv
  <2>2. ~subscriptions[s].timeoutExpired \/ sweep.step = "visit"
    BY DEF ConnectionInv, MapInv, ItemInv
  <2>3. QED
    BY <2>1, <2>2
<1>2. QED
  BY <1>1, ConnectionInvariant, PTL

(* RemovedWereIdle of the subscriptions that a connection adds and of      *)
(* those that the subscriber thread has taken.                             *)
THEOREM ConnectionRemovesIdle == Spec => RemovedWereIdle
BY ConnectionUsesMap, IdleOnlyAreRemoved
===============================================================================
