# TLA+ models of the GazelleMQ server

GazelleMQ is a publish/subscribe server. Publishers connect to one port and
write messages `type|length|content`; subscribers connect to another and read
the messages of the types they are subscribed to; a third port takes commands
`name|subscribe|types|timeout` that subscribe a subscriber by its name. Each
port has a thread of its own, driven by the completions of an io_uring; the
three meet in a queue of message batches, in the list of subscribers and in a
list of subscriptions for subscribers that are not there yet. Nothing is stored
on disk.

## Inventory

| Component | State | Operations | Correct when |
|---|---|---|---|
| `MessageQueue` | ring of batches, `hasPendingData`, `mQueue`/`cvQueue` | `push_back`, `try_pop` | every batch pushed is announced and popped once, in order |
| `MPMCQueue` (lib) | ring of slots with turn counters, head, tail | `push`, `try_pop` | linearizable bounded FIFO |
| `MessageBatch` | type, buffer, `maxLength`, `bufferLength`, `bufferPosition` | `append`, `copy`, `advance`, `clearForNextMessage`, moves | accesses inside the buffer; no message of a foreign type; bounded |
| `PubSubHandler` | `event`, `intent`, `clientName`, `isDisconnected`, descriptor | `begin...` (submit one request), `on...` (run on a completion) | no completion is taken for another request's; handshakes end |
| `TCPSubscriberHandler` | `subscriptions`, `currentItem`, `pendingItems` | `pushMessageBatch`, send completion, `handleTimeout`, `addSubscriptions`, `updateLastAction` | whole batches, in order, once; what is owed is sent; a subscription ends when it was idle too long, and only then |
| `SubscriberServer`, `BaseServer` | `clients`, listener | the event loop, `allIdle`, `drainQueue`, accept | a batch is handed out, and to exactly the connected subscribers of its type |
| `ServerContext` | pending subscriptions | add, take | no subscription is lost or left behind |
| `CommandHandler`, `CommandServer` | the command being read | `processCommand`, `addSubscription` | commands are carried out as written, whatever reads they come in; a subscriber gets what a command gave its name, whether it is connected or not |
| `TCPPublisherHandler`, `PublisherServer` | parser state, `currentBatch` | `forwardMessage` on each read | every message written is parsed as written, batched in order and pushed |
| `main` | `isRunning`, latch | start, signals, shutdown | threads end before what they use is destroyed; a signal ends the program |
| `StringUtils`, `TimeUtils` | - | `split`, `nowToLong` | what was joined is split as written |
| `WSSubscriberHandler`, `WebResponseParser`, `WSPublisherHandler` | - | - | not part of the program: nothing `main.cpp` includes uses them |

How they interact: a publisher's handler pushes to the queue from the publisher
thread; the subscriber thread waits for `hasPendingData`, pops batches and
fans each out to its handlers, which submit sends; the command thread copies
the list of clients and writes into their `subscriptions`, or into
`ServerContext`, from which a subscriber takes what is its own when its
handshake ends. Only `MessageQueue` is locked. `main` starts the three threads, waits on
a latch that a signal opens, and destroys the servers in the reverse order; each
destructor joins its thread last.

What is hard: the queue's announcement against the end of a drain; completions
that carry a result only and are interpreted by the handler's `event`; partial
sends, failed sends and closes while batches keep coming; a thread that
delivers only while every handler is idle; two threads that add to the pending
list and to the map of subscriptions; reads that cut messages and
commands anywhere; the sizes of buffers; the lock-free ring; destructors that
run while the threads still do.
`PROJECT.json` lists these hazards at their lines, with the properties that
would show each of them going wrong.

## Modules

| Module | Models | Notes |
|---|---|---|
| `MessageQueue` | `MessageQueue.hpp` | `push_back` is `Push`, then `Announce` (the critical section); the ring is a FIFO with `Capacity` slots |
| `PubSubHandler` | `PubSubHandler.hpp` | one action operator per `begin...`/`on...` function; `sq`/`cq` hold the requests and completions of each handler; `Outcomes` is what the kernel may answer |
| `SubscriberHandler` | `TCPSubscriberHandler.hpp`, `ServerContext.hpp` | extends both; `wire` records what the kernel accepted |
| `SubscriberServer` | `SubscriberServer.hpp`, `BaseServer.hpp` | `pc` is the place in `doEventLoop`: poll, expire, wait, drain, clear; `take` is inside `takePendingSubscriptions` |
| `CommandHandler` | `CommandHandler.hpp` | one `addSubscription` is `CommandReceived`, a `VisitClient` for each client of the copy, `FinishScan` |
| `Broker` | the program | composes the threads and the kernel; states the properties |
| `PubSub` | - | abstract: a batch popped is owed, whole, to exactly the connected clients subscribed to its type, and what is owed arrives in order |
| `MessageBatch`, `BatchBuffers` | `MessageBatch.hpp`, its uses | the batches again, now as buffers with sizes: a publisher's `currentBatch`, the queue, one subscriber's `currentItem` and `pendingItems` |
| `PublisherHandler` | `TCPPublisherHandler.hpp` | extends `BatchBuffers` by the parser: reads, and one action per parse state |
| `Mpmc` | `MPMCQueue.hpp` | the ring under `MessageQueue`, for any number of threads: one action per access to `head_`, `tail_`, a turn or a slot's storage; `ticket` is the local `head` or `tail` |
| `Fifo` | - | abstract: a push takes the next place, values become takeable without gaps, `try_pop` takes the first or has seen none |
| `Subscriptions` | the map of `TCPSubscriberHandler.hpp`, `TimeUtils.hpp` | one subscriber's `subscriptions` and the clock, an item of a sweep or a store of an addition at a time; `adding` has the addition each of the two `Threads` is in |
| `StringUtils` | `StringUtils.hpp` | `split`, turn by turn of its loop, and what a peer writes for it: parts with a delimiter behind or between them |
| `CommandConnection` | `CommandHandler.hpp`, the handshake of `PubSubHandler.hpp` | extends `Subscriptions` by a command connection, character by character; `Commands` is what the peer writes, commands of any number of fields, in batches that end at `BatchEnds`; `Taken` is what `takePendingSubscriptions` returns to the subscriber, which its thread adds (`NextTaken`) |
| `Lifecycle` | `main.cpp`, `BaseServer.hpp`, the loops of the three servers | construction, signals, latch, destructors and joins; of the rest of the program, who touches which client and who waits for whom |
| `MCBroker`, `MCBatchBuffers`, `MCPublisher`, `MCMpmc`, `MCCommandConnection` | - | values of constants for TLC |
| `SeqLemmas`, `BrokerProofs`, `DeliveryProofs`, `BufferProofs`, `PublisherProofs`, `MpmcProofs`, `SubscriptionsProofs`, `LifecycleProofs` | - | theorems: `SeqLemmas` about sequences and `StringUtils`, `SubscriptionsProofs` also about `CommandConnection` |

`Broker` and `PublisherHandler` meet in the batch. `Broker` publishes batches of
any type and of any length above 0; that batches have content is the theorem
`NoEmptyBatch` about the buffers `PublisherHandler` fills (it refines
`BatchBuffers`, checked by the run `Publisher` and proved as
`PublisherFillsBuffers`).

`MessageQueue` takes the ring for a FIFO of `Capacity` places. That is `Mpmc`
with one producer, the publisher thread, and one consumer, the subscriber thread:
there a push has its value ready when it returns, and a `try_pop` that answers
FALSE found nothing pushed. With more producers the ring promises less, as
`Fifo` says: a push that is late hides those behind it.

`CommandHandler` and `CommandConnection` divide a command between them: the first
has the clients a command visits, the pending list and the connections that come
and go meanwhile, the second the characters, the reads, and the map of one
subscriber, to which his own thread adds what was left for him. `SubscriberHandler` lets a subscription with a timeout
expire at any `handleTimeouts`; `Subscriptions` says when it does.

### What a step is

- A completion is handled in one step, with all the handler does: the thread
  runs it without a pause, and what other threads see of it is at most one
  variable. The exception is `takePendingSubscriptions`, two loops over a list
  the command thread writes to: it is `OnSendAckComplete` and `FinishTake`.
- The fan-out of one batch to all clients is one step. A subscription the
  command thread adds in between is as if added before or after.
- `wait_for` with its predicate and the unlock are one step. Both critical
  sections of `mQueue` are one step each.
- io_uring: a request completes at any time after it was submitted, whatever was
  submitted before. A handler's completions are reaped in the order they were
  made; those of different handlers in any order, which allows more than the
  one completion queue does.
- The data races on `subscriptions`, `clients`, `clientName` and the pending
  list are undefined behaviour; the models make each access atomic, and show
  what goes wrong even so.
- Time: in `Broker` a subscription with a timeout may have expired at any
  `handleTimeouts`. In `Subscriptions` the clock advances at any moment up to
  `MaxNow`; the unsigned difference of `handleTimeout` is taken modulo `ClockMod`.
  `subscriptions[value] = SubscriptionData{...}` is the reading of the clock, the
  insertion of an item of zeroes, and three stores, each a step of its own, for
  the command thread and, when its subscriber has been acknowledged, for the
  subscriber thread: both may be in an addition of the same name. The subscriber
  thread does not sweep or deliver during its own.
- `CommandHandler` reads no characters: a command is a name and a subscription,
  any of them at any time, and may be given again.
- `pendingSubscriptions` is a set: order and copies are left out.
- A send takes from 1 byte to all of them, or fails; a `recv` in the handshake
  fails, ends (0), returns -EAGAIN or returns 1 to 2 characters, or the next
  part of the name; `NameReads` gives the values `clientName` takes.
- A closed descriptor fails every request. That the kernel may give its number
  to another connection is not modelled. `NoSendOnClosedSocket` says that no send
  of a client that gave its whole name could meet it. One whose connection failed
  inside its name, and that was subscribed under the part that had come, is sent
  to on a closed descriptor, in the model as in the code.
- `Mpmc` interleaves as if memory were sequentially consistent; what the code
  orders by release and acquire is then ordered. The spinning of `push` is its
  waiting for the turn. `head_` and `tail_` do not wrap.
- `CommandConnection`: the peer writes its intent and name, then a batch of
  commands after each acknowledgement, as the code asks; a read returns any
  number of characters from one to what was written. Characters are model values
  and digits. A timeout is read as `std::stoull` reads it: leading blanks, a sign,
  a negative number taken modulo `ClockMod`, 0 when it throws. The failures of the handshake are `PubSubHandler`'s.
- `Lifecycle`: a touch of a deleted client, a walk over a vector a destructor is
  emptying, or a virtual call on a server whose destructor has begun (a destroyed
  `createHandlerFn` included) is undefined behaviour. The step records it in
  `late`, as the thread and the server it touched, and goes on. The signal handler
  is its two statements, in whatever thread.
- A client name is not empty. (One that is would equal that of the husks
  `takePendingSubscriptions` leaves, and erase them.)
- A handshake of the publisher and command servers is `PubSubHandler`'s and
  touches nothing shared: commands and publishers start after it.
- `PublisherHandler`: all the publisher ever writes is in `stream` from the
  start, so a read may return any number of characters, up to `MAX_READ_BUF`.
  A length is any numeral, with leading zeroes or without; in the run numerals
  have base 2 and up to 2 digits instead of base 10. Types hold no bar and
  may be empty, lengths are numerals; the queue is not drained there, but in
  `BatchBuffers`. Messages stand for the bytes of a buffer, while the sizes are
  those of the code.

## Runs

| Run | Instance | Shows |
|---|---|---|
| `Delivery` | 1 subscriber, 3 batches of 1 or 2 bytes, queue of 2, all faults, 2 commands, 1 timed subscription | `TypeOK`, `OneRequest`, `SendReadsCurrentItem`, `BacklogHasSender`, `NoSendOnClosedSocket`, `WireInOrder`, `ImplementsPubSub` (refinement of `PubSub`) |
| `FanOut` | 2 subscribers, one with the name of the other in the middle of its own, errors and ends, 1 batch, 1 command | `SubscriptionWasCommanded`, `DisconnectedIsSilent`, `ImplementsPubSub`, and `DeliveryInv`, the inductive invariant of the proofs |
| `Liveness` | 1 subscriber whose name comes in two reads, 2 batches, all faults, 1 command, `FairSpec` | `DrainedUnlessStalled`, `OwedIsSent`, `HandshakeEnds` |
| `Buffers` | sizes 2, 3 and 7, limit 6, 2 types and the empty one, 4 messages, 2 batches waiting | `AllFit`, `NoForeignMessages`, `QueuedHaveContent`, `BatchesAreBounded`, and `BufferInv`, the inductive invariant |
| `Publisher` | up to 3 messages of 2 types and the empty one, contents without characters, with bars, with a length of 2 digits, with one that begins with 0; limit 9 | `ParsedAsWritten`, `ReadIsParsed`, `HeldOnlyInsideMessage`, `BatchedInOrder`, `BufferSpec` (refinement of `BatchBuffers`) |
| `Mpmc` | ring of 2 slots, 2 pushing and 2 popping threads, 5 pushes of 2 values, `FairMpmcSpec` | `NoTwoInSlot`, `TakenAsPushed`, `SlotLifetimes`, `PushEnds`, `IsFifo` (refinement of `Fifo`), and `MpmcInv`, the inductive invariant |
| `Commands` | name of 2 characters, an intent whose last character is the separator, 2 batches with 3 commands (two names, the timeout with a blank and a minus; a field missing; a separator too many and a timeout out of range), one subscription left for the subscriber, under a name that is commanded too, 3 moments of the clock | `CommandsAsWritten`, `NameAsWritten`, `CommandsAreExecuted`, `RemovedWereIdle`, `OverdueIsRemoved`, `EntriesWereCommanded` |
| `Shutdown` | 1 client for each server, ring of 1, 2 batches in a read, 2 signals | `LateTouchesAreOwn`, `NoCycleWhileDestroying`, `ShutdownEnds`, and `ShutdownInv`, the inductive invariant |

Why the bounds are enough: three batches are one being sent and two behind it,
so a backlog is entered, passed on and emptied; batches of 1 and 2 bytes are sent
whole or in parts; a queue of 2 is full while a third batch waits. In `Liveness` one
client is enough to stall, and to be sent to. Two
subscribers are one that holds the gate and one that waits for it, and a name in
two parts is one a command can meet half-read. In `Buffers`, 3 + 3 is exactly
the limit, 7 passes it and the rounding, and 4 messages fill, end and reuse a
batch. The empty type comes before, between
and behind others. In `Publisher` three messages make a batch, its end by a change of type
or by the limit, and one after it. In `Mpmc` 5 pushes go round 2 slots twice and
once more, so the slot of a push may be inside the pop of two rounds before, and
two threads of each kind race for a ticket. In `Commands` one name is a beginning
of the other, so a type may match by prefix, or exactly, or both; a timeout of 1
within 3 moments is missed, met and refreshed; one name is added by both threads,
with different timeouts. In `Shutdown` a ring of 1 is full
after the first push of a read; a client is enough to be deleted under its
thread or another's; 2 signals are one that opens the latch and one that passes
it. The proofs have no such bounds.

Runs that are expected to fail, each against a sentence of the code
(`PROJECT.json`, "findings", quotes it):

| Run | Property | What the code does |
|---|---|---|
| `LostWakeup` | `PublishedIsForwarded` | a batch pushed between the last `try_pop` of a drain and the clearing of `hasPendingData` is announced to nobody, until the next one |
| `HalfOpen` | `AnnouncedIsDrained` | a peer that closes inside its handshake (a read of 0 bytes) leaves a handler that is never idle: what is announced is handed out to nobody any more |
| `LostSubscription` | `AckedSubscriptionIsKept` | an entry added between its two loops is erased, and given to nobody |
| `RefusedMessage` | `EveryMessageIsBatched` | `append` refuses at the length at which `isFull` is not yet true, and its result is ignored |

The models also contain, without a run of its own:

- a subscriber that connects while a command looks for it misses the
  subscription, which stays in the pending list (`VisitClient`, `FinishScan`);
- the entries `takePendingSubscriptions` moved out of stay in the list, without
  a name (`MovedFrom`), for it compares names it has moved;
- whole messages read together with the beginning of another are lost when the
  connection then ends (`HeldOnlyInsideMessage` says they are held there only);
- an intent that arrives in two reads takes the first character of the name
  (`NameAsWritten` allows an intent of three characters);
- a command for a name that is the beginning of a name that is still being read
  subscribes the wrong client (`NameReads`; `SubscriptionWasCommanded` admits it);
- a batch delivered while its subscription is being added has its time
  overwritten by the older one of the addition, and the subscription may be
  removed before its timeout (`setBack`, which `RemovedWereIdle` excepts); one that
  is added during a sweep may be removed at once (`fresh`); one that is added again
  shortly before it expires is not prolonged (`NextAddition`);
- messages of the empty type do not keep a batch to themselves: it counts as
  unlabelled, takes the type of the message that follows, with which they are then
  sent, and is not ended by `isFull`, so `append` may drop messages of it
  (`EndsBatch`; `NoForeignMessages` says that no others are mixed);
- at the shutdown: deleted clients may still be handled by their own thread, for
  the rest of its cycle (`late`); a second signal before `main` has seen the latch
  at zero leaves it waiting (`MissedLatch`); a push on a full ring spins for ever
  once the subscriber thread has ended (`SpinsForever`). `ShutdownEnds` says that
  these two are the only ways not to end.

### Fairness

`FairSpec` has weak fairness of the subscriber thread (the operating system
schedules it; each of its waits ends after a second), of `Announce` (a
`push_back` that began is finished) and of the kernel's steps for each client (a
request is answered), and strong fairness of reaping each client's completions:
the thread returns to polling again and again, and the completion queue is
first in, first out, so a completion is not passed over for ever. Nothing is
assumed of publishers, commands or new connections. Fairness of the kernel
leaves out peers that are silent or read nothing for ever, which the program does
not guard against: with one of them `allIdle` stays false.

A request may still be answered in a way the handler does not continue from: a
read of 0 bytes in the handshake, or -EAGAIN, which `eventLoop` skips
(`LeavesNothing`). `OwedIsSent` and `HandshakeEnds` start where a request is
outstanding and except that answer, and `DrainedUnlessStalled` excepts a client
that such an answer has left without a request (`Stalled`). It leaves out the one
step, `pc = "clear"`, in which a batch can miss its announcement: that is the run
`LostWakeup`. `HalfOpen` is the same statement without the exception for
a stalled client, and fails.

`FairMpmcSpec`: a call of `push` or `try_pop` that was begun is gone on with; none
need be begun, for the only consumer, `drainQueue`, may never be called again.
`PushEnds` so speaks of a push whose slot some pop has claimed, or that needs none:
it ends without another pop. `CommandConnection`: what was
written is read, the command thread and the subscriber thread go on, and time passes to its
bound; batches need not come. (The reads are the steps that advance `read`: the
same action as `Reading`, named by a formula whose ENABLED is cheap.) `Lifecycle`:
`main` and the threads are scheduled, each by a weak fairness of its own, and a
handler that was entered returns; signals need not come, and a thread may find
its waits timed out for ever.

`CHECK_DEADLOCK FALSE` stands in the configurations of `BatchBuffers`,
`PublisherHandler`, `CommandConnection` and `Lifecycle`, which stop at their
bounds, with the connection or with the program.

## Proofs

All proofs are checked by `tlapm` without omissions, for all values of the
constants under the named assumptions of the modules (`QueueAssumption`,
`HandlerAssumption`, `SubscriberAssumption`, `ServerAssumption`,
`CommandAssumption`, `BatchAssumption`, `SizesAssumption`, `MpmcAssumption`,
`ClockAssumption`, `LifecycleAssumption`, `PublisherAssumption`,
`ConnectionAssumption`, `NamesAssumption`), which only give the constants their
types: bounds are natural numbers, batches and rings have a positive length, a
name arrives in at least one read, a subscription is not the empty one, a bar is
no digit and in no type, no thread both pushes and pops, the clock and the timeouts
of `Taken` stay within their width. The types of messages are any, the empty one
included. Of a command connection they say that the intent has two characters,
that the name holds no separator of commands and the fields no separator of commands
or of fields (else they would be other commands and fields), that each command has
a field, and that the names it subscribes to are among `Subs`.

`BrokerProofs`. The properties are not inductive: that a handler has one request
only depends on the gate, on what `event` says of its batches and on which
requests a send may meet. `IInv` (in `Broker`) adds, for each client, how far the
name is by how far the handshake is (`NameInv`), what `event` says of content,
descriptor and kinds of requests (`EventInv`), that the only request is the one
`event` stands for (`RequestInv`), that there is at most one send and it is of
`currentItem`, and took no more than there was (`SendInv`), that a backlog stands
behind content (`BacklogInv`); and that no handshake is under way while the
thread waits or drains (`GateInv`). It allows one exception, which the code has: a
client whose connection failed before its name was complete may be subscribed
under the part that came, is then sent to while it is being closed, and has two
requests outstanding. `InitIInv` and `NextIInv` show that it is inductive, the
latter from one lemma per thread (`PublisherStep`, `CommandStep`,
`QuietThreadStep`, `AcceptStep`, `PollClientStep`, `FanOutStep`,
`KernelStepIInv`), `PollClientStep` from one per kind of completion. From
`InductiveInvariant` follow `TypeCorrect`, `CompletionsAreUnderstood`,
`BuffersStayInPlace`, `BacklogIsAttended`, `ClosedSocketsAreLeftAlone`,
`GateHolds`, and for the action property `ClosedHandlersAreSilent`.
`SubscriptionsComeFromCommands` needs what a command, a pending entry and a name
being read know of each other (`CommandedInv`), and the same exception: it is
about what had been read of a name at some moment, not about whole names.

`DeliveryProofs`. `WireInOrder` relates what the kernel accepted to the queue, by
way of `currentItem`, `pendingItems` and the result of a send nobody has reaped
yet. `DeliveryInv` adds to `IInv`, and to `CommandedInv`, that bytes the kernel took
are accounted for by the handler they belong to, whatever other completions it is
given before (`TakenInv`), and that the bytes received, the batches owed and the
queue are, in this order, in the order of publication (`OrderInv`).
`DeliveryInvariant` says that it is inductive, with one lemma for each step that
moves a batch or a byte. From it follow `BatchesArriveInOrder` and
`ServerKeepsItsPromise`: under the mapping of `Broker` each step of the handlers,
the threads and the kernel is a step of `PubSub` or changes nothing of it, for any
number of subscribers and batches.

`BufferProofs`. `BufferInv` adds that a buffer not being sent is read from its
start, and that one with a label has content. What it says of types allows for
the empty one (`OfItsType`): the messages of a batch are of its type or of none. It is kept by one lemma per action over lemmas about the operators
of `MessageBatch` (`GrowProps`, `AppendToProps`, `CopyIntoProps`,
`AdvanceProps`, ...). From `BufferInvariant` follow `BuffersAreInBounds`,
`BatchesKeepTheirType`, `NoEmptyBatch` and `BatchesStayBounded`, for messages
and sends of any size and any limits.

`PublisherProofs`. The parser is right about one character because it was right
about all before it, so the invariant speaks of the position in the text:
`Position` is what was read and parsed, `Start(n)` where message n + 1 begins.
`PublisherInv` says that what is still to be read or parsed is the text from
there on (`ReadInv`), that the parser is inside message `parsed + 1` with exactly
what of its type, length or content lies before the position (`InType`,
`InLength`, `InContent` in `ParserInv`), and that a batch is held only inside a
message (`HeldInv`). `TextOf` is a recursive function; that it is what its
definition says (`TextIsRecursive`), and from it where the messages lie in the
text (`Layout`), is proved by induction over sets of numbers
(`LeastNatural`, `NatSetInduction` in `SeqLemmas`, from the well-foundedness of
the numbers), which needs no operator as a parameter. There is one lemma for each kind of
step (`ReadStep`, `EndReadStep`, `TypeStep`, `LengthStep`, `PartStep`,
`CompleteStep`), then `PublisherInvariant`, and from it
`MessagesAreParsedAsWritten`, `ReadsAreParsed`, `MessagesAreBatchedInOrder` and
`BatchesAreNotHeldBack`, for any types without bars, any contents, any base and any
cut into reads. `StoUL` stays what it is: messages are written so that it
reads the length of their content. `PublisherFillsBuffers` is the refinement of `BatchBuffers`, when the bounds
of that module admit the messages of this one (`WithinBounds`, which the run `Publisher` meets).

`MpmcProofs`. That two threads are never inside one slot is a fact about
tickets: two different tickets of one slot belong to different rounds, and the
turn of the slot is of one round. `MpmcInv` says which tickets were filled or are
being written (`HeadInv`: exactly those below `head`) and which were emptied or
are being read (`TailInv`: exactly those below `tail`), that no ticket has two
threads (`OneEach`), what a thread inside a slot knows of its turn
(`ProducerInv`, `ConsumerInv`) and that a filled slot holds what its ticket
pushed (`StorageInv`). Most of the work is the arithmetic of tickets:
`SameTicket`, `FillsOne` and `EmptiesOne` show that advancing a turn fills or
empties one ticket only. One lemma per action, then `RingInvariant`,
`SlotsAreExclusive` and `ValuesArrive`, for any capacity and any threads.
`ObjectsLiveOnce` needs one fact more (`LifetimeInv`): a slot holds an object while
it is being published, and while its turn is odd unless it is being released.
`RingIsFifo` is the refinement of `Fifo`: a turn says of the ticket of its round
whether its value can be taken (`ReadyInv`), and the tickets without a gap from
the first are what `Fifo` may give out.

`SubscriptionsProofs`. `RemovedWereIdle` is about a step of `EndSweep`, but what it
removes was marked at an earlier step, of which the map has kept a bit only.
`MapInv` (in `Subscriptions`) says what a mark still means (`ItemInv`: the name is
idle for longer than its timeout, it was added during the sweep, or its time was
set back) and that an item has the time it was last added or delivered at unless an
addition has still to store it or has stored its own, older one; that no time is
ahead of the sweep's clock but that of a name added meanwhile (`TimesInv`, so the
difference does not wrap for any other), and that a name that is being added during a
sweep is such a name, and added by the command thread (`AddingInv`). `active`, which
idleness is measured by, is the time of the last addition or delivery, whatever the
program has stored; what the program does wrong about it is in the two exceptions,
`fresh` and `setBack`, and TLC finds a counterexample without either. From
`MapInvariant` follows `IdleOnlyAreRemoved`, for any names, timeouts and clock. Both
are stated for `MapSpec`, in which either thread may add any name with any
timeout at any time.

The second half of `SubscriptionsProofs` is about `CommandConnection`. Its
properties speak of what was carried out; why that is right depends on where in
the text the connection stands, so `ConnectionInv` says: up to the end of the name,
intent and name are what was read (`HandshakeInv`); later there is a number n of
commands such that those carried out are the orders of the first n, `command` is
the text from the end of the n-th (`EndOf(n)`) to what was read, and nothing of it is
left when a request for an acknowledgement is under way (`CommandsInv`); what is still to be
added, is being added or is in the map was commanded or left for the subscriber, but
for an item whose timeout some addition has still to store (`EntriesInv`); and
`MapInv`.
The step that matters is a read whose last character is the separator. Behind the
handshake a separator is at the end of a command and nowhere else
(`CrEndsCommand`), so the text kept is the commands n + 1 to some m, each with the
separator behind it (`TextBetween`); without the last separator it is their join,
and `split` gives them back, then the fields of each, with one exception: a last
part that is empty is lost. That is `SplitOfJoin` (in `SeqLemmas`), and the reason
for `Meant`. What one read carries out so continues what was carried out before
(`AcceptedContinues`). The recursions are functions; that they exist and what they
give for a text of any length is again induction over sets of numbers
(`CollectedSteps`, `ConcatsSteps`). From `ConnectionInvariant` follow
`CommandsAreReadAsWritten`, `NameIsReadAsWritten` and `EntriesComeFromCommands`, for
any commands and any cut into reads, and `ConnectionUsesMap`: with whatever numbers
it reads the connection, and the subscriber thread beside it, do to the map only what
`MapSpec` allows, so `ConnectionRemovesIdle`.

`LifecycleProofs`. `ShutdownInv` adds to the two properties that scopes are
nested (`ScopeInv`), that the latch counts the handlers that have returned and that `main`
passes it only after the flag was cleared (`SignalInv`), and that the clients
of a server are there until its own destructor runs (`DeletedInv`). A command is
safe because the command server exists only while all of them do
(`CommandSeesAll`). From `ShutdownInvariant` follow `CommandsFindSubscribers`,
`ThreadsAreJoined` and, for the action property, `LastCycles`.

Only model-checked: liveness (fairness and ENABLED are outside TLAPS), that is
`DrainedUnlessStalled`, `OwedIsSent`, `HandshakeEnds`, `PushEnds`, `OverdueIsRemoved`,
`CommandsAreExecuted` and `ShutdownEnds`; and `Stoull` is neither proved nor
checked to read the number its digits make, for `CommandsAsWritten` uses it on both
sides: the proofs need only that it returns a number. `PublisherInv` and `ConnectionInv` are the
inductive invariants that are not among the properties of a run, as most of their
parts are there under their own names; TLC finds them true in the instances of
`Publisher` and `Commands`, when they are added there. The other inductive invariants
(`DeliveryInv`, which holds `IInv`, `BufferInv`, `MpmcInv`, `ShutdownInv`) are
properties of their runs.

## Not modelled

- `pop`, `try_emplace`, `size` and the allocator of `MPMCQueue`, which the program
  does not call or which has no state of its own; `removeDisconnectedClients`,
  whose body is a comment.
- What a data race may do beyond the order of the accesses: to the nodes of
  `subscriptions`, to the vector `getClients` copies, to a string being compared.
- `std::stoul` on a length that is not a number: the exception is not caught and
  the program ends.
- The exits on errors of `socket`, `bind`, `listen` and of the ring; allocation
  failure. (A wait that a signal interrupts is no error: -EINTR is what the loops
  compare with, as -SIGILL, and they go on.)
- The WebSocket files and their parser (`WSSubscriberHandler`,
  `WSPublisherHandler`, `WebResponseParser`, `HttpHeaderValue`): nothing the
  program includes uses them, so no state of the program depends on them.
- `compare` and `hasPrefix`, which nothing calls; identifiers of objects, which are
  only printed.

## Plan

1. `Broker` with `PublisherHandler` for its publisher thread.
2. An unbounded publisher: a drain that never ends keeps new connections waiting.
3. Proofs about the composition of 1: `DeliveryInvariant` with batches that come
   from `PublisherHandler`.
4. `WebResponseParser`, against a reference definition, if the program ever
   uses it.
