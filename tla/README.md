# serialmux: a TLA+ verification project

The serial multiplexer connects one Dust Networks Manager ("Picard"), attached to a
serial port, with any number of TCP clients. Clients authenticate, send commands, and
subscribe to notifications; the mux sends one command at a time to the Manager,
retries it, routes the response back, and hands notifications to the clients that
subscribed to them. This directory holds TLA+ models of the parts that carry that
logic, the TLC runs that check them, and TLAPS proofs of their safety properties.

## 1. The system

### Components, their state and operations

| component | source (`src/serial_mux/` unless noted) | state | operations |
|---|---|---|---|
| client manager | `BoostClientManager.*` | client list, command queue, command in progress with result and sequence number, union of the filters and its previous value | addClient, addCommand, removeClient, commandLoop, commandComplete, handleNotif, recomputeSubscribeFilter, closeClients, stop |
| subscriber, filters | `Subscriber.*`, `Common.*` | filter in force and filter of the current transaction | setSubscription, commitFilter, resetFilter, isSubscribed, filter/payload conversions |
| Manager link | `BasePicard.*` | connected, protocol version, own and Manager's sequence number | threadMain, sendHello, sendCommand, sendAck, frameComplete, waitForHello, reset |
| serial and UDP input/output | `PicardBoost.*` | completion flag and length of the asynchronous read | sendRaw, read, handleRead |
| HDLC framing | `HDLC.*` | parser state, buffer, running checksum | encodeHDLC, addByte |
| client connection | `BoostClient.*` | initialisation state, socket, authentication timer, pending read | start, handle_read, handleCommand, handleAuthTimeout, close, write |
| listener | `BoostClientListener.*` | acceptor, protocol version | asyncListen, handleAccept, stop |
| mux protocol parser | `MuxMessageParser.*` | bytes not parsed yet | read, parse, serialize |
| main program | `serial_mux.cpp` | the components of the current epoch, `muxRunning`, io_service | serial_mux_loop, resetConnection, listen_thread, serial_mux_stop |
| service wrapper | `ext-tools/NTService/nt_service.*` | service status | service_control_handler, nt_service_main |
| options | `SerialMuxOptions.*` | the options of the program | parseConfiguration, hexToBin |
| logging | `ext-tools/LogUtilities/*` | message queue, log file and backups | openLog, logMsg, logFromQueue, rotateLogs, start, stop |

### Threads and how the components interact

* The **io thread** (the main thread inside `io_service.run`) runs all asio handlers:
  accepts, client reads, authentication timers, serial reads.
* The **Picard thread** (`threadMain`) reads the line; `frameComplete` calls
  `commandComplete` and `handleNotif` of the client manager directly.
* The **command thread** (`commandLoop`) takes commands from the queue, sends them and
  waits for the response on a condition variable with a timeout.
* The **listen thread** waits for the hello of the Manager, then starts the listener.
* The **log thread** writes the messages all other threads queue.
* The **control handler** of the service (`serial_mux_stop`) ends the loop from a thread of
  the service control manager and waits until it has ended.
* `resetConnection` is called from the command thread (the Manager does not respond),
  the Picard thread (the Manager restarted) and a service control handler. It makes
  `io_service.run` return; the main thread then joins the others, deletes all
  components, and starts a new **epoch** (a turn of `serial_mux_loop`) with new ones.

### What is hard

Three threads share the command in progress with locks that do not cover every access;
the client list and the union of the filters are changed by two of them. Responses can
be late, lost, or the answer to an earlier retry. Condition variables are notified
without a change of state that the waiter could see. Handlers queued on the global
io_service outlive cancellation and epochs. A stop may come at any point of the loop that
it ends, also while components are created or deleted. Log files are rotated by renaming,
and the process may end between two renames. Sequence numbers are 8 bits wide.

## 2. The modules

| module | component | what a step is |
|---|---|---|
| `ClientManager` | client manager, subscriber, filters, the command half of the link, teardown of an epoch | what one thread does between two points where another thread can see the difference |
| `PicardLink` | hello, versions, sequence numbers, acknowledged notifications, `listen_thread`, resets | one frame, one timer, or one stretch of code between two looks at shared state |
| `SerialRead` | `read_async` and `handleRead` of the serial port | the unlocked assignments, the locked sections and one byte of the loop |
| `ClientSession` | client connections, authentication timer, accepting, epochs | one asio handler, cut where `closeClients` of another thread can come in |
| `HDLC` | framing and checksum | one byte on the line |
| `MuxParser` | the stream protocol of the clients | one read of a chunk of the stream |
| `MuxLifecycle` | main program, control handler of the service, the threads of an epoch as far as its beginning and end depend on them | one call of the loop, of `resetConnection` or of a thread |
| `Logger` | log queue, logging thread, rotation, ends of the process | a locked section, or one operation on a file |
| `LogStore` | what the log promises: an abstract specification | a message accepted, written or lost |
| `SerialMuxOptions` | command line, configuration file, token | one stage of the parsing, one character of the token |
| `MC*` | small instances of the above | |
| `ClientManagerProofs` | theorems about `ClientManager`: types and sequence numbers; answers and their order; transactions, routing and filters | |
| `PicardLinkProofs`, `SerialReadProofs`, `ClientSessionProofs`, `MuxLifecycleProofs`, `LoggerProofs`, `MuxParserProofs`, `SerialMuxOptionsProofs` | theorems about the module each is named after | |

Variables carry the name of the member or local they stand for; the comment at
each declaration gives the C++ name.  The modules meet at the same operations:
`PicardLink` moves `m_seqNo` exactly as the response branch in `ClientManager`
does (`NextSeq`), `ClientSession` adds and removes the clients that
`ClientManager` serves, `SerialRead` hands its bytes to the parser of `HDLC`,
whose frames are what `PicardLink` and `ClientManager` receive.  `MuxLifecycle` composes the
threads and components the others look into: what is one step there (a reset by the
command thread, a hello) is the matter of the other modules.

### ClientManager

* **io thread.** `AddClient`, `HandleCommand` (addCommand), and `removeClient` in
  four steps: `ReadError` (look at `m_currentCommand`), `Mark` (write
  CLIENT_DISCONNECT into it, unlocked), `Erase` (under `m_lock`), `IoStore` and
  `IoPush` (recompute the union, queue the re-subscribe).
* **command thread.** `PopNothing`, `PopGone`, `PopLocal`, `PopSubscribe`,
  `PopForward`; `CmdUnion` and `CmdStore` (recomputeSubscribeFilter, unlocked, a
  read and a write), `Rewrite`; `Build` and `Publish` (sendCommand reads `m_seqNo`
  twice); `WaitDone` (answer, timeout or spurious wake-up).  A command that is over goes
  through `Finish`, or, if its client is owed a response, through `Undo` (the union of a
  subscribe), `Unset` (its transaction) and `Tell` (commandTimeout), each a store of its own
  without a lock; then `Clear`; `CmdExit`.
* **Picard thread.** `Recv` (frameComplete); `Validate` (the unlocked checks of
  commandComplete); `Deliver`, `FindClient`, `Relay`, `Commit`: the accesses of its second half to
  `m_currentCommand`.  That half holds `m_inProgressMutex`, but `commandLoop` and `removeClient` write
  `m_currentCommand` without it, so each access finds the command as it is then, or none;
  `HandleNotif`, `PicardReset`, `PicExit`.
* **listen thread.** `ListenAtOnce`, or `ListenLate` and a wait that a reset or `SpuriousWake` ends:
  as far as clients cannot connect before it, and the teardown joins it.
* **teardown.** `ResetStop`, `ResetClose`, `ResetEmpty`, `ResetIo` per thread that resets;
  `MainStop`, `MainJoinCmd`, `MainJoinListen`, `MainJoinPic`.
* **external.** The Manager answers (`MgrAnswer`) or refuses, the line loses frames
  (`Lose`).

Properties: `InFlightSeq` (late responses and retries are told apart by two
sequence numbers), `CleanRouting`, `AnswersInOrder`, `AnsweredBeforeCleared`,
`NotifAfterReply`, `TransactionsClosed`, `FilterInSync`, `EventuallyServed`,
`EventuallyJoined`.

### PicardLink

`SendHello`, `RecvHelloRsp`, `RecvMgrHello`, `RecvNotif` (which sends the ack) and `HandOn` (the
filter and the callback that follow it, when the Manager may have the ack and the callback may be gone), `RecvRsp`
and `PicExit` of the Picard thread; `WaitCheck`, `WaitBegin`, `SpuriousWake`, `Listen` of the listen thread
(waitForHello looks at `m_connected`, then locks and waits, without a predicate); `SendCommand`; `ResetNotify` and
`ResetStop`; `MainStop`, `MainJoinListen`, `MainJoinPic`.  The Manager takes and
answers frames, notifies, repeats, restarts.  Properties: `AckedDelivered`,
`VersionAgreed`, `ListensWithVersion`, `SeqIncrements`, `EventuallyConnected`.

### SerialRead

`Begin`, `Start`, `Check`, `Wake`, `CancelThrows`, `ParseByte`, `Return` are
`read_async`; `HandleRead` is the handler; `Reset` and `Restart` end an epoch and
start the next.  asio keeps outstanding operations and queued handlers in order
and knows to which read each belongs: the latest, an earlier one, or one of a
deleted object.  A handler of a deleted object, and a completion into a freed
buffer, are undefined behaviour: the model lets them reach the memory now in use or
not.  Properties: `CleanRead`, `NoByteTwice`, `CompletionWakes`, `ReadReturns`.

### ClientSession

`HandleAccept`, `HandleRead`, then one step per message of the read (`AddCommand`,
`GoodHello`, `AddClient`, `BadHello`, `Discard`), `ReadAgain`, `HandleReadError`,
`HandleAuthTimeout`; `CloseClients`, `StopIo`, `NewEpoch`.  `CloseThrows` is a closeClients that
`shutdown()` ends half-way: `cs` were closed before, `c` is the one that throws, and the list stays as it is.
`HandlerThrows` is the same in the handler of the timer, which leaves `io_service.run` for good.
Pending operations and queued handlers are different states, so a cancel may come too late.  Properties:
`ListedIffServed`, `OnlyAuthenticated`, `WaitingIsTimed`.

### MuxLifecycle

The service thread goes through `ServiceMain`, `ServiceLoop` and the turns of the loop:
`LoopGoesOn`, `IoReset`, `OpenFails` or `Open`, `Start`, `Listen` or `BindFails`, `RunReturns`, the three joins,
`Delete` and `Clear` of each component, `LoopEnds`.  `resetConnection` is cut where it goes from
one global pointer to the next (`ResetPicard`, `ResetManager`, `ResetListener`, `ResetIo`) and may run
in three threads at once; closing a client may throw (`CloseThrows`, `CloseTerminates`).
`HandlerThrows` is a handler that throws while `io_service.run` runs it: the exception leaves the loop, joins and
deletes nothing, and is caught by `nt_service_main`, which reports STOPPED.  The listen thread waits until a hello, a
reset or nobody (`ListenWakes`) ends its wait.
`Control`, `ControlAnswered`, `serial_mux_stop`, `SpuriousWakeup` and `ControlDone` are the control handler.
`trouble` and `dangling` are histories: why a stop may not complete, and who met a deleted
component.  Properties: `ThreadsJoinedFirst`, `TurnsDoNotOverlap`, `StoppedAfterLoop`, `StopCompletes`.

### Logger and LogStore

Threads stamp and queue messages (`LogMsg`, `EndLogMsg`), which are numbered in the order in which
`logMsg` accepts them (the time in a stamp is the wall clock's, which may step back); the logging thread takes them,
looks at the size of the file, rotates, opens and writes; `openLog`, `start` and `stop` are those of the
main thread; the process may end at any step and starts again with the files it left.
File operations may fail.  `LogStore` knows what is pending and what the files hold as two
sequences: messages are written in the order in which they were accepted; old ones are
forgotten, new ones cut off only with a note in their place.  `Logger` implements it, in the run and by
the theorem `LoggerIsLogStore` (`IsLogStore`; the mapping puts the files one after the other, oldest first, and the message in
hand before the queue).
Other properties: `LinesInOrder`, `DiskBound`, `StopFlushes`, `QueueIsServed`, `StopReturns`.

### SerialMuxOptions

`ParseCommandLine`, `Special`, `ChangeDirectory`, `NoConfigFile` or `ReadConfigFile`, `ParsePort`, the loop of
`hexToBin` by character, and `ParseFlags`.  The store of boost is modelled by what it does: the first
source wins, a default is not a source.  `OptionsAgree` and `TokenSpelled` compare the result with
definitions that look at all sources, and at the whole token, at once.

### HDLC and MuxParser

`HDLC` holds the encoder, the checksum (the table as the function it tabulates) and
the parser as pure operators over bytes, with a line that corrupts, drops or
inserts bytes.  Properties: `CleanDelivery`, `NoBogusFrame`, `Resync`.  `MuxParser`
holds `serialize`, with the two bytes of its length cut as in the code, and the incremental
`parse`; `ParseAll` and the reference definition `Decode`, which takes all bytes at once, are
recursive functions over byte sequences.  Properties: `ChunkFree`, `RoundTrip`.

## 3. The runs

| run | instance | shows |
|---|---|---|
| `Answers` | one client, 3 forwarded or refused commands, each sent up to twice, 3 sequence numbers | `TypeOK`, `InFlightSeq`, `CleanRouting`, `AnswersInOrder` |
| `Subscriptions` | two symmetric clients, 2 subscribes, removals, until main stops the manager | `AnsweredBeforeCleared`, `TransactionsClosed`, `FilterInSync` |
| `Teardown` | two clients, a forwarded command, an unsolicited frame, fair threads | `EventuallyServed`, `EventuallyJoined` (a listen thread that has missed its notification is the one exception) |
| `Link` | Manager versions preferred, known, unknown; 2 notifications, one loss, one restart | the safety properties of the link, `SeqIncrements`, `EventuallyConnected` |
| `SerialReads` | buffer of 2, 3 bytes, 4 operations, any number of reads and epochs | the properties of the timed read |
| `Sessions` | two symmetric clients, 2 epochs, reads of up to 2 messages, a `shutdown()` that throws | the properties of connections |
| `Framing` | 4 frames, 2 faults | the properties of the framing |
| `Chunks` | all streams of up to 3 messages and pieces of junk, all cuts | the properties of the stream parser |
| `Lifecycle` | stop, shutdown, interrogate and pause controls at any point, 2 resets from inside, any number of turns | the properties of the lifecycle |
| `Logging` | two producers, 4 messages, 2 backups, a file is full after one message, 2 ends of the process, failing file operations | the properties of the log, and that it implements `LogStore` |
| `Options` | all tokens of up to 6 characters; files and values from both sources | `OptionsAgree`, `TokenSpelled` |
| `StaleResubscribe` | as small as the counterexample allows | section 6 |

Why the bounds are enough for what they are meant to show:

* *Sequence numbers.*  With `SeqMod` 3 and three commands the number wraps; a response
  to an earlier number, to the present one, and to one that is equal after the wrap
  are different cases, and a retransmission puts two frames of a command on the line
  (`m_retries` counts the first one too).  The theorem `TwoSeqsInFlight` holds for every number of
  retries and every modulus above 1.
* *Clients.*  A race in `ClientManager` or `ClientSession` is between one client's
  command and another's departure or subscription: two clients.  The answers of a
  client do not depend on the others except through those races.
* *End of the epoch.*  `Subscriptions` stops where the main thread stops the manager, and does not follow a
  `removeClient` that is still running when `io_service.stop()` is called (`EpochOpen`): there are 4.8 million
  states up to there, and 16.5 million without this bound.  What the threads still do then is
  explored in full by `Answers` and `Teardown`, and the theorems hold for all of it.
* *Requests.*  `Request` takes one request of each class commandLoop tells apart,
  and subscribe payloads that make the union grow, shrink and differ in length.
* *Line.*  Two frames between the ends (`LineCap`) allow a late answer behind a new
  request; one loss and one restart of the Manager can hit any frame.
* *Serial reads.*  Two-byte buffers make a read partial, full and overtaken; four
  operations allow two cancelled reads to disturb the next two.
* *Framing.*  The payloads hold the flag, the escape, the escaped forms, one whose
  checksum needs an escape, and one that begins with the bytes of a whole shorter frame
  (`Nested`); two faults can hit one frame or neighbours.
* *Chunks.*  Nine bytes in a read are the whole of the shortest command, so every
  field is cut at every place; `COMMAND_SIZE` 5 exceeds the token, which is all that
  matters of the zero bytes the parser starts with.
* *Lifecycle.*  Two resets from inside can overlap each other and a stop; a third would
  meet the same turn again.  The number of turns is not bounded.  A service that a control revives
  after it has failed is not followed (`ServiceLoop`).
* *Logging.*  `QueueIsServed` and `StopReturns` are about `MaxMsgs` messages: with producers that never end,
  `stop()` may go on draining for ever.  Two producers compete for the lock between stamp and queue; four messages
  with a file full after one rotate through all backups and lose the oldest; two
  ends of the process can leave a gap and meet it.
* *Options.*  A token of two bytes is filled by four digits, overrun by five, and a sixth
  character can be a separator, a space or neither.

Every passing run has the deadlock check on, except `Link`, `Sessions` and `Lifecycle`.
In `Lifecycle` the service ends, as it should, or hangs as section 6 says.  `Link`
really may stop: a reset that is missed leaves `listenThread.join()` waiting for ever
(section 6); `Answers`, `Subscriptions` and `Teardown` have the same wait, but there a spurious
wake-up, which nothing forbids and fairness does not promise, is always possible.  In `Sessions` the
last epoch ends and no peer needs to do anything.

## 4. Fairness

* `ClientManager!FairSpec`: weak fairness of each thread (command, Picard, io, main, listen,
  and each thread inside `resetConnection`).  The operating system schedules threads;
  every wait on a condition variable there has a timeout, except that of the listen thread, whose
  end is not a fair step; `m_lock` and `m_inProgressMutex` are released by
  steps that are always enabled.  Nothing is assumed of clients, Manager or line.
* `PicardLink!FairSpec`: the same, and strong fairness of `SendHello`: `threadMain` sends a
  hello whenever the interval is over and the link is not connected; the guard on
  the room of the line is only a bound of the model and must not starve it.
* `PicardLink!FairManagerSpec` adds weak fairness of `MgrTake`, an assumption about the
  device, needed where a property speaks of an answer from it.
* `MuxLifecycle!Spec`: weak fairness of the service thread, the control handler, the threads
  of a turn and each thread inside `resetConnection`.  A join or a wait is a guard, so fairness does
  not help a thread that waits for ever.  Nobody has to throw, or to wake for no reason.  Nothing is assumed of the Manager (it may never say
  hello), of clients (they may never read) or of the service control manager.
* `Logger!Spec`: weak fairness of the producers inside `logMsg`, of the logging thread and of the
  main thread inside `openLog` and `stop`.  The timeout of the queue is fair only once the logger
  has been told to stop: while it runs, messages must be served by notifications alone.
* `SerialRead!FairSpec`: weak fairness of the Picard thread alone: `timed_wait` ends.

## 5. Proofs

A theorem holds for every value of the constants that the named assumptions of its
module allow.  The assumptions say no more than the code and the meaning of the
constants do:

| module | assumptions |
|---|---|
| `ClientManager` | `ClientAssumption` (the null client is not a client), `FlagsAssumption` (the two halves of a filter are disjoint), `RequestAssumption` (requests are well-typed, a short payload has no mask), `BoundAssumption` (`SeqMod > 1`; the rest are naturals) |
| `PicardLink` | `VersionAssumption` (0 stands for no version, the mux knows at least one), `BoundAssumption` (as above) |
| `SerialRead` | `ReadBounds` (a buffer of at least one byte, room for one operation) |
| `ClientSession` | `ClientAssumption`, `MessageAssumption` (messages are well-typed), `BoundAssumption` |
| `MuxLifecycle` | `ResetBound` (a natural) |
| `Logger` | `LogBounds` (naturals, known levels and failures; the names of main and free are not those of producers) |
| `MuxParser` | `StreamAssumption` (messages and junk are bytes; id and length of a message fit their `uint16_t` fields, so `serialize` does not cut the length), `BoundAssumption` (a read has at least one byte) |
| `SerialMuxOptions` | `InputAssumption` (parsed sources hold values of the types of their options; the files that may be asked for are described; the token has at least one byte) |

`AcksMeanDelivery` alone has a hypothesis of its own, discussed below.

| theorem | states | inductive invariant |
|---|---|---|
| `TypeCorrect` | `Spec => []TypeOK` of `ClientManager` | `TypeOK` itself |
| `TwoSeqsInFlight` | `Spec => []InFlightSeq` | `TypeOK /\ InFlightSeq` |
| `AnswersStayInOrder` | `Spec => []AnswersInOrder` | `TypeOK /\ HandInv /\ OrderInv` |
| `AnsweredBeforeMovingOn` | `Spec => []AnsweredBeforeCleared` | `TypeOK /\ HandInv /\ AnswerInv` |
| `NotificationsWaitForReply` | `Spec => []NotifAfterReply` | `TypeOK /\ HandInv /\ NotifInv` |
| `TransactionsAreClosed` | `Spec => []TransactionsClosed` | `TypeOK /\ HandInv /\ FlightInv /\ TxnInv` |
| `ResponsesRoutedClean` | `Spec => []CleanRouting` | the above, `RouteInv /\ OnceInv` |
| `FiltersAgreeAtRest` | `Spec => []FilterInSync` | the above, `CalmInv /\ UnionInv` |
| `VersionsAgree` | `Spec => []VersionAgreed` | `LinkInv` |
| `ServedWithVersion` | `Spec => []ListensWithVersion` | `LinkInv` |
| `SeqOnlyIncrements` | `Spec => SeqIncrements`, an action property | `LinkInv /\ SeqInv` |
| `AcksMeanDelivery` | `Spec => []AckedDelivered`, if `MaxNotif <= SeqMod` | `LinkInv /\ NotifInv` |
| `CompletionsWake` | `Spec => []CompletionWakes` | `ReadInv` |
| `BytesParsedOnce` | `Spec => []NoByteTwice` | `ReadInv` |
| `UndisturbedIsClean` | `Spec => []CleanRead` | `ReadInv /\ CleanInv` |
| `QueuedAreAuthenticated` | `Spec => []OnlyAuthenticated` | `Inv` of `ClientSessionProofs` |
| `ListIsAccurate` | `Spec => []ListedIffServed` | the same |
| `WaitingStaysTimed` | `Spec => []WaitingIsTimed` | the same |
| `LifecycleTypes` | `Spec => []TypeOK` of `MuxLifecycle` | `Inv` of `MuxLifecycleProofs` |
| `NoThreadDangles` | `Spec => []ThreadsJoinedFirst` | the same |
| `TurnsAreApart` | `Spec => []TurnsDoNotOverlap` | the same |
| `StoppedIsOver` | `Spec => []StoppedAfterLoop` | the same |
| `FilesStayBounded` | `Spec => []DiskBound` | `LogInv` |
| `StopWaitsForQueue` | `Spec => []StopFlushes` | `LogInv` |
| `LinesStayInOrder` | `Spec => []LinesInOrder` | `LogInv /\ OrderInv` |
| `LoggerIsLogStore` | `Spec => IsLogStore`, a refinement | `LogInv /\ FreeNumber` |
| `ReadsDoNotMatter` | `Spec => []ChunkFree` | `ReadInv` of `MuxParserProofs` |
| `MessagesSurvive` | `Spec => []RoundTrip` | the same |
| `OptionsComeFromTheirSource` | `Spec => []OptionsAgree` | `Inv` of `SerialMuxOptionsProofs` |
| `TokenIsSpelled` | `Spec => []TokenSpelled` | the same |

Each is proved by one step per action, with a lemma that disposes of the actions that
leave the variables of the invariant alone.  Why the properties need strengthening:

**ClientManager: numbers and answers**

* `InFlightSeq` is inductive as stated, since it also says what happens at the point
  where `sendCommand` has put a number into its buffer that the Picard thread may
  outdate before the frame is sent, and that newer numbers are behind older ones.
* `HandInv`: wherever `commandComplete` can deliver, `m_currentCommand` and the local
  command of `commandLoop` are the same command.  Without it a delivery could write to
  a client other than the one the loop works for.
* `OrderInv`: commands are numbered as they are pushed, so what was answered is not
  newer than the command in hand and that is older than all that are queued.
* `AnswerInv`: CLIENT_OK in `m_currentCommand`, or in the copy the loop took of it, means
  that a response was written, or that `commandComplete` is about to write it (`Relaying`) and
  holds the mutex the loop needs to take its copy.  The loop decides on the copy, the other threads change
  the original.
* `NotifInv`: what is committed in `m_params` was announced by a reply, unless `commitFilter` met another
  command than the one answered.

**ClientManager: routing and filters**

* `FlightInv`: every frame between `sendCommand` and the end of `commandComplete` belongs to a
  command that was taken from the queue, and carries its type.  `m_currentCommand` is
  empty until its command is ready to be sent.  It rules out a response to a command that is
  still queued, and ties the type that `commandComplete` looks at to the request.
* `TxnInv`: only the client whose subscribe is in hand has a transaction open (`Working`, `Closed`),
  and CLIENT_OK for it means that the transaction was committed.
* `RouteInv`: until a wait ends without an answer, at most one frame is in flight, the one
  that is waited for, and none once the command is OK.  `CleanRouting` needs this: the two
  sequence numbers that `InFlightSeq` speaks of would not tell two frames of a retry apart.
* `OnceInv`: a command in hand whose result is not CLIENT_OK has not been answered, so its
  response is the first.
* `CalmInv`, `UnionInv`: while nothing has gone wrong and no reset has begun, `m_filterUnion` is the
  union of the filters in force until the command thread stores the one with the new filter, and
  that one while the command is sent and waited for; the Manager has its notification types once
  it has accepted.  The exception is a refused subscribe between the two halves of `commandComplete`,
  where the union is back at its old value and the filter of the client is not (`Refusing`).

TLC found no violation of these invariants in the instances of `Answers` (1.8 million states)
and `Subscriptions` (4.8 million states) before they were proved.

**PicardLink**

* `LinkInv`: types, with the version of the Manager in every frame from it that names one;
  a connected mux has recorded that version (`Recording`); the
  listen thread passes its wait only when connected, reset or woken by nobody, and takes the
  version the mux has at that moment (`Listening`).
* `SeqInv`: the numbers of the mux on the line, there and back, are `m_seqNo` or the one before it,
  the older ones first, which makes each assignment of `m_seqNo` a step to itself or its successor.
* `NotifInv`: the notifications on the line, their numbers and the acknowledgements that are
  under way for them, in order, with the one `frameComplete` has acknowledged and not handed on yet (`HandNotif`).
* The hypothesis of `AcksMeanDelivery`: an acknowledgement is only a number.  Once the Manager has sent more
  notifications than there are numbers, an acknowledgement that is late by a whole round of numbers is
  taken for that of another notification: with `SeqMod` 2, `LineCap` 2 and `MaxNotif` 3 TLC refutes
  `AckedDelivered`.  With 256 numbers that is a delay of 256 notifications.  The order in which notifications are
  handed on needs no such bound.

**SerialRead**

* `ReadInv`: a cancelled read tells of its end only after the wait (`AbortsAreLate`), and what the buffer
  holds beyond the position of the loop was not parsed before (`Fresh`).
* `CleanInv`: while nothing is disturbed, what was parsed is a prefix of the line, and either every
  handler is in time (`InTime`) or the one late handler is known and nothing is parsed until it ran (`Late`).

**ClientSession**

* `Inv`: who was told OK is authenticated or closed, and who was told anything has left WAITING (`VerdictKept`); the manager
  lists only connections of its own epoch that were told OK (`OwnClients`); between `GoodHello` and `AddClient` a client is
  authenticated and not listed, and only the io thread can be there (`AddingIsNew`); who is listed and not
  served was closed by a `closeClients` that threw (`Listed`).

**MuxLifecycle**

* `Inv` ties `mainPc` to the threads and components that can exist there: the joins in their order
  (`Joined`), pointers cleared after each delete (`FreedIsCleared`), what a failed bind, or a handler that
  threw, leaves behind (`LeftByFailure`), and how far a stop has come when the service is reported as stopped (`StopInOrder`).
  `CallersExist` is needed since a thread inside `resetConnection` goes from pointer to pointer on its own.

**Logger**

* `LogInv`: which thread is where, what is open, that the file has room when a line is appended
  (`HasRoom`), and that what was due at `stop` is written, in hand or queued (`Due`).
* `OrderInv`: every number in a file is below those in newer files and those in hand and queued, and none is
  above the number of messages accepted (`Ages`).
  `LinesInOrder` compares two positions in the files directly, so that no flattening is needed.
* `LoggerIsLogStore` maps the message in hand and the queue to `pending`, the flattened files to `kept`,
  and a failed rotation before its note to `unsaid`.  `FreeNumber` says that `rotateLogs` moves a file only onto
  the number it has just removed or moved away, and that after a rotation that went through the log
  itself is gone (if there are backups); otherwise a rename would overwrite a backup in the middle, which `LogStore` does not
  allow.  Lemmas about `FlattenSeq` say what becomes of a flattening when a piece moves into an empty place
  (nothing), the first piece is emptied (`Forget`), or the last one is extended or cut (`Write`, `Cut`).

**MuxParser**

* `ChunkFree` alone is not inductive: it says nothing of the bytes that are left over.  `ReadInv` speaks of all that
  may follow: for every byte sequence `t`, the bytes so far and `t` decode to what was handed on and what
  `partialInput` and `t` decode to.  A read only has to be right about its own input (`Parsed`): a whole command
  is not changed by what follows it (`WholeStays`), and discarding all but three bytes is right because a
  token that begins before them would be in the input already (`DiscardKeeps`).
* `MessagesSurvive` goes through the stream item by item (`Carried`): what has come so far decodes to the messages
  sent so far, and leaves the end of the junk over.  A message after it is found because the first byte
  of a token occurs nowhere else in one (`NoTokenAcross`); it is given back because two bytes hold every
  length and id (`WordBytes`, `SerializedCommand`).

**SerialMuxOptions**

* `Inv`: what the stages behind have accepted and stored in the map of boost (`Accepted`), which variables follow the
  map (`Copied`), what `hexToBin` has made of the characters it has read (`Converted`), and that the program ends
  early only as `Outcome` says (`Ends`).  For the loop, `Spelled` relates the half-filled token, the index and the
  pending digit to the part of the word that was read.

**Induction and recursion.**  The induction theorems of the library take an operator as a parameter, which the provers
cannot instantiate.  Where a proof needs induction it uses a set instead: `Least` (a set of naturals
that is not empty has a least element) and `Induction` (a set that holds 0 and with `n` also `n + 1` holds all
naturals) are proved from the well-foundedness of `<`, in each of the two modules that need them.  From
`Induction` follows that the function inside `FlattenSeq` exists, and in `MuxParserProofs` that a function defined
by recursion on arguments that get shorter does (`RecursionExists`), so that `Decode` and `ParseAll` satisfy
their equations.

No run is kept for `NotifAfterReply`, which the theorem covers for every instance; TLC finds no
violation in `Answers` with the requests COMMAND, INVALID and `Sub({n1})`, `Retries` 1 and
`MaxUnsolicited` 1 (4.4 million states).

Only model-checked:

* liveness (`EventuallyServed`, `EventuallyJoined`, `EventuallyConnected`, `ReadReturns`, `StopCompletes`, `QueueIsServed`,
  `StopReturns`), which needs fairness and ENABLED;
* `HDLC` (`CleanDelivery`, `NoBogusFrame`, `Resync`), whose checksum is made of bitwise operations, which the provers do
  not know.

## 6. Where the code does not keep what it says

One statement is refuted by a run of its own:

| run | property | what happens |
|---|---|---|
| `StaleResubscribe` | `DeviceHasUnion` | `removeClient` fixes the payload of the re-subscribe when it queues it (BoostClientManager.cpp:262); a subscribe processed in between is undone at the Manager (102: "use the union of all subscriptions"). |

Some consequences have no formula of their own and are exceptions that the properties name.  A handler that
throws out of `io_service.run` (BoostClient.cpp:39, 153, 27) leaves the loop without a join, and `nt_service.cpp`:168
reports STOPPED with all components live; a stop that comes then waits for ever (`"thrown"` in `StoppedAfterLoop` and
`StopCompletes`).  A `shutdown()` that throws in `closeClients` (BoostClientManager.cpp:31) leaves the list as it was, with closed
clients in it, and skips `io_service.stop()` (`threw` in `ListedIffServed`, `"throw"`); a `commandLoop` that sets
`m_isRunning` after the stop (61) and a client that does not read while `handleNotif` holds `m_lock` (223) keep
a join or a reset waiting (`"restarted"`, `"blocked"`).  `commitFilter` may be called on a null client
(BoostClientManager.cpp:194, `"null"` of `ClientManager`).  A notification acknowledged just before
`registerCallback(NULL)` is lost although the Manager has crossed it off: `AckedDelivered` speaks of the time
before.  And a joined or damaged frame passes a checksum of 16 bits by chance: one flag inserted after the third byte of
the payload `Nested` delivers a frame that was never sent, so `NoBogusFrame` speaks only of lines where at
most one byte of a frame arrives as another one, neither of the two a flag or an escape.

The others are stated in the modules, under "Statements of the repository that the
code does not keep"; TLC refutes each when it is checked instead of the properties
of the run given here (changes to the constants in parentheses).

| module, property | run to start from | what happens |
|---|---|---|
| `ClientManager!RoutedToItsCommand` | `Answers` | `commandComplete` validates against `m_currentCommand` without a lock and delivers to what it is later (BoostClientManager.cpp:161); a late response answers the next command (122). |
| `ClientManager!ResetOnlyWhenUnresponsive` | `Answers` | a read error of any client marks the command in progress, whoever's it is (BoostClientManager.cpp:244-248); the loop takes it for an unresponsive Manager and resets the connection of all clients (238, 333). |
| `ClientManager!UnionIsUnion` | `StaleResubscribe` | a subscribe the Manager refuses leaves its filter in `m_filterUnion` (192; BoostClientManager.h:115: "union of all client subscriptions"). |
| `ClientManager!UnionAfterRemoval` | `StaleResubscribe` | `recomputeSubscribeFilter` in the command thread holds no lock (105) and may store a union that still has a departed client in it (258). |
| `ClientManager!CompleteFilter` | `Subscriptions` (requests `Sub({n1, u1})`, `ShortSub({n1})`) | `filterToVector` reserves eight bytes and does not resize (Common.cpp:34): for a four-byte payload the mask is not sent (BoostClientManager.cpp:117: "with the complete filter"). |
| `PicardLink!NoDuplicates` | `Link` | `sendAck` moves `m_mgrSeqNo` (BasePicard.cpp:113) before the filter compares with it (253): a repetition is handed on again (252: "filter out duplicates"). |
| `PicardLink!HelloEndsWait` | `Link` with `FairManagerSpec` | a hello response between the check and the wait of `waitForHello` (BasePicard.cpp:120) is missed; the listener never starts. |
| `PicardLink!ListensAfterHello` | `Link` | the result of `waitForHello` is ignored (serial_mux.cpp:116): a reset makes the listener start without a hello (108). |
| `PicardLink!ResetEndsWait` | `Link` with `FairSpec` | `reset` notifies without changing what the waiter checks (BasePicard.cpp:51): a listen thread that is about to wait stays (48), and `listenThread.join()` (serial_mux.cpp:209) with it. |
| `SerialRead!OneOutstanding` | `SerialReads` | the handler of a cancelled read may run after the next `read_async` has cleared `m_readComplete`; that read does not wait, nor cancel, and leaves its operation behind (PicardBoost.cpp:158: "so we don't have multiple outstanding reads"). |
| `SerialRead!GonePortResets` | `SerialReads` | errors of an asynchronous read come to the handler, not to the catch block, so a device that is gone resets nothing (184: "when the port is closed, we reset"). |
| `ClientSession!NotAddedOnTimeout` | `Sessions` | a timer that expired before the hello was handled closes a client that has been added (BoostClient.cpp:84, 145: "the client isn't added yet"). |
| `ClientSession!OwnManager` | `Sessions` | connections keep themselves alive through their handlers; in the next epoch they call the deleted manager (serial_mux.cpp:217; BasePicard.h:43). |
| `MuxLifecycle!StopCommandHeard` | `Lifecycle` | a stop between the test of the loop (serial_mux.cpp:128: "allow an external stop command", 127) and `io_service.reset()`, or before the threads of the turn wait for what it notifies, is forgotten: the turn goes on and `serial_mux_stop` waits for a loop that does not end. |
| `MuxLifecycle!NothingDangles` | `Lifecycle` | the control handler can be between two pointers of `resetConnection` while the loop deletes the components (217), and an accept that completed when io_service stopped is handled by a deleted listener (BoostClientListener.cpp:63). |
| `Logger!AppendsWithoutBackups` | `Logging` (`NumBackups` 0) | with no backups nothing is rotated, and the file is opened for writing from its start (BoostLog.cpp:164, against the comment at 186). |
| `SerialMuxOptions!InvalidCharsRefused` | `Options` | `hexToBin` stops at the first white space after a digit; what follows is not looked at (SerialMuxOptions.cpp:51, against the comment at 22). |
| `HDLC!DataState` | `Framing` | the first byte of a packet is appended in PACKET_COMPLETE (HDLC.cpp:162, against the table at 128); what is delivered does not change. |

## 7. Abstractions, and what is not modelled

* Payloads other than filters, log texts and formatting are left out.  A filter is a set
  of flags; the 32 bits behave independently.
* Reading the client list, and copying a command into `m_currentCommand`, are one step
  each; torn reads of these would be undefined behaviour beyond the outcomes modelled.
  The loop of `closeClients` under `m_lock` is one step, wherever `shutdown()` ends it; so are accepting a connection and
  handling it, `registerCallback(NULL)` with `stop()`, `gPicardIO->reset()` with `gPicardIO->stop()` in
  `ClientManager`, the two stores of `setSubscription`, `commitFilter` and `resetFilter` (one of them to `m_inTransaction`, which
  is never read), and the look at `m_callback` with the call through it.
* Writes to sockets and to the port complete, except in `MuxLifecycle`, where a client that
  does not read blocks the Picard thread in `handleNotif`, with the lock it holds.
* Exceptions are in `SerialRead`, `ClientSession` and `MuxLifecycle`, not in `ClientManager`.  One that leaves `commandLoop` ends the
  process, and so everything that is modelled.
* `ClientManager` and `PicardLink` cover one epoch each.  `ClientManager` starts connected
  with no client; `ClientSession`, `SerialRead` and `MuxLifecycle` go through epochs.
* `MuxLifecycle` takes a console program for a service to which no control is sent.  The use of
  a deleted component is recorded in `dangling` and has no other effect.  Once a failed service has been revived by a
  control (`"revived"`), its next turn, on top of the components that were left, is not followed.  `main` reports "another Serial
  Mux must be running" only if `openLog` throws, which it does not: a stream that cannot be opened
  stays bad.
* An option given on the command line by a prefix of its name, and the texts of help and
  errors, are left out; an option that is only counted is on whatever its value in a file.
* The timer handler in `BoostClient` is bound to a raw `this`; the model lets it run as if
  the memory of its object stayed.
* `LogStore!Forget` may forget any number of old lines: a truncation that takes more than the oldest file is
  allowed by the refinement, and `AppendsWithoutBackups` of section 6 is what speaks of it.
* History variables record what properties speak of and influence nothing: `out`,
  `nextId` and `trouble` (`ClientManager`), `acked`, `delivered`, `spurious` (`PicardLink`), `parsed`, `junk`
  and `disturbed` (`SerialRead`), `timedOut`, `stale` and `threw` (`ClientSession`), `trouble` and `dangling`
  (`MuxLifecycle`; a revived service apart), `dueAtStop`, `written`, `unopened` and the numbers of the messages (`Logger`),
  `mild` (`HDLC`).
* The serial line is FIFO and loses whole frames in `ClientManager` and `PicardLink`; the
  bytes are the matter of `HDLC`.
* Not modelled: the version string; the parts of the service wrapper serial_mux does not use (the
  init function, the example program); the CLR classes (superseded, not part of the build);
  the build scripts; the UDP transport to the emulator, a synchronous receive without shared
  state; `logDump`, which only formats.  `CSyncQueue::clear` is called for the command queue only
  (BoostClientManager.cpp:39, in `MainStop`).

## 8. Plan

Done: the modules, in the order "client manager, link, framing and parser, sessions, serial
read, lifecycle, logging, options", the refinement of `LogStore`, and the proofs of section 5:
every safety invariant and action property that a passing run checks is stated by a theorem, except the
invariants of `HDLC`, and so is the refinement.
Next, in this order:

1. `MuxService`, the abstract specification of what a client is promised (every command
   answered once, in order, or the connection is closed), refined by `ClientManager`; the theorems
   about answers and their order are what the refinement rests on.
2. The part of `HDLC` that does not depend on the checksum: escaping undone by the parser, and
   `Resync` after a flag.
