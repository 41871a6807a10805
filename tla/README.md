# Formal models of LightningCastDeviceSample

This directory holds TLA+ models of the C++ program in `src/`: modules, TLC
configurations that check them on small instances, and theorems with proofs that
the TLA+ proof system checks for every value of the constants.

- [The system](#the-system): parts, state, operations, interactions
- [Modules](#modules): what is in which file
- [SnapcastComm](#snapcastcomm), [LightningCastClient and Endpoint](#lightningcastclient-and-endpoint),
  [Framing, FrameChannel](#framing-and-framechannel), [LightningCastServer](#lightningcastserver),
  [Heartbeat](#heartbeat), [Messages and JSON](#messages-jsonreader-jsonvalue),
  [mdnsd](#mdnsrecords-mdnspacket-mdnsd), [ServicePublisher](#servicepublisher)
- [Runs](#runs): what each checks and shows, [bounds](#bounds), [fairness](#fairness)
- [Divergences](#where-code-and-text-differ)
- [Proofs](#proofs)
- [Not modelled](#what-is-not-modelled)

## The system

A device that takes part in a multi-room playback. An Android phone discovers it
by mDNS, sends it `open` with its own address, the device connects back to the
phone, and on `play` it tells a local SnapCast player (PlayerClient, another
process) to play from the phone's SnapCast server.

    Android --TCP 7700--> LightningCastServer --Open--> LightningCastClient <--TCP--> Android
                                                             |  ^
                                            Open, sendStart, |  | Exit
                                      sendPause/Stop, Close  v  |
      mDNS <--> mdnsd <-- ServicePublisher    SnapcastComm     main (keys, q)
                                                   |
                                                   +--AF_UNIX--> PlayerClient

| part (source) | thread | state | operations |
|---|---|---|---|
| SnapcastComm (`SnapcastComm.cpp/.h`) | worker `handle` | one-slot mailbox `cmd, ready, ready_sync`, `pending`, `send_start_result`, `server_fd`, `wake_fd` | `Open`, `Close`, `Exit`, `sendStart`, `sendPause`, `sendStop`; worker: `do_open`, `doRead`, `doParse` |
| LightningCastClient (`LightningCastClient.cpp/.h`) | client `handle` | a second mailbox, `is_open`, `serverIP`, `server_fd`, `wake_fd`, `aliveTime`, the last metadata, format, position, volume | `Open` (from the server thread), `Exit`, `sendRemoteCommand` (from main), `Close`; the session loop of `do_open`; one handler per message |
| LightningCastServer (`LightningCastServer.cpp`) | server `handle` | the descriptor set, `wake_fd` | accept, read and parse `open`, reply `IsOpen`, `Exit` |
| ServicePublisher (`LightningCastServer.cpp:281-403`) | publisher | `svr`, `stop_thread` | register, unregister (from main) |
| mdnsd (`tinysvcmdns.cpp`) | detached `main_loop` | record groups, services, announce list, `stop_flag`, notify pipe | answer queries, announce, goodbye, stop |
| main (`LightningCastDeviceSample.cpp`) | main | - | keys, exit sequence 141-158 |
| framing (`LightningCastCommon.h`, `doRead`/`processSend` of three classes) | all | byte streams | 8-byte header, then a JSON payload; partial reads and writes |
| Util (`Util.cpp`) | - | - | `EventFD`, `diff_in_us` |
| jsoncpp (`jsoncpp.cpp`, `json/`) | all | - | `Reader::parse`, `FastWriter::write`, `Value` and its conversions; vendored |

How the parts interact: by method calls into objects shared without any
discipline of ownership. Three threads (client, server, main) call
SnapcastComm; two (server, main) call LightningCastClient. Every class protects
its mailbox by `mutex`, its writes by `server_mutex`, and reads `cmd` and
`server_fd` elsewhere without either.

What is hard about it, and what makes each part correct:

- *SnapcastComm*: one condition variable for two kinds of sleepers, one `pending`
  flag for all receipts, a mailbox that is overwritten and finished
  unconditionally, a worker that is in `select()` when commands arrive, a player
  that may be absent, refuse, crash or talk nonsense. Correct means: no wake-up
  lost, no waiting loop spinning, the receipt that releases a caller is its own,
  the descriptor is opened and closed once, `Close` closes, calls return.
- *LightningCastClient*: the same mailbox again, plus `is_open` and `serverIP`
  shared by three threads, and a session whose end calls SnapcastComm. Correct
  means: `is_open` is the truth, the reply to Android is about its own request,
  the player is sent to the device that asked, the player is stopped at the end,
  every open is answered; heartbeats flow and a silent peer is noticed within
  its timeout.
- *main*: exits while everything else is running. Correct means: the process ends.
- *LightningCastServer*: one thread, one descriptor set, reads that block on one
  device. Correct means: the set is exactly the open descriptors, everyone who
  sends whole frames is served, the exit event is noticed.
- *framing*: frames are atomic, in order and complete over partial reads and writes.
- *jsoncpp and the handlers*: everything that is said goes through them. Correct
  means: a message is read as it was written, a cut one is refused, what the
  endpoint writes can be read, and no proper message ends the process.
- *mdnsd and ServicePublisher*: registration, answers, announcement and goodbye
  from one thread while another registers and stops. Correct means: an answer
  holds what was asked and not already known, what was announced is taken back,
  nothing is used after `mdnsd_stop` has freed it.

`PROJECT.json` lists every hazard at its line with the properties about it.

## Modules

In the order they were written, the most important behaviour first.

| module | models | instantiated by |
|---|---|---|
| `SnapcastComm` | the class of that name, with its callers and the player | `MCSnapcastComm` |
| `SyncLink` | what it promises one caller; `SnapcastComm` refines it | |
| `SnapcastCommProofs` | theorems for any callers, and for a single one | |
| `LightningCastClient` | the class of that name on top of `SnapcastComm` | |
| `Endpoint` | client, server and main threads together; refines `SnapcastComm` | `MCEndpoint` |
| `EndpointProofs` | theorems: the program uses `SnapcastComm` as it allows; what is said of sessions is true | |
| `Framing` | a frame as cells, read and written in pieces | |
| `FrameChannel` | two threads writing frames into one connection | `MCFrameChannel` |
| `FrameQueue` | what a connection promises; `FrameChannel` refines it | |
| `FrameChannelProofs` | theorems | |
| `LightningCastServer` | the server's select loop and descriptors | itself |
| `LightningCastServerProofs` | theorems | |
| `Heartbeat` | the session against the clock | itself |
| `HeartbeatProofs` | theorems | |
| `JsonValue`, `JsonReader` | jsoncpp: values and writing, reading | |
| `Messages` | the handlers, the keys and what they send | `MCMessages` |
| `MdnsRecords`, `MdnsPacket` | records, groups and answers; the packet on the wire | |
| `MdnsRecordsProofs` | lemmas about the lists, groups and replies | |
| `MdnsPacketProofs` | a packet is read as it was written | |
| `Mdnsd` | the responder thread and the registration calls | |
| `ServicePublisher` | the publisher thread and main's unregister, over `Mdnsd` | `MCServicePublisher` |
| `ServicePublisherProofs` | theorems | |

The modules are independent state machines where the code's parts only share a
value that one of them can choose: `Heartbeat`, `FrameChannel` and `Messages` are
three views of the same session as `LightningCastClient`, each with the detail
the others leave out (time, bytes and partial writes, contents). A product of
them would not fit TLC, and no property spans two of these details.

In every module a definition named after another with a suffix (`Close_NoWake`) is
that definition with a plausible bug seeded. No specification uses it; it is there
to show that the properties notice.

## SnapcastComm

One action for each critical section of `mutex` or `server_mutex` and for each
unlocked access in between, so that neither mutex is a variable.

| code | model |
|---|---|
| `cond`, `cond_sync` | the sets `condWait`, `syncWait` of threads asleep; `Notify` removes any one of them; `SpuriousWakeup` too |
| `Open`, `Close`, `Exit` | `Open`, `Close`, `Exit` (post) and `OpenReturns`, `CloseReturns` (the `while` around the wait) |
| `doPlay` = `Open; sendStart; if failed Close` | `doPlay`, `OpenReturns`, `sendStart`, `LockWait`, `StartReturns`, `Close`... by `pc[t]` |
| `doStop`, `doPause` = `sendStop; Close` | `doStop`, `sendStop`, `LockWait`, `Close`, `CloseReturns` |
| `handle` | `HandleNone`, `HandleClose`, `HandleExit`, `HandleOpen`; `Runs` is the moment the mutex is (re-)acquired |
| `do_open` | `CreateSocket`, `connectServer`, `LockfinishCmd`, `LoopTest`, `Select`, `doParse`, `doReadFails`, `EndOpen` |
| the eventfd | the Boolean `wake_fd`: any number of writes is read at once |
| the AF_UNIX socket | `toPlayer`, `fromPlayer`, sequences of whole messages; `server_fd` tells "socket" (made, not connected), "connected", "hungup" |
| PlayerClient (not in `src/`) | `PlayerListens`, `PlayerAnswers` (one receipt per request, START may be refused), `PlayerCrashes`, `PlayerSendsGarbage` |

The faults are `"crash"` (the player goes away, and may come back), `"garbage"` (a
frame with a wrong key, bad JSON or an unknown Cmd) and `"select"` (an error return,
as by a signal: `init_sig` installs handlers without `SA_RESTART`). `MaxFaults`
bounds their number.

`SyncLink` is what the class promises to a single caller: synchronous commands
on one connection. `Phase` and `Connection` are the refinement mapping.

## LightningCastClient and Endpoint

`LightningCastClient` has the client thread and the operations `Open` and `Exit` that
the server and main threads run on it; `Snap == INSTANCE SnapcastComm` gives the
calls into SnapcastComm, whose caller set is the three threads. The variables of
its mailbox are those of the code with the prefix `client_`. `cpc` is the place of
the client thread: `"loop"`, `"select"`, `"busy"` (inside doPlay, doPause or doStop)
are the session, `"leave"`, `"stop"`, `"stopping"`, `"close"` its end. `upc` is the
place of the two users inside `Open`/`Exit`. A message of the session is chosen
when it is read; only PLAY and STOP (PAUSE is the same calls) change control
state. The alive timeout is a choice of `SelectReturns`.

`Endpoint` adds the server thread (one open at a time, the reply, the exit event)
and main's exit sequence, and ends the process when main returns.

## Framing and FrameChannel

A connection is a sequence of cells. The key and the size in the header take one
cell each and a payload has a few; a `read` returns any number of the cells asked
for, a `write` takes any number that fit. The reading side is the same loop in
three classes: `Wanted` is what its next `read` asks for, `BadKey` and `FrameRead` how
it ends.

`FrameChannel` is `LightningCastClient::processSend` with two threads in it. `wpc` is
the place in the call, `left` the bytes not yet written, `server_mutex` its holder.
`Socket`, `Connect` and `ConnectFails` are connectServer, which assigns `server_fd`
without the mutex, so a key may be written to a socket that is not connected:
`WriteBlocks` waits for the connection as a blocking socket does, `WriteError` gives
the message up. `CloseFd` takes the mutex. Android reads with the same code (`doRead`)
or closes (`PeerGoes`).

`FrameQueue` is a FIFO that a new connection empties. The messages sent and not yet
delivered are the queue, so refinement says that frames neither mix nor get lost
or reordered, and none is carried over to the next session.

## LightningCastServer

The thread's loop as `Select`, `At(fd)` (the scan over descriptors), `Accept`, `Stop`,
`BeginRead`, `Read`, `doParse`, `Open`, `CloseConnection`, `ScanEnds`. Descriptors are
numbers that the next accept may use again; `master`, `fdmax`, `read_fds` and `i` are
the code's. `select()` with a closed descriptor in its set fails and the code exits
(`pc = "failed"`). Once in `Read` the thread does nothing else until the frame is
there, refused, or the device has closed. `Open` of the client, which `Endpoint`
models, returns at once here.

## Heartbeat

The same session loop with a clock in nanoseconds. `Tick` passes time only where
the thread waits: in `select()` (`waited` counts towards its timeout), in a call into
SnapcastComm (`"busy"`) or between sessions; computing takes no time. `TimesOut` is
`select() == 0`, `doRead` one message, with a message of each kind that matters: a
heartbeat, one answered by a heartbeat, one not, one that calls SnapcastComm, and
one that ends the session. `aliveTime` is a timespec as the code has it, and
`diff_in_us` the code's, with its borrow and its truncation to microseconds, which
the alive check truncates again to milliseconds: `TooLong` is the silence that is then
one millisecond over the timeout. The history variables only record.

## Messages, JsonReader, JsonValue

jsoncpp's `Reader` (with `Features::all()`, as the endpoint constructs it) and
`FastWriter`, as functions on sequences of bytes: tokens, comments, numbers at the
limits of the integer types, escapes and surrogates, objects and arrays, and the
errors of each. `Value` is a record with its type; `asInt`, `asString` and `operator[]`
give `ok = FALSE` where the code throws. The digits of a double are kept as a
mantissa and an exponent, and printed as decimals (`realToString`). The widths are constants (`maxInt`, `maxLargestInt`).

`Messages` follows one exchange. Android writes a document token by token, in any
spelling the constants give, or one of its messages; the frame holds all of it or a
first part; `ClientReads` or `ServerReads` is `doParse` with all the handlers; then a
key is pressed (`KeyCommand`). `outcome = "terminated"` is an exception that nothing
catches; the members read before stay assigned. A sum of the volume and position
keys that overflows is undefined: it is sent wrapped around, and `KeyCommand` lets the
comparison that follows see either that or the true sum.

## MdnsRecords, MdnsPacket, Mdnsd

`MdnsRecords`: an `rr_entry` is a record in `heap`, a pointer to one its index, a list
a sequence of indices, and a group list a sequence of `[name, rr]`. `Answers`,
`Related` and `RemoveKnown` are populate_answers, the lookups of add_related_rr, and
the removal of known answers. `MdnsPacket` is the packet as a sequence of cells,
one for each label, pointer and field, with the compression table; the parser
follows the pointers back. `Mdnsd` is `main_loop`, one action for each critical
section of `data_lock`, the calls that register records, the notify pipe as a count
of bytes, and `mdnsd_stop` as three steps. `seen` and `believed` are history: the
groups when a query was taken up, and the services the network has been told of.

## ServicePublisher

The publisher thread call by call (`ppc`), the pointer `svr` (which no constructor
initialises: `"null"` or `"garbage"` at first), the interfaces `getifaddrs` finds, and
main after `q` (`mpc`): unregister with mdnsd_stop, `stop_thread`, join. Undefined
behaviour is a choice: a publisher that uses the server after `StopFrees` (`UsesFreed`)
crashes, hangs on a mutex that is no more, or goes on, and a main that follows a
garbage `svr` (`Unregister`) crashes or waits for ever for a 2 in its `stop_flag`.

## Runs

`tlc -config <run>.cfg <module>`; every configuration disables the deadlock check,
because all threads may be waiting for Android, and because the program exits.

| run | instance | checks |
|---|---|---|
| `callers` | two callers, one failure of any kind | `TypeOK`; `SpinFree`: no waiting loop spins with the mutex held; `DescriptorInv`: the socket belongs to do_open; `NoStaleReceipt`: no receipt is left for a later request; `WakeupLostOnlyToStranded`: the worker sleeps over a command only if its notification went to a caller who waits for a receipt that will not come |
| `one` | one caller, two failures, fair | `Handshake` (the inductive invariant of the proofs), `ReceiptMatches`, `CloseTerminates`, refinement of `SyncLink`; `PlaybackAgrees`: what the caller believes is what the player does; `StopCompletes`, `FreshOpenCompletes`, as long as nothing fails |
| `sessions` | Endpoint, two phones, PLAY and STOP, a player crash | `TypeOK`; `PlaysFromSession`: the player is sent to the device whose session asked; `ReplyTruthful`: the reply is about its own request; Endpoint implements SnapcastComm |
| `idle` | Endpoint, one phone, STOP, quit at any time, fair | `ClientSpinFree`, `IsOpenTruthful`; `IdleOpenAnswered`: an open that finds the client thread asleep is answered; `IdleQuitCompletes`: a quit that finds it asleep ends the process, unless an open arrives |
| `frames` | two sessions of two messages, two keys, a buffer of three cells, fair | refinement of `FrameQueue`; `NobodyStuck`: the session ends and main returns to its keys |
| `server` | two devices, two frames, four descriptors, fair | `MasterExact`: master is the open descriptors, none beyond fdmax; `EveryoneServed` |
| `heartbeat` | two and a half milliseconds in quarters, two messages on their way | `AliveTimeoutExact`: given up if and only if silent; `HeartbeatInTime`: a heartbeat goes out within a select timeout of the last, or of the last message not answered by one |
| `messages` | documents of up to two values, 29 messages, all their prefixes | `ReadsWhatIsWritten`, `TruncationRejected`, `WritesReadBack`, `WellTypedHandled`, `SentReadable`, `FieldsAgree` |
| `mdnsd` | no or two addresses, seven packets, quit at any time, fair | `TypeOK`; `AnswersRight`: what was asked for and is not known by name, type and data, apart from what `rr_entry_match` mistakes; `AdditionalComplete`: nothing missing and nothing to spare; `PacketReadable`: the packet parses back to the reply; `GoodbyeComplete`, `FreedOnce`, `Announced`; `QuitEnds`: mdnsd_stop returns, and the process ends unless the publisher was still using the server |

Three runs end in a counterexample: each checks a sentence of the repository that
the code does not keep. They are described under
[divergences](#where-code-and-text-differ).

### Bounds

*SnapcastComm, Endpoint.* The mailbox has one slot and every caller has at most one
call under way, so two callers show every overwriting and every misdirected
notification; the third of `Endpoint` is there because the program has three. Two
addresses distinguish "this request" from "another one". Nothing else counts: the
queues to and from the player are bounded by the callers waiting (`NoStaleReceipt`),
apart from garbage, which `MaxFaults` bounds. One failure at any moment reaches
every partial-failure state; the second of `one` lets a failure hit the recovery of
the first. The fair runs have one caller or one phone and no symmetry. `idle` has
STOP but no PLAY, and `sessions` no quit, to stay well below five minutes.

*FrameChannel.* A frame has three or four cells and the buffer three, so main's frame
never goes in one write; its payload begins with the header key, so a reader that
slips into it would find a plausible frame. Two sessions show what one leaves to the
next.

*LightningCastServer.* The eventfd is below the listener and two numbers are left for
connections, one between them and one above, so fdmax moves and numbers are used
again. Devices send a good frame, a frame the server refuses and a bad header.

*Heartbeat.* TLC's integers end at 2^31, so the timeouts are scaled to 1 and 0.500002
milliseconds and the clock starts just before the end of a second. Its steps are
250001 ns, so instants are neither whole microseconds nor whole milliseconds: the
nanoseconds borrow and do not, and both truncations lose something. Two and a half
milliseconds hold a give-up and the beginning of the session after it.

*Messages.* Integers have 12 and 16 bits (`int` and the largest), so their limits are
inside the numbers written: the widest unsigned and one more, the least integer.
Words of the protocol are a byte or two. The scalars are chosen where the reader
branches (limits, a double, a surrogate pair, raw UTF-8, escapes).

*mdnsd.* The packets are a query for two names of which one is compressed, browsing
with a unicast question, a known answer with just enough and just too little time
to live, a known address, a response, and a packet cut off. The publisher finds
no address or two; a host with one goes the same way with a step less. Packets
arrive without limit.

### Fairness

Weak fairness of each thread: the operating system runs every thread that can
run, and `std::mutex` critical sections are short. Weak fairness of
`PlayerListens` and `PlayerAnswers`: the player is started sooner or later and
answers the requests it reads. `FrameChannel`: Android reads what it is sent or
goes, and the steps that take `server_mutex` are strongly fair, because the other
thread leaves it free for long: keys come from a person and heartbeats are half a
second apart. `LightningCastServer`: what a device has begun to send arrives, unless
it closes; without that, one device that sends half a header would keep all others
waiting. No fairness for anything else Android, the user, the network or a
failure does, nor for spurious wake-ups.

## Where code and text differ

Runs that end in a counterexample:

| run | sentence | what happens |
|---|---|---|
| `replay` | README.md:29 "Upon receiving a `play` message, it calls the `Open` and `sendStart` interfaces" | `Open` does not write `wake_fd`: a second play while connected waits for a worker in `select()` for ever |
| `stop` | LightningCastClient.cpp:241 "Stop snapcast" | the session ends and the player plays on |
| `quit` | LightningCastDeviceSample.cpp:66 "Press q and enter to exit" | an open handled after EXIT waits for a thread that has returned; main never joins it |

Others met while modelling, seen in counterexamples and not kept as runs:

- SnapcastComm.cpp:182, against README.md:29 ("When a `pause` or `stop` message is
  received, it calls the `sendPause`, `sendStop`, and `Close` interfaces"): if the player
  dies before it answers STOP, nothing signals `LockWait` and `Close` is not reached.
  `StopCompletes` therefore supposes a player that stays.
- SnapcastComm.cpp:87: two `Close` of two threads posted over each other are
  acknowledged by one `notify_one`, and one of the threads stays asleep; if it is the
  server thread its open is never answered.
- SnapcastComm.cpp:94, against README.md:33 ("The `Close` interface terminates the
  connection with PlayerClient"): `LockfinishCmd` of an `Open` wipes a CLOSE that
  another thread posted meanwhile. `CloseTerminates` holds with one calling thread
  (`one`, and for ever by the theorem `CloseReallyTerminates`) and fails with three, and
  the program has three.
- tinysvcmdns.cpp:1343 ("remove our replies if they were already in their answers"):
  `rr_entry_match` compares the data of PTR records only, so an address that the
  querier does not know is left out because it knows another one of the same name.
  `AnswersRight` knows records by name, type and data, and leaves these (`Mistaken`)
  open; without that exception it is violated by a host with two addresses.
- README.md:29 ("sending heartbeat packets every 500ms"): only while Android is
  silent. `HeartbeatInTime` says what is true.
- LightningCastServer.cpp:399: a quit that comes before `svr` is assigned either
  follows a garbage pointer or does not stop the responder, and a service announced
  after that is never taken back; a quit in the middle of a registration frees the
  server under the publisher's feet. `GoodbyeComplete` and `FreedOnce` are about a
  responder that is stopped, and `QuitEnds` about a quit that finds `svr` set and, for
  its second half, a publisher that is done with the server. In the other cases "Press
  q and enter to exit" (LightningCastDeviceSample.cpp:66) may not come true: the
  process may crash, or wait for ever on what is no server any more.

## Proofs

`SnapcastCommProofs`, for every finite set of callers, any servers, any faults:

- `TypeCorrect`: `Spec => []TypeOK`.
- `NeverSpins`: `[]SpinFree`, inductive by itself.
- `DescriptorOwned`: `[]DescriptorInv`, inductive with `TypeOK`.
- `WakeupLost`: `[]WakeupLostOnlyToStranded`, from `WakeupInv`. Who sleeps on `cond`
  besides the worker is in `LockWait`, and a delivered receipt has woken one of those;
  so a notification that misses the worker has woken another one (`PostWakes`), and
  one more is in `LockWait` than there is a receipt for.
- `NeverStale`: `[]NoStaleReceipt`, inductive with `TypeOK` and `DescriptorInv`. The step
  that sends a request adds one message and one waiting caller; `LockWait` takes
  `pending` and one caller away; the receipt replaces the request. The lemmas
  `GenuineAppend`, `GenuineTail` and `WaitingMoves` say how the two cardinalities change.

The second half of `SnapcastCommProofs` is about any one caller (`Callers = {c}`):

- `HandshakeKept`: `[]Handshake`, the inductive invariant of the protocol. It is
  needed because `CloseTerminates` does not follow from a step alone: it rests on
  which command can be in the slot for each place of the caller, and on
  connectServer running only while the caller is in `Open`.
- `CloseReallyTerminates` (an action property) and `Refinement` (`Spec => Sync!Spec`) from it.
- `ReceiptsMatch`: from `Answering`, which says that everything on the wire answers
  what the caller asked; that a new request finds the wire empty is
  `NoStaleReceipt` with nobody waiting.
- `PlaybackKnown`: `[]PlaybackAgrees`, from `PlaybackInv`: what the caller knows of the
  player at each place of a call as long as nothing has failed. Outside a call,
  connected means playing; while it waits for a receipt, the receipt on the wire, and
  then `send_start_result`, tell whether the player started. It needs `Answering`,
  because a receipt of another request would tell nothing.

`EndpointProofs`, for any addresses, messages and failures:

- `TypeCorrect`: `[]TypeOK`, where the types of SnapcastComm's part come from
  `SnapcastCommProofs`, step by step.
- `Refinement`: `Spec => ImplementsSnapcastComm`: the program makes its calls into
  SnapcastComm only as `SnapcastComm` lets a caller make them. What has to be known for
  it (`Base`) is that nobody passes an address before there is one: `serverIP` is
  uninitialised until the first open, and until then there is no session and nobody
  inside SnapcastComm (`AddressInv`); and that the server is inside the client's `Open`
  exactly while it handles an open message (`CallInv`).
- `Inherited`: so `SpinFree`, `NoStaleReceipt` and `DescriptorInv` hold in the program.
  `SnapcastCommProofs` is instantiated with the program's threads, and its theorems
  apply because the refinement makes its specification true.

And of its sessions:

- `AnswersTruthfully`: `[]ReplyTruthful`, from `AnswerInv`: the client works on an OPEN
  only while the server waits for it, and `serverIP` is then the request waited for.
  That is what makes it safe to read `is_open` after the wait without the mutex.
- `IsOpenTells`: `[]IsOpenTruthful`. `is_open` is never set without a session (`SpanInv`); and
  until the user quits only the server posts, and posts OPEN only after it has closed
  the session it found, so the session stays open, and `serverIP` the address it is
  connected to, as long as messages are handled (`CommandInv`).
- `ClientNeverSpins`: `[]ClientSpinFree`, inductive by itself.
- `PlaysFromItsSession`: `[]PlaysFromSession`. The client thread is inside SnapcastComm only
  while it handles a message or ends a session, and it ends one with a stop
  (`PlayInv`); so the session cannot change under a play.

`FrameChannelProofs`, for any messages, capacities, and ways to split frames:

- `TypeCorrect` and `Refinement`: `Spec => ImplementsFrameQueue`. The wire, the bytes read
  so far and the bytes a thread has still to write are the frames of the messages in
  the queue, one after the other (`WireInv`). "One after the other" is said with the
  positions at which frames end (`Framed`), not by recursion, so that the lemmas
  `FramedAppend` and `FramedFirst` (one more frame at the end, one less at the front)
  need no induction. `LeftInv` says that a frame is begun only on a connection, which is
  what makes the `server_fd` that is read without the mutex harmless; `ConnectionInv`,
  that neither thread that may close the descriptor finds it connected halfway.

`ServicePublisherProofs`, for any packets other hosts may send and any interfaces. Its
invariants are each inductive given those before it:

- `FreesOnce`: `[]FreedOnce`. `ControlInv` relates the places of main and of the detached
  thread: `stop_flag` is 2 if and only if the thread has ended, and nothing is freed
  before. `RegistryInv` says that the groups hold every record that was created, each
  once and in the group of its name, two groups never having the same name; so
  destroying the groups frees every record once (`DestroyedOnce`).
- `GoodbyeToAll`: `[]GoodbyeComplete`. By `RegistryInv` the list of services has every PTR
  of a type, and what anybody believes in is such a record (`ReplyInv`); so the reply of
  the goodbye lists all of it, and the time to live of all of it is 0. That the packet
  is sent at all needs the count of the reply to be the length of its list.
- `AnswersAll`: `[]AnswersRight`. What was asked and registered when the query came is in
  the reply, or a lookup that is left will find it (`AnswerInv`), although records are
  registered between the lookups; the removal of known answers takes out those whose
  first match among the known answers is young enough, and unless rr_entry_match
  mistakes one record for another that match is the record itself (`DroppedKnown`).
- `AdditionalAll`: `[]AdditionalComplete`. `AdditionalInv` says the same of the records that
  add_related_rr has walked so far, and that nothing is in the list without need: a
  record is added because one that cannot be left out needs it (`NothingSpareGrows`).
- `TypeCorrect`: `[]TypeOK`, from all of them. That the position in the walked list stays
  within the memory's length is the pigeonhole `ShortList`: no record is listed twice.
- `PacketsReadable`: `[]PacketReadable`, from `WritableInv`: every record in memory can be
  written, its name a list of labels and its data what its type says, through every
  registration and through the goodbye, which changes times to live only. The rest is
  the round trip `PacketRead` of `MdnsPacketProofs`, for any list of such records.

`MdnsPacketProofs` is about the operators of `MdnsPacket` alone. What makes compression
right is an invariant of the encoder (`Compressed`): each suffix in its list begins, at
the position remembered, with a label, and reads back from there (`Reads`). Reading
touches only labels, roots and pointers, and the only cell that is changed after it
was written is the length of a record, a field (`Keeps`, `EntryKept`); so what could be
read before can be read in everything written later. A new name is labels up to a
root, or up to a pointer to a suffix that reads back (`NameWritten`); so it reads back,
and so does every suffix it adds (`EncodedName`). A suffix in the list is never longer than
what is written (`EntryAt`), so `uncompress_nlabel`, which copies one label at a time,
is at the root after at most as many labels as the packet has cells
(`UncompressedName`). Then a record (`EncodedRecord`, `RecordRead`), and by induction
on their number all records of a packet (`EncodedPacket`, `ReadAll`). Of SRV and NSEC
records the reader skips the data, as the code does, so nothing is said of it.

They rest on `MdnsRecordsProofs`, which says what the operators on lists and groups do for
any lists. `Kept`, `rr_group_addAll`, FlattenSeq and the loops of `MdnsPacket` compute by
recursion over a list. They are written as recursive functions; that such a function
exists and what it yields is proved by induction on the length, with the sets of lengths
for which it holds as the induction predicate (`Induction`, from the well-foundedness of
`<`).

`LightningCastServerProofs`, for every set of devices, every size of the
descriptor table and every numbering of the eventfd and the listener:

- `MasterAlwaysExact`: `[]MasterExact`. By itself it is not inductive: closing `i`
  keeps it only because the loop reads from a connection (`LoopInv`) and no connection
  has the number of the eventfd or the listener (`ConnInv`); and accepting only gives
  a connection to a device because a listener that select() found ready
  is still ready when the scan gets to it (`BacklogInv`).
- `SelectNeverFails`: so select() never meets a closed descriptor, and the
  `exit(1)` behind it is never reached for that reason.

`HeartbeatProofs`, for all timeouts, clocks and orders of messages:

- `DiffInUsExact`: of the timespecs of any two instants, the borrow of nanoseconds
  and the truncation give the whole microseconds between them, rounded down, also
  when the difference is negative; the alive check's milliseconds are those of the
  difference itself (`Milliseconds`), so truncating twice loses no more than once.
- `AliveCheckExact`: `[]AliveTimeoutExact`, and `HeartbeatsKept`: `[]HeartbeatInTime`.
  The invariant behind both counts the silence from the last timeout of select()
  (`SelectInv`: `clock - waited`), because that does not change while time passes in
  select(); and it ties `aliveTime` to the last heartbeat (`AliveInv`): it is not older,
  unless the heartbeat is still unread. A timeout of select() means that nothing
  is unread, so there the check speaks about Android and not about the inbox.

The proofs assume only the assumptions of the modules: the worker of `SnapcastComm`
is not a caller, the set of callers is finite, `NoServer` is not a server, `MaxFaults`
is a natural number; the four threads of `Endpoint` are four; the two threads of
`FrameChannel` are two, the data are sequences of natural numbers (bytes, and sizes that
fit), and the buffer holds at least one cell; the eventfd and the listener are
different descriptors of the table; the packets have numbers for counts and times to
live (`PacketsAssumption`); the timeouts are positive, and select()'s is a
whole number of steps of the clock.

Only model-checked: every liveness property (fairness is out of the prover's reach), so
also `EveryoneServed`; and the six invariants of `Messages`. What jsoncpp's reader and
writer compute for every document is an induction over documents, and `JsonReader` and
`JsonValue` declare recursive operators, so that no theorem can be stated in a module
that uses them: `ReadsWhatIsWritten`, `TruncationRejected`, `WritesReadBack`, `SentReadable` and
`WellTypedHandled` say it of the documents enumerated. `FieldsAgree` compares the handlers
with the fields of one enumerated message at a time, read by the same reader.

## What is not modelled

- `socket()`, `bind()`, `listen()` (`create_recv_sock` of both), `eventfd()`, `accept()` and
  the server's `select()` failing: the program ends or logs.
- What is written beyond an fd_set by a descriptor of FD_SETSIZE or more, and
  what a failing `recvfrom` leaves in the responder's buffer: memory the models do not have.
- mdnsd: the IPv6 host name (`mdnsd_set_hostname_v6`, `rr_create_aaaa`, which nothing in
  the program calls), packets that exceed the buffer, the authority and additional
  sections of what it receives (the code does not use them), an interface whose
  `ifa_addr` is null (LightningCastServer.cpp:353 does not test it).
- jsoncpp: `StyledWriter`, `StreamWriter`, `CharReader`, `OurReader`, `Path`, the strict
  features, comments kept in values, error messages, and 64-bit or real accessors,
  none of which the program reaches; the nesting limit of 1000 (jsoncpp.cpp:394,
  beyond it an exception ends the process); the printing of doubles, which the
  program does not send. This is most of the code of the repository.
- The text of log messages and what is printed of the fields.
