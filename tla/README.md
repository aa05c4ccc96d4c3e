# simple_uv: a verification development

TLA+ models of simple_uv (`src/src/simple_uv`), a C++ wrapper of libuv: threads that
exchange messages, a TCP server and a TCP client on event loops. The modules are
translated from the source; `PROJECT.json` maps every definition to the lines it
stands for. Paths below are relative to the repository; `simple_uv/` is
`src/src/simple_uv/`.

## 1. The system

| part | state | operations | interacts with |
|---|---|---|---|
| `CPodCircularBuffer` (`PodCircularBuffer.h`) | array, read and write position, empty and full flag | `write`, `read`, `clear`, `size` | the client's send path, under its mutex |
| `CThreadMsgBase` (`ThreadMsgBase.*`) | tail of a circular linked list of `NodeMsg`, a mutex | `PushBackMsg` from any thread, `DispatchThreadMsg` on one | base class of `CUVThread` and `CTCPHandle` |
| `CUVThread`, `CUVThreadMng` (`UVThread.*`, `UVThreadMng.*`) | the manager's map of threads and its rwlock; every thread's own map; the one registered event loop handle | `Start`, `OnInit`, `OnExit`, `RegistThread`, `UnRegistThread`, both `SendUvMessage`, `SendUvMessage2Handle` | mailboxes; `uv_async_send` into a loop |
| `CTCPHandle` (`TcpHandle.*`) | loop, two async handles, the socket, `m_bIsClosed`, `m_bIsUserAskForClosed`, a mutex | `init`, `run`, `AsyncCloseCB`, `AsyncRecvMsg` | base class of server and client |
| `CTCPServer`, `AcceptClient` (`tcpserver.*`) | map of clients, pools of contexts and of write requests | `Start`, `Close`, `AcceptConnection`, `AfterRecv`, `AfterSend`, `closeinl`, the close callbacks | libuv callbacks on the loop thread; the user's thread |
| `CTCPClient` (`tcpclient.*`) | send ring, pool of write requests, connection and reconnect state | `Connect`, `Send`, `Close`, `send_inl`, the callbacks, `ReconnectTimer` | sender threads and the loop thread share ring and mutex |
| `CPacketSync`, `net_base.h` | two buffers, what is parsed, the current head | `recvdata`, `PacketData2` | called by both `AfterRecv`, calls `ParsePacket` |
| `BaseMsgDefine.*` | - | allocation of contexts and write requests | server and client |
| `UVMsgFraming.*` | a length-prefixed framing; only its `NodeMsg` is used | | |
| `uvtest/`, `testclient/` | the sample gateway's session map, a sample thread | `OnUvMessage`, `OnUvThreadMessage` | compose server, thread and client |
| `SimpleLocks.h`, `LogMng.*`, `log4z.*`, `DumpFile.h`, `libuv/` | wrappers and vendored code | | |

### What is hard in it

* **Unlocked accesses.** The dispatcher polls the tail of its list and walks the
  detached list without the lock; `RegistThread` iterates the manager's map without it;
  flags are read and written by the loop thread and the user's.
* **Callbacks and threads.** The loop thread runs callbacks in an order libuv fixes (poll,
  then the close callbacks, last closed first), user threads signal it with
  `uv_async_send`, which coalesces signals.
* **Ownership.** Contexts and write requests go back and forth between pools, clients and
  libuv on several paths, error paths included; node addresses are reused.
* **Locks across callbacks.** `closeinl` and the close callbacks use one mutex on one
  thread.
* **Copied handles.** The client connects a struct copy of the handle that the loop knows;
  libuv finds its handles by links inside these structs.
* **Cut streams.** TCP delivers a stream in portions of any size; the parser keeps a part of
  a packet in one of two buffers and goes back behind a false head.
* **Retries.** `Connect` gives up after ten seconds while the loop may still report; the
  reconnect timer initialises a handle that an earlier attempt left behind.
* **Progress.** A full ring, a closing server, a message to a loop: who wakes whom?

### What makes each part correct

* buffer: a bounded first-in first-out queue whatever the wrap-around;
* mailbox: each message delivered once, in order; no node lost, leaked or freed twice;
* registry: each thread comes to know the others, and forgets those that left;
* client, sending: the peer gets the accepted bytes in order, none is left in the ring,
  `Send` returns, no request is filled while libuv still sends it;
* client, connection: `Connect` reports what happened, a lost connection comes back, a walk
  over the handles finds each once, `Close` ends the loop;
* server: a context serves one client at a time, pools are bounded, every connection is
  looked after, closing ends, clients are served;
* framing: every packet of a connection is called back once, however its bytes are cut and
  whatever the parser got before, and no copy leaves a buffer. (The code keeps the second
  part for connections that find an empty parser, `framing_reuse`, and the last one for
  packets that an int can count.)

The hazards that follow from this are listed, at their lines, in `PROJECT.json`.

## 2. Modules

| module | models | how |
|---|---|---|
| `BoundedFifo` | what the buffer promises | the abstract specification; `arg`, `ret` and `out`, what the last call was given, returned and copied out, are part of what is observed, so that a write must store the elements it was given and not just as many |
| `PodCircularBuffer` | `CPodCircularBuffer<T>` | one action per call; one operator per memory layout of `write` and `read`; `size` as in the code |
| `MsgQueue` | what a mailbox promises | the abstract specification |
| `ThreadMsgBase` | `CThreadMsgBase` | one action per stretch of code between two accesses to shared state; memory as a set of addresses that are reused |
| `ThreadRegistry` | `CUVThreadMng` and the registration, deregistration and sending of `CUVThread` | iterators over a map that others change; mailboxes are the queues of `MsgQueue` |
| `TcpClientSend` | `CTCPClient::Send`, `send_inl`, `AsyncCloseCB`, `AfterSend`, the send part of `AfterRecv` | the ring is the queue of `BoundedFifo`; the loop thread runs one callback at a time, with a program point where it waits for the mutex |
| `TcpClientLife` | `init`, `Connect`, `AfterConnect`, `AfterRecv` at the end of a connection, `AfterClientClose`, `ReconnectTimer`, `Close`, `closeinl` of the client; `uv_walk` and the handle queue of libuv | one action per callback; the queue link by link, because a struct copy is taken out of a queue that it is not in |
| `PacketFormat` | `NetPacket`, `CharToNetPacket`, `PacketData2` and what is a packet at a place of a string | pure operators, shared by the next two |
| `PacketFramer` | what the parser promises | the abstract specification: one pass over the stream that gives up a byte only where no packet can begin |
| `PacketSync` | `CPacketSync::recvdata`, and what `AcceptConnection` and the client's reconnection do to a parser that is used again: nothing | one action per outcome of a round of its loop; the stream is fixed, `given` and `copied` are places in it |
| `TcpServer` | `CTCPServer`, `AcceptClient`, `CTCPHandle` | one action per callback; the two phases of a loop round; the user's thread |
| `SequenceFacts` | | lemmas about sequences without repetition, concatenation, the least and greatest element of a set, and induction; used by five of the proofs |

`<module>Proofs` holds the theorems about a module, `MC<module>` the values of its constants
for TLC. How they compose: `PodCircularBuffer` is shown to implement the queue that
`TcpClientSend` uses for the ring, `ThreadMsgBase` the one that `ThreadRegistry` uses for
every mailbox, and `PacketSync` the parser a context of `TcpServer` has.

Some definitions are preceded by a variant with a fault in it ("A fault: ..."): each is a bug
of the kind the code could have, named in `PROJECT.json` under "mutants" with the property
that notices it. They are not used by any specification.

### Correspondence of state

Variables have the names of the members they stand for (`m_bEmpty`, `m_pMsgTail`,
`m_mapThread`, `m_mapClientsList`, `parsetype`, `headpos`, ...). The others are

* program points: `pc`, `dpc`, `lpc`, `upc`, `running`, and local variables: `first`, `nxt`,
  `req`, `node`, `it`, `writep`, `cur`;
* libuv's state as the code relies on it: `pending`, `posted` and `signalled` (a coalesced
  async signal), `handle` and `srv` (none, open, closing), `closing` (the handles whose close
  callbacks are due), `inflight` and `queued` (unfinished writes), `backlog`; of the client's
  connection `next` and `prev` (the links of the loop's handle queue), `sock` (how far the
  socket is), `request` (a connect request waits), `closeCb`, `closed`, `timer`;
* the peer: `listening`, `conn`, and `stream`, what arrives; `given` and `copied` say how far
  `recvdata` was called with it and how far it has copied it, for its arguments `data` and
  `len` and its local `iret`;
* what the code must not reach: `ub` (an erased node was used), `aborted` (an assertion of
  libuv failed), `confused` (a close callback took a `TcpClientCtx` for a `CTCPClient`),
  `overlong` (the parser read the header of a packet that an int cannot count);
* history, used by properties only: `ring` and `batch` of the mailbox, `order`, `seen` and
  `told` of the registry, `accepted`, `received` and `dropped` of the client's sending,
  `found`, `renewed` and `everUp` of its connection, `delivered`, `began`, `earlier` and `stale` of the parser.

A buffer of the parser is the sequence of its bytes that count: the first `truepacketlen`
of `thread_readdata` and the first `getdatalen` of `thread_packetdata`; `readlen` and
`packetlen` are the sizes they were allocated with.

What is abstracted: bytes are members of small sets, or (sender, call, position) triples
where their order matters; a message's type, payload and source are one value; of a packet's
header only the four fields that are tested are kept, each as one byte of the model, the
MD5 as a digest; sleeping and trying again is an action that is not enabled; a handler's own
work is left out except its sends; logging and error texts are left out.

`ThreadRegistry` starts, in its passing run, from the state that one thread reaches when
it registers alone (`MCInit`), a reachable state of `Init`: the three-thread run from the
empty map would only add that prefix. The theorems start from `Init`.

The server model assumes what `Start`'s callers do (no `Start` on a running server, a
free port) and that `uv_tcp_init` and `uv_accept` succeed; `uv_read_start` and the
`uv_write` of a reply may fail. A client and a server may be closed in the same round of the loop; both then call `uv_close`
on one handle, against libuv's assertion: that ends a behaviour (`aborted`).

The parser of a context is not in `TcpServer`. A context that is reused keeps the parser
of its last client, and a client that reconnects keeps its own. `PacketSync` follows one
parser: its stream is what it gets from one connection after the other, and `NewConnection`
may come whenever `recvdata` has returned. `DeliversAll` is about the packets of each
connection, for those that find the buffers empty; `stale` marks the others, whose first
bytes are read as the rest of a packet that somebody else began. That these are not served
as the documentation says is the finding of `framing_reuse`. `ImplementsFramer`, `HeldInStream`
and `RoundTrip` are about all the bytes the parser gets.

The fields of a header are unsigned, and `datalen` may be any of them. `recvdata` computes
with it as `size_t` and as `int`. In the model both are exact up to `MaxInt`, and `InBounds`
says that nothing greater occurs; a header whose packet an int cannot count (`Countable`) is
read by an action of its own, `HeaderOverlong`, which ends the behaviour: the copies that
follow in the code have lengths that were negative, and what they do is undefined. All
properties of the parser are stated up to there.

After a connection is made `uv_read_start` may fail in `TcpClientLife` too (`Connected`): the
socket is then `deaf`, open and not read, the status an error, and yet the reconnection counts
as done, so that nobody notices the next loss. The vendored `uv_read_start` has no error for
such a handle (`libuv/src/unix/stream.c:1503`, `libuv/src/win/stream.c:68`), so this is what
the code does with a libuv that has one.

`TcpClientSend` has a connection that is up; on libuv's unix port the client does not get
that far (`client_connect`, section 3), so it describes the port to Windows.

## 3. Runs

`tlc -config <run>.cfg <module>` inside this directory.

| run | expects | shows |
|---|---|---|
| `ring` | pass | the buffer implements `BoundedFifo` in every layout |
| `mailbox` | pass | the mailbox implements `MsgQueue`; its pointer structure and ownership; everything linked is delivered |
| `registry` | pass | the earlier of two threads learns of the later one; a thread learns of whatever was in the map when it began; leavers are forgotten |
| `registry_race` | violation | two threads that start together: the later one never learns of the earlier one |
| `client_send` | pass | order and completeness of the stream through a full ring and a lost connection; nothing stays in the ring; `Send` returns |
| `client_send_large` | violation | `Send` of more than the ring holds may never return |
| `client_life` | pass | what `Connect` returns; what the callbacks find in `tcphandle.data`; the walk over a queue that a struct copy damaged; the reconnection; from when on `Close` ends the loop |
| `client_connect` | violation | on the unix port the copied handle is never polled and `Connect` reports nothing |
| `framing` | pass | the parser implements `PacketFramer`; it has delivered exactly the packets of a connection whenever it returns, if it began with empty buffers; up to an overlong header its copies stay in their buffers, and it returns |
| `framing_reuse` | violation | a context is reused while its parser is in the middle of a packet: the next client's packet is held back as the rest of it |
| `server` | pass | ownership of contexts and handles, limits, and what comes to an end |
| `server_close` | violation | `Close` with a client connected locks the mutex twice on the loop thread |

Each violation is a finding of `PROJECT.json`, with the line of documentation it is measured
by. `server_close` is about the unix port: the Windows one has a recursive mutex, with which
the loop thread goes on.

The models reach four more states in which the code goes wrong, for which the documentation
has general promises only and which have no run of their own; the passing runs go through
them, and the properties name them as exceptions:

* a message to the handle of a server (`AsyncRecvMsg`): `DispatchThreadMsg` never returns to
  libuv, and the server accepts, reads and closes nothing any more;
* `Close` of a client whose lost connection is being closed (`confused`): `closeinl` switches
  `tcphandle.data` back before the close callback reads it, so `DataFits` holds until
  `Close` only; in a first connection a closed timer may be started (`aborted`);
* a client that leaves in the round in which the server is closed (`aborted` of `TcpServer`);
* the header of an overlong packet (`overlong`).

And two orders are in the models that no property speaks of: a report of `AfterConnect`
that `Connect` overwrites with its timeout (it returns false of a connection that was made;
`TrueMeansConnected` is the other direction), and a thread that has read the manager's map
before a leaver left and enters after the leaver's notices (`LeaverForgotten` is about the
threads that got one).

### Bounds

* `ring`: 4 slots, arguments of up to 5 elements: every layout with free or unread space
  of 0 to 4 on each side, and arguments that do not fit. The theorems have no bound.
* `mailbox`: two senders and the dispatcher, three node addresses, two messages: a push can
  be under way while another waits and a batch is walked, and a freed address comes back in
  the next ring. The theorems have no bound.
* `registry`: three threads, one before and one after the thread that runs in the order of
  the map, so that iterators pass nodes that come and go on both sides; one application
  message at a time (`MaxApp`), enough to show it harms no registration. The theorems hold
  for any number of threads.
* `client_send`: two senders, a ring of two bytes, messages of one or two bytes, one call
  each, one lost connection (`MaxReset`), a list limit of 0 (`MAXLISTSIZE`, 20 in the code)
  so that both sides of its test are taken; three requests, more than can be in use at once
  with a ring of two bytes and two messages.
* `client_life`: one call of `Connect`, a server that goes away or comes back up to four
  times (`MaxFlap`): enough for a loss, attempts that fail, one that succeeds and another
  loss, so that the timer initialises the handle from every state it can be left in. A call of
  libuv that fails counts as one of the four. An attempt is answered before the timer, which
  repeats, comes again. `OnUnix` chooses the port of libuv.
* `framing`: streams of two pieces, and of two pieces and a whole packet; a piece is an
  empty packet, one of one byte, one whose data are a head and a tail, one with a wrong
  tail, one with a wrong check, one with a whole packet inside a broken one, an illegal
  header, a cut-off header, a cut-off packet, an overlong header or noise. Every division of
  each into calls of `recvdata` is tried, and a new connection after any of them. Buffers
  begin with six bytes, so that both have to grow (`BUFFER_SIZE` is 1024*10 in the code); a
  byte is one of 16, and the largest int is 12: it counts the longest packet of the streams,
  but not the overlong one. The theorems have no bound on any of these. `framing_reuse` has
  the same bounds.
* `server`: three connections over three contexts with a pool limit of 0, so that contexts
  are kept and freed, up to two unfinished writes, two starts, one message to the handle.
  Connections come only after `Start` has returned, which shares nothing with the callbacks
  but `m_nStartsSatus`. The theorems hold for any of these numbers.

### Fairness

Threads that can run are scheduled (weak fairness of their own steps). Nobody has to call
`Send`, `Start`, `Connect`, `Close` or `recvdata`, to connect, reply or leave. Strong
fairness is assumed where the system gives it: a callback of the server's or the sending
client's loop, because a poll of libuv calls back for everything that is due before it goes
on, so that others cannot put it off for ever; and, in `TcpClientSend`, a thread that waits
for a mutex whose holder unlocks it and then sleeps 100 ms or waits in `epoll`.
`TcpClientLife` needs weak fairness only: what is due stays due until its callback has run;
an attempt to connect is answered in the end, by the server or by the system's timeout.
`ThreadMsgBase` needs no more than weak fairness: that is enough for delivery because the
bound on the addresses makes the pushers stop, so the claim there is for finitely many pushes
outstanding. `PacketSync`: a thread that is in `recvdata` runs on.

## 4. Proofs

`tlapm <module>.tla`. Nothing is assumed but the constants' assumptions in the modules
(the ring has at least one slot, the dispatcher is not one of the senders, `NULL` is no
address, nobody is called `Free`, the parser's buffers hold a header, ...).

`PodCircularBufferProofs`:

* `TypeCorrect`, `FlagsCorrect`: the conjunction of `TypeOK` and `FlagsAgree` is inductive;
  `write` and `read` choose their layout by the positions alone, so neither half is
  inductive without the other: positions that are equal while neither flag is set would
  make `write` treat unread data as free space. One lemma per operation, one step per layout.
* `ImplementsBoundedFifo`: its refinement mapping keeps the argument and the results of
  each call and sends the array to the sequence of its unread slots. Two lemmas say when a
  step appends a prefix to the contents (`AppendStep`) and when it removes one (`DropStep`),
  slot by slot; every layout is shown to be an instance of one of them.

`ThreadMsgBaseProofs`:

* The inductive invariant `IInv` is `TypeOK`, `LockInv`, `RingInv`, `WalkInv` and `OwnedInv`
  together. None is inductive alone: that the walk ends at `first` (`WalkInv`) needs that
  no node of the batch was freed or linked again (`OwnedInv`), which needs that links are
  made under the lock (`LockInv`) and that the ring is well-formed when it is detached
  (`RingInv`). One lemma per action; each conjunct is a theorem (`TypeCorrect`,
  `MutualExclusion`, `RingCorrect`, `WalkCorrect`, `OneOwner`).
* `ImplementsMsgQueue`: linking a node is the push, fetching it is the delivery, every
  other step leaves batch and ring, read as one queue, unchanged.

`ThreadRegistryProofs`:

* What a thread will know of another once its mailbox is empty (`Knows`) is a matter of the
  last message about it (`LastDecides`); so appending a message decides about the thread it
  names and no other (`AppendKnows`), and handling the first message changes nothing
  (`TailKnows`). These three carry the data part.
* The invariant says of every iteration under way what holds of the threads its iterator
  has passed: those that a registering thread has told know it (`LearnInv`), it knows those
  it has read (`SnapInv`), those that a leaving thread has told forget it (`LeaveInv`); and
  that whatever the histories name has entered the map once (`EnterInv`, `StageInv`), so
  that no thread comes back after it has left.
* `LaterIsAnnounced`, `SnapshotCorrect`, `LeaverIsForgotten` follow when the iterator has
  reached the end. `LockedWalkSafe`: the iteration of the broadcast at the end, which is
  under the write lock, never stands at an erased node; only the two unlocked ones can.

`TcpClientSendProofs`:

* `OneOwner`: the free list, libuv's queue and the hand of the loop thread have no request in
  common (`ParamInv`). `TypeCorrect` needs it: the error path of `send_inl` puts a request
  back with no look at the length of the list, and the list keeps its limit only because a
  request in hand has made it one shorter or was allocated while it was empty.
* `StreamIsComplete`: what was received and what is on its way are, in this order, what the
  ring took (`Stream`), until a write is dropped. Every step of the loop thread moves bytes
  from one place to the next (`JoinedMoves`); that none is filled over needs `OneOwner`.
* `StreamIsInOrder`: when writes are dropped, the stream is what the ring took with gaps
  (`Embeds`). That its places also increase needs that no byte is accepted twice
  (`FreshInv`): what a call has still to write is numbered behind what it has written.
* `RingExclusive`: the ring is touched by the holder of the mutex only. `NoSignalLost`: while
  there are bytes in the ring, the loop is about to read it, or a signal is pending, or a
  sender has still to signal (`Woken`), unless the user asks to close. It has the hypothesis
  that no message is longer than the ring (`Fits`); `client_send_large` shows that it is
  needed.

`TcpClientLifeProofs`:

* `ConnectHonest`: the status says finished only after `AfterConnect` has said so, in every
  interleaving with the timeout. `DataCorrect`: the stages of the socket decide which object
  `tcphandle.data` is, until `Close`.
* `LifeTypes` and `WalkCorrect`: the loop's queue has one of three shapes (`QueueInv`: its
  links as `init` made them, cut by closing the copy, or with the copy linked in again), and
  a walk is at one of six places in one of them (`WalkInv`). Each step is shown to go from
  one of these to another; what the walk has found is then one of three lists.
* `CloseComplete`: after the walk a client that has reconnected is closed and stays closed.
  `AbortOnlyFirst`: libuv's assertion can fail only if the client is closed in its first
  connection, whose copy the walk does not find.

`PacketSyncProofs`:

* The inductive invariant places both buffers in the stream: `thread_readdata` is the piece
  from `place` on (`ReadInv`), and while a packet is collected `thread_packetdata` is the
  piece from `body` on, behind a legal header at the first head (`CollectInv`). `InBounds` is
  part of it: that no copy leaves a buffer needs the header to be in `thread_readdata`, and
  that needs the copies to be what the counters say. That every conversion to int is exact
  follows from the sizes: `headpos` is less than `readlen`, which grows only to the length of
  a packet whose header was `Countable`. It holds up to an overlong header, and no further.
* `StreamKept` follows at once. `FramerImplemented`: a round that finds no head, an illegal
  header, or a wrong tail or check gives up bytes where no packet begins (`GiveUp`); one
  that completes a packet delivers it (`Deliver`); a round that only collects leaves the
  undecided bytes as they are.
* `DeliversWhole`: what was delivered and the packets from `place` on are together the packets
  of what has arrived (`ParseInv`), and of whatever else may arrive: giving up bytes where
  none begins keeps that (`SkipHopeless`, `CarryOver`), delivering moves one packet from the
  right to the left. When `recvdata` returns nothing is left on the right (`RestInv`,
  `NothingLeft`): all is copied, and what is held is shorter than a packet. This is about the
  parser's whole stream (`StreamDelivered`); for a connection that began with empty buffers
  what was delivered before it are the packets of the bytes before it (`SinceInv`), so the
  rest are its own.
* `RoundTripHolds` adds that `PacketData2` makes a packet wherever it is put (`PacketAtFirst`,
  `TwoPackets`), whatever the data: the length decides where a packet ends, not its bytes.
* `NoEndlessLoop`: `ToDo`, which counts bytes to decide about, bytes to copy, a head to find
  and the return, is a natural number that every round makes smaller.

`TcpServerProofs`:

* The close callbacks run later than the step that asked for them, so the invariant says
  what each entry of `closing` stands for (`QueueInv`): a client's entry a client of the
  map whose handle is closing, a recycled context one that no client has, the server's entry
  that `closeinl` holds the mutex. With it, clients and contexts correspond one to one
  (`ClientInv`) and a kept context is nobody's (`PoolInv`).
* `OneOwner`, `NoOrphans`, `WritesAnswered` follow. Where a callback waits for the mutex the
  invariant has an exception for the one client it works on.
* `EveryCloseIsAwaited` is the converse of `QueueInv`: whatever is being closed has the entry
  from which its close callback will run. `closeinl` has to make one for each client
  (`ClientEntriesAll`, by counting), and a callback that removes one client must leave the
  others' entries alone.

`PacketSync.PacketsFrom` and `TcpClientSend.Flat` are recursive functions. That such a
function exists, and what follows from its equation for every argument, is proved by
induction in the form of the lemma `Induction` of `SequenceFacts`: a set with 0 in it and,
with each number, the next has all of them, since the least number outside could not be
there.

Only model-checked is liveness (`Delivered`, `EventuallyReachable`, `RingDrained`,
`SendReturns`, `Reconnects`, `LoopEnds`, `Returns`, `ClosedClientLeaves`,
`IdleServerCloses`), which is out of the prover's reach. For six of them the part that is
about states is proved: `NoSignalLost` for `RingDrained` and `SendReturns`, `NoEndlessLoop`
for `Returns`, `CloseComplete` for `LoopEnds`, `EveryCloseIsAwaited` for `ClosedClientLeaves`
and `IdleServerCloses`. What TLC adds is that the fair steps do the rest.

## 5. Plan

1. done: buffer, mailbox, registry, client (sending and connection), server, framing, and
   the theorems above.
2. Failing starts in `TcpServer` (bind, listen) and its destructor; a second `Connect`, which
   starts a second thread on the loop.
3. A composition of the sample gateway: the server's contexts, a thread's mailbox and the
   session map; `SendUvMessage2Handle` against `OnExit`.
4. A `Close` that is lost between the two assignments at the end of the server's loop
   thread: a run for it alone, apart from the mutex that `closeinl` keeps.
5. `UVMsgFraming`, if anything comes to use it.
6. Proofs: the round trip of any number of packets; the parts of `Delivered` and of
   `Reconnects` that are about states (a lost connection has its timer or its request).

## 6. Not modelled

`broadcast` (private, never called); `bind6`/`Start6`/`Connect6` (as their IPv4 forms);
`SetNoDelay`, `SetKeepAlive` (socket options); `RegistHandle` and `UnRegistHandle`; `Stop`
and the joins of `CUVThread`, which wait for a thread that does not end; the double-checked
creation of the manager (a data race of one read and one write); a second `Connect`; a
`Start` that fails to bind, to listen or to create its thread (libuv does not define a listen
on a handle that is being closed); the destructors; conditions, semaphores and barriers of
`SimpleLocks.h` (unused); what the parser's copies do after the header of a packet that an
int cannot count (undefined), and an allocation that fails; `UVMsgFraming` (not called); the
sample programs; logging; crash dumps (Windows).

Most of the repository's lines are vendored: libuv, OpenSSL's headers and log4z. libuv is
modelled by what the code relies on: the order of a loop round, coalesced signals, the
links of the handle queue, `uv_walk`, cancelled writes. OpenSSL is used for one digest, log4z
for logging only. Of the program's own code, under `src/src/simple_uv`, what is left is
listed above.
