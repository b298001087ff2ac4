# sserver: a TLA+ verification project

sserver is a TCP server framework in C.  One **master** process accepts
connections and moves bytes; a number of **work** processes, forked from it, run
the business logic of a plugin (`.so`).  Master and work process share no lock:
each pair is joined by two rings in shared memory, `rq` (master to work) and
`sq` (work to master).

## The system

| Part | State | Operations | Talks to |
|---|---|---|---|
| Shared-memory queue (`mem_queue.c`) | `head`, `tail`, the bytes of the mapping | `mq_push`, `mq_get`, `mq_pop` | called by one writer and one reader process |
| Master loop (`master.c`) | what it is handling; `workmgr` | `master_dispatch`, `handle_cli`, `handle_mq_send`, `do_blk_send`, `do_fd_open` | clients (sockets), work processes (queues) |
| Descriptor table (`net_util.c`) | `epinfo.fds`, `maxfd`, `readlist`, the buffers `fd_buff_t` | `add_fdinfo_to_epinfo`, `do_fd_close`, `do_fd_send`, `do_fd_write`, `handle_read`, `handle_readlist` | kernel, both loops |
| Work loop (`work.c`, `fds.c`) | the session table `fds` | `handle_mq_recv`, `do_blk_open`, `do_blk_msg`, `do_blk_close`, `close_cli` | plugin callbacks, queues |
| Lifecycle (`simple_svr.c`, `master.c`, `work.c`) | `chl_pids`, `stop`, the queues of each slot | `main`, `handle_sigchld`, `start_work`, `handle_term`, `work_init`, `work_fini`, `master_fini` | signals, fork |
| Multicast (`mcast.c`, `work.c`) | `g_servs`, the address cache of a work process | `do_syn_serv_addr`, `send_pkg_to_mcast`, `do_proc_mcast`, `add_serv_to_cach`, `do_mcast_realod_so` | datagrams, plugin |
| Plugin interface (`outer.c`) | handle and callbacks (`so`) | `reg_so`, `unreg_so` | `dlopen`, both loops |
| Configuration (`conf.c`) | two tables | load at start | files |

What is hard about it, and what makes it correct:

* **Queue.**  Two processes move two indices without a lock and read each
  other's index more than once per call.  Correct: what is read comes out in
  the order of the pushes, once, whole; the writer never touches an unread
  block; a block in the queue is read; a push returns.
* **Connections.**  The two sides know a connection by its descriptor number
  only.  The kernel gives the lowest free number away again at once, while
  blocks about its old owner are still queued in both directions; and any push
  can fail.  Correct: the table agrees with the kernel; the sessions follow the
  table; a hangup is noticed, a requested close happens, a session ends with
  its connection; a reply and a close reach only the connection they are for.
* **Buffers.**  Partial reads and writes, several messages in one read, half a
  message, edge-triggered events.  Correct: what is sent is a prefix of what was
  asked for, each message is pushed once and whole, and nothing gets stuck.
* **Lifecycle.**  Signals arrive between any two steps, and the handlers do the
  work themselves; every process runs the same handlers on its own copy of
  `stop` and `chl_pids`.  Correct: a slot has one work process, and it shares the
  queues the master holds; a dead work process is started again; one SIGTERM
  stops everything.
* **Multicast and plugins.**  Datagrams are lost, repeated and reordered; a
  reload can fail half way.  Correct: an address in a cache is one its owner
  announced, and the caches converge; a process runs a plugin somebody asked
  for, and does not stay behind with none.

`PROJECT.json` lists the hazards one by one with the line where each bites.

## Modules

| Module | What it is |
|---|---|
| `BlockChannel` | What a queue promises: blocks come out in push order, each at most once; a block in the channel is taken |
| `MemQueue` | `mem_queue.c`, one action per read or write of shared memory that the other process can see or disturb |
| `MemQueueInv` | The properties of the ring, its inductive invariant, and the mapping to `BlockChannel` |
| `MemQueueProofs` | Proofs about the ring, and that it implements the channel |
| `Session` | Master loop, descriptor table, both queues (as `BlockChannel` with failing pushes), session tables, clients, kernel |
| `SessionInv` | The properties of the connections, and their inductive invariant |
| `SessionProofs` | Proofs of all its safety properties |
| `Receive` | What one connection receives: socket, receive buffer, read list, the loop that cuts out messages |
| `ReceiveInv` | The properties of receiving, and their inductive invariant |
| `ReceiveProofs` | Proofs of all its safety properties |
| `Transmit` | What one connection sends: `do_fd_send`, `do_fd_write`, the send buffer, writable events |
| `TransmitInv` | The properties of sending, and their inductive invariant |
| `TransmitProofs` | Proofs of all its safety properties |
| `Lifecycle` | Master, work processes, forks, signals and the handlers, inside each other |
| `LifecycleInv` | The properties of the processes, and their inductive invariant |
| `LifecycleProofs` | Proofs of all its safety properties |
| `Services` | The address caches, plugin reloads and the multicast between them |
| `ServicesInv` | The properties of both, and their inductive invariant |
| `ServicesProofs` | Proofs of all its safety properties |
| `MCMemQueue`, `MCSession`, `MCReceive`, `MCTransmit`, `MCLifecycle`, `MCServices` | Instances for TLC |

`Session` composes master, work processes and clients over `BlockChannel`, which
`MemQueue` is shown to implement; `Receive` and `Transmit` refine what is one
step in `Session`, a message that arrives or a reply that leaves, for one connection.
`Lifecycle` and `Services` are about other state of the same processes and stand alone.

### MemQueue

The writer's program counter `ppc` walks through `mq_push`, the reader's `cpc`
through `mq_get`, the handler of the block and `mq_pop`.  `mq_push` reads `tail`
up to three times and `mq_get` reads `head` up to three times; each read is an
action, so the other process may act in between.  Header, data and `head` are
written in three actions.  A byte of `mem` holds the header it was last written
under, so a torn or overwritten block is visible.  The compiler keeps the order
of the accesses that the model relies on because both indices are `volatile` and
x86 does not reorder stores; `blk_cnt` and the pipe are left out.

### Session

A queue is a sequence of blocks.  What a push can do is what `MemQueue` shows:
queue the block, answer -1 (when full, or earlier when there is no room at that
place), or answer 0 with nothing queued.  The last two are counted in `drops`
and bounded by `MaxDrops` (a push that fails because the queue holds `QCap`
blocks is never bounded).  `fdt` is `epinfo.fds`, `open` what the kernel has
open, `at`/`on`/`ready`/`left` where `master_dispatch` is.  One handler is one
action, except where the code goes through a loop in which a work process can
interfere: accept by accept, message by message, block by block.  `cli`,
`unread`, `sent` and `backlog` are the client and kernel side.  Every block and
every entry also names the connection it is *meant* for; no action decides on
it, it only says afterwards who was hit (`misclosed`, `misrouted`, `crossed`).

A refused BLK_OPEN tears the framing of `rq` (see below); what the work process
reads from then on depends on the bytes of an address, and the model stops that
work process there (`torn`).

### Receive

One connection, seen by the master (`handle_cli`) or, with `Master = FALSE`, by
a work process (`do_proc_svr`); the two differ in how often they come by the read
list and in whether passing a message on can fail.  `Session` treats a message as
one thing that arrives; here it is bytes.  A byte is its place in the stream, so
that loss, doubling and moving all show.  The peer sends messages, TCP delivers
any part of them at any time (`Arrive`), and an arrival sets `edge`, which
`epoll_wait` reports once.  `at` walks through the dispatch loop: `top` is the
read list, `wait` is `epoll_wait`, `cut`, `pass` and `keep` are the loop over the
buffer.  The disjuncts of `HandleRead` are the outcomes of `safe_tcp_recv_n`:
buffer filled, socket emptied, end of stream, nothing there, no room.
`get_msg_len` belongs to the plugin and is not told to wait for a whole header;
with part of one it answers anything (`Guesses`: a length of a message, 0, more than the
buffer holds, or a negative number), and `guessed` remembers it.  A negative
length passes the check against `rlen`: `mq_push` crashes the master on it, and a work process
goes on in front of its buffer.  The model ends there (`PassNegative`).

### Transmit

One connection again, and a byte is its place in what `do_fd_send` was given.
`sbf` is the first `slen` bytes of the send buffer, `alloc` what malloc gave,
`size` is `sbf_size`.  `wire` is what the socket has taken, `room` what it can
still take.  Every outcome of `do_fd_send` is an action: an error, all taken, the
first short write of the connection, a later one, and a message put behind a
buffer that is not empty.  The events are edge-triggered as the kernel does it:
`woken` is epoll's ready list, set by input, by EPOLL_CTL_MOD when there is
something to report, and by room in a socket that was found full (`starved`).
The event actions are the branches of `master_dispatch`; `work_dispatch` has
the same.  `lost`, `whole` and `missed` only record what happened.

### Lifecycle

`pc` is where `main` and `master_dispatch` are, `stack` the handlers the master is
in: `handle_signal` leaves `sa_mask` empty, so SIGTERM interrupts
`handle_sigchld` and the other way round.  `start_work` and the loops of both
handlers are cut where another signal makes a difference: waitpid, queues and
fork, listen and the pid, one round of kill.  A work process is born with a copy
of `stop`, of `chl_pids` (`kids` tells whether it names anybody) and of the signal
mask (`deaf`: forked inside `handle_term`, where SIGTERM is blocked).  It clears
`stop` in `work_init` and again in `work_dispatch`; `forgot` remembers that there was
something to clear.  If its log cannot be opened `work_init` returns 0 before it has
cleared anything, and the process goes on with the copies it was born with
(`WorkInitNoLog`).  `handle_term` in it takes itself for the parent, because no process
finds its own number in `chl_pids`.  `handle_term` clears `chl_pids[i]` before `kill` reads
it, so what it sends goes to the whole group (`KillGroup`); that is how the
shutdown reaches everybody.  A pair of queues is a generation number, and
`pc = "use"` stands for any code of the loop that has them in hand.

### Services

The work processes of this service, announcers elsewhere, and a set of datagrams in the
air, which may be received again, late or never until they vanish.  The cache maps name and
id to an address.  `plug` is what the callbacks of a work process point to: a
plugin; `"closed"` after a reload that failed (`unreg_so` has closed the old one,
the callbacks stay); or `"mute"`, the same when the new plugin lacks `handle_timer`.
The callback that every round makes (`Tick`) kills a closed one, and the master
starts it anew with its own plugin and an empty cache.  `last` is the static buffer of
`do_proc_mcast`: a datagram too short for a header is reported and then the packet
from before is handled again.  A failed announcement leaves its socket open
(`leaked`).  No action takes the address of a silent service out of a cache, because
`do_del_expired_addr` has no body.

## Runs

| Run | Instance | Shows |
|---|---|---|
| `mq` | 10 bytes of ring, lengths 2, 3, 5, header 2, five pushes | type, inductive invariant, no write to unread bytes, refinement of `BlockChannel`, every queued block is read, every push returns |
| `mq_lost` | the same, four pushes | **violated**: a push that returned 0 queued its block |
| `session` | 2 work processes, 2 connections, 2 messages each, 2 blocks per queue, 2 bad pushes | type, table against kernel, sessions against table, what it takes to refuse a client or cross two, a listener stays open as long as no BLK_OPEN fails, answers reach another client only after their asker is gone |
| `session_live` | 1 work process, 2 connections, 1 message each | hangup noticed, sessions end, requested closes happen |
| `session_reply` | as `session_live` | **violated**: a reply reaches only its client |
| `recv` | master, 5 bytes of buffer, 3 messages of 2 or 3 bytes, header 2 | type, buffer against stream, whole messages in order, nothing left in the socket, a read that finds nothing only after a full one, messages pushed, end noticed |
| `recv_work` | the same in a work process | **violated**: what is on the read list is read |
| `send` | socket of 2 bytes, buffer limit 4, 4 messages of 1 or 3 bytes, 2 arrivals | type and allocated size, buffer limit, stream whole and in order, one message cut short at most, what is buffered is sent |
| `send_twice` | the same | **violated**: no byte is sent twice |
| `life` | 2 slots, 3 forks, then fork fails | type, one work process per slot with the master's queues, every live pid written down, every slot served again once the dying ends, SIGTERM ends all |
| `life_inuse` | the same | **violated**: queues in use are not replaced |
| `serv` | 1 work process, 1 announcer elsewhere with 2 addresses, 2 plugins, 1 reload, 1 datagram too short for a header, 1 descriptor to lose | type, addresses true, plugin asked for, a failed reload ends, caches converge |

**Bounds.**  In the ring the free space at the end takes every size from 0 to
more than a header, the longest block is half of the ring, and five pushes wrap
it at least twice.  Two connections are enough for a descriptor number to change
hands while blocks about its old owner are queued, two works for the number to
move from one work process to the other, and two bad pushes for losing both
messages of a hand-over.  `NFd` is `NWork` plus the number of connections, so
numbers never run out, as `nr_max_fd` is meant to guarantee.  Connections are
interchangeable, so the safety runs use symmetry; the liveness run does not.

Three messages of 2 or 3 bytes fill a buffer of 5 exactly, overrun it, and leave
in it half a message or half a header; `MaxOut` only ends the endless run of empty
messages that a guessed length of 0 gives.

A socket of 2 bytes takes a message whole, in part or not at all; four messages
reach the limit of 4, put two behind a waiting one, and let a buffer be written
whole and again.  Three processes in two slots allow two deaths behind one
SIGCHLD, a restart inside either handler, and a restart that fails for want of
processes.  Two addresses are enough for a late announcement to undo a newer one;
the one work process of `serv` also receives what it sends, and others like it
differ from the announcer elsewhere only in being observed.  What a foreign reload request
names beside its service makes no difference, so only one per plugin is tried.

**Fairness.**  Both dispatch loops wait at most 50 ms in `epoll_wait` and then
go round again, whatever the other does, so their next step is weakly fair.  A
queue that the master comes back to again and again is read in the end (strong
fairness of handling a block of `sq`): `mq_get` misses a block only while the
writer is wrapping, and `QueueIsRead` shows for the ring that this cannot go on.
The loop around one receive buffer is weakly fair for the same reason: `epoll_wait`
returns after 50 ms, and cutting the buffer never waits.
Clients are not fair: they may never send or hang up.  In `send` the events of one
descriptor are weakly fair, and so is a peer reading all it was sent, until it
resets the connection.  In `life` the kernel goes on running the master, running some work
process that can run, and delivering some signal that is pending (three weak
fairness conditions; that no single process or signal is favoured is not asked for);
crashes and the request to stop are not fair.
In `serv` the timers announce again and again (every 1 to 10 seconds), every
datagram leaves the air in the end, and one that is sent again and again is
received in the end; no single datagram has to arrive.

## What the code does not keep

Each violation run ends in a trace of the code as it is; the findings in
`PROJECT.json` give the lines.  In short: `mq_push` can lose a block and return 0;
replies are delivered by descriptor number, whoever owns it now; a work process
forgets what did not fit into its receive buffer; a send buffer that was written whole is
sent again; a restart replaces the queues under the master's hands.

Seen in the models, without a run of their own:

* work.h:56-58 says that `do_del_expired_addr` deletes expired addresses so that they are not
  misused (用于删除过期地址 以防错用), and `work_dispatch` calls it by a timer of its own
  (`next_del_expire_addr`); but its body is empty (work.c:430-433), and nothing reads
  `last_syn`.  A work process keeps the address of a service that went silent until it
  ends itself: in `Services` an entry of `cache` becomes `NoAddr` again by `Restart` only;
* a negative length from `get_msg_len` is taken for a message that is there (`PassNegative`);
* a work process whose log cannot be opened runs on with the master's `chl_pids`
  (`WorkInitNoLog`), and sends a SIGTERM it takes to the whole group once more;
* a close asked for twice, or late, closes the next owner of the descriptor (`misclosed` in `Session`);
* a BLK_OPEN that does not fit closes the listener (`Accept`; `ListenersStayUntilFailure`
  says that nothing else does);
* a refused BLK_OPEN is rewritten in the queue and breaks its framing (`torn`);
* `maxfd` is recomputed to the wrong end (`MaxAfter`);
* a client that fills the buffer exactly is disconnected (`ReadNothing`), and bytes that
  arrive together with the end of the stream are dropped with it (`ReadEnd`);
* `MessagesWhole` holds only until a header arrives in two pieces;
* the first short write of a connection loses its rest (`SendCutsShort`), and two kinds
  of wake-ups are missed (`missed` in `Transmit`): then buffered bytes wait for
  the next message to the same peer;
* three kinds of work processes survive a SIGTERM to the master (`Excused` in `LifecycleInv`);
  a work process whose `master_listen` failed on restart is never missed;
* a work process whose callbacks were all kept but for `handle_timer` lives on after
  a failed reload (`"mute"` in `Services`).

## Proofs

TLC checks the small instances above; TLAPS proves the following for every value
of the constants that satisfies the named assumption of the module.  Every safety
property of a passing run, invariant or action property, is proved: what is left
to TLC is liveness.

| Module | Theorems | Of the property |
|---|---|---|
| `MemQueueProofs` | `QueueInvariant`, `QueueTyped`, `QueueWritesFreeBytes`, `QueueImplementsChannel` | `IInv`, `TypeOK`, `WritesFreeBytes`, `ImplementsChannel` |
| `SessionProofs` | `SessionInvariant`, `TypeCorrect`, `TableTrue`, `ListenersStay`, `CrossesLate`, `SessionsFollow`, `RefusalNeedsLoss`, `CrossingNeedsTwo` | `IInv`, `TypeOK`, `TableMatchesKernel`, `ListenersStayUntilFailure`, `CrossesOnlyWhenOver`, `SessionsFollowMaster`, `RefusalNeedsLostClose`, `CrossingNeedsTwoLosses` |
| `ReceiveProofs` | `TypeCorrect`, `BufferStream`, `PassedWhole`, `BytesRemembered`, `EmptyAfterFull` | `TypeOK`, `BufferIsStream`, `MessagesWhole`, `NothingForgotten`, `EmptyOnlyWhenFull` |
| `TransmitProofs` | `TypeCorrect`, `BufferBounded`, `StreamWhole`, `OneCut` | `TypeOK`, `BufferIsBounded`, `StreamIsWhole`, `CutShortOnce` |
| `LifecycleProofs` | `TypeCorrect`, `OneWorker`, `LiveRecorded` | `TypeOK`, `OneWorkerPerSlot`, `LiveIsRecorded` |
| `ServicesProofs` | `TypeCorrect`, `CacheTrue`, `PluginWanted` | `TypeOK`, `CacheIsTrue`, `PluginWasWanted` |

**Assumptions.**  They give the constants their types and, beyond that, only this:
in the ring block lengths are at least a header (`mq_push` writes the header
itself); in `Session` there are at least as many descriptors as work processes,
whose listeners come first; in `Receive` a message has at least its header and fits
into the buffer; in `Services` a work process is not number 0, which a request
uses for all, and `NoAddr` is no address.  `CrossingNeedsTwo` also
assumes `MaxDrops > 1`: `drops` is a history that stops counting there, and
one that stops at 1 cannot tell two losses from one.

**The arguments.**  Hardly any of the safety properties is inductive alone.  Each `*Inv`
module ends its safety part with what has to be added, and a conjunction `IInv`;
each proof module has one lemma per action that it keeps `IInv`, and draws the
theorems from that.

* *Queue.*  `IInv` adds the layout of the ring as ghost sequence `chan`: every
  unread block lies where one of two windows allows (`Placed`), each starts where
  the one before ends or at the front after the point where the writer wrapped
  (`Linked`), that point is marked by a filler or has no room for a header
  (`Marked`), and its bytes are as published (`UnreadIntact`); plus, for each label
  of either process, what it may still assume of an index it has read and the other
  may since have moved (`WriterInv`, `ReaderInv`).  The other process moves its
  index only in the direction that leaves such an assumption true, or, at
  `PushBehind`, the code falls through.  `PublishPuts` and `PopTakes` map the two
  steps that are visible in the channel.
* *Session*, in three layers.  `Base` is about one side: the table, the
  kernel and the event loop; a connection waits in one place only (`WaitsOnce`) and
  what the loop has in hand is in use (`InHand`).  The lemmas of this layer take the actions one
  by one and then sort the steps into five kinds (`StepKinds`: the master passes a
  message on, closes a client, accepts one, does nothing the work processes can
  notice, or a work process takes a block), and the other two layers are about
  kinds.  `Meant` says that a descriptor in a queue or a session still stands for the
  connection it was written for, or that connection is over; it is what
  `CrossesOnlyWhenOver` needs.  `Agreed` relates the two sides through what the queue
  of a work process will make of its sessions (`Coming`).
  `SessionsFollowMaster` is kept because appending a block changes
  what is coming for its descriptor alone (`AppendAfter`), and taking the first block
  changes nothing that is coming (`AfterFirst`), except where the work process has
  closed a session itself (`AfterClosed`).  To show that nothing is refused one has to know
  it of each BLK_OPEN in the queue before its turn comes (`OpensFindNone`); to show
  that nothing crosses after one loss, the same of each BLK_DATA
  (`RequestsFindOwn`) and of what the master may still send (`ComingIsOwn`), which
  survive one loss but not two.
* *Receive.*  The messages lie one behind the other in the stream (`Laid`), the read list
  holds what filled its buffer (`Remembered`), and as long as no length was made up the buffer
  starts with the next message (`Cutting`).
* *Transmit.*  A connection that has cut a message short keeps its buffer
  (`KeepsBuffer`), so that it cannot do so again, and no byte is sent before it is asked for
  (`OnlyAsked`), so that what is put behind the stream is larger than all of it.
* *Lifecycle.*  A slot is vacant from the wait for its process to the next fork,
  and its process is the only one from there to the wait, in `main`
  (`Starting`) and in each handler on the stack (`Handlers`); a pid that is
  written down is that of the only one (`Recorded`).  `Noted` is `LiveIsRecorded` for
  every place in the code, with the pids the master has in hand but not in the table.
* *Services.*  An announcer is at an address of its own (`OwnAddress`), and a reload
  in the air or in a static buffer was requested (`RequestsMade`).

Only model-checked are the liveness properties (`QueueIsRead`, `PushReturns`,
`HangupIsNoticed`, `SessionsEnd`, `AskedIsClosed`, `MessagesArePassed`,
`EndIsNoticed`, `BufferedIsSent`, `DeadIsReplaced`, `StopEndsAll`, `ClosedEnds`,
`CachesConverge`): they rest on fairness, which this prover cannot reason about.  That an
instance is small matters for these only.

## Not modelled

Configuration is two text files read once before the first fork; clients,
examples and test programs are not part of the server.  Both have no behaviour
that another part has to withstand, beyond what the models let clients and
announcers do.  Inside the modelled parts these are left out:

* the close list (nothing puts a descriptor on it), `accept` failing for
  another reason than an empty backlog, `connect_to_serv`, and the pipes of the queues;
* replies that a plugin sends outside `proc_cli_msg`;
* in `Receive`, a socket error (the code closes as for the end of the stream)
  messages longer than the buffer (it fills for good), and what follows a negative length;
* in `Transmit`, memory that runs out, and the BLK_CLOSE that a work process
  pushes when a send fails;
* in `Lifecycle`, a mapping or `epoll_wait` that fails, and SIGINT and SIGQUIT beside SIGTERM
  (the handler is the same, each blocks only itself); the descriptor table across a restart:
  `start_work` leaves entries of closed descriptors behind, and neither `Session` nor
  `Lifecycle` follows them, since their product is out of TLC's reach; and what a work process
  without a log does to the epoll instance and the descriptors it still shares with the master;
* in `Services`, a datagram cut behind its header: `do_proc_mcast` checks no more than the
  header (work.c:335) and would handle it with the rest of the packet before it, but no
  sender in the repository produces one; the data library, memory that runs out, names longer than
  their fields, and callbacks other than `handle_timer` and `proc_mcast_msg` after a failed
  reload; `dlclose` is taken to unmap the plugin.

## Plan

Every component has its model and its safety proofs.  What could be added, in this order:

1. An abstract specification of a connection (a session is opened, its requests
   are answered in order, it is closed) that `Session` implements as long as
   `drops = 0`, stated over `Coming`, with its step-by-step mapping.
2. `Receive` and `Transmit` as implementations of one abstract byte channel.
3. That `Session`'s `Pushed` is what `MemQueue` allows: the three outcomes of a push,
   as an action property of the ring.
4. The descriptor table across a restart, in a model of its own that leaves out sessions.
