# A TLA+ verification project for the replicated key-value table

The program (in `src/`) is a table of strings to byte arrays served over TCP.
Servers form a chain, kept in ZooKeeper: clients write to the head, each server
passes its writes to the next one, and clients read from the tail. Each server
has one thread per connection and one table behind a readers-writer lock.

This directory holds TLA+ modules translated from that code, TLC
configurations that check them on small instances, and TLAPS proofs of what
holds for every instance. Line numbers are those of the files under `src/`.

    tlc -workers 2 -config RWLock.cfg MCRWLock     a run (PROJECT.json lists them)
    tlapm TableSkelProofs.tla                      the proofs

## 1. The system

| Component | State | Operations | Talks to |
|---|---|---|---|
| readers-writer lock (`table_skel.c` 30-36, 485-539) | `active_readers`, `active_writers`, `waiting_writers`, a mutex, two condition variables | `comeca_ler`, `termina_ler`, `comeca_escrever`, `termina_escrever` | every case of `invoke()` |
| skeleton, `invoke()` (`table_skel.c` 120-462) | `stats` (`counter`, `tempo`, `clientes`), `next_server_in_chain` | STATS, SIZE, DEL, GET, PUT, GETKEYS, GETTABLE | the table, the lock, the next server |
| accept loop and connection threads (`network_server.c`) | the descriptor in `connsockfd`, `stats->clientes` | `network_main_loop`, `client_handler`, `increase_client`, `decrease_client` | clients, `invoke()` |
| framing (`network_server.c`, `network_client.c`, `message.c`) | the bytes of a connection | `network_send`, `network_receive`, `read_all`, `write_all`, `zk_send_msg` | the kernel |
| chain (`table_skel.c` 541-927) | `node_id`, `next_server`, `next_server_in_chain`, ZooKeeper's session | `init_zookeeper_connection`, `connect_predecessor_server`, `connect_next_server`, `child_watcher`, `create_server_connection`, `zk_send_msg` | ZooKeeper, the other servers |
| hash table (`table.c`) | `n` lists | `table_create`, `_put`, `_get`, `_remove`, `_size`, `_get_keys` | the lists |
| lists (`list.c`), entries, data | nodes in ascending order of key | `list_add`, `_remove`, `_get`, `_size`, `_get_keys` | malloc |
| client stub (`client_stub.c`, `network_client.c`) | the globals `head` and `tail`, its own watch | `rtable_connect_zookeeper`, `child_watcher_client`, `rtable_*_head`, `rtable_*_tail` | ZooKeeper, head, tail |
| client program (`table_client.c`) | - | the command loop, `sig_handler` | the stub |
| server program, protocol buffers | - | `main()`, packing | - |

What is hard in it, and what would make each part correct:

- *The lock.* Condition variables, wake-ups that come early or late or
  unasked. A writer is alone; the counters say what is true; nobody sleeps
  without somebody who will wake him; writers are not starved.
- *`invoke()`.* Threads interleave at every access to shared memory: a PUT
  frees the old value before it stores the new one; GETTABLE asks for size,
  keys and values in separate calls; the counter is added to without a mutex;
  several exits return with the lock held, others answer an error and let it
  go. Each request must look atomic, writes must be forwarded in the order in
  which they are applied, and where one of the two fails it must be known what
  may differ.
- *Threads and descriptors.* The new thread reads the descriptor through a
  pointer to a local variable of the main thread, which goes on.
- *Framing.* `read()` and `write()` take part of what they are given.
- *The chain.* Two threads of a server (the main one while it starts and
  ZooKeeper's own) choose a successor from lists of different age; watches
  fire once; servers crash; calls fail; the copy a new server takes and the
  connection its predecessor makes to it are separate. Connections should go
  forward, to the nearest later server; no change should be missed; a dead
  successor should be replaced; a start should end, although servers wait for
  one another in it.
- *The client.* ZooKeeper's thread replaces `head` and `tail` while the main
  thread uses them, without a lock; an error frees the structure behind them;
  the client's own session may end. A request must keep its connection; the client must come to rest at both
  ends of the chain, whatever it looked like meanwhile.
- *The table.* Sorted lists with removal anywhere, keys that collide, keys
  that are prefixes of others or have bytes above 127.

`PROJECT.json` lists these hazards at their lines, each with the properties
that cover it or the reason why none does.

## 2. The modules

| Module | Models | Abstracts |
|---|---|---|
| `RWLock` | The four functions of the lock. One action is one stretch of code under the mutex: a call up to where it sleeps, or from a wake-up on. `phase[t]` says where a thread is; `r_woken` and `w_woken` have been signalled and not yet got the mutex. | the mutex itself |
| `TableOps`, `AtomicTable` | What a request does to a table and answers, in one step: what `invoke()` should look like from outside | |
| `TableSkel` | One server: `client_handler()` and `invoke()`, one step per access to what threads share, over `RWLock` (whose actions it conjoins with its own). Exits that leave the lock held are `Abandon`. | the table is a function; the elapsed time |
| `SortedList`, `HashTable`, `TableMap` | `list.c` on a heap of nodes, pointers included; `table.c` over it, with the hash of `table.c` on bytes as signed chars; `blocks` counts the blocks of `data.c`, `entry.c` and `strdup()` in use; `TableMap` is the map that `table.h` promises | values are atoms; keys are their bytes |
| `AcceptLoop` | the descriptor table of a server, its main thread and its handler threads | what a request is |
| `Framing` | one direction of a connection, byte by byte | bytes of fewer values; what the messages say |
| `Membership` | who is in the chain, as ZooKeeper tells it: what `Chain` implements and `ClientStub` relies on | everything else of a server |
| `Chain` | ZooKeeper's children and watches, the start of a server step by step with the two requests of its copy, `connect_next_server()` in its two threads, a write that takes the lock and then is passed on to the successor there is by then, the connections with what was sent on them, the queue of one of a server that does not accept yet (`Full`) | a table is the set of its keys; what unframed bytes are taken for is any of the writes in them, or the connection is closed (`Misread`) |
| `ClientStub` | a client: its main thread and ZooKeeper's, step by step through `rtable_connect_zookeeper()`, on blocks of memory that `head`, `tail` and the `rtable` parameter of an operation point to; its own session with ZooKeeper (`SessionEnds`) | what a request says; parsing |
| `MC...` | values of the constants for TLC | |
| `RWLockProofs`, `TableSkelProofs`, `AcceptLoopProofs`, `FramingProofs`, `ChainProofs`, `ClientStubProofs`, `HashTableProofs` | the theorems about the module of that name | |
| `NatMinimum` | lemmas on least and greatest numbers, and induction on them | |

How they fit: `TableSkel` *extends* `RWLock`; `HashTable` extends `SortedList`;
`TableSkel` implements `AtomicTable`, `HashTable` implements `TableMap` and
`Chain` implements `Membership`, which `ClientStub` extends
(`INSTANCE ... WITH` a refinement mapping, by name in `Chain`). `TableSkel` takes a call of
`table.c` as one step on a map, save the replacement of a value: the first is
what `HashTable` shows, the second is done in two steps there, because between
the two the entry points at freed memory. A call of `table.c` that has no memory
is an error there (`GetErrors`, `PutErrors`), and changes nothing, as `TableMap`
allows. `Chain` has one write at a time in a server, from the lock to the end of
`zk_send_msg()` and the change of the table, which `MutualExclusion` justifies;
what it says of reading forwarded bytes (`Misread`) is what `Framing` shows of
messages without their length.

ZooKeeper, the kernel's sockets and `pthread` are external: they are modelled as
the code uses them and as their documentation allows (ephemeral sequential
nodes, sessions that end after their process or before it, one-shot watches,
children in no particular order, `accept()` that returns the lowest free
descriptor, spurious wake-ups).

### Constants that describe the environment or make an assumption

| Constant | Meaning |
|---|---|
| `SpuriousWakeups` (RWLock, TableSkel) | `pthread_cond_wait` may return unasked. TRUE in `rwlock` and `skel_faults`. |
| `AllocMayFail` (TableSkel) | malloc may return NULL: in GET, PUT and GETKEYS, in what they call of `table.c`, and in `zk_send_msg()`. |
| `MaxLost` (HashTable) | bound: no call leaves memory behind once that many blocks are lost. |
| `ThreadsMayFail` (AcceptLoop) | `pthread_create` may fail. |
| `Unread` (AcceptLoop) | connections whose bytes may be something `network_receive()` does not unpack, or has no memory for. |
| `LengthFirst` (Framing) | TRUE: the sender is `network_send()` or `network_send_receive()`. FALSE: it is `zk_send_msg()`. |
| `MaxCrashes` (Chain), `MaxLosses` (ClientStub) | bound: servers that die, and sessions that end while their server lives. |
| `Long` (ClientStub) | the servers whose address has more characters than the others'. |
| `CallsMayFail` (Chain) | calls to ZooKeeper, and those of a start, may fail at any time. |

## 3. The runs

### Runs that pass

| Run | Bounds | What it shows |
|---|---|---|
| `rwlock` | 5 threads, spurious wake-ups, unbounded arrivals | `LockTypeOK`, `MutualExclusion`, `CountersExact`, `NoLostWakeup`; `WriterProgress` (a waiting writer is followed by a writer inside, however many readers come), `ReaderProgress` (readers get in once writers stop coming) |
| `skel_faults` | 3 threads, 2 keys, 2 values, 3 requests of 11 kinds | with malformed and unknown requests, malloc that fails, exits that keep the lock, error answers that do not, a successor that dies or is replaced between test and use, SIGPIPE: `TypeOK` (no answer carries freed memory), `LockInv`, `ReadersSeeOneTable`, `CounterBounds`, `DriftExplained` (this table and what the successor was sent differ only under keys whose last write failed on one side) and `ImplementsAtomicTable` |
| `skel_clean` | 3 threads, 3 requests of 4 kinds, a full table | every request is answered, unless a signal ends the process (`InvokeReturns`); none is refused (`ImplementsAtomicTable` with `MayRefuse` FALSE); `ForwardedInOrder` |
| `hash_table` | 3 lists, 3 nodes, 5 keys, 2 values | `ListTypeOK`, `WellLinked`, `Sorted`, `MemoryAccounted` (no block is leaked, save by two calls that run out of memory, or released twice, `table_destroy` included) and `ImplementsMap`, whatever the sequence of calls, memory that runs out in a put, a get or the listing of keys included |
| `accept_count` | 3 clients, 2 descriptors, 3 threads | `ClientsCounted`, though the test of `clientes` is outside the mutex, threads read the wrong descriptor and some are never made: the count is off by the latter, exactly |
| `framing` | bytes of 4 values (a short from -8 to 7), 3 messages, every cut of the stream | `ReceivedAsSent`, `EveryMessageReceived` |
| `chain_changes` | 3 servers, 1 crash or session that ends too early, any call may fail, children in any order | `LinksGoForward` (so no write comes round), `NoChangeMissed`, `ChainRepaired` (after a crash nobody is left writing to the dead server, but the tail), `ImplementsMembership`, and that `next_server_in_chain` is only ever unset, NULL or a connection that was opened (`TypeOK`) |
| `chain_starts` | 2 servers, 2 keys, 3 writes, 1 crash or session that ends | `StartEnds`: whoever starts comes to run or gives up, although GETTABLE of an empty table leaves the lock, which the next request of the copy takes, with a reader in it. Excepted is a predecessor that answers nobody any more |
| `client` | a chain of up to 3 servers, one of them lost at any time, the second with a longer address; the client's own session may end in any step of either thread | `PendingConnectionKept` (the watcher does not disturb a request that is out), `NoChangeMissed`, `PointsAtEnds` (writes go to the head and reads to the tail) and `UnsetOnlyForNow` while the session lasts, `Settles` |

Why the bounds are enough. In the lock a thread only sees the three counters
and which of two queues others sleep in: two of each kind and one more exhaust
the combinations; the proofs remove the bound. In `TableSkel` three requests
allow a reader inside with a writer waiting and a third thread behind it, or
two writers in both orders with a reader between; two keys separate a write
to the key read from a write to another. Three nodes on three lists
allow an insertion and a removal at the head, in the middle and at the end of
one list, and lists of different length side by side (`table_put` looks a key up
before it adds it, so the branch of `list_add` that replaces an entry is modelled
and never taken). Two descriptors for three clients make `accept()` fail and
reuse a number. The stream's bytes of four values include messages
whose body looks like a length, and a longest message of 7 bytes, the largest
short. Three servers are the fewest with a server in the middle that can die
between two that live, and with a nearest and a farther successor. Two are the
fewest of which one waits in its start for another that is starting, connecting
back, writing, or gone; a third only makes the row longer. For a
client three are the fewest where both ends move and neither is the same server.
One loss is enough there: a client that has heard of a change starts from
nothing again. It has at most four blocks of memory with a pointer to them
(`head`, `tail`, the operation's and the one being made).

`CHECK_DEADLOCK FALSE` is said where the system really may stop: a thread
behind a lock that is not released or with no request left to receive
(`TableSkel_*`), a main thread in `accept()` with every client gone
(`AcceptLoop_*`), a sender with no more to send (`Framing*`), a chain at rest
(`Chain_*`), a client that has quit (`ClientStub`).

### Fairness

Weak fairness is on the threads of the program: a thread that holds or can take
the mutex goes on (`RWLock`, `TableSkel`), the accept loop and the handlers
go on (`AcceptLoop`), the kernel takes and hands on bytes (`Framing`), a
starting server, the two callers of `connect_next_server()` and the end of each
dead server's session go on, and a write is passed on as long as nothing keeps its
reader from reading (`Chain`, `Flows`), the two threads of a client go on and a
server that is up answers (`ClientStub`). The scheduler of the operating system, TCP between live processes and ZooKeeper's session timeout
justify it. Strong fairness is not assumed. Nothing is assumed of clients,
crashes, starts, spurious wake-ups, failures, changes of the successor or the
reading of forwarded bytes. In particular readers that are
overtaken by writer after writer may wait for ever; `ReaderProgress` says so
by its premise.

### Runs that find a violation

| Run | Property | What the code does |
|---|---|---|
| `skel_leak` | `InvokeReturns` | GETTABLE on an empty table leaves the switch before `termina_ler()` (`table_skel.c:380`): every later writer waits for ever, and then every reader. The second server of a chain sends this request to the first one. |
| `accept_race` | `EveryClientAnswered` | The thread reads `connsockfd` after another `accept()` (`network_server.c:74`): one client has two threads and another none. |
| `framing_chain` | `EveryMessageReceived` | `zk_send_msg()` leaves out the length that `network_receive()` reads first (`table_skel.c:918`): no forwarded write is understood. |

## 4. Divergences the models show that have no run of their own

- *The operation counter* (`table_skel.c:238` and the other cases).
  `counter = counted` is false: two readers add at the same time. `CounterBounds`
  is what remains true.
- *A negative index* (`table.c:283`). For the UTF-8 key `"\303\251"` the sum of
  signed chars is negative and so is the remainder; the array is read before
  its start. `UseOutsideArray` models it, and nothing is claimed after it.
- *A tail that still forwards* (`table_skel.c:799`). When the successor dies and
  there is no other, `next_server` becomes NULL and `next_server_in_chain`,
  which `invoke()` tests, keeps the dead connection. The next write is lost or
  raises SIGPIPE (`GetAddress`, `PassOn`).
- *Two threads in `connect_next_server()`* (`table_skel.c:807`). After a crash
  the caller with the older list may assign last; the variable then holds a
  connection to a dead server until the next event (`ChainRepaired` says that
  one is under way).
- *The successor that is not the nearest* (`table_skel.c:773`). The first later
  child of the list is taken; the comment at 748 says "com id mais alto a seguir
  ao próprio id". ZooKeeper promises no order and nothing sorts the list, so of
  three servers the first may end up writing to the third (`Candidates`).
- *Pairs that are not put* (`table_skel.c:878`). The table and its size are two
  requests: when the predecessor serves a delete between them, fewer pairs are
  put than were obtained, where the comment at 869 says "para cada par"
  (`CopyEntries`).
- *The count of clients* (`network_server.c:130`). A connection that is closed
  because `pthread_create()` failed stays counted for ever; `table_client.c:146`
  prints the count as "Clientes conectados". `ClientsCounted` says exactly how
  far it is off.
- *A client that has lost its session* (`client_stub.c:860`).
  `connection_watcher_client()` notes that it is not connected,
  `child_watcher_client()` ignores every event then, and nobody opens another
  session, where the comment at 849-855 says that changes of the chain are
  followed. The client goes on with the ends it has (`SessionEnds`); `NoChangeMissed`
  and `PointsAtEnds` say `session` for that.
- *A write during a join* (`table_skel.c:876`). A write between the copy and the
  predecessor's connection reaches neither; with a put between the two
  requests of the copy, `entries[i]` is read beyond its end (`CopyEntries`).
- *A put that is forwarded and then refused for want of memory*
  (`table_skel.c:279`) is on the successor only, and one that `zk_send_msg()` has no
  memory for (912) is here only: `ForwardedInOrder` is false with `AllocMayFail`.
  The server answers and goes on, and its table stays different from its
  successor's under that key until a write to it succeeds on both sides
  (`DriftExplained`). Where the error keeps the lock instead (258, 267), no
  other write follows.
- *A successor that changes between test and use* (`table_skel.c:252`, 253).
  `next_server_in_chain` points at memory nobody has written while the new
  connection is made (806), which the allocator may have taken from a connection
  that was freed, and is NULL after that failed: the bytes go
  nowhere, elsewhere, or the process ends (`Killed`, `DiesPassingOn`).
- *A peer that closes* (`network_server.c:112`). Only SIGINT has a handler: a
  second write to a closed connection, of an answer or of a forwarded message,
  raises SIGPIPE and ends the server. `InvokeReturns` says `~alive` for that.
- *A writer that waits for a server that starts* (`table_skel.c:918`). It holds
  the lock while `write()` waits for room, and its successor reads nothing while
  its start waits for GETTABLE behind that lock. The messages of a program like
  this seldom fill a socket; `StartEnds` excepts it.
- *A server that has lost its session* (`table_skel.c:545`) is never told. It
  keeps its connections and goes on serving beside the chain (`SessionEnds`).
  Of the two threads of another that choose a successor, the last may still
  connect to it; when it dies then, no event tells of it, and `ChainRepaired` is
  false without `ended = 0`.
- *Two connections to a server that starts* (`network_server.c:64`). Its queue
  holds one; the second times out, and either a later server gives up its start
  or an earlier one is left without a successor (`Full`).
- *A block that is lost* (`table.c:110`). When `strdup()` fails, `free(new_data)`
  leaves the bytes of the value behind, which `data_destroy()` would release
  (`KeyNotCopied`). When `malloc()` fails for a key, `table_get_keys()` leaves the
  array, the keys copied so far and the list's own copies (`table.c:229`,
  `KeysNotCopied`).
- *A client whose head has the longer address* (`client_stub.c:305`, 311).
  `zoo_get()` sets `buffer_len` to the length of the tail's address and cuts the
  head's there (`Cut`).
- *A client after an error* (`network_client.c:129`). The structure behind `head`
  or `tail` is freed and used again by the next operation, until the chain
  changes (`SendFails`, `ReceiveFails`, `Fails`). So it is when there is no memory or
  the answer is longer than 32767 bytes, with a server that lives.
- *A client that never connected* (`client_stub.c:335`). What `network_connect()`
  returns is only printed; the next request goes out on a descriptor nobody has
  written, which may be that of the terminal: `main = "stuck"`.
- *A chain that changes while a client starts* (`client_stub.c:864`). `main()` and
  the watcher are in `rtable_connect_zookeeper()` together and the older list
  may be used last; `PointsAtEnds` is false without `~disturbed`. Both cut up
  strings with `strtok()`, and so does the command loop: undefined behaviour.

## 5. What is proved

`RWLockProofs`, for every finite set of threads, with or without spurious
wake-ups: `TypeCorrectness`, `Exclusion`, `Exactness`, `WakeupsKept`. The
invariant is `LockInv` with `CountersExact`. Exclusion alone is not inductive:
it needs that the counters are no lower than the number of threads inside, that
`active_writers` is at most one and that both kinds are not inside at once.
`NoLostWakeup` needs that a sleeper finds the condition of its loop still true,
which is preserved because whoever makes it false broadcasts in the same
critical section. `LockInv` says "at least" of `active_readers` and
`active_writers` because `invoke()` may leave without its `termina_` function;
only the closed lock, where every thread leaves properly, has equality.

`TableSkelProofs`, for every finite set of threads and keys, all values,
requests, initial tables and number of requests, allocation failures
included where not said otherwise:

- `SkelTypeCorrectness` (`TypeOK`), `SkelLockInvariance` (`LockInv`),
  `SnapshotReads` (`ReadersSeeOneTable`). They rest on `SkelInvariance`: `LockInv`
  and `TypeOK` with `Placed`, which ties a thread's place in `invoke()` to its place
  in the lock, `FreedInHand`, by which freed memory is in the table only while
  the writer that freed it is inside, and `ReadersSeeOneTable` itself. A reader
  copies a value when no writer is inside, so it cannot copy a freed one;
  what it has gathered stays true because nobody writes until it leaves.
- `WritersAreCounted` (`CounterBounds`): what a reader or writer has loaded is
  related to what has been counted since; a writer is alone when it stores.
- `DriftIsExplained` (`DriftExplained`): `halfway` is the set of keys whose last
  write failed on one side. The invariant is `SkelInv` with the property itself:
  `Placed` says that the writer that forwards is the one that applies, so that
  the two changes of a key meet.
- `WritesSentInOrder` (`ForwardedInOrder`): assumes `~AllocMayFail`, without
  which it is false (section 4); then `halfway` stays empty while the successor is
  the one there was (`NothingHalfway`), and the theorem before gives it.
- `ServerImplementsAtomicTable` (`ImplementsAtomicTable`): with or without
  allocation failures, each step of the server is a step of `AtomicTable` or
  none; an error is a step that answers and changes nothing (`Fail`). A request is served at one step inside the lock: a read when it has
  gathered the last of its answer, a write at its first change of the table. A
  put that replaces a value is served when it frees the old one; until it has
  stored the new one, the mapping shows that (`Logical`). Beside `SkelInv` it
  needs `Shaped` (an answer is not begun before the thread is inside the lock)
  and `Replaced` (until then, the value of that key is the freed one).

`AcceptLoopProofs`, for all finite sets of connections and threads and any set
of descriptors: `LoopTypeCorrectness` (`TypeOK`) and `ClientsAreCounted`
(`ClientsCounted`). `LoopInv` counts twice: `clientes` against the threads that
have not left (`CountExact`), and threads, failed creations and the connection
in hand against the connections that were accepted (`CountsAreConnections`),
which bounds the counter. The second needs that only clients that have arrived
are in the queue.

`FramingProofs`: `FramingTypeCorrectness` (`TypeOK`), for every base, every set
of messages and both kinds of sender; `MessagesArriveWhole` (`ReceivedAsSent`)
for senders that write the length first, where every message is shorter than
half of what two bytes can tell (32768 bytes). These two are hypotheses of the
theorem and not assumptions of the module, because `zk_send_msg()` does not meet
the first (`framing_chain`) and nothing in the code sees to the second. The
invariant (`FramingInv`) is that there are a sequence `W` of all bytes ever
written and a function `off` from messages to places in it, such that the
stream and what is still to be written are the rest of `W` behind what has been
read, and the reader stands where `off` says the last returned message ends, or
in the short or the bytes of the next one. That needs that the short comes back
as the length that went into it (`ShortComesBack`), which is where the bound on
the length comes in.

`ChainProofs`, for every finite set of servers, any number of crashes and of
sessions that end too early, calls that fail at any time and children in any
order: `ChainTypeCorrectness` (`TypeOK`), `ConnectionsGoForward`
(`LinksGoForward`), `ChangesAreNoticed` (`NoChangeMissed`), `ChainGetsRepaired`
(`ChainRepaired`) and `ChainImplementsMembership` (`ImplementsMembership`).
`ChainInv` says of each server what its number, its list and its connections
have in common (`Enrolled`, `Forward`, `Choice`), that a list out of date has an
event on the way (`Notified`), and of the two threads in
`connect_next_server()` that the one ZooKeeper runs has a choice that is right
or about to be told (`WatcherChoice`), which the other cannot undo for long
(`Replaced`). `LinksGoForward` alone is not inductive: a thread may connect to
what it chose long ago, and only `Choice` says that this was a later server.

The writes of a chain are in the model and nothing is proved of the tables:
as the code stands forwarded messages are not understood, and the copy of a
server that starts may lose pairs, so no two tables need have anything in common.

`ClientStubProofs`, for every finite set of servers, any number of sessions that
end, the client's own among them, and any addresses: `StubTypeCorrectness` (`TypeOK`), `ChangesReachTheClient`
(`NoChangeMissed`), `ClientPointsAtEnds` (`PointsAtEnds`),
`UnsetPointersAreReplaced` (`UnsetOnlyForNow`) and, an action property,
`AnswerComesFromWhereItWasAsked` (`PendingConnectionKept`). `StubInv` follows the
two threads through `rtable_connect_zookeeper()`: what each has read of the
chain is what `listed` says, unless the watch has fired since or the session has
ended (`Watched`, `Reads`); a block without a socket still has a connection before it
(`HeadTried`, `TailTried`); while the chain was not disturbed under `main()`
only one of the two is in the function (`OneAtATime`), so that what it makes is
not replaced by what the other read earlier.

`HashTableProofs`, for every number of lists, every finite heap, any set of keys
(strings of any bytes and lengths) and of values, and any order of calls, with
memory that may run out at each:

- `ListTypeCorrectness` (`ListTypeOK`), `ListsWellLinked` (`WellLinked`),
  `ListsSorted` (`Sorted`) and `NoBlockLost` (`MemoryAccounted`) rest on
  `TableInvariance`. Its invariant says that there is a sequence of nodes for
  each list such that the pointers thread it from `head` to NULL and `size` is its
  length (`Linked`), no node is in two (`Apart`), the nodes in use are those of
  the sequences (`Covered`), keys ascend (`Ascending`) and each key's hash is its
  list (`Homed`). None of the checked properties is inductive alone: an
  insertion keeps the order only because `strcmp` is a strict total order
  (`KeyOrder`, from the bytes up), and the threading only because a fresh node is
  in no list; a removal may change one pointer because no other list goes
  through that node; the memory is right because the nodes in use are counted.
- `TableImplementsMap` (`ImplementsMap`): each call is a step of `TableMap` or
  leaves the map as it is. `Homed` and `Ascending` put a key in one node only
  (`OneNode`), so a put or a removal changes the value of its key and of no
  other, and the size and the keys, gathered list by list, are those of the map.

The walks and sums of the model are recursive functions and folds. What they
compute is proved by giving the value after each turn of the loop, with
induction on the number of turns (`NatMinimum`): `WalkIs` for the walk over the
nodes, `LoopsAgree` (two loops that start alike and go on alike end alike) for
those of `table_size`, `table_get_keys`, `list_destroy` and `table_destroy`.

`MemoryAccounted` has `lost` for what two calls leave behind; that the keys
copied before one fails are those of the lists before it is in `KeysBefore`.

The assumptions are the named `ASSUME`s of the modules, which TLC evaluates in
every run: the sets of servers, connections, threads and list nodes are finite
(in `TableSkel` the keys too), a table has a list and there is a value, and the
values that stand for NULL, for memory nobody has written and for freed memory
are no servers, nodes, keys, entries or values. `NullAssumption` of `Chain` says
also that no set of servers is NULL, since `seen` holds either. Each proof has one step per
action and beneath it one per part of the invariant that the action disturbs.
Where a proof needs induction (the least number of a set of servers, the last
server of the chain, the turns of a loop), `NatMinimum` derives it from the
library's theorem that the natural numbers are well founded, stated of a set and
not of a predicate.

Only model-checked:

- everything under fairness (`WriterProgress`, `ReaderProgress`, `InvokeReturns`,
  `EveryMessageReceived`, `StartEnds`, `Settles`), which the proof system
  does not reach.

## 6. What is not modelled

- the error exits of GETTABLE, which send entries nobody has written; the
  mallocs whose result is used unchecked (`table.c:221`) or whose NULL is taken
  for an empty list (`list_get_keys`);
- what a value becomes in the copy of a table: `strdup()` cuts it at its first
  zero byte, or runs past its end (`client_stub.c:214-216`). `Chain` copies keys;
- the tables of several servers compared with one another (section 5);
- a connection that ends in the middle of a message (`Framing` has streams that
  are slow, not cut);
- `entry_dup`, `entry_replace` and `data_replace`, which nothing calls;
- `stats->tempo`, `ctrlC` (a crash for the models), the program arguments,
  parsing and printing of commands;
- the races on the global `children_list` and inside `strtok`: undefined
  behaviour after which no property can be stated;
- answers to forwarded writes, which nobody reads;
- descriptors reused under `next_server_in_chain`, and the sockets a chain that
  changes leaves open in servers and clients until there are none left;
- generated code (`sdmessage.pb-c.c`), binaries and build rules.

## 7. Plan

Done, in this order: the lock; the server; their proofs; the lists and the
table with their memory; the accept loop; framing; the chain with its listen
queue and sessions; its membership; the client.

Then the proofs: types, counts and the refinement for the server, the accept
loop, the framing, the chain, the client, the lists and the table.

Next:

1. The connection to the successor in the descriptor table of `AcceptLoop`.
2. Sequences of commands of one client over `Chain` and `ClientStub` together.
