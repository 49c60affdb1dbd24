# Verification of wcvm

wcvm runs a Node.js-like system inside a browser page: processes are Web
Workers, a kernel worker keeps the process table and a virtual network, a File
System Worker owns one in-memory file system and mirrors it to the browser's
origin-private file system (OPFS), and guest code makes synchronous system calls
through shared memory.  This directory holds TLA+ models of the parts whose
difficulty is in the order of events, the TLC runs that check them, and proofs
checked by TLAPS.

All paths below are relative to `packages/core/src/` unless they start with a
document's name.

## 1. Inventory

| component | code | state | operations |
|---|---|---|---|
| syscall bridge | `protocols/syscall.ts`, `fs/fsClient.ts` | per client a SharedArrayBuffer: STATE, OPCODE, REQ_LEN, RES_LEN, data window | `call` (publish, ring, `Atomics.wait`, read), `readRequest`, `respondOk/Err` |
| File System Worker loop | `workers/fs/handler.ts`, `workers/fs/worker.ts`, `fs/FsServer.ts` | registered clients, their ports, watches, fds | register, unregister, doorbell, flush request, service of one request |
| process table | `kernel/processes.ts` | `workers`: pid to worker, parent, sync caller, timer; collectors of output | spawn, exit, output, kill, thread spawn, failure |
| spawnSync server | `kernel/kernelSyncServer.ts` | registered clients, children being waited for | register, unregister, service (`OP_SPAWN_SYNC`, `OP_ZLIB_SYNC`) |
| virtual file system | `fs/Vfs.ts` | inodes, directory entries, fds | POSIX-like operations, `onChange` events |
| OPFS mirror | `fs/opfsPersistence.ts`, `kernel/persistenceFlusher.ts` | per-path promise chains, write slots, cache of directory handles, manifest chain | `notify`, `flush`, restore, lazy restore |
| virtual network | `kernel/netServer.ts`, `runtime/bindings/net.ts`, `udp.ts` | listeners, connections, ephemeral ports; in each process servers, connects, sockets | listen, connect, data, shutdown, close, release of a dead process |
| event loop | `runtime/eventLoop.ts` | queues, timers, refs, the wake-up in flight | enqueue, turn, idle confirmation, abort |
| process worker | `workers/process/*.ts` | the runtime, buffered messages | init, messages, exit |
| child_process, worker_threads | `runtime/bindings/childProcess.ts`, `worker.ts`, `messaging.ts` | handles by pid, queued messages | spawn, events, ipc, terminate |
| preview relay, WebSockets | `kernel/previewRelay.ts`, `previewWebSocket.ts`, `webSocketFrames.ts` | one connection per request or socket | request, frames, close |
| preview service worker | `workers/preview/*.ts` | routes, clients | fetch interception |
| fetcher | `kernel/fetcher.ts`, `workers/fetcher/*.ts` | tickets | fetch, answer |
| host side | `bridges/`, `apis/`, `boot.ts`, `kernel/index.ts` | requests by id, event subscriptions | call, emit, boot |
| module loaders | `runtime/cjs.ts`, `runtime/esm/*` | module caches | require, import, cyclic evaluation |
| programs | `programs/*` | none of the system's | sh, npm, builtins |

How they interact.  A guest thread calls into the bridge, its doorbell (a message
on a MessagePort) reaches the File System Worker, which services the request on
its `Vfs` and answers into shared memory.  Every change of the `Vfs` is reported
to watchers and to the OPFS mirror.  `spawnSync` uses the same bridge with the
kernel as the servicer.  Everything else a process does (output, exit, children,
sockets) is a message to the kernel, which relays it to the parent, the peer or
the host page.  A process may be terminated at any instruction; the kernel then
tells the File System Worker, the spawnSync server and the network to let go of it.

What is hard here, component by component, with the properties that make each
correct, is listed as hazards in `PROJECT.json`, each at its line.  In short:

* *bridge*: two threads on shared memory without locks; a wake-up lost between
  the look and the sleep; a mixture of two messages; service of a dead client;
* *process table*: any order of spawns, exits, kills, time-outs and failures over
  a tree; a caller parked in `spawnSync` that nobody will free;
* *mirror*: tasks that interleave at every await, act on what is there when they
  run, share cached promises, and must still make a flush mean something;
* *network*: three queues between two processes and the kernel, half-close, and
  release of a process with connections in every stage;
* *event loop*: exactly when a process that has nothing to do may be ended, and no
  wake-up lost between a turn that looks for work and the work that comes;
* *virtual file system*: one inode under several names, descriptors that outlive
  their names, directories moved into each other, and one event per change;
* *preview sockets*: a close from the page, from the server, from a timer, from a
  broken frame and from a page that leaves, any two of them at once.

## 2. Modules

| module | models | kind |
|---|---|---|
| `SyscallRpc` | what the bridge promises: a remote procedure call | abstract specification |
| `SyscallBridge` | both halves of the bridge, doorbells, registration, lazy restore, service | detailed specification, implements `SyscallRpc` |
| `SyscallBridgeProofs` | theorems about `SyscallBridge` | proofs |
| `ProcessTable` | `createProcessTable` with the spawnSync server | specification |
| `ProcessTableProofs` | theorems about `ProcessTable` | proofs |
| `OpfsMirror` | `createOpfsMirror`, the events that feed it, flush, reload and restore | specification |
| `OpfsMirrorProofs` | theorems about `OpfsMirror` | proofs |
| `ProjectTree` | what guests do to persisted projects | operators |
| `EagerRestore` | what lazy restore promises: everything was there from the start | abstract specification |
| `LazyRestore` | `restoreFromOpfsLazy` and the service of requests that wait for it | detailed specification, implements `EagerRestore` |
| `LazyRestoreProofs` | theorems about `LazyRestore` | proofs |
| `NetPipe` | what a TCP connection is to its two ends: an ordered pipe in each direction | abstract specification |
| `NetServer` | `createNetServer`, the handles of `bindings/net.ts` and `udp.ts`, the queues between them | detailed specification, implements `NetPipe` |
| `NetServerProofs` | theorems about `NetServer` | proofs |
| `EventLoop` | `runtime/eventLoop.ts`, Node's timers and task queues, `execute` around it | specification |
| `EventLoopProofs` | theorems about `EventLoop` | proofs |
| `Vfs` | `fs/Vfs.ts` and the descriptor lists of `FsServer` | specification |
| `VfsProofs` | theorems about `Vfs` | proofs |
| `WebSocket` | what a page may expect of a WebSocket | abstract specification |
| `PreviewSocket` | the page's shim, the host's relay, the kernel's tunnel and a server that may leave, die or send what it likes until it has sent a close frame | detailed specification, implements `WebSocket` |
| `PreviewSocketProofs` | theorems about `PreviewSocket` | proofs |
| `MC...` | constants for TLC | |

### SyscallBridge

One client is a column of every variable.  `pc[c]` is where its thread is in
`call` (syscall.ts:191-219): each load or store of a shared cell is one action, so
the two threads' accesses interleave in every way; the sleep is two actions
(`Check` loads STATE, `Park` is `Atomics.wait`, which looks again and sleeps).  The
servicer's thread is `job`: `ReadRequest`, `Run`, `PutData`, `PutLen`, `PutState`,
`Wake` are the accesses of `FsServer.service`, and the messages it is woken by are
`Register`, `Unregister`, `Doorbell` and the two outcomes of a deferred restore,
each taken only when no job is in progress, as a worker's event loop does.  Cells
carry the number of the call they were written for in place of bytes, so that a
request or response put together from two calls is a state TLC can see.  A client
may be killed at any step; the kernel then posts `unregister`.

Atomics accesses are sequentially consistent by ECMAScript; the payload's plain
stores are ordered by the STATE store after them.  That is why one interleaving of
single accesses is a sound picture of the memory.

### ProcessTable

`workers` is the table; `thread` what each pid's worker thread is doing; `up[p]`
the messages it posted that the kernel has not taken; `rung` the doorbells of
`spawnSync`; `events` what was told to each parent, caller or to the host, in
order.  `Finalize` is one action as in the code: the whole subtree, terminated,
detached, reported.  A spawn may fail at each step that may throw (`FailAt`), and
`LeftBehind` is what that leaves.  `PidsCollide` lets a spawn name a live pid, be it
of a process, a synchronous child or a worker thread, as the arithmetic of
`kernel/index.ts:79,173-198` does for particular host pids.

### OpfsMirror

The File System Worker is one thread, so an action is what runs between two
awaits.  Macrotasks are the guests' operations, the browser's answers and the
request for a flush; the continuations of settled promises are microtasks and run
before the next macrotask (`Due`).  `chain[p]` is the promise chain of a path, as
the events it still has to deal with, `run[p]` the task at its head with the
content it read, `waiting` the queue for one of the slots, `cache` the promises of
directory handles (asked, resolved, rejected), `mqueue` the manifest's chain.  An
OPFS request takes effect in the action that makes it: the File System standard
puts requests on one queue, so the effects come in the order of the requests; the
answer comes in a later action.  Files are one directory deep; a file's content is
the number of the operation that wrote it.  Of these requests those in `Fails` may
fail: for a directory (`"dir"`), a write, be it of a file or of the manifest
(`"write"`), a removal (`"remove"`), and a removal that outlasts its retries because a
writer is open (`"locked"`).  A failed save of the manifest leaves the chain rejected
and the manifest as it was.

`Reload` takes the page away at any moment and boots it again, as one action, because
nothing is served before `restoreFromOpfs` is done: the mirror starts anew, the tree
is what OPFS holds with the recorded links replayed on it (`Restored`), and links whose
directory is gone are struck off.  A manifest that is being written may come back
unreadable, as the code's comment reports; it then counts as empty (`Readable`).

### LazyRestore

A project is an empty directory until a request names a path in it.  `Doorbell` is
the handler's `service`: the request is carried out at once, or starts the restore
of the pending roots it names and waits.  A restore is a collection and one action
per file, with other requests served in between; `depth` and `hook` are the counter
and the handler of `withSuppressedOnChange`.  At most `MaxFaults` things go wrong: a file cannot be
read and is skipped (`opfsPersistence.ts:331-333`), or the listing of a project or the
save of its links throws, which rejects the restore; a request that waits for it is
then never served.  The refinement mapping reads a pending
project as what can be read of it in OPFS and any other as what the Vfs has: under it every
request takes effect at once on the whole tree, which is `EagerRestore`, and every
step of a restore is a stutter.

### NetServer

`up[p]` and `down[p]` are the message queues between a process and the kernel;
`asking[p]` is the one call that goes another way, listen() or bind() through shared
memory, in no order with `up[p]`.  `bound`, `conns`, `nextPort` and `nextConn` are the
kernel's tables, `servers`, `pending` and `sock` those of a process: what listens,
what waits for a connect's result, and each handle with its queue of reads.  Guests
may listen, connect, write, shut down, close, pause and resume in any order, exit,
or be killed; `Relay`, `Service` and `Dispatch` are the kernel's and the process's
handlers, each whole.  An end's id is the number the code mints, so one connection
is two consecutive ids.  The refinement mapping reads the pipe towards an end as what
is queued at its handle, then what is posted to its process, then what its peer has
posted to a kernel that still has the connection on record.

### EventLoop

`phase` and `code` are the stack: which callback the thread is in and whether guest
code, a tick or the loop's own step runs there.  `macro` is the browser's task queue,
`micro` its promise jobs, each with the number of awaits still before it.  `Woken` is
`wake()`, the `Settle...` actions are the branches at the end of `turn()`: more
immediates, asleep, unsure (`idleArmed`), idle.  Timers and immediates are the one
bit the decision needs, whether they are ref'd, in order of expiry; a timer that fires
counts as ref'd until its callback has returned.  `MainDone`,
`BeforeExit` and `BeforeExitDone` are `execute`.  A guest's callback may throw an
error that has a handler (`Rough`), exit, or make any of the calls that leave work.
Code of `runtime/node/lib` is mapped where the loop's decisions are made there
(`timers.js`, `task_queues.js`).

### Vfs

`nodes` is the array of inodes, with `nlink` as the code counts it; a path is a
sequence of names and `Walk` resolves it through symbolic links as the code's loop
does, with its bound.  Each operation is one action whose guard is what the code
throws for; a call that throws is not a step, but for `mkdir -p` and `cp`, which may
throw half way.  `events` is what `onChange` was told
during the last operation, `held[c]` the list of what a client has opened, which is
closed when it goes.  Nothing in the code asks whose a descriptor is, so any client
may write, truncate or close any number; `strayed` remembers that one has closed a
descriptor that was not on its list.  `mkdir -p` and `cp` make several nodes in one call: `Begun`, `Made` and
`Done` carry what has been made so far from one node to the next.  `cp` copies a node
before what is in it and all of that before anything else; which entry of a directory
comes first is left open, since the model keeps entries and not the order in which they
were added.  A directory may be copied into itself: the copy meets what it makes and goes
on until the stack is full (`overflow`), at any depth the inodes allow, and what it has made
stays.  Content is the number of the operation that wrote it.

### PreviewSocket

`page` is the shim's socket with its queue of promises, `up` and `down` the port and
the kernel's channel (the host page keeps order and decides nothing), `tunnel` and
`conn` the kernel's side, `toServer` and `toTunnel` the virtual connection, whose
order and whose behaviour on close are what `NetServer` is checked for.  A tunnel's
reaction is one action, since its net events are calls: `Finish`, `Write` and `Emit`
take and return the part of the state they change.  `chunk` is what is left of a chunk
that is being read: several frames may come in one, and `WebSocketReader.feed` reads
them one after the other (`NextFrame`) before the kernel does anything else.  `stuck` says that a
link of the shim's queue has rejected (`FlushFails`): a Blob could not be read, and nothing
behind it is sent.  The server refuses, answers, writes messages,
pings, close frames and garbage, ends, closes or is killed as it likes, but sends nothing
behind its own close frame.  `WebSocket`
is stated over what the page and the server can see, and is implemented by leaving
everything in between out.

## 3. Runs

| run | instance | what it shows |
|---|---|---|
| `bridge` | 2 clients, 2 calls each, lazy restore that may reject, kills | the two halves never touch a buffer at once; requests and answers are whole and belong together; no wake-up is lost; nobody is served after unregister; the inductive invariant; the bridge implements `SyscallRpc` |
| `bridge_live` | 2 clients, 1 call, no rejections, fair | the fair procedure call is implemented: every call returns |
| `process_table` | 3 pids, 2 messages each, the worker may fail to start | parents outlive children, no thread or client leaks, a blocked thread is awaited, an end is last and true, and whoever asked for a process hears of its end |
| `process_timeout` | 3 pids, 1 message, colliding pids of processes, synchronous children and threads, failing attach steps, fair | a `spawnSync` with a time-out comes back |
| `opfs` | 1 directory, 2 names, 5 operations, 2 slots, failing writes, manifest saves and removals, 1 reload, 2 workloads | every difference between tree and mirror is pending or was refused, before and after a reload; slots are used well; what a flush came back for is what a reload restores |
| `opfs_live` | 2 directories of 1 name, every operation but links, every failure, 1 slot, fair | the slot is handed on and every flush is answered |
| `lazy` | 2 projects of 2 files, 2 clients, 3 requests, 1 fault of OPFS, fair | restored files are not reported as changes; guests cannot tell that restore is lazy; deferred requests are served unless a restore they wait for rejects |
| `net` | 2 processes, TCP and UDP, 1 port, 1 connection, 2 writes, 5 operations, kills, fair | the kernel's tables hold what lives and agree with the handles; a connection is a pipe in each direction (`NetPipe`); whoever waits is told |
| `loop` | 5 calls of guest code, chains of 2 awaits, with and without errors, fair | no wake-up is lost; work is done; a process ends when nothing ref'd is left, and not before |
| `vfs` | 2 clients, 2 names, paths of 2 names, 5 inodes, 2 descriptors, 4 operations | directories stay a tree and link counts are right; no descriptor leaks, and while clients close only their own, lists have only their own; every change is reported under some name |
| `socket` | 2 messages up, 2 frames down, every close, fair | one close event, at the end; the page sees a `WebSocket`; unless the queue has rejected, closing ends; no connection is left behind |

One run ends in a counterexample, a disagreement between the code and its comments
(quoted under `findings`): in `opfs_poisoned` one link is removed at the wrong
moment, and `wc.fs.sync()` never resolves again.

### Known divergences

The properties above are stated for what the code does get right.  Next to each of
them is a stronger one that is false in the code; `PROJECT.json` lists these as
hazards without a property, and the models show most of them with other constants
or with a line more:

* *bridge*: with `RestoreMayFail = TRUE`, `ImplementsFairRpc` is violated: a lazy
  restore rejects and the caller is parked for ever (`workers/fs/handler.ts:96`).
* *process table*: `ParentsAlive` is about children started asynchronously: the
  synchronous child of a process killed inside `spawnSync` goes on running, though
  ARCHITECTURE.md:169 says that the whole subtree is killed.  A start that fails is told
  to the host and, but for a caller in `spawnSync`, not to the process that asked, which
  is why `EveryEndIsTold` counts the host's word there.
* *mirror*: `FlushMeansDurable` is violated by the workload mkdir, write, rename (the
  walk of a renamed directory writes old content over new), by mkdir, write and rm
  with `again = TRUE` (the files of a directory removed and made again stay), when
  `Target` is a path (a link made before its target is never recorded), and when
  `"dir"` is in `Fails` (one failed directory request fails every later write).  One
  failed save of the manifest rejects its chain for ever, so that no later link is
  recorded or struck off: these paths are `unlucky`, and no property promises anything of
  them.
* *lazy restore*: a restore may reject, when a directory cannot be listed or the links
  cannot be saved, and `workers/fs/handler.ts:96` has no handler for that: the requests
  that wait for it are never served.  `DeferredIsServed` promises an answer only where no
  restore that is awaited rejects.  What a guest changes while anything is being restored is reported to
  nobody, since `onChange` is off, so a project deleted during its restore is back
  after the next boot; and `ImplementsEager` is violated when a removed project's
  directory is made again during its restore (`"mkdir"` with `"rmTree"` in `Kinds`).
* *network*: a handle closed before its connect is answered, and a connection that
  reaches a closed server, leave the other end waiting until a process ends, though
  `bindings/net.ts:32` says that close tears the connection down for both sides:
  `EveryoneHears` leaves out ends that never knew their connection.
* *event loop*: `EndsIdle` says nothing of promise jobs: a process may end while one is
  pending that a `beforeExit` listener left.  `WakeIsOnItsWay` leaves out workloads
  with uncaught errors, after which ticks may wait for the next event.  After
  `process.exit` in a timer, immediates of the same turn still run.
* *virtual file system*: a client that closes a descriptor twice, or one it never
  opened, may close what another client has opened since; the number stays on that client's
  list, and whoever gets it next loses the descriptor when that client goes
  (`fs/FsServer.ts:224-230`): `FdsAreHeld` promises exact lists only as long as
  nobody has done so.  A directory that is copied into itself leaves a nest of partial
  copies behind the error, the last node of which may be told to nobody
  (`fs/Vfs.ts:522-540`).  Events name the path an operation was given.  When that path
  goes through a linked directory, or was renamed since a descriptor was opened, no
  watcher of the real one hears of it, though `fs/Vfs.ts:145` speaks of the real path;
  `ChangesAreReported` asks for some event whose name leads, or led, to what changed.  A truncation by `O_TRUNC` alone is not reported.
* *preview sockets*: a Blob that cannot be read, or a buffer that was transferred away,
  rejects the shim's queue (`workers/preview/webSocketShim.ts:143-150`): no later message is sent, and
  `close()`, whose command is a link of the same queue (`:162`), leaves the page
  CLOSING unless the server ends the socket or the page leaves.  `ClosingEnds` leaves out
  a queue that has rejected.
* *preview fetches* (not modelled): a fetch whose response cannot be parsed leaves its connection registered.
* *ES modules* (not modelled): `prepareSingleton` and `prepareCycle` in
  `runtime/esm/loader.ts` prepare a module again when an earlier attempt failed half
  way, so that a dependency is evaluated twice, and an error inside `discover` leaves
  its marks in `discovering`.

### Bounds

`MaxCalls = 2` is enough for the bridge because a call leaves nothing behind but
the cells of the one before it; a third call meets the same leftovers as the
second.  The proofs do without the bound.  Three pids give a parent, a child and a
grandchild or sibling, and every pairing of synchronous and asynchronous children;
pids are never reused except where `PidsCollide` allows it, as in the code.  Two
messages per process let an exit, a kill or a spawn race an output.  Five operations
on three paths with two slots are enough for a path to queue behind itself and
behind others, for a removal to meet an open writer and a link's record to wait in
the manifest's queue.  One reload is enough since a restored mirror is as new: a
second one meets a tree and a manifest that a first one could have met.  The
workloads of `opfs` leave out renames, dangling links
and directories that are made again, because with them the property is false (above).
Two clients, two projects and three requests let one restore be joined, overlapped by
another, and cut short by a removal; one fault is enough for one restore to reject, or to
skip a file, beside one that succeeds.  `opfs_live` has one slot, so that the hand-over is
what every write waits for; a lock's retry never runs beside a writer of another path there,
as it does in `opfs` with its two slots (with two slots, and all failures, liveness
is out of TLC's reach in the time a run should take).  In `net` one connection between two processes,
or within one, with two writes a side is what a pipe's order needs; the single port
is at once a named and the only ephemeral one, so that the search wraps and runs out;
five operations reach listen, connect, write, shut down and close in any order, with
exits and kills free of charge.  In `loop` five calls allow an immediate, a timer, a
tick, a handle and a promise job to be pending together.  In `vfs` two names two
levels deep with five inodes are enough for a directory inside another, a link to
either, a hard link and the copy of a directory that is not empty (with four inodes
none is ever copied), and four operations to build that and take it apart.  In
`socket` two messages and two frames let one be delivered and one be under way when
the socket closes, and a close frame come behind something else in one chunk.
Symmetry is used for clients and pids, where
no constant tells them apart, and in no run with a liveness property.
`CHECK_DEADLOCK FALSE` stands in runs whose guests may simply have nothing more to
do.

### Fairness

*Bridge*: a thread that can take its next step does (the operating system schedules
both), a message posted to a worker is delivered, a restore settles.  Nothing makes
a client start a call or be killed.  *Process table*: the kernel's event loop takes
every message and doorbell in its turn and timers fire; nothing makes a process
post, exit or be killed.  *Mirror and restore*: the browser answers every request and
microtasks run (`WF_vars(Mirror)`, `WF_vars(Restore)`); guests and flush requests are
not fair.  *Network*: the kernel takes its messages and doorbells, each process's loop
its events; no guest has to read, write or close.
*Event loop*: the browser runs the thread and its timers and time passes; guest code
returns; no completion has to come.  *Preview sockets*: messages are delivered and
promises run while the page is there, and time passes; the server owes nothing.

## 4. Proofs

Each proof module EXTENDS the module it is about.  What it proves holds for every
value of that module's constants that its ASSUME allows (sets of clients, pids,
projects, numbers of calls and messages, lengths of promise chains), where a run
shows one small instance.  A theorem with a further hypothesis says so below.

### The bridge

`SyscallBridgeProofs`, from `BridgeAssumption` alone, whether or not restore is lazy
or may fail:

| theorem | statement |
|---|---|
| `TypeCorrect` | `Spec => []TypeOK` |
| `HandshakeKept` | `Spec => []Handshake` |
| `ExclusiveAccess` | `Spec => []Exclusive` |
| `RequestsAreWhole` | `Spec => []WholeRequest` |
| `AnswersMatch` | `Spec => []AnswersItsRequest` |
| `WakeupsArrive` | `Spec => []NoLostWakeup` |
| `UnregisteredIsSilent` | `Spec => NoServiceAfterUnregister` |
| `BridgeImplementsRpc` | `Spec => ImplementsRpc` |

The argument.  None of the safety properties is inductive alone: that an answer
belongs to its request depends on what the servicer read, which depends on what
the caller had stored, which depends on whose turn it was.  `Handshake` says all of
it about one client: `Turns` relates the caller's position, STATE and the
servicer's job; `RequestCells` and `ResponseCells` say from which store on each
cell belongs to the current call; `Counts` relates calls begun, carried out and
returned.  It mentions one client at a time, so each step is proved twice: for the
client that takes it and, by one frame lemma, for all the others.  The proof has a
lemma per action of the caller, of the servicer and of the messages, and a QED that
combines them.  The safety properties then follow from `Handshake` without further
induction, and the refinement from it together with a case per action: `PutRequest`
maps to `Call`, `Run` to `Execute`, the caller's `Take` to `Return`, `Kill` to `Die`,
everything else to a stutter.

### The process table

`ProcessTableProofs`, for every set of pids and every number of messages:

| theorem | statement | hypothesis |
|---|---|---|
| `TableTypeCorrect` | `Spec => []TypeOK` | |
| `ParentsStayAlive` | `Spec => []ParentsAlive` | |
| `NobodyLeaks` | `Spec => []NothingLeaks` | `FailAt \subseteq {"worker"}` |
| `StartedOnce` | `Spec => []AskedOnce` | `PidsCollide = FALSE` |
| `EndIsHeardLast` | `Spec => []EndIsLast` | `PidsCollide = FALSE` |
| `ParkedIsAwaited` | `Spec => []BlockedIsAwaited` | `PidsCollide = FALSE` |

The first two ask for nothing: they hold with colliding pids and whatever part of a
spawn throws.  `NobodyLeaks` leaves out the steps that throw after the worker has been
made, where `LeftBehind` leaves the worker running outside the table: that is what
`kernel/processes.ts` does, and the property is false there.  The other hypothesis
leaves out a child whose pid is already a live process's: then the spawn is refused,
the exit it reports is that of a process that lives, and the properties are false.

The argument.  `Subtree(p)` is the least set that holds `p` and is closed under
children; `SubtreeClosed` derives from that definition, without induction, what every
proof about an end needs: who is in the subtree has its parent there, and who has its
parent there is in it.  `ParentsAlive` is inductive next to the type invariant.
That an end comes last is not: it needs that a pid which has ended is never started
again (`EndsForGood`), and that needs `AskedOnce`: for every pid at most one message
in all the queues asks for its birth, none if nobody owns it, and a pid that is still
asked for has not run.  `AskedOnce` speaks of positions in every queue, so the
proof separates what only shortens queues (`Shrinks`) from the one step that posts a
request.  `Parked` says of each thread in `spawnSync` that either its doorbell is on its
way or the callers' entries name exactly one child; with `AskedOnce` it is inductive
too, and gives `BlockedIsAwaited`.

### The mirror

`OpfsMirrorProofs`, for any sets of directories and names, any workloads and failures,
any number of operations, reloads and slots:

| theorem | statement | hypothesis |
|---|---|---|
| `MirrorTypeCorrect` | `Spec => []TypeOK` | |
| `NothingIsForgotten` | `Spec => []NothingForgotten` | `SafeUse` |
| `FlushIsDurable` | `Spec => []FlushMeansDurable` | `SafeUse` |

`SafeUse` restricts what guests and OPFS do, and the run `opfs` satisfies it.  It has
four clauses, each there for a divergence of section 3, where the conclusion is false in
the code: no workload renames or moves (the walk of a renamed directory,
`fs/opfsPersistence.ts:601`); one that uses a removed path again neither removes
directories recursively nor makes links (a directory made again before its removal's
task runs, `:683`); links lead to what is always there (a dangling link is not recorded);
requests for directories do not fail (a failed one stays cached, `:119`).  Writes,
removals and saves of the manifest may fail, locks may outlast their retries, and the page
may be reloaded at any moment.  The
clauses are a little stronger than the divergences, since a rename that goes well has to
be told from one that does not by its timing.

The argument.  `Typed` strengthens the types by the two disciplines of waiting: whoever
runs or waits for a slot has a notification to deal with (`Slots`), and each operation of
the manifest's chain has its one task (`Awaits`).  `Remembered` says why nothing is
forgotten.  Its heart is `Pending`: a path whose mirror differs (`Owed`) has a task of its
own coming, which either has not looked yet, is dealing with what the path is now, or has a
successor (`OwnPending`); or the path went with its directory, and the directory's
removal is coming (`ByDir`).  That is not inductive, for three reasons.  A task that was
overtaken may write after the removal of what it writes, so `Succeeded` says
that a task that deals with what the path no longer is has a successor or belongs to a
removed directory.  A link may be recorded after its directory's removal was asked for,
so `RecordsFirst` says that the record comes before the removal in the manifest's
chain.  And a task with a file open stops its directory's removal, so `Trees`, `LinksApart`
and `UnluckyDirs` say which tasks may find what.  `Flushed` relates a flush to the chains of
its time: what did not change since has exactly as many notifications left as the flush
still waits for; with `ByDir`, which puts the directory's removal before the flush when the
path's was, it gives `FlushIsDurable`.

Most actions leave most of this alone: `QuietStep` is about steps that keep tree,
mirror and manifest, `PlainMove` about a task that goes from one place to another.  What
remains has a lemma each: `GuestKeeps` with `RemoveKeeps` for recursive removals,
`WriteKeeps`, `EntryGone` (a removal took effect), `PostKeeps` (an operation joins the
manifest's chain), `ManifestDoneKeeps` (of `ManifestSavedKeeps` and
`ManifestFailsKeeps`, since a save may fail), `EndKeeps` and `ReloadKeeps`.

### Lazy restore

`LazyRestoreProofs`, for all finite sets of projects, any files, clients and requests:

| theorem | statement | hypothesis |
|---|---|---|
| `LazyTypeCorrect` | `Spec => []TypeOK` | |
| `RestoredSilently` | `Spec => []RestoreIsSilent` | |
| `LazyImplementsEager` | `Spec => ImplementsEager` | `NotMadeAgain` |

`NotMadeAgain` says that guests do not both remove project trees and make directories
again; it is the exact complement of the divergence in section 3, where TLC finds the
counterexample.  The type invariant holds the heart of `withSuppressedOnChange`: the
counter is the number of restores in progress.  With `HandlerOff` (the handler is off
while the counter is not zero) it gives `RestoreIsSilent`.  The refinement needs two more
facts, `PartlyRestored` (of a pending project the Vfs has the files written so far and
nothing else) and `Waiting` (every pending project that a deferred request names is
waited for and in restore); its lemmas show that what a request finds and leaves depends on the
projects it names alone (`ResultsAreLocal`), so that it may be read in the whole tree.

### The network

`NetServerProofs`, for every finite set of processes, any sets of ports, any number of
connections and of writes:

| theorem | statement |
|---|---|
| `NetTypeCorrect` | `Spec => []TypeOK` |
| `NetTablesAgree` | `Spec => []TablesAgree` |
| `NetImplementsPipe` | `Spec => ImplementsPipe` |

The argument.  `TablesAgree` is the conjunction of two things that are proved in
different ways.  `PortsAgree`: the kernel has a port down as a process's if and only if
that process listens on it or its one release is still on its way (`Frees`, `FreesOnce`).
`Pairs`: connections are pairs of live ends, and their ids have been given out.  Neither
is inductive without the types, nor are the types without the tickets of pending
connects: a ticket is under way, in one of the queues of requests, answers or events,
exactly while the connect it belongs to is pending, and there only once (`TicketsAsked`,
`TicketsAnswered`; one lemma per way a queue moves).  `Room` bounds the ids by counting
the asks that were not yet answered, which needs the sets counted to be finite.  The
kernel closes the connections of a dead process in the order of their ids; that such an
order exists (`OrderedIs`) is proved from the least counterexample, which is how an
induction over data can be done here when it is over one natural number.

That a connection is a pipe needs a second inductive invariant, `Piped`, about one end at
a time.  `EndsInOrder`: a process posts nothing about an end behind its close, and is told
of an end first and of the other's close last.  `OneOwner`: one process at most has to do
with an end, be it in a handle or in either queue.  `OnRecord`: while the kernel has an end
on record, that process is the one on record and has not been told of a close.  `Hung`:
where the record is gone, so is one of the two ends.  `NewIds`: ids are given out in pairs, and no
trace of an id exists before.  `PipedIsKept` has a lemma for each kind of step, over lemmas
that say what a guest's step, a dispatch, a message that is heard, a connect and the end of
a process do to the queues (`GuestMoves`, `DispatchMoves`, `RelayMoves`, `ConnectMoves`,
`FinalizeMoves`).  `EndsAreSeen` then reads the refinement mapping, which chooses the
process that has an end, as a statement about that process, and the mapping of the steps is
short: guests' writes, shutdowns, closes and reads are the pipe's; what the kernel hears
goes from the front of one queue to the end of the next, which is a stutter (`HearingIsPipe`);
a dispatch attaches, gives up or reads an end, or queues an item where it was under way
(`DispatchIsPipe`); the end of a process is `Die` of its ends (`FinalizeIsPipe`), with the
end of file behind what had been posted to the survivors.  The items in a queue are a
recursive function over its length (`ItemsOf`); what it makes of a queue that grows, shrinks
or is put behind another (`ItemsAppend`, `ItemsFront`, `ItemsConcat`) is proved by least counterexample.

### The event loop

`EventLoopProofs`, for any number of guest calls, any depth of promise chains, with and
without errors:

| theorem | statement |
|---|---|
| `LoopTypeCorrect` | `Spec => []TypeOK` |
| `WakeUpsAreOnTheirWay` | `Spec => []WakeIsOnItsWay` |
| `EndsOnlyIdle` | `Spec => EndsIdle` |

The type invariant is not inductive: that one turn and one check are posted at a time
depends on the flags that guard the posts.  `LoopInv` is: `Counted` (tasks, handles and ticks
are bounded by the calls that made them), `OneExecute` (one `execute` at a time, and
none while the loop runs), `ClockOk` (the deadline is set while there is a timer, and
counts while there is a ref'd one; this is where `Insertion` into the ordered timers
has to be reasoned about, `Inserted` and `FirstTaken`), `StackOk`, `FlagsOk`, `BatchOk`,
`TicksSeen` (ticks are drained by whoever queued them or have their check posted) and `Awaited`
(a loop that runs has its turn posted, or no immediate and the host's timer).  Each
has a lemma of its own that cites the others it needs.  Two lemmas carry the
counting: `PutAtEnd` and `TakeFront` say what adding to and taking from a queue do to the
number of tasks of a kind in it, with the cardinality theorems of the library.

### The virtual file system

`VfsProofs`, for every set of names and clients, any number of inodes and descriptors:

| theorem | statement |
|---|---|
| `TypesHold` | `Spec => []TypeOK` |
| `TreeStaysSound` | `Spec => []TreeIsSound` |
| `DescriptorsAreHeld` | `Spec => []FdsAreHeld`, whoever closes whatever |
| `ChangesHeard` | `Spec => ChangesAreReported` |

`TreeIsSound` says that no names lead from a directory to itself, that each has one
name at most, and that `nlink` counts names.  The inductive form is `IsTree`: shapes,
entries only in directories and only of inodes that have been made (`Filled`), link
counts as cardinalities of sets of names (`Counted`), `OneName`, and `Acyclic`.
Reachability by paths is awkward to reason about; `Acyclic` says instead that in every
set of directories that is not empty one is in none of the others, nor in itself.
A new node has no children (`GrownKeeps`), a name less or a link to a file takes
nothing from it (`UnnamedKeeps`, `LinkKeeps`).  A rename is the interesting case
(`MoveKeeps`): a set of directories that lies within what is moved is as it was before;
in any other, take the part outside, where one is in none of the others, and what is
beneath the moved directory cannot hold it but by the new name, which is outside.
That needs `Beneath` to hold every directory in one of its own: it is computed in
`MaxIno` rounds, and if each added one there would be more directories than inodes
(`BeneathClosed`).  `NoWayBack` goes from `Acyclic` to paths: the directories on a way
that came back would be a set in which each is in another.

What walks, `Beneath`, `mkdir -p`, `cp` and paths compute is a recursive function over
numbers.  `Iteration` shows once that such a function exists, and `StepByStep` that what
each step preserves is true of all of it, both from the least number that would be a
counterexample; so a walk ends at an entry of a directory of the tree (`WalkEnds`), and
whatever `mkdir -p` and `cp` have made so far is a sound tree (`MkdirAllKeeps`,
`CpKeeps`).

The inductive form of `FdsAreHeld` is `HeldByOne`: every open descriptor is on the list of
some registered client, whoever has closed whatever (`HeldBySome`), and as long as
nobody has strayed the lists are disjoint and hold open descriptors only (`OwnOnly`).  Only
open, close and unregister need an argument; open needs that the number it gives out is
free (`FreeFdIsFree`).  `TypeOK` needs the tree and `Refers` with it (`VfsInv`): an open
descriptor refers to an inode, or writing through it would be outside the tree.

`ChangesAreReported` compares what any path leads to before and after an operation with
what an event's path walks to, through links and under other names.  `AllTold` has one case
per operation, and three arguments carry it.  Where a path leads elsewhere than before, there
is a first name at which it does (`FirstChange`), and what is entered there is the one entry
that changed, which is the entry an event's walk ends at (`EntryTold`, for one new, removed or
moved name); what lies beyond it is gone (`Covers` lets the event stand for it) or lies
beneath the new name of a rename.  Where an operation makes many nodes, events are about walks
of the tree as it was then: `Heard` says, of what `mkdir -p` and `cp` have made so far, that
every new node, but for the last of a copy that has filled the stack, is what some event's
path walks to, and a walk that found something finds it in a
larger tree too (`WalkKept`, `WalkMade`), so it survives what is made later.  And a path that an
`open` reports is a real one: it is what the walk came by (`RealLeads`), so that walking it,
where no link can be met any more, ends at the same entry (`PlainWalk`).  Writes lead every
path where it led (`DataLeads`) and are told under the path of the write or of the descriptor.

### Preview sockets

`PreviewSocketProofs`, for any number of messages, frames and commands in flight:

| theorem | statement |
|---|---|
| `SocketTypeCorrect` | `Spec => []TypeOK` |
| `SocketEndsOnce` | `Spec => []EventsEndOnce` |
| `SocketImplements` | `Spec => ImplementsWebSocket` |

Types, `OpensFirst` and `EventsEndOnce` are inductive only together: that nothing is
told after an end depends on who has ended the tunnel, and that on what is still
queued for the page.  Lemmas about `Finish`, `Write`, `Handled` and the kernel's entry
points (`CommandDoes`, `NetEventDoes`, ...) say once what a call of the kernel may
change, so that every action is reasoned about through them.  The refinement needs
three invariants about order, each over several queues: `UpInOrder` (the messages the
page has sent and the server has not read are, in order, those in the shim's queue, the
port and the connection), `CloseIsBehind` (a close follows every message sent before it)
and `DownInOrder` (the same towards the page, with the opening before the first message
and the end after the last).  `AppendCarries`, `TakeCarries` and `SplitCarries` are
about one queue that carries consecutive numbers.  `StepsAreSeen` then maps each
action to an action of `WebSocket` or to a stutter.

### Only model-checked

Liveness, since fairness and `ENABLED` are out of the prover's reach; that every end is
told (`EveryEndIsTold` of the process table, whose inductive form speaks of messages in
every queue); and the mirror under
use that is not `SafeUse`, as far as it is true there.

## 5. Plan

Modelled so far: the bridge, the process table, the mirror and lazy restore, the
network, the event loop, the virtual file system, preview sockets.  What is left, in
this order:

1. composition: `ProcessTable` with the handles of `bindings/childProcess.ts` and
   `worker.ts`, whose messages are in `events` already;
2. `runtime/esm/loader.ts`: preparation and evaluation of cyclic modules.

## 6. Not modelled, and why

Data transformation (zlib, hashes, buffers, HTTP parsing, semver, source
rewriting) has no state a step could leave wrong between two events.  The SDK,
studio and landing page use the core and add nothing to its protocols; the
vendored Node library is third-party code.  `OP_ZLIB_SYNC` is answered by a promise
and differs from `OP_SPAWN_SYNC` in nothing the bridge can see.  The bytes of
requests, paths and results are data: the models keep which call they belong to.

Inside modelled components, these are left out: a reload while a project is still
deferred (lazy restore: what it reads is what `Reload` shows OPFS to hold); clearTimeout and clearImmediate, and
rejections reported late (event loop: they only take work away, or are guest code);
named pipes, addresses and UDP datagrams (network: refused, static, or dropped
without state); byte positions, append, permissions and the registry of watches
(virtual file system: data, or a filter over the events modelled); one-shot preview
fetches, the HTTP head, masks and fragments (preview: what a chunk decodes to is
data; a fetch is a socket that asks once); stdin and ipc (process table: relays that
keep nothing).  Kernel boot, the host's APIs and the fetcher wire these parts together
or wait for one answer to one question.
