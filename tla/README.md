# threaders: models and proofs

threaders is a course project in C: three libraries and four programs around user-level threads, a
simulated paged memory and a toy file system. This directory holds TLA+ modules of its core logic,
TLC configurations that check them on small instances, and TLAPS proofs of what holds for every
size. Every definition is a reading of the source; `PROJECT.json` names, for each of them, the file
and the lines it stands for.

1. [The system](#1-the-system)
2. [The modules](#2-the-modules)
3. [What is checked](#3-what-is-checked)
4. [What is proved](#4-what-is-proved)
5. [Where code and documents disagree](#5-where-code-and-documents-disagree)
6. [Not modelled, and the plan](#6-not-modelled-and-the-plan)

## 1. The system

| component | state it keeps | operations | talks to |
|---|---|---|---|
| **hilolay** (`src/hilolay`), user-level threads (ULTs) | the table `ults[MAX_ULTS]`, the ready list threaded through `next`, `current_ult`, `NEXT_ID`, a machine context per ULT, the pending alarm | `lib_init`, `th_create`, `th_yield`, `th_return`, `th_stop`, the SIGALRM handler | the program it is linked into; the kernel's alarm |
| **libmuse** (`src/libmuse`), client of the memory server | the socket, the process id | `muse_init`, `muse_alloc`, `muse_free`, `muse_get`, `muse_cpy`, `muse_close`; `muse_map`, `muse_sync` and `muse_unmap` return 0 | muse, one blocking request at a time |
| **muse** (`src/muse`), the memory server | `memoria` (one block of MEMORY_SIZE bytes), `vectorFrames`, `vectorAtributoPaginas`, `lista_procesos` with the segments and pages of each process; 5-byte block headers inside `memoria` | MALLOC, MEMFREE, GET, COPY; MAP, SYNC and UNMAP are empty | the one connection it accepts; it exits when that closes |
| **shared-common** (`src/shared-common`) | the buffer of a package; the client table of the select server | pack and unpack each message, send and receive, listen, accept, select | every other program |
| **suse** (`src/suse`), a scheduler server | queues new, ready, blocked, exit; programs and threads; semaphores; the degree of multiprogramming | boot, long-term and short-term scheduling, thread and program transitions, metrics | a select server in one thread, a metrics loop in the other. Nothing calls the scheduling operations yet |
| **sac_server** (`src/sac_server`), a file system server | the node table of a disc image, whose mapping into memory is commented out | path lookup, creation of a directory, getattr, open, readdir, read | a detached thread per connection, which logs the request and answers nothing. Nothing calls the operations yet |
| **sac_cli** (`src/sac_cli`), a FUSE client | the socket | one request per file system call, no answer | sac_server |
| **client-tests** | none | a fixed sequence of libmuse calls | libmuse |

What is hard in each of them, and what would make it correct:

* **hilolay** runs C code under a signal that may arrive anywhere. SIGALRM's handler calls
  `th_yield` on the stack it interrupts, possibly inside another `th_yield`; slots and the tail
  pointer are reused for as long as the process lives. It is correct if no thread is lost or
  listed twice, if a finishing thread always finds another one, if the process ends when the last
  thread does and not before, if everybody gets the processor, and if `execution_time` is the time
  a thread had.
* **muse** keeps two vectors that must stay in step, computes addresses as if the frames of a
  segment touched, and finds its blocks by walking headers that lie among the clients' bytes. It is
  correct if pages belong to one segment, if blocks lie in their segment and do not overlap, and if
  what a client wrote stays.
* **libmuse and muse** exchange a request and a reply of one or two parts over a stream, with no
  sequence number. It is correct if a call returns, and returns the answer to its own request.
* **packages** are cut by TCP wherever it likes. They must arrive whole, in order, and all of them.
* **suse** has two threads and no lock, a list from which elements are removed while it is counted,
  and a degree of multiprogramming that is compared and changed in different places.
* **sac_server** looks a name up and then creates it, with the locks commented out, and writes a
  node field by field while others search the table. It is correct if no node is taken twice, if what
  a call finds finished it leaves so, if parents lead to the root, and if a call is answered as by a
  tree of names.
  Its accept loop hands each descriptor to a new thread through memory, never closes one, and gives
  a thread to a failed accept too. Every connection must have a thread of its own that takes its
  requests whole and in order.
* **sac_cli** reports success when a request was sent, so requests pile up on the stream and nobody
  learns what became of them.

`PROJECT.json` lists these hazards at the line where they bite.

## 2. The modules

| module | models | extends / uses |
|---|---|---|
| `RoundRobin` | what a thread library promises: who runs, who waits, in which order | |
| `Hilolay` | hilolay, one step per call or alarm | `RoundRobin` through a refinement mapping |
| `HilolayPreempt` | hilolay statement by statement, with the alarm between statements | |
| `HilolayPreemptProofs` | theorems about `HilolayPreempt` | `HilolayPreempt`, the theorem libraries |
| `HilolayProofs` | theorems about `Hilolay`, the refinement among them | `Hilolay`, the theorem libraries |
| `MusePaging` | muse: processes, segments, pages, frames | |
| `MusePagingProofs` | theorems about `MusePaging` | `MusePaging` |
| `MuseHeap` | muse: `memoria`, byte by byte, with the headers and the clients' data | `MusePaging`, whose actions it extends |
| `MuseHeapProofs` | theorems about `MuseHeap` | `MuseHeap`, `MusePagingProofs` |
| `MuseRpc` | what the connection to muse promises a caller: a procedure call | |
| `MuseSession` | libmuse, the connection and the server's loop | `MuseRpc` through a refinement mapping |
| `MuseSessionProofs` | theorems about `MuseSession` | `MuseSession` |
| `Wire` | packages of shared-common on byte streams, per connection and reader | |
| `Servers` | who takes packages apart: muse's only thread; sac_server's accept loop and its threads; what libmuse and sac_cli send | `Wire` |
| `ServersProofs` | theorems about `Servers`: whose connection a thread reads, types, delivery | `Servers`, the theorem libraries |
| `Suse` | the process of SUSE: main, the listener (shared-common's select loop) with its clients, the scheduler's thread up to its metrics loop | |
| `SuseScheduler` | the queues, threads and programs of SUSE and the functions that move them, composed with the process | `Suse` |
| `SuseProofs` | theorems about both | `SuseScheduler` |
| `SacTree` | what a tree of directories promises callers that overlap | |
| `SacFs` | the node table, `determinar_nodo` and `sac_create_directory`, statement by statement | `SacTree` through a refinement mapping |
| `SacFsProofs` | theorems about `SacFs`, the refinement among them | `SacFs` |
| `MC...` | constants for TLC | the module each is named for |

### hilolay

`Hilolay` keeps the fields of the table as functions of the slot (`id`, `state`, `burst_start`,
`execution_time`) and the ready list as the record `rq` of `READY_QUEUE_HEAD`, `READY_QUEUE_TAIL`
and every `next`. `Enqueue` and `Dequeue` are `lib_enqueue` and `lib_get_next_ult` to the last
assignment, including the tail that is not reset when the list empties. The actions are `LibInit`,
`ThCreate` (and `ThCreateFails` for a full table), `UserYield`, `ThReturn`, `ThStop`, `MainReturn`
with the loop `MainDrain` and its end `MainExit`, and `EndOfQuantum` for the signal. `Tick` is the
clock; the history variable `cpu` counts what each ULT really had. The alarm arrives while user
code runs; that it may also arrive inside the library is the subject of `HilolayPreempt`.

In `HilolayPreempt` every statement that touches shared data is a step, a thread is a stack of
frames, and `swapcontext` saves the stack that runs in one context and takes another one out.
The signal may arrive before any of them (`Signal`), as nothing blocks it. The ghost `strayed` collects
what the library cannot take: a signal inside `lib_enqueue` (`linking`), one between the statements
with which `th_yield` takes a slot off the list and resumes it (`yielding`), and a `th_create` that
chooses a slot another one has chosen and not yet written (`claimed`).

### muse

`MusePaging` has one action for each way a handler can end. A malloc of a process without a segment
takes the frames it needs (`MallocFirst`), finds too few (`MallocNone`: the empty segment stays), or
needs none because the size wrapped to no page (`MallocWild`). `MallocAgain`, `Access` (GET and COPY) and
`Memfree` take no page. What the bytes decide, whether the walk over the headers ends, turns in
circles or leaves the arena, is left open: `status` becomes `up`, `hung` or `wild`, and nothing is
claimed of a server that is not up.

`MuseHeap` closes that: `memoria` is a function from offsets to bytes, a number is four bytes of
base `B`, and `Walk`, `Carve`, `FirstBlock`, `HeapCopy` and `HeapFree` do to the bytes what the
handlers do, wrong offsets and 32-bit wrapping included: for a size just below `W` the sum with the
header wraps to few bytes or pages, `bytes_sobran` (muse.c:398) to an int that is small again, and the
server answers MALLOC_OK and goes on. It has the clients' side as a ghost: the blocks that were
given and not freed, and what was written to each. A second ghost, `strayed`, collects which of twelve
things have happened that the server cannot take (section 3). The walk goes on while its header begins
before the end of the segment, so it also reads one that begins in the last byte and ends in the
next segment.

muse.c carries the leftovers of a merge (lines 502-513) and its last function is not closed. The
model follows the one reading with balanced braces, without those lines.

`MuseSession` leaves the data out. A client has ULTs that share one socket and wait for an opcode
and then, unless the opcode ends the call, for a body. `Replies` says what each handler sends: a
package, a bare opcode (MEMFREE's SEG_FAULT), or nothing (COPY's SEG_FAULT, which
`utils_serialize_and_send` has no case for). The server can die on a request or hang on it. A
`muse_cpy` that meets another ULT's SEG_FAULT follows the NULL it got for a package (libmuse.c:112), and the
client is lost. The alarm of a program with hilolay cuts a waiting `recv` short, for its handler is
installed without SA_RESTART: `RecvInterrupted` does then what the code does with a `recv` whose result
nobody looks at, and the ghost `interrupted` remembers it.

`MuseRpc` is the same without a connection: a call is asked, accepted or refused or dropped, and
returns. The mapping reads the stage of a call off the two directions of the connection.

### packages, sac_server's connections, sac_cli

`Wire` has the bytes and the actions on them, for several connections and several readers. `Send`
puts a package on a connection, `Arrive` lets one byte through, and a reader takes the opcode with a
plain `recv`, which may return fewer bytes than an int, and size and buffer with MSG_WAITALL.
An int is `INT` bytes of base `B`, the lowest first (`Power` gives the places their values).
`MessagesAssumption` says that `utils_serialize_and_send` has a case for every message sent and that its
package's size fits an int (`Sendable`); what has no case is the subject of `MuseSession`.

`Servers` says who does this. On one side libmuse sends its requests to the only thread of muse. On
the other each client of sac_server connects, sends a request for each FUSE operation
(`PathField` is the path as `utils_serialize_and_send` puts it in, mostly bytes of the pointer) and
leaves when it likes. The accept loop takes the lowest free descriptor, `HandsOver` the descriptor in
an int of its own, `Starts` a thread, which `pthread_create` may fail to make ("never"), and goes on
when `accept` fails. The thread reads its descriptor (`Begin`), then requests (`Receives`), until
recv returns nothing (`Ends`); the descriptor stays open. Copying the path to a pointer that was never
set may end the process. A reader that got an opcode in two pieces is followed no further, since
nothing in the code or the documents says what should happen then. The two programs share
nothing, so in each behaviour one of them has no clients. Nothing is claimed of the contents of a
path beyond the bytes that were sent. sac_cli's `sac_create_directory` sends nothing; the brace
that is missing after sac_cli.c:71 is read as if it were there.

### sac_server: directories

`SacFs` has one node table and threads that call `sac_create_directory`. Each step is one store, one
turn of the search for a free node, or one of the three comparisons the lookup makes with a node:
parent, name, state (`ComparesParent`, `ComparesName`, then `Found` or `Passes`), between which others
may write it. A comparison that failed is followed by the others all the same, which read and change
nothing. Stores and comparisons are in the order of the source, as the build without
optimisation makes them. `nodo`, `i`, `father` and `node` are the locals of the two functions. The loop of
`determinar_nodo` goes on to the next component after a miss, with -1 for the parent; the search for
a free node looks at the first one twice and reads one past the table when there is none.
What the model assumes: `node_table_start` is never assigned (the mmap is commented out,
sac_server.c:27-47), so the table is given the zeros of a new disc; and no code calls these functions,
so the caller is a thread for each connection. A name of 71 bytes (`Full`) stores the zero that ends it
in the low byte of `parent_dir_block`; a longer one (`Longer`) leaves any number there (`Over`) until the
parent is stored, and the lookup compares names through to it. What a name of more than 75 bytes does to
the field after that is left out: the size is set to 0 at once, so that such a name, which the model may find
again, is not found. By then it has strayed. The two buffers that early returns leak are left out.
sac_read.c answers for `/` and `/hello` from constants and never looks at the table.

`strayed` collects the four things nothing guards against: two threads take the same node
(`shared`), a lookup takes a node that was not finished when it compared the parent (`early`), two threads
make the same directory (`twice`), a name of 71 bytes is stored under a number whose low byte is not
0, so that the comparison runs on into it, or a name is longer than the field (`long`). `SacTree` is claimed until one of them happens; the shape of the table
always.

### suse and the select server

`Suse` has the three threads of the process and the kernel's side of the listener. `main` loads the
configuration and starts the others; its `pthread_join` waits for a loop without an end, so
`suse_exit_gracefully` and what it destroys are left out. The scheduler's thread makes the lists, then
one semaphore in each step of `InitSemaphore`, then prints metrics for ever. The listener goes round
`BuildSets`, `Select`, `Catch` and `Check`, between which clients come, send and leave. `holder` is the
kernel's table of descriptors: an accepted one is never closed, whatever its client does.
`WithChildSockets` is the identity because `socket_select_add_child_sockets_to_set` gets copies of the
set and of `max_sd`; `Check` changes nothing because the closing is behind `if (1 == 0)` and the echo
is an empty block.

`SuseScheduler` adds the lists. `LongTermTurn` is one turn of the long-term scheduler's loop, which
removes the element it stands on and goes on to the next index; `ShortTermTurn` folds READY with
`get_sjf` and dispatches the element it stands on when the fold returns it. `CreateThread`,
`BlockThread`, `SetReadyThread`, `ExecuteProgram` and `FinishThread` are the others, with what they
leave out: a thread that becomes ready stays in BLOCKED, a program is queued to exit once per thread,
and a thread whose program is not listed makes the process write through NULL
(suse_scheduler.c:187). No code calls any of these, so the caller is an assumption: it uses a function
on threads in the state its name asks for, one call at a time, after the lists were made. Listener and
scheduler share none of this state, so a behaviour follows one of them (`part`) while the other waits.

## 3. What is checked

| run | bounds | shows |
|---|---|---|
| `hilolay` | 4 slots, ids up to 4, 2 seconds | `TypeOK`, `QueueIntact`, `OneRunning`, `NeverAborts`, `BurstsAccounted`, and that the library implements `RoundRobin`; `TurnComes` and `ExitReached` under fairness |
| `hilolay_preempt` | 4 slots, 4 creations, 2 signals, 1 yield | with the signal before any statement, and until it strays, the library loses nobody (`NobodyLost`) and keeps its assertion (`AbortsOnlyStrayed`) |
| `hilolay_reentrant` | 3 slots, 3 creations, 2 signals, 1 yield | **violated** (`NeverAborts`): `th_return`'s assertion fails |
| `muse_heap` | 3 processes, 4 frames of 32 bytes and one of swap, base 8, 3 allocations | the vectors stay in step and segments are disjoint runs of frames; while nothing has strayed it stays up, blocks are apart, headers true and data intact |
| `muse_heap_remainder` | 1 process, blocks that leave less than a header | **violated** (`ClosestApart`): the next block is given outside its segment |
| `muse_session` | 1 ULT, 4 calls | the connection implements `MuseRpc`: a call gets its own answer and nothing is left over; calls return (`CallReturns`) |
| `muse_session_copy` | 1 ULT, 1 call | **violated** (`CpyReturns`): `muse_cpy` may never return |
| `muse_session_two` | 2 ULTs, 2 calls | **violated** (`OwnAnswer`): two ULTs take each other's answers |
| `suse` | 3 clients, a table of 2, 4 descriptors; 4 threads, 1 program, MAX_MULTIPROG 4 | the table is the oldest connections (`TableIsOldest`), the listener waits only in `select` and never spins (`AcceptNeverWaits`), every connection is taken (`WaiterTaken`); a thread is in one queue (`OnePlace`), a pass takes every second thread (`PassTakesHalf`), and READY fills to half the degree (`HalfTheDegree`) |
| `suse_semaphores` | 2 semaphores | **violated** (`SemaphoresAsConfigured`): the semaphores may differ from the configuration |
| `sac_fs` | 2 threads, 4 calls, 3 nodes, a byte of 2 values | the table has no holes (`NoHoles`), parents come first (`ParentsBefore`) and nodes stay (`NodesStay`) whatever the threads do to each other; until something strays, calls are answered as by `SacTree` |
| `servers` | 2 SAC clients and libmuse, 3 threads, 2 descriptors, 2 messages, ints of 2 bytes of base 8 | a thread has a connection of its own (`OwnConnection`), messages arrive whole, in order (`Delivered`), and all of them (`AllArrive`) |

Why these bounds are enough. In `hilolay`, main and three threads in four slots fill the table and allow a list of
three, so that an element has two neighbours and a thread can be passed over; a thread that is made
after another ended gets its slot. That the tail points at a slot that was freed does not
occur within these bounds, and is covered by the proofs, which hold for every size. In
`hilolay_preempt` two signals are what it takes to interrupt a `th_yield` that a handler called, and four
creations in four slots reuse one and find the table full.
`muse_heap` has segments of one and of several pages next to each other, one that does not begin at frame
0, requests that find too few frames, sizes that wrap (`4040`, `4090` and `4092` with `W = 4096`: to no
page, to a negative number that makes one page, to a page of which one byte seems taken), sizes that leave a rest in which the next block fits (`2` after `10`) and one in which it
does not, a frame of the swap, and three allocations, so that a block is cut out of a rest. The
processes are symmetric: nothing depends on which of them asks.
`MaxStrayed = 1` follows a behaviour until two of the twelve things have happened; what is checked
beyond the first is only that the page vectors are never touched. In `servers` an int has two bytes,
so it can be cut in the middle, and opcode and size both need the second one; two messages can stand
on one connection or on two; the third thread finds no descriptor. Within these bounds no
client waits for a descriptor, so that excuse of `AllArrive` plays no part in the run; with `MAX_FD = 1` in
MCServers.cfg one does: `AllArrive` then holds too, and without the excuse it does not. In `suse` one connection fits
in no place of the table and the next finds no descriptor; the clients come back after they left, so
that abandoned descriptors add up. Four threads and a degree of four let a pass end both for want of
threads and for want of room, and one thread comes back from BLOCKED. In `sac_fs` two threads are
what every race of the code takes; three nodes hold a directory, its child and one more, or a table
that is full while a fourth call searches it; with a byte of two values the number of a
parent may end in a zero byte or not. Of the names one has 71 bytes and two have more, which leave a
node's number in the parent and the -1 that a missed lookup goes on with. The threads are symmetric.

**Fairness.** `AlarmFairness` is weak fairness of the signal: the kernel delivers an alarm that is
pending. `TurnComes` needs nothing else, so a program in an endless loop does not starve the others.
`ExitReached` assumes in addition, as a premise of the property (`ProgramFairness`), that the
functions of the ULTs end and that main goes on with its loop when it is scheduled; strong fairness,
because a ULT is scheduled again and again, not continuously. `MuseSession` assumes that the server
takes what was sent to it and that every ULT gets its turn, which is `TurnComes`. `Servers` assumes that
TCP delivers, that the accept loop runs and that the threads do: one of them goes on while any can. The
clients need do nothing. `AllArrive` excuses a request when its opcode was cut, when sac_server has died,
when its thread could not be made, or when it waits for a descriptor that nobody will free.
`Suse` assumes that the kernel schedules the three threads;
its clients need do nothing. `WaiterTaken` counts the end of the process as an answer, since running
out of descriptors makes the listener call `exit` (sockets.c:146).

**The twelve things that make the heap stray** (`strayed` in `MuseHeap`), each of which really damages
it:

* `garbage`: `malloc` returned an arena that is not zero. The walk reads one header past the end of
  the chain (muse.c:526), and whatever lies there may look like a free block.
* `tight`: a block is cut so that fewer than five bytes are left. `tamanio - memoria_reservar - 5`
  wraps (muse.c:498). `asignar_dir_memoria` does the same on its own account, in its trial walk for 5
  bytes and in the six bytes it subtracts.
* `edge`: a segment that ends with the arena is walked to its last byte, and the header that the walk
  reads there lies past the arena.
* `small`: the first block has less than ten bytes. `asignar_dir_memoria` writes a header ten bytes
  into the segment, which then lies on the next one.
* `elsewhere`: a segment that does not begin at frame 0 is searched again. The answer is an offset in
  the segment and is used as an offset in `memoria`.
* `partial`: `muse_cpy` wrote fewer, or more, bytes than the block has. COPY sets the size in the
  header to the number of bytes copied (muse.c:215).
* `brief`: the answer to GET has always four bytes (muse.c:177), more than the block has.
* `freed`: `muse_free` was answered with success. It changes a copy of the header (muse.c:108), and
  zeroes from `dir + 5` on (muse.c:109), the next header included.
* `swap`: frames of the swap are given out as if they lay in `memoria` (muse.c:395).
* `wrapped`: the size with its header wraps to fewer pages than it takes. With no page the headers are
  written wherever the frame numbers, which nothing has set, say; with some, the client holds a block that
  reaches past its segment.
* `empty`: a process whose first allocation failed keeps its empty segment, which the second one
  searches.
* `nowhere`: a client uses the address of an allocation that failed.

`StaysUp` says that these are all: a server that hangs or leaves the arena has strayed before.

So a client whose blocks fit into `memoria`, that starts from zeros, allocates only blocks that leave
room, fills each of them and frees none has its data safe, and `muse_heap` says no more than that.

Each property of a passing run has a mutant, an operator marked "slip" next to the one it replaces,
with which TLC finds the property violated.

## 4. What is proved

With TLAPS, for every value of the constants that the `ASSUME`s allow.

**hilolay** (`HilolayProofs`), from `ConfigAssumption`: at least one slot, and natural bounds.
`TypeCorrect`, `QueueStaysIntact`, `OneRuns`, `AssertionHolds`, `ExitWaits` and `IdsDiffer` follow from
one inductive invariant, `Inv`. None of its parts is inductive alone. That a finishing thread finds
somebody (`NeverAborts`) needs that main is READY when it does not run (`OneRunning`) and that READY
threads are listed (`QueueIntact`); that the list stays intact needs that the thread which yields is
not on it, which is `OneRunning` again; and before `lib_init` all of them need `InitOnce`. The proof
goes from `Enqueue` and `Dequeue` on a chain to `th_yield` (`YieldToSwitches`), and then takes one step
per operation. `BurstsAreAccounted` adds the accounts to the invariant; it
says nothing of a FREE slot, which is charged its last burst twice, by `th_stop` and by the `th_yield` of `th_return`.

**hilolay implements round robin** (`HilolayProofs`). A list is the chain of exactly one sequence
(`ChainUnique`), so the mapping is well defined; every step of `Hilolay` is then a step of `RoundRobin`
on that sequence, or a stutter (`StepSimulation`, `Refinement`).

**hilolay under the signal** (`HilolayPreemptProofs`), with the signal before any statement, for any
number of slots, threads, yields and signals. `TypeCorrect` holds of every behaviour: each stack of
frames is one that calls and signals can build, and every slot that is read exists. `AssertionHolds`
and `NobodyIsLost` follow from `IInv`, which holds until a signal strays (`AlwaysIInv`). Its parts are:
stacks may carry handlers on a `th_create` or a `th_yield` that has not begun or has come back, but none
on one that is changing the list (`Stacks`); each slot that is not free has a thread of its own that can
go on, and each thread that has not finished has a slot (`Owners`); calls of `th_create` under way have
chosen different free slots (`Claimants`); the list is a chain of exactly the READY slots, except for the
one that `lib_enqueue` or `lib_get_next_ult` has half way in or out of it, and how far is a function of the
statement (`List`); and a call of `th_create` that has not made its context yet has a number left for it
(`Counters`). What `strayed` excuses is not excused lightly: `hilolay_reentrant` shows that a signal in one of
those windows does make the assertion fail.

**muse** (`MusePagingProofs`), from `MuseAssumption`: the numbers of muse.config are natural and a page
is not empty. `PagesAreFrames`, `PagesBelongToOne`, `SegmentsAreContiguous`, `OneSegmentOnly` and
`TypeCorrect` follow from `Safe`, which adds `FreeAreLast`: the free frames are an interval that ends
with the last frame. It is what makes contiguity true, since nothing in the code looks for a run of
frames, and it holds only because no frame is ever given back. A MEMFREE that returned frames would
break every address computation; the mutant of `SegmentsContiguous` is that change.

**the arena of muse** (`MuseHeapProofs`), from `HeapAssumption`: a number is four bytes of base `B`, and the arena
is small against it, below 8 MB for a real int (muse.config has 4096 bytes). The actions of `MuseHeap` are those of
`MusePaging` with the bytes added, so what is proved there holds here (`PagingSafe`). `HeapTypeCorrect` says
that every write stays in the types, the wild ones included. `BlocksAreApart`, `HeadersAreIntact`, `DataIsIntact` and
`ServerStaysUp` follow from `Clean`, and none of them is inductive alone. `Clean` says that until something strays:

* the frames in use are the first `u`, all of them in `memoria`, and the first `k` of them are the only
  segment that is ever searched again (`Held`);
* the headers of that segment are a chain from its first byte to its end, each where the last one's size
  says (`Chain`); the walk of `recorer_segmento_espacio_libre` follows it and can neither leave it nor go round;
* a segment that follows begins with a block in use, and what follows the last segment is zero. That is what
  the walk meets when it reads on past the end of the chain, and neither looks like a free block;
* each block's header stands before it and tells its size, its bytes are those the client wrote, and
  blocks with their headers do not touch.

The proof has a step per handler and uses each reason where the chain, or the bounds of the arena,
would break without it. So `ServerStaysUp` says that the list is complete, for every size, page and number of
processes; `edge` and `brief`, which take sizes that fit an arena exactly, were added when the proof
asked for them.

**the connection to muse** (`MuseSessionProofs`). `SessionTypesCorrect` holds for any number of ULTs.
For one, `OneCallAtATime` is the refinement: `Spec => ImplementsRpc`. Its invariant says what the
two directions hold in each phase of a call, nothing, the request, the whole reply, its body, or
nothing although an answer is awaited, and always of the current call only; the stage of the
abstract call is a function of that. All of it is claimed until a signal cuts a `recv` short, after which
an answer may come for a call that has returned. The theorems assume `Ults = {u}`, and must: `muse_session_two` is the
counterexample for two. `OneUltOwnAnswer` is the property that run refutes, proved for one.

**SUSE** (`SuseProofs`), from `SuseAssumption` and `SchedulerAssumption`: the table has a place, the
descriptors are an interval, and the names used for the states of a descriptor are no client's.
`OldestFirst` and `NeverWaits` rest on the descriptors given being an interval that begins after the
listener's, which is true because nothing is ever closed, and on `select` leaving in the set only
what is ready, which stays so until `accept` because the kernel keeps connections whose client left.
`InOnePlace` needs that an index removed from a list without repetitions is one element less.
`HalfDegree` rests on `multiprog + Len(queue_ready) = MaxMultiprog + readied`: an admission lowers the
one and lengthens the other, so the comparison of the two meets half way. `HalfTaken` is about a pass as a
whole, so the invariant counts what it has gone past. `SchedTypesCorrect` is the type invariant.

**the node table** (`SacFsProofs`), from `SacAssumption`: a table of at least one node, a byte of at least
one value, paths that are sequences of names; a name too long for its field may leave any number behind. `FirstOnesTaken`, `ParentsFirst`, `NodesKept` and `TypeCorrect`
hold whatever the threads do to each other. Each rests on what one thread knows: while it looks for a
free node, all it has gone past are taken, and so is the parent it found (`Past`, `FoundTaken`). Taken
nodes never become free, so this stays true under the steps of the others; it is why the missing locks
cost answers, but not the shape of the table. `NodesKept` compares a call with the table it began with:
what was finished then, the call does not write, because a node it chooses later was free when it looked.
It does not say that a finished node stays: two calls that overlap may choose the same free node, and the
second then overwrites what the first was told 0 for. That is `shared`.

`TreeImplemented` is the refinement `Spec => ImplementsTree`: until one of the four things happens,
calls that overlap are answered as by a tree of names. Its invariant, `TreeInv`, adds to the shape of the
table that complete nodes have complete parents and paths of their own, and, for each thread, what its
lookup has established (`Knows`): the components it has followed lead to `nodo`, and what it has gone past
was not there when it was called, whatever was added since. Of the node it stands on it knows what the
comparisons made so far have said (`Compares`), which stays true if the node was finished at the first
of them (`whole`). The ghost `before` keeps what was there then,
because a miss need only have been right at that moment. A path is a recursive function of the node, and a parent
has a smaller number, so the facts about paths are proved by way of a least node for which they fail.
That the table is full when a call is told so counts the nodes others are writing, and needs finitely many
threads.

**who takes packages apart** (`ServersProofs`), from `ServersAssumption`, `WireAssumption` and
`MessagesAssumption`. `EachItsOwn` says that a thread of sac_server
reads its own connection. The invariant speaks of the descriptor a thread holds, which is in the memory it was
handed until it begins, and in its own variable from then on: held descriptors differ, and each is
that of the connection that was accepted for the thread. A new descriptor is one nobody holds because
held ones are never closed. What the bytes say plays no part.

`TypesCorrect` and `MessagesDelivered` are about the bytes. Until a reader gets an opcode in two pieces,
it receives the messages of its connection, each once, in order and with the fields that were put in.
`Delivered` alone is not inductive, because a reader is mostly in the middle of a package and the sender
ahead of it by several. `DeliveryInv` says of each connection what is to come on it (`Coming`, the bytes that
have arrived and those in flight): the packages of the messages not yet received, less the ints of the first
that its reader has read (`Due`). A connection nobody was given has all that was sent on it still to come
(`Waits`), and it waits once and is then given to one thread (`Once`), so two readers never share
the stream; this uses the invariant of `EachItsOwn`. A step then either adds a package at the end of what is
to come, moves bytes from flight to arrived, which changes nothing, or takes an int or a buffer off
its head, and for those the proof needs what packing and parsing do: the number the bytes of an int make
is that int (`NumberOfBytes`), and the fields parsed from a package are those put in (`ParsedFields`).
The recursive functions of the model are first shown to solve their equations (`Solvable`), by the
least argument for which they would not. The parts of the invariant were checked with TLC within the bounds of the run
`servers` before they were proved.

Proved and not run: `ExitWaits` (`NobodyLeftBehind`) and `IdsDiffer` (`UniqueIds`) of hilolay, and
`TypeCorrect` of paging.

Only model-checked: liveness (`TurnComes`, `ExitReached`, `CallReturns`, `AllArrive`, `WaiterTaken`), which
is out of TLAPS's reach, as is anything with ENABLED. Every invariant of a passing run is a theorem.

## 5. Where code and documents disagree

Checked, as runs that expect a violation:

* hilolay.c:166. The handler yields wherever SIGALRM lands, and nothing blocks the signal inside the
  library; `th_return`'s "This line should never be reached" (hilolay.c:21) is reached. The same
  behaviours lose threads, against README.md:37 of hilolay.
* muse.c:498. After a tight block the next `muse_alloc` returns an address outside the segment.
  client-tests.c gets there with its blocks of 200 and 2 bytes.
* muse.c:226. `muse_cpy` to a block that is marked free is never answered, against libmuse.h:70.
* libmuse.c:29. `muse_init` ignores the id that libmuse.h:28 says tells threads apart.
* utils.c:59. `utils_array_to_string` frees the strings it prints, and `scheduler_init_semaphores` reads
  them afterwards, before it logs that the semaphores were loaded correctly (suse_scheduler.c:40).

Seen while modelling, and in the models, but without a run of their own:

* hilolay.h:19 says that with SCHEDULE_IMMEDIATELY a new thread runs at once; `th_create` yields to
  the oldest ready one (hilolay.c:107). README.md:34 of hilolay speaks of 49 threads, MAX_ULTS is 5000.
  Stacks and contexts are never freed.
* muse.c:108, 109 and 215, the `freed` and `partial` of section 3; muse.c:526, its `garbage`.
* muse.c:177. The answer to GET has always four bytes, whatever `muse_get` asks for (libmuse.h:57).
* libmuse.c:80. When the server is gone `muse_get` falls off its switch and returns an undefined
  value, against libmuse.h:61.
* muse.c:395. Frames of the swap are handed out as if they lay in `memoria`.
* sockets.c:215. "add child sockets to set" (sockets.c:108) adds them to a copy: what a client sends is
  never read. Full tables forget connections (sockets.c:127) and nothing is ever closed.
* utils.c:201-257. Except READ, the SAC messages send bytes of the pointer `pathname`, and the
  receiver copies into a pointer it never set (utils.c:343). sac_cli reports success all the same.
* suse_scheduler.c:106. The long-term scheduler removes while it counts up, and admits every second
  thread; each admission counts twice against the degree (suse_scheduler.c:109). Both are proved.
* sac_write.c:19. The lookup and the creation are not one step, since the locks are comments.

## 6. Not modelled, and the plan

Not modelled because there is nothing to model: loggers, the reading of configuration files,
client-tests (a fixed sequence, covered by the clients of the models), MAP, SYNC and UNMAP (empty),
what sac_read.c answers (constants), FUSE itself. Not modelled because it cannot happen: what follows
`pthread_join` in SUSE's main, `suse_config_reload` and the multithreaded listener of shared-common,
which no program starts; its threads would share one static buffer (sockets.c:259).
sac_cli.c and muse.c do not compile as they stand; the readings taken are in section 2.

What is left to do:

1. `MuseSystem`: `MuseSession` composed with `MusePaging`, so that a server that dies does so for a
   reason, and a reply's success is that of the handler.
2. Cut opcodes: the reader that `recv` gives part of an opcode (muse.c:43) reads on as if it were whole.
   With its steps in `Servers` the messages after the cut would be wrong by a count that depends on it.
