# A TLA+ model of the AESD char driver and socket server

The repository holds a Linux char driver that keeps the last ten lines written
to it (`aesd-char-driver/`), a socket server that stores each client's line in
that device and sends the whole history back (`server/`), and exercises around
them (`examples/`, `finder-app/`). This directory holds TLA+ modules translated
from that code, TLC configurations that check them on small instances, and
theorems checked by TLAPS.

## The system

| Part | State | Operations | Who else touches it |
|---|---|---|---|
| Circular buffer (`aesd-circular-buffer.c`) | `entry[10]`, `in_offs`, `out_offs`, `full` | `init`, `add_entry` (returns the pointer it displaces), the search for a position | called by the driver, which does the locking |
| Char driver (`main.c`, `aesdchar.h`) | one `aesd_dev`: the buffer, the entry being assembled, a mutex; kernel heap blocks; one position per open file | `open`, `release`, `read`, `write`; module load and unload | any number of processes, signals, the allocator |
| Socket server (`aesdsocket.c`) | socket descriptors, a list of worker nodes, a mutex, the globals `recv_data`, `read_buffer`, `read_data_len` | accept loop, one worker thread per client, `sighandler`, a timer in the file-backed build | clients, the device, `start-stop-daemon` |
| `aesdchar_load`, `aesdchar_unload` | the device node `/dev/aesdchar` | `insmod`/`mknod`, `rmmod`/`rm` | the server also creates and removes that path |
| `examples/threading` | a mutex of the caller, a heap block per thread | start a thread that sleeps, locks, sleeps, unlocks | the joiner |
| `examples/systemcalls` | none of its own | `system`, fork/exec/wait, the same with redirected output | child processes |
| `finder-app` | files | write a string to a file; scripts that build and boot an image | none |

A client's line goes through all of the first three: `recv` in a worker, `write`
to the device, where it becomes one entry of the buffer; then the worker reads
the device, entry by entry, and sends what it has read.

What is hard here is not any one function but what comes between their steps:

* *driver*: calls of several processes share the entry being assembled; entries
  own heap blocks that are moved by `krealloc`, displaced by `add_entry` and
  freed; each of `kmalloc`, `krealloc`, `copy_from_user`, `copy_to_user` and
  `mutex_lock_interruptible` can fail, and each error path has to leave the
  mutex, the entry and the heap right;
* *buffer*: the two offsets are equal when it is empty and when it is full, and
  the search stops at the first empty slot;
* *server*: the workers share three globals under one mutex, count what they
  have written instead of asking the device, and read until the count is
  exactly met; main joins threads again that it has joined before, which is
  undefined; a signal makes main close descriptors by number and free what workers
  use; one failing call ends the process, one client that is silent, or does not
  read its answer, holds the mutex for ever;
* *device node*: two scripts and every server create and remove `/dev/aesdchar`,
  and what a server opens there may be the device, a regular file or nothing.

`PROJECT.json` lists each of these, at its line, under `hazards`.

## The modules

| Module | What it is |
|---|---|
| `CircularBuffer` | the three functions of the buffer as operators on a buffer value; the search as the state of its loop and one iteration (`FindEntry`, `FindIteration`) |
| `CircularBufferSpec` | the state machine of a buffer and a caller: `Add`, `Find`, `Iterate` |
| `CommandLog` | abstract: a log that keeps the last `Capacity` entries |
| `AesdChar` | the driver, `CircularBuffer` included |
| `AesdCharProperties` | what it guarantees; the mapping to `AesdLog` |
| `AesdLog` | abstract: the device as processes see it, each call at one instant |
| `AesdSocket` | one run of the server: main, its signal handler and its workers, over an instance of `AesdLog` |
| `DeviceNode` | the load and unload scripts, the module, the path `/dev/aesdchar` and successive runs of the server, over an instance of `AesdLog` |
| `Threading` | the threading example: a caller, its threads, their mutexes and data |
| `SystemCalls` | the system call example: a caller and the children it starts |
| `MC...` | constants for TLC |
| `SequenceLemmas` | what the sequence operators compute: parts, joins, lines laid end to end |
| `CircularBufferLemmas` | what the buffer's operators compute and preserve |
| `CircularBufferProofs`, `AesdCharProofs`, `AesdSocketProofs`, `DeviceNodeProofs`, `ThreadingProofs`, `SystemCallsProofs` | the theorems, a module per component |

`CircularBufferSpec` implements `CommandLog`; `AesdChar` implements `AesdLog`;
`AesdSocket` and `DeviceNode` use `AesdLog` in place of the driver. So a property of the server
rests on the driver through one abstract specification, and the driver's
property that a search is a search of the concatenated entries rests on the
buffer's.

Operators whose comment begins "Mistake:" are not part of the model. Each is a
definition with one plausible error in it; replacing the definition by it must
make TLC report the property it is listed with in `PROJECT.json` (`mutants`).

### How the driver model corresponds to the code

A *process* has one open file and either reads or writes. `pc[p]` names where
its call is; a step goes from one point at which something else can come in to
the next. `aesd_write` is `Call`, `Lock` or `Interrupted` (line 171), `Allocate`
(182-194), `CopyFromUser` (201-204), `Insert` (207-223), `Unlock` (226) and
`Return`. `aesd_read` is `Call`, `Lock` or `Interrupted` (94), `Find` (99), one
`Search` per iteration of the loop in the buffer, `CopyToUser` (105-122),
`Unlock` (129) and `Return`. The labels from `alloc` or `find` to `unlock` are
those that hold the mutex; that no other process ever gets in between is
checked and proved, not assumed.

The *heap* maps each block to the bytes allocated and the bytes written.
`kmalloc`, `krealloc` and `kfree` are modelled from how the code uses them:
`kmalloc(0)` returns a pointer that is neither NULL nor memory, `krealloc`
keeps a block or moves it, and `krealloc(NULL, n)` returns a block whose bytes
are arbitrary. `Faults` says which of the four failures an instance has. A
process may pass a null pointer for its bytes and gets -EFAULT (lines 88-91 and
165-168, `NullBuffer`); the other null tests of lines 69, 75, 83, 88, 146-168 and
177 are of addresses of fields and of arguments that the kernel supplies, and have
no branch in the model. Neither has line 114, which tests a pointer into a block that exists
(`EntriesOwnBlocks`). `Len(heap[b].data)` and `size` are two variables: that
they agree for every pointer that is a block is part of `EntriesOwnBlocks`; after
a failing `krealloc` there is no block, and `size` counts bytes that are gone.

The module is unloaded (`aesd_cleanup_module`) only when no process has its file
open, which the kernel sees to because of `owner` in `aesd_fops`; what the buffer
and the entry being assembled own stays allocated, and `aesd_init_module` clears
`aesd_device` over it.

### How the server model corresponds to the code

`main` names where main is: `start`, `create_file`, `listen`, `accept`, `insert`
(682-695), `create` (697), `join` for the walk through the list (704-718), one
node a step, and `wait` inside `pthread_join`. `list` keeps every node, because
the code that would remove one is commented out (712-716). `thread_id` is a small
number that a new thread may share with a thread joined before: joining a node
twice can then wait for a thread that is somebody else's. If it belongs to nobody,
what `pthread_join` does is undefined: the library finds on the thread's stack that
it has ended and returns at once (`JoinWorker`), or that stack is no longer mapped
and the process ends (`JoinUnmapped`). The library keeps the stacks of some joined
threads for new ones; `KeptStacks` is how many, and which of them have been unmapped
when there are more is open (`RejoinsUnmapped`). A worker is `Lock`,
`Recv` once per `recv`, `OpenToWrite`, `Write`, `Written` (402-410), `Open`,
`Read` and `ReadBack` once per turn of the loop 175-178, `Send`, `Unlock`,
`Complete` (441) and `Close`. The device's own steps (`Device!Write`,
`Device!Read`, ...) are conjuncts of the worker's. `Send` is one step for a client
that reads; for one that does not, and whose answer is longer than the sockets'
buffers, it never happens, and the worker stays in line 423 with the mutex.

`fd` is the table of descriptors. Opening takes the lowest free number, and
`sockfd`, `fptr`, `accepted_sockfd`, each node's `conn` and `read_fptr` are
numbers, which may outlive what they name. Descriptors 1 and 2 and the one of
`syslog` are left out.

`Signal` puts main into the handler wherever it is from `create_new_file` on, and
remembers the place in `resume`: Linux hands a signal for the process to its main
thread, and `signal()` of the C library has `accept` and `pthread_join` go on
afterwards. The handler is `CloseFptr` (206-207), `CloseSockfd` (210),
`CloseAccepted` (211), `FreeBuffers` (216-220) and `DeleteList` (223-233), with the
workers' steps in between: one may open a file under a number just closed, and see
it closed again. What happens then
is undefined behaviour in the code, and a choice here: a freed buffer keeps its
bytes or not (`JUNK`); freeing it again, or moving it with `realloc`, ends the
process or goes unnoticed; a freed node has its old descriptor or none, looks
complete or not; a double free inside the handler ends the process. `freed` says
what is in use although it has been freed.

`Exit` is the end of the process: a return from main (`MainExits`,
`ListeningClosed`), `exit(1)` in a worker (`WorkerFails` where it must happen,
`WorkerExits` where it may) or a crash. The rest of the state stays as it was, so
that a property can look at what the process left behind.

What a run of the server meets is its `scenario`: what each client sends, which
clients do not read their answer (`unread`), which commands the device holds from
before (`held`: nothing clears them, as the driver takes no notice of `O_TRUNC`), and
which mishaps may happen. A client whose message does not end in a newline stops
in the middle of its line. One run of TLC covers several scenarios without their
product. On a device that holds commands the count of line 410 is wrong from the
start and a read may go past its buffer (`Overrun`), after which `malloc` in main, or
the worker itself, may end the process; `AnswersAgree`, `ReadFits` and
`LengthIsDevice` are about a device that was empty (`Fresh`), the others about both.

### How the device node corresponds to the code

`script` is the next command of the script that runs, or how the last one ended:
`aesdchar_load` is `Insmod`, `RemoveOld`, `Mknod`, `Permit` twice (14-25);
`aesdchar_unload` is `Rmmod`, `RemoveStale` (6-10). `set -e` ends a script at the
first command that fails, for instance `mknod` where a server has just created a
file. `path` is a major number, `File` or `Missing`. The server has one worker at a
time, as the mutex of `AesdSocket` guarantees, and the same steps for its file,
but with the path looked up in each `open`; `Stop` is a signal and its handler,
`Exit` any end without one. `before` and `received` are history variables: what
the device held when this run of the server created its file, and what it has
been sent.

A signal in `registered` is one that comes before there is a socket: it removes
the path and closes descriptor 0, three times, as the globals are 0. The socket then
is descriptor 0, `daemon()` puts `/dev/null` in its place (the start script passes
`-d`), `create_new_file` makes a regular file and `listen` fails. One in `bound`
closes the socket itself, with the same end. From `accept` on the process ends at
once. A write to a regular file may be cut short by a full disk, one to the device
may be refused; the server counts the line in both cases. A server started by hand
without `-d`, which goes on after a signal before its socket, is not modelled.

### How the examples correspond to their models

A thread of `Threading` is `WaitToObtain`, `Lock` or `LockFails`, `WaitToRelease`
and `Unlock`, one per call of `threadfunc`; the caller is `StartThread` (the
tests and `malloc`), `CreateThread`, `ThreadStarted` (the return of
`pthread_create`, which may come after the thread has ended) and `JoinThread`.
What `malloc` leaves in `thread_complete_success` is arbitrary. In `SystemCalls`
the caller's place in a function is `at`, a child's is `proc[p].at`; `Succeeded` is
how each function turns the status of its child into its result. A child may be
killed at any point, before it is the command (`KilledEarly`) or after. `system()` is
the same fork, exec and wait inside the C library, which does not give up when a
signal comes.

## The runs

| Run | Instance | Shows |
|---|---|---|
| `ring` | 3 slots, 4 pointers, sizes 1 and 2, all positions up to one past the end | the buffer is the bounded log; a search is over the entries laid end to end and fails only past the last byte; what is handed back to be freed is what left |
| `driver` | 2 slots, 2 writers, 1 reader, 4 blocks, kmalloc failing, signals | types, mutual exclusion, ownership of blocks, copies inside their blocks, no leak, and the calls are atomic as `AesdLog` says |
| `driver_faults` | 2 slots, 1 writer, 1 reader, copies failing part of the way, unloading | the same refinement when a copy stops anywhere, for empty writes, for writes that go on past their newline, and when the module is loaded again |
| `driver_memory` | 1 slot, 2 writers, 1 reader, 2 blocks, every failure, krealloc's included, unloading, fair | ownership of blocks and room for copies still hold; a block is lost only by an empty copy, a failing krealloc or unloading; every call returns |
| `driver_krealloc` | krealloc failing | *violated*: a write that copies no newline inserts an entry |
| `server` | 2 clients, recv of 1 or 2 bytes, no stacks kept, fair, in six scenarios: nothing goes wrong and one line has a newline in it; one client stops in its line, clients leave and calls fail; a signal; a signal and a silent client, and beside it one that does not read; a device that holds a line from before | answers agree on one history which the device holds, also when the process ends; reads stay in their buffer; the count is the device's length; the shared buffers are used only under the mutex; descriptors are never another client's; who connects is answered, main comes back to accept and a signal ends the process, each unless something went wrong and ended it, a join did, or the mutex's holder was left waiting |
| `server_full` | 2 clients, a device of 1 command | *violated*: with one command more than the device keeps nobody is answered any more |
| `server_rejoin` | 2 clients, no stacks kept, nothing goes wrong | *violated*: main joins a joined thread again, the process ends and a client is not answered |
| `threading` | 3 threads, 2 mutexes, 3 blocks, every call failing, fair | each thread works on data of its own, comes to report success only by releasing its mutex, and returns unless its mutex was left locked |
| `system_calls` | 2 children, 2 descriptors, every call failing, children killed | true is returned only when the call's own child has ended and (but for `do_system`) was the command or was killed; output goes where it was asked to |
| `system_status` | the same | *violated*: a function returns true for a command that failed |
| `device_node` | 2 major numbers, lines of 1 and 2 bytes, 3 bytes per run of the server, a device of 2 commands, any number of loads, unloads, starts and stops | the node names the loaded module; only a signal takes it away; a server that found the device empty answers with its own lines, and reads in the bounds of its buffer, whatever happens to path and module meanwhile |

Why the instances are large enough. The buffer's code compares offsets with the
array's end and with each other, so three slots give every relation between them
(first, middle, last) several rounds long. In the driver, four blocks are one
per slot, one for the entry being assembled and one for `krealloc` to move to;
with three blocks and one slot the allocator also runs out. Two writers are
enough for a command assembled from two processes' pieces; `MaxPartial` bounds
only how many bytes may wait for a newline, and the bytes are `a`, `b` and the
newline, enough to tell two pieces and their order apart. With one slot every
insertion after the first evicts. Positions, offsets and lengths have no bound
of their own: they are bounded by what is in the buffer. In `driver_memory` two
blocks are one for the slot and one for the entry being assembled, so losing one
is felt at once; `driver_faults` has a third.

In the server two clients are the fewest with which a joined node is still in the
list when its `pthread_t` is used again, with which one worker waits for the
mutex of another, and with which a number can name another client's connection;
the answers agree if any two do. A device of three commands is one from which two
clients' commands are never dropped; `server_full` is the other case. The
size of the device there is 1 instead of 10: the code depends on it only through
the comparison of the two lengths. `KeptStacks` is 0, so that the first thread joined
twice may be one whose stack is gone; `JoinWorker` is possible all the same. One signal
is enough to find main and the workers at every pair of
steps. In `device_node` lines of two lengths are enough for a history of
which no number of whole commands is as long as what was counted, which is what
makes `read_file` go past its buffer; three bytes per run and two commands let
the device both hold another run's command and drop one.

Three threads on two mutexes are a holder, a
waiter and one that has nothing to do with either. Two children of the system
call example are one left behind by an interrupted wait and one of the call that
follows; `MaxFds` bounds the descriptors that failing calls leave open.

Symmetry is used for blocks and for writers, in safety runs only: no definition
tells two blocks or two writers apart.

Deadlock is checked for the driver, where some process can always open its file
or go on, and for the device node. It is not for the server: when every client of the instance has been
served, main waits in accept, as the program does, or the process has ended; nor for the examples, whose caller may
have nothing left to start.

### Fairness

* Driver: a process inside a call goes on (`WF` of `Step`), which the kernel's
  scheduler guarantees for code that does not sleep for ever. `SF` of `Lock`
  says that a process which waits for a mutex that is free again and again gets
  it: a kernel mutex is handed over to its waiters in turn. No process has to
  make a call, and no failure or signal has to come.
* Server: main, its handler and each worker go on once they can; calls need not
  fail, nor a join or a damaged heap end the process (`MainExits`, `JoinUnmapped` and
  `WorkerExits` have no fairness; `WorkerFails`, where the file to open is gone, has).
  Nothing makes a client read its answer. A free mutex is taken by one
  of those who wait (`WF` of "some worker locks"); `pthread_mutex_unlock` does not
  say by which, so there is no fairness for the single worker. Each worker takes
  the mutex once, so this is enough. No client has to connect, and no signal to
  come.
* Threads of the example: a thread goes on, and a mutex that is free goes to one
  of those that wait for it. The caller need not start or join anything.

## What is proved

Every invariant, every action property and every refinement that a passing run
checks is also a theorem, for every value of the constants under the named
assumptions of the modules:

* `Slots` is in 1..255 (the offsets are `uint8_t`); in the modules over `AesdLog`
  any positive number will do;
* NULL, the pointer of `kmalloc(0)`, "nobody" and "no reply" are none of the
  blocks, processes, clients or numbers; the strings that name files in the
  server are not clients;
* there is a process, a size to read with and a newline among the bytes; entries
  that a caller of the buffer adds are not empty; a line that the server of
  `DeviceNode` writes holds a newline (it receives until there is one);
* the server has finitely many clients, which is what leaves it a free
  descriptor, and what they send are sequences.

Some theorems have a hypothesis of their own, or one that their property states,
each the condition under which the code does what they say:

| Theorem | Holds while | Otherwise |
|---|---|---|
| `DriverIsLog` | `krealloc` does not fail | acknowledged bytes are gone (finding 1) |
| `InsertedOnlyByNewline`, `DriverLeaksNothing` | nor is the module unloaded; for the second, nor a copy cut short | finding 1; the blocks that `FreedWhenDropped` names |
| `AnswersAreOneHistory` | the device keeps as many commands as there are clients | a command is dropped and the count never met again (finding 2) |
| `AnswersAreOneHistory`, `ReadsFit`, `LengthAgrees` | the device was empty when the server started (`Fresh`) | the count is not the device's length, and a read may go past its buffer |

### The buffer

* `BufferInvariant`: `TypeOK /\ OffsetsAgree`, which is inductive as it stands.
  `OffsetsAgree` is the fact everything else needs: a buffer that has never been
  full has its entries in the slots below `in_offs` and `out_offs` at 0; a full
  one has an entry in every slot and equal offsets.
* `BufferIsLog`: every step maps to a step of `CommandLog` or a stutter.
  `AddEntryIsPush` is the lemma: `Contents` after `add_entry` is the log with the
  entry appended and, when it was full, its head gone. It rests on
  `(x + 1) % Slots` being the code's wrap-around.
* `SearchIsOverConcatenation`, `SearchFailsPastEnd`: one turn of the search's loop
  keeps "bytes passed plus offset left is the position asked for"
  (`IterationPosition`), and it stops at the first empty slot only after the last
  entry, which is `OffsetsAgree` again.
* `OverwrittenHasLeft`: exactly the pointer handed back is gone.

### The driver

`DriverTypes`, `DriverMutualExclusion`, `DriverBuffer`, `DriverOwnership`,
`DriverCopiesFit`: none of them is inductive alone. `IInv` adds `CallState`: a
process at `search` has a search under way and one at `copy_to_user` has found
its entry; an entry whose pointer is that of `kmalloc(0)` has no bytes. Ownership
needs mutual exclusion (a process at `copy` is the only one that can change the
entry), `CopiesFit` needs ownership (a block's length is the entry's `size`), and
ownership of the search's slot needs the buffer's invariant. There is one lemma
per action, and in it one step per conjunct of `IInv`.

`DriverIsLog`: every step of the driver is a step of `AesdLog` or a stutter, under
the mapping `Log`, `Partial`, `Received` of `AesdCharProperties`. A write takes
effect in `Insert`, although its bytes are in the block since `CopyFromUser`;
`Partial` leaves them out until then. A read takes effect in `CopyToUser`.
`LogInv` says what that needs on top of `IInv`: a search knows its position in
the log (`SearchInv`), replies and buffers of a process are those of its call
(`ReplyInv`), and an entry about to be looked through for a newline ends with the
bytes just copied (`PreservedInv`). The search of the ring is the search of the
log laid end to end; an insertion into the ring is `Append`, and `Tail` when it
displaces an entry, of the log of lines.

`InsertedOnlyByNewline` follows from the refinement: what the log calls partial
never holds a newline. `DriverFreesWhatItDrops` and `DriverLeaksNothing` follow
the blocks through `Allocate`, `CopyFromUser` and `Insert`; for the second the
entry being assembled must own no block without bytes between calls.

### The server

`AesdSocketProofs` has four layers, each an inductive invariant on top of the
ones before it:

1. `ControlInv`: where main, its handler and the workers can be at once; exactly
   the worker between its lock and its unlock holds the mutex; the globals are in
   use only where that worker needs them. From it `BuffersBelongToHolder`.
2. `DescriptorInv`: a file is open under one number at most, so there are more
   descriptors than files and `open` and `accept` always find a free one
   (a counting argument); a number a worker knows is its own client's or closed.
   After the handler has closed descriptors by number the argument is another:
   nobody is accepted any more, so no number becomes another client's. From it
   `ServerTypes` and `WorkersOwnDescriptors`.
3. `LengthInv`: at each place between a write and the count, how the count, the
   device and what has been read relate, on a device that was empty. A worker has read as many bytes as its
   position in the device, and no more is in the device than was counted, so the
   loop of lines 175-178 stays within its buffer; and a worker leaves that loop
   only when count and device agree. From it `ReadsFit` and `LengthAgrees`,
   whatever writes fail and however the process ends.
4. `AnswerInv`: what a write stored whole ends the device, what was read is a
   beginning of it, and what was sent is all of it, unless bytes of a freed
   buffer are in it. From it `AnswersAreOneHistory`. It counts the commands
   in the device by the clients that have written one, and so needs the
   hypothesis above.

### The device node

`NodeOfLoadedModule` and `DeviceStaysInPlace`, for any major numbers and lines,
whatever the server does in between. The invariant says where the path is right
already while the load script still runs (`chgrp`, `chmod`), and that the unload
script removes a node only after its module; its one interesting step is
`create_new_file`, which makes a file only where nothing is.

`NodeTypes`, `ServerAnswersOwnLines`, `OverrunOnlyWithHistory` need `AnswerInv`:
what a server that found the device empty has received is the whole of its file,
or ends with what is left in the device (which may have dropped commands, and may
even have been swapped for a new module's while the server had it closed); so
that a read which has found as many bytes as were received has found these. The
case that makes it hard is a path that leads elsewhere at each `open`.

### The examples

`ThreadTypes`, `ThreadsOwnData`, `ReportedSuccess`: a block handed out is
allocated and has one user (`DataInv`), so no step but a thread's own changes its
flag (`NobodyElseSucceeds`); of its own steps only `Unlock` sets it to true
(`ReturningSucceeds`), and there the thread still holds its mutex (`LockedInv`).

`CallTypes`, `TrueIsAfterTheEnd`, `ChildErrorsAreReported`, `OutputGoesWhereAsked`:
the caller waits for a child of its own call (`CallerInv`), and a child that ended
without being the command says so by its status unless it was killed (`ChildInv`),
also when children of interrupted calls are still about.

### Only model-checked

Liveness (`EveryCallReturns`, `ServedUnlessHindered`, `MainAccepts`, `StopEnds`,
`EveryThreadReturns`) is out of the prover's reach and stays with TLC, on the
instances above. So do the runs that are violated: a counterexample needs one
instance. The buffer's sizes and the log's lines are sums and joins over
sequences of any length. Their definitions are recursive functions, and the
lemmas about them are by induction over the set of lengths for which the
statement holds (`NaturalInduction` of `SequenceLemmas`).

## Where the code differs from what it says

1. `driver_krealloc`. A failing `krealloc` leaves `buffptr` NULL and `size` as it
   was (`main.c:188-194`). The bytes acknowledged before are lost, the next write
   puts its own behind as many bytes nobody wrote, and if one of those is a
   newline an entry is inserted by a write that copied none, against the comment
   of `main.c:206`.
2. `server_full`. `read_data_len` counts every line ever written
   (`aesdsocket.c:410`), the device keeps ten. After one more, the loop of lines
   175-178 never ends and the mutex stays taken: no client gets the data that
   `aesdsocket.c:4` says it sends.
3. `server_rejoin`. The lines that take a node out of the list are commented out
   (`aesdsocket.c:712-716`), so line 710 joins a thread again in every later round,
   which is undefined. When its stack is no longer mapped the process ends, and the
   client just accepted gets nothing.
4. `system_status`. `do_system` counts every status but -1 as a success and the
   other two every status but an exit with 1 (`systemcalls.c:26, 102, 181`); the
   comments of lines 10-13 and 45-48 promise false for any non-zero value.
   The status of a child killed between `fork` and `execv` reads 0, so a command that
   never ran counts as well.

Three more follow from what the passing runs show:

* A server started on a device that holds commands does not know of them.
  `OverrunNeedsHistory` and `AnswersOwnLines` hold only for an empty one: with a
  command of one byte left from before and a line of two, the loop of lines
  175-178 reads one byte and then two into a buffer of two, and never ends.
* A signal takes the node of the device away (`aesdsocket.c:223` removes
  `RECV_FILE_NAME`, whatever it is), and the next server serves from a regular
  file, with the module still loaded and `aesdchar_load` refusing to run again
  until it is unloaded. `DeviceInPlace` says that this is the only way.
* When the second `usleep` of a thread of the threading example fails, the thread
  returns with the mutex locked (`threading.c:41-47`), although `threading.h:31-32`
  says that it then releases it. `EveryThreadReturns` names this as the one case in
  which another thread waits for ever.

## What is not modelled

* *Data*: byte values beyond newline and others, host names, log messages.
* *Driver*: `size_t` and `loff_t` are unbounded numbers here: their limits are far
  from anything a buffer of ten kernel allocations can reach. `lseek` is not in
  `aesd_fops`, so a position only moves forward.
* *Server*: the build without the driver, whose timer handler and file are
  compiled out; a signal while the handler runs; a handler that comes while main
  is inside `syslog` or `malloc`, which are not safe there; `accept` and the store
  of its result are one step; the wrap-around of `status` when a `read` has failed
  2^32 times. `EveryClientServed` is about clients that send a whole line.
* *Device node*: two scripts at once, commands given by hand in the middle of one,
  another driver that is given the number of a stale node, other processes that
  use the device.
* *Threading*: how long a sleep takes (the code passes milliseconds to `usleep`).
* *System calls*: arguments and paths of the commands.
* *`finder-app/`*: `writer.c` opens, writes and closes one file and ends; nothing
  of it outlives a call or meets another process. `finder-test.sh` and the scripts
  that build and boot an image run external tools and keep no state.
* *`examples/autotest-validate`, `student-test`*: a constant and its test.

## Plan

Every component with state of its own is modelled and checked, and what the
passing runs check is proved, but for liveness. Left to prove, where it says
something that no run's property does yet:

1. That the server uses the device as `AesdLog` allows: each of its steps is a
   step of the log, with the clients as processes and their lines as inputs, or
   leaves it alone, so that what is proved of the driver carries over to it.
2. The same for the server and the scripts of `DeviceNode`, where loading a module
   is the log's `Reload`.

## Running it

    tlc -config CircularBuffer.cfg MCCircularBuffer.tla
    tlc -config AesdChar.cfg MCAesdChar.tla
    tlc -config AesdSocket.cfg MCAesdSocket.tla
    tlc -config DeviceNode.cfg MCDeviceNode.tla
    tlc -config Threading.cfg Threading.tla
    tlc -config SystemCalls.cfg SystemCalls.tla
    tlapm SequenceLemmas.tla
    tlapm CircularBufferLemmas.tla
    tlapm CircularBufferProofs.tla
    tlapm AesdCharProofs.tla
    tlapm AesdSocketProofs.tla
    tlapm DeviceNodeProofs.tla
    tlapm ThreadingProofs.tla
    tlapm SystemCallsProofs.tla
