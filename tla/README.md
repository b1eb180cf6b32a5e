# Formal models of the AtomicOS kernel

AtomicOS is a small x86 kernel: processes with priorities, semaphores, message
queues, shared pages, a console, a memory file system. This directory holds TLA+
modules translated from its C source, the configurations under which TLC checks
them, and proofs that TLAPS checks.

## 1. The system

### Execution model

All gates of the IDT are interrupt gates (`src/kernel/interrupts.c:22`, `:27`): a
system call, an exception or an interrupt handler runs with interrupts off until
it returns to user code. The kernel has one processor and one place where it
changes hands, `ctx_sw` at the end of `ordonnance` (`src/kernel/process.c:271`).
Only `idle` runs kernel code with interrupts on, between `sti` and `cli`. So the
atomic step of the models is a handler, or the part of a handler between two
calls of `ordonnance`; what a system call does after `ordonnance` has returned is
an action of its own, since any number of other handlers may have run meanwhile.

### Components

| Component | Source | State it keeps | Operations | What makes it correct |
|---|---|---|---|---|
| Priority queues | `shared/queue.h` | circular doubly linked lists, sorted by a field of the elements | `queue_add`, `queue_out`, `queue_del`, `queue_top`, `queue_bottom`, `queue_for_each` | an element is chained at most once; order by key, first come first served among equals |
| Processes, scheduler | `kernel/process.c` | `procs`, `cur_proc`, `head_act`, `head_sleep`, `head_dead`, `head_io`, `head_pid`, `nb_procs` | `start`, `_exit`, `kill`, `waitpid`, `chprio`, `wait_clock`, `ordonnance` | lists agree with states; parents and children agree; no lost wake-up; the best process runs |
| Clock | `kernel/time.c` | `g_tics` | `tic_PIT` | calls `ordonnance` on every tick |
| Semaphores | `kernel/semaphores.c` | `tab_sema`, `tab_id`, `nb_sema`, `prochain_id` | `screate`, `sdelete`, `sreset`, `wait`, `try_wait`, `signaln` | counter and waiting list in step; identifiers name one semaphore |
| Message queues | `kernel/messages.c` | ring buffers, lists of blocked readers and writers | `pcreate`, `pdelete`, `preset`, `psend`, `preceive` | messages delivered once, in order; nobody waits in vain |
| Console input | `kernel/console.c` | ring buffer `tampon`, `nb_lig`, `head_io` of process.c | `keyboard_data`, `cons_read`, `wait_for_keyboard`, `clear_line`, `ecrire_clavier` | counts agree with the text; lines are read once, in order |
| Physical memory | `kernel/mem.c`, `liste_zl.c` | free lists by power of two | `phys_alloc`, `phys_free` | blocks handed out are disjoint; nothing is lost; buddies merge |
| Hash tables | `kernel/hash.c` | open addressing table | `hash_set`, `hash_get`, `hash_del`, `hash_for_each` | a map; lookups end |
| Shared memory | `kernel/shmem.c` | table of shared pages, reference counts | `shm_create`, `shm_acquire`, `shm_release` | a page lives as long as it is mapped |
| Virtual memory | `kernel/vmem.c` | page directories and tables | `alloc_pages`, `map_page`, `unmap_vpage`, the freeing part of `free_process` | every page is freed once |
| Files | `kernel/file.c` | named buffers with a position | `atomicOpen/Read/Write/Delete/Copy/Rename` | what is written is read; names, contents and positions agree after any copy, rename and delete |
| Mouse | `kernel/mouse.c` | packet under assembly, pointer | `mouse_handler` | pointer on the screen |

Interactions: system calls enter through `syscall` (`process.c:950`); semaphores,
messages and the console block a process by setting its state, chaining it in a
list of theirs and calling `ordonnance`, and wake it with `add_proc_activable`;
`kill` and `chprio` of `process.c` reach back into the lists of the semaphores
and of the message queues; the keyboard interrupt calls `keyboard_data` and then
`debloque_io`; process termination releases shared pages, page tables and frames.

The hard behaviours: every order of the calls of several processes, preempted at
each tick; a `kill` or `chprio` of a process while it is blocked anywhere; code
that goes on after a wait, on data written by others; 16 and 32 bit counters;
fixed tables that fill up. They are listed one by one in `PROJECT.json`
("hazards").

## 2. Modules

| Module | Models | Built on |
|---|---|---|
| `PrioQueue` | `shared/queue.h`: a list is the sequence of its elements from `head->next` to `head->prev` | |
| `Process` | `kernel/process.c` and the tick of `time.c` | `PrioQueue` |
| `Lifecycle` | the promises of `process.h` about parents, zombies, orphans and return values, without scheduler or lists | |
| `ProcessProps` | the properties of `Process`, and its refinement mapping to `Lifecycle` | `Process`, `Lifecycle` |
| `Scheduler` | the scheduler as the blocking primitives see it: running, ready, blocked, ended | `PrioQueue` |
| `Semaphores` | `kernel/semaphores.c`, and what `kill`, `start`, `chprio` do to waiters | `Scheduler` |
| `SemaphoreContract` | units, waits and answers, without counter, lists or processor | |
| `SemaphoreProps` | properties of `Semaphores`, mapping to `SemaphoreContract` | both |
| `Messages` | `kernel/messages.c`, and what `kill`, `start`, `chprio` do to waiters | `Scheduler` |
| `MessageContract` | bounded FIFO channels with blocking senders and receivers | |
| `MessageProps` | properties of `Messages`, mapping to `MessageContract` | both |
| `Console` | the buffer, the keyboard interrupt and the readers of `kernel/console.c`, `bloque_io` and `debloque_io` | `Scheduler` |
| `ConsoleContract` | text typed, lines taken | |
| `ConsoleProps` | properties of `Console`, mapping to `ConsoleContract` | both |
| `Buddy` | `kernel/mem.c` with the free lists of `liste_zl.c` | `PrioQueue` (`Elems`, `NoDup`) |
| `BuddyProps` | properties of `Buddy` | `Buddy` |
| `HashTable` | `kernel/hash.c`, as operators on tables | |
| `FileSystem` | `kernel/file.c`: the table of names, the `File` structures, the pointers that programs hold | `HashTable` |
| `FileContract` | names, contents and offsets, without tables or buffers | |
| `FileProps` | properties of `FileSystem` and of its table, mapping to `FileContract` | both |
| `VirtualMem` | `kernel/vmem.c`, as operators on address spaces | |
| `SharedMem` | `kernel/shmem.c`, in the address spaces of processes from `start` to `free_process` | `VirtualMem`, `HashTable` |
| `SharedContract` | which key each process sees at which address | |
| `SharedProps` | properties of `SharedMem` and `VirtualMem`, mapping to `SharedContract` | both |
| `PrioQueueProofs` | lemmas on lists: elements, order, lengths | `PrioQueue` |
| `ProcessProofs` | theorems about states, then about steps, order and the refinement of `Lifecycle` | `ProcessProps` |
| `SchedulerProofs` | the invariant of the reduced scheduler, one lemma per operation | `Scheduler` |
| `SemaphoreProofs`, `MessageProofs` | theorems about types, counters, waiters and their order, and the contracts | `SchedulerProofs` and the properties |
| `ConsoleProofs` | theorems about the keyboard buffer, and the contract of readers | `ConsoleProps` |
| `BuddyProofs` | theorems about the free lists and the blocks handed out | `BuddyProps` |
| `TableProofs` | theorems about the hash table and its two users: the files and the contract of programs, the address spaces and the contract of shared pages | `FileProps`, `SharedProps` |

Definitions with an underscore in their name, as `AddPlace_Lifo`, are not used by
the specifications: each is a plausible mistake in the definition that follows it,
put there to see that a property would notice.

### Process

The variables `state`, `ppid`, `prio`, `wake`, `s` and `children` are the fields of
the `Process` structures by pid; `state[p] = "NONE"` stands for `procs[p] == NULL`.
`act`, `sleep` and `dead` are the lists, `freePids` is `head_pid`, `clock` is
`g_tics`. `blocked` holds the processes whose kernel stack is inside `waitpid`:
when such a process is elected, `pc` becomes `"waitpid"` and the rest of
`waitpid` runs (`WaitpidReturn`). `pc` tells where the kernel is: in user code or
idle (`"user"`), in `ordonnance` (`"kill"`, then `"wake"`), in `waitpid` or in the
loop of `abort_shell_wait`. The steps of `ordonnance` are three actions, one per
function it calls, and nothing else is enabled between them.

Pids are drawn from all of `Pid` and wake-up times from all of `Clock`; every
process may make every call at any time. `kill` of a process that waits for
input, a semaphore or a message is modelled with those components. After the
double free of a dying process (`KillDying`) `pc` is `"undefined"` and nothing more
is said.

### Scheduler

`Semaphores`, `Messages` and `Console` need to know who runs, who is ready, in
which order, and who comes back from a blocking call; they do not need families,
sleepers or the dying list. `Scheduler` keeps `state`, `prio`, `act`, `cur` and the
set `stopped` of processes whose kernel stack is inside a blocking call, and makes
`ordonnance` one step (`Elected`). A process elected while in `stopped` has
`pc = "resumed"`: the tail of its call runs next. `Started`, `Ended`, `Repriorised`
and `Preempted` are `start`, `exit` and `kill`, `chprio` and the tick, as far as they
touch this state; each primitive conjoins what they do to its own lists.

### Semaphores

`tabId` is `tab_id`, and a cell of `tab_sema` is `cpt` and `file` at the same index.
`ToShort` wraps to the width of `cpt`, `MaxShort` being 32767 in the code. `Debloquer`
is `debloquer_sema`; `Wait` and `WaitBlock` are `wait` returning at once and
blocking, `WaitReturn` its tail. `codeReveil` is what a woken `wait` returns.

`sreset` takes an `int` in the kernel (user programs see a `short`,
`user/lib/atomic.h:37`), refuses negative counts only and stores the rest in the 16 bits
of `cpt`: a count of 40000 leaves a negative counter and nobody waiting. `Sreset`
does the same; the constant `Resets` holds the pairs of identifier and count it is called
with. So the counter of a semaphore does not say how many processes wait: they are as
many as it says below zero only where every reset so far fitted (`ResetsFit`), and
never more (`CountInStep`).

`SemaphoreContract` states what the calls promise: a unit given is taken once, every
wait that blocks is answered once, with 0, -3 (deleted) or -4 (reset) as the case was.
The units of a semaphore are `cpt` and its waiters together; a reset that does not fit
may leave a debt, which takes the units given later that find no waiter.

### Messages

All fields of `MsgQueue`, by fid; a deleted queue keeps its place and is dead until
`pcreate` takes it again. `blockedQueue[p]` is the pair that `blocked_queue` and
`msg_counter` name: the queue and the side. `PsendHand`, `PsendBlock`, `PsendWrite`
and `PreceiveBlock`, `Preceive`, `PreceiveLetIn` are the branches of `psend` and
`preceive`; `Resume` is what both do behind `ordonnance`. The branch of `preceive`
that finds an empty buffer beside a waiting sender has no action: `NoWaitInVain`
shows that there never is such a state. Messages are a small set
of integers.

`MessageContract` leaves open what the pointer of a receiver holds when the call
returns an error: the code copies the field `message`, whatever it is.

### Console

`tampon` is the ring, with its indices, `casesDispos` and `nbLig`; `flags` says which of
`tab_pressed`, `up`, `down` are set. `TraitantClavier` is one keyboard interrupt:
`keyboard_data`, then `debloque_io`. `call` tells with which arguments a process is
stopped; the loops around `bloque_io` are the actions with `At`, which a call
begins and a resumed process enters again. `ClearLine` is the number of
backspaces `clear_line` types, found by looking back from the pointer as the code
does, to a carriage return that may have been read long ago. When the ring holds
none the code loops with interrupts off: `ClearLineStuck`, after which `pc` is
`"stuck"` and nothing more happens. `EcrireClavier` is `ecrire_clavier` of a string of a
given length.

### Buddy

Addresses count units of the smallest block from `zone_memoire`; block sizes are
indices. `tzl` is the table of free lists, `held` the blocks handed out. `phys_init`
makes a block of 2^26 and one of 2^27 bytes: the second is not aligned on its size,
which is why `Partition` and `WholeAgain` are not evident.

### HashTable

A table is a record of its slots and of `fill` and `count`; a slot is empty, deleted
or a pair. `Path` is the order in which `hash_lookup` visits the slots, with the
`perturb` term, and `Probes` tabulates it; `Ends` and `Lookup` are its loop. `Set` and `Del` hold the calls of
`hash_update`, with growth, shrinking, the purge of deleted marks, and the case
that there is no memory for the new slots: the entry is in the table (or gone)
all the same, and the table keeps its size. The field `failed` is no part of the code:
it counts those cases so that they can be bounded (`MaxFails`, `RoomAssumption`). Keys are equal when `cmp` says
so; the hash function is a constant.

### FileSystem

`files` is the table, `heap` the `File` structures by pointer, `opened` the pointers in
the hands of programs. As in the code there is one position per file, shared by all
who opened it, `atomicClose` does nothing, and a file whose name is deleted or
replaced lives on: structures no name and no program leads to are leaked by the code
and forgotten in `heap`. A system call is one step; which of the calls of
`hash_set` and `hash_del` in it finds no memory is chosen by `bad`, and the file
functions do not look at what these return. `atomicCopy` and `atomicRename` look up the
source before they delete the destination; a rename of a file onto itself therefore
removes the name, and `FileContract` says so. Where `atomicOpen` returns `NULL` to
`atomicCopy` (no memory for the structure, or an empty name for the copy), the write
through it ends the caller after the delete: what this does to files is a step of
`AtomicDelete`, or nothing if the destination was not there. The failure to allocate a
buffer is left out (in `atomicCopy` it leaves a destination with a size and no data, and
the caller ends), as are the reading calls `atomicList`, `atomicEOF` and `atomicData`.

### VirtualMem and SharedMem

An address space is a record of the pages it has taken: directory, kernel stack, page
tables, and what their entries lead to. `AllocPages` is `alloc_pages`, page by page, with
memory that may run out at each of them: a null page makes `map_page` fail and `start`
give up, with what was taken leaked (`lost`), except where the code asserts or writes
through the null page (`panic`). `FreeSpace` is what
`free_process` gives back. Directory entries copied from the kernel are left out.

A failed assertion does not stop the kernel. `panic` writes to address 0, in a page that
nothing maps, and the handler of page faults kills the process that runs
(`process.c:509-520`): `StartPanics` and `ShmPanics` end the caller, with what the call had
taken so far in `lost`, and all others go on. `StartPanics(p, q)` has the caller `q` beside the
process `p` that was to be started; when `idle` calls `start`, at boot, there is no such
step, since `kill` refuses `idle` and the fault repeats for ever.

Which free page is taken does not matter (`NextPage` takes the lowest); that a block
of several pages is there when as many pages are free is a matter of `Buddy`.

`table` is the kernel's table of shared pages, `shmem` and `shmIdx` the `shmem` and
`shm_idx` of each process. `Released` is `shm_release_proc`; it reads the page of a
descriptor it has just freed, which is intact since `mem_free` overwrites the first
word only. `ReleasedAll` is `hash_for_each` with the callback that deletes from the table
it walks: the slots are those of the beginning, the bound is the size of the table
there is now. The failure of `hash_set` is left out of this module (see section 6).

## 3. Runs

| Run | Configuration | Shows |
|---|---|---|
| `process` | `MCProcess.cfg` | all invariants and action properties of `ProcessProps`, and that `IInv` of the proofs holds |
| `process_live` | `MCProcessLive.cfg` | `SleeperWoken`, `TopRuns`; `Process` implements `Lifecycle` (`TerminationContract`) |
| `process_dying` | `MCProcessDead.cfg` | violation: `kill` frees a process still chained in `head_dead` |
| `semaphores` | `MCSemaphores.cfg` | counter, waiting lists and states agree; the best waiter is served; `Semaphores` implements `SemaphoreContract` |
| `sema_place` | `MCSemaphoresPlace.cfg` | violation: `screate` overwrites a live semaphore |
| `messages` | `MCMessages.cfg` | counters, lists and states agree under `preset`, `pdelete`, `kill`, `chprio`; no one waits in vain; errors belong to the wait that ends |
| `message_promise` | `MCMessagesPromise.cfg` | `Messages` implements `MessageContract`; the table of queues is accounted for |
| `message_reset` | `MCMessagesReset.cfg` | violation: `preset` leaves the indices behind |
| `console` | `MCConsole.cfg` | the buffer's counts agree with its content, also when the shell rewrites its line; `Console` implements `ConsoleContract` |
| `buddy` | `MCBuddy.cfg` | memory is partitioned, coalesced, recovered |
| `files` | `MCFiles.cfg` | the hash table stays sound through growth, shrinking and failed resizes; positions, sizes and names agree; `FileSystem` implements `FileContract` |
| `memory` | `MCShared.cfg` | reference counts and page tables agree, no page is lost or used twice; `SharedMem` implements `SharedContract` |

The violations are disagreements of the code with its comments; `PROJECT.json`
("findings") quotes both sides.

### Bounds

- Process: four pids are idle, the shell, a child and a grandchild, or the shell with
  two children: enough for orphans, for two zombies of one parent, for a pid that
  is freed and handed out again, and for two equals that compete with a third.
  Two priorities give above, below and equal; the liveness run has one, since
  sharing among equals is its question. The clock counts modulo 2, so that it wraps
  all the time.
- Semaphores: three processes, two priorities, counters from -3 to 2 with
  `MaxShort = 2`: `signaln` runs into the upper edge at once. Waiters alone do not reach the
  lower edge, with three processes or with the 1000 of the kernel; resets do. The
  second semaphore is reset with counts of 0 to 5, which leave every value of the
  counter, from the lowest on, and `wait`, `try_wait`, `signaln` and `kill` go on from
  there; the first is reset with counts that fit (`MCResets`).
  One semaphore at a time and two identifiers cover reuse of a cell after `sdelete`;
  collisions in the table are the subject of `sema_place`. The runs call with
  identifiers above 0: `sdelete(0)` takes a free cell 0 for a semaphore and lowers
  `nb_sema` below zero. `LastId` bounds the semaphores created.
- Messages: `messages` has three processes on a queue of capacity 2, with `preset`
  and a null pointer for the received value (`Receivers = {FALSE}`), since its
  properties are about waiting and not about values. `message_promise` has two
  processes, two messages, capacities 1 and 2, values received, and no `preset`: with
  `preset`, or with `preceive(fid, NULL)` beside other receivers, the indices and the
  count disagree (`message_reset`; a null pointer counts a message as read without
  advancing `rindex`) and no promise about order holds. The tests of the repository
  do call `preceive(fid, 0)`.
- Console: a ring of three places (`TAILLE_TAMP` is 100), two processes of two
  priorities, reads of one character and of a whole line, rewritten lines of two
  characters (`Inserts`). Two assumptions on the environment are named
  constants. `CarefulTypist` says three things: a backspace erases no carriage
  return; nothing at all is typed behind a tab or an arrow before a read has noticed
  it; and `clear_line` and `ecrire_clavier` are not called in between either. Without
  the first, `BufferInStep` fails in two keys (return, backspace), because
  `keyboard_data` does not lower `nb_lig`. Without the second, `cons_look` erases
  what was typed behind the tab (`console.c:136-141`): a return, and `BufferInStep` fails,
  or a character, and the tab stays for the next reader, against `ConsoleContract`.
  `KillsWaiters = FALSE`: no process is killed while it waits for input; the code
  leaves such a process in `head_io`, and the next key makes it ready again.
- Buddy: blocks of 1, 2, 4 and 8 units in a memory of 4 + 8, at most 5 held: every
  way to split the misaligned block and to merge it again.
- Files: tables of 4 slots that may double twice (`MinSize`, `Doublings`), three names of
  which two begin at the same slot and meet the third on their way; files of at most two bytes
  of one value, so that contents differ in length and in the file they are in;
  one pointer held by programs (`MaxOpen`), three structures in reach, and one resize
  that fails (`MaxFails`).
- Memory: three processes, page tables of two entries, code and stack under tables of their
  own as in the kernel (`UserCode`, `UserStack`), three shared pages per process in
  its life (`MaxPages`), two keys that collide. 22 pages are enough for three
  processes of seven pages, but not for all that they share and that a failed `start`
  leaks, so that memory runs out at every point of `start`, `shm_create` and
  `shm_acquire`, and processes end by page faults while others hold pages. With three shared pages the
  table of a process never grows: with six or more in the code, a table that shrinks
  while `hash_for_each` walks it hides slots from it, and references are lost. Processes
  are symmetric. The `VIEW` (`UpToPages`) takes states that differ in the names of pages
  for one: pages are interchangeable in all actions, and where `PagesAccounted` and
  `RefsCounted` hold a state is determined, up to that, by what the view keeps.

`CHECK_DEADLOCK FALSE` in `MCFiles.cfg` and `MCShared.cfg`: the bounds on structures and
failures, and a memory that has been leaked away with no process left, really end a
behaviour there.

### Fairness

Only `process_live` states fairness (`Fairness` in `Process`): a handler that has
begun ends, and the tick is taken again and again, because a pending interrupt is
delivered when the handler that masks it ends. Nothing is assumed of what processes
do. The other runs check safety.

## 4. Proofs

### Lists

`PrioQueueProofs` proves what `queue_add`, `queue_out` and `queue_del` do to a list:
exactly one element is added or removed, nothing is chained twice, a sorted list
stays sorted, the length changes by one, and elements of equal priority keep the order
in which they came.

### Process

`ProcessProofs` proves `Spec => []IInv` for every table size, every number of
priorities and every width of the clock (`ProcessAssumption`). The invariants of
`ProcessProps` are not inductive one by one, for instance:

- that the child a woken `waitpid` finds is still its zombie (`WaitedChildThere`)
  needs that only its parent frees a zombie, hence that `head_child` and `ppid` agree
  (`FamilyTree`), and that the parent, stopped in `waitpid`, cannot call it a second
  time (`BlockedInWaitpid`, `OneChosen`);
- that lists match states (`QueuesMatchStates`) needs that a process freed by
  `kill` or `waitpid` is not the running one, and that no free pid is in a list
  (`PidPool`);
- that a pid is always available (`PidAvailable`) needs that used and freed pids fill
  `0..pidIndex - 1` without overlap (`PidPool`), and a count of finite sets.

`IInv` joins them. There is one lemma per action (`ExitIInv`, `KillIInv`, ...),
those for `exit` and `kill` resting on one about `finish_process` (`FinishIInv`),
those for `waitpid` on one about the freeing of a child (`ReapIInv`) and those that
wake sleepers on `AwakenIInv`, with a step per conjunct; `NextIInv` combines
them, and the theorems `Invariance`, `TypeCorrect`, `QueueDiscipline`, `Processor`,
`Family`, `NoMissedEnd`, `WaitpidFindsChild`, `PidAccounting` and `NoPidPanic` follow.

The same module proves about steps, from `IInv`: a process that has terminated keeps
its state, parent and return value until it is freed (`NoRevival`), and only its
parent, or the end of its parent, frees a zombie (`OnlyParentReaps`). It also
proves that the lists stay sorted (`QueuesSorted`, inductive together with `IInv`, since
`chprio` of a process must find it in the list its state names), and with that,
that `ordonnance` elects a process of the highest priority (`BestElected`), and that
among equals a process never passes another that was ready before it
(`FirstComeFirstServed`, property `Fifo`). `LifecycleKept` is the refinement: `Process`
implements `Lifecycle` under the mapping of `ProcessProps`, with one lemma per action that
says which step of the life of processes it is, or that it is none.

These theorems say nothing after the double free of `KillDying`, where the lists
are not those of the program any more.

### Semaphores and messages

`SchedulerProofs` proves the invariant `SchedInv` of the reduced scheduler (the ready
queue holds the ready processes, once each; one process runs; idle is there) for
each operation, and what `QueueAddAll` does, by a least counterexample on the lengths.

`SemaphoreProofs` proves types, `CountInStep`, `WaitersChained`, `HighestFirst` and that
the code keeps `SemaphoreContract`, for every number of processes and of semaphores,
every width of the counter and every count given to `sreset`, those included that do not
fit. `CountInStep` is then that waiters are never more than the counter says, and exactly as
many where resets fitted; the contract lets such a reset leave a debt, and no unit is
lost or given twice beyond it. The hypotheses are those the code needs:

- `PlaceFree`: `screate` may overwrite a live semaphore (`sema_place`), after which two
  identifiers share a counter;
- `0 \notin Ids`: cell 0 of `tab_id` is free exactly when it holds 0, so a call with
  identifier 0 reaches a semaphore that was never made.

`FirstPlacesFree` discharges the first for the first `2 * NB_MAX_SEMA` semaphores ever
created: an identifier has two cells, and until then at most two identifiers compete
for both. `FirstSemaphoresHold` is the whole result without that hypothesis. The bound
is exact: `sema_place` fails at the identifier after it. The invariant `AllInv` joins
counters and lists (`IInv`), their order (`ListsSorted`, which needs that `chprio`
re-sorts the one list a waiter is in), the range of the counter, the cell an
identifier is in (`Places`), and what a process stopped in `wait` holds (`StopInv`).

`MessageProofs` proves `WaitersCounted`, `NoWaitInVain`, `WaitersChained`,
`ErrorIsCurrent`, `QueuesAccounted`, `TypeOK` and `ServedFirst`, for every number of
processes and queues, every capacity, and every use of `preset` and of null pointers.
Three invariants carry it. `WInv`: the lists hold the processes whose `blockedQueue`
names them, once each, counters are lengths, and nobody waits in vain; the parts need
each other, since `psend` looks at the counters to choose between handing over, blocking
and writing, and only `NoWaitInVain` says that one list is empty when it does. `TInv`: a
dead queue is in `list_queues` or has never been made, which `pcreate` needs to find a
queue without waiters. `EInv`: a process in `WAITMSG` is inside a call, and the one that
runs user code is not, so an error set by `preset` is cleared before the next call. The
lemma `QueueStep` reduces an operation to what it does to one queue.

`PromiseKept` says that messages are delivered once and in order: the code keeps
`MessageContract` when no queue is reset (`ResetIds = {}`) and receivers pass a place for
the message (`Receivers \subseteq {TRUE}`). Both are needed. `preset` sets `nb_messages` to
0 without moving `rindex` and `windex`, and expels all readers and writers
(`message_reset` shows the outcome); `preceive` with a null pointer counts a
message as read without advancing `rindex`. The proof is in two parts. `IndicesHold`: under these hypotheses the
two indices are always `nb_messages` apart (`IndicesAgree`). `PromiseWhileIndicesAgree`:
whenever they are, and even if queues are reset, every step is one of the contract. The
messages of a queue are read off its ring with an operator `Nth` that hides `%`, so that
lemmas about the ring (`Stored`, what a write or a read does to the sequence read off it)
are stated without arithmetic; `CallInv` says which processes are inside a call,
with which message, and that a queue that does not live has none.

### Console

`ConsoleProofs` proves `BufferInStep` for every size of the ring and every length read and
written, under `CarefulTypist`: no return is erased by a backspace, nothing is typed and no line
rewritten between a tab or an arrow and the read that notices it. The invariant adds to it that a tab or an arrow is set
only while it is the last thing typed (`FlagIsLast`): this is why `cons_look`, which
erases the last character without looking, cannot erase a carriage return.

`PromiseKept` proves, with `BufferInStep`, that the console implements `ConsoleContract`
under `CarefulTypist`, all of it, and as long as nobody kills a process that waits for input
(`~ KillsWaiters`). The code needs both: after a tab and a `c`, `cons_look` erases
the `c`; and `kill` leaves a process in `head_io`, where `debloque_io` finds it again. Its invariant `CInv` says
that `head_io` holds the waiting processes, once each.

### Buddy

`BuddyProofs` proves `Partition`, `Coalesced` and `WholeAgain` for every number of
indices (`BuddyAssumption`) and any order of `phys_alloc` and `phys_free`. The invariant
`BInv` says that every block lies in the memory at a multiple of its size (of half its
size for the highest index, since the second initial block is not aligned on its own;
`Placed`), that free and held blocks cover every unit and overlap nowhere (`Tiled`), and that
no two free blocks are buddies (`Coalesced`). `Placed` is needed so that the exclusive or of
`get_buddy` finds the other half of the block; `Tiled` and `Coalesced` need each other when
`phys_free` stops. The recursion of `phys_free` is a recursive function (`Fusion`), and
what it does is proved by a least counterexample on the number of merges (`FusionSteps`,
`FreeBInv`). `WholeAgain` follows: a free block below the two highest indices would have a
buddy that is in pieces, and the smallest piece is never alone (`OnlyLarge`).

### Files

`TableProofs` proves `TableSound`, `FileBounds` and that the code keeps `FileContract`, for
every set of names, every hash function, every `HASH_MINSIZE` up to 2^10 and every number
of structures, open files and bytes.

The first half is about `hash.c`. `ProbesVisitAll` says that a search visits every slot:
after seven steps `perturb` is 0 and the steps that are left are `5 * i + 1` modulo the
size, a power of two, and these go through all residues. It is proved by doubling: if any w
steps in a row visit all residues modulo w (`Cover`) and add an odd multiple of w (`Jump`),
the next w visit the other half of the residues modulo 2w. A search therefore ends if one slot is
empty. `Found` is the heart of the invariant: where a key is, the search for it comes by,
through slots that were never empty since; `FoundKept` shows that a slot filled or marked
on the way keeps this for all keys, and `CopiesAll` that `hash_copy` builds it anew. That an
empty slot is left (`Loaded`) is a matter of counting: `hash_update` keeps `fill` below two
thirds of the size, each failure to allocate lets one more slot be filled, and
`RoomAssumption` allows a third of `HASH_MINSIZE` of these. It is needed: the code does not
look at the failure, fills the table on, and when no slot is empty a search for an
absent key does not end. The other part of `RoomAssumption` says that the largest
table of the model (`Doublings`) is large enough; the code has no largest table.

The second half is about `file.c`. `FInv` adds to the table that the structures are
those that a name or a program leads to, that each fits its buffer, and that a name leads
to a structure that bears it, which is why two names never share one. `atomicCopy` and
`atomicRename` make up to three calls of the table, of which one may fail
(`RenewedFacts`). For the refinement the directory is read off the pairs in the table
(`DirFacts`, `DirWith`, `DirWithout`), and a write into the buffer is the splice of
sequences that `FileContract` says (`Spliced`).

### Shared memory

The last part of `TableProofs` is about `shmem.c` and the address spaces under it, for every
size of the memory, of page tables, stacks and code, as long as stack and code do not
overlap (`VirtualAssumption`; all processes have stacks and code of one size), any number of
processes and of pages they share (`SharedAssumption`), every set of names and every hash
function with room for them in a table (`RoomAssumption`), and physical memory that may
run out at any page.

The invariant `SInv` has four parts. `Parted`: the free pages, the leaked ones, the shared
ones and those of each process (`OwnPages`: directory, kernel stack, page tables, stack and
code) are disjoint and fill the memory, and within a process each has one use
(`Apart`). `Leads`: the table of a process and its page tables say the same, name
by name and address by address, and what they say is in the table of the kernel. `Covered`:
a page has at least as many references as processes that have it mapped; this is what
keeps a page from being freed under a process. `Placed`: a living process
has its stack and code, and no address from `shm_idx` on is in use, so that the next one
is new. They need each other: `free_process` finds the pages of stack and code through
entries that `Placed` says are there, and gives them back once because `Apart` and `Parted`
say they are distinct; a release lowers a count that `Covered` bounds below by the users, of
which the caller is one by `Leads`.

`alloc_pages` is followed page by page (`AllocPagesFacts` and the lemmas before it), with an
invariant on the prefixes of its two recursive functions; `free_process_shmem` likewise
over the slots of the table it walks (`WalkedAll`). There is one lemma per action
(`StartStep`, `ShmCreateStep`, `FreeProcessStep`, ...), and `SInvNext` combines them.

`PagesAccountedHolds` is `PagesAccounted` without any further condition: each page is in one
use, free or leaked, also after page faults of the kernel (`FaultStep`). It does
not say that few pages are leaked: a failed `start` leaks all it took, and `shm_create`
the page it took before the assertion of `map_page`. `AddressesLeadHolds` is, also without condition, the second half of
`RefsCounted`: processes reach the pages they named and no others.

The first half, that a count is *equal* to the number of users, is not true of the code in
general. `hash_for_each` walks the slots of a table that `hash_del` may halve under it; it
then stops at the new size, with entries unvisited, and their references are never given
back. (The model reads the slots that `hash_del` has freed as they were; the code does so
until their memory is handed out again.) Counts are then too high (`Covered` still holds), the page and its name stay
taken for good. `RefsWhileSmall` is therefore proved for the behaviours in which every
process that ends has a table of the smallest size (`EndsSmall`), which cannot be halved, and
`RefsWhileFew` gives a bound on calls that implies it: no process creates and acquires
two thirds of `HASH_MINSIZE` pages in its life (`FewShared`; five with the 8 of the code).
`MCShared.cfg` stays under this bound. `SharedPromiseWhileSmall` is the refinement of
`SharedContract` under the condition of `RefsWhileSmall`: it needs it, since a name whose
references were lost can still be acquired when nobody sees its page. What a process
sees is read off the pairs of its table turned round (`Flip`), and one lemma per call says
which step of the contract it is.

### Only model-checked

The safety properties of all passing runs are theorems. What is left is:

- `SleeperWoken` and `TopRuns`: liveness under fairness, and what is `ENABLED`, are out of
  the prover's reach.

## 5. Not modelled

The pointers of the lists (a list is a sequence); the `children` list of a process that
has terminated, which `kill_recursive` still walks (`process.c:1261`), but to no
effect, since its call of `kill` is commented out; the allocation of process structures and its failures; the
contents of registers and pages; output.

- Mouse: three bytes are assembled into a packet and added to a position that nothing
  but drawing reads; what could go wrong (the byte order of packets) depends on
  the hardware.
- Screen, fonts and graphics, the gdb stub, boot code: output, or run once with
  interrupts off. The state that boot leaves is `Init`.
- The table of applications: filled once at boot, read afterwards, an instance of
  `HashTable`.
- The Linux keyboard driver and `malloc`: vendored. The C library: pure functions.
- `scount`, `pcount`, `atomicList`, `atomicEOF`, `atomicData`, and `cons_complete`, whose only
  effect is in which keys follow: they read.
- User programs and the tests: they appear as processes that make any call at any time.
- The image headers of `kernel/images` are generated data. They are nine tenths and more
  of the lines of the repository, so that no model can cover a large share of these.

## 6. Plan

Done, in this order: `PrioQueue`, `Process` with `Lifecycle` and its proofs,
`Scheduler`, `Semaphores`, `Messages`, `Console`, `Buddy`, `HashTable` with `FileSystem`,
`VirtualMem` with `SharedMem`, each with its properties and, for those with promises to
callers, an abstract specification; the proofs of section 4.

Left to model:

1. The failure of `hash_set` in `shmem.c`, which returns -1 although the key is in the
   table: `shm_acquire` then does not count a reference that the process will drop.
2. A run for tables that shrink while `hash_for_each` walks them (six or more shared
   pages in a process).
3. The wake-up time of sleeps across the wrap of `g_tics`; processes killed while they
   wait for input.
