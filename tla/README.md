# A TLA+ verification of the teaching kernel

The repository is a small Unix-like kernel for the Raspberry Pi: processes in
(nested) containers, a logging file system in the style of xv6, an interrupt
driven SD card driver, a console, a shell. This directory models its concurrent
and its persistent parts in TLA+, checks them with TLC on small instances, and
proves most of the safety properties with TLAPS for every value of the constants.
`PROJECT.json` lists components, runs, mutants, the map from definitions to
source lines, findings, hazards and theorems. Paths below are relative to
`src/src/`.

## The system

| Part | State | Operations | Hard behaviour | What must hold |
|---|---|---|---|---|
| Group commit (`fs/cache.c`) | log header, `log_size`, `log_used`, `op_count`, two timestamps, one `OpContext` per operation | `begin_op`, `sync`, `end_op`, `checkpoint` | operations overlap, share log entries, wait for each other; the lock is given up during a checkpoint | log never overflows, counter exact, all calls return |
| Log and recovery (`fs/cache.c`) | home blocks, log area and header on disk; cached and pinned blocks | `checkpoint`, `replay`, `init_bcache` | loss of power between any two block writes, also during recovery | an operation is on disk whole or not at all; what returned from `end_op` stays |
| Block cache (`fs/cache.c`) | LRU list of `Block` structs, flags, a sleeplock each, the bitmap | `acquire`, `release`, eviction, `alloc`, `free` | window between the cache lock and the sleeplock | one struct per block, a holder keeps its block |
| Inodes, directories (`fs/inode.c`) | inodes in memory with counts and locks; sizes, addresses, entries on disk | `get`, `share`, `put`, `lock`, `map`, `read`, `write`, `lookup`, `insert`, `namex` | spinlocks held across disk transfers; references on every way out; operations inside operations | counts equal references, blocks neither lost nor shared |
| File table and calls (`fs/file.c`, `core/sysfile.c`) | reference counts, descriptors, offsets | `filealloc`, `filedup`, `fileclose`, `fileread`, `filewrite`, `sys_*` | half-built files; chunks against the limit of an operation | counts equal descriptors, a write fits its operation |
| Scheduler (`core/sched.c`, `core/proc.c`) | process table and its lock, the process of each CPU | `scheduler`, `sched`, `yield`, `sleep`, `wakeup` | the lock is handed over across a context switch | no process on two CPUs, no lost wakeup, nobody starves |
| Processes (`core/proc.c`, `core/container.c`) | parent, pid, state of each table entry | `fork`, `exit`, `wait`, `alloc_resource` | parent and child run at the same time; entries are reused | no stack freed in use, no exit missed, children reaped by their parent |
| Sleeplock (`core/sleeplock.c`) | `locked`, an inner spinlock | `acquire`, `release` | wakeup after the spinlock is released | one holder, waiters woken |
| SD driver (`driver/sd.c`, `driver/buf.h`) | the card, what the driver knows of it, the controller; a queue of buffers on callers' stacks | `sdInit`, `sdrw`, `sd_start`, `sd_intr` | answers lost, late or garbled; callers on several CPUs and the interrupt against each other | driver and card agree; one request at a time, answer for the right one |
| Console (`core/console.c`) | ring with three indices | `console_intr`, `console_read` | full ring, editing, several readers, saved end of file | nothing lost or overwritten, no reader asleep with input |
| Memory (`core/physical_memory.c`, `core/arena.c`, `core/virtual_memory.c`, `core/exec.c`) | free list, arenas with bitmaps, page tables | `kalloc`, `kfree`, `alloc_object`, `free_object`, `uvm_*`, `execve`, `growproc` | failure in the middle, also of a page table | a page has one owner; user code runs on its own table |
| Shell (`user/sh`, `user/init`) | a line, a tree of processes | `parsecmd`, `runcmd`, `main` | children left behind, table entries used again | the grammar is parsed, a command starts when the one before is done |

Interactions. System calls run file system operations between `begin_op` and
`end_op`; these use the block cache, which sleeps in the SD driver; the driver's
interrupt handler wakes the sleeper through the scheduler. Kernel code runs with
interrupts off, so that a CPU takes an interrupt only in user code; a thread
gives up its CPU only in `sched`.

## Modules

A section that the code runs under one spinlock is one step, and so is a section
that touches only the thread's own state. `sleep` takes the table's lock before
it releases the caller's, so "release and fall asleep" is one step seen from
the caller's lock; module `SleepLock`, which has both locks, shows this is justified.
Local variables and program positions are in `pc` and in records named `l`, `op`, `proc`.

* **GroupCommit** – `begin_op`, `sync`, `end_op`, `checkpoint` without block
  contents. The arrays of block numbers are sets (the code never stores one
  twice). Wakeups that follow the release of the lock (`checkpoint_notify`,
  `end_op_announce`) are steps of their own.
* **WriteAheadLog** extends GroupCommit with the disk, the block contents,
  pinning, eviction, each block write of `checkpoint` and `replay`, and loss of
  power. **AtomicDisk** is what `cache.h` promises: one abstract image that
  changes only when no operation runs. `WriteAheadLog!Abstract` is the refinement
  mapping: the durable image is what a restart would find, the header on disk taken into account.
* **NamexOp** extends GroupCommit with the operation that `namex` begins inside
  its caller's.
* **BlockCache** – `cache_acquire` and `cache_release` on the LRU list, in the
  steps between which other threads run. The content of a struct is the number
  of the block it was read from.
* **Files** – inodes in memory, the file table and the calls `open`, `creat`,
  `mkdir`, `mknod`, `chdir`, `dup`, `close`, `read`, `write`, `fstat`, `fork` and
  `exit` of several processes. A step goes to the next disk transfer, where the
  process may lose its CPU with inode locks (spinlocks, owned by a CPU) held. A failed
  assertion stops the CPU for good, as the kernel's PANIC does.
* **InodeBlocks** – the blocks of one file and of the root directory: `inode_map`,
  `inode_read`, `inode_write`, `inode_insert`, `inode_clear`, `cache_alloc`, `cache_free`,
  `fileread`, `filewrite`, on the image `mkfs` makes. Sizes and limits are the code's own, in bytes.
* **Scheduler** – process table, scheduler loop and switch, without what threads
  do. A switch is a step of its own, so that "runnable, but still on its stack" is a state.
  **SleepLock** extends it with threads that take a sleeplock, sleep
  for the disk while they hold it and are interrupted by the timer and, on CPU 0, where
  `interrupt.c` routes it, by the disk.
  **Processes** extends it with `fork`, `exit`, `wait`, table entries and pids.
* **Arena** – the ring of pages of an arena with bitmaps and counts, on a free list that
  runs out. **Memory** extends it with the images of processes: `pgdir_walk`, `uvm_*`, `execve`,
  `fork`'s copy, `growproc`, `exit`, `wait`, and `ttbr0` of each CPU. One level of
  tables, of `Entries` entries, stands for the code's three; programs are linked at page `Base`, which need not be 0.
  The kernel starts as `spawn_init_process` leaves it: the first image is the code of `user/init.S`, which has no stack and
  only calls `execve` (again, where the code spins after a failure). When `pgdir_walk` finds no page for a table it goes on with address 0, that is with physical
  page 0; the entries of that page are the variable `zero`, a page mapped there is in no image, and whoever has no table either
  finds it there (`alloc_stray`, `uvm_dealloc`, and the faults of `exec_load` and `exec_args`).
* **SdCard** – `sdInit` and `sd_init` as a dialogue of commands with an (external) card of any kind, in
  which answers are lost, late or garbled. **SdQueue** – `sdrw` in the steps it
  takes without `sdlock`, the list of `buf.h` as the buffers reachable from its
  head, `sd_intr`, the PANICs of `sd_start` and `sd_intr` (`stopped`), and a card (external) that answers or raises an unexpected
  interrupt. Callers are on any number of CPUs; `raced` remembers that somebody got between a caller's unlocked look at the queue
  and the link of its buffer, or that the answer came before the caller slept. **SdDriver** composes them: the queue serves requests once the card is ready.
* **Console** – line editor and input ring; a step of `console_intr` per
  character, the loop of `console_read` up to where it sleeps or returns in one
  step. `pending` and `line` are history: what readers must get, and what may still be edited.
* **Shell** – the recursive descent parser, `runcmd` with its processes, and the restart by `init`.
  Processes are entries of the kernel's table: `fork` takes the first unused one, `exit` leaves children with the entry as their parent, and
  `wait` takes the first zombie whose parent the entry is.
  The grammar, as a set of commands per line, is the reference the parser is compared with.

`MC*` modules give the constants values and symmetry sets; `*Proof` modules hold
the proofs. A definition with a suffix (`LogFull_NoReservation`) is a mutant: a
plausible slip in the definition that follows it, which a named property must detect.

## Runs

| Run | Instance | Shows |
|---|---|---|
| `group_commit` | 3 threads, 3 blocks, 1 per operation, log of 2, 4 operations | accounting, no overflow, committed blocks kept; `end_op` and `begin_op` return |
| `wal` | 2 threads, 2 blocks, 2 contents, log of 4, 3 operations, 2 losses of power | the log implements AtomicDisk; log intact during recovery |
| `block_cache` | 3 threads, 3 blocks, 3 structs, threshold 2 | one struct per block; the block asked for as long as nobody shares it |
| `namex_op` | 1 thread | violation: the inner `end_op` never returns |
| `sleeplock` | 2 CPUs, 5 processes, one idle | no process twice, one holder, no lost wakeup; sleepers are woken when CPU 0 works alone, runnable processes run on any CPU that does |
| `processes` | 2 CPUs, 3 entries, 5 pids | no stack freed in use, no exit missed, own children reaped |
| `sd` | 3 threads, 2 CPUs, every kind of card, both controllers, 2 faults, 1 odd interrupt | driver and card agree, register empty, clock within its limit; unless a look at the queue is overtaken, one request at a time, answers for the front, `sdrw` returns; `sdInit` returns |
| `console` | 2 readers, ring of 3, 8 characters, reads of up to 2 | ring holds exactly the input, no sleep with input, end of file read alone |
| `files` | 2 processes, 2 CPUs, paths `/d` and `d/f`, 3 inodes, 1 file, 2 descriptors | counts of inodes and files exact, no named inode freed |
| `inode_data` | 2 open files, writes of 3000 and 40000 bytes on files of 6000 and 63000, a root of 31 or 32 entries | bitmap exact, size is the end, few blocks fit the operation, every byte mapped |
| `memory` | 2 processes, 2 CPUs, 15 pages, images of up to 3 pages and a stack, tables of 1 entry, 2 objects per page | pages conserved, user code on its own table, room at the head of the arena |
| `shell` | all lines of up to 5 tokens, or of up to 3 and then `a ; a`; 7 table entries, `MAXARGS` 3, 800 bytes | parser agrees with the grammar; without `&` nothing of a command runs when the next one starts |

Bounds. Three threads are the least for "one checkpoints, one waits in
`end_op`, one in `begin_op`", and for "one releases, one waits, one evicts". A
log of 2 is full with two operations, and a third waits; entries that are absorbed while another
operation runs need a longer log, which `wal` has, and the theorem
`AccountingCorrect` is for any size. Two losses of power put one into the recovery
from the other. Three table entries give a parent, a child that outlives it, and
reuse of an entry; 5 pids are used up by then. A ring of 3 with 8 characters is
passed round twice and can be full in every phase. The sizes of `inode_data` cross the
end of the direct blocks, 64 KiB and the end of a directory block; 40000 bytes are more than an operation may
write. With 15 pages two processes run out of memory in every step that needs a page, between a page and its table included. Five tokens are enough for a block, a
pipe or a list with a redirection, a second line for what the first one left behind, and seven entries for all their processes. In `sd` the constraint `NotRaced`
cuts behaviours where `raced` gets true: it stays true, and the properties of the queue then say no more. Timestamps, characters, losses of power,
faults, unexpected interrupts and writes are bounded in the guards (`MaxTs`, `MaxTyped`,
`MaxCrashes`, `MaxFaults`, `MaxOdd`, `MaxWrites`, `MaxEntries`, `MaxTokens`, `FewTokens`, `MaxRead`).

Deadlock is not checked where the system may stop: in `processes`, `files`,
`memory` and `inode_data` (a PANIC stops the kernel, processes may all exit, and bounds are
used up), in `console` (nobody has to type), in `sd` (a card that fails stays failed, and a PANIC stops the kernel), in
`shell` (a full table stops the kernel) and in `namex_op` (where the deadlock is what the
liveness property shows).

Fairness. `group_commit`: weak fairness of every thread's steps; an operation ends, because its
caller does not block elsewhere, and the device completes its writes. `sleeplock`: weak fairness of each CPU; strong
fairness of the timer, which interrupts user code again and again, of the disk's
interrupt, and of release (a holder does not go back to the disk for ever).
`idle_init` provides the processes whose user code takes interrupts while
everybody else sleeps. Nothing makes spinlocks fair, and on two CPUs one may wait
for the table's lock for ever; the two liveness properties therefore speak of the
time when all CPUs but one have lost it for good: any one for `RunnableRuns`, CPU 0, which gets the disk's interrupt, for `SleeperWoken`.
Before, CPUs interleave as they like, and may leave sleepers and a holder behind. Sleeplocks are not fair either:
`SleeperWoken` does not say that the lock is obtained. `sd`: `sdInit` and the threads go on, the
card answers, the interrupt, strongly fair, reaches CPU 0 when it is in user code; all of it until the kernel has stopped.

Symmetry sets are used only in runs without liveness.

## Proofs

| Module | About | Theorems |
|---|---|---|
| `GroupCommitProof` | GroupCommit | `LogAccounting`, `CommitFits`, `CommittedInLog`, `CheckpointAlone`, `SleeperHasWaker`, types |
| `WriteAheadLogProof` | WriteAheadLog, AtomicDisk | the log implements `AtomicDisk` (`ImplementsAtomicDisk`); `LogIntact` |
| `BlockCacheProof` | BlockCache | `UniqueBlockNo`, `AloneGetsOwnBlock` |
| `SleepLockProof` | Scheduler, SleepLock | `OneCpu`, `LockAcrossSwitch`, `OneHolder`, `NoLostWakeup`, types |
| `ProcessesProof` | Scheduler, Processes | `StackKept`, `NoMissedExit`, `ReapsOwnChild` |
| `MemoryProof` | Arena, Memory | `RoomAtHead`, `PagesConserved`, `RunsOnOwnTable` |
| `SdDriverProof` | SdQueue, SdCard, SdDriver | `OneRequestAtATime`, `AnswerIsForFront`, `DriverKnowsCard`, `StartFindsRegisterEmpty`, `ClockWithinLimit` |
| `ConsoleProof` | Console | `RingHoldsInput`, `NoSleepWithInput`, `EofReadAlone` |

They hold for every value of the constants that satisfies the named `ASSUME` of
the module: numbers of threads, CPUs, processes, blocks, pages and readers, sizes of log, cache,
ring and table, and also the bounds in the guards. In each proof an inductive invariant is shown for the initial
state, then kept by every action in a lemma or a step of its own, and implies the property.

**Group commit.** `IInv` adds to the properties

* `OpCount`: `op_count` is the number of running operations – without it a
  thread could find `op_count = 0` while another one runs;
* `CheckpointState`: during a checkpoint `log_size` is 0, the checkpointing
  thread has the right copy to restore, and once the blocks are written the
  header is empty;
* `Timestamps`: no timestamp is above `last_allocated_ts`, and an operation that
  runs is above `last_persisted_ts` – which is what makes
  `last_persisted_ts = last_allocated_ts` at the end of a checkpoint correct.

`CommitFits` follows from the accounting: a running operation still owns
`OP_MAX_NUM_BLOCKS` entries that nobody has used.

**Write-ahead log.** `WInv` contains `IInv` while the system is up (the proofs of group commit are used as they
are, in `GroupStep`), and says of the disk: the headers in memory and on disk name no block twice and fit the log
(`Headers`); a block that is not pinned is as on the disk (`Clean`), and a pinned one belongs to the header or to a
running operation (`Pinned`); the log holds the blocks a checkpoint has written so far (`Logged`); what a replay has done is at its place
and what it has not done is still in the log (`Replayed`), for the replay of a checkpoint and for that of a
start alike. The refinement is then shown action by action: the write of the header is `Persist`, loss of
power `Crash`, the last step of `end_op` `Return`; eviction, log writes, replay, recovery and its repetition are stutters.

**Block cache.** A thread inside `cache_acquire` has a struct of the list (`HasStruct`). As long as no two threads use the
same block, that struct is marked `acquired` and is the thread's block (`Marked`), so that eviction passes it by, and what is valid was
read from its block (`Content`). `MoveToFront` is what the list operations do to the LRU list.

**Scheduler and sleeplock.** `IInv` adds

* `LockOwner`: a CPU holds the table's lock exactly while it switches, that is
  from the change of state in `sched`'s callers, through the scheduler's loop,
  until the resumed thread releases it. This is what the code relies on and
  nowhere says; `LockAcrossSwitch` is half of it, and the other half shows that
  a resumed thread releases its own CPU's lock;
* `InLoop`: a thread was dispatched from inside the loop, so `sched` returns there;
* `SwitchedAway`: a thread that does not run was left at a call of `sched`;
* `SpinKept`: a thread that has found `locked` set keeps the spinlock until it
  has taken the table's lock, so `locked` is still set when it sleeps. The
  lost wakeup is excluded by this.

**Processes.** The same about the lock, and: an entry that is free or being made is nobody's
child (`NoParent`), a process in `fork` has an entry of its own (`OwnChild`), and a process asleep in `wait` has a child and no zombie
(`Asleep`). `ReapsOwnChild` needs that a parent lives and its pid is the forker's as long as nobody left children behind (`ForkerIsParent`).

**Memory.** `ArenaInv`: no page is in the ring twice, and all full pages come last, so that the head has room if any page has;
counts are the numbers of bits. `MemInv` says which of its two images a process has at each place of `execve` and elsewhere
(`ImagesInv`), that a process is on one CPU at most (`Running`), and on which table each CPU is (`TableInv`). `PagesConserved` is then
an equation between cardinalities; each step changes the parts of one image, or the state of one process, by a number that `freelist` and `lost` change by as well.
Pages in no image are counted together (`Gone`, those of page 0 and the lost ones): a page that a stray entry takes or gives back moves between
the two (`StrayPages`, `DeallocPages`), and a page is never mistaken for its table (`TableParts`).

**SD driver.** The queue: as long as nobody has raced, one thread at most is between its look at the queue and the link (`OneLinks`),
what it saw still holds (`Seen`), the queue holds each waiting thread once (`Queued`), and the card has the request at the front, unless its thread is about to start
it (`CardHasFront`); a race never ends (`QueueInv`). The card: stage by stage, what driver and card know of each other (`Dialogue`), and that the fast divider is set only when
the card has an address (`ClockSetting`). It holds whatever is lost and however often, because the driver goes on only with an answer.

**Console.** Two indices less than `INPUT_BUF` apart are different places of the ring (`PlacesDiffer`), so that a new character
overwrites nothing. `Lies(b, q, x, y)` says that the ring `b` holds `q` from index `x` to `y`; lemmas say what appending,
concatenation and taking a part do to it. `LineOpen`: the line being edited contains neither newline nor end of file, which is why
killing it takes all of it; `Requests`: a reader has no more to get than it asked for, which `EofReadAlone` needs.

Only model-checked:

* everything under fairness – `EndOpReturns`, `BeginOpReturns`, `SleeperWoken`, `RunnableRuns`, `SdrwReturns`,
  `SdInitReturns`, and the violation `NamexReturns` – since TLAPS does no liveness;
* `ParsesTheGrammar` and `LineIsDone`: Shell's parser and its grammar are recursive operators, and what they compute on all
  inputs needs induction over data, which the installed provers cannot do;
* `RefCounts`, `FileRefs`, `NamedIsAllocated` (Files) and `BitmapExact`, `SizeIsEnd`, `FewBlocksFit`, `SizeIsMapped` (InodeBlocks): their
  proofs need the same kind of counting argument as `PagesConserved`, over the local variables of every system call, and have not been done.

## Observations

What the models show of the code beyond what holds. Only the first is a run of its own; the others explain why a property is
conditional.

1. `namex` calls `begin_op`/`end_op` on the caller's context; the inner `end_op` waits for the caller's operation (`namex_op`).
2. `cache_release` gives up the sleeplock before it clears `acquired`; a thread that waited owns the struct by then, and it looks idle and may be
   reused under its owner. `AloneGetsOwnBlock` shows that nothing else breaks the cache.
3. The reparenting in `exit` is commented out, so the orphans of a reaped process belong to whoever gets its entry next: `ReapsOwnChild` is about
   runs in which nobody exits before its children.
4. `sdrw` works on the queue without `sdlock`. Two callers that look at the empty queue both start a request, one of two that link at the same
   node is dropped from the list, a buffer linked behind one that the handler has just removed is never started, and a caller whose request was answered before it
   sleeps is not woken. These are what `raced` records: the properties of the run `sd` say that nothing else does harm.
5. `fork` with a full table panics ("no free pcbs", although the comment on `alloc_proc` promises 0). When the pids are used up `alloc_resource` returns with the
   container's lock held and the next `fork` panics; `pmap[NPID]` lies one past the array.
6. `inode_write` casts the new size to 16 bits: past 64 KiB the size is wrong and the next write fails its assertion (`SizeIsEnd` stops there).
   `filewrite` makes chunks of 68 blocks, an operation has 10 entries: a long write stops in `cache_sync` (`FewBlocksFit` is about short ones).
   `mkfs` adds a block to the size of a root whose entries fill whole blocks, and the first `inode_lookup` that finds nothing reads it and fails its assertion.
7. A failing `execve` frees the new directory while it is `p->pgdir` and does not switch `ttbr0` back (`failed` in `RunsOnOwnTable`). A CPU that leaves a process keeps its directory in `ttbr0`, also when `wait` frees it.
   Pages are lost by `fork` (the directory of `alloc_proc`), by a successful `execve` (the old image) and where `uvm_map` maps over a page; the rollback of `uvm_alloc` keeps
   the last page. They are counted by `lost` in `PagesConserved`, which does not say that there are none. Without a page for a table `pgdir_walk` continues in physical page 0,
   where pages of different processes get mixed up; `fork`'s return of -1 for a failed `uvm_copy` is not reached, since `uvm_copy` stores through NULL first. `growproc` to size 0 is reported as an error, with a stale size.
8. An inode lock is a spinlock held across transfers that sleep: a process that comes back on another CPU, or a CPU that spins on a lock whose
   holder needs it, stops. Files models this and claims nothing about progress.
9. In the shell, `a &` leaves a child to the table entry of the process that ran the line; when the next line gets that entry, its `wait` may take the old child, and `b ; c` starts `c` while `b` runs
   (`LineIsDone` is about input without `&`). `a & b` is a syntax error, and the first of two redirections to the same descriptor wins.

## Not modelled

The start of the kernel, traps and dispatch tables, and helpers (sequential); nested containers, which nothing in this kernel starts;
console output and formatting; GPIO set-up, the decoding of CID and capacity, and transfer routines nothing calls in the SD driver; the bytes of files and of the image;
descriptors through the shell's redirections and pipes; the other user programs. Memory ordering of the hardware (a step is sequentially consistent) and
wrap-around of 64-bit counters and timestamps. A block write reaches the disk or not: there are no torn writes. Observation 2 is not composed with the log, whose run
assumes that a thread gets the block it asked for; Processes, Files and Memory are three views of `fork`, `exit` and `wait` and are not composed. In Memory `copyout` takes its pages in one step, and the system calls of programs do not fault.
`killed` is never set by the kernel and is left out.
