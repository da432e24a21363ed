# A TLA+ model of SwiftHorizon

SwiftHorizon runs guest programs by translating them: a front end builds
high-level IR, passes analyse it, a JIT writes host code into a code cache, and
guest threads find that code through two levels of hash tables. The guest's kernel
is libmesosphere, built for the host and linked in. Paths below are relative to
`source/`; *mesosphere* stands for `externals/libmesosphere`.

## 1. Inventory

| Part | State | Operations | What is hard about it | Module |
|---|---|---|---|---|
| Slab heap (`runtime/common/slab_alloc.{h,cc}`) | free list threaded through free objects | `Allocate`, `Free`, `New`, `Delete`, `operator new/delete`, `Initialize` | lock-free stack: ABA, reads of memory another thread owns, exhaustion and the `malloc` fallback | `SlabAllocator`, `FreePool` |
| Translation table (`runtime/backend/translate_table.h`) | array of (location, code), lock | `Put`, `GetOrPut`, `Lookup`, `Replace`, `Remove`, `Clear` | probe chains, end of table, racing registrations, unordered stores, relocking | `TranslateTable`, `TranslateMap` |
| Dispatcher (`runtime/backend/arm64/context.S`) | per-thread L1 table, registers | entry, L1 probe, L2 probe, L1 fill, return to host | reads the shared table without its lock; copies go stale; L1 fills up | `Dispatcher` |
| HIR builder (`runtime/ir/hir_builder.*`) | blocks, edges, current block | `AppendBlock`, `If`, `Switch`, `LinkBlock`, `Return`, `AddEdge` | blocks created on mention, duplicate edges, one list node in two lists | `HirBuilder` |
| CFG analysis (`runtime/ir/opts/cfg_analysis_pass.cpp`) | visit counts, dominators, back edges, RPO | back edges, dominators, order | counting of multi-edges, irreducible graphs, loops to the entry | `CfgAnalysis` |
| HIR values and instructions (`runtime/ir/hir_builder.*`, `instr.*`, `terminal.h`) | arguments, 8-bit use count, pseudo-operation chain; value map and its uses | `AppendInst`, `SetArg`, `Use`, `UnUse`, `DestroyHIRValue`, `If` and `Switch` on a value | three records of the same uses that must agree, relinking of chains | `HirValues` |
| Local elimination (`runtime/ir/opts/local_elimination_pass.cpp`) | current value of each local | one walk over blocks and instructions | values across blocks, dead values, a second run | `LocalElimination` |
| Kernel threads (*mesosphere* `kern_k_thread.*`, `kern_k_thread_queue.cpp`) | state, suspend flags, wait queue, priority, lock owner and waiters, timer task | waits and their ends, priority inheritance, suspension, termination | every operation can meet a thread in any wait | `KThread` |
| Light lock and light condition variable (*mesosphere* `kern_k_light_lock.*`, `kern_k_light_condition_variable.cpp`) | tag with a low bit; wait list | `Lock`, `Unlock` and their slow paths, `Wait`, `Broadcast` | exchanges outside the scheduler lock, hand-over, owners that are suspended | `KLightLock` |
| Resource limit (*mesosphere* `kern_k_resource_limit.cpp`) | limit, values, hints, waiters | `Reserve`, `Release`, `SetLimitValue` | waits with a timeout, hints that run ahead of values | `KResourceLimit` |
| Condition variable and mutex arbitration (*mesosphere* `kern_k_condition_variable.cpp`) | words in the process, trees of waiters | `WaitForAddress`, `SignalToAddress`, `Wait`, `Signal` | the process changes the words without the kernel; a waiter moves from a tree to an owner within one wait | `KConditionVariable` |
| Pools and arena (`runtime/common/object_pool.h`, `mem_arena.h`) | chunk chains | `Create`, `CreateArray` | objects larger than a chunk | none |
| Host memory (`host/host_memory.cpp`) | mapped and free regions | `Map`, `Unmap`, `Protect` | splitting and merging regions (Windows) | none |
| Code cache, maps, JIT context (`runtime/backend/{code_cache,mem_map}.cpp`, `arm64/jit`) | buffers, two mappings of one file | `AllocCode`, `Flush`, `Map` | write through one mapping, run through the other | none |
| Virtual vector, files (`runtime/common`) | reserved range; descriptor | `Resize`, `Overlap`; `Open`, `Close` | operating system calls | none |
| Kernel initialisation (`kernel/host/kern_init_core.cpp`) | memory layout, page allocator | phases 1 and 2 | runs once, alone | none |
| Interface, translator, interpreter, register allocation, CPU back ends | - | - | stubs with empty bodies | none |
| Logging, threads, scope guards; vendored code | - | - | operating system calls; libraries | none |

They interact as follows. IR objects (`Inst`, `Block`, `Function`) come from slab
heaps. The builder makes blocks and edges; the CFG pass reads them and writes
dominators, back edges and the reverse post order. Threads that translate
register code in the shared L2 table under its lock; guest threads in the
dispatcher read that table without the lock and copy entries into their own L1
table. In the kernel, all parts share the thread objects: a thread's priority
depends on who waits for its locks, whichever kind of lock they are, and suspension,
termination and the timer can meet a thread in any of its waits. `KernelSync` is
that composition.

`PROJECT.json` lists the hazards at their lines, with the properties that cover
them.

## 2. Plan

Done: the concurrent core of the translator (slab heap, table, dispatcher) with
proofs of all its safety properties that hold; the IR, its control flow and its values, with both passes;
the kernel's threads, locks, condition variables and resource limit, again with proofs of all
the safety properties.

What would come next: the sets of placeholders in the Windows build of
`host_memory.cpp`; address arbiters and synchronization objects (the other waits of a
`KThread`); `KResourceLimit::Add`; and proofs about the two passes over the IR. The halt word and the return stack buffer of the dispatcher wait for
`Interface::Run`, a stub today.

## 3. Modules and the code

**FreePool / SlabAllocator / SlabProofs / MCSlab.** Addresses are numbers: 0 is
`nullptr`, then the slab objects in address order, then blocks of `malloc`, then
`Junk`, any other word. Each load, store and compare-exchange of `Allocate` and
`Free` is an action (`LoadHead`, `ReadNext`, `CasPop`, `CasPopFail`, `FreeLoad`,
`Link`, `CasPush`, `CasPushFail`); the weak exchange may fail spuriously. A holder
may write any word over the link (`UseObject`). `stack` is a history variable: the
free objects in the order in which the exchanges put them there. `FreePool` is the
abstract pool; a thread is `told` it is empty only when it is.

**TranslateMap / TranslateTable / TableProofs / MCTable.** One probe is one step.
`unique_lock` and `shared_lock` are the guard of `Acquire`. The value and key
stores of `Put` are two steps in either order, because the fence between them is an
acquire fence. `Replace` of a missing key locks the mutex its caller holds; the
model takes either outcome (exception, endless wait). `Remove`'s next index is
`(index + 1) & size`, as written. `Clear` takes no lock; its `memset` is one step, and so
are `Lookup`'s reads of key and value and `Replace`'s test and store, so a half-done clear
is not seen (it only writes zeros). The abstract map
knows the call each thread is in: a call takes effect once, atomically, on its own
key and with its own value, between its begin and its end, and a lookup's answer is
the map's value at that moment. "No answer" differs from "answered 0", so a lookup
that wrongly misses does not refine it. `Put` takes effect with the store that makes
key and value visible together.

**Dispatcher / DispatcherProofs / MCDispatcher.** Extends `TranslateTable` by guest threads. Each
load from L2 is a step, and an entry's value may be loaded before its key. The L1
probe is local to its thread. A probe outside a table is the state `"wild"`.
Translated code does not return into the dispatcher. The interpreter bit, the halt
word and the register saves are left out.

**HirBuilder / CfgAnalysis / MCCfg.** A block is its order id; a location is the
id its block has or would get. `out` holds each block's outgoing edges in order;
predecessors are only counted by the pass. Nothing prevents a front end from
ending a block twice, so nothing does in the model. A `Switch` has three cases. A
`Switch` with none would leave no current block and is not generated. The pass
takes one step per successor, in both walks. `next` and `prev` are the words of the
intrusive list nodes of the blocks and of the roots of `block_list` and
`blocks_rpo`. The reference definitions (`Dominates`, `IsIdom`, `Retreating`,
`Reducible`) are stated by reachability.

**KThread / ThreadFacts / ThreadProofs.** Everything in it runs under the scheduler lock, so its operators map
one state of the threads, the record `k`, to the next, and the modules above make steps
of them. A lock info is the set of threads waiting on one owner with one key; the trees
are sets, with the order of insertion in `k.order` for equal priorities: the pairs of who
was inserted before whom, and `<<t, t>>` for a thread in a tree (a thread whose
priority changes is inserted again, behind its equals). `Runs` is what the scheduler may
run; each thread has a core. `RestorePriority` is its loop, as a recursive function of the
number of turns; so is the loop of `Signal`.

**KLightLock / KResourceLimit.** A successful
compare-exchange is a step; a failed one repeats and changes nothing. Between the
exchange in `Lock` and the scheduler lock of `LockSlowPath` anything may happen; `seen` is
the owner the thread read. The resource limit's values are 1: each thread was charged when
it was created, may reserve and release further ones, and releases its hint when it
exits. `KLightConditionVariable::Wait` releases the lock and joins the list in one
step, as no `Broadcast` gets between the two (both hold the scheduler lock), and a call of the
resource limit is one step with the unlock that ends it: the threads its `Broadcast` wakes come to
the lock after that unlock, in the code perhaps before it. A timeout can pass at any moment before the wait, and during it when the timer fires.

**KConditionVariable.** The words in the process's memory follow
`UpdateLockAtomic` of the arm64 build (the host build's accessors for user memory are stubs
that refuse every access, and so is its scheduler's switch). `mutexLock` and `mutexUnlock`
are libnx's and not in the repository: they are marked external and modelled as the words they
leave behind, which is what the kernel checks. `in` is the set of threads between the two.

**KernelSync / KernelLemmas / KernelSteps / LimitProofs / KernelProofs / MCKernel.** Three threads with priorities 2, 3 and 4. The controls
(suspension, termination, a new priority) come from outside, at any moment and for any
thread; `Resumed` undoes a suspension. A thread that is asked to terminate exits when it
is back in user mode, through `Exit`, which takes the resource limit's lock like any call.

**HirValues / LocalElimination / MCLocals.** An instruction is its place in the order of
appending; a value is its defining instruction. `h` is what `SetArg` changes (arguments,
`num_use` modulo 256, `next_pseudo_inst`); `h.ok` becomes false when an assertion in `Use` or `UnUse`
fails or a walk runs off its chain, and nothing follows (a build without assertions would go on).
`terms` counts the terminals made with each value (`If`, `Switch`): their constructors
count a use, nothing takes it back, and they have no `HIRUse`, so the pass passes them by. `uses` is what `HIRValue` records when an
instruction is appended, `values` the value map. The opcodes are those the code tells
apart: `LoadLocal`, `StoreLocal`, one pseudo-operation, one with no argument and one with
two. Every value may be stored, read or asked for flags, flags included. A front end passes a value only to blocks that come later in the order or to its own, which
is implied by dominance since blocks are created on first mention. `Meaning` is the reference: what a value is in the
function as written.

## 4. Runs

| Run | Checks | Bounds |
|---|---|---|
| `slab_one` | one allocating thread, two freeing: list intact, one owner, assertion holds, the inductive invariant (nothing lost), implements the pool | 3 threads, 2 objects, 1 malloc block |
| `slab_aba` | **violated**: two threads that do both break `assert(Contains(obj))` | 2 threads, 2 objects |
| `table_map` | chains, the inductive invariant (padding), map, `GetOrPut`; the lock is given back | 2 threads, 4 keys, 4 hashed entries, 2 padding |
| `table_remove` | with `Remove` and `Clear`: the padding stays empty, answers are sound | 2 threads, 4 keys, all operations but `GetOrPut` |
| `disp_race` | only code of the location is run; L2 probe in bounds; L1 agrees with L2; dispatch ends | 1 writer, 1 guest, 4 keys, 2 + 3 L1 entries |
| `disp_full` | **violated**: the L1 probe leaves the table | 4 keys, 2 + 2 L1 entries |
| `cfg_pass` | back edges, dominators, marked edges, order on reducible functions; on all functions without an edge to the entry, no assertion fails and the pass ends | 4 blocks, 5 edges, block 1 may be unreachable |
| `cfg_entry` | **violated**: a climb that never ends | 4 blocks, 5 edges |
| `cfg_rpo` | **violated**: `blocks_rpo` is not a list of the order | 3 blocks, 3 edges |
| `kernel_sync` | both locks exclude and are handed on, no waiter is forgotten, priorities are inherited along chains, timers and flags are right, charges add up; waits for the light lock end and so do terminating threads | 3 threads, 1 mutex, 1 condition variable, 1 light lock, 5 calls, 1 control, limits 3 and 4 |
| `kernel_suspend` | **violated**: `Resume` suspends an owner that others wait for in the kernel | the same, two kinds of suspension, 2 controls |
| `ir_locals` | the pass keeps meanings, leaves no instruction reading a load it can bypass, keeps use counts and value map right and, where no flag is taken of a flag, the chains, run once or twice | 5 instructions and reading terminals, 2 locals, 2 blocks, 2 runs of the pass |

Why the bounds are enough to be interesting: three threads give a chain of owners
(one waits for the mutex of a second, which waits for the light lock of a third), an owner with
two waiters, and a waiter left behind at a hand-over. Five calls are two threads that
contend while a third waits and is signalled; limits 3 and 4 make a reservation wait
for one that exits. Five instructions hold a store, a load, a pseudo-operation on the load, another
store and a second reader, in one block or two, or a flag that goes through a local. Two objects give a list that can be
emptied, reordered and refilled (ABA needs two). With two hash bits keys 4
and 16 share entry 1, 8 has entry 2, and 12 and 24 share the last hashed entry, so that probes
collide, abort at the end of the hashed part, and, without the lock, go on to the padding (a
guest that looks for 24 where 12 is stored). `disp_race` has as many free L1 entries as keys: its L1 table
never fills, which is the case of `disp_full`. The real sizes are
2^18 and 2^23 and the padding is 10. Four blocks and five edges hold diamonds,
loops with a diamond, duplicate edges, nested loops and the smallest loop with two
entries that misleads the pass (0 -> 1, 0 -> 2, 1 -> 3, 2 -> 3 -> 1: the search takes an edge of
the loop for a back edge, and block 3 is entered with the wrong dominator; the
properties about dominators are therefore stated for `WellFormed` functions).
`MaxBlocks`, `MaxEdges`, `OrphanIds`, `NumExtern`, `MaxCalls`, `MaxControls`, `MaxInsts`,
`MaxOrder` and `MaxPasses` are the only bounds in guards.

Deadlock is checked for the slab heap. The table and dispatcher may really stop
(`abort()`, a thread stuck in `Replace`), the passes end, and the kernel's threads
end or have no call left to make.

**Fairness.** `table_map` assumes that a thread inside an operation keeps running
(an operating-system thread does; waiting for the lock is weakly fair only, and
the property is about its holder). `disp_race` assumes the same for guest threads.
`cfg_pass` assumes that the pass, a sequential loop, keeps running. `kernel_sync`
assumes that a thread that may run and is inside the kernel or has to leave keeps running,
and that a registered timer task fires or is cancelled; nobody is assumed to be resumed
(`Terminates` excepts threads that stay suspended, `LockGranted` does not). Calls
by the program are never assumed to happen.

## 5. Proofs

All theorems hold for any number of threads and any values of the other constants
that satisfy the named assumptions.

- `SlabProofs`, under `SafeDiscipline` (one allocating thread, or nobody frees):
  `SlabInvariant`, `SlabFreeListIntact`, `SlabOneOwner`, `SlabNothingLost`,
  `SlabAssertContains`, `SlabImplementsPool`.
  The inductive invariant adds to the list's shape what a thread in the middle of an
  operation knows: an object about to be popped is still on the list with the link
  that was read (`PopView`), and an object about to be pushed links to the expected
  head (`PushView`). Without `PopView` a successful exchange could install any
  word. `slab_aba` shows that the discipline is needed; `slab_one` checks its first case,
  and the second is proved only.
- `TableProofs`, under `NoRemoval` (no `Remove`, no `Clear`):
  `TableInvariant`, `TableChainIntact`, `TablePadIntact`, `TableImplementsMap`,
  `TableGetOrPutKeeps`; and, with removals and clears as well, `TablePadFree` and `TableLookupSound`. The invariant adds what a probe has
  passed (`Probing`), what a store in progress is about to complete (`Storing`), and
  that a free entry has no value unless such a store just wrote it (`FreeIsZero`).
  The refinement also needs that an unsuccessful probe means an absent key, which
  is where the end-of-table conditions of `Put` and `Lookup` have to agree, and that
  `GetOrPut` only ever stores into an entry without code.

- `DispatcherProofs`, under `NoRemoval`, on top of `TableProofs`: `DispatcherInvariant`,
  `DispatcherSound`, `DispatcherL2InBounds`, `DispatcherL1Coherent`. A guest reads an entry's two words
  without the lock and in either order, so the invariant says what each of its loads means
  later: an entry, once it has a key, keeps it; a value loaded before its key is code of the key the
  entry has, or will have once the store on its way to it is done (`Claimed`, `Loading`); what a guest
  has taken, and what its L1 entries remember, is code of its location, and for a location that is
  translated once the shared table has it (`Loaded`, `Remembered`). `L2InBounds`
  rests on the padding that no store reaches.

- `ThreadFacts`, `ThreadProofs`, `KernelLemmas`, `KernelSteps`, `LimitProofs` and `KernelProofs`, about the whole of `KernelSync`, for any number
  of threads, condition variables, programs, priorities, limits and timeouts:
  `KernelInvariant`, `KernelTypeOK`, `KernelPriorityInherited`, `KernelLightMutex`,
  `KernelMutexExclusion`, `KernelWaitersKnown`, `KernelNoOrphan`, `KernelCvFlagTrue`,
  `KernelTimersOfWaits`, `KernelChargesAccounted`, the action property `KernelReleaseWakes`
  and, for one kind of suspension (`OneKind`), `KernelOwnersRun`. The assumptions on the constants are
  those of the modules: finitely many threads, priorities that are natural numbers, terminating threads
  above all others, addresses of kernel and process disjoint, limits that leave room for the
  threads that exist.

  None of the properties is inductive. The invariant `Inv` has four parts:
  - `Trees` (in `ThreadFacts`): types; `m_num_kernel_waiters` is the number of a thread's waiters with a
    kernel address; a thread is in one tree at most and the order of insertion is a total order
    of the threads in trees, so that a tree with a thread in it has a front; chains of owners have at most two links
    and no cycle; every priority is the best of the thread's own and its waiters'.
    The last two need each other: without the bound on chains the loop of
    `RestorePriority` need not end, and without the priorities its early exit would be wrong.
  - `Spot`, for each thread: which of the waits it is in, given where it is in the code (`Place`), with whom
    as its owner and what the word of that lock says; that a lock's word names exactly the thread that is
    past `Lock`, in the section, or woken to enter it; that a timer task is that of a wait
    that goes on.
  - `CvFlag`: the word of every condition variable in whose tree a thread is.
  - `Account`: the values of the resource limit as cardinalities of sets of reservations and threads,
    `m_waiter_count` as the number of threads that wait or are to retry, and that a thread that
    releases holds something.

  `KernelOwnersRun` needs further that a suspended thread was asked to be and has no kernel
  waiters (`Susp`), which `Resume` breaks with two kinds of suspension (`kernel_suspend`); with
  one kind, withdrawing it leaves no flag.

  The modules are layered so that each proof sees only what it needs. `ThreadFacts` states, as definitions, what
  the operators of `KThread` that change trees and priorities do; `ThreadProofs` proves them (`ThreadFactsHold`);
  the lemmas of `KernelLemmas` and `KernelSteps`, one layer per handler, have `ThreadFacts` as a hypothesis where they
  use them; and `KernelProofs` discharges it, so that no theorem depends on it.

  The lemmas follow the code: one per operator of `KThread` (what it leaves alone, what it does to
  trees, counts and priorities), one per handler, one per call of the resource limit. The two loops
  are treated by induction over their turns, without an induction rule: the set of turns at
  which the claim fails would have a least element (`Least`, from the well-foundedness of the natural numbers).
  For `RestorePriority` the claim is that only the thread the loop has come to may have a wrong priority
  (`Climbing`), and that after as many turns as a chain has links it has come to nobody; for
  `Signal`, that after each turn the invariant holds with the word the loop has written so far and that the
  iterator is at the front of what is left of the tree (`Signalling`).
  TLC has checked `Inv` on the instance of `kernel_sync`.

Only model-checked: everything about the CFG pass and local elimination (their specifications
and references are recursive over graphs and instructions, which is out of the prover's
reach), and all liveness (fairness and `ENABLED` are out of its reach too): `LockReleased`,
`DispatchEnds`, `PassEnds`, `LockGranted`, `Terminates`.

## 6. Findings

Five runs end in a counterexample to what the repository's own comments and
assertions say: the ABA of the slab heap, the L1-full check that tests the wrong
word, the endless climb when a function
branches to its first block, the shared list node of the two block lists, and the
kernel's `Resume`, which suspends a thread that others wait for inside the kernel.
`PROJECT.json` quotes the lines.

## 7. Not modelled

The parts marked *none* above, for these reasons. Interface, translator, interpreter,
register allocation and CPU back ends have empty bodies. Pools and arena only ever hand out
fresh memory, in one thread. Code cache, memory maps, virtual vector and files are thin layers over
dlmalloc and the operating system, with no protocol of their own; host memory is so too on
POSIX, and its bookkeeping on Windows is left for later. Kernel initialisation runs once,
before there is anything to interleave with.

Of the modelled parts: destruction of the slab heaps; register saving, the halt word, the
return stack buffer and the interpreter bit of the dispatcher; a clear of the table seen half done; phis, removal of
instructions and renumbering of values (no caller); `RemoveEdge`, `MergeAdjacentBlocks` and
`SplitBlock`, which are empty. Of the kernel: creation, pinning and destruction of threads (so not
the `Release(1, 0)` of `KThread::PostDestroy`), a program's own `ExitThread` (threads leave when they are
terminated), cores and affinity, synchronization objects, address arbiters and IPC, `KResourceLimit::Add`,
memory of the process that is not accessible, and handles that name no thread. The
remaining libraries under `externals` are not part of this project.
