# MUT: verification project

MUT traces the memory management of a target program. It starts the target
under `ptrace`, plants breakpoints at the entries of `malloc`, `calloc`,
`realloc`, `free`, `cfree` and, optionally, of a usage function (`-U`), and keeps books of what the program
allocates and gives back. From the books it reports leaks (MLK), frees of
unallocated (FUM) and of already freed memory (FFM), writes outside an object
(WUM, with `-c`) and statistics (`-s`).

Paths below are relative to the repository. `mut.c` is `src/src/mut.c` here.

## Inventory

| component | state | operations | talks to |
|---|---|---|---|
| core handlers, `mut.c` | flags, statistics, hits per action | one handler per function: `mut_do_malloc`, `mut_do_calloc`, `mut_do_consumer`, `mut_do_realloc`, `mut_do_usage`; `mut_close` | resources, backtraces, process, logger |
| tracer loop, `mut.c` and `proc/ptrace/mut_process.c`, `mut_trace.c` | list of actions with the word each breakpoint replaced; `p->status`, `p->pc` | `mut_manage_actions`, `mut_run`, `mut_do_action`, `mut_process_resume/wait/breakpoint/restore/close` | the target, through ptrace and waitpid |
| x86 access, `proc/ptrace/arch/x86` | none | arguments, results, return address, program counter, skipping a function, walking the frames | the target |
| resource list, `resources/list` | linked list of resources, counts of active and consumed ones | create, look up, delete (really or by marking), iterate, close | backtraces, memory layer |
| backtraces, `backtrace/fixed` | entries and a reference count | open, enter, share, close | memory layer, executable reader |
| logger, `log/tty` | `logging`, `fatal_error`, `internal_error`, sink | start a message, add to it, end it | everyone |
| memory layer, `mem/debug`, `mem/vendor` | the blocks in use and the freed ones, counters for a report | malloc, realloc, free, close | backtraces, resources, reader |
| executable reader, `exec/elf`, `exec/mut_exec_symtab.c` | file, sections, symbol table | open, find functions, name an address, close | core, backtraces |
| counters, `counter`, `uint64` | none | add, subtract, compare, print | core, logger |
| user interface, `ui/tty` | options | parse arguments, `main` | core, logger |

Control flow: `main` opens everything and calls `mut_run`, a loop that resumes
the target and waits for it. On a breakpoint of an action the loop takes all
breakpoints out, runs the action's handler, and puts them in again. A handler
reads the arguments, perhaps changes them, and either *does the action* (plants
a breakpoint on the return address, resumes, waits, restores) or *skips* it
(`free` without `-f`). MUT is one sequential process; the other actor is the
target, with signals and its own exit, and MUT only ever sees it stopped.

What is hard here:

* text is patched a machine word at a time, and the original word is saved at
  each installation, so a wrong order saves a breakpoint as an instruction;
* the target can stop for a signal, exit or be killed between any two of MUT's
  steps, also in the middle of a handler;
* a handler looks a resource up, lets the target's allocator run, and then uses
  what it found;
* ownership of a backtrace moves between handler and resources along paths that
  can fail at each request;
* sizes, zones and addresses are computed in several places that must agree;
* `-f`, `-c`, `-z`, `-s` and `-b` combine, and most tests use one at a time.

* `main`, `mut_open` and `mut_process_open` undo what they did by labels, while
  the child they forked goes its own way with a copy of the log; the log's
  functions assert an order of messages that nobody enforces;
* counters and memory of the target are handled a word at a time, with carries
  and partial words.

`PROJECT.json` lists these as hazards, at their lines. Where the source has
several implementations of an interface, the project models the one
`src/src/Makefile` selects: `exec=elf`, `mem=debug`, `counter=uint64`,
`uint64=struct`, `proc=ptrace`, `resources=list`, `backtrace=fixed`.

The properties that make each component correct: *tracer loop* - breakpoints
are where the position in the loop implies, no call is missed, no stop is
forgotten, the end of the target ends the run. *Resource list* - it is a map,
counts agree with iteration, each backtrace reference has one owner.
*Handlers* - the books are the program's, faults are reported exactly when made,
the heap of the target is not damaged, the program gets the memory it asked
for. *Logger* - no message after a fatal one, no message inside another.
*User interface* - a command line means what the manual says; a fatal error
shows in the exit status; what was opened is closed, the process too.
*Memory layer* - its lists are the heap, its report adds up, misuse stops it.
*Executable reader* - what was opened is closed once, on every path; functions,
addresses and lines are found as the file has them.
*Counters* - what is printed is what was counted.

## Modules

**`MutProcess`** - the tracer loop and the target. MUT's state is its position
`mpc`, the loop index `k`, the list `root` of actions, the saved words `instr`,
the locals of `mut_do_action`, `p->status`, `p->pc` and `log->fatal_error`. The
target is its text (byte by byte, because a breakpoint is a word), whether it
runs, is stopped or dead, its position, EIP and its stack of return addresses.
Actions of MUT carry the names of the functions they model; loops over the
actions take one step per breakpoint, so that the target can be killed between
two. The target (external) calls, returns, moves, exits, is signalled and
killed. `mut_process_wait` is four actions, one per outcome of `waitpid`. A
handler is left open here: it fails, skips or acts.

**`MutProcessProofs`** - theorems about `MutProcess`, see below.

**`MutResourceList`** - the operations of the list and of the backtraces'
reference counts, as operators on a record `[elems, n_active_elems,
n_consumed_elems, ref]`. **`MutResources`** is the list as a component, under
the calls the handlers make of it. **`MutResourceMap`** is the abstract map
that `resources/mut_resources.txt` promises; `IsMap` says that the list
implements it under the refinement mapping `MapOf`. `Produced` and `Consumed` are
the assignments that `mut_resource_make_producer` and `mut_resources_mark_as_free`
make to a resource. **`MutResourceListProofs`** has the lemmas about the
operators, **`MutResourcesProofs`** the theorems about the component.

**`Mut`** - the handlers over `MutResourceList`. A call has three phases:
`call` (the handler reads and changes the arguments), `act` (the target's
function runs, external) and `exit` (the handler picks up the result). The
external allocator hands out any free block, or none; `heap` also knows
which words hold the zone value and whether anyone wrote outside live blocks or
passed the allocator an address that it had not handed out. `mut_process_memset`
and `mut_process_memcpy` write whole words, also for a last, partial one, and what
is outside is judged by what the allocator sets aside for a block (`Room`): whole
words if `PadsBlocks`, else no byte more than was asked for. `prog` is a history
variable: what the program holds, has freed and has overrun, from what it was
given and gave back, never from MUT's books. Properties compare the two.
Contents of memory are not modelled, only the zone words. Requests that fail
are `RequestFails` (the backtrace is closed) and `FailureLosesBacktrace` (the
paths on which it is not).

Simplifications of `Mut`: trace and usage output is left out; a backtrace that a
handler opens and closes without giving it away does not show; counters do not
wrap; a program passes `free` and `realloc` an address it was once given, 0 or
one that was never allocated; the allocator returns word-aligned blocks.
`TargetActs` is the function of the target that runs: it allocates, reallocates
or frees (`TargetAllocates`, `TargetReallocates`, `TargetFrees`), and damages the
heap if it is passed an address the allocator does not know.

**`MutProofs`** - theorems about `Mut`, see below.

**`MutExecSymtab`** - the symbol table as operators on a sequence of functions,
each with a sequence of lines. **`MutExec`** - the ELF reader over it.
`mut_exec_open` goes call by call, and by one header, symbol or stab in its
loops; `pc` is the next call, and afterwards the state of the executable. `mem`
says of every pointer to allocated memory, and of the file, whether it is not
assigned, 0, live, freed, freed twice, or freed before it was assigned. The
labels at the end of `mut_exec_open` are operators on `mem` that call each other
as the labels fall into each other. `slots`, `free` and `found` are the cached
section headers. Then `mut.c` asks for backtrace symbols and for its functions,
backtraces ask for addresses, and the executable is closed. A file is a sequence
of sections with a kind and contents; a test of its format that is not about
these, a seek, a read and a `malloc` fail by choice, as `Faults` allows. A name
is a base and a version, because `undesirable_suffix` cuts one off the other. A
value read before it is assigned is any value. A header read past the last slot
overwrites the reader, and the model ends there (`overrun`). The name of a
symbol or a section that lies outside its string table, which only a malformed
file has, fails the assertion of the lookup (`mut_exec.c:247`, `:605`), and the
model ends there too (`abort`).

**`MutExecProofs`** - theorems about `MutExec`, see below.

**`MutMain`** - one run of the program as a whole: `main` and
`mut_ui_process_args`, a letter a step; every function of the logger; the
opening and closing of the other components by `mut_open`, `mut_process_open`,
`mut_close` and `mut_close_on_error`; and the forked process, which until
`execv` is a copy of mut. `pc` is the call `main` is in, `msg` the message it is
writing, `open` what it has opened; `log` is `struct mut_log`. A message is
begun, continued and ended in steps of its own, and each can meet a write
error. What the components do in between is in their modules: here a handler
goes back, runs the target's function, reports, or fails in one of the ways the
handlers do. The target can stop for a signal of its own, which `ForwardSignal`
passes on and waits again; if the target was killed meanwhile, this fails with
`p->status` still running. `trouble` is a history variable: which of the four things
went wrong that the code does not expect: a write error, a failed `waitpid`, a
signal that could not be passed on, a failed kill. **`MutMainProofs`** - theorems
about it, see below.

**`MutMem`** - the debugging memory manager, a call a step, under a caller that
passes it what it holds (`held`) or something else (`wrong`). The C library's
`malloc` (external) returns any free address or none, for the block and for its
node. `lost` has the addresses whose `realloc` returned 0. **`MutMemProofs`** -
theorems about it and about `MutWords`, see below.

**`MutUint64`** - the pairs of words that count, with a word of `WordBits` bits:
the operators carry the names of `mut_uint64.c`, and the division by ten goes
through the nibbles as the code does. The steps are those of the statistics,
then a digit a step of the output. A variable that was never assigned has any
value of `Junk`, and so does the high word of a counter after a carry:
`StatsRight` says of the total that it is right for as long as the program has
not allocated more than a word counts, and of what is printed that it is the
counter; `TotalExact` would have the total right for good. Subtracting more than
is there fails an assertion (`mut_uint64.c:40`, `MayDec`). **`MutWords`** -
`mut_process_memcpy` and `mut_process_memset`, a word a step, any request
failing. A byte is the set of its one bits: memory begins with a mark of its own
in every place, so that a byte shows where it came from and what was or-ed to
it. `MCMutBase` checks these two and `MutMem` side by side.

**`MutSums`** - lemmas about sums over finite sets, for the proofs about space
and bytes, see below.

Definitions commented `Defect:` are wrong variants of the definition that
follows. Each shows that a property would notice that mistake; `PROJECT.json`
pairs them. They are part of no specification.

## Runs

| run | cfg | shows |
|---|---|---|
| process | `MCMutProcess.cfg` | `TextMatchesPhase`, `FetchesIntact`, `NoMissedCall`, `WaitPcIsInstruction`; under fairness `StopIsHandled` |
| process_adverse | `MCMutProcessAdverse.cfg` | `StatusAsserts`, and under fairness `ExitEndsRun`, with kills, foreign SIGTRAPs and failing `waitpid` |
| resources | `MCMutResources.cfg` | `CountsAreIterated`, and refinement of the map (`IsMap`), with and without `-f` |
| books | `MCMutBooks.cfg` | `BooksMatch`, `LeaksAreOwned`, `NoFalseReport`, `NoMissedFault`, `StatsMatch`, `FreedAsAsked`, `BacktracesOwned`, `AssertsHold`, `HeapUndamaged` |
| zones | `MCMutZones.cfg` | `-c` with overruns: `NoFalseReport`, `NoMissedFault`, `ObjectsFit`, `HeapUndamaged` |
| exec | `MCMutExec.cfg` | `FreedOnce`, `NothingKept`, `FirstOfEach`, `AddrNamed`, `FunctionsFound`, `LinesAttributed`; the last three compare with what is read off the file without the reader's steps |
| session | `MCMutMain.cfg` | `FatalMeansFailure`, `AbortsExplained`, `EverythingClosed`, `ArgsAsGiven`; the last compares with the meaning of a command line as a whole |
| base | `MCMutBase.cfg` | counters: `StatsRight` (`CountersRight`, `DigitsRight`) against integers, until a counter carries; copies: `WordsRight` against what the call asks for; memory manager: `BlocksMatch`, `ReportMatches` (that is `CallsMatch` and `BytesMatch`), `MisuseHalts` |
| realloc_freed | `MCMutReallocFreed.cfg` | violated: `NoAssertionFails` |
| exec_add_fun | `MCMutExecAddFun.cfg` | violated: `TableFreedOnce` |
| zero_bytes | `MCMutBaseZero.cfg` | violated: `FirstBytesSet` |
| total_carry | `MCMutBaseCarry.cfg` | violated: `TotalExact` |

Bounds. *Process*: words of two bytes, so that a breakpoint has a first and
another byte; three managed functions with adjacent entries and an alias, one
not found; a call site in the program and one in the library; an `int3` of the
target's own; calls nested three deep, so that an action is interrupted by
another call; `MaxEvents` signals. *Resources*: three addresses, so that a
deletion meets the first, a middle and the last element. *Books*: three blocks,
sizes that grow and shrink, four calls: enough for two live objects, one freed
and a fault about any of them; sizes 4 and 5, and 3 of `calloc`, so that a last
word is whole or partial, under an allocator that sets whole words aside.
*Zones*: the other allocator (`PadsBlocks = FALSE`), as with `-c` blocks are
asked for in words; words of five bits, and sizes 0, 3 and 4 around a multiple
of the zone size; `calloc` only of a size that is no multiple of the word,
because of the disagreement that `MCMutCallocZone.cfg` shows. `MaxCalls` bounds
calls only; overruns repeat without bound. *Exec*: every list of up to three
static and two dynamic symbols out of five and three, so that functions share
addresses and names, come in any order, have a version or no address;
executables with and without each section, with a section twice, with too many
headers, and files that are none; two lists of stabs with lines out of order and
at one address, before any function, and names out of range. Strings have
indices below `HalfRange`. Every call may fail. *Session*: command lines of up
to two options of up to two letters, out of two flags, one that takes a value
and one that is none, with and without a program: flags and values in any order,
repeated, empty and misplaced; two messages about the program (`MaxMessages`),
so that one can follow another and a fatal one can follow both; every kind of
fault. *Base*, of which each behaviour is of one part: four addresses, enough
for two live blocks, a freed one and one on the way; three calls each of free
and realloc; `malloc` is bounded by the addresses, for none is used twice;
counters with words of three nibbles, the fewest in which the division's mask
widens past two; every counter whose nibbles are 0, 9 or 15, so that remainders
of all sizes and rows of zeroes occur; two objects at a time of three in all, so
that a maximum is passed, left and passed again. Run total_carry begins with a
total of 0, as a run of mut does, and the three objects are more than a word of
12 bits counts. Words of four bytes, as on x86, four of them, and two calls, of
each number of bytes over a word.

Fairness. `FairSpec` of `MutProcess` has weak fairness of `MutStep`: MUT is a
sequential program that blocks only in `waitpid`, and a step of it that is
enabled stays so until taken or until the target dies, when another one is. The
target owes nothing: it may run for ever, and both liveness properties start
from a target that is stopped or gone. The other modules are checked for safety
only; their loops are over finite lists.

## Where the code disagrees with its documentation

The four violation runs are findings in `PROJECT.json`. Further configurations
reproduce other disagreements that were met while modelling; each checks one
property that TLC refutes:

| cfg | property | what happens |
|---|---|---|
| `MCMutCallocZone.cfg` | `NoFalseReport` | `mut_do_calloc` puts the second zone a word behind where `mut_zone_check` looks, if the size is a multiple of the word: freeing the object reports WUM |
| `MCMutExecStripped.cfg` | `BacktraceNeedsSymbols` | `has_full_symbols` is never set to 0, and `-b` can stay on for a stripped file (`mut.1:39` says it cannot) |
| `MCMutMainLost.cfg` | `ChildHeard` | `execv` fails in the child: with `-o` its message is in a buffer that `_exit` drops (`mut_process.c:36`), where `mut.1:59` has all messages go to the file |
| `MCMutMainFull.cfg` | `NoAssertionFails` | after a write error the next message fails the assertion on `internal_error` (`mut_log.c:84`) |
| `MCMutBaseRealloc.cfg` | `NoFalseHalt` | a `mut_mem_realloc` that returns 0 has taken the old block away (`mut_mem.c:152`), and freeing it halts; `mut_mem.txt:5` promises the semantics of `realloc` |
| `MCMutBaseCopy.cfg` | `FirstBytesCopied` | the last, partial word of a copy is or-ed with what was there, at its first bytes |
| `MCMutHits.cfg` | `HitsCountCalls` | `realloc` of an unallocated address without `-f` is counted twice |
| `MCMutReallocZone.cfg` | `NoFalseReport` | `realloc` installs no zones (`#if XXX`), so freeing its result reports WUM |
| `MCMutReallocCheck.cfg` | `NoMissedFault` | `realloc` does not check the zones, `mut.1` says that it does |
| `MCMutZeroFreed.cfg` | `HeapUndamaged` | `-f -z` zeroes the old object after `realloc` freed it |
| `MCMutWrap.cfg` | `ObjectsFit` | with `-c` a size near the end of the word wraps in `mut_round_up` |
| `MCMutLostBt.cfg` | `NoLostBacktrace` | failure paths that lose a backtrace |
| `MCMutResourcesNoBt.cfg` | `IsMap` | without `-b`, `mut_resource_is_new` is true of every resource |
| `MCMutProcessKill.cfg` | `NoLogAfterFatal` | a target killed while stopped: an info message after a fatal one |
| `MCMutProcessSigchld.cfg` | `CloseNotRunning` | `waitpid` fails, and `mut_process_close` asserts |
| `MCMutProcessTrap.cfg` | `WaitPcIsInstruction` | a SIGTRAP from outside moves the program counter back by one |
| `MCMutExecSlots.cfg` | `SlotsSuffice` | with `.dynsym`, `.plt`, `.stab` and `.symtab` found and a header left to read, it is read past `mut_exec_reader_sections_max`; the loop's other slip, never to read the last header, hides this where only `.strtab` follows `.symtab` |
| `MCMutExecRange.cfg` | `AddrCovered` | an address behind the last function is said to be in it |
| `MCMutExecAlias.cfg` | `AliasesFound` | a function's second name at an address is not found |

Three more are variants of a configuration. `MCMutExecAlias.cfg` with the
invariant `FileNameAssigned`: the file name of a function without stabs is not
assigned when it is logged. `MCMutMainFull.cfg` with `Faults = {}`: the target
is killed after it stopped for a signal, passing that on fails, and
`mut_process_close` asserts that the process is not running
(`mut_process.c:265`). `MCMutBooks.cfg` with `PadsBlocks = FALSE` violates
`HeapUndamaged`: the last word of an object is zeroed or copied whole
(`mut_process.c:216-225`, `:250-256`), behind a block whose size is no multiple
of the word if the allocator sets no whole words aside.

Another three are variants of `MCMutHits.cfg` that differ from it in the flags, the
functions and the property, with `MallocSize = {4}` and `MaxCalls = 4`:

| `FlagChoices`, `Function` | property | what happens |
|---|---|---|
| no flags; `malloc`, `realloc` | `WarningsAreNotFatal` | the target's `realloc` returns 0: mut logs the warning RR0 and ends its run, where the comment (`mut.c:828`) says that it "simply logs a warning" |
| `check`, `free`; `malloc`, `free` | `HeapUndamaged` | `-c -f`: the target's `free` is given the address behind the first zone, which its allocator never handed out |
| `free`, `backtrace`; `malloc`, `free`, `realloc` | `NoAssertionFails` | after a faulty `realloc` with `-f`, an allocator that hands out a live address fails the assertion in `mut_realloc_malloc`, where `mut_malloc_success` reports MMM |

This is why the passing runs leave out `realloc` with `-c`, `-f` with `-c` or
`-z`, sizes that wrap, and, for `WaitPcIsInstruction`, foreign SIGTRAPs.

## Proofs

### The tracer loop

`MutProcessProofs` proves, for every text, word size, set of functions and
aliases, call depth and number of signals, and for the original specification
without fairness:

* `TracerInvariant`: `Spec => []IInv`;
* `TracerTypes`, `TextIsKept`, `StatusAssertsHold`, `WaitReportsInstruction`,
  `NoDamagedFetch`: the invariants `TypeOK`, `TextMatchesPhase`,
  `StatusAsserts`, `WaitPcIsInstruction`, `FetchesIntact`;
* `NoCallEscapes`: the action property `NoMissedCall`.

Assumptions: those of `MutProcess` (entries, call sites and the other
instructions at which the target is observed are at least a word apart, and the
text contains them), and `NoStray`: the target gets no SIGTRAP other than from
an `int3`, which the run of `MCMutProcessTrap.cfg` shows to be needed.

`TextMatchesPhase` is not inductive. Restoring a breakpoint gives the loaded
text back only if the saved word is the loaded one (`SavedIsOriginal`), which
holds because no two actions share an address (`DistinctActions`), so that no
word is saved with a breakpoint on it. The return address of an action must not
be a managed entry, and the target must be stopped on an instruction with a
return address on its stack (`TargetOnTrack`, `TargetMoves`). The lemmas on
`Poke` and `Peek` say what planting and restoring do to `TextWith`, the text
with breakpoints at a set of addresses; the invariance proof has a step per
action that cites them. `FetchesIntact` and `NoMissedCall` follow from the
invariant.

### The executable reader

`MutExecProofs` proves of `MutExec`, for every set of files, number of slots and
set of failures:

* `TypeOKHolds`, `FreedOnceHolds` and `NothingKeptHolds`: the invariants
  `TypeOK`, `FreedOnce` and `NothingKept`;
* `FirstOfEachHolds`: the section pointers point to the first section of their
  kind among the headers read so far (`FirstOfEach`);
* `AddrNamedHolds`: an address is named by the function that starts closest
  before it, and that by the first of its names in the order in which they are
  read (`AddrNamed`);
* `FunctionsFoundHolds`: every name is found at the lowest address whose first
  name it is, or not at all (`FunctionsFound`);
* `LinesAttributedHolds`: the line and the file of an answer are those of the
  stabs of its function (`LinesAttributed`), if the indices of the file names
  are below `HalfRange` (`ShortStrings`). The code cuts such an index to 16 bits
  (`mut_exec.c:47`) and beyond them names another file, so that the hypothesis is
  needed; the executables of run exec meet it;
* `TableFreedOnceHolds`: if the nodes of the table get their memory, the table
  is freed once too, so that the failure shown by run `exec_add_fun` is the only
  cause.

The inductive invariant `Ledger` lists for each point of `mut_exec_open` the
pointers that are not assigned, live or released there; neither property is
inductive without it, since whether a label is right depends on where it is
reached from. `Labels` computes what each label releases with those it falls
into, and `Release` says that releasing exactly what is live ends with nothing
live and nothing freed twice. `Control` adds that the stabs are read only if
there are some, which the end of `mut_exec_open` relies on.

For the answers the invariants follow the loops, and say of each what its
rounds so far have made of the part of the file they have read:

* `Located`: the cached headers and the section pointers, for the loop over the
  headers; after it a section that was found has been read from its header;
* `Tabled`: the table is sorted, has no address twice, and has exactly the
  addresses of the functions read so far (`KnownFuns`), each with the first of
  its names (`Contents`). A dynamic symbol is placed in `.plt` by the number of
  functions before it, and `Counted` says that `f` is that number;
* `Answered`: what was asked was answered from the complete table. `AddrNamed`
  needs the table sorted, since `Covering` looks for the last function that
  starts at or before an address;
* `Looping`: `base` and `fn` are the address of the last function and the file
  among the stabs read so far;
* `Lined`: every function in the table has the lines of those stabs that are
  its own, sorted, and those at one address in the order in which they came.

Assumption: addresses and offsets are natural numbers (`FilesAssumption`). The
lemmas about `Place`, `Covering` and the insertion into a sequence are proved
from `SequenceTheorems`; loops need no induction here, each round being a step
of the specification.

### The memory layer

`MutMemProofs` proves of `MutMem`, for every set of addresses and sizes and any
number of calls:

* `BlocksMatchHolds`: the two lists together are the blocks the C library has
  handed out, no block is on both or twice, and the list in use is what the
  caller holds;
* `ReportMatchesHolds`: what `mut_mem_close` reports is right: the calls account
  for the blocks, the bytes in use and allocated are the sums of their sizes, the
  maximum is between the two, and its assertions hold (`ReportMatches`);
* `CallsMatchHolds`: the calls that are counted account for the blocks;
* `MisuseHaltsHolds`: the program is stopped at every free or realloc of an
  address that it does not hold, and for no other reason but a realloc that
  failed.

Assumption: the addresses are finitely many and sizes are natural numbers
(`MemAssumption`). The argument: `Sound` says of a store and a heap that they
agree, and `EnterSound` and `RetireSound` that the two steps all calls are made
of keep it, with what they do to each counter; a realloc is the one after the
other. The inductive invariant adds that a lost address is on the freed list:
without it a `malloc` could return one, and the caller would hold it again.
The byte counts are sums over a set of blocks, which `EnterSound` and
`RetireSound` change by one block: `SumWith` and `SumWithout` of `MutSums` say by
how much.

What a fold over a set computes takes an induction on the set, and the induction
theorems of the library are beyond the installed provers. `MutSums` goes around
them: `Smallest` says that of some sets of numbers, by the well-foundedness of
the order, one is the least, and `SmallestSet` that a claim that fails for a
finite set fails for a set all of whose proper subsets it holds for. The claim
that a sum is that of a smaller set and one element (`SumStep`) is proved from
these.

### The words of a copy

`MutMemProofs` also proves of `MutWords`, for every size of a word and of the
memory, every length and any number of calls:

* `WordsRightHolds`: however far `mut_process_memcpy` or `mut_process_memset`
  has come, and at whichever request it failed, what is done is right and the
  rest is untouched (`WordsRight`).

`WordsRight` alone is not inductive: that a byte copied is the one wanted needs
that `src` and `dest` are equally far from where the call began and that the
source has not been written to. `Underway` says so: the words that are left
(`nwords`) take both to the end of the whole words, and source and destination,
rounded up to words, do not overlap, which is the precondition of the code.
`LengthIs` relates the two ways the code rounds a length, down for the loop and
up for the space it needs. `MutMem` and `MutWords` share nothing; the theorems
are of the one specification or the other.

### A run of the program

`MutMainProofs` proves of `MutMain`, for every set of command lines, any number
of messages of the handlers and every set of faults:

* `SessionInvariant`: `Spec => []IInv`;
* `FatalMeansFailureHolds`: after a fatal message the program does not exit
  with success, and it does so only when the target has exited;
* `AbortsExplainedHolds`: an assertion of the log or of `mut_process_close`
  fails only after a write error, a failed `waitpid`, a signal that could not be
  passed on, or a failed kill;
* `EverythingClosedHolds`: when `main` returns nothing is open, and no target is
  left unless `waitpid` has failed;
* `ArgsAsGivenHolds`: the command lines that `mut_ui_process_args` accepts are
  the well-formed ones, and their flags and values are those that are given.

Assumption: what the faults are drawn from, what a command line is, and that no
letter is a flag and a value (`MainAssumption`). The invariant
follows the place `main` is at: `OpenInv` says what may be open there,
`ProcessInv` what `p->status` and the process are, and `LogInv` that a fatal
message leads to the paths that end in failure, where nothing more is said but
that the target could not be killed. The last is what `AbortsExplained` needs: a
second message after a fatal one is an assertion, and only the kill can be the
cause of one. `ProcessInv` has `p->status` running on the way to `mut_process_close`
only after a failed `waitpid` or a signal that could not be passed on.

`ArgsAsGiven` has an invariant of its own, `ArgsInv`. Before the argument and the
letter `main` looks at, all are as they should be (`Passed`, `ReadSoFar`), and
the flags and values are those of the arguments passed and of the letters read
in this one (`Told`). A value can only be the first letter of its argument; that
no letter is a flag as well is what keeps `Told` right at the end of one.

### The list

`MutResourcesProofs` proves of `MutResources`, for every set of addresses, sizes
and actions, any number of backtraces, and with and without `-f`:

* `ListInvariant`: `Spec => []IInv`;
* `TypeOKHolds`, `CountsAreIteratedHolds`, `BacktracesOwnedHolds`: the
  invariants of those names;
* `ListIsMap`: with backtraces (`Backtraces = TRUE`) the list implements the map
  of `resources/mut_resources.txt`, that is the property `IsMap` of the run: the
  empty list maps to the empty map, and every action to the map's or to a
  stutter.

Assumptions: the sets are what they are meant to be and no action is called
`NoAction` (`ActionAssumption`). The invariant is `Balanced`, that the two counts
and each backtrace's references are the numbers of resources of each kind, and
`DistinctIn`, that no address is on the list twice, and `Good`: with backtraces
every resource between two calls has one of its producer, one that is in use has
none of a consumer, and with `-f` all are in use. Deleting needs `DistinctIn`:
`mut_resources_really_delete_resource` unlinks the first resource with the address,
which is only then the one that was meant. Creating needs `Good`: that a resource has
no backtrace is how `mut_resource_is_new` tells a new address from one that is
taken. Without backtraces it cannot, the refinement fails, as
`MCMutResourcesNoBt.cfg` shows, and `ListIsMap` assumes them.
`Number` counts the places of a list whose resource is in a set, and the lemmas
`NumberPrepend`, `NumberReplace` and `NumberRemove` of `MutResourceListProofs`
say what the three ways to change a list do to it; `CreateBalanced`,
`ProduceBalanced`, `MarkBalanced`, `UnlinkBalanced` and `ReplaceBalanced` say
what the operations do to a balanced list, and are what the proofs about `Mut` cite.

### The handlers

`MutProofs` proves of `Mut`, for every set of functions, blocks, sizes and stray
pointers, any number of calls, with overruns, failing requests and an allocator
that hands out any block it likes once the heap is damaged:

| theorem | property | for |
|---|---|---|
| `HandlerInvariant` | `Spec => []IInv` | all flags |
| `TypeOKHolds` | `TypeOK` | `Supported` |
| `BacktracesOwnedHolds` | `BacktracesOwned` | `Supported` |
| `AssertsHoldAlways` | `AssertsHold` | `Supported` |
| `BooksMatchHolds` | `BooksMatch` | `Sensible` |
| `LeaksAreOwnedHolds` | `LeaksAreOwned` | `Sensible` |
| `ObjectsFitHolds` | `ObjectsFit` | `Sensible` |
| `FreedAsAskedHolds` | `FreedAsAsked` | `Sensible` |
| `StatsMatchHolds` | `StatsMatch` | `Sensible` |
| `ZonesHold` | `Zoned`, `Said` | all flags |
| `NoFalseReportHolds` | `NoFalseReport` | `Sensible`, `Checkable` |
| `NoMissedFaultHolds` | `NoMissedFault` | `Sensible`, `Checkable` |
| `HeapUndamagedHolds` | `HeapUndamaged` | `Sensible`, `ZeroesInTime`, `WritesInRoom` |

The hypotheses are about the flags, and leave out what the table of
disagreements shows to go wrong. `Supported`: `realloc` is used with `-f`, or
else without `-c` and with an allocator that sets whole words aside
(`PadsBlocks`); without `-f` `realloc` enters a resource without asking whether
the address is new, and nothing but an undamaged heap keeps it apart from the
others, while with `-c` the program may write over the words next to its
objects, and the object is copied in whole words. `Sensible`: `-c` is not given
with `-f`, and the sizes asked for with it leave room for the zones in a word
(`MCMutWrap.cfg`). `ZeroesInTime`: `-z` is not given with `-f` if the program
uses `realloc` (`MCMutZeroFreed.cfg`). `WritesInRoom`: the allocator sets whole
words aside, or they are asked for, as `-c` does, or nothing is zeroed (`-z`) or
copied (`realloc` without `-f`). `Checkable`: with `-c` the program does not use
`realloc`, which neither checks nor installs all the zones
(`MCMutReallocCheck.cfg`, `MCMutReallocZone.cfg`), and `calloc` for no size that
is a multiple of the word, whose second zone is not where it is looked for
(`MCMutCallocZone.cfg`). The runs books, without `-c`, and zones meet all five.
The properties that say `Undamaged` promise nothing once the program has damaged
its heap; `TypeOK`, `BacktracesOwned` and `AssertsHold` hold then as well.

None of these is inductive. The invariant `IInv` has eight parts:

* `Typed`: the types of all but the list;
* `Called`: while a handler is at work `call` is the call the program made, and
  if something is expected to be said of it the program is at fault;
* `Taken`: which of the seven ways (`h.path`) goes with which function, flags and
  arguments. What the handler does at the exit of the function depends on what
  it decided at the entry;
* `Lists`: the list is balanced, counting the one backtrace the handler holds, no
  resource is kept deleted with `-f`, and the resource that `realloc` found is still the
  one at its address after the target ran. It holds on a damaged heap too, but
  for `realloc` without `-f` (`Kept`);
* `Books`: on an undamaged heap the list is the program's holdings (`Ledger`) at
  *every* point of every handler, not only when the program runs;
* `Reports`: what was said of the call is what is expected to be said;
* `Worded`: with `-c` blocks are asked for in words, so that the last word of an
  object is the block's;
* `Unharmed`: a damaged heap is the program's fault.

On it stand two more layers. `Tallied`, for `StatsMatch`: the peaks of the
program are right (`Peaks`), and while `-s` is given and the heap is undamaged
the counters are the space and the number of what the program holds, and the
most there was of it. The space is a sum over the objects; `MutSums` says what
an object more, less or of another size does to it. While `free` or `cfree` is at
work the counters are ahead of the program: the object is off them already
(`Held`).

`Zoned` and `Said`, for the reports with `-c`: around every object the program
holds are two words that hold the zone value exactly as long as it has not
written there, and nothing else is in the object's block (`ZonesKept`,
`Fenced`). That nobody else writes there is where `Ledger` is needed: blocks do
not overlap, and the words an object is copied to, zeroed in or fenced with are
in its own. `Said` then says that what was reported of the call is what is
expected. Neither needs `Checkable`, they say nothing if it fails (`Covered`).

`Ledger` is where the handlers' order matters. An object that `free` is about to
be run with is off the list while the program still has it (`Held`). A block that
the function has just returned is live and on no resource yet (`GainKept`). An
object that the target's `realloc` moved is on the list at an address that is no
longer its own, and that may be free, until the resource follows
(`HomesKept`, `Left`). An address that was freed can be live again only as the
block just returned (`FreedKept`). With `-c` an object begins a word behind its
block, so that blocks are kept apart by more than their size (`BaseApart`).

The proof has a lemma per part and action, and each part may use the others
before the step: `LedgerStep` needs `Lists` to say what the list operations do,
`Lists` needs `Books` to know that a new address is new, and `Unharmed` needs both
to know that what is written lies within a block. `EntryLedger`, `TargetLedger`
and `MadeLedger`, `MovesLedger`, `CopiesLedger`, `PlainLedger` follow a call
through its three phases.

### Only model-checked

* Liveness of `MutProcess`: the prover has no rule for fairness with `ENABLED`.
* The counters of `MutUint64` (`StatsRight`): what its division by ten computes
  is a recursive function over the chunks of a word, in powers of two, for which
  the provers have no rules.
* The properties that the code violates, by the configurations above.

## Not modelled, and what could follow

Done: everything the default Makefile builds, but for the following.

* The walk of the frames in `mut_process_function_backtrace` and the entries of
  a backtrace: the handlers' model has a backtrace as an owned thing, and no
  property is about its contents.
* Trace and usage output, and the wording of messages.
* `mut_mem_log` and `mut_mem_report`, which set a stream.
* The tree of `resources/avl`: an alternative to the list that no Makefile
  selects.
* The a.out reader (`mut_opt_exec=aout`), MIPS, SPARC and `/proc` variants:
  alternatives for platforms other than the one modelled, with the interfaces of
  the modules here.
* `mem/vendor`, `uint64/longlong`, `counter/ulong` and the wrappers of the C
  library rename what the compiler or the library has.
* The tests and `misc` are target programs and stand-alone experiments.

A theorem that could follow: that the counters of `MutUint64` are right until a
carry (`CountersRight`), from facts about powers of two.
