# FemurOS in TLA+

FemurOS is a small single-processor kernel for i386: a round-robin scheduler
with timer pre-emption, numbered rendezvous channels, a PS/2 keyboard driver, a
heap, paging, and three programs on top (`kernel_main`, the shells with their
commands, and a snake game).  This directory holds TLA+ models of it, the TLC
configurations that check them, and TLAPS proofs about the scheduler, the
channels, the keyboard driver and the page directories.  Paths below are relative
to `src/kernel/`; `PROJECT.json` gives the source lines every definition stands for.

The repository has no tests.  What the code is meant to do is taken from its own
comments (most are French; they are quoted where a property rests on them).

## 1. Inventory

### Scheduler and processes: `kernel/kernel.c`, `include/kernel.h`, `arch/i386/multitasking.s`, `arch/i386/isr.c` (isr32)

*State*: the run queue (a circular list through `next`/`prev` of
`struct process`), `currentProcess`, `processesList`, `maxId`,
`preventTaskSwitch`, per process a state, an id (a `char`), the quantum
`slicesLeft` and a saved stack pointer.
*Operations*: `newProcess`, `exit`, `switchToNextTask`, `onTimerInterrupt`, and
inside them `insertProcess`, `delCurrentProcess`, `switchTaskWrapper`,
`switchTask`.
*Hard*: every process calls these with interrupts enabled.  The only guards are
`preventTaskSwitch` around two assignments of `delCurrentProcess` and the `cli`
of `switchTaskWrapper`, which comes after `currentProcess` has been stored.
*Correct when*: the processes that can run form one ring that contains the
process on the CPU; a waiting or ended process is never in it; a process is
resumed on its own stack; ids index `processesList`; everybody in the ring gets
the CPU.

### Channels: `kernel/kernel.c` (send, receive, probe)

*State*: per channel `Unused`, `Sender` or `Receiver`, the sender's id, the
value, and a list of waiting receivers.
*Operations*: `send` blocks on an unused channel, wakes the **last** receiver of
the list and switches to it, or returns -1 when another sender waits; `receive`
blocks, or wakes the sender and keeps the CPU; `probe` reads the state.
*Hard*: the value stays in the channel and the receiver reads it after a context
switch; the channel's state is published before the list exists; nobody looks
at the result of `send`.
*Correct when*: channel and waiting processes agree on who waits for what, each
value reaches exactly one receiver, nobody who waits is forgotten.

### kernel_main, shells, commands, games: `kernel/kernel.c`, `modules/shell.c`, `modules/screen.c`

Processes that communicate only through channels: 0 stops the console on the
screen, 1 carries the answers to `kernel_main` *and* the three messages
(function, arguments, shell) of every new command, `id` starts shell `id`,
`10+id` takes the reports of its commands, 42 asks for a game, 43 shows it.
*Hard*: a console switch in the middle of a command's handshake, of a wait or of
a report; reports that do not say whose they are and can be refused; the
process of the games exists once, the consoles are many.
*Correct when*: one console at a time reads the keyboard and draws; a command
gets the function, arguments and shell that were meant for it; switches end and
prompts come back.

### Keyboard driver: `arch/i386/keyboard.c`, `arch/i386/isr.c` (isr33), `kernel/time.c`

*State*: `pressedKeys`, `keyTime`, `buffer` (`buffer[0]` is the count).
*Operations*: `isr33` reads the data port three times and calls `translate`,
which calls `write`; `getChar`, `addBuf`, `delBuf`, `flushBuf`, `getKey`.
*Hard*: bytes that arrive late or twice, a debounce of two ticks, `getChar`
racing with the handler, modifiers.
*Correct when*: `pressedKeys` is what the user holds, a key types the character
of its level, a key is read once.

### Heap: `lib/src/kmalloc.c`

*State*: the memory from `heapBottom` to `heapTop`, the free list through its free
blocks, `freeListQueue`, 32 `entryPoints`, `lastAddr`.
*Operations*: `kmalloc` (first fit from the class below, split), `kfree` (joins
with both neighbours), `kmalloc_align`, `sbrk`.  `brk` and `krealloc` are not used.
*Hard*: three structures in one memory (tags, links, entries), each kept by every
path; `modules/shell.c:26` says "le free fait parfoit crash l'os".
*Correct when*: no word has two owners, data stays, the free list is the free blocks
in order, and the heap grows only when it must.

### Python-like lists: `lib/src/list.c`

Chained arrays of doubling size on the heap: `empty_list`, `len`, `get`, `append`,
`pop`, `delList`.  Correct when a list is a sequence, whatever others allocate.

### Frames and paging: `lib/src/bitset.c`, `arch/i386/paging.c`, isr14

*State*: a bit per frame, the place the search goes on from, page directories.
*Operations*: `findFirstClear`, `alloc_page`, `newPageDirectory`, `initPaging`, the
handler of page faults.  `freePageDirectory` and `clearBit` are not used.
*Hard*: `initFrame` allocates `size/32` *bytes* for `size` bits; `alloc_page` looks at
the wrong page of a table; isr14 allocates in the wrong directory.
*Correct when*: no frame is mapped twice, and every process has its stack.

### Command line: `modules/shell.c` (makeTree, parseArgs, calc)

A prefix tree of names, an indexed scan of the line by character, an array of
arguments in the order `include/shell.h` describes.  *Hard*: indices that skip one
character too many or too few, options in another order than declared, twice, or
without a value.  *Correct when*: a line that fits the declaration of its command is
parsed as the convention says, and calc computes what it says.

### Console and terminal: `modules/shell.c` (exec_shell), `kernel/terminal.c`

The line is kept twice: in a list and on the screen, behind a prompt and before a
cursor that blinks.  *Hard*: wraps, backspaces at the start of a row, reports and output
of commands that end later, and the saving and loading of the screen.
*Correct when*: what is on the screen is the line.

### Boot: `kernel/kernel.c` (initKernel), `arch/i386/cpu_init.c`, `arch/i386/keyboard.c`

Polling of a PS/2 controller and a keyboard that may be late, ask again, or not be
there; then paging, then `freeze` until a key is hit.  *Correct when*: the boot gets
through, and finds a keyboard that answers.

### Interrupts, PIC, PIT, multiboot, GDT, IDT, printf, random

Port output and tables in straight lines; formatting; a generator.  The interrupts
of the timer and the keyboard, page faults and divisions by zero are in the models.

## 2. Modules

| module | models | lines of code it stands for |
|---|---|---|
| `Ring` | `insertProcess`, `delCurrentProcess` as functions on link fields; what a ring is | kernel.c 88-100 |
| `Rendezvous` | **abstract**: what channels promise, without scheduler or lists | - |
| `Kernel` | scheduler and channels, one call per step | kernel.c 17-217, isr.c 183-187 |
| `KernelPreempt` | the same calls statement by statement, with timer interrupts between statements | the same, multitasking.s |
| `PreemptRefinement` | `KernelPreempt` without interrupts inside calls implements `Kernel` | - |
| `Shells` | `kernel_main`, shells, commands, games on top of `Kernel` | kernel.c 213-293, shell.c 15-58, 97-103, 306-413, screen.c 48-147 |
| `ShellsProgress` | `Shells` with fairness, and what must eventually happen | - |
| `Keyboard` | driver, interrupt handler, controller, a reader | keyboard.c 26-775, 777-1261, isr.c 188-195 |
| `Heap` | the allocator, as operators on a heap | kmalloc.c 6-158, 176-179 |
| `Lists` | the lists, as operators on the same heap | list.c |
| `Memory` | blocks, page tables, lists and sprintf sharing one heap | printf.c 117-191, and the two above |
| `Terminal` | cells and cursor, as operators | terminal.c |
| `Console` | one shell at its console, its commands, switches | shell.c 15-37, 314-413 |
| `CommandLine` | prefix tree, `parseArgs`, calc | shell.c 64-96, 123-319, printf.c 102-115 |
| `Ps2` | initialisation of controller and keyboard | cpu_init.c 106-139, keyboard.c 72-111 |
| `Paging` | frames, directories, page faults | bitset.c, paging.c 22-83, isr.c 91-97 |
| `Boot` | `initKernel`: `Ps2`, then `Paging`, then freeze and processes | kernel.c 61-86, 213-219, keyboard.c 112-115 |
| `RingProofs`, `KernelProofs`, `PreemptProofs`, `ShellsProofs`, `KeyboardProofs`, `BootProofs`, `ConsoleProofs`, `CommandLineProofs` | proofs | - |
| `MC*` | instances for TLC: symmetry, views | - |

    Rendezvous <== Kernel <== PreemptRefinement (KernelPreempt + history)
                     ^
                     | EXTENDS: every step of a program is an action of Kernel
                   Shells <- ShellsProgress

    Heap <- Lists <- Memory        Terminal <- Console        Ps2, Paging <- Boot

### Kernel

A kernel call is one action of the process on the CPU.  A process that is
switched away is suspended in the middle of its call; `call[p]` is that part of
its stack, and `SwitchTo` finishes the call of the process that gets the CPU:
`receive` reads the channel's value field *then*, not when the send happened.
The quantum, its refill (only in `TimerSwitch`, as in the code) and boot ticks
below zero are kept.  `exit` keeps the block and the state field, as the code
does.  Ids go through `ToChar`.  Priorities and parent ids are stored by the code
and never read.  `probe` changes nothing and appears where programs use it.

`LastMayBlock` says whether the only process of the ring may make a blocking
call.  `delCurrentProcess` then unlinks nothing and `switchToNextTask` comes back
to the same process at once.  The theorems about `Kernel` assume the constant is
FALSE; `shells_switch` allows such calls and shows that, in the system as it is when the
games are left alone, `WaitingProcessDoesNotRun` holds all the same, because no
process ever blocks while it is alone, which `ShellsProofs` proves; section 5 names
the case in which `kernel_main` does.

### KernelPreempt

`code[p]` is the list of statements that process `p` has still to execute,
`local[p]` its arguments and locals, `onCpu` whose stack the CPU's stack pointer
is in.  `switchTask` saves that pointer in the control block of its first
argument and loads the second's, as the assembly does, so resuming on a wrong
stack is a state the model can reach.  `TickPoints` is the set of statements
before which a quantum may end; the code excludes none of them, and one
instance opens one set of windows.  The compiler may drop the store of TRUE to
`preventTaskSwitch` (it is not volatile and nothing reads it before the next
store), so that statement is a choice.

What opening each window does, alone, while the others are closed (three processes; the
statements are named as in the module, the number is the line of kernel.c):

| quantum ends before | effect |
|---|---|
| `return`, `numberIt` 106 | nothing: proved for any number of processes, with the windows of the next row open as well |
| `readNext` 130, `permit` 99, `readValue` 179 | a later send can overwrite a value before it is read; ring, lists, ids and stacks stay intact (proved as well) |
| `appendIt` 114 | another creator lists its process first: ids and list disagree, and send wakes the wrong process (it takes 4 processes to see) |
| `testEmpty` 150, `resetChannel` 151, `passValue` 146, `popWaiter` 147, `wake` 148, `linkOut` 89, `appendWaiter` 168 | the channel no longer is what the call has found it to be: two senders pop one list, or a process is inserted or listed twice; `CallsAreSane` fails |
| `newList` 167, `setCurrent` 123 | a receiver that queued meanwhile is on a list that is thrown away; the process read from the ring has left it meanwhile and runs all the same; `CallsAreSane` fails |
| `freeList` 152 | the channel is `Unused` already: a receiver that takes it meanwhile makes a list, which is then freed; `NobodyIsLost` fails |
| `markSender` 137, `markReceiver` 166 | two processes find the channel free, and one overwrites the other's claim; `NobodyIsLost` fails |
| `offerValue` 138, `blockWriting` 140, `blockReading` 169, `prevent` 96, `markUnused` 175 | a process is inserted in the ring that is in it already: one that has announced itself and not left yet or, at `markUnused`, a sender that two receivers have found; `RingIntact` fails |
| `linkBack` 91, `linkIn` 92, `unlinkBack` 97, `unlinkForward` 98 | another process changes the half-changed links: the ring is cut |
| `switchTask` 126 | the stack pointer is saved in the wrong control block; `OwnStack` fails |
| `dead`, after 202 | nothing: `exit` has left the ring and never returns |

### Shells

`pc[p]` is the place of `p` in its program; every step is exactly one action of
`Kernel` or a step that calls nothing.  Keys are what the user happens to press.
The model keeps which message is received by whom, in which order, and drops the
text: a command is one of four kinds (computes, polls the clock, plays, exits).
A process is named by the number of its creation, 0 for `kernel_main`, so that
`newProcess` in a program names the process it gets; `ShellsAssumption` also says that
the channels of the programs exist and differ, which 9 shells are the limit for.

### Keyboard

The controller is external: one byte for a key going down or repeating, two for
a key going up; reading the port again returns the last byte again.  A
character is the number of its key stroke, so that reading one twice shows, with
the level it was typed at and the keys the user held.  The sixty cases of `write`
are three kinds of keys: two levels, three levels, one level.
`sinceRelease` stands for `getTime() - keyTime[key]` up to the ticks the
test tells apart.  `SlowController` lets the second byte of a release come after
the first, second or third read.  The handler runs between any two statements of `getChar`,
as the code lets it; `kept` is the history of the keys that `getChar` returned although
the handler had put them into the buffer for the next call.  The user waits between
releasing and pressing a key: the debounce ignores a faster press but not its
repetitions, and driver and user then disagree on purpose.

### Heap, Lists, Memory

The heap is a record of what the code keeps: memory word by word, `heapTop`,
`lastAddr`, `freeListQueue`, `entryPoints`; each function of the code is an operator
that returns the heap after it, with writes in the order of the code.  An action of
`Memory` is one call; an owner fills its block with `Data`, and what it should read
later is `DataIsKept`.  Two paths of the allocator leave wrong values behind (section
5).  `misled` is a history variable that becomes TRUE when a call *uses* one of them:
an insertion at a `freeListQueue` that `delFreeBlock` has spoilt, or a join through a
word that is no footer.  Two paths lead to such a join.  After a split the remainder's start
and end are both written as its end (kmalloc.c:118-121), so that its footer does not lead back
to its start.  And when `kmalloc` takes a block whole (kmalloc.c:124-129, `TakeWhole`), it
clears the mark "the previous block is free" in the header of the block that follows in the
*free list* (the word at `addr` + 4), not of the block that follows in memory, which keeps its
mark: `kfree` of that one takes the last word of the owner's data for a footer.  Everything is
checked up to such a call, and no call is made after it: memory is then arbitrary.

### Terminal and Console

Cells are numbered row by row and the cursor is one number; `terminal_write` says where
each character of a text that fits on the screen goes.  `Console` has the
statements of `exec_shell` in order; a step is what the code does between two points
at which another process can interfere.  Each command prints its newline, reports,
prints its output, reports again, and send refuses a report when one is waiting.
Output of a command the shell does not wait for comes in the middle of the line:
`torn` remembers that, and a `terminal_delchar` at the first cell of the screen (section
5), until the line is shown again.  The prompt's characters are
told apart, so that a lost one shows.  `keptIsLive` records that after a first
command `shellProcess` holds a list `exec_shell` has freed.

### CommandLine

The tree is a function from prefixes of the names to commands.  Each branch of the loop of
`parseArgs` is an action with the step of the index the code makes.  A mandatory
argument that is missing is `Unset` (the array is not initialised); options that are
counted and cannot be found lead to "lost".  The specification of the parser is the
declaration: `WellFormed` and `Convention` read the line by words.

### Ps2, Paging, Boot

`Ps2` has one action per poll and per byte sent; controller, keyboard and user are
external and may do anything the comments of the module list.  `open` is the first port
of the controller: `initPs2` turns it off, its byte of configuration turns it on again,
the self-test may reset that, and a self-test that is passed is followed by
ENABLE_FIRST_PS2 (cpu_init.c:132); what is sent to a closed port is not answered.  `smooth`
remembers that everything was in time.

In `Paging` a virtual page is a table and an entry, and a directory maps it to a frame;
`Owned` is the part of the bitset that is in its block: size/32 bytes, rounded up to
words.  A search that finds this part full goes on behind it (`LeaveBitset`): it sets the
first bit it finds clear in the memory of somebody else, up to `Beyond`, and hands out
that frame, or finds the word of bit `Size` full as well and returns 0.  Both set `lost`, and the
model ends there.  `PagingAssumption` has the kernel's 2048 frames in the block, that is a
memory of at least 32 MiB.  `FreshMemoryIsZero` is a second assumption: `alloc_page` does not
clear the table it allocates; `kmalloc_align` takes it from the top of the heap, which
never sinks, so its memory has not been used before, and the code relies on its
being zero.

## 3. Runs

| run | asks | bounds | states |
|---|---|---|---|
| `kernel_safety` | ring, ids, channels against waiters, woken receivers run at once, `Kernel` implements `Rendezvous`, everyone in the ring gets the CPU | 3 processes, 2 channels, 1 value, quanta of 2 | 1.0 million |
| `preempt_refinement` | statements implement calls | 3 processes, 1 channel, 2 values | 1.7 million |
| `preempt_windows` | five windows leave ring, lists and stacks intact | 3 processes, 1 channel | 3.5 million |
| `shells_switch` | consoles, handshakes, nobody blocks alone, a switch ends | 2 shells, 1 command, Ctrl-C, `&`, no games | 244 thousand |
| `shells_commands` | handshakes, whose 0xDEAD a shell takes, with the games | 1 shell, 2 commands, Ctrl-C | 2.6 million |
| `shells_progress_prompt` | the prompt comes back | 1 shell, 3 commands, `&`, no games | 184 thousand |
| `keyboard_keys` | keys held, levels, nothing read twice by a `getChar` that is interrupted | 7 keys, 3 at a time, 2 characters | 7.2 million |
| `memory_calls` | blocks, data, lists, free list, growth | 82 bytes and what the last call takes, 2 lists of 3 | 258 thousand |
| `console_line` | line and prompt on the screen | 6 x 3 cells, lines of 3, 2 commands | 3.0 million |
| `command_line` | lookup, arguments, calc | 12 pieces, 5 per line | 2.0 million |
| `boot` | start-up ends and finds the keyboard; frames and stacks; when a search leaves the bitset | 2 polls, 2 sends, 3 directories, 64 frames | 1.2 million |
| `preempt_nested_switch` | *violation*: `OwnStack` | one window | |

*Why the bounds are enough.*  Three processes give a ring in which the
predecessor and the successor of the current process differ or coincide, a list
with two waiters, a waker and a bystander; two channels let a value or a waiter
go to the wrong one; two values tell an overwritten one from the right one.
`MaxTimeSlices` is 5 in the code and 2 in `kernel_safety`, so that a process comes back
with a quantum it has used in part; it is 1 in the runs of `Shells`, where a quantum may
end at any step.  `BootTicks` bounds timer interrupts before `kernel_main`
enables switching; it is 0 where it is not the question.  `MaxId` bounds the processes created; blocks are never freed,
so nothing is reused later that the bound would hide.  A shell handshake involves
one shell, one command and the console switch, so two shells and one command,
or one shell and two commands, show each pair of processes that share channel 1
or `10+id`; a command the shell left by Ctrl-C goes on as one started with `&` does.
Two typed characters give a key before and one between or after the reads, at any
statement of `getChar`.  The arguments of a command are one constant, so the handshakes
tell functions and shell numbers apart and not arguments.

The heap's instance has lists whose first array has one slot instead of four and the
second two, so that three elements fill both, and a fourth, which the bound leaves
out, would begin a third; and blocks of one size that lists and sprintf
break into others; three classes of sizes are in use, blocks are split, joined on
both sides, and aligned.  The screen of 6 x 3 cells with a prompt of 3 wraps lines of
three characters, with and without output in between, and its last row is followed
by the first.  Five pieces allow every pair of options with an argument, in every
order, with a stray dash, space or `&`; numbers have one digit, so that sums and products stay far below
the width of an int (negative results wrap at `Wrap`, as unsigned).  Two
polls and two sends instead of a hundred each tell "in time" from "late" and "once
more" from "no more"; 64 frames have 32 bits in the bitset's block, 25 of the
kernel's, and the 6 pages of three stacks and their faults use up the other 7; a search
then ends at one of three bits behind the block, or at 0.

*Symmetry* permutes processes in the `KernelPreempt` runs (any block may be the one
`kmalloc` returns); never with liveness.  *Views*: `MCShells` drops the links of a
process outside of the ring, which `insertProcess` assigns before they are read;
`MCConsole` drops cells no property looks at; `MCKeyboard` what was typed, as long as
it is what was meant; `MCMemory` takes all misled heaps for one.  Each module says why
states it identifies have the same futures.

*Fairness.*  `FairSpec`: the PIT never stops and programs run with interrupts
enabled, hence weak fairness of the timer interrupt; nothing is assumed of the
programs, which may do anything but stop the timer.  `PrSpec`: the CPU executes
(weak fairness of the program's step), the timer interrupts, and a process that
gets the CPU takes a step before its quantum ends (a quantum is five timer
periods, a step of `Shells` some hundred instructions).  `Boot`: weak fairness of the
kernel's own start-up code, and none of controller, keyboard or user.

Each property has a seeded fault (operators named `Something_Fault` next to the
definition they corrupt, listed under "mutants") that TLC finds with it.

## 4. Proofs

*`KernelProofs`*, for any set of processes and channels, any values, time slices
and `MaxId` up to 127, assuming `~LastMayBlock`: `TypeSafety`, `RingSafety`,
`ChannelSafety`, `WakeSafety`, `IdSafety`, `WaitersDoNotRun`.  The inductive invariant is

    IInv == TypeOK /\ IdsIndexTheList /\ RunQueueIsOneRing
            /\ ChannelsKnowTheirWaiters /\ BlockedCanBeWoken

and no conjunct is inductive alone.  To wake a process, `send` looks its id up in
`processesList` (needs `IdsIndexTheList`) and inserts it in the ring: this keeps
the ring a ring only if the process is not in it yet, which follows from the
channel saying that it waits.  To block, a process leaves the ring, and
`UnlinkKeepsRing` needs at least two in it, which is where `~LastMayBlock`
is used: the lemmas about steps assume `Accompanied`, that whoever the step puts to wait
leaves another process in the ring, and `MayBlockAccompanied` derives it.  That blocked processes can be woken needs that two ids on channels never
name one process, which is the "each once" of `ChannelsKnowTheirWaiters`.
There is one lemma per action; `SendWakesInv` is the largest, since it changes
the ring, a channel, two processes' calls and the CPU at once.

Its second part has `WokenReceiverSafety` and `Refinement`, that is
`Spec => RendezvousSpec`.  Besides `IInv` it needs that a woken receiver is never
in the ring with its call unfinished (else a switch would read the value field a
second time), and that a waiting sender's channel holds a value that was sent.
`send` with a waiter maps to `Pass`, `receive` with a sender to `Take`, the
blocking cases to `Offer` and `Await`; everything else stutters.

*`RingProofs`*: inserting behind, and unlinking, keep a ring a ring.  "One ring"
says that the only non-empty set closed under `next` is the whole, which needs
no induction and no path.

*`PreemptProofs`*, for any set of processes and channels, any values and `MaxId`,
assuming that timer interrupts that end a quantum fall in the programs and in the windows of
`SafeWindows`, those of `preempt_windows`: `RingIsIntact`, `NobodyGetsLost`,
`EveryProcessKeepsItsStack`, `CallsStaySane`, and `IdsStayIndexes` (ids index
`processesList`).  The code excludes
no window, so the assumption is the claim: these five do no harm to what the
theorems speak of, together and any number of times; section 2 says what each of
the others breaks.  The inductive invariant speaks of the points where processes are:

    Inv == TypeInv /\ CodeInv /\ CpuInv /\ RingInv /\ IdInv /\ WhoInv /\ WaitInv

`CodeInv` says that every process is at a statement of a call, and that those not on the
CPU are at a safe one, at their program, or dead; so only the call on the CPU can be
half-way through a list, a channel or the links.  `RingInv` says what the links are
between the stores of `insertProcess` and `delCurrentProcess`: the ring as it will
be once the last store is made.  `WhoInv` says whose block a call has in hand: a new one
that no other call has, or a waiter that no channel knows any more.  `WaitInv` lets a
channel be ahead of its call by one statement: a sender is announced before it
blocks, a list may be empty while its receiver is on the way in or out.  That
processes of a channel stay apart needs `IdInv`, which at `appendIt` owes an entry.
The statements of the calls are tuples, and `RestOfCall` and `StatementsOfCalls`
read off them, by cases, which statement follows which; no induction is needed.

The second part of `PreemptProofs` is `CallsAreAtomic`, that is `RestSpec => KernelSpec`, for any set of
processes and channels, any values and `MaxId` up to 127, assuming `TickPoints = {}`: timer
interrupts end a quantum in the programs only.  It says that the statements of
`KernelPreempt` do together what `Kernel` does in one step, so what is proved of `Kernel`
is true of the statements.  The bound on `MaxId` is that of the chars the ids are; `Kernel`
converts, `KernelPreempt` does not.  A call that nobody interrupts can only end in one way, and
`Final` is that end, written down from the point of the process on the CPU, the
state and its locals.  The proof has three parts.

* *Statements carry* (`StatementsCarry`): no statement changes `Final`.  One lemma for
  each kind of statement; they need `RingInv`, since `Final` completes half-made links, and
  `WaitInv`, since it completes a half-made channel.
* *Calls begin* (`SendStarts`, `ReceiveStarts`, `CreateStarts`, `ExitStarts`, `SwitchStarts`,
  `TimerStarts`, `EnableStarts`): at the first statement of a call, `Final` is related to the
  state before the call as an action of `Kernel` says (`Steps`), with every branch of the call.
* *Calls end* (`NothingIsLeft`, `ProgramIsFinal`): when the CPU is in a program again, `Final`
  is the state.

The inductive invariant is `RestInv`: that of the first part, nobody but the process on the CPU is
inside a call other than at `return` or `readValue`, the history variable `rest` is
the state while the CPU is in a program, and `Steps(rest, Final)`.  A step that comes back to
a program then is the action of `Kernel` that `Steps` names, and every other step a stutter.

*`ShellsProofs`*, for up to 9 shells (the code has 9), any set of consoles, any functions typed,
Ctrl-C and `&` or not, and any `MaxId` up to 127, assuming `ShellsAssumption` and
`LastMayBlock => NoGames`, that is, either the calls that would block the last process of the
ring are excluded, or nobody asks for the games, neither with the command nor with the console:
`ScreenSafety` (`OneConsole`), `HandshakeSafety` (`HandshakeReachesItsCommand`),
`ReportSafety` (`DeadMeansPrinted`), and `ProgramsRunOnTheKernel`, that is
`ShSpec => Spec`: what is proved of `Kernel` with `~LastMayBlock` holds while the programs run.
Assuming only `NoGames`: `NobodyBlocksAlone` (`WaitingProcessDoesNotRun`) and `KernelStaysSound`,
the invariants of the ring, the channels and the ids.
The first part says what a call does to the three things a program can
observe of the kernel, who waits in `send` and in `receive` on which channel
(`sends`, `reads`) and the channels' `value`; there the links come from `IInv` and
the outcomes of the calls from the refinement in `KernelProofs`.  The second part has one lemma for
each step of a program and does not mention the scheduler.  The inductive invariant is

    SInv == Typed /\ Kinds /\ MainIsAt /\ Places /\ ShellsBoot
            /\ OneHolder /\ StopsFirst /\ StopIsThere
            /\ Handshakes /\ HasCommand /\ Informed
            /\ LastReport /\ ReportIsThere

`Places` lists the places at which a process may be suspended, and on which channel.
`Holds` says who has the right to the screen, the keyboard and channel 1: `kernel_main`
while it creates the shells, then the process it starts, back with the answer that
process gives to the stop signal; `OneHolder`, that nobody else has it, is what `OneConsole`
becomes when it is made inductive.  While one shell has the right, the only others on
channel 1 are the command it created last and `kernel_main` waiting for its answer
(`StopsFirst`: by then the shell sends no message), so
each of the three messages of a command finds its command, whose two positions
`Handshakes` lists.  It also says that only the last command of a shell still expects
messages, which is why commands in the background do no harm.  `DeadMeansPrinted` speaks of
steps: `TakesByReceive` says that a shell gets a report only by a receive on `10+id` that finds its
sender waiting (or, `ReportTaken`, that the sender's call is over with this very step), and `Places` that a
process that waits on `10+id` with 0xDEAD is a command of this shell in its last send.

The third part shows `Accompanied` of every step when nobody asks for the games.  Safety is
not enough: that a process that is `Alone` (no other can run) never blocks means that what it
waits for is there, so the right that `Holds` describes must never get lost.  To `SInv` is added

    CompanyInv == GamesRest /\ SomeoneLeads /\ DeadAreDone

`SomeoneLeads` says that some process has the right and is not held up (`Leads`): when it
answers the stop signal, `kernel_main` waits for the answer or has it; when it has messages
to send, a command waits for them.  The next holder exists whenever a step hands the right
on.  `Waiting` lists the places at which a call may block and what it did not find there;
for each one `BootGoesOn`, `HolderGoesOn` and `LastGoesOn` find it in a state of a process
that is alone: the holder's receiver or report is there, and a process that is no holder
finds the holder suspended on the very channel it waits for.  `GamesRest` keeps the games out
of this; with them the claim is false (section 5).  `CompanyStep` and `CompanyAccompanies`
depend on each other only across a step: the invariant before it gives `Accompanied`, and
this gives the invariant after it.

*`KeyboardProofs`*, for any keyboard, debounce and number of characters:
`DriverKnowsTheKeys` and `LevelsAreMeant`, assuming `~SlowController`, and `ReadsAreNew`,
which assumes nothing of the controller, nor when `isr33` runs.  The first two rest on `OnItsWay`, which says what each content
of the wire and of the interrupt line means for the difference between `pressedKeys` and
what the user holds; its second case, `Again`, is a byte that is read a second time after
a release and that only the debounce keeps from being a stroke: a key that is let go
has been up for zero ticks.  The third rests on `BufferInv`.  The places in use are those below
the count and the one `getChar` has in hand; they hold different characters, and each is one that
nobody has read or that the last call returned and that was in the buffer again by then.
Between its reset and its return, what is below the count is new: so a character that
`getChar` returns and leaves in the buffer was not read before, and one it returns for the
second time is not left there again.  One class per key, as the
cases of `write`'s switch have it, is an assumption (`KeyboardAssumption`).

*`BootProofs`*, on paging, for any number of frames, directories and pages:
`BlockIsFullFirst` (`LeavesWhenFull`), `FramesStayExclusive`, `EveryStackIsMapped`.  The inductive invariant is

    PagingInv == /\ PagingTypeOK /\ BitsAreSet /\ NoneIsSkipped
                 /\ FramesAreExclusive /\ StackComesFirst

Exclusive frames need that the bit of every mapped frame is set (`BitsAreSet`), since
the search only looks at bits.  `NoneIsSkipped` says that all frames below the place where the
search goes on are taken, and all of the block once a search has left it.  That both pages of a stack are mapped needs
`StackComesFirst`: nothing is mapped in a directory before the first page of its stack,
and nothing else before the second, so that the wrong test of `alloc_page` does no harm.  The
assumption that the two pages are in different tables is essential:
0xFF000000 begins a table, 0xFEFFF000 ends the one before.

On the boot: every step of `Boot` is a step of `Paging` or leaves it alone
(`BootImplementsPaging`), so the two safety properties hold of the whole boot
(`BootKeepsFramesExclusive`, `BootMapsStacks`).  `SmoothBootIsRight` is the property
`SmoothBootFindsTheKeyboard` of the run, for any number of polls and sends: the
inductive invariant says, for each place of `initController` and `initKeyboard`, what
bytes are under way or in the output buffer and what the keyboard has enabled, as long as no byte
was late, no key was hit and no command given up.

*`ConsoleProofs`*, for any size of the screen, any prompt, characters and commands:
`LineStaysOnScreen` (`LineIsOnScreen`) and `PromptStays` (`PromptIsKept`).  The assumption
(`ConsoleAssumption`) is that prompt, line and the cell of the cursor fit on the
screen.  The code bounds no line; one that is longer than the screen comes round and writes over
its own prompt, and then neither property can hold.  The inductive invariant is

    ConsoleInv == /\ Typed
                  /\ Editing /\ ~torn => Kept(screen)
                  /\ at = "off" /\ ~torn => Kept(saved)

The copy of a console that is not on the screen must keep line and prompt too, or
they would not be there after the switch back.  `Kept` adds to the two properties *where* the
prompt began: as many cells before the cursor as prompt and line are long (one more while
the cursor's own cell stands behind the prompt, `shift`), and that cell begins
a row.  Without it the step that erases is not inductive: `exec_shell` knows
nothing of the prompt and tests `terminal_getColumn() > 9`, and `ColumnOfPrompt` says that
with an empty line and a prompt that begins a row this test fails, so it protects the
prompt wherever the line has wrapped before.  One lemma for each terminal operation
says which cells it changes; `BlinkKeeps`, `TypeKeeps`, `EraseKeeps`, `Redrawn`, `Prompted` and
`SwitchKeeps` what the statements of `exec_shell` make of line and prompt.  The cell in which
`switchTaskWrapper` shows its digit is excepted, as it is in the properties.

*`CommandLineProofs`*, for lines of any length and any characters: `LookupIsRight`
(`LookupIsByName`).  `Walked` says that after `i` characters, none of which but the first
ends a word, `currentTree` is the node of the first `i` characters, or there is none.
`ChildIsDeeper` is its step: since the tree has every prefix of each of its nodes
(`NodesArePrefixes`), a search that has left it does not come back.  `FoundIsNamed` is its end: the
characters up to the first space are the word `parseWord` reads, and only the
node of a whole name has a number (`NodeNames`).  That no name is a prefix of another is not
needed, that no two are the same is (`Names`).  The assumptions are that names and what is
typed are made of `Chars` and that "no node" is neither a node nor a character.

*Only model-checked*: liveness (out of TLAPS' reach);
the heap and the lists, and of `CommandLine` the arguments and calc
(`ArgumentsFollowTheConvention`, `CalcIsInOrder`): what their recursive functions and folds
compute is out of TLAPS' reach.

## 5. Where code and comments disagree

With a run that reproduces it:

* **Nested switch** (`preempt_nested_switch`).  `switchTaskWrapper` stores
  `currentProcess` (line 123) before `cli`.  A timer interrupt in between saves
  the old process's stack pointer in the new one's block, which is then resumed
  on a stack that is not its own.  Comment, line 124: "we don't want a switch task
  interrupt to pop inside another".

Found with the same modules by changing constants or the checked property, without
a run of their own:

* `TickPoints = {"readValue"}`, `ReceiverReadsItsValue`: `receive` gives the channel
  back and reads the value last (176, 179); another send can overwrite it.
* `TickPoints = {"appendIt"}`, 4 processes, `IdsIndexTheList`: of two processes in
  `newProcess`, the one that takes its id first (106) lists its process last (114).
* `TickPoints = {"newList"}`, `NobodyIsLost`: a receiver that queued while the
  first one was between lines 166 and 167 is on the list that line throws away.
* `Consoles = {2, Game}`, `LastMayBlock = TRUE`, `WaitingProcessDoesNotRun`: asking for
  the console of the games before one was started leaves `kernel_main` alone in the
  ring, blocked, and running.
* `SlowController = TRUE`, `KeysAreWhatTheUserHolds`: a late second byte of a
  release is taken for a key press.
* Between lines 50 and 51 of `getChar` (`ReadCount` to `ReturnChar`): a key that comes in there is
  returned now and again later.  `NothingIsReadTwice` allows just this.
* `QueueIsLast` of `Memory`: `delFreeBlock` (kmalloc.c:75) sets `freeListQueue` to the end
  of the removed block; comment, line 58: "si le succ est nul le pred est le dernier
  élément de la liste chainée".
* `~heap.misled` of `Memory`: after a split (kmalloc.c:118-121) a later `kfree` takes
  a word of the remainder, its end, for its start; after a block was taken whole
  (kmalloc.c:126-128) the next block in memory still says that it is free, and `kfree` of
  that one takes a word of the data for a footer.
* The 0xDEAD that ends the wait of a shell can be that of an earlier command in
  the background; the one in the foreground is still running.  `DeadMeansPrinted`
  states what does hold: it is of a command of this shell that has printed, and is used once.
* `getChar` returns the last key and drops the others of the buffer.

From reading, in the models, without a property:

* `exec_shell` deletes the list `shellProcess` passes to it again after a switch.
* An option given twice or without value makes the search of line 291 leave the array; an
  unknown option skips the character after its letter; a missing mandatory argument is
  never written.
* A negative result of calc is shown as unsigned, and zero with a NUL after it.
* At the first cell of the screen `terminal_delchar` does not go back to the last one, so
  that a line that wraps there is torn; `Tears` says so.
* A prompt that does not begin a row, after Ctrl-C or a report, can be erased:
  the test is `terminal_getColumn() > 9`.
* `initKeyboard` reports success when ENABLE_SCANNING has been refused; `freeze` then
  waits for ever.  A late answer is taken for the one to the next command.
* `findFirstClear` goes on behind the block of the bitset, sets a bit in the memory of others and
  hands out its frame, or returns frame 0, which is the kernel's.
* isr14 allocates in `currentDir`, the directory of the kernel, which never changes: the
  process that faulted faults again.

## 6. Not modelled

* `prime`: a computation on one number (whose test takes 25 for a prime and 3 for
  none), without shared state.  `sleep` and the games appear by their kernel calls.
* `kcalloc`'s loop, `krealloc`, `brk`, `freePageDirectory`, `clearBit`, `writeBuf`:
  called by nobody, or no more than writes of zero.
* The formats of printf, colours, the snake's body, the random numbers: data that no
  other component reads.
* GDT, IDT, multiboot, programming of PIC and PIT: straight-line start-up code.
* `kmalloc`, `kfree`, `findFirstClear` and terminal calls that interrupt each other: the
  code protects none of them, so there is no promise to check; the hazards name them.
* What happens after memory has been corrupted (`misled`, `lost`).

## 7. Plan

1. Proofs: which processes can block alone when the games are asked for.
2. A terminal shared by two writers, character by character.
