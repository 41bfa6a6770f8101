# A TLA+ model of SBUnix (sbrocks)

SBUnix is a 64-bit teaching kernel with its C library, its programs and its shell. This
directory models the parts of it where order matters: tasks, the timer, the system calls
that block and wake, the keyboard, pipes, the allocation, sharing and mapping of pages, the
file system and the heap as programs use them, the registers an interrupt saves, the shell,
the screen, and the library's text and string functions. Paths below are relative to the
repository.

## The system

The program is `src/w2` (kernel in `sys`, library in `libc`, programs in `bin`;
`bin_backup/bin` holds the test programs). `src/w1` is the earlier exercise, a shell and a
library on Linux, `src/shovelos-read-only` another system kept for reference, and
`src/w2/rootfs` holds a boot loader and build products.

One CPU. Every gate of the IDT is an interrupt gate, so kernel code runs with
interrupts masked. A call that blocks clears `current_task` and executes
`sti; int $0x20`: the timer handler runs, picks a task and overwrites the
interrupt frame with that task's saved registers. `sti` takes effect after the
next instruction, so no other interrupt comes first. The registers saved at the
entry of the system call are the ones restored later, so what follows the
`int $0x20` in a handler is never executed.

| component | source | state | operations | what can go wrong |
|---|---|---|---|---|
| process manager | `sys/process/process.c`, `process_manager.c` | `task_list`, `free_task_list`, `current_task`, the `task_struct`s | create, free, choose, dispatch | lists sharing a node, a blocked head dispatched, stale parent pointers |
| timer | `sys/timer.c` | `timer_ticks`, `prev_secs` | `timer_handler` | starvation, sleeps that do not end, a clock that loses minutes |
| process calls | `sys/syscall.c` | fields of `task_struct` | fork, execve, waitpid, exit, kill, sleep | wrong wake-ups, counts, page tables |
| page faults | `sys/idt.c` | CR2, CR3 | `demand_paging` | a fault after kill ends the killer |
| keyboard | `sys/kb.c`, `system_read` | `flag`, `i`, `count`, `a[]`, `waiting_task` | read, key interrupts | lost readers, overflow, lines to the wrong task |
| pipes, redirection | `sys/syscall.c` | `struct file` list of a task, `pipe_write_flag`, one wait slot | pipe, dup2, close, read, write | reads of what nobody wrote, redirections to nowhere |
| interrupt tables | `sys/idt.c`, `isr.s`, `irq.s`, `gdt.c` | CPU, `task->r`, `tss.rsp0` | stubs, handlers, exceptions | a program that goes on with the registers of another, or from an earlier point |
| page allocator | `sys/mmu/phy_alloc.c` | bitmap, reference counts | alloc, free | shift width, exhaustion |
| address space | `sys/mmu/pt.c`, `virtual_mm.c`, `kmalloc.c`, `process/elf.c` | page tables, VMA lists | map, copy at fork, free at exit | leaks, pages freed while mapped, tables made of stale frames |
| tarfs | `sys/fs/tarfs.c` | one file table for all tasks | open, read, write, seek, close, readdir | shared offsets, unsigned wrap, names that are prefixes |
| user heap | `libc/malloc.c` | block list over `brk` | malloc, free | a block handed out twice |
| console | `sys/vgaconsole.c`, `kprintf.c` | video memory, cursor | putch, scroll, backspace, status row | echo and erasure that disagree |
| shell | `bin/sbush/sbush.c` | command table, line, PS1, PATH | foreground, background, pipelines, built-in commands, scripts | words of earlier lines, orphans, two readers |
| library | `libc/printf.c`, `scanf.c`, `string.c`, `crt/crt1.c`, `sys/kprintf.c`, `kstring.c` | none | format, scan, strings, start of a program | boundaries: widths, the last byte, the empty text |
| exercise w1 | `src/w1` | command table, environment | as the shell, on Linux | words of earlier lines, pipe ends left open |

The parts meet in `task_struct`: the calls and the keyboard write `state`, the
timer and every blocking call read it through `get_next_task`; exit and
execve follow `parent`; `waiting_task` and the pipe wait slot keep pointers to
`task_struct`s across interrupts and frees. Page tables, tasks and the heap take their
pages from one allocator. The shell, the keyboard interrupt, the clock and the programs
write on one screen.

`PROJECT.json` lists the components with their status and the hazards, each at
the line where it bites.

## Modules

| module | what it is |
|---|---|
| `Process` | process manager, timer and process calls: the core |
| `Dispatcher` | abstract specification: who is ready, asleep, waiting, running |
| `ProcessRefinement` | the mapping from `Process` to `Dispatcher` |
| `Keyboard` | extends `Process` with `read(0, ..)` and the keyboard interrupt |
| `Pipe` | extends `Keyboard` with pipes and redirection |
| `Shell` | extends `Pipe`: sbush and the programs it starts, as the calls they make |
| `Interrupts` | extends `Process` with the registers: stubs, save and restore, exceptions |
| `PhysAlloc` | the physical page allocator with the width its shifts have |
| `PageAllocator` | abstract specification: pages are offered or held |
| `AddressSpace` | extends `Process` with the user pages of each task |
| `VmAreas` | the `vm_area_struct`s and their lists, used by `AddressSpace` |
| `PageTables` | paging: the tables in memory, built in frames as they come |
| `AddressMaps` | abstract specification: one map of pages per address space |
| `Tarfs` | the archive, the list of files, the file and directory calls |
| `Malloc` | the heap of a program |
| `Library` | programs on `Tarfs` and `Malloc` through the C library |
| `Console` | the cells of the screen, cursor, scrolling, status row |
| `CommandLine` | how sbush takes a line apart and finds a program |
| `Startup` | how arguments and environment get from execve to main |
| `Terminal` | `Console`, `CommandLine` and `Startup` with the user, the keyboard interrupt, the clock and the shell's loop |
| `Text` | printf and scanf, the kernel's copy of them, and the numbers of `kstring.c` |
| `Strings` | the string functions of the library and the kernel, loop by loop |
| `Exercise` | the shell of w1 on `CommandLine` and `Text` |
| `ProcessProofs` | lemmas on the task lists, the inductive invariant of `Process` and what follows |
| `RefinementProofs` | `Process` implements `Dispatcher`; parents and children |
| `KeyboardProofs` | type correctness and the line buffer bound of `Keyboard`, the foreground properties of `MCKeyboard` |
| `AddressSpaceProofs` | frames, their counts and who maps them; the areas of the tasks |
| `LibraryProofs` | the heap, and the files as programs read and write them |
| `ShellProofs` | pipes, and the shell and its children, for any commands and programs |
| `InterruptsProofs` | registers are kept; `Interrupts` implements `Process` |
| `MemoryProofs` | `sys/mmu`: the page allocator, and the page tables as address maps |
| `MCProcess`, `MCInterrupts`, `MCKeyboard`, `MCShell`, `MCPhysAlloc`, `MCAddressSpace`, `MCPageTables`, `MCLibrary`, `MCTerminal` | instances for TLC |

### Process

State: the two lists are sequences; the fields of `task_struct` are functions on
`Tasks`, the addresses `kmalloc` may hand out (a bound). `cr3` is the task whose
page table the CPU walks, `NULL` for the kernel's. `ticks` counts interrupts
since the last second boundary. `crashed` is the CPU walking page 0 as a page
table, after which nothing is said.

Steps: one per system call, the `int $0x20` included (`TimerInterrupt` applied to
what the call left); `TimerIRQ` between two instructions of user code;
`PageFault` when user code runs under the kernel's page table, as it does after
`kill` (`free_task_struct` ends with `write_cr3(getCR3())`). `execve` does not
give the CPU away: it adds a second `task_struct` with the caller's pid and
returns to the old image, which then calls exit (sbush and the tests do).
`hello`, loaded first at boot, is `while(1)` and makes no calls.

What a program may do is a parameter: `Calls`, `SleepArgs`, `OrphansAllowed` (may
a parent exit or exec before its children exited) and `AnyVictim` (may a program
kill itself, or hello). `MaxPid` bounds the number of creations, `Word` stands
for 2^64, `TicksPerSecond` for the 90 or 108 interrupts of a second (the code
looks for a new second each 18 ticks).

Left out: memory and saved registers (components of their own), names, and an
`execve` of a file that does not exist (`readElf` returns NULL and the handler
dereferences it; sbush looks the file up first).

### Interrupts

A frame is a set of register values, of which the model keeps whose they are, whether they
are the point their program has reached (`now`), and where an `iretq` with them leads. `cpu`
is the frame user code runs with, `saved` the `task->r` of each struct, `rsp0` the task on
whose kernel stack the next interrupt pushes. Each action conjoins a step of `Process` with
`Enter` (`task->r = *r`) and `ReturnTo` (`*r = task->r`) or `Switch` (`start_process`). A
frame that was returned to is no longer `now`, so that to resume it twice is to go back in
time. The order in which the stubs push the registers and in which `struct regs` and the
stubs' end find them is written out (`PUSHA`, `Regs`, `POPA`).

An exception's stub pushes its number, with or without an error code from the CPU below it,
and all stubs drop two words. Those without an error code are one short (`Balanced`): their
`iretq` faults, and the fault's handler returns to that `iretq` for ever, with interrupts
taken between. When the task is preempted there, its frame gets the segments of user mode,
and it goes on at the address of the kernel in user mode, where the page fault handler ends
it (`ILost`). The divide error's handler halts the machine (`Halted`). Calls that block
return the number of the call, for the registers restored are those saved at the entry.
The flags are left out: `start_process` overwrites them. The keyboard's stub pushes
nothing and drops nothing; it touches no frame and is in `Keyboard`.

### Keyboard

A key is taken between two instructions of user code and does not reschedule.
`typed` is the buffer; a character is represented by the task that held the wait
slot when it was typed, which is what `OwnLine` asks about. `inRead` is a history
variable: who is blocked in `read`. With `Background = FALSE` programs follow the
shell's foreground discipline (`executeProcess`: fork, exec in the child,
waitpid): a program waits for its child before it reads or starts another, and
an old image only exits. `MCKeyboard` lets programs do as they like and keeps in
`quiet` whether all of them have followed that discipline until now.

### Pipe

`files` is the list of `struct file` of each task: the page of a descriptor and its
offset. A pipe is one page and two descriptor numbers; fork and execve copy the list,
offsets included, so each task reads and writes at its own position. `page` says which
bytes of a page have been written. `writeFlag` and `readQueue` are the one flag and the
one wait slot of all pipes.

`WriteOut` is write(1, ..) with standard output redirected. When a task is in the slot it
is made RUNNABLE, whatever it does by now, for nothing ever clears the slot; its bytes are
read for it at once, but to its address in the memory of the writer, so they are lost; and
the flag is cleared. `ReadFlagged` is a read that finds the flag set; `ReadBlocked` takes
the slot and blocks. There is no end of file: a reader that asks again after the last
write blocks for ever.

### Shell

`prog` is where each task is in its program: the loop of sbush (`prompt`, `typed`,
`wait`), its children (`exec`; `pipe`, `fork`, `input`, `output`, `sleep` for the stages of
a pipeline), an image with the calls it has left. What the code does between two calls is
part of the first of them. The child that makes the pipes executes the last stage itself,
after a `sleep(1)` that gives the others time; the first stage's parent pointer leads to
its old image, which is gone by the time it exits. Built-in commands are in `Terminal`.

### PhysAlloc

A page is a pair of the word of the bitmap it is in and its bit; `used` is the set
of bits that are set in each word. `1 << p` is an `int`: gcc on x86-64 takes
`p % 32` and extends the sign, so `IntMask(p)` is the bit p of the lower half of a
word, or, for the last bit of that half, all bits from there up. Marking
(`set_page_used`) and searching (`mm_phy_alloc_page`) use `IntMask`; clearing
(`set_page_free`) shifts a `uint64_t` and uses the bit itself. They disagree
for the upper half of every word and for the last page of the lower half, and what
the properties ask is whether that does harm.

Actions: `Alloc`, `FreePage`, `IncRef`, `DecRef`, one per function; the boot calls
(`mm_phy_init`, `mm_phy_map`, `mark_kernel_pages`) are the initial state, for any
memory map and place of the kernel. `refs` is a history variable: the references
that the users of a page hold; they free or count only pages they hold. `ranOff`:
an allocation left the bitmap, and nothing is said any more. The array of counts
has 64 rows for 509 words; `Counted` are the pages that have a place in it.
`dec_ref_count` has no live caller and is modelled on those.

### AddressSpace

`map` gives the frame of each user page of a task, `Absent` or 0 (page 0, which fork
maps where the parent has no page). A page is in the text, the data, the heap or
the stack VMA; one page stands for each loaded segment. Frames are numbered in the
order in which the allocator offers them, so that an allocation takes the least
free one (`Nth`). Page tables and kernel memory are not counted: no code gives them
back. `image` is a history variable: which load of a program a task runs.

`AFork`, `AExecve`, `AExit`, `AKill` and `APageFault` conjoin the step of `Process`
with what it does to memory (`setup_memory`, `readElf`, `free_task_mm_struct`);
`Brk`, `HeapFault` and `StackFault` are the steps of a program that `Process` does
not see. `waitpid` and `sleep` are left out: they leave memory alone and only keep
a task from running, as the timer may. Calls that allocate happen while frames are
left; what happens without is the subject of `PhysAlloc`.

The areas of a task are structs on a list through their `next` pointers, and the free ones
on a list of their own (`VmAreas`). `free_task_mm_struct` reads `vma->next` after
`add_to_free_vm_list` has cleared it, so the others are lost, only the first, the text, is
looked at, and its frame is freed if the task
has no parent, whatever its reference count. Tasks without a parent are hello, sbush
and what sbush replaces itself by. `EndsEarly = FALSE` says that such a task ends
only when no other task runs the same load of its program.

### PageTables

`mem` is physical memory, an array of entries per frame; an entry is a frame or
`Absent`, and what a program writes into a page of its own is `Junk`. `Walk` is the walk of
the tables, `MapVirtToPhy` the building of them: a missing table takes the next free frame
as it is, uncleared. That is correct only because `free_task_mm_struct`, in another file,
clears what it gives back (`GivenBack`): from `vm_start` to `vm_end` of the first VMA, and
no further (`Part` is what of a page lies in its VMA). The rest of the last page, or of a
first page whose VMA starts within it, keeps what a program stored there, all pages being
writable; `StrayStores` says whether programs do so. `EndSpace` is the end of a task without
a parent, which gives frames back, `LeaveSpace` that of one with a parent, which gives none;
both leave the tables behind. A new address space copies the
kernel's root (`EnvSetupVm`); kernel pages mapped later are seen in all spaces because
they hang on the root's last entry, which exists before the first copy. The refinement
mapping computes the map of each space from memory by walking it. Left out are the flags
of entries and the one-to-one mapping through which the kernel reaches tables.

### Tarfs, Malloc, Library

`Tarfs` has the archive as an array of cells, headers and contents, and the list of files
with one offset each for all programs. A name is a model value; `In` is the comparison of
prefixes by which `dopen` and `dread` tell what lies in a directory. `Fread` subtracts
unsigned; `Fwrite` starts from the header and not from the data; `Fseek` goes anywhere, with
a `whence` it does not know to -1. `Malloc` is the chain of
blocks, first fit, neither split nor merged. In `Library` two readers open, read, seek,
write, close or just end, and a lister opens a directory, reads it with either of the two
dirents that `readdir` leaves it, closes it and allocates memory besides. History variables
are `stream`, what was read of a file since its close, `astray`, the files that a seek has
led outside of, until a seek back or a close, `left`, those that a program ended without
closing and nobody closed since, and `listed`.

### Console, CommandLine, Startup, Terminal

The screen is one array of cells with a cursor; the column has no limit, a long line goes on
in the cells of the next rows. In `CommandLine` one symbol stands for a run of letters,
and `ParseCommand` works in the line's own buffer as the code does: `Turn` is one turn
of its loop, with its `trim`, its `memset`s and the words it lays over those of earlier lines.
In `Terminal` a key is echoed by the interrupt and handed over to the shell, which
collects it in its own line; keys typed while no read is pending (`flag`) are shown in the
status row and lost. `clean` says that no earlier line left anything in the table, `since`
where the part of the line begins that the screen shows character by character: behind a
tab, which moves the cursor without a cell of its own, a key without a character, which is
stored as a NUL and not shown, the `>` that asks for more, or what a program printed.
`RunLine` is one step from the end of the line to the programs being started: their calls
are the subject of `Shell`. `jobs` counts them, a pipeline as one; a line whose second word
is `&` is not waited for, and what its program prints then comes among prompt and typing
(`ProgramPrints`), and its exit ends whatever wait or read the shell is in
(`ProgramExits`): the read returns a NUL, and a key typed before the shell asks again is
shown and lost, or takes the place of that NUL.

A script is a file that is read by the character; the shell runs its lines and then, when it
was given as an argument, goes on with the keyboard. `set PATH` writes the new string over
the last block of the heap, and the byte behind it is whatever follows (`open`: the size in
the next block's header, if there is one). `Startup` lays arguments and environment on the
stack; only the first string of the environment is copied, and `main` is given one pointer
to it, the place of which depends on the number of arguments on both sides.

Quirks the model keeps: a line that starts with a space runs the previous command again; a
bar that a syntax error left beyond the end of the line makes a third stage; a backspace
forgets that a bar asked for more, and goes below the start of the array; a second
argument stays in the table for later commands; the hours go from 0 to 24, and a longer
clock text is not cleared by a shorter one; shift acts on one key and any other modifier
ends it; a script can be run once, for its file is never closed.

### Text, Strings

`Text` takes a format apart as `vsprintf` does and cuts each argument to the width that
`va_arg` reads. The precision of `%s` is taken and not used, though the comment at
`w2/libc/printf.c:133` calls it the maximal number of characters. `Strings` has each function as the
loop it is, on a memory of cells, the variants of kernel, w1 and w2 side by side where they
differ. Both are functions; the run `terminal` compares them with reference definitions
(`NumbersReadBack`: what is printed reads back; `StringsAgree`: each function does what its
name says of the texts in memory) in the state where the session starts (`LibraryAtStart`).

### Exercise

The shell of w1 as a function of what is typed: `Enter1` takes a session (the table of words,
the environment, whether the shell runs, what it ran) to the next. Linux is external:
the stack of a new program, the lowest free descriptors, which files there are. Facts the model keeps:
`getEnvironment` passes over the first string and faults when PATH is not found; `set PATH
d` adds the directory with a byte of the next block's header at its end, so that it is
never found; two rows of words are declared where the header comment of `sbush.c` shows
three stages; a bar without spaces leaves words behind; a line of spaces faults; an empty
line of a script runs the line before it again; the last line of a script needs its newline; at
the end of its input `readInput` does not end. The stages of a pipeline inherit the ends
to read from, so a writer is never told that nobody reads.

## Runs

Bounds common to the runs on `Process`: four `task_struct`s, hello and sbush among them, so that
sbush can have two children, or a child and the new image of another, and that
structs are freed and reused while pointers to them remain. `MaxPid = 5`
lets three creations happen, more than there are free structs, hence a reuse (4 where
liveness is checked, which is two). `Word =
3` makes counters wrap. `TicksPerSecond = 2` or `1` interleaves second
boundaries with everything.

| run | configuration | shows |
|---|---|---|
| `process_any` | `Interrupts`; all calls, orphans; hello and oneself safe from kill; three exceptions | `RegistersKept`; list, CPU, parent pointer and page table invariants; `NeverCrashes`, `ImplementsDispatcher` |
| `process_family` | no kill, no orphans; sleep(0) and sleep(2); fair timer (`FairSpec`) | `ChildCountExact`, `ParentIsLive`, `WaiterWokenByChild`, `SleepEnds`, `NoStarvation` |
| `keyboard_any` | reads with background jobs, kill, orphans; fair timer and user | `LineFits`; while programs keep to the foreground `QuietSlotIsReader`, `QuietOwnLine`, `QuietReadReturns` |
| `shell` | the shell with a foreground program that has a pipe, a background job, pipelines of two and three stages | `PromptAfterCommand`, `WaitsForSomebody`, `RedirectionsOpen`, `ReadsFollowWrites` |
| `phys_alloc` | four words of six bits, a kernel that lies across the middle of one | `OnlyFreeMemory`, `CountIsReferences`, `ImplementsPageAllocator` |
| `address_space` | fork, execve, exit, kill, brk and page faults | `SharedByForkOnly`, `NotFreedWhileMapped`, `CountCoversTasks`, `AreasOwned` |
| `page_tables` | two address spaces, tables of three levels | `KernelShared`, `ImplementsAddressMaps` |
| `library` | two readers, and a lister that allocates memory and whose closedir closes a file of theirs | `StreamInOrder`, `ClosedAtStart`, `OthersUntouched`, `ListsDirectory`, `BlocksDisjoint` |
| `terminal` | two lines typed at the shell, or a script and a line, while the clock runs and programs print and end | `EchoIsLine`, `ClockIsTime`, `RunsLine`; functions: `LibraryAtStart`, `ExerciseAtStart` |
| `waitpid_child` | two children, one waited for | finding: `WaitpidWaitsForChild` is violated |
| `phys_alloc_serves` | as `phys_alloc` | finding: `ServesWhileFree` is violated |
| `address_page0` | as `address_space` | finding: `NobodyMapsPage0` is violated |

Deadlock is checked in `process_any` and `process_family`. The other runs have
`CHECK_DEADLOCK FALSE`: in `keyboard_any` a task that reads the keyboard and is killed
before the line is ended crashes the system; in `phys_alloc` and `phys_alloc_serves`
nothing happens after a run off the bitmap; in the others bounds on what programs do end
the behaviours.

Bounds of `phys_alloc`: a word of six bits has a lower half, an upper half and a
bit whose mask spans both; the four words are one with a hole in memory, one with the
kernel, one where memory ends, and one of free pages, so that the search passes over
full and partly filled words; two references to a page tell a count from a flag; the
last of the words has no counts. Bounds of `address_space`: ten frames are six for
hello and sbush and four to hand out, enough for a fork whose stack has two pages
or a load of three, and for frames to come back and go out again; a stack of three
pages has one that both the right and the rounded fault reach; one heap page is
touched or not when fork finds it. Bounds of `page_tables`: tables of two entries and
three levels have two pages that share a table and one that has upper tables only in
common with them; the text of two pages ends in the middle of the second; seventeen frames
let one space end and another take the frames it gave back for its tables.

Bounds of `shell`: seven tasks and pids, so that a pipeline of three stages or a
background job is followed by another command; descriptors up to 7 are two pipes. A
background job or a pipeline of three stages is the first command only, and after a job
there are no pipelines (`Few` in `MCShell`). A reading stage reads twice, and reads and
writes are of one byte or two, so that a read takes more than was written. The end of a
pipe's page, 4096 bytes away, is
out of reach. Bounds of `library`: the readers share a file of three cells, read by two
at a time so that the last read is short, and an empty one; offsets from -1 to 5; one write.
One directory is the last in the archive, another has a name that begins with another. Five
heap blocks and two more pointers let a listing be complete and the next one reuse its blocks
while others are in use. The two parts are combined only as far as they touch: while a reader
has a file or left one, or after the write, the heap is at most two dirents and the working
directory one of two (`Few` in `MCLibrary`), enough for closedir to close a file the readers
hold. Bounds of `terminal`: ten columns and three
rows make lines run over the edge and the screen scroll; a second of three ticks looked at
every second tick is sometimes looked at late, as with 100 and 18; minutes and hours of two
and days of three hours come round within 45 ticks. Two lines, of twenty-seven that differ in
words, spaces, bars, built-in commands, tabs, keys without a character and `&`, and up to two
erasures among the first four characters of the first. PATH has one directory, or two
that both have one program and each another. A program prints once before it ends, while
a line is typed among its first four characters. The exceptions of `process_any` are the divide error, one without
and one with an error code.

Bounds of the functions checked at the start of `terminal`: integers of 65536, 4096 and 64
values stand for long, int and short, so that a sample exceeds the shortest, is cut by it, and
is read back as negative; a memory has six cells, in which texts of three characters
overlap, touch its end or are empty; the shell of w1 is given each pair of twenty-five
lines in three environments, and pipelines of one to four stages with each set of its
three descriptors closed.

**Fairness.** `WF_vars(TimerIRQ)`: the PIT interrupts at 100 Hz for ever and the
interrupt is enabled in every state but a crashed one. No fairness is assumed of
programs: a child may never exit. `keyboard_any` adds that a user who is
asked for a line ends it. `TicksPerSecond` is 8 in `process_family` because
progress depends on it: each blocking call counts as a tick and restarts the scan
at the head of the list, and with fewer ticks than about twice the number of
tasks two sleepers that wake each second keep a third task from running. The
real value is 90.

**What needs an assumption.** The properties of `process_family` fail with `kill`
(the victim's parent is not told) and with orphans (`exit` follows a pointer to a
freed or reused struct). `HelloHeads`, and with it `NeverCrashes`, fails when hello is
killed: then a blocked head is dispatched. `SlotIsReader` and `OwnLine` fail with
background jobs, whose exit wakes a shell that reads, and who read themselves;
the buffer bound `LineFits` does not. A sleep(0) stores 2^64 - 1 seconds.
`NotFreedWhileMapped` fails with `EndsEarly = TRUE`: the text of the first shell is
freed when it exits, under children that run it still and under its own old image
after an execve. `PromptAfterCommand` fails after a background job, whose exit wakes the
shell out of any wait. `ReadsFollowWrites` fails with a second pipe: the flag does not say
which pipe was written. Even with one it does not say that a read gets what was written: a
reader that asks for more than the write gave goes on behind it. `StreamInOrder` fails after
a write, which destroys the file's name, and does not speak of a file while a seek has led
outside of it; `ClosedAtStart` not of a file that a program left open, as any does that
exit or kill ends, and as the shell leaves its scripts.
`ImplementsAddressMaps` and `TablesGood` fail with `StrayStores = TRUE`: a frame in which a
program has stored something behind `vm_end` comes back as a table with that entry.
No program of the repository stores outside of what its segments cover. `BlocksDisjoint` is proved under `HeapFits`, that all a program may ask for lies
below 2^64: the sums in `malloc` and `sbrk` wrap, and a request near 2^64 gets a block that is
too small. `OthersUntouched` is proved for writes no longer than a block (`WritesFit`): a
longer one starts at the header and may end in the next.
`ChildCountExact` needs a counter that does not wrap (`CountsFit`).
That a main gets only its own words fails after a line that left others behind (`clean`),
the rest of `RunsLine` does not; `set PATH d` as a whole line adds a directory that does not
exist, for its last byte is overwritten, which `RunsLine` leaves open for that line and takes
into account for those after it. `EchoIsLine` fails once the line has reached the status row.

**Findings.** `system_exit` makes the parent RUNNABLE before `remove_from_parent`
compares `wait_for_child_pid`, so `waitpid(p)` returns with the exit of any child. `mm_phy_alloc_page` never serves
the upper half of a word, loses the last page of the lower half when it is freed
once, and instead of returning 0 when it finds nothing runs off the bitmap, pages
being free or not. `fork` maps physical page 0 in the child for each heap page that
the parent has not touched, where `mm_phy_init` keeps page 0 back for the null pointer.

Every property has a mutant in `PROJECT.json`: a changed definition in the same
module (marked *Mutant*) under which the run must find the property violated.

## Proofs

For every value of the constants that the assumptions `ProcessAssumption`,
`KeyboardAssumption` and `PipeAssumption` allow, and for `Interrupts` those of `InterruptsAssumption`
(a program that raises exceptions may leave children behind):

- `ProcessProofs`: `Spec => []P` for `TypeOK`, `ListsPartition`, `OnlyCurrentRuns`,
  `OneImageReports`, `ChildHasParent`, `OwnAddressSpace`, and
  `Spec => LeavesByExitOrKill`. They are not inductive alone. `IInv` joins them
  with two facts: the task whose page table is loaded is on the list
  (`CurrentListed`: only such a task calls exit, so no struct is freed twice), and
  pids on the list are below the counter (`PidsGivenOut`: a fork's pid collides
  with none, hence `OneImageReports`). There is one lemma for each action; the
  lemmas on `Unlink`, `First`, `After`, append and pop, and `TimerEffect`, which says what any dispatch
  does to states and CPU, carry most of the weight.
- `RefinementProofs`: with `AnyVictim = FALSE`, `Spec => Abstract!Spec`,
  `[]HelloHeads` and `[]NeverCrashes`. `DInv` adds to `IInv` that hello heads the
  list and can run, that listed tasks are never STOPPED, and what links states to
  ready, asleep, waiting and running; each call maps to one action of `Dispatcher`.
  Of the family: without kill and orphans, and with a word that counts the pids
  (`CountsFit`), `FairSpec => []ChildCountExact` and `[]ParentIsLive`. `FInv` adds to
  `IInv` that the parent of each child is listed and has the child's ppid for pid, and
  that counts are cardinalities; that no wrap occurs follows from pids, of which each child
  has one of its own. `WaiterWokenByChild` holds of `FairSpec` without a hypothesis, and of
  `Spec`, orphans and kill included, as long as hello and the caller are no victims: what
  wakes a blocked task other than a child's exit is being the head of the list.
- `KeyboardProofs`: `KSpec => []KTypeOK` and `KSpec => []LineFits`, from `KIInv`:
  `IInv`, the types of the buffer, and that in scanf mode the slot is set. Of `MCKeyboard`,
  in which programs do as they like and `quiet` says whether they kept to the foreground:
  `[]QuietSlotIsReader` and `[]QuietOwnLine`. While
  `quiet` the programs are a chain, each but the last with one child for which it waits
  (`Chain`), so that one at most can be in a read (`ReadersIdle`), and only the keyboard
  wakes it; the line in the buffer is its own from the first character on (`LineOfReader`).
- `ShellProofs`: `SSpec => []RedirectionsOpen`, `[]PromptAfterCommand` and
  `[]WaitsForSomebody` for every `Commands`, `Programs` and `Child`, pipelines of any length
  included. `PipeInv` adds to `KIInv` the types of the tables and `Redirected`: a redirection is
  one of the task's own descriptors, a descriptor is the same page for all who have it, and
  each program has what its next call uses (`Fits`: the two ends of the pipe it is about to
  give away, and never one descriptor for both its input and its output, because close
  clears one redirection only). `SInv` adds the shell: hello, which makes no call, heads the
  list and takes the CPU when a call gives it up; the shell is listed, blocks in `read` and
  `waitpid` only, and its `child_count` is the number of its children, up to the width of
  the counter (`ShellUp`); and without background jobs it has one child at most, waits until
  that one exits, and has the keyboard only while it has none (`Front`). What another task can
  do to it is three things (`Beside`): nothing, the exit of a child, the end of a line that it
  asked for.
- `AddressSpaceProofs`: `ASpec => Spec`, so that what is proved of `Process` holds with
  memory; and, with `EndsEarly = FALSE`, `[]SharedByForkOnly`, `[]NotFreedWhileMapped` and
  `[]CountCoversTasks`, for any number of frames and pages. `MInv` joins the three with the
  types and says more of the first: a frame that two tasks have is the same page of both,
  not of their stacks, and they run one load (`SharedByCopy`); `AInv` adds that the caller of
  kill, which the kernel's page table makes fault, has a parent. That the frames of `Nth` differ
  is `RankIsBijective`: the rank of a frame among the free ones tells it. For these three the
  `vm_area_struct`s do not matter but for this: what is given back is the task's own.
  Of them `[]AreasOwned` is proved, whoever ends when (`EndsEarly` is free). A list is a
  sequence that the `next` pointers follow to NULL (`Linked`), and `Chain`, a loop with a bound,
  comes to just that sequence (`ChainIs`); `Held` says that the lists of the tasks and that of the
  free structs are such and have no struct in common. Three lemmas carry it through every
  operation: a struct on no list is written (`HeldBlank`), one leaves a list (`HeldLess`), one comes to its end
  (`HeldMore`). `AreasInv` adds what the areas say: the shape of an image for a
  live task, nothing for any other, so that fork and execve find a task struct without areas, and no heap page
  more than two above the heap. That `free_task_mm_struct` loses structs is no harm to this: it takes one from the list and
  clears the list (`FreeVmasHeld`).
- `LibraryProofs`: `LibrarySpec => []BlocksDisjoint` under `HeapFits`: the blocks lie in
  the order of the list below `brk`, the rest of memory has room for all that may still come
  (`Laid`), and each pointer a program holds is backed by a block in use of its own (`Owned`).
  `[]ClosedAtStart` for any archive; `OthersUntouched` under `WritesFit`; and
  `[]StreamInOrder`: the readers of a file share one offset, and `stream` is what lies below
  it, wherever seeks have led before. For that the archive is laid out by two functions defined by recursion, the address of each
  header and the search for an offset: that they exist and where they lead is shown by the
  least place at which it would go wrong (`LeastOf`, `AddressesExist`, `WalkExists`), an
  induction that needs no theorem with an operator for parameter.
- `InterruptsProofs`: `ISpec => []RegistersKept` and `ISpec => Spec`, so that all that is
  proved of `Process` holds of it with its registers. `JInv` joins `IInv` with the types of
  the frames, with the fact that whoever is listed and not on the CPU has in its struct the
  point it has reached (`FramesReady`), and that no fork gives out the pid of hello.
  `RegistersInOrder` is the order of the stubs; `EnterEffect`, `ReturnEffect` and
  `SwitchKeeps` are the three pieces of which every handler is made.
- `MemoryProofs`, of `PhysAlloc`, under `PhysAllocAssumption`: `Spec => []P` for `TypeOK`,
  `OnlyFreeMemory` and `CountIsReferences`, and `Spec => PA!Spec`. The inductive
  `AllocInv` adds that the bits which stand for a held page are set (`HeldMarked`)
  and that in the lower halves, all that the search finds, the bits of the kernel,
  of what is not memory and of page 0 stay set (`ReservedMarked`). The wrong bits are harmless because the search tests the same
  bits that marking sets, and a page that is found is in the lower half of its word
  (`FoundLow`), where the bit that clearing touches is one of its own
  (`MasksApart`). No assumption on where the kernel lies is needed.
  Of `PageTables`, under `PageTablesAssumption` (two levels or more, as many pages mapped at boot
  as one entry of the root covers and memory has tables for): `PTSpec => []KernelShared` and
  `PTSpec => ImplementsAddressMaps`, both from the inductive `PInv` (`TablesGood`), all three for
  programs that store nothing outside their VMAs (`~StrayStores`). It has two
  parts. `Tree` is about walks: two that come to the same table have come the same way, but
  that the kernel's half may be entered from any root (`Forest`); the roots have their last
  entry in common, which is present before the first copy (`LastShared`); no table is on offer,
  and what is on offer is clear. `Apart` is about pages: none leads to a table, so a
  program's write changes no walk, or to a frame on offer, and a frame is shared at one address
  only. `NewTable` and `SetLeaf` say which walks an entry changes, `MapVirtToPhyMaps` puts
  them together along the descent, and `Elsewhere` covers whatever is written beside the tables.
  That frames on offer are clear is used for every new table: it is what
  `free_task_mm_struct` contributes, and holds because a text page has nothing outside the part
  that it clears: `readElf` writes within the VMA into a frame that was clear, and so do programs.

Model-checked only: liveness (`SleepEnds`, `NoStarvation`, `QuietReadReturns`: TLAPS does
not prove fairness arguments here); `ListsDirectory`, whose names are selected from the
archive's order one by one; `ReadsFollowWrites`, which rests on the programs of `shell`, one writer to a pipe; `Terminal` and `Exercise`, whose parsers are
RECURSIVE operators, as are the functions of `Text` and `Strings`.

## Not modelled

- Set-up at boot: the encoding of GDT, TSS and IDT, PIC and PIT, discovery of memory,
  `map_all_phy`. It is straight-line code; its results are the initial states and the
  assumption that every gate is an interrupt gate.
- The one-shot programs and the texts of errors: sequential, and nothing depends on them.
- The flags of page table entries; copy on write and protection faults: no code sets the bits they
  would look at, and `unmap_phy` is never called.
- Writes past the count array and past the bitmap, which are undefined.
- Of `src/w1` the prompt, `errno`, scripts within pipelines, `cat`, and `ls`, whose directory
  buffer lies in a frame that is gone. Its `printf`, `malloc` and string functions are those of
  `w2`.
- `src/w2/sbush.c` and `src/w2/bin_backup`, older copies that are not built into the system, and the
  code that is not this program's.

## Plan

1. A theorem: `EchoIsLine` for a screen of any size.
2. A rank that proves no interrupt storm: how often an unbalanced stub is resumed before its
   task is ended.
3. A boot module: the order of the set-up calls against the first interrupt.
