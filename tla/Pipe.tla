-------------------------------- MODULE Pipe --------------------------------
(***************************************************************************)
(* Pipes and redirection, sys/syscall.c: a pipe is one page and two        *)
(* descriptors, each with an offset of its own in every task that has it.  *)
(* One flag and one wait slot serve all the pipes.                         *)
(*                                                                         *)
(* Of the bytes of a page the model keeps whether anything wrote them.     *)
(***************************************************************************)
EXTENDS Keyboard, TLC

CONSTANTS
  FirstFd, \* fd_count after the files of tarfs
  MaxFd    \* bound: descriptors are given out below it

ASSUME PipeAssumption == FirstFd \in Nat /\ FirstFd > 2 /\ MaxFd \in Nat

VARIABLES
  files,     \* task->pipe: the page and the offset of each descriptor
  writeFd,   \* write_redirection_fd, 0 for none
  readFd,    \* read_redirection_fd, 0 for none
  fdCount,   \* fd_count
  writeFlag, \* pipe_write_flag
  readQueue, \* pipe_read_wait_queue, never cleared
  asked,     \* count: what the task in the wait slot asked for
  page       \* of each page, the bytes that were written

tables == <<files, writeFd, readFd>>
pipes  == <<tables, fdCount, writeFlag, readQueue, asked, page>>
pvars  == <<kvars, pipes>>

None == [fd \in {} |-> 0]

PInit ==
  /\ KInit
  /\ files = [t \in Tasks |-> None]
  /\ writeFd = [t \in Tasks |-> 0] /\ readFd = [t \in Tasks |-> 0]
  /\ fdCount = FirstFd
  /\ writeFlag = FALSE /\ readQueue = NULL /\ asked = 0
  /\ page = None

UserCode(t) == ~crashed /\ current = t /\ cr3 = t /\ pid[t] # HelloPid

\* is_file_pipe
IsPipe(t, fd) == fd \in DOMAIN files[t]

\* Mutant: the new task gets the redirections, not the descriptors.
InheritedNot(f, t, none) ==
  [u \in Tasks |-> IF u \in Listed \ Listed' \/ u \in Listed' \ Listed
                   THEN none ELSE f[u]]

\* What fork and execve copy to the task they create, and free_task_struct
\* clears.
Inherited(f, t, none) ==
  [u \in Tasks |-> IF u \in Listed' \ Listed THEN f[t]
                   ELSE IF u \in Listed \ Listed' THEN none ELSE f[u]]

\* A step of Process by t, or of the timer.
PipeStep(t, step) ==
  /\ step
  /\ StillIn(inRead) /\ UNCHANGED <<flag, waiter, want, typed>>
  /\ files' = Inherited(files, t, None)
  /\ writeFd' = Inherited(writeFd, t, 0)
  /\ readFd' = Inherited(readFd, t, 0)
  /\ UNCHANGED <<fdCount, writeFlag, readQueue, asked, page>>

-----------------------------------------------------------------------------
(* The calls. *)

\* add_pipe_to_task and remove_pipe_from_task: descriptors are never reused.
AddPipe(f, t, fd, addr) ==
  [f EXCEPT ![t] = [g \in DOMAIN @ \cup {fd} |->
                      IF g = fd THEN [addr |-> addr, offset |-> 0] ELSE @[g]]]

RemovePipe(f, t, fd) ==
  [f EXCEPT ![t] = [g \in DOMAIN @ \ {fd} |-> @[g]]]

\* The page is named for the end to read from; the other end is the next number.
SystemPipe(t) ==
  /\ UserCode(t) /\ fdCount + 2 <= MaxFd
  /\ files' = AddPipe(AddPipe(files, t, fdCount, fdCount),
                      t, fdCount + 1, fdCount)
  /\ page' = page @@ [p \in {fdCount} |-> {}]
  /\ fdCount' = fdCount + 2
  /\ UNCHANGED <<kvars, writeFd, readFd, writeFlag, readQueue, asked>>

Dup2(t, dst, src) ==
  /\ UserCode(t)
  /\ writeFd' = IF src = 1 THEN [writeFd EXCEPT ![t] = dst] ELSE writeFd
  /\ readFd' = IF src = 0 THEN [readFd EXCEPT ![t] = dst] ELSE readFd
  /\ UNCHANGED <<kvars, files, fdCount, writeFlag, readQueue, asked, page>>

Close(t, fd) ==
  /\ UserCode(t) /\ IsPipe(t, fd)
  /\ files' = RemovePipe(files, t, fd)
  /\ writeFd' = IF writeFd[t] = fd THEN [writeFd EXCEPT ![t] = 0] ELSE writeFd
  /\ readFd' = IF readFd[t] = fd /\ writeFd[t] # fd
               THEN [readFd EXCEPT ![t] = 0] ELSE readFd
  /\ UNCHANGED <<kvars, fdCount, writeFlag, readQueue, asked, page>>

\* The offset that read_from_pipe and write_to_pipe leave, whatever was there;
\* with no such descriptor they do nothing.
Advanced(f, t, fd, n) ==
  IF IsPipe(t, fd) THEN [f EXCEPT ![t][fd].offset = @ + n] ELSE f

\* The bytes that write_to_pipe writes.
Bytes(t, fd, n) ==
  IF IsPipe(t, fd)
  THEN [page EXCEPT ![files[t][fd].addr] =
          @ \cup (files[t][fd].offset .. files[t][fd].offset + n - 1)]
  ELSE page

\* write and read of a descriptor of a pipe: nobody is woken, nobody waits.
WriteEnd(t, fd, n) ==
  /\ UserCode(t) /\ IsPipe(t, fd)
  /\ page' = Bytes(t, fd, n)
  /\ files' = Advanced(files, t, fd, n)
  /\ UNCHANGED <<kvars, writeFd, readFd, fdCount, writeFlag, readQueue, asked>>

ReadEnd(t, fd, n) ==
  /\ UserCode(t) /\ IsPipe(t, fd)
  /\ files' = Advanced(files, t, fd, n)
  /\ UNCHANGED <<kvars, writeFd, readFd, fdCount, writeFlag, readQueue, asked,
                 page>>

\* Mutant: the flag stays set for a read to come.
WakeUpFlagged(f) ==
  IF readQueue = NULL THEN writeFlag' = TRUE /\ files' = f /\ UNCHANGED state
  ELSE /\ writeFlag' = TRUE
       /\ state' = [state EXCEPT ![readQueue] = "RUNNABLE"]
       /\ files' = Advanced(f, readQueue, readFd[readQueue], asked)

\* wake_up_waiting_task, after a write that left f of the files.  The task in the
\* wait slot is made RUNNABLE, whatever it does by now, and its bytes are read
\* for it, to its address in the memory of the writer.
WakeUp(f) ==
  IF readQueue = NULL THEN writeFlag' = TRUE /\ files' = f /\ UNCHANGED state
  ELSE /\ writeFlag' = FALSE
       /\ state' = [state EXCEPT ![readQueue] = "RUNNABLE"]
       /\ files' = Advanced(f, readQueue, readFd[readQueue], asked)

\* write(1, ..).
WriteOut(t, n) ==
  /\ UserCode(t)
  /\ LET fd == writeFd[t]
     IN  IF fd = 0 THEN UNCHANGED <<state, files, writeFlag, page>>
         ELSE page' = Bytes(t, fd, n) /\ WakeUp(Advanced(files, t, fd, n))
  /\ UNCHANGED <<family, lists, sleepTime, current, cr3, ticks, crashed, flag,
                 waiter, want, typed, writeFd, readFd, fdCount, readQueue, asked>>
  /\ StillIn(inRead)

\* read(0, ..) with standard input redirected, and from the keyboard.
ReadFlagged(t, n) ==
  /\ UserCode(t) /\ readFd[t] # 0 /\ writeFlag
  /\ writeFlag' = FALSE
  /\ files' = Advanced(files, t, readFd[t], n)
  /\ UNCHANGED <<kvars, writeFd, readFd, fdCount, readQueue, asked, page>>

\* add_to_pipe_read_waiting_queue takes the slot, whoever has it, and the CPU
\* from t.
AddToQueue(t) ==
  /\ readQueue' = t
  /\ TimerInterrupt(taskList, [state EXCEPT ![t] = "WAITING"], sleepTime,
                    NULL, t)

ReadBlocked(t, n) ==
  /\ UserCode(t) /\ readFd[t] # 0 /\ ~writeFlag
  /\ AddToQueue(t) /\ asked' = n
  /\ UNCHANGED <<family, lists, crashed, flag, waiter, want, typed, tables,
                 fdCount, writeFlag, page>>
  /\ StillIn(inRead)

ReadIn(t, n) ==
  \/ ReadFlagged(t, n)
  \/ ReadBlocked(t, n)
  \/ readFd[t] = 0 /\ Read(t, n) /\ UNCHANGED pipes

-----------------------------------------------------------------------------
\* A redirection of a task leads to a pipe that the task has: what it writes is
\* not dropped and what it reads is not made up; and a descriptor stands for
\* one page, whichever task has it (fork, execve, free_task_struct, close).
RedirectionsOpen ==
  /\ \A t \in Listed :
       {writeFd[t], readFd[t]} \ {0} \subseteq DOMAIN files[t]
  /\ \A t, u \in Listed : \A fd \in DOMAIN files[t] \cap DOMAIN files[u] :
       files[t][fd].addr = files[u][fd].addr

\* As long as there has been one pipe, with one task that writes to it, a read
\* through a redirection has a write of its own before it, whether it finds the
\* flag or a write wakes it: no write counts for two reads.  The order does not
\* depend on the sizes, so writes of one byte and reads of a whole Line show it.
\* The bytes of a read are written ones only if no read before it asked for more
\* than its write gave; the first read always gets some.
ReadsFollowWrites ==
  fdCount = FirstFd + 2 =>
    \A t \in Listed : readFd[t] # 0 =>
      LET f == files[t][readFd[t]]
      IN  f.offset <= Line * Cardinality(page[f.addr])

=============================================================================
