---------------------------- MODULE UserPrograms ----------------------------
(***************************************************************************)
(* Loading, running and ending ring 3 programs: kernel/core/usermode.c and *)
(* the process and file part of kernel/core/syscall.c, on AddressSpaces.   *)
(*                                                                         *)
(* run_loaded_image runs to usermode_enter without interruption by other   *)
(* users of the page allocator; one action is one of its steps that takes  *)
(* a frame, with the clean-up of a failure in the same action.  What the   *)
(* loaders make of a file is its verdict: a negative code or 0 for an      *)
(* image that is run.                                                      *)
(***************************************************************************)
EXTENDS AddressSpaces, Sequences

CONSTANTS IMAGE_PAGES, BASE,        \* USER_IMAGE_PAGES and the page of USER_PROGRAM_BASE
          PROCESS_COUNT, FD_COUNT,
          Verdicts,                 \* codes of files the loaders refuse
          ExitCodes, FileSize,      \* exit codes used; file -> size
          PAGE_BYTES,               \* bytes of a page, for buffers of system calls
          MaxPid                    \* bound: programs started

Files == DOMAIN FileSize
Slots == 1 .. PROCESS_COUNT
Fds == 0 .. FD_COUNT - 1
AddressLimit == TABLES * ENTRIES * PAGE_BYTES
STACK == BASE + IMAGE_PAGES
ClosedFds == [fd \in Fds |-> [open |-> FALSE, file |-> 0, offset |-> 0]]
Unused == [pid |-> 0, state |-> "unused", exit_code |-> 0, fds |-> ClosedFds]

VARIABLES pc,             \* where run_loaded_image is: idle, image, map, enter, running
          stack, images, mapped,  \* its frames, and how many are mapped
          processes, next_pid, current_process_index,
          result,         \* what the last run or system call returned
          boot, leaked,   \* history: frames taken at boot; lost by usermode_run_test
          exits           \* history: pid -> exit code

process == <<processes, next_pid, current_process_index, exits>>
vars == <<paging, process, pc, stack, images, mapped, result, boot, leaked>>

Elements(s) == {s[i] : i \in DOMAIN s}

Init ==
  /\ boot \in SUBSET Frames /\ used = boot
  /\ PagingInit
  /\ pc = "idle" /\ stack = 0 /\ images = <<>> /\ mapped = 0
  /\ processes = [i \in Slots |-> Unused] /\ next_pid = 1 /\ current_process_index = 0
  /\ result = 0 /\ leaked = {} /\ exits = <<>>

(* Mutant: the frame of the stack is not freed. *)
GiveUpKeepsStack(code) ==
  /\ Destroy(Elements(images))
  /\ pc' = "idle" /\ stack' = 0 /\ images' = <<>> /\ mapped' = 0 /\ result' = code
  /\ UNCHANGED <<process, boot, leaked>>

(* The end of run_loaded_image on a failure: all it took is freed. *)
GiveUp(code) ==
  /\ Destroy(Elements(images) \cup {stack})
  /\ pc' = "idle" /\ stack' = 0 /\ images' = <<>> /\ mapped' = 0 /\ result' = code
  /\ UNCHANGED <<process, boot, leaked>>

(* usermode_run_program and the two loaders: a file is refused, ... *)
Refuse(code) ==
  /\ pc = "idle" /\ result' = code
  /\ UNCHANGED <<paging, process, pc, stack, images, mapped, boot, leaked>>

(* ... or its image is run: a frame for the stack and an address space.    *)
Prepare ==
  LET s == AllocFrame(used)
      new == CreateSpace(Plus(used, s))
      f == AllocFrame(Plus(used, s))
  IN  /\ pc = "idle" /\ next_pid =< MaxPid
      /\ overwritten' = IF f = 0 THEN overwritten ELSE overwritten \cup Spill(f, Plus(used, s))
      /\ IF s = 0 \/ new = NoSpace
         THEN /\ result' = -22
              /\ UNCHANGED <<used, space, stack, pc>>
         ELSE /\ used' = used \cup {s} \cup SpaceFrames(new)
              /\ space' = new /\ stack' = s /\ pc' = "image"
              /\ UNCHANGED result
      /\ UNCHANGED <<pte, kernel_directory, process_directory, current_space, process, images, mapped, boot, leaked>>

(* One image page. *)
AllocImage ==
  /\ pc = "image"
  /\ LET f == AllocFrame(used) IN
     IF f = 0 THEN GiveUp(-22)
     ELSE /\ used' = used \cup {f} /\ images' = Append(images, f)
          /\ pc' = IF Len(images) + 1 = IMAGE_PAGES THEN "map" ELSE pc
          /\ UNCHANGED <<pte, kernel_directory, process_directory, space, current_space, overwritten,
                         process, stack, mapped, result, boot, leaked>>

(* The image pages and the stack are mapped, in this order. *)
MapNext ==
  LET v == BASE + mapped
  IN  /\ pc = "map"
      /\ IF CannotMap(v) THEN GiveUp(IF v = STACK THEN -24 ELSE -23)
         ELSE /\ MapPage(v, IF v = STACK THEN stack ELSE images[mapped + 1])
              /\ mapped' = mapped + 1
              /\ pc' = IF v = STACK THEN "enter" ELSE pc
              /\ UNCHANGED <<kernel_directory, current_space, overwritten, process, stack, images,
                             result, boot, leaked>>

(* allocate_process: the first unused slot, else the first exited one. *)
AllocateProcess ==
  LET reusable(state) == {i \in Slots : processes[i].state = state}
  IN  IF reusable("unused") # {} THEN Min(reusable("unused")) ELSE Min(reusable("exited"))

(* Mutant: the slot keeps the pid of its last program. *)
EnterReusesPid ==
  /\ pc = "enter" /\ pc' = "running"
  /\ processes' = [processes EXCEPT ![AllocateProcess] = [@ EXCEPT !.state = "running"]]
  /\ current_process_index' = AllocateProcess
  /\ next_pid' = next_pid + 1
  /\ current_space' = "process"
  /\ UNCHANGED <<used, pte, kernel_directory, process_directory, space, overwritten, exits, stack,
                 images, mapped, result, boot, leaked>>

(* The process gets its slot and CR3 its space; the program runs. *)
Enter ==
  /\ pc = "enter" /\ pc' = "running"
  /\ processes' = [processes EXCEPT ![AllocateProcess] =
                     [Unused EXCEPT !.pid = next_pid, !.state = "running"]]
  /\ current_process_index' = AllocateProcess
  /\ next_pid' = next_pid + 1
  /\ current_space' = "process"
  /\ UNCHANGED <<used, pte, kernel_directory, process_directory, space, overwritten, exits, stack,
                 images, mapped, result, boot, leaked>>

(* The exit system call and the rest of run_loaded_image. *)
Exit(code) ==
  LET p == processes[current_process_index] IN
  /\ pc = "running"
  /\ Destroy(Elements(images) \cup {stack})
  /\ processes' = [processes EXCEPT ![current_process_index] =
                     [p EXCEPT !.state = "exited", !.exit_code = code,
                               !.fds = [fd \in Fds |-> [p.fds[fd] EXCEPT !.open = FALSE]]]]
  /\ exits' = Append(exits, code)
  /\ current_process_index' = 0
  /\ pc' = "idle" /\ stack' = 0 /\ images' = <<>> /\ mapped' = 0 /\ result' = code
  /\ UNCHANGED <<next_pid, boot, leaked>>

(* A system call that returns code and may change the descriptors of the   *)
(* current process.                                                        *)
Syscall(fds, code) ==
  /\ result' = code
  /\ processes' = [processes EXCEPT ![current_process_index].fds = fds]
  /\ UNCHANGED <<paging, next_pid, current_process_index, exits, pc, stack, images, mapped, boot, leaked>>

CurrentFds == processes[current_process_index].fds

(* paging_get_physical: 0 when nothing is mapped. *)
Physical(a) ==
  LET f == FrameOf(CurrentDirectory, a \div PAGE_BYTES)
  IN  IF f = NONE THEN 0 ELSE (f * PAGE_BYTES) + (a % PAGE_BYTES)

(* Mutant: only the first byte is looked up. *)
UserBufferFirstByte(ptr, size) ==
  ptr # 0 /\ size # 0 /\ size =< PAGE_BYTES /\ Physical(ptr) # 0

(* user_buffer_is_valid, on addresses that wrap. *)
UserBufferIsValid(ptr, size) ==
  /\ ptr # 0 /\ size # 0 /\ size =< PAGE_BYTES
  /\ (ptr + size) % AddressLimit >= ptr
  /\ Physical(ptr) # 0 /\ Physical(ptr + size - 1) # 0

(* A system call whose buffer is refused. *)
BadBuffer ==
  /\ \E ptr \in 0 .. AddressLimit - 1 : ~ UserBufferIsValid(ptr, 1)
  /\ Syscall(CurrentFds, -1)

(* user_process_fd_open: the lowest closed descriptor. *)
FdOpen(file) ==
  LET closed == {fd \in Fds : ~ CurrentFds[fd].open} IN
  IF file \notin Files THEN Syscall(CurrentFds, -2)
  ELSE IF closed = {} THEN Syscall(CurrentFds, -3)
  ELSE Syscall([CurrentFds EXCEPT ![Min(closed)] = [open |-> TRUE, file |-> file, offset |-> 0]],
               Min(closed))

(* user_process_fd_read advances by what diskfs_read_index returned, or    *)
(* not at all when that fails; a descriptor that is not open is refused,   *)
(* as by user_process_fd_close.                                            *)
IsOpen(fd) == fd \in Fds /\ CurrentFds[fd].open
FdRead(fd, size) ==
  IF ~ IsOpen(fd) THEN Syscall(CurrentFds, -1)
  ELSE LET left == FileSize[CurrentFds[fd].file] - CurrentFds[fd].offset
           n == Min({size, left})
       IN  Syscall([CurrentFds EXCEPT ![fd].offset = @ + n], n) \/ Syscall(CurrentFds, -2)
FdClose(fd) ==
  IF ~ IsOpen(fd) THEN Syscall(CurrentFds, -1)
  ELSE Syscall([CurrentFds EXCEPT ![fd].open = FALSE], 0)

(* user_process_wait_pid. *)
WaitPid(pid) ==
  LET found == {i \in Slots : processes[i].state # "unused" /\ processes[i].pid = pid}
  IN  IF found = {} THEN -1
      ELSE IF processes[Min(found)].state = "exited" THEN processes[Min(found)].exit_code ELSE -2

(* user_process_reap_exited, from the shell between two programs. *)
Reap ==
  /\ pc = "idle"
  /\ processes' = [i \in Slots |-> IF processes[i].state = "exited"
                                   THEN [Unused EXCEPT !.fds = processes[i].fds] ELSE processes[i]]
  /\ UNCHANGED <<paging, next_pid, current_process_index, exits, pc, stack, images, mapped, result, boot, leaked>>

(* usermode_run_test: a code and a stack frame, mapped in place and freed; *)
(* when only one can be had it is never freed.                             *)
UserTest ==
  LET code == AllocFrame(used)
      other == AllocFrame(Plus(used, code))
  IN  /\ pc = "idle"
      /\ IF other = 0
         THEN /\ result' = -1 /\ used' = Plus(used, code) /\ leaked' = Plus(leaked, code)
         ELSE result' = 42 /\ UNCHANGED <<used, leaked>>
      /\ UNCHANGED <<pte, kernel_directory, process_directory, space, current_space, overwritten,
                     process, pc, stack, images, mapped, boot>>

(* syscall_handle, for the calls that use the process table and files. *)
SystemCall ==
  /\ pc = "running"
  /\ \/ \E file \in Files \cup {0} : FdOpen(file)
     \/ \E fd \in 0 .. FD_COUNT, size \in 1 .. 2 : FdRead(fd, size)
     \/ \E fd \in 0 .. FD_COUNT : FdClose(fd)
     \/ \E pid \in 0 .. MaxPid + 1 : Syscall(CurrentFds, WaitPid(pid))
     \/ Syscall(CurrentFds, processes[current_process_index].pid)
     \/ BadBuffer

Next ==
  \/ \E code \in Verdicts : Refuse(code)
  \/ Prepare \/ AllocImage \/ MapNext \/ Enter
  \/ \E code \in ExitCodes : Exit(code)
  \/ SystemCall
  \/ Reap \/ UserTest

Spec == Init /\ [][Next]_vars

-----------------------------------------------------------------------------
(* Between two programs every frame is where it was: no failure, at        *)
(* whatever allocation it strikes, and no exit leaks a frame or frees one  *)
(* that is not the program's (usermode_run_test aside, which does leak).   *)
FramesReturned == pc = "idle" => used = boot \cup leaked

(* While a program runs, its window shows its own image pages and stack,   *)
(* all different and nobody else's, and everything else is the kernel's.   *)
(* struct address_space does not fit into its frame, and the word that is  *)
(* cleared behind it may be in use; but pages are handed out from below,   *)
(* so it is never one of the program's.                                    *)
ProgramSeesItsOwn ==
  pc = "running" =>
    /\ Cardinality(Elements(images) \cup {stack}) = IMAGE_PAGES + 1
    /\ (Elements(images) \cup {stack}) \cap (boot \cup leaked \cup overwritten \cup SpaceFrames(space)) = {}
    /\ \A v \in VirtualPages : FrameOf(process_directory, v) =
         IF v \in BASE .. STACK - 1 THEN images[v - BASE + 1]
         ELSE IF v = STACK THEN stack ELSE FrameOf(kernel_directory, v)

(* wait answers with the exit code of that very program, -2 exactly for    *)
(* the one that runs and -1 only for one whose slot was reaped or reused.  *)
(* The running process is the current one, so that a free slot is always   *)
(* found, and open descriptors belong to it.                               *)
WaitTellsTruth ==
  /\ \A i \in Slots : (processes[i].state = "running") = (pc = "running" /\ i = current_process_index)
  /\ pc = "running" => WaitPid(next_pid - 1) = -2
  /\ \A pid \in 1 .. next_pid - 1 :
       LET code == WaitPid(pid) IN
       \/ code = -1 /\ \A i \in Slots : processes[i].pid # pid
       \/ code = -2 /\ pid = Len(exits) + 1
       \/ pid =< Len(exits) /\ code = exits[pid]
  /\ \A i, j \in Slots : processes[i].pid = processes[j].pid => i = j \/ processes[i].pid = 0
  /\ \A i \in Slots, fd \in Fds : processes[i].fds[fd].open => processes[i].state = "running"

(* syscall.c:21-32: a buffer that user_buffer_is_valid accepts is mapped   *)
(* throughout in the current space, although only its first and last byte  *)
(* are looked up.  Whether ring 3 may use the pages is not looked at.      *)
ValidBufferIsMapped ==
  \A ptr \in 0 .. AddressLimit - 1, size \in 0 .. PAGE_BYTES + 1 :
    UserBufferIsValid(ptr, size) =>
      \A a \in ptr .. ptr + size - 1 : FrameOf(CurrentDirectory, a \div PAGE_BYTES) # NONE
=============================================================================
