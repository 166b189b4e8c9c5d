------------------------------ MODULE Descriptors ------------------------------
(***************************************************************************)
(* File descriptors: the tables of src/syscall/filedesc.rs, the system      *)
(* calls of src/syscall/handler.rs that act on them, and the pipes of       *)
(* module Pipe that they refer to.                                          *)
(*                                                                          *)
(* A table belongs to a process, or to the kernel: programs that have no    *)
(* process use the kernel's.  A call runs with interrupts off, so it is one *)
(* step, and the calls of different processes interleave.  Of a regular     *)
(* file only the descriptor matters here: path, flags and offset are left   *)
(* out, and so are the calls that only read them.                           *)
(*                                                                          *)
(* The first three descriptors are reserved: they are open from the start,  *)
(* close refuses them, and read of STDIN and write of the other two go to   *)
(* the keyboard and the serial port whatever dup2 put there.                *)
(***************************************************************************)
EXTENDS Pipe, FiniteSets

CONSTANTS MAX_OPEN_FILES,   \* 256 in the source
          NumStd,           \* how many descriptors are reserved: 3 in the source
          Pids,             \* bound: the processes that exist at a time
          Kernel,           \* the owner of KERNEL_FD_TABLE
          Programs          \* bound: the owners whose programs make calls

ASSUME DescriptorAssumption ==
    /\ MAX_OPEN_FILES \in Nat /\ NumStd \in 1 .. MAX_OPEN_FILES
    /\ Kernel \notin Pids /\ Programs \subseteq Pids \cup {Kernel}

STDIN == 0
Fds == 0 .. MAX_OPEN_FILES - 1
Reserved == 0 .. NumStd - 1
Allocatable == Fds \ Reserved

VARIABLES tables,   \* the table of each owner; NoTable for a pid without one
          forked    \* the processes made by fork: they are never dispatched

desc_vars == <<tables, forked, pipes, io>>

-----------------------------------------------------------------------------
(* A table *)

None == [kind |-> "None", id |-> 0]
Regular == [kind |-> "Regular", id |-> 0]
PipeRead(i) == [kind |-> "PipeRead", id |-> i]
PipeWrite(i) == [kind |-> "PipeWrite", id |-> i]

Files == {None, Regular} \cup {PipeRead(i) : i \in PipeIds} \cup {PipeWrite(i) : i \in PipeIds}

NoTable == [fd \in {} |-> None]

\* Mutant: the table is not given its full size.
with_stdioUnsized == [fd \in Reserved |-> Regular]

with_stdio == [fd \in Fds |-> IF fd \in Reserved THEN Regular ELSE None]

FreeFds(t) == {fd \in Allocatable : t[fd] = None}

LowestFd(t) == CHOOSE fd \in FreeFds(t) : \A f \in FreeFds(t) : fd <= f

Put(t, fd, file) == [t EXCEPT ![fd] = file]

\* The pipes after close_with_pipe_cleanup of a descriptor for `file'.
Released(ps, file) ==
    IF file.kind = "PipeRead" THEN ClosedRead(ps, file.id)
    ELSE IF file.kind = "PipeWrite" THEN ClosedWrite(ps, file.id)
    ELSE ps

-----------------------------------------------------------------------------
(* The calls of owner o *)

Callers == {o \in Programs : tables[o] # NoTable /\ o \notin forked}

sys_open(o) ==
    /\ FreeFds(tables[o]) # {}
    /\ tables' = [tables EXCEPT ![o] = Put(@, LowestFd(@), Regular)]
    /\ UNCHANGED <<forked, pipes, io>>

sys_close(o, fd) ==
    /\ fd \in Allocatable /\ tables[o][fd] # None
    /\ pipes' = Released(pipes, tables[o][fd])
    /\ tables' = [tables EXCEPT ![o] = Put(@, fd, None)]
    /\ UNCHANGED <<forked, io>>

sys_dup(o, old_fd) ==
    /\ tables[o][old_fd] # None /\ FreeFds(tables[o]) # {}
    /\ tables' = [tables EXCEPT ![o] = Put(@, LowestFd(@), @[old_fd])]
    /\ UNCHANGED <<forked, pipes, io>>

\* Mutant: the target is overwritten without being closed.
sys_dup2NoClose(o, old_fd, new_fd) ==
    /\ tables[o][old_fd] # None /\ old_fd # new_fd
    /\ tables' = [tables EXCEPT ![o] = Put(@, new_fd, @[old_fd])]
    /\ UNCHANGED <<forked, pipes, io>>

sys_dup2(o, old_fd, new_fd) ==
    /\ tables[o][old_fd] # None /\ old_fd # new_fd
    /\ pipes' = Released(pipes, tables[o][new_fd])
    /\ tables' = [tables EXCEPT ![o] = Put(@, new_fd, @[old_fd])]
    /\ UNCHANGED <<forked, io>>

\* Table and pipes after sys_pipe took the pipe i.  Without a descriptor for the
\* read end both ends are closed; without one for the write end the read
\* descriptor is closed again, and then the write end.
Piped(t, ps, i) ==
    LET t1 == Put(t, LowestFd(t), PipeRead(i)) IN
    IF FreeFds(t) = {} THEN [table |-> t, pipes |-> ClosedWrite(ClosedRead(ps, i), i)]
    ELSE IF FreeFds(t1) = {}
    THEN [table |-> Put(t1, LowestFd(t), None), pipes |-> ClosedWrite(Released(ps, PipeRead(i)), i)]
    ELSE [table |-> Put(t1, LowestFd(t1), PipeWrite(i)), pipes |-> ps]

sys_pipe(o) ==
    /\ FreeIds(pipes) # {}
    /\ LET i == FirstFree(pipes)
           r == Piped(tables[o], Set(pipes, i, NewPipe), i)
       IN  tables' = [tables EXCEPT ![o] = r.table] /\ pipes' = r.pipes
    /\ UNCHANGED <<forked, io>>

sys_read(o, fd, len) ==
    /\ fd # STDIN /\ tables[o][fd].kind = "PipeRead"
    /\ pipe_read(tables[o][fd].id, len)
    /\ UNCHANGED <<tables, forked>>

sys_write(o, fd, data) ==
    /\ fd \notin Reserved \ {STDIN} /\ tables[o][fd].kind = "PipeWrite"
    /\ pipe_write(tables[o][fd].id, data)
    /\ UNCHANGED <<tables, forked>>

\* The shell command polltest: a pipe and a byte in it, but no descriptor, and
\* neither end is closed.  A kernel task is not preempted, so it is one step.
cmd_polltest ==
    /\ FreeIds(pipes) # {}
    /\ LET i == FirstFree(pipes) IN
       \E x \in Bytes : /\ pipes' = AfterPipeWrite(Set(pipes, i, NewPipe), i, <<x>>)
                        /\ io' = <<x>>
    /\ UNCHANGED <<tables, forked>>

-----------------------------------------------------------------------------
(* Processes *)

\* create_process and create_user_process: register_process.
create_process(p) ==
    /\ tables[p] = NoTable
    /\ tables' = [tables EXCEPT ![p] = with_stdio]
    /\ UNCHANGED <<forked, pipes, io>>

\* clone_process_fds
fork(p, child) ==
    /\ tables[child] = NoTable
    /\ tables' = [tables EXCEPT ![child] = tables[p]]
    /\ forked' = forked \cup {child}
    /\ UNCHANGED <<pipes, io>>

\* wait and cleanup_dead_processes: unregister_process drops the table.
unregister_process(p) ==
    /\ tables[p] # NoTable
    /\ tables' = [tables EXCEPT ![p] = NoTable]
    /\ forked' = forked \ {p}
    /\ UNCHANGED <<pipes, io>>

-----------------------------------------------------------------------------

DescInit ==
    /\ PipeInit
    /\ tables = [o \in Pids \cup {Kernel} |-> IF o = Kernel THEN with_stdio ELSE NoTable]
    /\ forked = {}

DescNext ==
    \/ \E o \in Callers :
        \/ sys_open(o) \/ sys_pipe(o)
        \/ \E fd \in Fds :
            \/ sys_close(o, fd) \/ sys_dup(o, fd)
            \/ \E new_fd \in Fds : sys_dup2(o, fd, new_fd)
            \/ \E len \in 1 .. MaxLen : sys_read(o, fd, len)
            \/ \E data \in Data : sys_write(o, fd, data)
    \/ \E p \in Pids :
        \/ create_process(p) \/ unregister_process(p)
        \/ \E o \in Callers \ {Kernel} : fork(o, p)
    \/ cmd_polltest

DescSpec == DescInit /\ [][DescNext]_desc_vars

-----------------------------------------------------------------------------
(* Properties *)

\* A registered table has MAX_OPEN_FILES descriptors, each free or one of the
\* kinds of file, and the kernel keeps its table.
DescTypeOK ==
    /\ PipeTypeOK
    /\ \A o \in Pids \cup {Kernel} : tables[o] = NoTable \/ tables[o] \in [Fds -> Files]
    /\ tables[Kernel] # NoTable
    /\ forked \subseteq Pids

\* Some table has a descriptor for f.
Held(f) == \E o \in Pids \cup {Kernel} : \E fd \in DOMAIN tables[o] : tables[o][fd] = f

\* An open end that no descriptor refers to.
ReadOrphan(i) == pipes[i].read_open /\ ~Held(PipeRead(i))
WriteOrphan(i) == pipes[i].write_open /\ ~Held(PipeWrite(i))

\* An open end is left behind that nobody can close only when a process is
\* reaped, which drops its table without closing what is in it, and by polltest,
\* which never closes its pipe.  No order of open, close, dup, dup2, fork and
\* failing sys_pipe leaks an end, and with it one of the MAX_PIPES slots,
\* descriptors that outlived their pipe included.
LeaksOnlyByReapOrPolltest ==
    [][\/ \A i \in PipeIds : (ReadOrphan(i)' => ReadOrphan(i)) /\ (WriteOrphan(i)' => WriteOrphan(i))
       \/ cmd_polltest
       \/ \E p \in Pids : unregister_process(p)]_desc_vars

\* A read end that is "still open" (pipe.rs:21) as long as there is a descriptor
\* for it, and the same for the write end: dup "Returns new fd pointing to same
\* file" (filedesc.rs:181), so closing one of the two leaves the other usable.
EndsMatchDescriptors ==
    \A i \in PipeIds :
        /\ Held(PipeRead(i)) => pipes[i].read_open
        /\ Held(PipeWrite(i)) => pipes[i].write_open
=============================================================================
