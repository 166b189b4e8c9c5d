----------------------------- MODULE ProcessTable -----------------------------
(***************************************************************************)
(* The process table of src/process/mod.rs: what each method of            *)
(* ProcessManager does to it.  Every method runs under the mutex           *)
(* PROCESS_MANAGER, so a method is an operator from the table before to    *)
(* the table after.                                                        *)
(*                                                                         *)
(* `pm' is the record of                                                   *)
(*   procs     the process of every pid, Absent where there is none        *)
(*   current   current_pid, NoPid for None                                 *)
(*   next_pid  the next pid to hand out                                    *)
(*   stacks    the kernel-stack slots in use (KernelStackPool of gdt.rs)   *)
(* The table is a Vec in pid order: pids are handed out in increasing      *)
(* order and a process is appended before the next pid is taken.           *)
(***************************************************************************)
EXTENDS Integers, FiniteSets

CONSTANTS MaxPid,     \* bound: pids handed out in one behaviour
          NumSlots    \* MAX_PROCESSES of gdt.rs, 64 in the source

ASSUME PidAssumption == MaxPid \in Nat \ {0}
ASSUME SlotAssumption == NumSlots \in Nat

Pids == 1 .. MaxPid
NoPid == 0
Slots == 1 .. NumSlots
NoSlot == 0

SIGKILL == 9
SIGTERM == 15
SIGCHLD == 17
SIGCONT == 18
SIGSTOP == 19
SIGTSTP == 20
SignalNumbers == 1 .. 31

default_action(sig) ==
    CASE sig = SIGCHLD -> "Ignore"
      [] sig = SIGCONT -> "Continue"
      [] sig \in {SIGSTOP, SIGTSTP} -> "Stop"
      [] OTHER -> "Terminate"

Live == {"Ready", "Running", "Blocked", "Waiting"}
Dead == {"Zombie", "Terminated"}

\* is_user and has_trap_frame are set together by new_user, cleared together
\* by new and copied together by clone: one field stands for both.  `top' is
\* kernel_stack_top, the slot whose stack it points into: it is not cleared
\* when kernel_stack_slot is taken.
Proc == [state : Live \cup Dead \cup {"Absent"}, parent : Pids \cup {NoPid},
         is_user : BOOLEAN, slot : Slots \cup {NoSlot}, top : Slots \cup {NoSlot}, code : Int,
         pending : SUBSET SignalNumbers, nice : -20 .. 19, vruntime : Nat]

Absent == [state |-> "Absent", parent |-> NoPid, is_user |-> FALSE,
           slot |-> NoSlot, top |-> NoSlot, code |-> -1, pending |-> {}, nice |-> 0, vruntime |-> 0]

Exists(pm, pid) == pid \in Pids /\ pm.procs[pid].state # "Absent"

InitPM == [procs |-> [p \in Pids |-> Absent], current |-> NoPid,
           next_pid |-> 1, stacks |-> {}]

\* One field of one process.
SetState(pm, pid, state) == [pm EXCEPT !.procs[pid].state = state]

SetPending(pm, pid, pending) == [pm EXCEPT !.procs[pid].pending = pending]

SetVruntime(pm, pid, v) == [pm EXCEPT !.procs[pid].vruntime = v]

SetNiceness(pm, pid, nice) == [pm EXCEPT !.procs[pid].nice = nice]

SetCurrent(pm, pid) == [pm EXCEPT !.current = pid]

-----------------------------------------------------------------------------
(* Kernel stacks: the first free slot of the pool *)

FreeSlots(pm) == Slots \ pm.stacks

allocate_kernel_stack(pm) ==
    CHOOSE s \in FreeSlots(pm) : \A t \in FreeSlots(pm) : s <= t

-----------------------------------------------------------------------------
(* Creation.  A pid beyond MaxPid is never handed out: the bound. *)

CanCreate(pm) == pm.next_pid \in Pids

\* Process::new, then push: a kernel process, with no kernel stack of its own.
create_process(pm) ==
    [pm EXCEPT !.next_pid = @ + 1,
               !.procs[pm.next_pid] = [Absent EXCEPT !.state = "Ready"]]

\* Process::new_user, then push.  new_user panics when the pool is empty.
create_user_process(pm) ==
    LET s == allocate_kernel_stack(pm) IN
    [pm EXCEPT !.next_pid = @ + 1,
               !.stacks = @ \cup {s},
               !.procs[pm.next_pid] =
                   [Absent EXCEPT !.state = "Ready", !.is_user = TRUE, !.slot = s, !.top = s]]

\* Process::clone takes a stack only for a user process and only if there is one.
CloneSlot(pm, parent) ==
    IF pm.procs[parent].is_user /\ FreeSlots(pm) # {} THEN allocate_kernel_stack(pm) ELSE NoSlot

clone(proc, parent, s) ==
    [proc EXCEPT !.state = "Ready", !.parent = parent, !.slot = s, !.top = s,
                 !.code = -1, !.pending = {}]

\* fork consumes a pid even when the parent does not exist.
fork(pm, parent) ==
    IF ~Exists(pm, parent) THEN [pm EXCEPT !.next_pid = @ + 1]
    ELSE LET s == CloneSlot(pm, parent) IN
         [pm EXCEPT !.next_pid = @ + 1,
                    !.stacks = @ \cup (IF s = NoSlot THEN {} ELSE {s}),
                    !.procs[pm.next_pid] = clone(pm.procs[parent], parent, s)]

-----------------------------------------------------------------------------
(* Death *)

WithoutCurrent(pm, pid) == IF pm.current = pid THEN NoPid ELSE pm.current

\* Mutant: the dead process keeps its slot number.
DieKeepingSlot(pm, pid, state, code) ==
    [pm EXCEPT !.procs[pid].state = state,
               !.procs[pid].code = code,
               !.stacks = @ \ {pm.procs[pid].slot},
               !.current = WithoutCurrent(pm, pid)]

\* kernel_stack_slot.take() and free_kernel_stack, then the new state.
Die(pm, pid, state, code) ==
    [pm EXCEPT !.procs[pid].state = state,
               !.procs[pid].code = code,
               !.procs[pid].slot = NoSlot,
               !.stacks = @ \ {pm.procs[pid].slot},
               !.current = WithoutCurrent(pm, pid)]

WakeParent(pm, pid) ==
    LET parent == pm.procs[pid].parent IN
    IF Exists(pm, parent) /\ pm.procs[parent].state = "Waiting"
    THEN SetState(pm, parent, "Ready") ELSE pm

exit(pm, pid, code) ==
    IF Exists(pm, pid) THEN WakeParent(Die(pm, pid, "Zombie", code), pid)
    ELSE SetCurrent(pm, WithoutCurrent(pm, pid))

\* SIGKILL and SIGSTOP act at once, on any process that is not Terminated;
\* every other signal is left pending.
send_signal(pm, pid, sig) ==
    IF ~Exists(pm, pid) \/ sig \notin SignalNumbers \/ pm.procs[pid].state = "Terminated"
    THEN pm
    ELSE IF sig = SIGKILL THEN Die(pm, pid, "Terminated", 128 + sig)
    ELSE IF sig = SIGSTOP THEN SetState(pm, pid, "Blocked")
    ELSE SetPending(pm, pid, pm.procs[pid].pending \cup {sig})

\* The loop of deliver_pending_signals, in signal order: the lowest signal that
\* terminates ends it, and SIGCONT comes before SIGTSTP.  No signal is ever
\* blocked: nothing writes signal_blocked.
Fatal(pm, pid) == {s \in pm.procs[pid].pending : default_action(s) = "Terminate"}

StateAfter(state, pending) ==
    IF SIGTSTP \in pending THEN "Blocked"
    ELSE IF SIGCONT \in pending /\ state = "Blocked" THEN "Ready" ELSE state

deliver_pending_signals(pm, pid) ==
    IF ~Exists(pm, pid) THEN pm
    ELSE IF Fatal(pm, pid) # {}
    THEN LET f == CHOOSE s \in Fatal(pm, pid) : \A t \in Fatal(pm, pid) : s <= t IN
         SetPending(Die(pm, pid, "Terminated", 128 + f), pid, {s \in pm.procs[pid].pending : s > f})
    ELSE SetPending(SetState(pm, pid, StateAfter(pm.procs[pid].state, pm.procs[pid].pending)), pid, {})

-----------------------------------------------------------------------------
(* Reaping *)

Children(pm, parent) == {c \in Pids : Exists(pm, c) /\ pm.procs[c].parent = parent}

Zombies(pm, parent) == {c \in Children(pm, parent) : pm.procs[c].state = "Zombie"}

\* The child that wait reaps: the first zombie of the table, NoPid if none.
Reaped(pm, parent) ==
    IF Zombies(pm, parent) = {} THEN NoPid
    ELSE CHOOSE c \in Zombies(pm, parent) : \A d \in Zombies(pm, parent) : c <= d

wait(pm, parent) ==
    IF Zombies(pm, parent) # {} THEN [pm EXCEPT !.procs[Reaped(pm, parent)] = Absent]
    ELSE IF /\ \E c \in Children(pm, parent) : pm.procs[c].state # "Terminated"
            /\ Exists(pm, parent)
    THEN SetState(pm, parent, "Waiting")
    ELSE pm

cleanup_dead_processes(pm) ==
    [pm EXCEPT !.procs = [p \in Pids |-> IF pm.procs[p].state \in Dead THEN Absent ELSE pm.procs[p]],
               !.current = NoPid]

-----------------------------------------------------------------------------
(* Consistency of the table and the kernel-stack pool *)

IsTable(pm) == pm = [procs |-> pm.procs, current |-> pm.current,
                     next_pid |-> pm.next_pid, stacks |-> pm.stacks]

PMType(pm) ==
    /\ IsTable(pm)
    /\ pm.procs \in [Pids -> Proc]
    /\ pm.next_pid \in 1 .. MaxPid + 1
    /\ pm.stacks \subseteq Slots
    /\ \A p \in Pids : p >= pm.next_pid => pm.procs[p] = Absent

\* A slot is in use exactly when one process owns it, and a dead one owns none.
StacksExclusive(pm) ==
    /\ \A s \in Slots : s \in pm.stacks <=> \E p \in Pids : pm.procs[p].slot = s
    /\ \A p, q \in Pids :
          p # q /\ pm.procs[p].slot = pm.procs[q].slot => pm.procs[p].slot = NoSlot
    /\ \A p \in Pids : pm.procs[p].state \in Dead => pm.procs[p].slot = NoSlot
=============================================================================
