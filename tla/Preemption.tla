------------------------------ MODULE Preemption ------------------------------
(***************************************************************************)
(* Preemptive user processes on one CPU: the timer ISR of interrupts.rs,   *)
(* the process syscalls of syscall/handler.rs and the shell commands that  *)
(* create, signal and wait for processes, over the scheduler and the       *)
(* process table.  (renice changes only the rate of virtual time: see       *)
(* RunQueue.)                                                              *)
(*                                                                         *)
(* `mode' is what the CPU executes when no ISR runs:                       *)
(*   shell    the shell task, in kernel mode                               *)
(*   spawned  spawn_preemptive_test, before it enters the idle loop        *)
(*   idle     the HLT loop of enter_preemptive_idle                        *)
(*   user     ring 3: the process on_cpu, or, when on_cpu is NoPid, a      *)
(*            program started by exec_with_return_proper                   *)
(*   wait4    the retry loop of sys_wait4                                  *)
(*   hlt      the HLT loop at the end of sys_exit                          *)
(*   stuck    a spin::Mutex this CPU already holds                         *)
(* Syscalls run with interrupts off (SFMASK clears IF) until they enable   *)
(* them, so a syscall is one step.  rsp0 is the slot whose stack TSS.RSP0  *)
(* points to, NoSlot for the boot stack.                                   *)
(***************************************************************************)
EXTENDS Scheduler

CONSTANTS SleepTicks,   \* bound: the sleeps requested
          Sent,         \* bound: the signals sent
          MaxRetries    \* max_iters of sys_wait4, 200000 in the source

ASSUME PreemptionAssumption ==
    /\ SleepTicks \subseteq Nat /\ Sent \subseteq SignalNumbers
    /\ MaxRetries \in Nat \ {0}

VARIABLES pm, sched, mode, on_cpu, PREEMPTIVE_MODE, KERNEL_FRAME_SAVED,
          KERNEL_RETURN_FRAME,   \* the mode the saved frame resumes
          rsp0, wait_args

vars == <<pm, sched, mode, on_cpu, PREEMPTIVE_MODE, KERNEL_FRAME_SAVED,
          KERNEL_RETURN_FRAME, rsp0, wait_args>>

idle_vars == <<PREEMPTIVE_MODE, KERNEL_FRAME_SAVED, KERNEL_RETURN_FRAME>>

World == [pm |-> pm, sched |-> sched, stuck |-> FALSE]

Modes == {"shell", "spawned", "idle", "user", "wait4", "hlt", "stuck"}

NoWait == [pid |-> NoPid, left |-> 0]

Init ==
    /\ pm = InitPM
    /\ sched = InitSched
    /\ mode = "shell"
    /\ on_cpu = NoPid
    /\ PREEMPTIVE_MODE = FALSE
    /\ KERNEL_FRAME_SAVED = FALSE
    /\ KERNEL_RETURN_FRAME = "none"
    /\ rsp0 = NoSlot
    /\ wait_args = NoWait

\* The tables become w's, and the CPU goes on in mode m unless it is stuck.
Become(w, m) ==
    /\ pm' = w.pm
    /\ sched' = w.sched
    /\ mode' = IF w.stuck THEN "stuck" ELSE m

-----------------------------------------------------------------------------
(* The shell *)

spawn_user(w) ==
    enqueue([w EXCEPT !.pm = create_user_process(w.pm)], w.pm.next_pid)

\* Two programs, with interrupts off.
spawn_preemptive_test ==
    /\ mode = "shell"
    /\ {pm.next_pid, pm.next_pid + 1} \subseteq Pids
    /\ Cardinality(FreeSlots(pm)) >= 2
    /\ Become(spawn_user(spawn_user(World)), "spawned")
    /\ UNCHANGED <<on_cpu, idle_vars, rsp0, wait_args>>

enter_preemptive_idle ==
    /\ mode = "spawned"
    /\ mode' = "idle"
    /\ PREEMPTIVE_MODE' = TRUE
    /\ KERNEL_FRAME_SAVED' = FALSE
    /\ UNCHANGED <<pm, sched, on_cpu, KERNEL_RETURN_FRAME, rsp0, wait_args>>

\* The idle loop sees the flag cleared: reset RSP0, drop the dead processes.
finish_preemptive_test ==
    /\ mode = "idle" /\ ~PREEMPTIVE_MODE
    /\ mode' = "shell"
    /\ rsp0' = NoSlot
    /\ pm' = cleanup_dead_processes(pm)
    /\ UNCHANGED <<sched, on_cpu, idle_vars, wait_args>>

\* `sleep n &': a kernel process, Blocked at once, and its wake-up.
run_background(ticks) ==
    /\ mode = "shell" /\ CanCreate(pm)
    /\ Become(sleep_pid([World EXCEPT !.pm = SetState(create_process(pm), pm.next_pid, "Blocked")],
                        pm.next_pid, ticks), mode)
    /\ UNCHANGED <<on_cpu, idle_vars, rsp0, wait_args>>

cmd_kill(pid, sig) ==
    /\ mode = "shell"
    /\ Become([World EXCEPT !.pm = send_signal(pm, pid, sig)], mode)
    /\ UNCHANGED <<on_cpu, idle_vars, rsp0, wait_args>>

\* A program run to completion outside the process table.
exec_with_return_proper ==
    /\ mode = "shell"
    /\ mode' = "user"
    /\ on_cpu' = NoPid
    /\ UNCHANGED <<pm, sched, idle_vars, rsp0, wait_args>>

-----------------------------------------------------------------------------
(* Syscalls: they act on pm.current, whatever runs on the CPU *)

ExitCurrent ==
    IF pm.current = NoPid THEN World
    ELSE dequeue([World EXCEPT !.pm = SetCurrent(exit(pm, pm.current, 0), NoPid)],
                 pm.current)

\* Without PREEMPTIVE_MODE: schedule(), then back to the shell.
sys_exit ==
    /\ mode = "user"
    /\ IF PREEMPTIVE_MODE THEN Become(ExitCurrent, "hlt")
       ELSE Become(schedule(ExitCurrent), "shell")
    /\ UNCHANGED <<on_cpu, idle_vars, rsp0, wait_args>>

\* sys_clone makes the same call.
sys_fork ==
    /\ mode = "user" /\ pm.current # NoPid /\ CanCreate(pm)
    /\ Become([World EXCEPT !.pm = fork(pm, pm.current)], mode)
    /\ UNCHANGED <<on_cpu, idle_vars, rsp0, wait_args>>

\* Kill verdict of a seccomp filter: the process becomes a zombie and the
\* dispatcher returns to it.
seccomp_kill ==
    /\ mode = "user" /\ pm.current # NoPid
    /\ Become([World EXCEPT !.pm = exit(pm, pm.current, 137)], mode)
    /\ UNCHANGED <<on_cpu, idle_vars, rsp0, wait_args>>

sys_kill(pid, sig) ==
    /\ mode = "user"
    /\ Become([World EXCEPT !.pm = send_signal(pm, pid, sig)], mode)
    /\ UNCHANGED <<on_cpu, idle_vars, rsp0, wait_args>>

sys_nanosleep(ticks) ==
    /\ mode = "user"
    /\ Become(schedule(sleep_ticks(World, ticks)), mode)
    /\ UNCHANGED <<on_cpu, idle_vars, rsp0, wait_args>>

\* One of the `left' rounds of sys_wait4: reap the first zombie, whichever it
\* is; a zombie that is not the wanted one counts as no result.  Without a
\* result, WNOHANG returns and a blocking call halts until an interrupt.
WaitRound(pid, left, nohang) ==
    LET r == IF pm.current = NoPid THEN NoPid ELSE Reaped(pm, pm.current)
        done == pm.current = NoPid \/ (r # NoPid /\ pid \in {-1, r}) \/ nohang
    IN  /\ pm' = IF pm.current = NoPid THEN pm ELSE wait(pm, pm.current)
        /\ mode' = IF done THEN "user" ELSE "wait4"
        /\ wait_args' = IF done THEN NoWait ELSE [pid |-> pid, left |-> left - 1]
        /\ UNCHANGED <<sched, on_cpu, idle_vars, rsp0>>

sys_wait4(pid, nohang) == mode = "user" /\ WaitRound(pid, MaxRetries, nohang)

wait4_retry ==
    /\ mode = "wait4" /\ wait_args.left > 0
    /\ WaitRound(wait_args.pid, wait_args.left, FALSE)

\* The retry ceiling: return 0.
wait4_give_up ==
    /\ mode = "wait4" /\ wait_args.left = 0
    /\ mode' = "user"
    /\ wait_args' = NoWait
    /\ UNCHANGED <<pm, sched, on_cpu, idle_vars, rsp0>>

-----------------------------------------------------------------------------
(* The timer interrupt *)

Aged(sleepers) ==
    [i \in DOMAIN sleepers |-> [sleepers[i] EXCEPT !.left = IF @ = 0 THEN 0 ELSE @ - 1]]

TickClock(w) == [w EXCEPT !.sched.sleepers = Aged(@)]

\* Mutant: RSP0 is not reloaded.
StackOfStale(w, pid) == rsp0

StackOf(w, pid) ==
    IF Exists(w.pm, pid) /\ w.pm.procs[pid].top # NoSlot THEN w.pm.procs[pid].top ELSE rsp0

Runnable(w, pid) == Exists(w.pm, pid) /\ w.pm.procs[pid].is_user

\* Mutant: the ISR returns to the interrupted frame after a switch.
timer_from_userOldFrame ==
    /\ mode = "user"
    /\ \E f \in WakeChoices(TickClock(World)) :
         LET w == tick(TickClock(World), f) IN
         /\ Become(w, "user")
         /\ rsp0' = IF w.stuck THEN rsp0 ELSE StackOf(w, w.pm.current)
    /\ UNCHANGED <<on_cpu, idle_vars, wait_args>>

\* Ring 3 was interrupted: full tick, then whatever current_pid names.
timer_from_user ==
    /\ mode = "user"
    /\ \E f \in WakeChoices(TickClock(World)) :
         LET w == tick(TickClock(World), f)
             new == w.pm.current
         IN  /\ Become(w, "user")
             /\ on_cpu' = IF ~w.stuck /\ Runnable(w, new) THEN new ELSE on_cpu
             /\ rsp0' = IF w.stuck THEN rsp0
                        ELSE IF Runnable(w, new) THEN StackOf(w, new)
                        ELSE StackOf(w, pm.current)
    /\ UNCHANGED <<idle_vars, wait_args>>

\* Mutant: the frame is saved on every dispatch.
SaveFrameAlways ==
    /\ KERNEL_FRAME_SAVED' = TRUE
    /\ KERNEL_RETURN_FRAME' = mode

\* Mutant: the flag is set and the frame is not copied.
SaveFrameFlagOnly ==
    /\ KERNEL_FRAME_SAVED' = TRUE
    /\ UNCHANGED KERNEL_RETURN_FRAME

\* Only the first dispatch of a session saves the interrupted kernel frame.
SaveFrame ==
    /\ KERNEL_FRAME_SAVED' = TRUE
    /\ KERNEL_RETURN_FRAME' = IF KERNEL_FRAME_SAVED THEN KERNEL_RETURN_FRAME ELSE mode

\* Pick a process with PM held; one that cannot run is enqueued with PM held.
DispatchFromKernel(w) ==
    LET pid == Picked(w)
        n == next_process(w)
        d == IF Runnable(n, pid) THEN Dispatch(n, pid) ELSE enqueue_holding_pm(n, pid)
    IN  /\ SaveFrame
        /\ Become(d, "user")
        /\ on_cpu' = IF d.stuck THEN on_cpu ELSE pid
        /\ rsp0' = IF d.stuck THEN rsp0 ELSE StackOf(d, pid)
        /\ wait_args' = NoWait
        /\ UNCHANGED PREEMPTIVE_MODE

\* Nothing runs and nothing is ready: back to the saved kernel frame.
LeavePreemptiveMode(w) ==
    /\ Become(w, KERNEL_RETURN_FRAME)
    /\ PREEMPTIVE_MODE' = FALSE
    /\ KERNEL_FRAME_SAVED' = FALSE
    /\ wait_args' = NoWait
    /\ UNCHANGED <<on_cpu, KERNEL_RETURN_FRAME, rsp0>>

timer_from_kernel ==
    /\ mode \notin {"user", "stuck"}
    /\ \E f \in WakeChoices(TickClock(World)) :
         LET w == tick_kernel_only(TickClock(World), f) IN
         IF ~w.stuck /\ PREEMPTIVE_MODE /\ w.pm.current = NoPid
         THEN IF w.sched.ready # <<>> THEN DispatchFromKernel(w) ELSE LeavePreemptiveMode(w)
         ELSE Become(w, mode) /\ UNCHANGED <<on_cpu, idle_vars, rsp0, wait_args>>

\* The CPU spins with interrupts off: nothing happens any more.
spinning == mode = "stuck" /\ UNCHANGED vars

Next ==
    \/ spawn_preemptive_test
    \/ enter_preemptive_idle
    \/ finish_preemptive_test
    \/ \E t \in SleepTicks : run_background(t)
    \/ \E p \in Pids, s \in Sent : cmd_kill(p, s)
    \/ exec_with_return_proper
    \/ sys_exit
    \/ sys_fork
    \/ seccomp_kill
    \/ \E p \in Pids, s \in Sent : sys_kill(p, s)
    \/ \E t \in SleepTicks : sys_nanosleep(t)
    \/ \E p \in Pids \cup {-1}, nohang \in BOOLEAN : sys_wait4(p, nohang)
    \/ wait4_retry
    \/ wait4_give_up
    \/ timer_from_user
    \/ timer_from_kernel
    \/ spinning

Spec == Init /\ [][Next]_vars

\* The preemption test alone: its two programs print, which leaves this state
\* alone, and exit.
TestNext ==
    \/ spawn_preemptive_test
    \/ enter_preemptive_idle
    \/ finish_preemptive_test
    \/ sys_exit
    \/ timer_from_user
    \/ timer_from_kernel
    \/ spinning

\* The PIT never stops, code between two interrupts goes on, and the two
\* programs reach their call of exit.
FairTestSpec ==
    /\ Init /\ [][TestNext]_vars
    /\ WF_vars(timer_from_user) /\ WF_vars(timer_from_kernel) /\ WF_vars(sys_exit)
    /\ WF_vars(enter_preemptive_idle) /\ WF_vars(finish_preemptive_test)

-----------------------------------------------------------------------------
(* Properties *)

\* The process table, the queues and the registers that the ISR switches hold
\* pids, slots and virtual times of their ranges.
TypeOK ==
    /\ PMType(pm)
    /\ pm.current \in Pids \cup {NoPid}
    /\ sched.ready \in Seq(Pids)
    /\ sched.min_vruntime \in 0 .. VMAX
    /\ mode \in Modes
    /\ on_cpu \in Pids \cup {NoPid}
    /\ rsp0 \in Slots \cup {NoSlot}

\* The kernel-stack pool and the process table agree: a slot is in use exactly
\* when one process owns it, whatever mix of spawn, fork, exit, signals and
\* clean-up came before.  A slot freed twice or leaked would break it.
KernelStacksExclusive == StacksExclusive(pm)

\* Only the process that current_pid names is in state Running: no path of the
\* ISR, of a syscall or of a signal leaves a Running process behind.
RunningIsCurrent == \A p \in Pids : pm.procs[p].state = "Running" => pm.current = p

\* timer_preempt_handler stores the interrupted frame in the process that
\* current_pid names: in ring 3 that is the process on the CPU or nobody, so
\* no process ever resumes with the registers of another one.
FrameSavedToItsOwner == mode = "user" => pm.current \in {NoPid, on_cpu}

\* An interrupt from ring 3 pushes its frame on the kernel stack that was given
\* to the process it interrupted, and on the boot stack when the program has
\* no process.  (A process whose stack was freed under it has none to match.)
TrapStackMatches ==
    mode = "user" =>
        IF on_cpu = NoPid THEN rsp0 = NoSlot
        ELSE pm.procs[on_cpu].top # NoSlot => rsp0 = pm.procs[on_cpu].top

\* When preemptive mode ends, the frame that the ISR returns is the one of the
\* idle loop, never one of the HLT loop of sys_exit ("or we'll return to the
\* wrong stack", interrupts.rs:298).
ReturnsToIdleLoop ==
    [][PREEMPTIVE_MODE /\ ~PREEMPTIVE_MODE' => mode' = "idle"]_vars

\* A pid that waits on the sleep queue is not on the run queue, and no pid is
\* on one of the two queues twice, so one sleep gives one wake-up and one wake-up
\* gives one dispatch.
SleepersNotQueued ==
    /\ \A i \in DOMAIN sched.sleepers : sched.sleepers[i].pid \notin ToSet(sched.ready)
    /\ \A i, j \in DOMAIN sched.ready : sched.ready[i] = sched.ready[j] => i = j
    /\ \A i, j \in DOMAIN sched.sleepers : sched.sleepers[i].pid = sched.sleepers[j].pid => i = j

\* README.md:270 says that kill ends a process ("kill (завершить процесс)"):
\* a Terminated process is never dispatched again.
KillIsFinal ==
    [][\A p \in Pids : pm.procs[p].state = "Terminated" =>
          pm'.procs[p].state \in {"Terminated", "Absent"}]_vars

\* spawn_preemptive_test "Returns after both processes have exited"
\* (userspace.rs:333): once the programs are spawned the shell comes back.
TestReturns == mode = "spawned" ~> mode = "shell"
=============================================================================
