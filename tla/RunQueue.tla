------------------------------- MODULE RunQueue -------------------------------
(***************************************************************************)
(* The run queue of src/process/scheduler.rs on its own: the public        *)
(* methods of Scheduler that need no other lock, called in any order.      *)
(* Module Preemption has the callers of this kernel; preempt, yield_cpu,   *)
(* unblock and wake_sleepers all reach enqueue with PROCESS_MANAGER held   *)
(* and hang there, so what the queue promises to a caller that does not is *)
(* stated here.                                                            *)
(***************************************************************************)
EXTENDS Scheduler

CONSTANT NiceValues    \* bound: the arguments of set_nice

ASSUME NiceAssumption == NiceValues \subseteq Int

VARIABLES pm, sched

vars == <<pm, sched>>

World == [pm |-> pm, sched |-> sched, stuck |-> FALSE]

Become(w) == pm' = w.pm /\ sched' = w.sched

Init == pm = InitPM /\ sched = InitSched

\* scheduler::spawn
spawn ==
    /\ CanCreate(pm)
    /\ Become(enqueue([World EXCEPT !.pm = create_process(pm)], pm.next_pid))

Enqueue(pid) == Exists(pm, pid) /\ Become(enqueue(World, pid))

Dequeue(pid) == Become(dequeue(World, pid))

\* dequeue_next, then the process is current: it is the one tick charges.
dequeue_next ==
    /\ sched.ready # <<>>
    /\ Become([next_process(World) EXCEPT !.pm.current = Picked(World)])

charge == Become(charge_running_vruntime(World))

SetNice(pid, nice) == Become(set_nice(World, pid, nice))

Next ==
    \/ spawn
    \/ dequeue_next
    \/ charge
    \/ \E pid \in Pids : Enqueue(pid) \/ Dequeue(pid)
    \/ \E pid \in Pids, nice \in NiceValues : SetNice(pid, nice)

Spec == Init /\ [][Next]_vars

-----------------------------------------------------------------------------
(* Properties *)

\* The table and the run queue hold pids and virtual times of their ranges:
\* vruntime saturates at u64::MAX and does not exceed it.
TypeOK ==
    /\ PMType(pm)
    /\ \A p \in Pids : pm.procs[p].vruntime <= VMAX
    /\ pm.current \in Pids \cup {NoPid}
    /\ sched.ready \in Seq(Pids)
    /\ sched.min_vruntime \in 0 .. VMAX

\* No queued process has a vruntime below min_vruntime: enqueue lifts newcomers
\* and the pick raises the minimum no further than the smallest queued one, so
\* a newcomer cannot monopolise the CPU.
QueuedNotBelowMin ==
    \A i \in DOMAIN sched.ready :
        Exists(pm, sched.ready[i]) => pm.procs[sched.ready[i]].vruntime >= sched.min_vruntime

\* A pid has at most one place in the run queue, so one dispatch gives it one
\* slice.
QueuedOnce == \A i, j \in DOMAIN sched.ready : sched.ready[i] = sched.ready[j] => i = j

\* Virtual time never runs backwards: neither min_vruntime nor the vruntime of
\* a process that stays in the table.
VruntimeMonotone ==
    [][/\ sched'.min_vruntime >= sched.min_vruntime
       /\ \A p \in Pids : Exists(pm, p) /\ Exists(pm', p) =>
              pm'.procs[p].vruntime >= pm.procs[p].vruntime]_vars
=============================================================================
