------------------------------ MODULE Scheduler ------------------------------
(***************************************************************************)
(* The CFS-style scheduler of src/process/scheduler.rs, on one CPU.        *)
(*                                                                         *)
(* A method of Scheduler runs under the mutex SCHEDULER and takes the      *)
(* mutex PROCESS_MANAGER (PM) itself.  spin::Mutex is not reentrant: a     *)
(* method that calls another one which takes PM while it holds PM spins    *)
(* for ever.  Methods are operators on the record                          *)
(*   pm      the process table (module ProcessTable)                       *)
(*   sched   the fields of struct Scheduler                                *)
(*   stuck   TRUE once the CPU spins on a mutex that it holds              *)
(* and a method that is stuck goes no further.                             *)
(*                                                                         *)
(* A sleeper is kept with the number of ticks left until its wake_tick.    *)
(***************************************************************************)
EXTENDS ProcessTable, Sequences, SequencesExt

CONSTANTS SCHED_LATENCY, SCHED_MIN_GRANULARITY,   \* ticks: 16 and 2 in the source
          VMAX                                    \* u64::MAX, where vruntime saturates

ASSUME SchedAssumption ==
    /\ SCHED_LATENCY \in Nat \ {0} /\ SCHED_MIN_GRANULARITY \in Nat \ {0}
    /\ VMAX \in Nat

NICE_WEIGHTS ==
    << 88761, 71755, 56483, 46273, 36291, 29154, 23254, 18705, 14949, 11916,
        9548,  7620,  6100,  4904,  3906,  3121,  2501,  1991,  1586,  1277,
        1024,   820,   655,   526,   423,   335,   272,   215,   172,   137,
         110,    87,    70,    56,    45,    36,    29,    23,    18,    15 >>

BASE_WEIGHT == 1024

vtick_for_nice(nice) == (BASE_WEIGHT * BASE_WEIGHT) \div NICE_WEIGHTS[nice + 21]

AtLeast(a, b) == IF a < b THEN b ELSE a

slice_for(runnable) == AtLeast(SCHED_LATENCY \div AtLeast(runnable, 1), SCHED_MIN_GRANULARITY)

InitSched == [ready |-> <<>>, quantum |-> SCHED_LATENCY, quantum_counter |-> 0,
              sleepers |-> <<>>, min_vruntime |-> 0]

Queued(w) == ToSet(w.sched.ready)

-----------------------------------------------------------------------------
(* The run queue *)

Lifted(w, pid) ==
    IF Exists(w.pm, pid)
    THEN SetVruntime(w.pm, pid, AtLeast(w.pm.procs[pid].vruntime, w.sched.min_vruntime))
    ELSE w.pm

\* Mutant: a pid that is queued already is queued again.
enqueueTwice(w, pid) ==
    [w EXCEPT !.sched.ready = Append(@, pid),
              !.pm = Lifted(w, pid)]

\* enqueue without PM held: lift the vruntime to min_vruntime, push at the back.
enqueue(w, pid) ==
    IF pid \in Queued(w) THEN w
    ELSE [w EXCEPT !.sched.ready = Append(@, pid),
                   !.pm = Lifted(w, pid)]

\* enqueue called by a method that holds PM.
enqueue_holding_pm(w, pid) ==
    IF pid \in Queued(w) THEN w ELSE [w EXCEPT !.stuck = TRUE]

dequeue(w, pid) == [w EXCEPT !.sched.ready = SelectSeq(@, LAMBDA p : p # pid)]

\* The vruntime the pick compares: u64::MAX for a pid that has no process.
KeyOf(w, pid) == IF Exists(w.pm, pid) THEN w.pm.procs[pid].vruntime ELSE VMAX

\* Mutant: the queue is served in order of arrival.
BestIndexFifo(w) == 1

\* Index of the first entry with the smallest key; the strict comparison with
\* u64::MAX leaves index 1 when no key is below it.
BestIndex(w) ==
    CHOOSE i \in DOMAIN w.sched.ready :
        \A j \in DOMAIN w.sched.ready :
            \/ KeyOf(w, w.sched.ready[i]) < KeyOf(w, w.sched.ready[j])
            \/ KeyOf(w, w.sched.ready[i]) = KeyOf(w, w.sched.ready[j]) /\ i <= j

\* dequeue_next_with_pm and next_process: they differ only in who locks PM.
Picked(w) == w.sched.ready[BestIndex(w)]

\* Mutant: the picked pid stays in the queue.
next_processKeeps(w) ==
    LET best == KeyOf(w, Picked(w)) IN
    [w EXCEPT !.sched.min_vruntime = IF best # VMAX /\ best > @ THEN best ELSE @]

next_process(w) ==
    LET best == KeyOf(w, Picked(w)) IN
    [w EXCEPT !.sched.ready = RemoveAt(@, BestIndex(w)),
              !.sched.min_vruntime = IF best # VMAX /\ best > @ THEN best ELSE @]

-----------------------------------------------------------------------------
(* The tick *)

\* Mutant: the addition wraps around instead of saturating.
saturating_addWraps(v, d) == (v + d) % (VMAX + 1)

\* Mutant: the addition does not saturate.
saturating_addUncapped(v, d) == v + d

saturating_add(v, d) == IF v + d > VMAX THEN VMAX ELSE v + d

charge_running_vruntime(w) ==
    LET pid == w.pm.current
        p == w.pm.procs[pid]
    IN  IF ~Exists(w.pm, pid) THEN w
        ELSE [w EXCEPT !.pm = SetVruntime(@, pid,
                                  saturating_add(p.vruntime, vtick_for_nice(p.nice)))]

deliver_signals(w) ==
    LET pid == w.pm.current
        pm1 == deliver_pending_signals(w.pm, pid)
    IN  IF ~Exists(w.pm, pid) THEN w
        ELSE IF Fatal(w.pm, pid) # {} THEN dequeue([w EXCEPT !.pm = pm1], pid)
        ELSE [w EXCEPT !.pm = pm1]

\* The sleepers whose time has come and whose process is still Blocked.
ToWake(w) ==
    {i \in DOMAIN w.sched.sleepers :
        LET e == w.sched.sleepers[i] IN
        e.left = 0 /\ Exists(w.pm, e.pid) /\ w.pm.procs[e.pid].state = "Blocked"}

WakeChoices(w) == IF ToWake(w) = {} THEN {0} ELSE ToWake(w)

\* wake_sleepers drops the due entries whose process is not Blocked.  For one
\* that is, it holds PM while it calls enqueue.  A sleeper is never queued
\* (SleepersNotQueued), so the first one to wake is where the CPU spins; which
\* one is first depends on the order swap_remove leaves, hence the choice f.
wake_sleepers(w, f) ==
    IF f = 0 THEN [w EXCEPT !.sched.sleepers = SelectSeq(@, LAMBDA e : e.left # 0)]
    ELSE LET pid == w.sched.sleepers[f].pid IN
         enqueue_holding_pm([w EXCEPT !.pm = SetState(@, pid, "Ready"),
                                      !.sched.sleepers = RemoveAt(@, f)], pid)

preempt(w) ==
    LET pid == w.pm.current
        e == enqueue_holding_pm([w EXCEPT !.pm = SetState(@, pid, "Ready")], pid)
        running == Exists(w.pm, pid) /\ w.pm.procs[pid].state = "Running"
        w1 == IF running THEN e ELSE w
    IN  IF w1.stuck THEN w1 ELSE [w1 EXCEPT !.pm = SetCurrent(@, NoPid)]

Dispatch(w, pid) ==
    [w EXCEPT !.pm = SetCurrent(IF Exists(@, pid) THEN SetState(@, pid, "Running") ELSE @, pid)]

schedule_user(w) ==
    IF w.sched.ready = <<>> THEN w
    ELSE LET n == next_process(w) IN
         [Dispatch(n, Picked(w)) EXCEPT !.sched.quantum_counter = 0,
                                        !.sched.quantum = slice_for(Len(n.sched.ready) + 1)]

\* Tick bookkeeping of the two ISR paths; each step stops when it is stuck.
tick_kernel_only(w, f) ==
    LET w1 == wake_sleepers(w, f) IN IF w1.stuck THEN w1 ELSE deliver_signals(w1)

tick(w, f) ==
    LET w1 == tick_kernel_only(charge_running_vruntime(w), f)
        w2 == [w1 EXCEPT !.sched.quantum_counter = 0]
        w3 == preempt(w2)
    IN  IF w1.stuck THEN w1
        ELSE IF w1.sched.quantum_counter + 1 < w1.sched.quantum
        THEN [w1 EXCEPT !.sched.quantum_counter = @ + 1]
        ELSE IF w3.stuck THEN w3 ELSE schedule_user(w3)

-----------------------------------------------------------------------------
(* Calls made on behalf of a process *)

\* schedule holds PM and next_process locks it again unless the queue is empty.
schedule(w) == [w EXCEPT !.stuck = w.sched.ready # <<>>]

\* Mutant: the sleeper gives up the CPU but stays Running.
AsleepRunning(pm, pid) == SetCurrent(pm, NoPid)

Asleep(pm, pid) == SetCurrent(SetState(pm, pid, "Blocked"), NoPid)

sleep_ticks(w, ticks) ==
    LET pid == w.pm.current IN
    IF ~Exists(w.pm, pid) THEN w
    ELSE [w EXCEPT !.pm = Asleep(@, pid),
                   !.sched.sleepers = Append(@, [pid |-> pid, left |-> ticks])]

sleep_pid(w, pid, ticks) ==
    [w EXCEPT !.sched.sleepers = Append(@, [pid |-> pid, left |-> ticks])]

set_nice(w, pid, nice) ==
    IF Exists(w.pm, pid)
    THEN [w EXCEPT !.pm = SetNiceness(@, pid, IF nice < -20 THEN -20 ELSE IF nice > 19 THEN 19 ELSE nice)]
    ELSE w
=============================================================================
