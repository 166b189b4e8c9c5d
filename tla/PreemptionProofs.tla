--------------------------- MODULE PreemptionProofs ---------------------------
(***************************************************************************)
(* KernelStacksExclusive for any number of pids, slots, signals and ticks. *)
(* The inductive invariant is the consistency of the process table (PMInv) *)
(* with a run queue whose min_vruntime is a natural number, which enqueue  *)
(* writes into the table.                                                  *)
(***************************************************************************)
EXTENDS Preemption, ProcessTableProofs, FiniteSetTheorems

IsSched(s) == s = [ready |-> s.ready, quantum |-> s.quantum,
                   quantum_counter |-> s.quantum_counter, sleepers |-> s.sleepers,
                   min_vruntime |-> s.min_vruntime]

IsWorld(w) == w = [pm |-> w.pm, sched |-> w.sched, stuck |-> w.stuck]

SchedInv(s) == IsSched(s) /\ s.min_vruntime \in Nat

WorldInv(w) == IsWorld(w) /\ PMInv(w.pm) /\ SchedInv(w.sched)

StackInv == PMInv(pm) /\ SchedInv(sched)

LEMMA WorldOf == ASSUME StackInv PROVE WorldInv(World)
BY DEF StackInv, WorldInv, World, IsWorld

\* What each method of the scheduler leaves of the invariant.
LEMMA SetPM ==
    ASSUME NEW w, WorldInv(w), NEW table, PMInv(table)
    PROVE  WorldInv([w EXCEPT !.pm = table]) /\ [w EXCEPT !.pm = table].sched = w.sched
<1>0. PICK v : v = [w EXCEPT !.pm = table]  BY Zenon
<1>1. IsWorld(v) /\ v.pm = table /\ v.sched = w.sched  BY <1>0 DEF WorldInv, IsWorld
<1> QED  BY <1>0, <1>1 DEF WorldInv

LEMMA DequeueInv ==
    ASSUME NEW w, WorldInv(w), NEW pid
    PROVE  WorldInv(dequeue(w, pid))
<1> DEFINE r == SelectSeq(w.sched.ready, LAMBDA p : p # pid)
<1>0. PICK v : v = [w EXCEPT !.sched.ready = r]  BY Zenon
<1>a. dequeue(w, pid) = v  BY <1>0 DEF dequeue
<1> HIDE DEF r
<1>1. IsWorld(v) /\ v.pm = w.pm /\ v.sched = [w.sched EXCEPT !.ready = r]
  BY <1>0 DEF WorldInv, IsWorld
<1>2. SchedInv(v.sched)  BY <1>1 DEF WorldInv, SchedInv, IsSched
<1> QED  BY <1>a, <1>1, <1>2 DEF WorldInv

\* A change of the scheduler's own fields, min_vruntime aside.
LEMMA SetSched ==
    ASSUME NEW w, WorldInv(w), NEW s, SchedInv(s), NEW v,
           IsWorld(v), v.pm = w.pm, v.sched = s
    PROVE  WorldInv(v)
BY DEF WorldInv

LEMMA AtLeastNat == ASSUME NEW a \in Nat, NEW b \in Nat PROVE AtLeast(a, b) \in Nat
BY DEF AtLeast

LEMMA LiftedInv ==
    ASSUME NEW w, WorldInv(w), NEW pid
    PROVE  PMInv(Lifted(w, pid))
<1>1. CASE Exists(w.pm, pid)
  <2> DEFINE x == AtLeast(w.pm.procs[pid].vruntime, w.sched.min_vruntime)
  <2>1. x \in Nat
    BY <1>1, AtLeastNat, Zenon DEF Exists, WorldInv, SchedInv, PMInv, PMType, Proc
  <2> HIDE DEF x
  <2>2. PMInv(SetVruntime(w.pm, pid, x))  BY <1>1, <2>1, SetVruntimeInv DEF WorldInv
  <2> QED  BY <1>1, <2>2 DEF Lifted, x
<1>2. CASE ~Exists(w.pm, pid)  BY <1>2 DEF Lifted, WorldInv
<1> QED  BY <1>1, <1>2

LEMMA EnqueueInv ==
    ASSUME NEW w, WorldInv(w), NEW pid
    PROVE  WorldInv(enqueue(w, pid))
<1>1. CASE pid \in Queued(w)  BY <1>1 DEF enqueue
<1>2. CASE pid \notin Queued(w)
  <2> DEFINE r == Append(w.sched.ready, pid)
             t == Lifted(w, pid)
  <2>0. PICK v : v = [w EXCEPT !.sched.ready = r, !.pm = t]  OBVIOUS
  <2>1. enqueue(w, pid) = v  BY <1>2, <2>0 DEF enqueue
  <2>2. PMInv(t)  BY LiftedInv
  <2> HIDE DEF r, t
  <2>3. IsWorld(v) /\ v.pm = t /\ v.sched = [w.sched EXCEPT !.ready = r]
    BY <2>0, Zenon DEF WorldInv, IsWorld
  <2>4. SchedInv(v.sched)  BY <2>3 DEF WorldInv, SchedInv, IsSched
  <2> QED  BY <2>1, <2>2, <2>3, <2>4 DEF WorldInv
<1> QED  BY <1>1, <1>2

LEMMA EnqueueHoldingInv ==
    ASSUME NEW w, WorldInv(w), NEW pid
    PROVE  WorldInv(enqueue_holding_pm(w, pid))
<1>0. PICK v : v = [w EXCEPT !.stuck = TRUE]  BY Zenon
<1>1. IsWorld(v) /\ v.pm = w.pm /\ v.sched = w.sched  BY <1>0, Zenon DEF WorldInv, IsWorld
<1>2. WorldInv(v)  BY <1>1 DEF WorldInv
<1> QED  BY <1>0, <1>2 DEF enqueue_holding_pm

LEMMA KeyNat == ASSUME NEW w, WorldInv(w), NEW pid PROVE KeyOf(w, pid) \in Nat
BY SchedAssumption DEF KeyOf, WorldInv, PMInv, PMType, Exists, Proc

LEMMA NextProcessInv ==
    ASSUME NEW w, WorldInv(w)
    PROVE  WorldInv(next_process(w))
<1> DEFINE best == KeyOf(w, Picked(w))
           r == RemoveAt(w.sched.ready, BestIndex(w))
           m == IF best # VMAX /\ best > w.sched.min_vruntime THEN best ELSE w.sched.min_vruntime
<1>0. PICK v : v = [w EXCEPT !.sched.ready = r, !.sched.min_vruntime = m]  OBVIOUS
<1>1. best \in Nat  BY KeyNat
<1> HIDE DEF best
<1>2. m \in Nat  BY <1>1 DEF WorldInv, SchedInv
<1>3. next_process(w) = v  BY <1>0 DEF next_process, best, IsSched, SchedInv, WorldInv, IsWorld
<1> HIDE DEF r, m
<1>4. IsWorld(v) /\ v.pm = w.pm /\ v.sched = [w.sched EXCEPT !.ready = r, !.min_vruntime = m]
  BY <1>0, Zenon DEF WorldInv, IsWorld
<1>5. SchedInv(v.sched)  BY <1>2, <1>4, Zenon DEF WorldInv, SchedInv, IsSched
<1> QED  BY <1>3, <1>4, <1>5 DEF WorldInv

LEMMA DispatchInv ==
    ASSUME NEW w, WorldInv(w), NEW pid
    PROVE  WorldInv(Dispatch(w, pid))
<1> DEFINE t == IF Exists(w.pm, pid) THEN SetState(w.pm, pid, "Running") ELSE w.pm
<1>1. PMInv(t)  BY SetStateInv DEF WorldInv, Live, Dead
<1> HIDE DEF t
<1>2. PMInv(SetCurrent(t, pid))  BY <1>1, SetCurrentInv
<1>3. WorldInv([w EXCEPT !.pm = SetCurrent(t, pid)])  BY <1>2, SetPM
<1> QED  BY <1>3 DEF Dispatch, t

\* NICE_WEIGHTS has no zero: the division of vtick_for_nice is defined.
LEMMA VtickNat == ASSUME NEW n \in -20 .. 19 PROVE vtick_for_nice(n) \in Nat
<1>1. \A i \in 1 .. 40 : NICE_WEIGHTS[i] \in Nat \ {0}  BY DEF NICE_WEIGHTS
<1>2. n + 21 \in 1 .. 40  OBVIOUS
<1> DEFINE d == NICE_WEIGHTS[n + 21]
<1>3. d \in Nat \ {0}  BY <1>1, <1>2
<1> HIDE DEF d
<1>4. (BASE_WEIGHT * BASE_WEIGHT) \div d \in Nat  BY <1>3 DEF BASE_WEIGHT
<1> QED  BY <1>4 DEF vtick_for_nice, d

LEMMA ChargeInv ==
    ASSUME NEW w, WorldInv(w)
    PROVE  WorldInv(charge_running_vruntime(w))
<1> DEFINE pid == w.pm.current
           x == saturating_add(w.pm.procs[pid].vruntime, vtick_for_nice(w.pm.procs[pid].nice))
<1>1. CASE Exists(w.pm, pid)
  <2>1. w.pm.procs[pid].vruntime \in Nat /\ vtick_for_nice(w.pm.procs[pid].nice) \in Nat
    BY <1>1, VtickNat DEF Exists, WorldInv, PMInv, PMType, Proc
  <2>2. x \in Nat  BY <2>1, SchedAssumption DEF saturating_add
  <2> HIDE DEF x, pid
  <2>3. PMInv(SetVruntime(w.pm, pid, x))  BY <1>1, <2>2, SetVruntimeInv DEF WorldInv
  <2>4. WorldInv([w EXCEPT !.pm = SetVruntime(w.pm, pid, x)])  BY <2>3, SetPM
  <2> QED  BY <1>1, <2>4 DEF charge_running_vruntime, x, pid
<1>2. CASE ~Exists(w.pm, pid)  BY <1>2 DEF charge_running_vruntime
<1> QED  BY <1>1, <1>2

LEMMA DeliverSignalsInv ==
    ASSUME NEW w, WorldInv(w)
    PROVE  WorldInv(deliver_signals(w))
<1> DEFINE t == deliver_pending_signals(w.pm, w.pm.current)
<1>1. PMInv(t)  BY DeliverInv DEF WorldInv
<1> HIDE DEF t
<1>2. WorldInv([w EXCEPT !.pm = t])  BY <1>1, SetPM
<1>3. WorldInv(dequeue([w EXCEPT !.pm = t], w.pm.current))  BY <1>2, DequeueInv
<1> QED  BY <1>2, <1>3 DEF deliver_signals, t

LEMMA WakeSleepersInv ==
    ASSUME NEW w, WorldInv(w), NEW f \in WakeChoices(w)
    PROVE  WorldInv(wake_sleepers(w, f))
<1>1. CASE f = 0
  <2> DEFINE r == SelectSeq(w.sched.sleepers, LAMBDA e : e.left # 0)
  <2>0. PICK v : v = [w EXCEPT !.sched.sleepers = r]  BY Zenon
  <2>1. wake_sleepers(w, f) = v  BY <1>1, <2>0 DEF wake_sleepers
  <2> HIDE DEF r
  <2>2. IsWorld(v) /\ v.pm = w.pm /\ v.sched = [w.sched EXCEPT !.sleepers = r]
    BY <2>0 DEF WorldInv, IsWorld
  <2>3. SchedInv(v.sched)  BY <2>2 DEF WorldInv, SchedInv, IsSched
  <2> QED  BY <2>1, <2>2, <2>3 DEF WorldInv
<1>2. CASE f # 0
  <2>1. f \in ToWake(w)  BY <1>2 DEF WakeChoices
  <2> DEFINE pid == w.sched.sleepers[f].pid
             t == SetState(w.pm, pid, "Ready")
             r == RemoveAt(w.sched.sleepers, f)
  <2>2. Exists(w.pm, pid)  BY <2>1 DEF ToWake
  <2> HIDE DEF pid
  <2>3. PMInv(t)  BY <2>2, SetStateInv DEF WorldInv, Live, Dead
  <2>0. PICK v : v = [w EXCEPT !.pm = t, !.sched.sleepers = r]  OBVIOUS
  <2>4. wake_sleepers(w, f) = enqueue_holding_pm(v, pid)
    BY <1>2, <2>0 DEF wake_sleepers, pid
  <2> HIDE DEF r, t
  <2>5. IsWorld(v) /\ v.pm = t /\ v.sched = [w.sched EXCEPT !.sleepers = r]
    BY <2>0, Zenon DEF WorldInv, IsWorld
  <2>6. SchedInv(v.sched)  BY <2>5 DEF WorldInv, SchedInv, IsSched
  <2>7. WorldInv(v)  BY <2>3, <2>5, <2>6 DEF WorldInv
  <2> QED  BY <2>4, <2>7, EnqueueHoldingInv
<1> QED  BY <1>1, <1>2

LEMMA PreemptInv ==
    ASSUME NEW w, WorldInv(w)
    PROVE  WorldInv(preempt(w))
<1> DEFINE pid == w.pm.current
           e == enqueue_holding_pm([w EXCEPT !.pm = SetState(w.pm, pid, "Ready")], pid)
           running == Exists(w.pm, pid) /\ w.pm.procs[pid].state = "Running"
           w1 == IF running THEN e ELSE w
<1> HIDE DEF pid
<1>1. ASSUME running PROVE WorldInv(e)
  <2>1. PMInv(SetState(w.pm, pid, "Ready"))  BY <1>1, SetStateInv DEF WorldInv, Live, Dead
  <2>2. WorldInv([w EXCEPT !.pm = SetState(w.pm, pid, "Ready")])  BY <2>1, SetPM
  <2> QED  BY <2>2, EnqueueHoldingInv
<1>2. WorldInv(w1)  BY <1>1
<1>3. preempt(w) = IF w1.stuck THEN w1 ELSE [w1 EXCEPT !.pm = SetCurrent(w1.pm, NoPid)]
  BY DEF preempt, pid
<1> HIDE DEF w1
<1>4. PMInv(SetCurrent(w1.pm, NoPid))  BY <1>2, SetCurrentInv DEF WorldInv
<1>5. WorldInv([w1 EXCEPT !.pm = SetCurrent(w1.pm, NoPid)])  BY <1>2, <1>4, SetPM
<1> QED  BY <1>2, <1>3, <1>5

\* quantum and quantum_counter do not matter.
LEMMA SetQuantum ==
    ASSUME NEW w, WorldInv(w), NEW a, NEW b
    PROVE  /\ WorldInv([w EXCEPT !.sched.quantum_counter = a, !.sched.quantum = b])
           /\ WorldInv([w EXCEPT !.sched.quantum_counter = a])
<1>1. PICK v : v = [w EXCEPT !.sched.quantum_counter = a, !.sched.quantum = b]  OBVIOUS
<1>2. PICK u : u = [w EXCEPT !.sched.quantum_counter = a]  BY Zenon
<1>3. /\ IsWorld(v) /\ v.pm = w.pm
      /\ v.sched = [w.sched EXCEPT !.quantum_counter = a, !.quantum = b]
  BY <1>1, Zenon DEF WorldInv, IsWorld
<1>4. IsWorld(u) /\ u.pm = w.pm /\ u.sched = [w.sched EXCEPT !.quantum_counter = a]
  BY <1>2 DEF WorldInv, IsWorld
<1>5. SchedInv(v.sched)  BY <1>3, Zenon DEF WorldInv, SchedInv, IsSched
<1>6. SchedInv(u.sched)  BY <1>4 DEF WorldInv, SchedInv, IsSched
<1>7. WorldInv(v) /\ WorldInv(u)  BY <1>3, <1>4, <1>5, <1>6 DEF WorldInv
<1> QED  BY <1>1, <1>2, <1>7

LEMMA ScheduleUserInv ==
    ASSUME NEW w, WorldInv(w)
    PROVE  WorldInv(schedule_user(w))
<1> DEFINE n == next_process(w)
           d == Dispatch(n, Picked(w))
<1>1. WorldInv(d)  BY NextProcessInv, DispatchInv
<1> DEFINE x == slice_for(Len(n.sched.ready) + 1)
<1>2. schedule_user(w) = IF w.sched.ready = <<>> THEN w
          ELSE [d EXCEPT !.sched.quantum_counter = 0, !.sched.quantum = x]
  BY DEF schedule_user
<1> HIDE DEF d, n, x
<1>3. WorldInv([d EXCEPT !.sched.quantum_counter = 0, !.sched.quantum = x])
  BY <1>1, SetQuantum, Zenon
<1> QED  BY <1>2, <1>3, Zenon

LEMMA TickKernelInv ==
    ASSUME NEW w, WorldInv(w), NEW f \in WakeChoices(w)
    PROVE  WorldInv(tick_kernel_only(w, f))
BY WakeSleepersInv, DeliverSignalsInv DEF tick_kernel_only

LEMMA TickInv ==
    ASSUME NEW w, WorldInv(w), NEW f \in WakeChoices(charge_running_vruntime(w))
    PROVE  WorldInv(tick(w, f))
<1> DEFINE w1 == tick_kernel_only(charge_running_vruntime(w), f)
           w2 == [w1 EXCEPT !.sched.quantum_counter = 0]
           w3 == preempt(w2)
           w4 == [w1 EXCEPT !.sched.quantum_counter = w1.sched.quantum_counter + 1]
<1>1. WorldInv(w1)  BY ChargeInv, TickKernelInv
<1>2. tick(w, f) = IF w1.stuck THEN w1
          ELSE IF w1.sched.quantum_counter + 1 < w1.sched.quantum THEN w4
          ELSE IF w3.stuck THEN w3 ELSE schedule_user(w3)
  BY DEF tick
<1> HIDE DEF w1
<1>3. WorldInv(w2)  BY <1>1, SetQuantum, Zenon
<1>4. WorldInv(w4)  BY <1>1, SetQuantum, Zenon
<1> HIDE DEF w2, w4
<1>5. WorldInv(w3)  BY <1>3, PreemptInv
<1> HIDE DEF w3
<1>6. WorldInv(schedule_user(w3))  BY <1>5, ScheduleUserInv
<1> QED  BY <1>1, <1>2, <1>4, <1>5, <1>6

\* Charging virtual time wakes nobody.
LEMMA ChargeKeepsChoices ==
    ASSUME NEW w, WorldInv(w)
    PROVE  WakeChoices(charge_running_vruntime(w)) = WakeChoices(w)
<1>0. PICK v : v = charge_running_vruntime(w)  OBVIOUS
<1>1. CASE ~Exists(w.pm, w.pm.current)  BY <1>1 DEF charge_running_vruntime
<1>2. CASE Exists(w.pm, w.pm.current)
  <2>1. PICK x : v = [w EXCEPT !.pm = SetVruntime(w.pm, w.pm.current, x)]
    BY <1>0, <1>2 DEF charge_running_vruntime
  <2>2. v.sched = w.sched /\ v.pm = SetVruntime(w.pm, w.pm.current, x)
    BY <2>1 DEF WorldInv, IsWorld
  <2>3. v.pm.procs = [w.pm.procs EXCEPT ![w.pm.current].vruntime = x]
    BY <2>2 DEF SetVruntime, WorldInv, PMInv, PMType, IsTable
  <2>4. \A p \in Pids : v.pm.procs[p].state = w.pm.procs[p].state
    BY <1>2, <2>3 DEF WorldInv, PMInv, PMType, Exists, Proc
  <2>5. ToWake(v) = ToWake(w)  BY <2>2, <2>4, Zenon DEF ToWake, Exists
  <2> QED  BY <1>0, <2>5 DEF WakeChoices
<1> QED  BY <1>1, <1>2

LEMMA SleepTicksInv ==
    ASSUME NEW w, WorldInv(w), NEW ticks
    PROVE  WorldInv(sleep_ticks(w, ticks))
<1>1. CASE ~Exists(w.pm, w.pm.current)  BY <1>1 DEF sleep_ticks
<1>2. CASE Exists(w.pm, w.pm.current)
  <2> DEFINE pid == w.pm.current
             t == Asleep(w.pm, pid)
             r == Append(w.sched.sleepers, [pid |-> pid, left |-> ticks])
  <2>0. PICK v : v = [w EXCEPT !.pm = t, !.sched.sleepers = r]  OBVIOUS
  <2>1. sleep_ticks(w, ticks) = v  BY <1>2, <2>0 DEF sleep_ticks
  <2>2. PMInv(SetState(w.pm, pid, "Blocked"))  BY <1>2, SetStateInv DEF WorldInv, Live, Dead
  <2>3. PMInv(t)  BY <2>2, SetCurrentInv DEF Asleep
  <2> HIDE DEF t, r, pid
  <2>4. IsWorld(v) /\ v.pm = t /\ v.sched = [w.sched EXCEPT !.sleepers = r]
    BY <2>0, Zenon DEF WorldInv, IsWorld
  <2>5. SchedInv(v.sched)  BY <2>4 DEF WorldInv, SchedInv, IsSched
  <2> QED  BY <2>1, <2>3, <2>4, <2>5 DEF WorldInv
<1> QED  BY <1>1, <1>2

LEMMA SleepPidInv ==
    ASSUME NEW w, WorldInv(w), NEW pid, NEW ticks
    PROVE  WorldInv(sleep_pid(w, pid, ticks))
<1> DEFINE r == Append(w.sched.sleepers, [pid |-> pid, left |-> ticks])
<1>0. PICK v : v = [w EXCEPT !.sched.sleepers = r]  BY Zenon
<1>1. sleep_pid(w, pid, ticks) = v  BY <1>0 DEF sleep_pid
<1> HIDE DEF r
<1>2. IsWorld(v) /\ v.pm = w.pm /\ v.sched = [w.sched EXCEPT !.sleepers = r]
  BY <1>0 DEF WorldInv, IsWorld
<1>3. SchedInv(v.sched)  BY <1>2 DEF WorldInv, SchedInv, IsSched
<1> QED  BY <1>1, <1>2, <1>3 DEF WorldInv

LEMMA TickClockInv == ASSUME NEW w, WorldInv(w) PROVE WorldInv(TickClock(w))
<1> DEFINE r == Aged(w.sched.sleepers)
<1>0. PICK v : v = [w EXCEPT !.sched.sleepers = r]  BY Zenon
<1>1. TickClock(w) = v  BY <1>0 DEF TickClock
<1> HIDE DEF r
<1>2. IsWorld(v) /\ v.pm = w.pm /\ v.sched = [w.sched EXCEPT !.sleepers = r]
  BY <1>0 DEF WorldInv, IsWorld
<1>3. SchedInv(v.sched)  BY <1>2 DEF WorldInv, SchedInv, IsSched
<1> QED  BY <1>1, <1>2, <1>3 DEF WorldInv

LEMMA ScheduleInv == ASSUME NEW w, WorldInv(w) PROVE WorldInv(schedule(w))
<1>0. PICK v : v = schedule(w)  OBVIOUS
<1>1. IsWorld(v) /\ v.pm = w.pm /\ v.sched = w.sched  BY <1>0 DEF schedule, WorldInv, IsWorld
<1> QED  BY <1>0, <1>1 DEF WorldInv

LEMMA SpawnUserInv ==
    ASSUME NEW w, WorldInv(w), CanCreate(w.pm), FreeSlots(w.pm) # {}
    PROVE  WorldInv(spawn_user(w))
<1>1. PMInv(create_user_process(w.pm))  BY CreateUserProcessInv DEF WorldInv
<1>2. WorldInv([w EXCEPT !.pm = create_user_process(w.pm)])  BY <1>1, SetPM
<1> QED  BY <1>2, EnqueueInv DEF spawn_user

\* The second program of the test finds a pid and a stack as well.
LEMMA SecondSpawn ==
    ASSUME NEW w, WorldInv(w), w.pm.next_pid \in Pids, w.pm.next_pid + 1 \in Pids,
           Cardinality(FreeSlots(w.pm)) >= 2
    PROVE  /\ FreeSlots(w.pm) # {}
           /\ CanCreate(spawn_user(w).pm) /\ FreeSlots(spawn_user(w).pm) # {}
<1>1. IsFiniteSet(FreeSlots(w.pm))
  <2>1. IsFiniteSet(Slots)  BY FS_Interval, SlotAssumption DEF Slots
  <2> QED  BY <2>1, FS_Subset DEF FreeSlots
<1>2. FreeSlots(w.pm) # {}  BY <1>1, FS_EmptySet
<1> DEFINE s == allocate_kernel_stack(w.pm)
           u == [w EXCEPT !.pm = create_user_process(w.pm)]
           v == spawn_user(w)
<1>3. s \in FreeSlots(w.pm)  BY <1>2, AllocatedIsFree
<1>4. \E t \in FreeSlots(w.pm) : t # s
  <2> SUFFICES ASSUME FreeSlots(w.pm) = {s} PROVE FALSE  BY <1>3
  <2>1. Cardinality(FreeSlots(w.pm)) = 1  BY FS_Singleton
  <2> QED  BY <2>1
<1>5. /\ create_user_process(w.pm).next_pid = w.pm.next_pid + 1
      /\ create_user_process(w.pm).stacks = w.pm.stacks \cup {s}
  <2>1. PICK q : q = create_user_process(w.pm)  OBVIOUS
  <2>2. q.next_pid = w.pm.next_pid + 1 /\ q.stacks = w.pm.stacks \cup {s}
    BY <2>1 DEF create_user_process, WorldInv, PMInv, PMType, IsTable
  <2> QED  BY <2>1, <2>2
<1>6. PICK q : q = u  BY Zenon
<1>7. q.pm = create_user_process(w.pm) /\ IsWorld(q)  BY <1>6 DEF WorldInv, IsWorld
<1>8. Lifted(q, w.pm.next_pid).next_pid = q.pm.next_pid /\ Lifted(q, w.pm.next_pid).stacks = q.pm.stacks
  <2>1. IsTable(q.pm)
    BY <1>2, <1>7, CreateUserProcessInv DEF CanCreate, WorldInv, PMInv, PMType
  <2>2. ASSUME NEW x, NEW t, t = SetVruntime(q.pm, w.pm.next_pid, x)
        PROVE  t.next_pid = q.pm.next_pid /\ t.stacks = q.pm.stacks
    BY <2>1, <2>2 DEF SetVruntime, IsTable
  <2> QED  BY <2>2 DEF Lifted
<1>9. v.pm \in {q.pm, Lifted(q, w.pm.next_pid)}
  <2>1. v = enqueue(q, w.pm.next_pid)  BY <1>6 DEF spawn_user
  <2>2. PICK r : r = [q EXCEPT !.sched.ready = Append(q.sched.ready, w.pm.next_pid),
                               !.pm = Lifted(q, w.pm.next_pid)]
    OBVIOUS
  <2>3. r.pm = Lifted(q, w.pm.next_pid)  BY <1>7, <2>2 DEF IsWorld
  <2>4. v \in {q, r}  BY <2>1, <2>2 DEF enqueue
  <2> QED  BY <2>3, <2>4
<1>10. v.pm.next_pid = w.pm.next_pid + 1 /\ v.pm.stacks = w.pm.stacks \cup {s}
  BY <1>5, <1>7, <1>8, <1>9
<1> HIDE DEF v, s
<1>11. CanCreate(v.pm) /\ FreeSlots(v.pm) # {}  BY <1>4, <1>10 DEF CanCreate, FreeSlots
<1> QED  BY <1>2, <1>11 DEF v

\* A step that installs a consistent world keeps the invariant.
LEMMA BecomeInv == ASSUME NEW w, WorldInv(w), NEW m, Become(w, m) PROVE StackInv'
BY DEF Become, WorldInv, StackInv

LEMMA BecomeTable ==
    ASSUME StackInv, NEW table, PMInv(table), NEW m, Become([World EXCEPT !.pm = table], m)
    PROVE  StackInv'
BY WorldOf, SetPM, BecomeInv

LEMMA InitStackInv == ASSUME Init PROVE StackInv
<1>1. SchedInv(InitSched)  BY DEF SchedInv, IsSched, InitSched
<1> QED  BY <1>1, InitPMInv DEF Init, StackInv

LEMMA WaitRoundInv ==
    ASSUME StackInv, NEW p, NEW left, NEW nohang, WaitRound(p, left, nohang)
    PROVE  StackInv'
BY WaitInv DEF WaitRound, StackInv

LEMMA TimerUserInv == ASSUME StackInv, timer_from_user PROVE StackInv'
<1>1. PICK f \in WakeChoices(TickClock(World)) : Become(tick(TickClock(World), f), "user")
  BY DEF timer_from_user
<1>2. WorldInv(TickClock(World))  BY WorldOf, TickClockInv
<1>3. WorldInv(tick(TickClock(World), f))  BY <1>2, TickInv, ChargeKeepsChoices
<1> QED  BY <1>1, <1>3, BecomeInv

LEMMA DispatchFromKernelInv ==
    ASSUME NEW w, WorldInv(w), DispatchFromKernel(w)
    PROVE  StackInv'
<1> DEFINE n == next_process(w)
           d == IF Runnable(n, Picked(w)) THEN Dispatch(n, Picked(w))
                ELSE enqueue_holding_pm(n, Picked(w))
<1>1. WorldInv(n)  BY NextProcessInv
<1>2. WorldInv(d)  BY <1>1, DispatchInv, EnqueueHoldingInv
<1>3. Become(d, "user")  BY DEF DispatchFromKernel
<1> QED  BY <1>2, <1>3, BecomeInv

LEMMA TimerKernelInv == ASSUME StackInv, timer_from_kernel PROVE StackInv'
<1>1. PICK f \in WakeChoices(TickClock(World)) :
         LET w == tick_kernel_only(TickClock(World), f) IN
         DispatchFromKernel(w) \/ LeavePreemptiveMode(w) \/ Become(w, mode)
  BY DEF timer_from_kernel
<1> DEFINE w == tick_kernel_only(TickClock(World), f)
<1>2. WorldInv(w)  BY WorldOf, TickClockInv, TickKernelInv
<1> HIDE DEF w
<1>3. DispatchFromKernel(w) \/ LeavePreemptiveMode(w) \/ Become(w, mode)  BY <1>1 DEF w
<1> QED  BY <1>2, <1>3, DispatchFromKernelInv, BecomeInv DEF LeavePreemptiveMode

LEMMA NextStackInv == ASSUME StackInv, [Next]_vars PROVE StackInv'
<1>0. WorldInv(World) /\ World.pm = pm  BY WorldOf DEF World
<1>1. CASE spawn_preemptive_test
  <2> DEFINE a == spawn_user(World)
  <2>1. pm.next_pid \in Pids /\ pm.next_pid + 1 \in Pids  BY <1>1 DEF spawn_preemptive_test
  <2>2. /\ CanCreate(pm) /\ FreeSlots(pm) # {}
        /\ CanCreate(a.pm) /\ FreeSlots(a.pm) # {}
    BY <1>0, <1>1, <2>1, SecondSpawn DEF spawn_preemptive_test, CanCreate
  <2>3. WorldInv(a)  BY <1>0, <2>2, SpawnUserInv
  <2>4. WorldInv(spawn_user(a))  BY <2>2, <2>3, SpawnUserInv
  <2> QED  BY <1>1, <2>4, BecomeInv DEF spawn_preemptive_test
<1>2. CASE enter_preemptive_idle  BY <1>2 DEF enter_preemptive_idle, StackInv
<1>3. CASE finish_preemptive_test
  BY <1>3, CleanupInv DEF finish_preemptive_test, StackInv
<1>4. ASSUME NEW t \in SleepTicks, run_background(t) PROVE StackInv'
  <2> DEFINE table == SetState(create_process(pm), pm.next_pid, "Blocked")
  <2>1. PMInv(create_process(pm))  BY <1>4, CreateProcessInv DEF run_background, StackInv
  <2>2. Exists(create_process(pm), pm.next_pid)
    <3>1. PICK q : q = create_process(pm)  OBVIOUS
    <3>2. pm.next_pid \in Pids  BY <1>4 DEF run_background, CanCreate
    <3>3. q.procs[pm.next_pid].state = "Ready"
      BY <3>1, <3>2 DEF create_process, StackInv, PMInv, PMType, IsTable, Absent
    <3> QED  BY <3>1, <3>2, <3>3 DEF Exists
  <2>3. PMInv(table)  BY <2>1, <2>2, SetStateInv DEF Live, Dead
  <2> HIDE DEF table
  <2>4. WorldInv([World EXCEPT !.pm = table])  BY <1>0, <2>3, SetPM
  <2>5. WorldInv(sleep_pid([World EXCEPT !.pm = table], pm.next_pid, t))  BY <2>4, SleepPidInv
  <2> QED  BY <1>4, <2>5, BecomeInv DEF run_background, table
<1>5. ASSUME NEW p \in Pids, NEW s \in Sent, cmd_kill(p, s) \/ sys_kill(p, s) PROVE StackInv'
  <2>1. PMInv(send_signal(pm, p, s))  BY SendSignalInv DEF StackInv
  <2> QED  BY <1>5, <2>1, BecomeTable DEF cmd_kill, sys_kill
<1>7. CASE exec_with_return_proper  BY <1>7 DEF exec_with_return_proper, StackInv
<1>8. CASE sys_exit
  <2> DEFINE t == SetCurrent(exit(pm, pm.current, 0), NoPid)
  <2>1. PMInv(t)  BY ExitInv, SetCurrentInv DEF StackInv
  <2> HIDE DEF t
  <2>2. WorldInv(dequeue([World EXCEPT !.pm = t], pm.current))  BY <1>0, <2>1, SetPM, DequeueInv
  <2>3. WorldInv(ExitCurrent)  BY <1>0, <2>2 DEF ExitCurrent, t
  <2>4. WorldInv(schedule(ExitCurrent))  BY <2>3, ScheduleInv
  <2> QED  BY <1>8, <2>3, <2>4, BecomeInv DEF sys_exit
<1>9. CASE sys_fork
  <2>1. PMInv(fork(pm, pm.current))  BY <1>9, ForkInv DEF sys_fork, StackInv
  <2> QED  BY <1>9, <2>1, BecomeTable DEF sys_fork
<1>10. CASE seccomp_kill
  <2>1. PMInv(exit(pm, pm.current, 137))  BY ExitInv DEF StackInv
  <2> QED  BY <1>10, <2>1, BecomeTable DEF seccomp_kill
<1>11. ASSUME NEW t \in SleepTicks, sys_nanosleep(t) PROVE StackInv'
  <2>1. WorldInv(schedule(sleep_ticks(World, t)))  BY <1>0, SleepTicksInv, ScheduleInv
  <2> QED  BY <1>11, <2>1, BecomeInv DEF sys_nanosleep
<1>12. ASSUME NEW p \in Pids \cup {-1}, NEW nohang \in BOOLEAN, sys_wait4(p, nohang)
       PROVE  StackInv'
  BY <1>12, WaitRoundInv DEF sys_wait4
<1>13. CASE wait4_retry  BY <1>13, WaitRoundInv, Zenon DEF wait4_retry
<1>14. CASE wait4_give_up  BY <1>14 DEF wait4_give_up, StackInv
<1>15. CASE timer_from_user  BY <1>15, TimerUserInv
<1>16. CASE timer_from_kernel  BY <1>16, TimerKernelInv
<1>17. CASE spinning \/ UNCHANGED vars  BY <1>17 DEF spinning, vars, StackInv
<1> QED
  BY <1>1, <1>2, <1>3, <1>4, <1>5, <1>7, <1>8, <1>9, <1>10, <1>11, <1>12,
     <1>13, <1>14, <1>15, <1>16, <1>17 DEF Next

\* The process table stays consistent with the kernel-stack pool in every
\* behaviour of the preemptive kernel.
THEOREM TableInvariant == Spec => []StackInv
<1>1. Init => StackInv  BY InitStackInv
<1>2. StackInv /\ [Next]_vars => StackInv'  BY NextStackInv
<1> QED  BY <1>1, <1>2, PTL DEF Spec

\* No kernel stack is ever leaked, freed twice or shared by two processes,
\* whatever mix of spawn, fork, exit, kill, wait and clean-up takes place.
THEOREM KernelStacksAreExclusive == Spec => []KernelStacksExclusive
<1>1. StackInv => KernelStacksExclusive  BY DEF StackInv, PMInv, KernelStacksExclusive
<1> QED  BY <1>1, TableInvariant, PTL
=============================================================================
