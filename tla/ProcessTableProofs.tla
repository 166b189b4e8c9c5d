-------------------------- MODULE ProcessTableProofs --------------------------
(***************************************************************************)
(* The kernel-stack pool and the process table stay consistent under every *)
(* method of ProcessManager, for any number of pids and slots.             *)
(***************************************************************************)
EXTENDS ProcessTable, WellFoundedInduction, TLAPS

PMInv(pm) == PMType(pm) /\ StacksExclusive(pm)

\* Every non-empty set of naturals has a least member: the search loops of the
\* code return one when there is one.
LEMMA LeastExists ==
    ASSUME NEW S \in SUBSET Nat, S # {}
    PROVE  \E m \in S : \A x \in S : m <= x
<1> DEFINE R == OpToRel(<, Nat)
<1>1. \E x \in S : \A y \in S : ~(<<y, x>> \in R)
  <2>1. IsWellFoundedOn(R, Nat)  BY NatLessThanWellFounded
  <2> HIDE DEF R
  <2> QED  BY <2>1, WFMin
<1>2. PICK x \in S : \A y \in S : ~(<<y, x>> \in R)  BY <1>1
<1>3. \A y \in S : ~(y < x)  BY <1>2 DEF OpToRel
<1> QED  BY <1>3

\* allocate returns a slot that was free.
LEMMA AllocatedIsFree ==
    ASSUME NEW pm, FreeSlots(pm) # {}
    PROVE  allocate_kernel_stack(pm) \in FreeSlots(pm)
<1>1. FreeSlots(pm) \in SUBSET Nat  BY SlotAssumption DEF FreeSlots, Slots
<1>2. \E s \in FreeSlots(pm) : \A t \in FreeSlots(pm) : s <= t  BY <1>1, LeastExists
<1> QED  BY <1>2 DEF allocate_kernel_stack

\* A process that is not in the table owns no stack.
LEMMA AbsentType == Absent \in Proc /\ Absent.slot = NoSlot /\ Absent.state = "Absent"
BY DEF Absent, Proc, Live, Dead, Pids, NoPid, Slots, NoSlot, SignalNumbers

LEMMA InitPMInv == PMInv(InitPM)
<1>1. PMType(InitPM)  BY PidAssumption, AbsentType DEF InitPM, PMType, IsTable, Pids
<1>2. StacksExclusive(InitPM)  BY AbsentType DEF InitPM, StacksExclusive, Slots, NoSlot, Dead
<1> QED  BY <1>1, <1>2 DEF PMInv

\* A method that leaves every slot where it is keeps the table consistent.
LEMMA SameSlots ==
    ASSUME NEW pm, NEW q, PMInv(pm), IsTable(q),
           q.procs \in [Pids -> Proc],
           q.next_pid \in 1 .. MaxPid + 1, q.next_pid >= pm.next_pid,
           q.stacks = pm.stacks,
           \A p \in Pids : q.procs[p].slot = pm.procs[p].slot,
           \A p \in Pids : q.procs[p].state \in Dead => q.procs[p].slot = NoSlot,
           \A p \in Pids : p >= q.next_pid => q.procs[p] = Absent
    PROVE  PMInv(q)
<1>1. PMType(q)  BY DEF PMInv, PMType
<1>2. StacksExclusive(q)  BY DEF PMInv, StacksExclusive
<1> QED  BY <1>1, <1>2 DEF PMInv

\* In particular one that changes a single process, slot aside.
LEMMA OneProcess ==
    ASSUME NEW pm, NEW q, PMInv(pm), IsTable(q),
           NEW pid \in Pids, NEW new \in Proc,
           pm.procs[pid].state # "Absent", new.slot = pm.procs[pid].slot,
           new.state \in Dead => new.slot = NoSlot,
           q.procs = [pm.procs EXCEPT ![pid] = new],
           q.next_pid = pm.next_pid, q.stacks = pm.stacks
    PROVE  PMInv(q)
<1>1. q.procs \in [Pids -> Proc]  BY DEF PMInv, PMType
<1>2. \A p \in Pids : q.procs[p].slot = pm.procs[p].slot  BY DEF PMInv, PMType
<1>3. \A p \in Pids : p >= q.next_pid => q.procs[p] = Absent  BY AbsentType DEF PMInv, PMType
<1>4. q.next_pid \in 1 .. MaxPid + 1 /\ q.next_pid >= pm.next_pid  BY DEF PMInv, PMType
<1>5. \A p \in Pids : q.procs[p].state \in Dead => q.procs[p].slot = NoSlot
  BY DEF PMInv, PMType, StacksExclusive
<1> QED  BY <1>1, <1>2, <1>3, <1>4, <1>5, SameSlots

\* A new process takes the next pid, with a free slot or none.
LEMMA NewProcess ==
    ASSUME NEW pm, NEW q, PMInv(pm), CanCreate(pm), IsTable(q),
           NEW new \in Proc, new.slot \in FreeSlots(pm) \cup {NoSlot}, new.state \notin Dead,
           q.procs = [pm.procs EXCEPT ![pm.next_pid] = new],
           q.next_pid = pm.next_pid + 1,
           q.stacks = pm.stacks \cup ({new.slot} \ {NoSlot})
    PROVE  PMInv(q)
<1>1. pm.next_pid \in Pids /\ pm.procs[pm.next_pid] = Absent
  BY DEF PMInv, PMType, CanCreate, Pids
<1>2. q.procs \in [Pids -> Proc]  BY <1>1 DEF PMInv, PMType
<1>3. q.next_pid \in 1 .. MaxPid + 1  BY <1>1, PidAssumption DEF Pids
<1>4. q.stacks \subseteq Slots  BY DEF PMInv, PMType, FreeSlots
<1>5. \A p \in Pids : p >= q.next_pid => q.procs[p] = Absent
  BY <1>1 DEF PMInv, PMType, Pids
<1>6. PMType(q)  BY <1>2, <1>3, <1>4, <1>5 DEF PMType
<1>7. \A p \in Pids : q.procs[p].slot =
          IF p = pm.next_pid THEN new.slot ELSE pm.procs[p].slot
  BY <1>1 DEF PMInv, PMType
<1>8. \A p \in Pids : pm.procs[p].slot \in pm.stacks \cup {NoSlot}
  BY DEF PMInv, PMType, StacksExclusive, Proc
<1>9. pm.procs[pm.next_pid].slot = NoSlot  BY <1>1, AbsentType
<1>10. \A p, r \in Pids :
          p # r /\ q.procs[p].slot = q.procs[r].slot => q.procs[p].slot = NoSlot
  BY <1>7, <1>8 DEF PMInv, StacksExclusive, FreeSlots
<1>11. \A s \in Slots : s \in q.stacks <=> \E p \in Pids : q.procs[p].slot = s
  <2> TAKE s \in Slots
  <2>1. s # NoSlot  BY DEF Slots, NoSlot
  <2>2. s \in pm.stacks <=> \E p \in Pids : pm.procs[p].slot = s  BY DEF PMInv, StacksExclusive
  <2>3. CASE s = new.slot  BY <1>1, <1>7, <2>1, <2>3
  <2>4. CASE s # new.slot  BY <1>7, <1>9, <2>1, <2>2, <2>4
  <2> QED  BY <2>3, <2>4
<1>12. \A p \in Pids : q.procs[p].state \in Dead => q.procs[p].slot = NoSlot
  BY <1>1 DEF PMInv, PMType, StacksExclusive
<1> QED  BY <1>6, <1>10, <1>11, <1>12 DEF PMInv, StacksExclusive

LEMMA CreateProcessInv ==
    ASSUME NEW pm, PMInv(pm), CanCreate(pm)
    PROVE  PMInv(create_process(pm))
<1> SUFFICES ASSUME NEW q, q = create_process(pm) PROVE PMInv(q)  OBVIOUS
<1> DEFINE new == [Absent EXCEPT !.state = "Ready"]
<1>1. new \in Proc /\ new.slot = NoSlot /\ new.state \notin Dead
  BY AbsentType DEF Proc, Live, Dead, Absent
<1>2. IsTable(q)  BY DEF create_process, IsTable, PMInv, PMType
<1>3. /\ q.procs = [pm.procs EXCEPT ![pm.next_pid] = new]
      /\ q.next_pid = pm.next_pid + 1 /\ q.stacks = pm.stacks
  BY DEF create_process, IsTable, PMInv, PMType
<1> HIDE DEF new
<1> QED  BY <1>1, <1>2, <1>3, NewProcess

LEMMA CreateUserProcessInv ==
    ASSUME NEW pm, PMInv(pm), CanCreate(pm), FreeSlots(pm) # {}
    PROVE  PMInv(create_user_process(pm))
<1> SUFFICES ASSUME NEW q, q = create_user_process(pm) PROVE PMInv(q)  OBVIOUS
<1> DEFINE s == allocate_kernel_stack(pm)
           new == [Absent EXCEPT !.state = "Ready", !.is_user = TRUE, !.slot = s, !.top = s]
<1>1. s \in FreeSlots(pm) /\ s \in Slots /\ s # NoSlot
  BY AllocatedIsFree DEF FreeSlots, Slots, NoSlot
<1> HIDE DEF s
<1>2. new \in Proc /\ new.slot = s /\ new.state \notin Dead
  BY <1>1, AbsentType DEF Proc, Live, Dead, Absent
<1>3. IsTable(q)  BY DEF create_user_process, IsTable, PMInv, PMType
<1>4. /\ q.procs = [pm.procs EXCEPT ![pm.next_pid] = new]
      /\ q.next_pid = pm.next_pid + 1 /\ q.stacks = pm.stacks \cup {s}
  BY DEF create_user_process, IsTable, PMInv, PMType, s
<1> HIDE DEF new
<1> QED  BY <1>1, <1>2, <1>3, <1>4, NewProcess

\* What Process::clone makes is a process.
LEMMA CloneType ==
    ASSUME NEW proc \in Proc, NEW parent \in Pids, NEW s \in Slots \cup {NoSlot}
    PROVE  /\ clone(proc, parent, s) \in Proc
           /\ clone(proc, parent, s).slot = s
           /\ clone(proc, parent, s).state \notin Dead
<1>1. PICK a : a = [proc EXCEPT !.state = "Ready", !.parent = parent, !.slot = s]  OBVIOUS
<1>2. PICK b : b = [a EXCEPT !.top = s]  OBVIOUS
<1>3. PICK c : c = [b EXCEPT !.code = -1]  OBVIOUS
<1>4. a \in Proc /\ a.slot = s /\ a.state = "Ready"  BY <1>1 DEF Proc, Live
<1>5. b \in Proc /\ b.slot = s /\ b.state = "Ready"  BY <1>2, <1>4 DEF Proc
<1>6. c \in Proc /\ c.slot = s /\ c.state = "Ready"  BY <1>3, <1>5 DEF Proc
<1>7. clone(proc, parent, s) = [c EXCEPT !.pending = {}]  BY <1>1, <1>2, <1>3 DEF Proc, clone
<1> QED  BY <1>6, <1>7 DEF Proc, Dead

\* fork of a process that exists, with or without a stack for the child.
LEMMA ForkInv ==
    ASSUME NEW pm, PMInv(pm), CanCreate(pm), NEW parent
    PROVE  PMInv(fork(pm, parent))
<1> SUFFICES ASSUME NEW q, q = fork(pm, parent) PROVE PMInv(q)  OBVIOUS
<1> DEFINE s == CloneSlot(pm, parent)
<1>1. s \in FreeSlots(pm) \cup {NoSlot} /\ s \in Slots \cup {NoSlot}
  BY AllocatedIsFree DEF FreeSlots, CloneSlot
<1> HIDE DEF s
<1>2. CASE Exists(pm, parent)
  <2>1. parent \in Pids /\ pm.procs[parent] \in Proc  BY <1>2 DEF Exists, PMInv, PMType
  <2> DEFINE new == clone(pm.procs[parent], parent, s)
  <2>2. new \in Proc /\ new.slot = s /\ new.state \notin Dead  BY <1>1, <2>1, CloneType
  <2>3. IsTable(q)  BY <1>2 DEF fork, IsTable, PMInv, PMType
  <2>4. /\ q.procs = [pm.procs EXCEPT ![pm.next_pid] = new]
        /\ q.next_pid = pm.next_pid + 1
        /\ q.stacks = pm.stacks \cup (IF s = NoSlot THEN {} ELSE {s})
    BY <1>2 DEF fork, IsTable, PMInv, PMType, s
  <2>5. q.stacks = pm.stacks \cup ({new.slot} \ {NoSlot})  BY <2>2, <2>4
  <2> HIDE DEF new
  <2> QED  BY <1>1, <2>2, <2>3, <2>4, <2>5, NewProcess
<1>3. CASE ~Exists(pm, parent)
  <2>1. /\ IsTable(q) /\ q.procs = pm.procs /\ q.next_pid = pm.next_pid + 1
        /\ q.stacks = pm.stacks
    BY <1>3 DEF fork, IsTable, PMInv, PMType
  <2>2. q.next_pid \in 1 .. MaxPid + 1 /\ q.next_pid >= pm.next_pid
    BY <2>1, PidAssumption DEF CanCreate, Pids
  <2>3. \A p \in Pids : p >= q.next_pid => q.procs[p] = Absent
    BY <2>1 DEF PMInv, PMType, Pids, CanCreate
  <2>4. q.procs \in [Pids -> Proc]  BY <2>1 DEF PMInv, PMType
  <2>5. \A p \in Pids : q.procs[p].state \in Dead => q.procs[p].slot = NoSlot
    BY <2>1 DEF PMInv, StacksExclusive
  <2> QED  BY <2>1, <2>2, <2>3, <2>4, <2>5, SameSlots
<1> QED  BY <1>2, <1>3

\* A death gives the slot of the process back and nobody else's.
LEMMA DieInv ==
    ASSUME NEW pm, PMInv(pm), NEW pid, Exists(pm, pid),
           NEW state \in Live \cup Dead, NEW code \in Int
    PROVE  PMInv(Die(pm, pid, state, code))
<1> SUFFICES ASSUME NEW q, q = Die(pm, pid, state, code) PROVE PMInv(q)  OBVIOUS
<1> DEFINE new == [pm.procs[pid] EXCEPT !.state = state, !.code = code, !.slot = NoSlot]
<1>1. pid \in Pids /\ pm.procs[pid] \in Proc  BY DEF Exists, PMInv, PMType
<1>2. new \in Proc /\ new.slot = NoSlot  BY <1>1 DEF Proc
<1>3. IsTable(q)  BY DEF Die, IsTable, PMInv, PMType
<1>4. /\ q.procs = [pm.procs EXCEPT ![pid] = new]
      /\ q.next_pid = pm.next_pid /\ q.stacks = pm.stacks \ {pm.procs[pid].slot}
  BY <1>1 DEF Die, IsTable, PMInv, PMType
<1> HIDE DEF new
<1>5. pid < pm.next_pid  BY <1>1, AbsentType DEF Exists, PMInv, PMType, Pids
<1>6. PMType(q)  BY <1>1, <1>2, <1>3, <1>4, <1>5 DEF PMInv, PMType, Pids
<1>7. \A p \in Pids : q.procs[p].slot = IF p = pid THEN NoSlot ELSE pm.procs[p].slot
  BY <1>1, <1>2, <1>4 DEF PMInv, PMType
<1>8. \A s \in Slots : s \in q.stacks <=> \E p \in Pids : q.procs[p].slot = s
  <2> TAKE s \in Slots
  <2>1. s # NoSlot  BY DEF Slots, NoSlot
  <2>2. s \in pm.stacks <=> \E p \in Pids : pm.procs[p].slot = s  BY DEF PMInv, StacksExclusive
  <2>3. CASE s = pm.procs[pid].slot
    BY <1>1, <1>4, <1>7, <2>1, <2>3 DEF PMInv, StacksExclusive
  <2>4. CASE s # pm.procs[pid].slot  BY <1>4, <1>7, <2>1, <2>2, <2>4
  <2> QED  BY <2>3, <2>4
<1>9. \A p, r \in Pids :
          p # r /\ q.procs[p].slot = q.procs[r].slot => q.procs[p].slot = NoSlot
  BY <1>7 DEF PMInv, StacksExclusive
<1>10. \A p \in Pids : q.procs[p].state \in Dead => q.procs[p].slot = NoSlot
  BY <1>1, <1>2, <1>4 DEF PMInv, PMType, StacksExclusive
<1> QED  BY <1>6, <1>8, <1>9, <1>10 DEF PMInv, StacksExclusive

\* Setting current_pid does not touch the table.
LEMMA SetCurrentInv ==
    ASSUME NEW pm, PMInv(pm), NEW pid
    PROVE  /\ PMInv(SetCurrent(pm, pid))
           /\ \A r : Exists(SetCurrent(pm, pid), r) <=> Exists(pm, r)
<1>0. PICK q : q = SetCurrent(pm, pid)  OBVIOUS
<1>1. /\ IsTable(q) /\ q.procs = pm.procs /\ q.next_pid = pm.next_pid /\ q.stacks = pm.stacks
  BY <1>0 DEF SetCurrent, IsTable, PMInv, PMType
<1>2. PMInv(q)  BY <1>1 DEF PMInv, PMType, StacksExclusive
<1>3. \A r : Exists(q, r) <=> Exists(pm, r)  BY <1>1 DEF Exists
<1> QED  BY <1>0, <1>2, <1>3

\* A change of state alone.
LEMMA SetStateInv ==
    ASSUME NEW pm, PMInv(pm), NEW pid, Exists(pm, pid), NEW x \in Live \cup Dead,
           x \in Dead => pm.procs[pid].slot = NoSlot
    PROVE  PMInv(SetState(pm, pid, x)) /\ Exists(SetState(pm, pid, x), pid)
<1>0. PICK q : q = SetState(pm, pid, x)  OBVIOUS
<1>1. pid \in Pids /\ pm.procs[pid] \in Proc /\ pm.procs[pid].state # "Absent"
  BY DEF Exists, PMInv, PMType
<1> DEFINE new == [pm.procs[pid] EXCEPT !.state = x]
<1>2. new \in Proc /\ new.slot = pm.procs[pid].slot  BY <1>1 DEF Proc
<1>3. new.state # "Absent" /\ (new.state \in Dead => new.slot = NoSlot)
  BY <1>1 DEF Proc, Live, Dead
<1>4. IsTable(q)  BY <1>0 DEF SetState, IsTable, PMInv, PMType
<1>5. /\ q.procs = [pm.procs EXCEPT ![pid] = new]
      /\ q.next_pid = pm.next_pid /\ q.stacks = pm.stacks
  BY <1>0 DEF SetState, IsTable, PMInv, PMType
<1> HIDE DEF new
<1>6. PMInv(q)  BY <1>1, <1>2, <1>3, <1>4, <1>5, OneProcess
<1>7. Exists(q, pid)  BY <1>1, <1>3, <1>5 DEF Exists, PMInv, PMType
<1> QED  BY <1>0, <1>6, <1>7

\* A change of the pending signals alone.
LEMMA SetPendingInv ==
    ASSUME NEW pm, PMInv(pm), NEW pid, Exists(pm, pid), NEW x \in SUBSET SignalNumbers
    PROVE  PMInv(SetPending(pm, pid, x)) /\ Exists(SetPending(pm, pid, x), pid)
<1>0. PICK q : q = SetPending(pm, pid, x)  OBVIOUS
<1>1. pid \in Pids /\ pm.procs[pid] \in Proc /\ pm.procs[pid].state # "Absent"
  BY DEF Exists, PMInv, PMType
<1> DEFINE new == [pm.procs[pid] EXCEPT !.pending = x]
<1>2. new \in Proc /\ new.slot = pm.procs[pid].slot  BY <1>1 DEF Proc
<1>3. new.state # "Absent" /\ (new.state \in Dead => new.slot = NoSlot)
  BY <1>1 DEF Proc, PMInv, StacksExclusive
<1>4. IsTable(q)  BY <1>0 DEF SetPending, IsTable, PMInv, PMType
<1>5. /\ q.procs = [pm.procs EXCEPT ![pid] = new]
      /\ q.next_pid = pm.next_pid /\ q.stacks = pm.stacks
  BY <1>0 DEF SetPending, IsTable, PMInv, PMType
<1> HIDE DEF new
<1>6. PMInv(q)  BY <1>1, <1>2, <1>3, <1>4, <1>5, OneProcess
<1>7. Exists(q, pid)  BY <1>1, <1>3, <1>5 DEF Exists, PMInv, PMType
<1> QED  BY <1>0, <1>6, <1>7

\* A change of vruntime alone.
LEMMA SetVruntimeInv ==
    ASSUME NEW pm, PMInv(pm), NEW pid, Exists(pm, pid), NEW x \in Nat
    PROVE  PMInv(SetVruntime(pm, pid, x)) /\ Exists(SetVruntime(pm, pid, x), pid)
<1>0. PICK q : q = SetVruntime(pm, pid, x)  OBVIOUS
<1>1. pid \in Pids /\ pm.procs[pid] \in Proc /\ pm.procs[pid].state # "Absent"
  BY DEF Exists, PMInv, PMType
<1> DEFINE new == [pm.procs[pid] EXCEPT !.vruntime = x]
<1>2. new \in Proc /\ new.slot = pm.procs[pid].slot  BY <1>1 DEF Proc
<1>3. new.state # "Absent" /\ (new.state \in Dead => new.slot = NoSlot)
  BY <1>1 DEF Proc, PMInv, StacksExclusive
<1>4. IsTable(q)  BY <1>0 DEF SetVruntime, IsTable, PMInv, PMType
<1>5. /\ q.procs = [pm.procs EXCEPT ![pid] = new]
      /\ q.next_pid = pm.next_pid /\ q.stacks = pm.stacks
  BY <1>0 DEF SetVruntime, IsTable, PMInv, PMType
<1> HIDE DEF new
<1>6. PMInv(q)  BY <1>1, <1>2, <1>3, <1>4, <1>5, OneProcess
<1>7. Exists(q, pid)  BY <1>1, <1>3, <1>5 DEF Exists, PMInv, PMType
<1> QED  BY <1>0, <1>6, <1>7

\* A change of nice alone.
LEMMA SetNicenessInv ==
    ASSUME NEW pm, PMInv(pm), NEW pid, Exists(pm, pid), NEW x \in -20 .. 19
    PROVE  PMInv(SetNiceness(pm, pid, x)) /\ Exists(SetNiceness(pm, pid, x), pid)
<1>0. PICK q : q = SetNiceness(pm, pid, x)  OBVIOUS
<1>1. pid \in Pids /\ pm.procs[pid] \in Proc /\ pm.procs[pid].state # "Absent"
  BY DEF Exists, PMInv, PMType
<1> DEFINE new == [pm.procs[pid] EXCEPT !.nice = x]
<1>2. new \in Proc /\ new.slot = pm.procs[pid].slot  BY <1>1 DEF Proc
<1>3. new.state # "Absent" /\ (new.state \in Dead => new.slot = NoSlot)
  BY <1>1 DEF Proc, PMInv, StacksExclusive
<1>4. IsTable(q)  BY <1>0 DEF SetNiceness, IsTable, PMInv, PMType
<1>5. /\ q.procs = [pm.procs EXCEPT ![pid] = new]
      /\ q.next_pid = pm.next_pid /\ q.stacks = pm.stacks
  BY <1>0 DEF SetNiceness, IsTable, PMInv, PMType
<1> HIDE DEF new
<1>6. PMInv(q)  BY <1>1, <1>2, <1>3, <1>4, <1>5, OneProcess
<1>7. Exists(q, pid)  BY <1>1, <1>3, <1>5 DEF Exists, PMInv, PMType
<1> QED  BY <1>0, <1>6, <1>7

LEMMA ExitInv ==
    ASSUME NEW pm, PMInv(pm), NEW pid, NEW code \in Int
    PROVE  PMInv(exit(pm, pid, code))
<1> DEFINE d == Die(pm, pid, "Zombie", code)
<1>1. CASE Exists(pm, pid)
  <2>1. PMInv(d)  BY <1>1, DieInv DEF Dead
  <2> HIDE DEF d
  <2>2. PMInv(WakeParent(d, pid))  BY <2>1, SetStateInv DEF WakeParent, Live, Dead
  <2> QED  BY <1>1, <2>2 DEF exit, d
<1>2. CASE ~Exists(pm, pid)  BY <1>2, SetCurrentInv DEF exit
<1> QED  BY <1>1, <1>2

LEMMA SendSignalInv ==
    ASSUME NEW pm, PMInv(pm), NEW pid, NEW sig
    PROVE  PMInv(send_signal(pm, pid, sig))
<1>1. CASE ~Exists(pm, pid) \/ sig \notin SignalNumbers \/ pm.procs[pid].state = "Terminated"
  BY <1>1 DEF send_signal
<1>2. CASE Exists(pm, pid) /\ sig \in SignalNumbers /\ pm.procs[pid].state # "Terminated"
  <2>1. 128 + sig \in Int  BY <1>2 DEF SignalNumbers
  <2>2. PMInv(Die(pm, pid, "Terminated", 128 + sig))  BY <1>2, <2>1, DieInv DEF Dead
  <2>3. PMInv(SetState(pm, pid, "Blocked"))  BY <1>2, SetStateInv DEF Live, Dead
  <2>4. pm.procs[pid].pending \cup {sig} \in SUBSET SignalNumbers
    BY <1>2 DEF Exists, PMInv, PMType, Proc
  <2>5. PMInv(SetPending(pm, pid, pm.procs[pid].pending \cup {sig}))
    BY <1>2, <2>4, SetPendingInv
  <2> QED  BY <1>2, <2>2, <2>3, <2>5 DEF send_signal
<1> QED  BY <1>1, <1>2

\* A dead process is still in the table until it is reaped.
LEMMA DieExists ==
    ASSUME NEW pm, PMInv(pm), NEW pid, Exists(pm, pid),
           NEW state \in Live \cup Dead, NEW code \in Int
    PROVE  Exists(Die(pm, pid, state, code), pid)
<1>0. PICK q : q = Die(pm, pid, state, code)  OBVIOUS
<1>1. pid \in Pids /\ pm.procs[pid] \in Proc /\ state # "Absent"
  BY DEF Exists, PMInv, PMType, Live, Dead
<1>2. q.procs[pid].state = state  BY <1>0, <1>1 DEF Die, IsTable, PMInv, PMType, Proc
<1> QED  BY <1>0, <1>1, <1>2 DEF Exists

LEMMA DeliverInv ==
    ASSUME NEW pm, PMInv(pm), NEW pid
    PROVE  PMInv(deliver_pending_signals(pm, pid))
<1>1. CASE ~Exists(pm, pid)  BY <1>1 DEF deliver_pending_signals
<1>2. CASE Exists(pm, pid)
  <2>1. pm.procs[pid].pending \in SUBSET SignalNumbers /\ pm.procs[pid].state \in Live \cup Dead
    BY <1>2 DEF Exists, PMInv, PMType, Proc
  <2>2. CASE Fatal(pm, pid) # {}
    <3> DEFINE f == CHOOSE s \in Fatal(pm, pid) : \A t \in Fatal(pm, pid) : s <= t
               d == Die(pm, pid, "Terminated", 128 + f)
               pend == {s \in pm.procs[pid].pending : s > f}
    <3>1. Fatal(pm, pid) \in SUBSET Nat  BY <2>1 DEF Fatal, SignalNumbers
    <3>2. f \in Nat  BY <3>1, <2>2, LeastExists
    <3>3. 128 + f \in Int  BY <3>2
    <3> HIDE DEF f
    <3>4. PMInv(d) /\ Exists(d, pid)  BY <1>2, <3>3, DieInv, DieExists DEF Dead
    <3> HIDE DEF d
    <3>5. pend \in SUBSET SignalNumbers  BY <2>1
    <3> HIDE DEF pend
    <3>6. PMInv(SetPending(d, pid, pend))  BY <3>4, <3>5, SetPendingInv
    <3> QED  BY <1>2, <2>2, <3>6 DEF deliver_pending_signals, d, f, pend
  <2>3. CASE Fatal(pm, pid) = {}
    <3> DEFINE st == StateAfter(pm.procs[pid].state, pm.procs[pid].pending)
    <3>1. st \in Live \cup Dead /\ (st \in Dead => pm.procs[pid].slot = NoSlot)
      BY <1>2, <2>1 DEF StateAfter, Live, Dead, Exists, PMInv, StacksExclusive
    <3> HIDE DEF st
    <3>2. PMInv(SetState(pm, pid, st)) /\ Exists(SetState(pm, pid, st), pid)
      BY <1>2, <3>1, SetStateInv
    <3>3. PMInv(SetPending(SetState(pm, pid, st), pid, {}))  BY <3>2, SetPendingInv
    <3> QED  BY <1>2, <2>3, <3>3 DEF deliver_pending_signals, st
  <2> QED  BY <2>2, <2>3
<1> QED  BY <1>1, <1>2

\* Reaping removes a process that owns no stack.
LEMMA RemoveDeadInv ==
    ASSUME NEW pm, NEW q, PMInv(pm), IsTable(q), NEW D \in SUBSET Pids,
           \A p \in D : pm.procs[p].state \in Dead,
           q.procs = [p \in Pids |-> IF p \in D THEN Absent ELSE pm.procs[p]],
           q.next_pid = pm.next_pid, q.stacks = pm.stacks
    PROVE  PMInv(q)
<1>1. q.procs \in [Pids -> Proc]  BY AbsentType DEF PMInv, PMType
<1>2. \A p \in Pids : q.procs[p].slot = pm.procs[p].slot
  BY AbsentType DEF PMInv, PMType, StacksExclusive
<1>3. \A p \in Pids : p >= q.next_pid => q.procs[p] = Absent  BY DEF PMInv, PMType
<1>4. \A p \in Pids : q.procs[p].state \in Dead => q.procs[p].slot = NoSlot
  BY AbsentType DEF PMInv, StacksExclusive
<1>5. q.next_pid \in 1 .. MaxPid + 1 /\ q.next_pid >= pm.next_pid  BY DEF PMInv, PMType
<1> QED  BY <1>1, <1>2, <1>3, <1>4, <1>5, SameSlots

LEMMA CleanupInv ==
    ASSUME NEW pm, PMInv(pm)
    PROVE  PMInv(cleanup_dead_processes(pm))
<1>0. PICK q : q = cleanup_dead_processes(pm)  OBVIOUS
<1> DEFINE D == {p \in Pids : pm.procs[p].state \in Dead}
<1>1. IsTable(q)  BY <1>0 DEF cleanup_dead_processes, IsTable, PMInv, PMType
<1>2. /\ q.procs = [p \in Pids |-> IF p \in D THEN Absent ELSE pm.procs[p]]
      /\ q.next_pid = pm.next_pid /\ q.stacks = pm.stacks
  BY <1>0 DEF cleanup_dead_processes, IsTable, PMInv, PMType
<1>3. PMInv(q)  BY <1>1, <1>2, RemoveDeadInv
<1> QED  BY <1>0, <1>3

LEMMA WaitInv ==
    ASSUME NEW pm, PMInv(pm), NEW parent
    PROVE  PMInv(wait(pm, parent))
<1>1. CASE Zombies(pm, parent) # {}
  <2> DEFINE r == Reaped(pm, parent)
  <2>1. Zombies(pm, parent) \in SUBSET Nat  BY DEF Zombies, Children, Pids
  <2>2. r \in Zombies(pm, parent)  BY <1>1, <2>1, LeastExists DEF Reaped
  <2>3. r \in Pids /\ pm.procs[r].state \in Dead  BY <2>2 DEF Zombies, Children, Dead
  <2>4. PICK q : q = [pm EXCEPT !.procs[r] = Absent]  OBVIOUS
  <2>5. wait(pm, parent) = q  BY <1>1, <2>4 DEF wait
  <2> HIDE DEF r
  <2>6. IsTable(q)  BY <2>4 DEF IsTable, PMInv, PMType
  <2>7. /\ q.procs = [pm.procs EXCEPT ![r] = Absent]
        /\ q.next_pid = pm.next_pid /\ q.stacks = pm.stacks
    BY <2>4 DEF IsTable, PMInv, PMType
  <2>8. q.procs = [p \in Pids |-> IF p \in {r} THEN Absent ELSE pm.procs[p]]
    BY <2>7 DEF PMInv, PMType
  <2>9. PMInv(q)  BY <2>3, <2>6, <2>7, <2>8, RemoveDeadInv
  <2> QED  BY <2>5, <2>9
<1>2. CASE Zombies(pm, parent) = {}
  BY <1>2, SetStateInv DEF wait, Live, Dead
<1> QED  BY <1>1, <1>2
=============================================================================
