-------------------------------- MODULE Tasks --------------------------------
(***************************************************************************)
(* The kernel's async tasks on the boot CPU: the executor of               *)
(* task/executor.rs, the timer futures of task/timer.rs, the input stream  *)
(* of task/keyboard.rs, and the interrupt handlers that wake them.  The    *)
(* tasks are those that main.rs spawns: keyboard_task, which awaits the    *)
(* input stream, and background tasks, each an endless loop over           *)
(* Timer::new(period).await and a body.                                    *)
(*                                                                         *)
(* Interrupts may come between any two steps of the executor; code that    *)
(* runs with interrupts off is one step.  `pc' is what the executor does:  *)
(*   pop       the while loop of run_ready_tasks                           *)
(*   idle      after it, before sleep_if_idle turns interrupts off         *)
(*   hlt       halted, interrupts on                                       *)
(*   due, register, due_again             Timer::poll                      *)
(*   serial, scancode, register_input,                                     *)
(*   serial_again, scancode_again         InputStream::poll_next           *)
(*   body, alloc   the polled task's own code; in alloc it is inside the   *)
(*                 heap allocator, whose mutex it holds, interrupts on     *)
(*   stuck     an ISR spins on the mutex of the heap                       *)
(*   panic     a push into the full task queue                             *)
(***************************************************************************)
EXTENDS Integers, Sequences, SequencesExt, FiniteSets

CONSTANTS Background,   \* the background tasks
          Period,       \* ticks of each Timer::new: 2 to 1092 in main.rs
          QueueCap,     \* capacity of task_queue, 100 in the source
          InputCap,     \* capacity of SCANCODE_QUEUE and SERIAL_QUEUE, 100
          MaxInputs     \* bound: bytes that arrive in one behaviour

CONSTANT keyboard_task

ASSUME TasksAssumption ==
    /\ keyboard_task \notin Background
    /\ Period \in [Background -> Nat \ {0}]
    /\ QueueCap \in Nat /\ InputCap \in Nat /\ MaxInputs \in Nat

Tasks == Background \cup {keyboard_task}

\* Where the counter `late' stops: as many lost races as a full queue takes.
MaxLate == QueueCap - Cardinality(Tasks) + 1

VARIABLES pc, polled, task_queue,
          WAKERS,           \* tasks that wait for the next tick, in order
          late,             \* history: since the queue was last empty, second looks
                            \* that found what the ISR had already sent a wake-up for
          left,             \* ticks until the wake_time of each timer
          input_waker,      \* WAKER of keyboard.rs holds the waker of keyboard_task
          SERIAL_QUEUE, SCANCODE_QUEUE,   \* bytes in each
          inputs

vars == <<pc, polled, task_queue, WAKERS, late, left, input_waker,
          SERIAL_QUEUE, SCANCODE_QUEUE, inputs>>

timer_vars == <<WAKERS, late, left>>
input_vars == <<input_waker, SERIAL_QUEUE, SCANCODE_QUEUE, inputs>>

\* main: every task is spawned, that is queued, and no timer exists yet.
Init ==
    /\ pc = "pop"
    /\ polled = keyboard_task
    /\ task_queue \in {q \in [1 .. Cardinality(Tasks) -> Tasks] : ToSet(q) = Tasks}
    /\ WAKERS = <<>>
    /\ late = 0
    /\ left = [t \in Background |-> 0]
    /\ input_waker = FALSE
    /\ SERIAL_QUEUE = 0
    /\ SCANCODE_QUEUE = 0
    /\ inputs = 0

-----------------------------------------------------------------------------
(* The executor *)

FirstStep(t) == IF t = keyboard_task THEN "serial" ELSE "due"

\* No task ever completes: all of them loop for ever.
run_ready_tasks ==
    /\ pc = "pop"
    /\ IF task_queue = <<>>
       THEN pc' = "idle" /\ late' = 0 /\ UNCHANGED <<polled, task_queue>>
       ELSE /\ polled' = Head(task_queue)
            /\ task_queue' = Tail(task_queue)
            /\ pc' = FirstStep(Head(task_queue))
            /\ late' = late
    /\ UNCHANGED <<WAKERS, left, input_vars>>

\* Mutant: halt without looking at the queue.
sleep_if_idleBlindly ==
    /\ pc = "idle"
    /\ pc' = "hlt"
    /\ UNCHANGED <<polled, task_queue, timer_vars, input_vars>>

\* The queue is tested with interrupts off, and sti;hlt lets none in between.
sleep_if_idle ==
    /\ pc = "idle"
    /\ pc' = IF task_queue = <<>> THEN "hlt" ELSE "pop"
    /\ UNCHANGED <<polled, task_queue, timer_vars, input_vars>>

-----------------------------------------------------------------------------
(* Timer::poll *)

Due(stage, next) ==
    /\ pc = stage
    /\ pc' = IF left[polled] = 0 THEN "body" ELSE next
    /\ UNCHANGED <<polled, task_queue, WAKERS, left, input_vars>>

Late(lost) == late' = IF lost /\ late < MaxLate THEN late + 1 ELSE late

timer_poll == Due("due", "register") /\ UNCHANGED late

\* The waker stays registered, or has been pushed, when the second look
\* finds the timer due.
timer_poll_again == Due("due_again", "pop") /\ Late(left[polled] = 0)

\* Mutant: one waker for all tasks, as timer.rs:4-6 says it once was.
register_wakerSingle ==
    /\ pc = "register"
    /\ pc' = "due_again"
    /\ WAKERS' = <<polled>>
    /\ UNCHANGED <<polled, task_queue, late, left, input_vars>>


register_waker ==
    /\ pc = "register"
    /\ pc' = "due_again"
    /\ WAKERS' = IF polled \in ToSet(WAKERS) THEN WAKERS ELSE Append(WAKERS, polled)
    /\ UNCHANGED <<polled, task_queue, late, left, input_vars>>

-----------------------------------------------------------------------------
(* InputStream::poll_next *)

\* Pop a byte of q, which becomes the event the task's body handles, or go on.
serial_pop(stage, next) ==
    /\ pc = stage
    /\ pc' = IF SERIAL_QUEUE > 0 THEN "body" ELSE next
    /\ SERIAL_QUEUE' = IF SERIAL_QUEUE > 0 THEN SERIAL_QUEUE - 1 ELSE 0
    /\ UNCHANGED <<polled, task_queue, WAKERS, left, SCANCODE_QUEUE, inputs>>

scancode_pop(stage, next) ==
    /\ pc = stage
    /\ pc' = IF SCANCODE_QUEUE > 0 THEN "body" ELSE next
    /\ SCANCODE_QUEUE' = IF SCANCODE_QUEUE > 0 THEN SCANCODE_QUEUE - 1 ELSE 0
    /\ UNCHANGED <<polled, task_queue, WAKERS, left, SERIAL_QUEUE, inputs>>

poll_serial == serial_pop("serial", "scancode") /\ UNCHANGED <<input_waker, late>>

poll_scancode == scancode_pop("scancode", "register_input") /\ UNCHANGED <<input_waker, late>>

register_input ==
    /\ pc = "register_input"
    /\ pc' = "serial_again"
    /\ input_waker' = TRUE
    /\ UNCHANGED <<polled, task_queue, timer_vars, SERIAL_QUEUE, SCANCODE_QUEUE, inputs>>

\* A byte found by the second look takes the waker back, if the ISR has not.
TakeWaker(queue) ==
    /\ input_waker' = (input_waker /\ queue = 0)
    /\ Late(queue > 0 /\ ~input_waker)

poll_serial_again == serial_pop("serial_again", "scancode_again") /\ TakeWaker(SERIAL_QUEUE)

\* Mutant: no second look at the scancode queue.
poll_scancode_againSkips ==
    /\ pc = "scancode_again"
    /\ pc' = "pop"
    /\ UNCHANGED <<polled, task_queue, timer_vars, input_vars>>

poll_scancode_again == scancode_pop("scancode_again", "pop") /\ TakeWaker(SCANCODE_QUEUE)

-----------------------------------------------------------------------------
(* The body of a task, between two awaits *)

\* Any body allocates: strings, log records, segments, output of a command.
body ==
    /\ pc = "body"
    /\ pc' = "alloc"
    /\ UNCHANGED <<polled, task_queue, timer_vars, input_vars>>

\* Timer::new, or the next turn of the keyboard loop.
next_await ==
    /\ pc = "alloc"
    /\ pc' = FirstStep(polled)
    /\ left' = IF polled = keyboard_task THEN left ELSE [left EXCEPT ![polled] = Period[polled]]
    /\ UNCHANGED <<polled, task_queue, WAKERS, late, input_vars>>

-----------------------------------------------------------------------------
(* Interrupts *)

IF_set == pc \notin {"stuck", "panic"}

\* What the executor goes on with after an ISR that pushed ts.
After(ts) ==
    IF Len(task_queue) + Len(ts) > QueueCap THEN "panic"
    ELSE IF pc = "hlt" THEN "pop" ELSE pc

Wake(ts) == task_queue' = IF Len(task_queue) + Len(ts) > QueueCap THEN task_queue ELSE task_queue \o ts

\* tick(): the vector of drained wakers is freed when all of them are woken,
\* and a vector that never held a waker has nothing to free.
timer_interrupt ==
    /\ IF_set
    /\ left' = [t \in Background |-> IF left[t] = 0 THEN 0 ELSE left[t] - 1]
    /\ Wake(WAKERS)
    /\ WAKERS' = <<>>
    /\ pc' = IF pc = "alloc" /\ WAKERS # <<>> /\ After(WAKERS) # "panic"
             THEN "stuck" ELSE After(WAKERS)
    /\ UNCHANGED <<polled, late, input_vars>>

\* AtomicWaker::wake takes the waker.
WakeInput ==
    LET ts == IF input_waker THEN <<keyboard_task>> ELSE <<>> IN
    /\ Wake(ts)
    /\ input_waker' = FALSE
    /\ pc' = After(ts)

\* Mutant: no limit on the queue.
serial1_interruptUncapped ==
    /\ IF_set /\ inputs < MaxInputs
    /\ inputs' = inputs + 1
    /\ SERIAL_QUEUE' = SERIAL_QUEUE + 1
    /\ WakeInput
    /\ UNCHANGED <<polled, timer_vars, SCANCODE_QUEUE>>

\* add_serial_byte drops the byte when the queue is full, and wakes all the same.
serial1_interrupt ==
    /\ IF_set /\ inputs < MaxInputs
    /\ inputs' = inputs + 1
    /\ SERIAL_QUEUE' = IF SERIAL_QUEUE = InputCap THEN InputCap ELSE SERIAL_QUEUE + 1
    /\ WakeInput
    /\ UNCHANGED <<polled, timer_vars, SCANCODE_QUEUE>>

\* add_scancode wakes only when the scancode was queued.
keyboard_interrupt ==
    /\ IF_set /\ inputs < MaxInputs
    /\ inputs' = inputs + 1
    /\ IF SCANCODE_QUEUE = InputCap
       THEN pc' = After(<<>>) /\ UNCHANGED <<task_queue, input_waker, SCANCODE_QUEUE>>
       ELSE SCANCODE_QUEUE' = SCANCODE_QUEUE + 1 /\ WakeInput
    /\ UNCHANGED <<polled, timer_vars, SERIAL_QUEUE>>

dead == ~IF_set /\ UNCHANGED vars

-----------------------------------------------------------------------------

Run ==
    \/ run_ready_tasks \/ sleep_if_idle
    \/ timer_poll \/ register_waker \/ timer_poll_again
    \/ poll_serial \/ poll_scancode \/ register_input
    \/ poll_serial_again \/ poll_scancode_again
    \/ body \/ next_await

Next == Run \/ timer_interrupt \/ serial1_interrupt \/ keyboard_interrupt \/ dead

\* The CPU executes whatever is not halted, and the PIT never stops.
Spec == Init /\ [][Next]_vars /\ WF_vars(Run) /\ WF_vars(timer_interrupt)

-----------------------------------------------------------------------------
(* Properties *)

\* The executor, the queues and the timers keep their ranges: no queue holds
\* more than its capacity.
TypeOK ==
    /\ pc \in {"pop", "idle", "hlt", "due", "register", "due_again", "serial", "scancode",
               "register_input", "serial_again", "scancode_again", "body", "alloc", "stuck", "panic"}
    /\ polled \in Tasks
    /\ task_queue \in Seq(Tasks) /\ Len(task_queue) <= QueueCap
    /\ WAKERS \in Seq(Background)
    /\ late \in 0 .. MaxLate
    /\ left \in [Background -> Nat]
    /\ input_waker \in BOOLEAN
    /\ SERIAL_QUEUE \in 0 .. InputCap /\ SCANCODE_QUEUE \in 0 .. InputCap
    /\ inputs \in 0 .. MaxInputs

\* The CPU halts only when there is nothing to do: no task queued, no input
\* byte waiting, every timer registered for the next tick.  One interrupt in
\* the wrong place between a look at a queue and the registration of a waker,
\* or between the test and the HLT of sleep_if_idle, would break it.
HaltMeansIdle ==
    pc = "hlt" =>
        /\ task_queue = <<>> /\ SERIAL_QUEUE = 0 /\ SCANCODE_QUEUE = 0
        /\ input_waker /\ ToSet(WAKERS) = Background

\* A poll that has not registered a waker, and so still answers a wake-up.
Polling == pc \in {"due", "register", "serial", "scancode", "register_input", "body", "alloc"}

\* The wake-ups that exist: queued, registered, or being answered by a poll.
WakeUps ==
    Len(task_queue) + Len(WAKERS)
        + Cardinality({w \in {"input"} : input_waker}) + Cardinality({w \in {"poll"} : Polling})


\* No task keeps the executor for ever: its body takes less than its period,
\* and the kernel neither hangs in an ISR nor panics.
TasksYield == []<>(pc = "pop")

\* Every byte of input is consumed: no interleaving of the ISR with poll_next
\* leaves a byte in a queue and the keyboard task asleep.
InputConsumed ==
    TasksYield => (SERIAL_QUEUE + SCANCODE_QUEUE > 0 ~> SERIAL_QUEUE + SCANCODE_QUEUE = 0)

\* Every timer fires: a background task that awaits a Timer runs its body
\* again, however many tasks await one at the same time (timer.rs:3-7).
TimersFire ==
    TasksYield => \A t \in Background : left[t] > 0 ~> (pc = "body" /\ polled = t)

\* "tick() runs inside a hardware ISR.  It must not block on a lock that
\* mainline code holds" (timer.rs:10-11).
TickNeverBlocks == pc # "stuck"
=============================================================================
