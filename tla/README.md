# Verification of Embedded_performance_demo

TLA+ specifications of the Arduino sketches in this repository, model-checked
with TLC, with the core theorems proved in TLAPS. Paths are relative to `src/`;
`scheduler.cpp` without a directory is `Task_scheduler/scheduler.cpp`.

## 1. The system

The repository shows three ways to keep an LED blinking while something heavy
is computed.

| Part | State | Operations | Talks to |
|---|---|---|---|
| Ring buffer `os_queue_t` (scheduler.cpp 386-465) | buffer, `currentSize` (uint16), `in`, `out` | init, add, remove, isEmpty | used by the message and the timer layer |
| Task layer (200-291) | `os_task_admin[4]`, `os_latest_added_task`, `task_running` | add, subscribe, current id, run | `os_run_task` calls back into the sketch |
| Message layer (312-377) | queue of (destination, message), `msg_pending` | post, pending, retrieve | callbacks post and retrieve, the loop dispatches |
| Timer layer (471-601) | `os_timers[4]`, queue of task ids, 64-bit `os_timer_counter` | add, start, stop, new value, check, pending, count | `os_timer_count` runs in the timer interrupt |
| Main loop (71-163) | `os_error`, `last_checked_task_id` | init events, then per pass: one message, all timers, one expiry, one idle turn | all layers |
| Sketch `Task_scheduler.ino` | `timer` of task 2, `msgReceived` of task 3 | three callbacks | the kernel |
| Sketch `Task_scheduler_stress_test.ino` | `LED_Status`, two timers | two callbacks, a long idle computation | its own copy of the kernel |
| `Context_switcher.ino` and `avrcontext*.h` | two saved contexts, number and pointer of the current one | setup, naked timer interrupt, save and restore macros | preempts both tasks |
| Coroutines `avrcoro*.h` | per coroutine: status, data, the contexts `ret` and `exec` | init, resume, yield, state, the trampoline | any program: no sketch calls them |
| `Basic_Stress_Test.ino` | an iteration counter | one loop | - |

What is hard about it: the kernel is cooperative, but the interrupt changes the
counter at any moment, between any two steps of the loop and (on an 8-bit
machine) between two bytes of one read. Queues take elements without asking for
room. Each pass of the loop hands out one message, one expiry and one idle
event, while callbacks may create more. Callbacks run inside the kernel's own
steps and call back into it. In the context switcher any instruction of a task
may be followed by a switch. A coroutine hands control and data over by two
fields and two contexts, across stacks that the interrupt uses as well.
`PROJECT.json` lists each of these hazards at its
line with the properties that would catch it.

What makes each part correct:

- ring buffer: it is a FIFO while there is room, and never more wrong than a
  window of the latest elements when there is not;
- task layer: each task is initialised once, no lookup leaves the table;
- message layer: a message reaches the task addressed, and only that one;
- timer layer: every expiry reaches the owner, none before its time (which the
  code does not keep, see `torn_early`);
- main loop: nobody starves, an error stops it;
- sketches: no token is lost or doubled, the LED follows its timer;
- context switcher: each task is left as it was, and both run;
- coroutines: control and data go from resumer to coroutine and back, each
  party finds its stack and its registers again.

## 2. Modules

| Module | What it is |
|---|---|
| `OsQueue` | the ring buffer as operators over an `os_queue_t` record |
| `WindowQueue` | abstract: the last `Capacity` elements added and the number of removals owed; no indices |
| `QueueUse` | one ring buffer and callers that add and remove in any order; implements `WindowQueue` |
| `Scheduler` | the kernel: one action per statement group of `os_main`, `os_timer_check_timers` and the interrupt; every API call also as an operator |
| `AnyTasks` | the kernel with a `setup` and tasks that make any call, but for a late task that fills the table |
| `TaskSchedulerDemo` | the kernel with the three callbacks of `Task_scheduler.ino` |
| `StressTestDemo` | the kernel with the two callbacks of the stress test |
| `TornCounter` | one timer and the counter, read byte by byte |
| `AvrContext` | registers, stacks and contexts, the save and restore macros as instruction sequences and a machine that executes them |
| `ContextSwitch` | `Context_switcher.ino` on that machine |
| `AsymmetricCoroutines` | abstract: who waits for whom, as a chain of parties and pieces cut off it; no contexts, no stacks |
| `Coroutine` | `avrcoro_impl.h` on the machine of `AvrContext`, its callers and the interrupt; implements `AsymmetricCoroutines` |
| `MCCoroutine` | its constants for TLC, with the symmetry of coroutines and of values |
| `QueueUse_proofs` | lemmas on remainders and on one ring buffer; theorems about `QueueUse` |
| `Scheduler_proofs` | those lemmas for the queues of the kernel, with what waits in them; what the kernel's own steps and the operators of its API preserve, whatever the callbacks |
| `AnyTasks_proofs` | theorems about `AnyTasks` |
| `TaskSchedulerDemo_proofs` | theorems about `Task_scheduler.ino` |
| `TornCounter_proofs` | quotients, the bytes of a number, theorems about `TornCounter` |
| `AvrContext_proofs` | what the save and restore macros do, instruction by instruction |
| `ContextSwitch_proofs` | theorems about `Context_switcher.ino` |
| `Coroutine_proofs` | theorems about the coroutines |

`AnyTasks`, `TaskSchedulerDemo` and `StressTestDemo` extend `Scheduler`, which
extends `OsQueue`; `ContextSwitch` and `Coroutine` extend `AvrContext`. The `map` of
`PROJECT.json` gives the source lines of every definition. A definition whose
comment begins with "Faulty variant" is a plausible mistake in the definition
that follows it; it is used by no specification and serves to show that a
property notices such a mistake.

### State and actions

Variables carry the names of the code's variables. `pc` in `Scheduler` says
which statement of `setup` or `os_main` is next, and `event` which callback
executes (`"none"`: the kernel itself). Entering a callback, its calls, and its
return are separate steps in `AnyTasks`; the callbacks of the two sketches are
one step each, because they contain no loop and the only thing that can come
between is a tick, whose effect none of their statements but `os_timer_start` sees.
`analog_function` is an exception: its callback stays open while ticks go by.

`CheckTimer` and `RearmTimer` are one turn of the loop of
`os_timer_check_timers`, split where the code reads the counter the second time.
An access of the main loop to the 64-bit counter (scheduler.cpp:549, 574) is one
step, but its result is not always the counter: `Reads` gives the counter as it
is, or, when a tick falls into the access, any value whose bytes are each that of
before or of after the tick (`IsTorn`). `TornCounter` opens the access, and says
how wrong the value can be.
A queue entry's `memcpy` is one step, since only the main loop touches queues.

In `AvrContext` the variable `code` holds the instructions of the macro that
executes, and each is a step. `Coroutine` has one action per call of `avrcoro.h`
up to the context switch in it, and one for the statements after it; a return
address on a stack carries the function it leads back to with its locals. The
mapping to `AsymmetricCoroutines` reads the chain off the contexts: a running
coroutine was resumed by the party on whose stack its context `ret` is.

### Assumptions

- `os_add_function_pointers` and `os_init` succeed, as in both sketches, before
  any task is added; `Init` is the state they leave.
- Tasks are added only while the table has an entry: with a full table
  `os_add_task` reads `os_task_admin[4]` (scheduler.cpp:227), and what it does then
  is not defined. Its error branch is translated, but no call of the model
  takes it, as the entry behind the last task never has a callback.
- A callback of a pass does not add the task that fills the table: the pass goes
  on, and its idle turn would look behind the table (hazard at scheduler.cpp:232).
  `IdleIndexInTable` holds under this condition only; init callbacks may
  fill the table. Tasks added in a pass before that are allowed; they never get
  an init event, as in the code.
- Task ids, timer ids and events passed to the API are within range.
- At most one tick falls into an access to the counter: microseconds against the
  10 ms between ticks. 2^64 ms do not pass.
- At most `MaxTicksPerPass` ticks fall into a pass of the loop of the demo, and
  eight passes fit between delay and period (`PassesAssumption`): the code has
  9 s for them, so it holds as long as a pass takes about a second. `NoError` and
  `NoTokenInvented` do not need it.
- `ContextSwitch`: the megaAVR 0 of timer `TCB2` leaves the interrupt enable bit
  alone when it takes an interrupt, blocks further ones until `reti`, and then
  executes one instruction of the interrupted program. A task that runs may
  change all its registers in one step. `analog_task` is entered at once instead
  of through `avr_makecontext_callfunc`, and the context `dummy_ctx` that follows it
  is left out (Context_switcher.ino:56): it never returns.
- `Coroutine`: the same processor. An entry that is popped, or lies below the
  stack pointer, counts as lost at once, since an interrupt may overwrite it.
  Callers may disable interrupts around a call (`Silent`) and pass `NULL` for the
  data (`Deaf`). A caller resumes only what was initialised, yields only a
  coroutine of the running chain (avrcoro.h:65 asks for "a currently running
  coroutine"), and does not initialise one again while its stack is in use.
  A program has finitely many variables of type `avr_coro_t`. Calls with `NULL` for
  the coroutine, the stack or the function, or an empty stack, which are refused
  (avrcoro_impl.h:33, 49, 65), are left out.
  `InterruptsSplitSP` says whether an interrupt may come between the two writes
  of the stack pointer: it can (finding `coroutine_split`), and everything else
  is checked for programs where it does not.

### Fairness

The loop of `os_main` never blocks, so weak fairness of the kernel's steps says
only that the processor executes. Weak fairness of `CallbackReturns` (of the
callbacks, in the sketches) says that every callback returns: the discipline a
cooperative kernel rests on, which the callbacks of the sketches keep. Ticks
need no fairness in `AnyTasks` and the stress test. `TokenReported` waits for a
timer to run out, so it needs the hardware timer to tick on: strong fairness,
since in the model a tick is disabled while a pass has had all of its ticks.
`ContextSwitch` assumes that the processor executes and that the timer ticks.

## 3. Runs

| Run | Shows |
|---|---|
| `queue_use` | `TypeOK`, `IndicesAgree`, `ImplementsWindow`: the ring buffer with additions far ahead of removals, past overruns and wraps of the count |
| `messages` | `IdleIndexInTable`, `RetrieveSafe`, `InitOnce`, `MessageServed`, `IdleServed`: a setup and tasks that add tasks, subscribe each other, post, retrieve |
| `timers` | `TimerOwners`, `TimerServed`: two tasks, two timers, added, started and stopped at will |
| `mixed` | `TypeOK`, `TimerOwners`, `TimerServed`, `ErrorStops`: one task and setup, the whole API at once, also on a timer that setup added and no task owns |
| `demo` | `NoError`, `NoTokenInvented` always; `OneTokenAtATime`, `PeriodKept`, `TokenReported` as long as no access to the counter is torn: `Task_scheduler.ino` |
| `stress` | `NoBacklog`, `LedFollows`, `LedServed`: `Task_scheduler_stress_test.ino` |
| `torn` | `StartNonZero`, `ExactWithoutCarry`, `OffByLessThanCarry`: how wrong a torn read can be |
| `context_switch` | `TasksIsolated`, `CurrentAgrees`, `SwitchesEarned`, `BothRun`: the preempted tasks |
| `coroutine` | `StacksKept`, `PartiesRestored`, `ImplementsCoroutines`: init, resume, yield and return in any order, nested, interrupted anywhere but between the halves of SP |
| `torn_early` | violation: a timer expires before its time after a torn read |
| `failed` | violation: `os_task_failed` does not stop the OS |
| `coroutine_split` | violation: an interrupt between the halves of SP overwrites a waiting party's stack |

Bounds, and why they are enough:

- `QueueUse.cfg`: three slots, so that `in`, `out` and the overwritten slot can
  all differ; the 16-bit count is scaled to 9, three times the capacity, so that
  overruns of every depth and the wrap occur.
- `AnyTasks_*.cfg`: a table of three entries runs two tasks (the third addition
  is an error, which is part of what is checked); two or one calls per callback,
  and an idle callback comes round again, so every order of calls occurs; `setup`
  makes as many. `SetupCall` and `Others` say which calls `setup` makes, and which
  tasks a subscription may name besides the running one; the runs differ
  in them, since all at once is more than TLC can enumerate. Queues
  of one or two slots, so that they overrun. `MaxCounter` allows two ticks:
  both timers expire, one of them twice before its owner is called. The counter
  has two bytes of two bits there, and its carry at 4 tears an access.
- `TaskSchedulerDemo.cfg`: ticks scaled (a tick is 2, delay 4, period 44 instead
  of 10, 1000 and 10000 ms, with the ratio of delay to period kept near), two
  ticks in a pass, two periods and a half. The counter has three bytes of two
  bits and one of one bit: carries are frequent, and the one at 64, which may fall
  into the delay of the first token, lets a torn access read up to 127.
- `StressTestDemo.cfg`: period of 7 ticks, a call of `analog_function` of up to
  10 ticks, so that a period may pass within one; three periods. Three waiting
  expiries do occur. Two bytes of four bits: a torn access at the carries at 16 and
  32 is off by more than a period. None of the three properties is about
  when a timer expires, and all hold with torn accesses.
- `TornCounter.cfg`: three bytes of two bits, so that a carry into the second
  and one into the third byte occur; at most one tick in an access, which takes
  microseconds against 10 ms between ticks.
- `ContextSwitch.cfg`: a task uses up to one stack entry, the macros four more.
- `Coroutine.cfg`: two coroutines and the main program, the least that nests, has
  a piece of two suspended and resumed from elsewhere, and a yield from the
  middle of a chain; two values, so that an old one is told from a new one; one
  of three parties calls with interrupts disabled and without data. Seven stack
  entries are what the deepest call needs.

`MaxCounter` bounds the counter in the guard of the tick; a specification stops
ticking there, so the liveness properties ask only for what does not need
another tick. Deadlock is not checked where the model ends (the OS halted, or
the clock at its bound).

## 4. Proofs

`QueueUse_proofs`, from `QueueAssumption` (a capacity of at least one that
divides the range of the count; both are powers of two in the code):

- `TypeCorrect`, `IndicesCorrect`: `TypeOK` and `IndicesAgree` together are
  inductive; the second needs that the capacity divides the range of the count,
  at the step where the count wraps.
- `QueueImplementsWindow`: under the mapping `recent <- Recent`,
  `owed <- currentSize` every step is a step of `WindowQueue`. The proof shows
  that adding shifts the window by one, and that `out` points at the element
  `Capacity - owed + 1` of it whenever the queue is not overrun, which is
  `IndicesAgree`.

The kernel (`AnyTasks_proofs` on the lemmas of `Scheduler_proofs`), from `SchedulerAssumption` and `AnyTasksAssumption`, for all sizes of
table and queues and any number of calls per callback (the capacity of the timer
queue divides the range of its count, as 4 does 65536):

- `TypeCorrect`: `TypeOK` is inductive.
- `IdleIndexCorrect`: `IdleIndexInTable` is not inductive, since it does not say
  why the idle turn does not happen with a full table. The strengthening
  `TableInv` adds that a full table implies `os_error`, that a pass that is past
  its head has a table with room, and that the init event is handled in the init
  loop only, so that the guard of `CallAddTask` leaves an entry in a pass.
- `RetrieveCorrect`: the destination of `msg_pending` is the running task while
  a message callback executes; no other stage touches either variable.
- `InitOnceCorrect`: an action property. `InitOnce` speaks of the step that leaves
  the init loop and of the steps that count an init event, so
  `InitInv` adds what holds on the way there: the tasks in the table are those
  below `os_latest_added_task`, each subscribed for the init event, and in the
  init loop exactly those below `index` have been called, but for the one that
  is executing. A task added by an init callback lands behind `index`.
- `TimerOwnersCorrect`: an owner is a task with a callback, or the id of no task
  when `setup` added the timer. `OwnersInv` adds that the running
  callback belongs to a task that has one, and that `in` of the queue of
  expiries is where the queue ends. From the latter `Scheduler_proofs` shows for
  any ring buffer that what waits after an addition waited before or is the new
  element, overrun or not; the set of owners only grows.

The sketch (`TaskSchedulerDemo_proofs`), from `DemoAssumption` and
`SchedulerAssumption`, for every period, delay, message queue, every task table
with an entry more than its tasks and every timer table with two entries:

- `NoErrorCorrect`: `NoErrorInv` follows the three sources of errors. The
  table is not full since three tasks leave an entry; a timer slot is free since
  the slots in use lie below the number of init callbacks that have returned;
  and a message is retrieved by the task it was dispatched to.

- `OneTokenCorrect`, `PeriodCorrect`: both say what holds as long as no access to
  the counter has been torn, which the history variable `torn` records, and promise
  nothing after that. They follow from one invariant,
  `DemoInv`, that also needs `PassesAssumption`; inductive is `torn \/ DemoInv`.
  `ReadsWhole`, `StartsWhole` and `ChecksWhole` reduce a step that tears nothing
  to one that reads the counter itself. `TokenInv` lists the eleven
  places where the token can be (at rest, as an expiry of task 1, as a message,
  as the running delay, as an expiry of task 2, and so on to task 3's flag). At
  each it says that there is nothing elsewhere, and how long ago task 1's timer
  was restarted, counted in passes and delays to `PassStart`, the counter at the
  start of the pass. A tick moves the counter and not `PassStart`, so only the
  beginning of a pass ages the token, by at most `PassTime`. The oldest token
  gets task 3's idle turn in a pass that began less than `Delay + 7 * PassTime`
  after the restart and lasts one `PassTime` more, so that task 1's timer cannot
  have run out before. `Kept` and `KeptOnce` relate the timer's start value to
  the number of tokens, with each restart between one period and a period and
  two passes after the last.

The save and restore macros (`AvrContext_proofs`, from `ContextAssumption`).
`SavingAt`, `RestoringAt` and `EnteringAt` say for each position in a macro what is in
the registers, on the stack and in the context by then; `SavingStep`,
`RestoringStep` and `EnteringStep` take these from one position to the next, for
every stack, depth, context and whatever code follows. `GetContextCode`,
`SetContextCode` and `SwapContextCode` split the functions into these blocks. Both
components below rest on them.

The context switcher (`ContextSwitch_proofs`), from `SwitchAssumption`: stacks of
any size with four entries to spare beyond what the tasks use.

- `TasksIsolatedCorrect`, `CurrentCorrect`: neither is inductive, since both speak
  only of the moments at which a task executes. `IInv` adds the interrupt
  routine: one task runs and the other is `Suspended` in its context, or the
  running one is `Leaving` (which of the entries it pushed, which registers are
  saved already), or both are suspended and one is `Arriving`. `SettingUp` does
  the same for `setup`, which makes the second context out of the first task's.
- `SwitchesEarnedCorrect`: the action property, from the same invariant. The
  interrupt flag is cleared in the routine, by the instruction after
  `switch_task`, and whatever is pending after that is a later tick.

The coroutines (`Coroutine_proofs`), from `CoroutineAssumption` and
`~InterruptsSplitSP`, for every number of coroutines, every depth of nesting,
every set of callers that disable interrupts or pass no data.

- `StacksKeptCorrect`, `PartiesRestoredCorrect`: `IInv` says of the contexts what
  they are, or during a call what they are going to be. `World`: a chain leads
  from the main program to the party that executes, each resumed by the one
  before; each suspended coroutine is the head of a piece like it, whose last
  party goes on when the coroutine is resumed, or has not begun. Pieces and
  chain are disjoint, because a party waits in one call only (`Disjoint`). `Stage`: the
  party that executes is in its own code, initialises a coroutine, leaves, arrives,
  has arrived, or begins. `FramesKept`: what a waiting party has on its stack is
  there. An interrupt overwrites what lies behind the stack pointer, so at each
  instruction nothing that is kept may lie there (`Harmless`). Between the
  halves of the stack pointer it does, which is what `~InterruptsSplitSP` excludes.
- The guard of `avr_coro_yield` and the mapping to `AsymmetricCoroutines` read
  chain and pieces through the recursive function `Ancestor`.
  `AncestorIs` shows what it is along a path that is given, `PathFound` that
  the model finds the path. The prover cannot instantiate its
  induction theorems, but it can take the least number at which a claim fails
  (`LeastNumber`, from the well-foundedness of `<`) and contradict it.
- `CoroutinesImplement`: the refinement. Between calls the mapping gives the chain
  and the pieces of `World` (`MappedIs`); during a call it stands still. `RInv` adds to `IInv`
  what a call that is under way leads to: the state before it (`visible`) and the
  state it brings about are related by an action of `AsymmetricCoroutines`, written
  as a relation between two states (`Creates`, `Switches`). The lemmas
  `...Abides` show that the beginning of a call establishes this. It is there that
  chain and pieces are cut and joined as avrcoro.h promises, and that the data
  the caller left in the coroutine is what the party that goes on will find
  (`Sent`). The steps in between keep it, and when that party is back in
  its own code the mapping moves by exactly that action.

The 64-bit counter (`TornCounter_proofs`), from `TornCounterAssumption`, for bytes
of any even size, any number of them, any number of ticks during an access and any
order of the loads; the counter does not wrap (2^64 ms):

- The invariant `IInv`: the counter is odd, and each byte loaded is that of an
  odd number the counter was at some moment since the access began. The moments
  of different bytes differ, which is what a torn read is.
- What the bytes make up is a recursive sum, `Assemble`. The prover
  cannot use a recursive function before it is shown that one satisfies the
  equation; `Steps` shows that for any recursion on numbers, `UpTo` is the
  induction, on sets instead of predicates. `AgreeFrom`: if the bytes from `i` on
  are those of a number, so is the quotient by the weight of `i`.
- `StartNonZeroCorrect`: the lowest byte of an odd number is odd (`OddByte`),
  and the sum is not less than its lowest byte.
- `OffByLessThanCarryCorrect`: a moment between two with the same quotient has that quotient
  (`DivMonotone`), hence the same bytes above (`SameAbove`, then `AgreeFrom`). The byte
  at `i` was loaded at such a moment, so what is read and the counter of that moment
  differ below `i` only: by less than the weight of `i`.
- `ExactWithoutCarryCorrect`: in addition what the lowest byte was loaded from is the
  very number that is read.

Only model-checked: liveness, which is out of the prover's reach,
`NoTokenInvented`, and the two invariants of the stress test.

## 5. Where documents and code differ

The three findings of `PROJECT.json` have runs.

`torn_early` matters to `Task_scheduler.ino`. Without the condition `~torn`,
TLC refutes `OneTokenAtATime` and `PeriodKept`: a tick carries into a higher byte
(63 to 65 in the bounds of the run) while the expiry of task 1's timer is compared,
the comparison sees a counter far ahead, and task 1 sends a second token
during task 2's delay. Its message restarts the one-shot timer, and the
first token is lost for good: two are sent, one is reported, nothing is under way.
So `TokenReported` does not hold without the condition either. In the sketch's
numbers, a carry from the second byte into the third, every 65.5 s, may make the value
65 s too large. What holds regardless is that no token is made up
(`NoTokenInvented`), that the kernel reports no error (`NoError`), and everything
`AnyTasks` and the stress test say: they speak of expiries, not of when they
come, and their runs tear accesses as well.

Others, seen while modelling:

- scheduler.h:38 says of the idle event "no messages and if activated timer
  events are pending"; `os_main` gives it in every pass, busy or not.
- scheduler.cpp:446 "return true if queue is full": `os_queue_isFull` is false
  for an overrun queue. Nobody calls it.
- scheduler.h:106 speaks of a message queue "for each prio"; there is one queue.
- scheduler.h:105 "Maximum number of tasks" is 4, but os_add_task reports an
  error for the fourth (scheduler.cpp:233); the proof of `IdleIndexInTable`
  shows that the idle turn depends on it.
- avrcoro.h:97-99: a coroutine that has resumed another one is `RUNNING`, too.
- Basic_Stress_Test.ino:53: "first 10 iterations" are 11.

## 6. Plan

Done: ring buffer, kernel, both scheduler sketches, torn counter, context
switcher, coroutines; theorems for the ring buffer, and for every safety property
of `AnyTasks`, `Task_scheduler.ino` (`NoTokenInvented` excepted), the torn counter,
the context switcher and the coroutines; the refinements of the queue and the
coroutines.

Worth doing next: theorems about the stress test, whose backlog is bounded by the
time one callback takes.

Not modelled:

- formatting and output of log lines, what the sketches compute from the analog
  inputs, the register values of the hardware timers, `LICENSE`;
- `Basic_Stress_Test.ino`: one loop with delays, a counter of iterations and an
  index of a buffer, each reset at its bound; nothing interleaves, fails or waits;
- `avrcontext_arduino.h` and `.c`, which only include the other headers;
- `avr_coro_state`, `os_queue_size`, `os_queue_capacity`, `os_queue_isFull`, which
  only read.
