# StreamPU in TLA+

StreamPU is a C++ runtime for streaming applications. A program is a graph of
*tasks* that exchange data through *sockets*; a `Sequence` runs the graph in a
loop on one thread or on several clones of it; a `Pipeline` cuts the graph
into *stages*, each a `Sequence` with its own number of threads, and puts an
`Adaptor_m_to_n` between two consecutive stages. Schedulers choose the stages,
their threads and where they run. This directory holds TLA+ models of that
runtime, the TLC configurations that check them on small instances, and TLAPS
proofs of what matters most for every size.

All paths below are relative to the repository, which the models call `src/`:
`src/src/...` are its sources, `src/include/...` its headers.

## 1. Inventory

### 1.1 Components

| component | state it keeps | operations | what makes it correct |
|---|---|---|---|
| `Adaptor_m_to_n` | ring buffers, `first`, `last`, `counter` per channel, two mutexes and condition variables per channel; per instance `cur_push_id`, `cur_pull_id`, `waiting_canceled` | `push`, `pull`, `wait_push/pull`, `wake_up*`, `get_*_buffer`, `cancel_waiting`, `reset`, `add_pusher/puller` | frames in global order, none lost or repeated; a buffer in one place only; no lost wakeup; a canceled thread leaves; rings drained before the pullers leave |
| `Thread_pool_standard`, `Thread_barrier_standard` | mutex and condition variable per worker, `count`, `stop_threads`, `func_exec` | `init`, `run`, `wait`, `unset_func_exec`, worker loop, destructor; `arrive`, `wait`, `reset` | every worker runs a job once per round; `wait` returns after the last one; the destructor joins everybody |
| `Pipeline` (execution) | thread pool, stages, adaptors | `exec` | returns; frames leave in the order they came in; an end at the source drains the pipeline |
| `Pipeline` (construction) | tasks per stage, saved socket bindings, adaptors | `init`, `create_adaptors`, `bind_adaptors`, `unbind_adaptors`, `set_n_frames` | every binding that crosses a stage goes through an adaptor; unbind undoes bind |
| `Sequence` (execution) | `force_exit_loop`, exception messages, thread pool, `next_round_is_over` (of `exec_step`) | `exec`, `_exec`, `exec_seq`, `exec_step`, `reset_no_copy_mode` | all threads of a stage stop together; an exception reaches the caller; an iteration runs what the program says; buffers restored |
| `Sequence` (construction) | graph of sub-sequences, clones of the modules | `init`, `replicate`, `set_n_frames` | the order of the tasks respects the bindings; clones are bound like the originals |
| `Task` | status per wave, sockets, scratch memory, fake inputs | `exec`, `create_socket`, `create_codelet`, `update_n_frames*`, `bind`, `unbind`, `clone` | all the frames of a call are processed once, also when `n_frames` is no multiple of `n_frames_per_wave` |
| `Socket` | bound sockets, data pointer, whether it is a forward socket | `bind`, `unbind`, `reset`, `set_dataptr` | the bindings are symmetrical; a pointer change reaches every follower |
| `Switcher`, `Iterator`, `Controller` | current path, counter | `commute`, `select`, `iterate`, `control`, `reset` | a path taken is the path selected; a loop starts over in the next execution |
| `Set` | a sequence used as a module | `exec` | same as its sequence |
| `Scheduler_OTAC`, `Scheduler_GR`, `From_file` | measures, solution | `schedule`, `profile`, `generate_pipeline` | the stages partition the tasks; the period is minimal for the resources |
| `Pipeline_builder` | stages described so far | `add_stage`, `set_*`, `build` | the pipeline is the one described |
| `Buffer_allocator` | buffers of the output sockets | `allocate_*`, `deallocate_*` | a buffer is freed once and nobody points to it afterwards |
| `Thread_pinning` | a global mutex, the masks of the threads | `pin`, `unpin`, parsers of policies | a thread runs where it was asked to, and is free afterwards |
| probes, `Reporter_probe`, `Terminal` | a ring per column, the terminal's thread | `probe`, `report`, `reset`, `start_temp_report`, `stop_temp_report` | a row is one frame; a value is told once |
| `Signal_handler` | SIGINT flag | `is_sigint`, `reset_sigint` | one SIGINT stops the execution, the second one the program |
| sources, sinks, processing modules | position in a file, `is_done` | tasks | arithmetic on data, file input and output |
| display, help, exceptions, bit packer | text | | formatting |

### 1.2 How they interact

`Pipeline::exec` runs its first stages on a pool, one worker per stage, and
the last stage itself. Each stage is a `Sequence::exec`, which again has a pool
with one worker per clone but the first. The first and last task of a stage are
tasks of the adaptors: they block in `wait_push` and `wait_pull`. A stage ends
when its stop condition is true, when a source is done, or when one of its
adaptors throws `waiting_canceled`. The worker that ran a stage calls
`cancel_waiting` on the pull tasks of the next one; the caller, once the last
stage has returned, calls it on every waiting module of the other stages. So
the end of the first stage travels with the frames down the pipeline, and the
end of the last one stops all the others at once.

Before that, `Sequence::init` explores the sockets that the user has bound and
turns them into a graph of sub-sequences, whose branches are the switchers';
`Pipeline` does this for each stage, copies the graph for each thread, finds
the bindings that leave a stage and rebinds them to the adaptors, one adaptor
per boundary, also for a socket that only passes by. A pointer to a buffer goes
from the output that owns it through forward sockets to every input behind it;
without copies, switchers and adaptors change these pointers while the program
runs. A task cuts the frames of its sockets into waves.

A scheduler measures a sequence, solves for the stages and their threads, and
builds the pipeline with a pinning policy; a file or a builder may give them
instead. Each thread of each stage pins itself, works, and unpins itself.
Probes are tasks of the stages: they push to the reporter's columns while a
stop condition or the terminal's thread pulls rows from them.

The behaviours that are hard:

* the adaptor's `first`, `last` and slots are plain memory that threads of both
  stages use at the same time without a lock; only `counter` is atomic;
* the waiting reads the counter without the mutex, then again with it; the
  notification is sent after the counter has moved, and only if the counter
  still says so;
* each thread chooses its next channel alone, and the order of the stream rests
  on both sides choosing in step;
* cancellation sets one flag per adaptor *instance* (one per thread) but wakes
  *shared* condition variables; pullers must still empty their ring;
* the pool's wait has no predicate and its barrier is reset by polling;
* everything is executed again: what `exec` leaves is what the next one finds;
* bindings are unbound and bound again by several owners (sequence, pipeline,
  switchers), in lists whose order means the order of the tasks;
* pointers, sizes and counts that follow from one another are kept in several
  objects and updated one by one.

`PROJECT.json` lists each such hazard with its line, and the properties that
would catch it going wrong.

## 2. The modules

| module | models | extends / uses |
|---|---|---|
| `OrderedStream` | abstract: what an adaptor, and a whole pipeline, promises | |
| `Adaptor` | `Adaptor_m_to_n` and the threads and control threads around it | refines `OrderedStream` |
| `ForkJoin` | abstract: what a pool promises | |
| `ThreadPool` | `Thread_pool_standard`, `Thread_barrier_standard`, their client | refines `ForkJoin` |
| `Pipeline` | `Pipeline::exec` and the loops of the stages | refines `OrderedStream` |
| `SequenceExec` | `Sequence::exec`, the loops of its threads and the SIGINT handler | |
| `SubSequences` | `Sequence::init`: from bindings to a graph of sub-sequences (operators) | |
| `StructuredPrograms` | programs of loops and paths: the bindings that make them, and what they mean | |
| `ControlFlow` | the walk over the graph, `Switcher`, `Iterator`, controllers, `exec_step` | extends the two above |
| `PipelineBuild` | construction of a pipeline, rebinding, `set_n_frames`, destruction | extends `SubSequences` |
| `Sockets` | `Socket` and the bindings of `Task`: any calls in any order | |
| `TaskFrames` | `Task::_exec` and the frames of `Module`: waves and scratch memory | |
| `SchedulerOTAC` | `Scheduler_OTAC`: bisection and greedy packing | |
| `StagePolicies` | pinning policies, `Scheduler_from_file`'s lists of units (operators) | |
| `Pinning` | from a file, scheduler or builder to pinned threads | extends `StagePolicies` |
| `ReporterProbe` | probes, the rings of `Reporter_probe`, `Terminal` | |
| `MC...` | instances for TLC | extend the module they are named after |
| `ThreadPool_proofs` | theorems on the rounds of a pool, the refinement of `ForkJoin` | extends `ThreadPool` |
| `Scheduling_proofs` | stages that can be run, their period; threads left free | extends `SchedulerOTAC`, `Pinning` |
| `Adaptor_proofs` | the rings, the wakeups, the order of the stream and its end, the refinement of `OrderedStream` | extends `Adaptor` |
| `SequenceExec_proofs` | exceptions, and the ends of the loops of a sequence | extends `SequenceExec` |
| `Pipeline_proofs` | the order of the frames through all the stages, how the stages end, the refinement of `OrderedStream` | extends `Pipeline` |
| `ReporterProbe_proofs` | rings and rows: every value told once, every row one frame | extends `ReporterProbe` |
| `TaskFrames_proofs` | waves: nothing outside a buffer, every frame once | extends `TaskFrames` |
| `Sockets_proofs` | bindings: both ends agree after any calls, the count of inputs | extends `Sockets` |

How they compose. `Adaptor` justifies that `push` and `pull` are single steps of
`Pipeline`, since it refines `OrderedStream`; `ThreadPool` that the workers of a
stage are forked and joined as in `Pipeline` and `SequenceExec`, since it refines
`ForkJoin`. An iteration, one step in `SequenceExec`, is the walk of
`ControlFlow`; the execution of a task, one step there, is `TaskFrames`. The graph
that `ControlFlow` walks over and the stages that `PipelineBuild` makes come from
the same operators, those of `SubSequences`. The stages of `Pinning` are the
solutions of `SchedulerOTAC`, or what a file says.

### 2.1 `Adaptor`

The model is at the grain of one access to shared memory. A thread is
`<<"push", p>>` or `<<"pull", q>>`; its program counter `pc` goes through

    use -> test -> testCancel -> lock -> pred -> predCancel -> asleep -> lock ...
                -> final -> finalCancel -> swap -> publish -> check -> notify -> use

`test` and `testCancel` are the two halves of `while (is_full() && !canceled)`
read without the mutex; `pred` and `predCancel` those of the predicate of
`cnd.wait`, read with it; `final` and `finalCancel` the test after the wait,
which differs on the two sides: a pusher leaves whenever it is canceled, a
puller only if its ring is empty *as well*. `swap` is
`get_empty_buffer(sid, swap_buffer)` or `get_filled_buffer(...)`, or the copy;
`publish` is `counter--` or `counter++`; `check` and `notify` are the end of
`wake_up_puller` and `wake_up_pusher`. Because the code of both sides is the
same with "full" and "empty" exchanged, the waiting is written once.

| variable | code |
|---|---|
| `cur` | `cur_push_id`, `cur_pull_id` |
| `counter`, `first`, `last`, `slot` | members of the same names, `buffer` |
| `hand`, `content` | the data pointer bound to the neighbouring task, what is in the memory |
| `canceled` | `*waiting_canceled` of each instance |
| `mtx`, and `pc = "asleep"` | `mtx_push`, `mtx_pull`, `cnd_push`, `cnd_pull` |
| `todo`, `waking`, `begun` | where the two threads that call `cancel_waiting` are |
| `handled`, `received` | history: frames handled, frames used |

Thread 0 of both sides works on the same instance, as in
`Pipeline::create_adaptors`; the others on clones. The data of a frame is its
number; sockets, sizes and the two data types of an exchange are abstracted to
one buffer. The neighbouring stages are reduced to how many frames the upstream
one has (`ToPush`) and after how many the downstream one stops (`ToPull`).

### 2.2 `ThreadPool`

The owner's program (`main`) and each worker's (`pc`), one step per access to
shared memory: `lock` -> `arrive` (increment) -> `check` (the comparison of
`arrive` that may throw) -> `asleep` -> `wake` (taking the mutex back) ->
`retest` -> `exec` -> `running`. The owner polls the counter (`barrier`), stores
zero (`reset`), and locks each worker's mutex before `notify_one`. The client is
the one the repository has: `init`, any number of rounds *run - own work - wait -
unset*, destructor. `ForkJoin` is the same seen by that client. A condition
variable wakes only those that are notified: see section 6.

### 2.3 `Pipeline`

Each thread of each stage goes through *pull - tasks - push - stop condition*;
a stage returns when all its threads have. The rest is in full: the
condition of a stage is one function with one counter called by every thread of
the stage (`calls`), the worker of stage `s` cancels the pull instances of stage
`s + 1`, the caller cancels the waiting modules of all the stages but the last
in the order `get_modules` returns them (a thread's pull clone, then its push
instance; the pull original is a module of the stage before), the barrier, the
resets, and the next call of `exec`.

`Flushed` is about an end that only the first stage decides, and about one that
leaves no hole (`Unbroken`): the threads of a replicated first stage stop one by
one, see section 6.1.

### 2.4 `SequenceExec`

One call of `Sequence::exec`, and the next ones. A thread goes through

    start -> begin -> body -> testForce -> testStop -> testDone -> testSigint -> begin ...
                                                                            -> leave -> end

`start` is `reset_sigint()`; `body` is one walk over the tasks, which completes
(or is given up with `processing_aborted`, which is the same to the loop), waits
in an adaptor, or throws; the tests are those of the `while`, in its order, each
reading a flag or a count that other threads change; `leave` is what follows the
loop, where an interrupted thread cancels the waiting modules of its sequence.
An exception goes through `caught` (`force_exit_loop`), `lock`, `find` and
`record` (the messages, under `mtx_exception`). The stop condition is the one
the tests of the repository use, `++counter >= limit`, with one atomic counter
for all the threads; a source is done after a number of frames. The handler of
SIGINT pauses (`handler`) before it sets `sigint`. Where a stage waits is told
apart by who can cancel it: its thread 0 pulls from an adaptor that is a module
of the stage *before* (`_bind_adaptors` adds it to the last stage only), hence
not among those that `get_modules` returns for the stage itself.

### 2.5 `SubSequences`, `StructuredPrograms`, `ControlFlow`

`SubSequences` is `Sequence::init` as operators on a record: `Init1` is
`init_recursive`, split by the kind of the task it visits (`VisitCommute`,
`VisitSelect`, `VisitStandard`), with the local variable `ssid` and the reference
parameters that the recursion shares; `Prune` and `Number` are the removal of
empty sub-sequences and the numbering of `_init`, `Replicate` is the copy of the
graph for a thread. `ControlFlow` and `PipelineBuild` evaluate them in their
initial states and steps.

`StructuredPrograms` stands for the user: a program is a sequence of tasks, `for`
loops, do-while loops and exclusive paths; `Bindings` gives the sockets that the
tests of the repository bind for it, `Meaning` what it should do. `Meaning` is
the reference definition and knows nothing of switchers.

| variable of `ControlFlow` | code |
|---|---|
| `graph` | `sequences` of each thread |
| `stack` | the nested calls of `exec_sequence`, with the children still to visit |
| `cursor` | `cur_ss`, `cur_task_id`, `next_round_is_over` of `exec_step` |
| `path`, `count` | `path` of a switcher, `counter` of an iterator, `path` or counter of a controller |
| `mem`, `ptr` | the buffers of the outputs, `dataptr` of the inputs |
| `saved` | what `gen_processes` notes for `reset_no_copy_mode` |
| `done`, `value`, `start` | history: tasks executed, what the last one wrote, counts at the start |

`mode` is how the program is executed: `exec`, `exec` without copies in the
switchers, `exec_seq` (a `Set`), `exec_step`. Data are the names of the tasks
that have worked on them.

### 2.6 `PipelineBuild`

The constructor is `CutStages`, `CloneStages`, `FindOrphans`, `CreateAdaptors`
and `FirstBinding`, in this order; the calls that follow it (`bind_adaptors`,
`unbind_adaptors`, `set_n_frames`, the destructor) are lists of small items that
`Step` does one by one, in the order of the code. `net` holds `bound_socket`
(`link`), `bound_sockets` (`outs`) and `dataptr` (`ptr`) of the sockets of the
user's tasks, their clones and the adaptors; `orphans` is `sck_orphan_binds`,
`binds` is `adaptors_binds`. A user describes a stage by its first, last and
excluded tasks in one of three `Styles`.

### 2.7 `Sockets` and `TaskFrames`

`Sockets` lets the program call, in any order, what it may call before it builds a
sequence: bind, unbind, wait for a task (a fake input), allocate and deallocate,
`set_n_frames` with the resize that fails half-way, and destruction. Its tasks are
those of `Layout`, which gives the kinds and names of their sockets in order; a
status socket comes last in each. A socket is `<<task, kind, name>>`. `link`, `list`,
`ptr` and `size` are the members of the sockets; `fakes`, `nInputs`, `last` are
`fake_input_sockets`, `n_input_sockets` and `last_input_socket` of the tasks; `torn`
remembers the tasks that have refused a change of `n_frames` half-way. Sizes are
computed as in the code, `(databytes / old) * new` with integers, so that they round
when sizes and `n_frames` are out of step. A refused call changes nothing and is left out,
except for two that do change something: `set_n_frames`, and a wait for a task,
which leaves a fake socket without a binding behind (`WaitFor`).

`TaskFrames` is one task: its creation, the setters of its module, and the
execution of all the frames or of one. `todo` is the list of waves of
`Task::_exec`, each of which moves the pointers, or copies the frames into and
out of the scratch memory (`sockets_data`). Memory is counted in frames; `wild`
records an access outside a buffer. `Waves` is the number of waves as `Module` gets it,
the ceiling of a quotient of two `float`s (`Module.cpp:62`, `:80`), rounded as a `float` is
(`RoundedDown`). The numbers themselves are taken as they are, which a `float` of 24 bits
does up to `FloatExact`, 2^24, the bound of `MaxFrames`; see 6.2 for what is beyond.

### 2.8 `SchedulerOTAC`

`Schedule` is the start of `SOLVE` (the longest stateful task and the bounds of
the bisection), `Probe`, `Found` and `NotFound` its loop; `PackMain`,
`PackStateless` and `PackExtra` are the three ways in which `PROBE` ends a stage.
`chain` is `tasks_desc`, `solution` what `PROBE` builds and `SOLVE` returns,
`best` is `solution_current`. Durations are integers in units of `1/Scale` ns;
`ShortestPeriod` is the reference, a dynamic program over all cuts.

### 2.9 `StagePolicies` and `Pinning`

`StagePolicies` holds the parsers: a policy is a sequence of objects and of the
separators `|`, `;` and `,`; `Packed`, `Guided`, `Distant` and `Loose` take units
from the list of a core type. `Pinning` is the way from what a user gives to the
masks of the threads: the file (either version) is read entry by entry, or the
stages come from a scheduler, a builder or a constructor; `Profile`, `Generate`
and `Exec` give each thread a `script` of the calls that the code makes on it
(`pin`, work, `unpin`, fork, join), `mask` is what `hwloc_set_cpubind` has set,
`mutex` is `g_mtx`, `used` the mask under which a thread last worked.

### 2.10 `ReporterProbe`

Each probe pushes its values to its column (`ring`, with `head` and `tail` as in
the code) when its stage comes to it; a report pulls one value from each column
in turn; `terminal` is where the thread of `Terminal` is (`test`, `lock`, `wait`,
`report`), `stopTerminal` its flag. `pc` is the program: execution, the three
steps of `stop_temp_report`, the final report, resets and resizes. The k-th
value of a column is k. `Ahead` says by how many waves an adaptor lets a stage
run ahead. `mode` says who reports during the execution: the stop condition of the
last stage (`"stage"`), the terminal's thread, or nobody. `Rank(p)` is the place of
probe `p` among those of its stage.

## 3. What the runs check

| run | instance | what it shows |
|---|---|---|
| `Adaptor_rings` | 2 pushers, 2 pullers, 2 slots, passive, no copy, one spurious wakeup | exchanges never in the same slot; no buffer in two places; no lost wakeup; the rings drained; refinement of `OrderedStream` |
| `Adaptor_abort` | 1 pusher, 2 pullers, stopped at any moment, two executions | the order, also after `reset`; a cancellation reaches every sleeping thread |
| `ThreadPool_rounds` | 3 workers, asynchronous `init`, 2 rounds | workers parked when `wait` returns; refinement of `ForkJoin`; the owner ends |
| `Pipeline_ends` | stages of 1, 2, 1, 1 threads of which any may stop first, two executions | nothing left in the channels; stages canceled in turn; refinement of `OrderedStream` by the whole pipeline; `exec` returns with threads blocked in every stage |
| `SequenceExec_ends` | 2 threads of a middle stage, a limit, a source that ends, or neither; two exceptions, one signal, cancellations; two executions | exceptions reach the caller, one message for a signature; at most one iteration too many, a limit is exact; the loops end; a signal also ends the threads that wait |
| `ControlFlow_programs` | 18 programs of loops and paths, nested and empty, 4 ways to execute them, the first thread and a replica, 3 iterations, one aborted | the walk means the program; every task reads what it should, pointers are put back; the replica is the same graph |
| `SchedulerOTAC_chains` | every chain of up to 4 tasks of 1 to 4 ns, 1 to 4 units | the solution can be built, replicated stages apart, its stages not slower than said, their period close to the shortest; the search ends |
| `PipelineBuild_cuts` | every program of 4 tasks with forward sockets or a wait, every cut, 3 styles, one or two threads, two calls and the destructor | stages in order and complete; data routed through adaptors only; bindings restored; no stale pointer |
| `TaskFrames_waves` | one task of any sockets, up to 4 frames in waves of up to 4, five calls | nothing outside a buffer; each frame processed once |
| `Sockets_calls` | source, forwarding task, reader; frames of 3 bytes, up to 3 frames; five calls | both sides of a binding agree; the number of inputs that a sequence counts is right |
| `Pinning_stages` | 1 or 2 stages, 4 threads, 2 cores with siblings and 2 without, five sources of stages | threads where they were asked to be, apart; all free afterwards; an answer |
| `ReporterProbe_columns` | 2 probes in 2 stages, rings of 1 to 6 values, three ways to report, two executions | rows are frames; values told once and in order; the end is reached |

### 3.1 Bounds, and why they are enough

* `ToPush`, `ToPull`: each thread goes round its channels at least once and, in
  `Adaptor_rings`, finds each ring full and empty; five frames on two channels of
  two slots make every index and position wrap.
* `BufferSize`: one slot makes full and empty neighbours (the hardest case for
  the waiting); two slots let a push and a pull on the same ring overlap.
* Teams: equal sizes (2, 2), and one against many (1, 2). Sizes of which neither
  divides the other are beyond what a run can exhaust with the passive waiting in
  this detail: what is not liveness is proved for all of them.
* Executions are repeated twice where it matters: a third starts from the same
  states as the second, since `reset` forgets everything but the flags of the
  clones, which stay set, and the messages, which are counted.
* `MaxSpurious` is 1 in the run for the adaptor: its waits are loops with a
  predicate, so that two spurious wakeups are one repeated.
* `ThreadPool`: two rounds, since a round leaves the pool as it found it
  (`Parked`); three workers, so that one can be a whole round ahead of another
  while a third is in the middle.
* `Pipeline`: the limits of the conditions are chosen below and above what the
  channels hold, so that a stop finds them full, empty and in between.
* `SequenceExec`: two threads, since what a thread does depends on the others
  only through flags and the lock; two exceptions of one signature with messages
  of two lengths, in one execution or in two; one limit and one source above the
  number of iterations that a single thread needs to meet the other; `late`
  counts to 2, one more than it may reach.
* `ControlFlow`: limits of 1 and 2 tell the first turn of a loop, a middle one and
  the last apart; the programs nest each construct in each other one; three
  iterations let a counter go round and an aborted iteration be followed by one.
* `SchedulerOTAC`: four tasks are enough for a stage of each of the three ways
  to pack after another; `Scale`, 384, is divisible by each number of
  units and by the powers of two of the bisection.
* `PipelineBuild`: four tasks make up to four stages, so that a socket passes by
  two stages that do not use it; two threads in every other stage put each of
  one-to-many and many-to-one next to each other.
* `TaskFrames`: numbers of frames below, equal to, multiple and not multiple of
  those of a wave, up to 4; five calls are a setter, data, and two executions
  after a creation.
* `Sockets`: five calls are two bindings, a change of each and a destruction, or a
  binding, a refused change of `n_frames`, an accepted one and two more. Three bytes
  and up to three frames are the least for which the second size is rounded to the
  present one. The proofs are for any tasks, sizes and number of calls.
* `Pinning`: units with and without siblings, cores with as many units as `smt` says and
  with more, lists that run out.
* `ReporterProbe`: rings that are smaller and larger than what a stage runs ahead.

### 3.2 Fairness

Weak fairness of each thread, and nothing more: every thread of the program
keeps being scheduled. No fairness is assumed of the choice between threads for
a mutex or a notification, of a spurious wakeup, of the decision to abort or of
a further call of `exec`. A thread that spins (active waiting, the polling of
the barrier) takes steps for ever; it leaves because the others, being
scheduled, change what it reads. A wait for a mutex is weakly fair because each
mutex of an adaptor is only contended by the one thread that sleeps on it and
by those who wake it, who hold it for one step.

In `SequenceExec` a thread that waits in an adaptor is only promised to leave once
its module is canceled: nobody has to serve it, since its neighbours may have
stopped. Its liveness properties say what holds all the same. In `ControlFlow` and
`SchedulerOTAC` one thread runs and only has to go on; nobody owes it the call that
begins. In `ReporterProbe` the terminal's timed wait is fair because it has a
timeout: the notification may come before the thread waits, and is then lost. In
`Pinning` each thread that does not wait for the mutex goes on, and the mutex is
held for one step by those that do not throw.

`CHECK_DEADLOCK FALSE` is given where threads end, where the calls of a user are
bounded by a constant, or where a mutant that gets stuck is to be a violation of
`Termination`.

### 3.3 Mutants

Each property of each passing run is accompanied by a mutant of the code it is
about (an operator next to the definition it alters, marked "mutant"): a position
that advances by one channel, an index that is not reset, a predicate dropped,
a mutex not taken, a barrier that lets go one arrival early, a cancellation
sent too early or to too few, a path not reset, a binding put back in the wrong
place, a unit given twice. TLC finds each property violated by its mutant.

## 4. What is proved

The proofs hold for every value of the constants that the assumptions of the
modules allow. TLC has checked each of the invariants on small instances before.

| module | theorem | property | |
|---|---|---|---|
| `Adaptor_proofs` | `TypeCorrect` | `TypeOK` | in particular no counter leaves 0 .. `BufferSize`: the unsigned counter never wraps |
| | `ChannelExclusive` | `OnePerSide` | no two threads of a side are on the same channel |
| | `RingCorrect` | `RingConsistent` | `last = first + filled` (mod size), with the counter corrected by exchanges in progress |
| | `SlotCorrect` | `SlotExclusive` | a push and a pull never touch the same slot: the plain `first`, `last` and slots are free of races |
| | `BuffersCorrect` | `BuffersDistinct` | with buffers exchanged, each is in exactly one place |
| | `WakeupCorrect` | `NoLostWakeup` | a thread that sleeps although it could go on is about to be notified |
| | `OrderCorrect` | `InOrder` | puller `q` uses the frames `q`, `q + NPullers`, ... and no other, in every execution |
| | `FlushedCorrect` | `Flushed` | without an abort, in the first execution (in each one if both stages have one thread): a puller stops when it has pulled its share |
| | `AdaptorImplementsStream` | `ImplementsStream` | the adaptor implements `OrderedStream` |
| `Pipeline_proofs` | `Invariance`, `TypeCorrect` | `IInv`, `TypeOK` | every stage handles the frames in their order, none made up or doubled; no channel holds more than its slots |
| | `CanceledCorrect` | `CanceledInTurn` | a stage is told to stop pulling only when nothing more will come, or when everything stops |
| | `FlushedCorrect` | `Flushed` | an end at the source leaves no frame in a channel or in a hand |
| | `PipelineImplementsStream` | `ImplementsStream` | a pipeline of any stages implements `OrderedStream` |
| `ThreadPool_proofs` | `RoundsCorrect` | `IInv` | the counter of the barrier is the number of workers that have arrived in this round |
| | `TypeCorrect`, `CountCorrect` | `TypeOK`, `CountBounded` | the check of `arrive` never throws |
| | `ParkedCorrect` | `Parked` | `func_exec` and `stop_threads`, plain memory, are written only when every worker waits |
| | `NotificationCorrect`, `StopCorrect` | `NotificationHeard`, `StopHeard` | no notification is lost, none of the threads sleeps when they are joined |
| | `PoolImplementsForkJoin` | `ImplementsForkJoin` | every worker does the job of a round exactly once, between `run` and the return of `wait` |
| `SequenceExec_proofs` | `TypeCorrect` | `TypeOK` | the messages of exceptions change under their mutex only |
| | `ErrorsCorrect` | `ErrorsReported` | an exception reaches the caller of `exec`, and each signature has one message |
| | `OvershootCorrect` | `Overshoot` | at most one iteration is begun after the end was decided, by each thread |
| | `LimitExact` | `IterationsExact` | an execution that only its limit ends runs `limit - 1` iterations that are followed by another, and one last of each thread |
| `Scheduling_proofs` | `SolutionsSchedulable` | `Schedulable` | the stages are the tasks in order, on the units that there are, a stateful task has one thread, and no two replicated stages follow each other |
| | `PeriodBoundedCorrect` | `PeriodBounded` | a stage is slower than the bounds by a task at most, and than what `get_period` tells by the precision of the search at most |
| | `PinningInvariance` | `PinningIInv` | whoever is pinned is freed before it creates or starts threads; whoever has calls to make is joined |
| | `LeftFreeCorrect` | `LeftFree` | construction and execution of a pipeline leave every thread free, and the mutex of the pins |
| `ReporterProbe_proofs` | `Invariance` | `IInv` | what the rings hold, how far apart the stages are, which columns a row has |
| | `ToldOnceCorrect` | `ToldOnce` | a column gives its values in order and once, whoever reports; a final report leaves none |
| | `AlignedCorrect` | `Aligned` | with rings that hold two waves more than a stage is ahead, no value is dropped and each row is one frame |
| `TaskFrames_proofs` | `Invariance` | `IInv` | numbers, sizes, pointers, waves to run, and what each frame holds |
| | `InBoundsCorrect` | `InBounds` | an execution stays inside its buffers; sizes and pointers are right afterwards |
| | `FramesExactCorrect` | `FramesExact` | each execution handles each frame that it stands for, once |
| `Sockets_proofs` | `BindingsCorrect` | `IInv` | the lists and the links of all sockets agree, fake inputs stand for what they are bound to, sizes are in step with `n_frames` |
| | `BoundAgreeCorrect` | `BoundAgree` | both ends of a binding agree, exist, have one size and one buffer |
| | `JoinCountCorrect` | `JoinCount` | a sequence waits for as many inputs as a task has bound |

The assumptions: `SizeAssumption` (positive numbers), `ChannelAssumption` (the
number of channels is the least common multiple; the proofs only use that it is
a common multiple) and `EnvironmentAssumption` of `Adaptor`; `PoolAssumption` of
`ThreadPool`; `PipelineAssumption` of `Pipeline` (at least two stages, positive
numbers; that the number of channels is a common multiple is proved from its
definition, `ChannelFacts`); `SequenceAssumption` of `SequenceExec` (at least one thread, no
exception that is none); `ChainsAssumption`, `ResourcesAssumption` and `ScaleAssumption` of `SchedulerOTAC`
(tasks that last, a unit of time that is finer than the precision of the search);
`BoundsAssumption` of `TaskFrames` (any number of calls; numbers of frames from 1 to 2^24, since
the number of waves of the code may be wrong beyond, 6.2);
`ProbesAssumption` of `ReporterProbe` (a probe in every stage up to the last that has
one, rings and waves that are not empty); `LayoutAssumption`, `BytesAssumption` and
`PrioritiesAssumption` of `Sockets` (finitely many tasks, whose sockets have distinct
names other than `status`, as `create_2d_socket` checks; frames that are not empty;
places in a list are numbers); `ThreadsAssumption` of `Pinning` (a stage has at least one
thread, as the constructor of a sequence checks, `Sequence.cpp:438`; the bounds are numbers).

### 4.1 The rings of the adaptor

`TypeOK` and `OnePerSide` are not inductive: `counter` stays in its range only if
no other thread of the side can take the last place between a thread's test and
its update, and that two threads are not on the same channel depends on where
they came from. The inductive invariant is `IInv /\ RingConsistent`, where `IInv`
adds

* `Lane`: a thread of a team of `n` is always on a channel that is congruent to
  its number modulo `n`. It is kept by `(c + n) % NChannels` because `n` divides
  `NChannels` (`ModStep`), and two threads of a team in the same
  class are the same thread, hence `OnePerSide`;
* `Ready`: a thread past its wait has a place or a frame, and keeps it until
  it moves the counter itself: by `OnePerSide` only the *other* side moves the
  counter meanwhile, in the favourable direction;
* `Working`: where the control threads are in `wake_up`.

`RingConsistent` then follows step by step, and with `Ready` it puts `last` and
`first` apart whenever both sides are in `swap`, which is `SlotExclusive`.
`BuffersDistinct` follows since an exchange is a transposition of two places.

### 4.2 Its wakeups

The waiting reads the counter under the mutex of its condition, but the other
side moves the counter, and a control thread sets the flag, without it. `WakeInv`
says what is still to come:

* `Holders`: a thread between its reads and its sleep holds the mutex of its
  condition, so that nobody notifies in between;
* `Passive`: an active wait never sleeps;
* `Heard`: from the moment a thread has read that it is stuck, whatever moves its
  counter still owes a notification of its condition (`PeerPending`), or a control
  thread has this condition before it (`ControlPending`); of its flag it only has
  to hear once it sleeps, since it reads the flag last.

The peer gives its notification up in one case: `!is_empty()` or `!is_full()` does
not hold any more. Then the waiting thread is stuck as it has read. When the peer
notifies, the mutex is free, hence the thread sleeps; it is the only one that
sleeps there (`OnePerSide`), hence `notify_one` reaches it.

### 4.3 The order of its stream

`Adaptor` refines `OrderedStream` step by step once it is known which frame is
where. Each thread goes round its own channels, so that the frames of channel
`c` come to its pusher and to its puller at different positions and after different
numbers of turns. `Taken(t, c)` brings them on one scale: it is the first frame of
channel `c` that has not gone through the index of thread `t`, computed from the
thread's own frame, `NextFrame`, and from how far `c` is ahead of it (`Gap`). It
does not change when the thread goes on to its next channel (`AdvanceTaken`: the
positions of a thread are at least its stride apart), and grows by `NChannels`
when the thread exchanges on `c` and at no other time. `OrderInv` says

* `Exact`: a thread is on the channel of its frame, modulo `NChannels`;
* `Agree`: on each channel, `Taken` of the pusher is `Taken` of the puller plus
  what is between `first` and `last`, times `NChannels`;
* `Stored`: what is between `first` and `last` are the next frames of the puller,
  `NChannels` apart;
* `Carried`, `Fetched`: a pusher has its frame in its hand until the exchange, a
  puller from the exchange until the use;
* `InOrder`.

An exchange and a copy are the same for it: the place at `last` gets the frame of the
hand and all other places keep theirs (`SwapPushContent`, `SwapPullContent`, from
`BuffersDistinct`). For the refinement, the abstract `Push` and `Pull` are the
step that moves the counter. Their guards follow from `Agree` and from the range
of the counter that `Ready` gives: the frame that had the place is gone, the
frame that is taken is published. All the waiting, waking and canceling is
stuttering, and `Reset` is `Restart`: it leads to `Fresh`, the state that every
execution starts from, whatever the one before has left.

`FlushedCorrect` adds who cancels whom (`EndInv`). A puller reads its ring again
after its wait, and only then its flag: `Ready` says that when it finds the ring
empty at that place it is canceled already, so the upstream stage had stopped before
it looked (`Announced`), and no push can come between the two reads. `Agree` then
gives what an empty ring means: the puller's frame is the first one that its pusher
has not pushed (`NothingLeft`). The theorem is about the first execution, or stages
of one thread, because `reset` lowers the flag of the original instance only: the
flags of the clones stay up, and a later execution may leave frames behind (§6.1).

### 4.4 The stages of a pipeline

The state of a pipeline has as many channels and hands as the stages ask for, and
the frame in each is determined by counts alone. The *rank* of a frame is its place
in the order of the original sequence. `PushRank(w)` and `PullRank(w)` are the
ranks at which a thread is; `NextIn(s, c)` and `NextOut(s, c)` the first ranks from
those on that belong to channel `c` (`After`), hence what goes into and
comes out of the channel next, no matter which channel the thread is on now. They grow by
`NChannels(s)` when their thread works on `c` and not otherwise (`PullMoves`,
`PushMoves`, from `AfterNext` and `AfterBelow`). `IInv` says

* `Chained`: `NextIn` is ahead of `NextOut` by the length of the channel, and the
  frames in it have the ranks between;
* `InTurn`, `Counted`, `Held`: the frame in a thread's hands is that of its last
  pull, and what the last stage has used are all of its turns;
* `Genuine`: every frame was made by its thread of the first stage. With the ranks,
  which tell frames apart (`Strides`, `StrideUnique`), none is there twice;
* `Controlled`, `CanceledBy`: an instance is canceled by the worker of its own
  adaptor, after its stage has returned, or by the caller;
* `Drained`: when nobody but the first stage decides to stop, a thread that has
  ended has an empty channel before it, nothing in its hands, and a stage before it
  that has returned.

`CanceledInTurn` follows from `CanceledBy` and `Controlled`. For `Flushed`, a frame is
followed along the stages (`FlushedStep`): if all ranks below some number were pushed
by stage `s`, and stage `s + 1` has drained its channels, it has pulled them, since the
first one it has not pulled would be in a channel whose thread cannot have ended. A
hole in what the first stage made would break exactly this step. For the
refinement, the abstract guards relate the first stage to the last one. That the
last stage pulls only what was pushed goes up the stages (`ChainFlow`: what was pulled
after a channel was pushed before it, and pulled before that). That the first stage
does not run ahead by more than the capacity goes down, channel by channel and hand
by hand; the sum of both is `Sum` (`ChannelFlow`, `HandsFlow`).

The proofs need inductions over the stages. They are proofs by the least
counterexample: `LeastNat`, from the well-founded order of the numbers, has no
operator as a parameter. The recursive functions of the module (`Sum`,
`WaitingUpTo`, `StageWaiting`) are shown to exist in the same way (`Recursion`,
`Concatenation`).

### 4.5 The thread pool

An arrival counts for the round in which it happens, but the worker may be
notified only much later: `Earlier` is the set of workers whose last arrival
belongs to the round before, that is, all of them once the barrier was reset,
then those that `run` or the destructor has not reached yet. `Counted` says that
the counter is the number of the other workers that wait, `Settled` that those of
`Earlier` still wait, `Placed` where each worker may be and how many jobs it has
done (`Owes`: one less than the rounds until it has done this one), `Rounds` what
the owner's place says of its flags. When the polled counter equals `n_threads`,
the set it counts is the set of all workers (`AllArrived`); that is what makes
`wait` mean anything. Every visible step maps to a step of `ForkJoin`: `Run` to
`Fork`, `Finish` to `Work`, `ResetBarrier` to `Join`, `Destroy` to `Stop`.

### 4.6 Exceptions and ends of a sequence

The invariant of `SequenceExec_proofs` is `TypeOK` with four parts. `Apart`: between
two calls of `exec` all threads are out of their loops. `Recorded`: messages and
signatures go together, no signature is there twice, and what a thread has found
about its signature is still true when it stores the message; the mutex, held from
`find` to `record`, is what keeps it. `Reported`: an exception is in the hands of
its thread or has its message, and the caller throws in that case. `Told`: a thread
that has begun an iteration after the end was decided is not before a test that it
could still pass, because what ends the loops lasts until they have ended.

`LimitExact` counts. The threads call one stop condition, `++counter >= limit`, each
after an iteration that it has counted by itself, and `Iterated` relates the two
while nothing but the limit can end the loops (`OnlyLimit`; `Calm` says that the
flags are down then): the sum of what the threads have executed is the number of
calls plus the threads that are before their call (`Untested`), and from the call on
that reaches the limit each call ends its thread, so `calls - (limit - 1)` threads
have left (`Ended`). When all have, the sum is `limit - 1 + NThreads`. The sum is the
fold of the community modules, a recursive choice: `SumExists` and `SumValue` give the
function that it is, `SumChange` what one more iteration does to it; a counterexample
of least size takes the place of an induction.

### 4.7 The packing of a scheduler

`improved_packing` takes tasks from the end of a stage, and the next stage begins
with them without asking whether they are replicable. That they are follows from
how they were taken: `Given` says that, after a replicated stage, what is left before
the next stateful task was in that stage and is replicable, and that it fits,
together with the stateful task, on one unit; so the next stage gets one thread
(`OneUnit`, `GivenFits`) or ends before the stateful task (`StopsAtStateful`).
Hence no stage of several threads has a task that keeps state, and no two such
stages meet. The bisection only decides which periods are tried: `Invariance`
holds for any of them.

The period rests on a second invariant, `SearchInv`: the lower bound is never below the
longest stateful task, the upper one is the longest stage of `best` and, until something
is found, a task above the lower one (`Bounded`), and no stage of `PROBE` is longer than the
candidate (`Light`), which is between the bounds. So the upper bound only comes down, and when
the search ends the candidate is within `Eps` of it. What does *not* follow is that the
candidate is not above the solution: this takes the greedy packing to need no
more units for a longer period, and section 6.3 has a chain where it does.

### 4.8 The rows of the reports

A ring is `head`, `tail` and cells; `Held` and `Cell` say how many values it has and
which. `Push` and `Take` are the lemmas on one ring, `%` included, and `Resizing` the
one on a ring that changes its size while it is empty: `Sound` allows indices outside of
such a ring, as the code does, and a push to it ends in `"undefined"`, where nothing
is claimed.

`Values` is the count that `ToldOnce` asks for, with the order of the cells. It is
inductive by itself, but that all is told after a final report is not: that report
stops at the first row without any value, so `Drained` says that a column without a value in
the row has none left. `Rested` carries this to the next execution.

`Aligned` needs more. `Waves` gives the calls of a probe from the waves that its stage has
ended and from its rank among the probes of the stage (`Frames`); `Distances` bounds
how far a stage is ahead of the last one, `Ahead` waves for each stage in
between. Together they leave room in every ring (`RoomLeft`), so no value is lost as long
as the last stage takes `nFrames` rows after each wave; `Rows` says that every
column was told as often, but for the columns that the row in progress has taken.
The last column is filled last in time but may belong to any stage, therefore `Rows` counts by
columns and `Distances` by stages. For a final report that nobody preceded, `FinalRow` is
the same for the columns that have values left.

### 4.9 The frames of a task

`InBounds` and `FramesExact` are about states between executions; `IInv` says what holds
in the middle of one. `Module` and `Sized` relate the numbers of the module to the sizes
that the setters derive from them, socket by socket: since one setter calls the other, and each
changes the module, then the task, what a setter keeps is said of the record that
they pass on (`Good`, `Kept`), and only `SetStep` is about the state. `Running` and
`Fitting` say which waves are left and where they may be executed; `AtHome` that the
pointers are the user's, or that they are saved.

`Effect` is what a wave does to the memory: `c` frames from frame `o` on are handled, and no
other. It is proved for a wave in place (`DirectEffect`) and for one through the
scratch memory (`ThroughEffect`: copy there, codelet, copy back), from what `Copy` and
`Codelet` do to any buffers. `PartFacts` and `StartFacts` then show by arithmetic on quotients
that these frames are those that the wave stands for (`Meant`), for any numbers of
frames and of frames in a wave up to `FloatExact`, and `WaveStays` that they are inside. All of
them rest on `WaveNumbers`: the number of waves is that of the exact quotient, because up to
2^24 a quotient that is not an integer is never rounded down to one (`NotRounded`). `Frames` puts the waves
together: a frame holds what the executions so far have made of it.

After an exception (`lost`) pointers may be anywhere, and nothing is claimed.

### 4.10 The bindings of sockets

`BoundAgree` alone is not inductive: whether an input keeps the pointer of its output
depends on who else hands pointers on, and whether the count of inputs is right on what
fake sockets are bound to. `IInv` has one part for each of these.

* `Agree` is the symmetry of links and lists, said of the record `Net` on which the calls
  compute. Each call keeps it for any such record: `UnbindAgrees`, `BindAgrees` (also when
  the same pair is bound again, which unbinds it first), `ResetAgrees`, `DestroyAgrees`. The
  last two are loops of unbinds, written as recursive functions; `Guided` and `Stays` say
  that what each turn keeps holds at the end. The proof of `ResetAgrees` is why the loop of
  `Socket::reset` runs backwards: each turn removes the last entry of the list that is left,
  hence the places still to be visited do not move.
* `Tied`: the two tasks exist, the sizes are the same, and the pointer of an input of an
  output is that of the output. The first holds because a destruction unbinds everything of
  its task. The pointer is kept by allocation and deallocation since an input that is bound
  to an output is behind that output and no other (`BehindFacts`, `SpreadFacts`: what lies
  behind, through forward sockets, is in some list, and by `Agree` in one only).
* `InStep`: sizes are `n_frames` times the bytes of a frame, for every task that has not
  refused a change (`torn`). Then a new number of frames is a new size, every bound socket
  refuses it, and no bound output is resized. Without `InStep` an accepted change can resize a
  bound output alone (§6.2, 5). `GrownAlone` says exactly what is left behind then: an
  input without a pointer, bound to an output of a torn task that has its buffer.
  Nothing else can go wrong with pointers, which is `SetFramesIInv`.
* `WaitAgrees`: a fake socket that is bound is bound to what it stands for, and its task has
  it once; so `unbind` finds the right one. `CountAgrees`: `n_input_sockets` is the number of
  input sockets and fake sockets. It supposes that the fake sockets are bound
  (`FakesBound`): a refused wait leaves a fake socket that is not counted, and the
  destruction of the task that is waited for leaves one that is. From then on the task can
  no longer wait for anybody nor stop waiting for that one (`Orphaned`).

`JoinCount` then is counting: the bound sockets of a task are its fake ones, as many as `fakes` is
long (`FakeSocketsCount`), its forward ones, and its inputs without the static ones
(`InSocketsCount`), and no socket is two of these (`Apart`).

### 4.11 The masks of the threads

`LeftFree` speaks of two moments, the start of the pool and the return of `exec`; that no
thread is pinned then depends on everything it was told before. `PinningIInv` therefore is
about what the threads have still to do:

* `Balanced`: in the calls that are left to a thread, every pin is followed by an unpin before
  the next call that creates, builds or starts something (`Critical`); and a thread
  whose mask is not the whole machine has its unpin before the next such call (`Released`). It is
  shown of every text that the code puts together: the loops of `gen_processes` and of the
  copies (`VisitFacts`), `init` of a sequence (`InitFacts`: its first pin is undone only by the
  loops that come after it, and with `n_threads = 1` by `gen_processes` alone), `_exec`
  (`ThreadFacts`), `exec` of a sequence and of a pipeline (`ExecSequenceFacts`,
  `ExecPipelineFacts`). A thread that is created inherits the mask of a thread that is free.
* `Awaited`: a thread that has calls to make has somebody who will join it, the leader of its
  stage or, for a leader, the caller of `exec`; `Forks` and `Starts` say that a fork and the
  start are called once, by whoever joins later, and that nobody whom they give calls to has any.
  So when the caller of `exec` has none left, nobody has (`AllIdle`), and everyone is free.

The mutex is held only in a program that was refused. Nothing is claimed after a refusal: a
`pin` that throws leaves its mutex locked and other threads where they are.

### 4.12 What is only model-checked

Liveness (`Termination` and the like, `InterruptStops`, `LoopsEnd`, `Answers`, `Ends`),
`NearlyOptimal`, `PinnedAsAsked`, and everything about `ControlFlow` and `PipelineBuild`.
Liveness under fairness and `ENABLED` are beyond the prover. `ControlFlow` and
`PipelineBuild` are built on recursive operators, which none of its backends takes.
`NearlyOptimal` compares with a dynamic program over all cuts: induction over data.
`PinnedAsAsked` rests on the parsers of policies, which are folds over lists of objects: what
they yield is again induction over data.

## 5. Abstractions

* C++ atomics are sequentially consistent in the code (default order), and so
  are they in the models. Plain accesses ordered by the counter or a mutex are
  steps of their own where another thread could see the difference.
* `lock_guard` ... `notify_one` ... unlock is one step, which waits for the mutex:
  nothing else can happen to the peer while it is held.
* A task is what it does to the buffer in its hand. Frames are numbers; data in
  `ControlFlow` and `PipelineBuild` are the names of the tasks they went through.
* An exception thrown in a worker of a pool ends the program
  (`std::terminate`): `ThreadPool` stops in that state.
* An allocation does not fail, and memory that was freed is told from memory in
  use by who points to it, not by addresses.
* A choice between outcomes that C++ leaves open (a write outside a buffer, a
  value that was never set) ends the behaviour: the properties say that it is not
  reached, or, where it is, section 6 does.

## 6. Disagreements with the documentation, and behaviours left out

None of what follows is a run of its own: each was met while modelling, and either
the model leaves the case out (as said here and in the modules) or a property is
stated so that it allows it.

### 6.1 In execution

1. `Adaptor_m_to_n::reset` clears the cancel flag of the original only
   (`Adaptor_m_to_n.cpp:139`); each clone has one of its own, which the end of the
   first execution has set. In the second `exec` of a pipeline with a replicated
   stage, the other threads take an empty ring for the end: frames are not
   flushed, and with more frames than fit the neighbour that serves the channels in
   turn waits for ever. `Flushed` and `Termination` are about the first execution,
   or a pipeline without replicas (`AsBuilt`).
2. A worker of the pool waits on its condition variable without a predicate
   (`Thread_pool_standard.cpp:107`). One spurious wakeup makes it run a job twice and
   pass the barrier twice; the barrier's own check throws in the worker.
   `ThreadPool` has no spurious wakeups.
3. When the threads of a replicated *last* stage stop on a shared counter, as
   `generic_pipeline.cpp:977` does (`docs/tests_advanced.md:150`), the first to leave
   does not empty its channel. The pusher that serves the channels in turn blocks
   on it, the remaining threads starve, the stage does not return, and nobody
   cancels anybody (`Pipeline.cpp:1344`). The last stage of `Pipeline_ends` has one
   thread.

   The threads of a replicated *first* stage stop one by one too. One of them may make
   frames that come after one that another thread no longer makes: a hole in the
   stream. The next stage ends at the first empty channel it comes to
   (`Pipeline.cpp:1339` has canceled it), and what is in the channels behind is
   never used; `reset` throws it away. `Flushed` supposes that there is no hole
   (`Unbroken`); with two threads and a limit of three there may be one.
4. Each thread calls `reset_sigint()` when it starts (`Sequence.cpp:839`). A signal
   handled between the starts of two threads is taken back by the second one,
   although the handler has announced that the execution stops
   (`Signal_handler.cpp:168`). `InterruptStops` is about a signal that is still
   pending when all have started.
5. `prev_exception_messages_to_display` is never cleared: every execution after a
   failed one throws an old message (`ErrorsReported` says "since the sequence
   exists"), and a longer message of a known signature replaces the *last*
   message, whatever its signature.
6. An `Iterator` is not reset after an iteration that was aborted, and `exec_seq`
   does not reset the switchers; the walk calls itself for every turn of a loop,
   so that its stack grows with them (`Sequence.cpp:865`).
7. After an exception in a codelet in the middle of the waves the pointers of the
   sockets stay where they were moved to, and the next execution takes them for
   the user's (`lost` in `TaskFrames`).
8. Smaller ones: `docs/pipeline.md` (131-132) gives `first` and `last` as atomic, they
   are plain integers; the same page (73-74) says that two consecutive replicated
   stages are not supported, the adaptor supports them and `Scheduler_GR` makes them.

### 6.2 In construction

1. A loop or a choice nested in an exclusive path that is not the last one is cut
   off from what follows the choice (`Sequence.cpp:1196`; `docs/sequence.md:122` shows
   such nests). `MCControlFlow` has none of these programs.
2. Two forward sockets that share one buffer and cross the same boundary are
   rebound to the same adaptor socket (`Pipeline.cpp:978`; `docs/socket_fwd.md:51`).
   The initial states of `PipelineBuild` have no such pair.
3. After `unbind_adaptors` or `set_n_frames`, an input behind a forward socket keeps
   the pointer of before (`docs/socket_fwd.md:38` promises it follows). `PointersLive`
   leaves these inputs out after a call.
4. An empty last exclusive path is refused; with three readers of a socket, rebinding
   in reverse order does not restore the order of the list; `set_n_frames(0)` throws
   when everything has been unbound; the last tasks of a sequence that ends with a
   loop (`docs/sequence.md:36-38`) and the identifiers of the second and later first
   tasks are not what their names say; the copy for tasks that are not in place
   does not number the sub-sequences (`Sequence.hxx:98-102`); a feedback to an earlier
   stage is bound without an adaptor, and the order of the stages is not checked.
5. Sockets and tasks: a forward socket that is bound can be bound again
   (`docs/socket.md:54`), and is then told twice when one of the two is destroyed;
   `Task::clone` keeps the number of inputs of a task whose fake inputs it drops;
   `Task::unbind` forgets the last input even when there are others; an input that is
   unbound keeps its pointer. `set_n_frames` of a module with bound sockets throws
   half-way and leaves the number of frames, the sizes before the bound socket and those
   after it out of step (`Task.cpp:1059`). A later change computes from these, with
   integers: with frames of 3 bytes, `set_n_frames(2)` refused on a bound output and then
   `set_n_frames(3)` gives `3 / 2 * 3`, the present size, so the change is accepted, the
   output gets a buffer of its own (`resize_out_buffer`, `Task.cpp:1074`), and its inputs do not
   know it: `allocate_outbuffers` skips an output that has a buffer. `BoundAgree` allows
   exactly this (`GrownAlone`). `set_n_frames` between `create_task` and `create_codelet` leaves the vector
   of statuses too short; `set_single_wave(false)` also sets the frames per wave;
   memory bound before `set_n_frames` is not checked again.
6. The number of waves is `(size_t)std::ceil((float)n_frames / (float)n_frames_per_wave)`
   (`Module.cpp:62`, `:80`). A `float` has 24 bits: 16777217 frames are converted to 16777216,
   and in waves of 2 they get 8388608 waves instead of 8388609. The last of these is then
   taken for the incomplete one, of one frame, and two frames are never handled. Up to 2^24 frames the number is exact (`NotRounded`); `TaskFrames` and its
   theorems go no further.

### 6.3 In scheduling, pinning and reporting

1. `extra_tasks_packing` counts the weight of the stateful task twice
   (`Scheduler_OTAC.cpp:176-184`): the chain of 4, 1, 1 (replicable) and 2 (stateful) ns
   on two units gets a period of 5 although 4 is possible. Nor is its packing monotone:
   with 27, 14, 8 (replicable) and 11 (stateful) ns on two units, it finds
   nothing for a period of 35.5, which becomes the lower bound, and 33 when asked for
   38.25, so that the search ends with the bounds crossed and `get_period`
   tells 34.25 for stages of 33. With tasks of about a nanosecond it may find
   nothing at all: 0.27, 0.61, 0.96, 0.3, 0.05 (replicable) and 0.49 (stateful) ns on
   two units give an empty solution. `NearlyOptimal` leaves these
   chains out (`CountedOnce`). With one unit the period told is about twice
   that of the stages, as no bisection takes place.
2. `pin` locks a global mutex without a guard (`Thread_pinning.cpp:178`;
   `docs/thread_pinning.md:216-219`): when it throws, the next call of `pin`, `unpin`,
   `init` or `destroy` blocks for ever. A program refused in that way stops in
   `Pinning`.
3. A file of version 1 never sets the pinning policy, so that the cores it gives are
   not used; in version 2 the buffer size of the last stage is written outside
   the list; an entry without `pinning-policy` throws, although
   `docs/tests_advanced.md:132-133` makes it loose; a guided policy whose list is
   exhausted leaves a thread where it is; `distant` divides by the number of
   siblings, which may be zero. `AsAsked` expects the threads of a version 1 file
   to be free, also on stages for which the file lists cores.
   `docs/tests_advanced.md:130` says that `guided` pins to the core type;
   `build_stage_policy_guided` takes the first unit of each entry of the list
   (`Scheduler_from_file.cpp:298-299`). Where `smt` is the number of units of a core each entry
   is one unit, and the threads get all that are left of the type. With `smt` of 1 and
   `core0-1` of two units each, as in the second resource of `MCPinning`, they get one unit of
   each core, half of the type: `GuidedTo` says which.
4. `Reporter_probe` keeps `head` and `tail` when its rings are resized
   (`Reporter_probe.cpp:309`), so that the next push may be outside of them;
   `create_probe_checks` is never called, so that two probes of one name push into the
   last column; a ring of one value never holds any; the flag that stops the
   terminal's thread is a plain boolean; `Terminal_std::report` asserts that a report
   has one row. `ReporterProbe` has distinct columns, rings of at least the frames of
   a wave, and stops at a push outside.

## 7. Not modelled, and why

* Processing modules, the bit packer and the mathematics: data-parallel arithmetic
  without state that outlives a call. File input and output: system calls; what
  the loops see of a source, `is_done`, is in `SequenceExec`.
* Statistics, the display of tables, help, stack traces, exports of graphs: text.
* The parsing of JSON: external; `StagePolicies` starts from what it yields.
* `hwloc`: a mask of units for a thread and a set of units for each object.
* Reporters other than `Reporter_probe` (noise, monitor, throughput): formulas on
  counters that one thread updates.
* In `Pipeline`, exceptions, aborted iterations and signals: how they end the
  threads of one stage is in `SequenceExec`; the rest of the pipeline hears of it by
  the cancellation that `Pipeline` contains for each other end. An exception that
  leaves the *last* stage skips this cancellation (`Pipeline.cpp:1344`), and one in a
  worker ends the program.
* Names given to tasks, types of data, and checks of arguments that only throw.

## 8. What a continuation could add

1. `Pipeline` with aborted iterations: a stage whose task gives up between its pull
   and its push (`Sequence.cpp:881`) breaks the turn of the channels.
2. The exponential number of programs of `ControlFlow` is given by hand; generating
   them by a grammar up to a size would replace the list.
