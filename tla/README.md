# PingPongOS: verification of the kernel, the queue library and the thread programs

The repository holds the course project of an operating systems class: a small
user-level kernel (PingPongOS), the queue library it stands on, and a set of
pthread programs about mutual exclusion. This directory holds TLA+ modules that
model them, the TLC runs that check the modules on small instances, and proofs
that TLAPS checks for every value of the constants. Names follow the source.

## The system

| Component | State | Operations | What is hard |
|---|---|---|---|
| Kernel, `sources/ppos_core.c` | `filaProntas`, `filaTarefas`, `tarefaAtual`, `tarefaPrevia`, `maiorId`, `taskCont`, `quantum`, `time`, the descriptors | `ppos_init`, `task_create`, `task_switch`, `task_exit`, `task_yield`, `task_setprio`, `dispatcher`, `scheduler`, `systick` | `systick` preempts user code anywhere, inside kernel calls too; `tarefaAtual` and the stack that executes differ inside `task_switch`; no call protects its data |
| Applications, `sources/pingpong-*.c` | descriptors, loop counters | sequences of kernel calls in `main` and in the bodies of the tasks | what they rely on: order of service, priorities kept, the process ending when it should |
| Queue library, `sources/queue.c` | circular rings threaded through the elements | `queue_append`, `queue_remove`, `queue_size`, `queue_print` | pointer surgery at the head, the end and in one-element rings; refusal of wrong calls; walks that must end |
| `aula_7_alternancia.c`, `aula_7_peterson.c`, `aula__8_sem.c` | `turn`, `flag`, `semaphore`, a shared queue, `contadores` | take a node out, put one in; the SIGALRM handler prints and resets the counters | plain variables on a processor with store buffers; pops from an empty queue; a handler that resets what the threads increment |
| `aula8_produtor.c` = `aula8_escritor.c` | three semaphores, a queue and its count | `produtor`, `consumidor` | a push may fail and the item is announced all the same |
| `aula8_escritor_prioridade{igual,leitor,escritor}.c` | `semEscritor`, `usando`, `querUsar`, a queue | `leitor`, `escritor` | `usando` is read and written by all readers, `querUsar` by all writers, without protection |
| `aula8_filosofos.c` | a semaphore per chopstick | `threadFxn` | circular wait |
| `aula8_filosofosprodutores.c` | `hashis`, three semaphores | `threadFxn` | a thread that waits for a semaphore it holds |

The kernel calls the queue library on both queues. The applications
(`pingpong-*.c`) call the kernel from tasks and the timer calls `systick` from
the signal; the dispatcher is a task that never returns and is the only one
that dispatches, requeues and reaps. Nothing is persisted; a crash ends the
process and there is no restart to model.

What makes each component correct: in the kernel, that every live task is in
one queue, runs on its own stack, is never lost and is reaped once; that ids
and counts are right; that ageing lets every task run; that time is charged
to who used it; in the applications on it, that tasks of equal priority are
served in order, that a task has the priority it was given, and that the process
ends. In the library, that a ring stands for a sequence and each call
does to the sequence what `queue.h` says. In the thread programs, exclusion,
conservation of what the semaphores count, and progress. The list of hazards,
each with its line and its properties, is in `PROJECT.json`.

## Modules

| Module | Stands for | Runs |
|---|---|---|
| `Ppos` | the kernel but for its clock; a step per access to shared data where a preemption can fall | `ppos`, `ppos_live`, `ppos_ids` |
| `Aplicacao` | the test applications, composed with `Ppos`: each as the calls of `main` and of the bodies | `aplicacao` |
| `Tarefas` | what the kernel promises: the life cycle of a task, one running at a time | refined by `Ppos` (`ImplementaTarefas`) |
| `PposInv`, `AplicacaoInv` | the inductive invariants of `Ppos` and, on top of it, of `Aplicacao` | `IInv` in `ppos` |
| `PposProof` | the proofs of the kernel's safety, of its two counters, of ageing and of its refinement of `Tarefas`; those of the applications | |
| `Contab`, `ContabProof` | the time accounting, and proofs of its bounds | `contab` |
| `Fila`, `FilaAbs` | `queue.c` at the level of pointers; sequences and return codes, refined by `Fila` (`ImplementaFila`) | `fila` |
| `FilaProof` | the inductive invariant of `Fila`; the proofs that rings are kept, that `FilaAbs` is implemented and that walks pass every element once; with the same rings, the preempted append of `FilaPreempta` | |
| `FilaPreempta` | the `queue_append` of `task_create`, a store per step, cut by preemptions | `fila_preempta` |
| `Ponteiro` | the null pointer, one for `Fila` and `FilaPreempta` | |
| `Exclusao`, `ExclusaoProof` | the three mutual exclusion programs, with the handler of SIGALRM; proofs of exclusion, of the alternation and of the counters | `exclusao` |
| `Produtor`, `ProdutorProof` | producers and consumers, and proofs of what their semaphores count | `produtor` |
| `Leitores`, `LeitoresProof` | the three programs of readers and writers, and proofs of exclusion and of their counts | `leitores` |
| `Filosofos`, `FilosofosProof` | the philosophers, and proofs about them | `filosofos` |
| `Contagem` | lemmas on how many threads are at a place, how a step changes it, and on least elements | used by the other proofs but that of `Filosofos` |
| `FilosofosProdutores` | the philosophers as producers and consumers | `filosofos_desiste` |

`MCPpos` instantiates `Ppos` (through `PposInv`) for TLC, `MCAplicacao` gives
`Aplicacao` its set of priorities. The other modules are checked as they are.

### How the kernel's code maps to `Ppos`

There is one processor: `cpu` is the task whose stack executes, `pc` where the
code of each task is. A step is a stretch of code that no tick can split with an
effect. The handler runs with SIGALRM blocked, and a tick that finds
`tarefaAtual->id = 1` only advances the clock; so the dispatcher's code is split
only where `tarefaAtual` already names the next task (`DispatcherDespacha`, then
`DispatcherTroca`), and a task's own switch to the dispatcher is a step that a
tick can precede (`TaskYield`/`TaskExit`, then `Troca`) but not split.
`task_create` has a step for each access to a shared variable: read `maiorId`,
store it, read it again and fill the descriptor, publish, read `taskCont`,
store it, and the two stores of the priorities. `Systick` is enabled in all of
them. Which call a task makes is open (`UsuarioNext`): the applications of the
repository are among the behaviours.

One simplification is to be kept in mind: the queue calls are one step each in
`Ppos`, so its results are about runs where no preemption cuts the
`queue_append` of line 166 in a way that matters. `FilaPreempta` splits it and
says when a cut is harmless (`CorteInofensivo`): before the first store, if what
the append has read of the ring is still so when it goes on.

### The applications

In `Ppos` a task may make any call at any time, with a descriptor that is not in
use. `Aplicacao` fixes the calls: `Programas` gives for each `pingpong-*.c` the
sequence of `main` and that of each body, and an action per kernel call takes the
next one (`FazCreate`, `FazYield`, ...) by the action of `Ppos` it stands for. What
the programs compute and print between calls is time in which a tick may fall.
`Chamada` is the application, `Inicia`, `Continua`, `Entra` and `Despacha` are the
kernel's own steps, `Tick` is the timer. Two cases exist only here: a
`task_switch` to a ready task, which finds it not in `filaTarefas` and returns -2
(`FazSwitch`), and the second `task_create` of `pingpong-tasks3.c` with a descriptor
that is still in `filaProntas` (`FazCreateEmUso`). That one is one step with two
outcomes: it follows a null link (`"segv"`), or a preemption falls in it and the
dispatcher meets the ring and the context half written (`"contexto"`); the run is not
followed further. `pingpong-preempcao.c`, its `stress` variant and `pingpong-contab.c` make the
same calls as `contab_prio` without the priorities, or as `dispatcher` without the
yields; they are in the module and not in the run. `PrioridadePropria` is no
program of the repository: it is the smallest client of `task_setprio(NULL, ...)`.

### The other modules

`Contab` splits `task_switch` at the two lines that read the clock and lets
ticks fall around them; the choice of the next task is left open. The `printf` of
`task_exit` is split too: `timeProcessor` and `activations` are loads of their own
(`ExitLeProcessador`, `ExitLeAtivacoes`) in either order, as C does not fix it, and a
preemption may come between them; the other arguments do not change once
`timeTaskExit` is stored. `Fila` takes a
call of append or of the removal of a head as a step (one caller at a time) and
the loops an iteration at a time. `FilaPreempta` has a step per statement of
`queue_append` (the headers refuse a build with optimisation, so each is a load
or a store in order) and whole dispatcher calls between them. In `Exclusao`
stores wait in a buffer that memory receives later, as on x86, the increments of
`contadores` included; the handler runs in `main`, a step to print and one for each
reset. In `Leitores` an update of `usando` or of `querUsar` is a load and a store;
`sleep(1)` is a step without a length. In the programs
with semaphores a section under a binary semaphore is one step up to its post,
except where the code waits inside one; which of the waiting threads a post
wakes is open. `push_filaint` does not initialise the links of its node, and
`queue_append` refuses it when they are not null: a push may fail at any time in
`Produtor`, `Leitores` and `Exclusao`.

## Runs

All under the bounds of their `.cfg`; counts are distinct states.

| Run | Instance | Shows |
|---|---|---|
| `ppos` | main, 2 created tasks, quantum 2, one tick per window, ids up to 3 (820 thousand states, symmetry on the created tasks) | the invariant of the proofs; queues, contexts and stacks consistent; ids and `taskCont` right unless a preemption cuts `task_create`; ageing bounded; refinement of `Tarefas` |
| `ppos_live` | main, 1 created task, priorities 0 and 1 | every ready task runs, exits are reaped, the kernel ends when all tasks have |
| `ppos_ids` | main, 3 created tasks | two live tasks with one id (violation) |
| `aplicacao` | 8 applications, main, 2 created tasks, one iteration per loop, priorities -4 to 4 (189 thousand) | a task is never passed by a later one of no better priority; priorities are those last asked for, unless a preemption cuts the end of `task_create`; every created task runs before `main` exits; every application ends |
| `contab` | main, 1 task, quantum 3, two ticks per switch, 6 ticks (3.7 million states) | every tick is charged to one task but those between lines 222 and 224; a charge fits in quanta and in the lifetime; the printed time leaves the last burst out, but for a burst that ends between the two loads of the line |
| `fila` | 2 queues, 3 elements, every call right or wrong (33 thousand) | rings well formed, the sequences and return codes of `FilaAbs`, walks end |
| `fila_preempta` | the creator, its new task, 3 ready tasks (48 thousand) | the ring stays closed both ways and holds the tasks it must, and the dispatcher never follows a null link, unless the append is cut between two stores or goes on with a stale read |
| `exclusao` | 2 threads, 2 nodes, 3 buffered stores, 2 insertions between signals (278 thousand) | who excludes whom; Peterson does as long as no load of the other flag passes an own store; each insertion is printed once, unless an increment and a reset overlap; no thread starves |
| `produtor` | 3 producers, 2 consumers, as in the program | the place and the announcements are conserved; the exchange goes on |
| `leitores` | 2 writers, 3 readers, as in the programs, three variants (382 thousand) | exclusion, the semaphore and progress, with priorities up to the first stale use of `usando`; `querUsar` counts the writers until two of its updates overlap |
| `filosofos` | 5 philosophers, as in the program | conservation, exclusion of neighbours, and that the circular wait is the only way to stop |
| `filosofos_desiste` | 5 philosophers | the philosopher that gives up never puts the chopstick back (violation) |

### Bounds

Two created tasks and main give the kernel a running, a ready and a half-created
task at once, two creators at once, and a removal from the middle of the ready
queue; the cut of `task_create` that repeats an id needs three created tasks,
hence the larger `ppos_ids` (`IdsUnicos` is checked where two tasks are enough to
break a wrong `task_create`). `MaxId` bounds the creations: descriptors are
reused within it. `TicksJanela < QUANTUM_VAL` says that a window of a few
instructions does not last a quantum (20 ms in the code). Three elements are
enough for a head, a middle and an end, two queues for an element of the other
one. `LIMITE`, `NUMFILO` and the numbers of threads are the code's. `FILA` is
smaller than the 10 or 11 nodes of the programs: the queue only shrinks, and
what matters is that it may become empty. `TAM_BUFFER` holds the three stores a
Peterson thread can have pending. `MaxConta` bounds the insertions of a thread
between two signals (100 ms): at the bound the thread waits for the handler; two
are enough for a printed and an unprinted one to be in a counter together. The
counters are followed up to the first overlap of an increment and a reset, the
threads for ever. `VOLTAS` is 1 where the bodies iterate 4 to 10 times: the loops
repeat the same call. Two created tasks stand for the 3 to 5 of the applications:
an order of service needs two, and the priorities spread as `main` sets them.
`FilaPreempta` has three ready tasks, so that the last is neither the head nor next
to it. `MaxTime` and `MaxAtivacoes` bound the clock and
the voluntary switches of `contab`.

### Fairness

In `Ppos`: weak fairness of the dispatcher, of the end of `ppos_init` and of the
timer, because the processor executes the code it is in and the interval timer
is periodic; strong fairness of the kernel call a task is inside of, because a
task that gets the processor again and again, for a quantum each time, gets
through a call. Nothing is assumed of the application: a task may compute for
ever. `Aplicacao` does assume more: strong fairness of each application call, for
a body that gets the processor again and again reaches its next call, its loops
being finite. `SemInanicao` excludes tasks that put off another by setting its priority
again and again, and tasks that renew their quantum by switching to themselves;
both are possible in the code. In the pthread programs: weak fairness of each
thread, which the scheduler of the operating system gives, and no order among
the waiters of a semaphore, so that only "somebody" is claimed where the code
does not do better. `Exclusao` adds
that a buffered store reaches memory and that the interval timer fires.

## Proofs

`PposProof` proves, for any finite set of tasks, any priorities and any quantum
longer than a window, `Spec => []IInv`, and from it type correctness,
`FilasConsistentes`, `ContextoIntegro` and `PilhaViva`. These three are not
inductive. `IInv` says that the kernel is always in one of five phases (start,
dispatcher's loop, the window of `task_switch`, a user task, back in the
dispatcher), fixes in each what the queues, `tarefaAtual` and `tarefaPrevia` hold,
and adds what the steps rely on: where the code of each task is, that a task
half-way through `task_create` holds a descriptor nobody else has, that a
task that has exited is in `troca` and not in a queue of ready tasks, and that
inside a window the quantum is `QUANTUM_VAL` less the ticks of the window, which
is why no preemption can fall there. There is one lemma per action, over
lemmas about `Append`, `Retira` (a removal from a sequence without repetitions)
and the scheduler's choice (which exists and is in the queue).

It also proves `IdsUnicos` and `ContadorExato`, from two invariants on top of
`IInv`. `IdsInv` says that, until a preemption has cut the numbering, every
descriptor that has received its identifier (the live ones and the one about to be
published) has one of its own and none above `maiorId`, that only the running
task is between the accesses of `task_create` to `maiorId`, and that the value it
has loaded is still the current one. `ContInv` says the same of `taskCont` and the
number of live tasks, less the one that is published and not counted. A lemma
disposes of the steps that leave a counter alone; the others have one each. The
hypothesis on the preemptions cannot be dropped: `ppos_ids` shows it for the
identifiers.

`EnvelhecimentoLimitado` says that ageing takes no task further below the smallest
priority than there are tasks. One bound for all of them is not inductive:
`EnvelheceInv` bounds, for each depth, how many tasks have come down to it, one
fewer per level, because each time the scheduler ages the queue it takes a lowest
task out, and a task that is not waiting has a priority in use, but for the last
dispatched, which will be given its own back.

`ImplementaTarefas`: under `IInv` the phases of the tasks, read
off the two queues and the status, change only by a step of `Tarefas`
(`CriaPublica` is its `Cria`, `DispatcherDespacha` its `Despacha`, and so on).

The end of `PposProof` is about the applications, for any number of tasks (two at
least) and of iterations: `PrioridadePedida`, `SemUltrapassagem` and
`TodasTiveramVez`, from `ASpec => []AInv`. A step of `Aplicacao` is a step of the
kernel (`PassoDoNucleo`), so `AInv` contains `IInv` and adds what the programs
bring. `ProgramaInv` places each task in its program: only `main` creates and gives
priorities to others, and while it does its last call tells to whom. `PedidaInv`: who
is setting priorities has the processor and stores what was last asked, until
a preemption cuts it. `OrdemInv`: in `filaProntas` priorities only go down from the
static ones and, of two tasks, the first is no worse than the second if its static
priority is not; the task dispatched last, which does not age, is at the end
(`PreviaNoFim`), and the one whose priorities are being set is out of the order and
at the end too (`Foco`). `VezInv`: where all have priority 0, a created task that
has not run is in the queue or in the window of `task_switch`, and once `main` has
called its `task_yield` it is giving the processor up, or in the queue behind every
task that has not run, with a priority no better than theirs (`Atras`); ageing
and the choice of the scheduler keep that, whoever is preempted meanwhile. Most of the
lemmas say which steps leave a part alone. `AInv` is guarded by
`saida \notin MausFins`: the `task_create` with a descriptor in use of
`pingpong-tasks3.c` leaves the states of the kernel. That the programs of `Programas`
are well formed is proved for every number of tasks (`ProgramasBemFormados`).

`FilaProof` proves, for any finite numbers of queues and elements,
`AneisConsistentes`, `ImplementaFila` and `ImprimeVarios`. The properties of `Fila`
speak of the walk from the head (`Conteudo`, a recursive function), about which
nothing can be proved by unfolding alone. The invariant says instead that a
formation exists (`Formacao`): for each queue a sequence without repetitions whose
links are closed into a ring, no element in two of them, and null links in all
the others. `PercursoDoAnel` says that the walk over such a ring yields that
sequence, which turns the invariant into the properties and gives the witnesses
of the refinement; `TrocaAnel` reduces the proof of a call to the ring it
changes, as the other queues and the loose elements keep theirs. The loops of
`queue_size`, `queue_remove` and `queue_print` go an iteration per step:
`Caminhada` says where on the ring each stands and what it has seen.

The module ends with `CorteInofensivo` of `FilaPreempta`, for any finite number of
ready tasks. `FilaProof` extends both modules, which have the null pointer in common
(`Ponteiro`), to reuse the lemmas on rings (`FechadoMaisUm`, `FechadoMenosUm`); the only
hypothesis of the theorem is that the elements of those rings are the descriptors of
`FilaPreempta` (`Descritores`). The property says nothing while the
append is between two stores, so it does not survive the last of them. `CorteInv` says
what is there then: the links are those of the ring before the append, but for the
stores done so far (`Parcial`); the caller keeps the processor; `primeiro` and `ultimo`
are the head and its predecessor; and whoever is about to link a first element
has no other task alive. `CaminhoDoAnel` says that the walk of the scheduler, a recursive
function of which only its equations are used, comes back and meets the tasks of
the ring and no others.

`ExclusaoProof` proves, for any number of threads (two in Peterson), nodes and
buffered stores, `ExclusaoMutua`, `AlternanciaEstrita` and `InsercoesContadas`. What
is hard is that a store that has been executed and has not reached memory
belongs to both. `Atraso` says what a buffer can hold: the last stores of the
thread's round, in order. `AlternanciaInv`: a thread has the turn from its entry
until the store that passes it leaves the buffer. `PetersonInv` holds only
until a load of the other flag has passed an own store, which is the hypothesis
of the property too. `SemaforoInv` counts who is inside. `ContasInv` says that
the increments on their way to memory are consecutive numbers after the counter, and that
the value loaded for an increment is the one the thread would read now, until
an increment and a reset overlap.

`FilosofosProof` proves, for any number of philosophers, that the chopsticks are
conserved, from which neighbours never eat together. Exclusion alone is not
inductive: the invariant ties each semaphore to the hands that hold it.

`ProdutorProof` proves `VagaConservada` and `ItensAnunciados` for any numbers of
producers and consumers, and `LeitoresProof` proves `ExclusaoMutua`,
`SemaforoConservado` and `QuerUsarConta` for any numbers of readers and writers. Both
count the threads at each place (`Contagem`: one step moves one thread, so a
count changes by one or not at all) and equate the counts with the semaphores. In
`LeitoresProof` exclusion needs all of it: `Iguais` where everybody takes
`semEscritor`; `Prioridades`, that `usando` is the number of readers on the list
and that at zero the semaphore is free, or with a writer, or with the one reader
that arrives or leaves last (a reader that has brought `usando` to zero and did
not test it yet has a place of its own, `"ultimo"`); `RegLeitores`, that a loaded
`usando` is the current one; `Pedidos`, the same of `querUsar` and the writers.

`ContabProof` proves the conservation and the three bounds of the accounting for any quantum and any
number of ticks in a window: `RajadaCabeNoQuantum`, `ProcessadorCabeNaVida` and
`ImpressoSemUltimaRajada`. `Quanta` ties the burst in progress to what is left of
the quantum, ticks of the switch included; `Rajadas` says that the activation that
is going on has not been charged, which is also why the printed time leaves it out.
`Impressao` follows a `task_exit` between its two loads: if it has read `activations`,
what is charged by now is what those activations charged and one burst for each
preemption since (`rajadas`, a history variable); if it has read `timeProcessor`,
`activations` can only grow. `TempoConservado` is a sum over
the tasks, a fold that cannot be unfolded for an unknown set: `SomaETotal` shows
that it is the number of units the tasks have together, the cardinality of a set,
which grows by one with a tick that is charged (`TickCobrado`) and stays in
the steps of `task_switch`, that move a burst from the running to the charged.

The assumptions are those the modules name (`NomesAssumption`, `NosAssumption`,
`PriosAssumption`, `QuantumAssumption`, `NumfiloAssumption`, `ThreadsAssumption`,
`ConstantesAssumption`, `AplicacaoAssumption`, `ProgramasAssumption`); TLC evaluates
them in every run. `AplicacaoAssumption` asks for two tasks because
`pingpong-tasks1.c` names two, and `ProgramasAssumption` that the priorities the
programs give are among those in use.

Only model-checked: all liveness, as TLAPS does not prove properties under
fairness. Every invariant, action property and refinement that a passing run checks
is stated by a theorem.

## Disagreements between the code and its comments

Two runs end in a violation, on purpose; each is a finding in `PROJECT.json`: two
tasks with one id, and a philosopher that waits for the semaphore it holds.

What else the modelling met, without a run of its own:

- `queue_print` shows the only element of a one-element queue twice
  (`queue.c:47`); `ImprimeVarios` is about longer queues.
- `task_create` zeroes the priorities (`ppos_core.c:173`) after the task is
  published: a task that has run and called `task_setprio(NULL, ...)` before its
  creator resumes loses what it asked for. `PrioridadePedida` excludes that cut.
- `task_switch` to a ready task returns -2, because it looks in `filaTarefas`
  (`ppos_core.c:200`): in `pingpong-tasks1.c` and `pingpong-tasks2.c` the control is
  not passed, and `main` may exit before a task has run.
- in `pingpong-scheduler.c` `main` yields once and exits when it is chosen again,
  before the tasks of worse priority have run; `TodasTiveramVez` is about the
  applications whose tasks are equal.
- `pingpong-tasks3.c` ends in a null dereference in its second `task_create`
  (`queue.c:88`), unless the first task has been reaped before it or a preemption
  falls in the call.
- `task_exit` reads `activations` and `timeProcessor` for its line one after the
  other (`ppos_core.c:251`): when it reads `activations` first, as gcc usually does, and
  is preempted before it reads `timeProcessor`, the line has a burst more than
  usual, a time that is not zero beside one activation. `ImpressoSemUltimaRajada` counts
  those bursts.
- a preemption between two stores of the `queue_append` of `task_create` may
  leave the new task out of `filaProntas`, though the append returns 0.
- the insertions that the SIGALRM handlers print include the refused pushes.

Known limits that no comment contradicts are stated by the properties
themselves: Peterson without fences, the races on `usando` and on `querUsar`,
counters reset under an increment, lost ticks, the last burst left out of the
line of `task_exit`, `taskCont` after a preemption that cuts its update.

## Not modelled

`task_suspend`, `task_join`, `task_sleep`, semaphores, mutexes, barriers and
message queues of `ppos.h` have no implementation. `aula_7.c`, `aula_7_alg1.c` and
`me1-none.c` race on purpose and promise nothing: every outcome of their
unprotected sections is legal, so a model of them could refute nothing; the
section itself, and the handler of `aula_7.c`, are those of `Exclusao`.
`contexts.c` is an example of the library calls the kernel uses. `testafila.c`
tests `queue.c` in one thread: its check of a well-formed queue is the ring
invariant of `Fila`, its wrong calls are among those `Fila` makes. Texts, random
numbers, element values and the reentrancy of `printf` and `malloc` are left out.

## Plan

The order was: the kernel (`Ppos`) and its proof, the queue library, the thread
programs, the accounting; then the applications, the preempted append, the
counters of `Exclusao` and the third program of `Leitores`; then the proofs of
the kernel's counters and refinement, of the producers, the readers and the
accounting; then those of the queue library, of the mutual exclusion programs and
of the applications on top of the kernel's invariant; and last that of the
preempted append. Nothing of the plan is left but the liveness proofs.
