# A verification project for GemFI

GemFI is gem5 with a fault-injection framework: a simulated program switches
injection on for itself, the simulator counts its instructions, and at the
instruction, tick or address that an input file names it corrupts a register,
an instruction or a value. Shell and Python scripts run thousands of such
experiments and collect their statistics; MATLAB code learns from them. This
directory holds TLA+ models of the parts that were written for fault injection,
their TLC runs and their TLAPS proofs.

## Inventory

Paths are below `src/gemfi-dsn2015/src/` unless they start with another directory.

| Part | Source | Module |
|---|---|---|
| Activation of injection | `fi/fi_system.{cc,hh}`, `sim/pseudo_inst.cc` | `FiSystem`, `FiSystem_proofs` |
| Context-switch hooks, cached activation | `arch/alpha/ev5.cc`, `arch/x86/isa.cc`, `cpu/thread_state.hh` | `FiSystem` |
| CPU hooks | `cpu/simple/atomic.cc`, `cpu/o3/fetch_impl.hh` | `FiSystem` (who is injected into), `Injection` (when), `Effects` (what happens) |
| Fault queues | `fi/faultq.{cc,hh}` | `FaultList` (what they promise), `FaultQueue` (the linked list), `FaultQueue_proofs` |
| Counters, scan, rescheduling | `fi/cpu_threadInfo.{cc,hh}`, `fi/faultq.cc`, `fi/*cpu_injfault.cc` | `Injection`, `Injection_proofs` |
| Alteration of values | `fi/faultq.{cc,hh}` (`manifest` and the byte loops) | `Manifest`; proofs in `Effects_proofs` |
| Fault-file reader and writers | `fi/fi_system.cc` (`getFromFile`), constructors in `fi/*_injfault.cc`; `gemfi-dsn2015/util/create_exp/final_create_exp.c`, `training_data_generation/qsort/faults_generator.py` | `FaultFile`, `FaultFile_proofs` |
| Strikes and decode cache | `process()` of `fi/*_injfault.{cc,hh}`, `arch/generic/decode_cache.cc` | `Effects`, `Effects_proofs`, `DecodeCache_proofs` |
| Campaign | `gemfi-dsn2015/execution/*.sh` | `Campaign`, `Campaign_proofs` |
| Experiment runners, training data | `gemfi-dsn2015/run_experiment*.py`, `training_data_generation/data_processor*.py` | `TrainingData`, `TrainingData_proofs` |
| Older campaign scripts | `gemfi-dsn2015/scritps/*.sh` | none: `run.sh` is not valid shell |
| Machine learning | `machine_learning/*.m` | none: MATLAB numerics |
| gem5, MiBench, memory faults | | none: third-party, or not compiled |

How they interact: `fi_activate_inst` (a pseudo-instruction) calls `start_fi`,
`pause_fi`, `stop_fi` or `dump_fi`, which keep the map `fi_activation` from
process control blocks to `ThreadEnabledFault` objects. Each hardware context
caches the entry of the process it runs; the hook at the write of the
process register refreshes that cache. `tick()` and `fetch()` consult the cache
and call the hooks `main_fault`, `fetch_fault`, `decode_fault`, `iew_fault`,
`lds_fault`; each scans its queue against the counters of the thread and
processes what it finds. `init_fi_system` takes the checkpoint that `run.sh`
restores for every experiment and then reads the input file. The Python scripts
do the same for single fault files and turn the statistics of each simulation,
labelled by its terminal output, into the rows of a csv file.

## Modules

**FiSystem.** State: the map, the mode of each thread object, per context the
running process and the cached pair (`enabled`, `faulty`), the unsigned count
`fi_enable` (modulo `UIntMod`), the stage flags, the non-empty queues, the
option and events of the CPU switch. Actions: the four requests
(`ActivateInst`), `InitFiSystem`, `ContextSwitch` (Alpha or x86 by `Arch`),
`Tick` (atomic CPU), `Fetch` (out-of-order CPU), `Execute`. The simulator is one
operating-system thread, so a handler is one action; what interleaves is the
simulated cores. `failed` records a failed assertion or a null dereference.
Both end the simulator. A queue is abstracted to whether it holds a fault.
`Disciplined` restricts programs to pausing and stopping what is started; where
a property does not need it, it is FALSE.
The cached fields, which the C++ constructor leaves uninitialised, start as
disabled: the register write that precedes any user process sets them.

**FaultList, FaultQueue.** The abstract list, and the doubly linked list of
`insert`, `remove`, `scan` and `delete_faults`. `Fresh` is what an uninitialised
`nxt` or `prv` may hold: `{NULL}` for zeroed memory, `{NULL, Wild}` for any.
`FaultQueue` implements `FaultList` with `list <- Contents`, the faults a
traversal meets.

**Injection.** One instruction is `Begin`, `CountTicks`, the hooks in the order of
`tick()`, `End`. Each hook is a loop, so each of its iterations (`Process`) is a
step. `Clock` is the counter a fault looks at (`get_fi_*_counters`,
`Calculate*Time`), `Found` is `scan`, `Rescheduled` and `LastOccurrence` are
`check4reschedule` with `increaseTiming`. A fault is its stage, timing type,
timing, thread, core and occurrences; what it does to a value is in `Effects`.
`Setups` lists the files and the circumstances of a run, one of which is chosen
initially. Time advances by one per instruction, and the clock edge is `now + 1`.
Instructions that leave the hooks early (a page fault, the middle of a
macro-instruction) are left out.

**FaultFile.** The writers (`PrintFault`, `FillFaults`, `FillRegdec`, `PythonFile`)
produce token sequences. `Handouts` are the files `run.sh` hands out with `echo -n`, one
line each, or made by hand, with any number of lines (`Text` their tokens, `Meant` the
faults they ask for); `PythonBits` is how many bits the Python generator draws from.
`WellFormed` says what a line is: a keyword with a number that suits it, an occurrence
that is not negative, and no thread or core that is called like a fault class, which the
reader could not tell from the beginning of the next fault. `ReadFault` is one round of
`getFromFile`'s loop on a C++ stream: `Get` is `operator>>` with the end-of-file and fail
bits, `GetAll` the extractions of a constructor one after the other, `Fields` what it
reads, `Rejects` its assertions, `Construct` the object, with `Unread` for a variable
nothing was read into.

**Manifest.** `XOR`, `IMMD`, `FLIP`, `ALL` and `manifest` on values of any number of
bytes, with the loops' pairing of the value's bytes with those of the operand.

**Effects.** Composes `FaultFile` and `Manifest` with a processor that fetches,
decodes through the two-level decode cache, hands values to hooks and retires.
`StrikeFetch`, `StrikeDecode`, `StrikeOperand` are the `process()` methods as the hooks
call them, casts and overload resolution included; `Reschedule` is
`check4reschedule`. Any fault in the hook's queue may strike at any call, a
superset of the schedule that `Injection` gives. `failed` records a
division by zero, the asserting overload, or the look-up of a context whose number
was never read.

**Campaign.** Workers (`run.sh`) over shared lists: the unlocked test, the lock
file, reading and replacing the list, restoring and simulating (with `time.sh`
killing), storing. A setup says whether `mv` crosses devices (a truncation and a
copy), which stage checkpoints old core directories have, and how many crashes
happen. `Crash` leaves lock file and core directory, and may leave the simulator
running; `OrphanWrites` is that simulator's late output; `Restart` is `mainscript.sh`
with or without `start_new`. A result whose directory name (core and second) is
taken goes to `clash`. One lock file shared by all workers is assumed: where its
directory is mounted is not in the repository.

**TrainingData.** The runner (`Launch`, `Return`, `Timeout`), the simulations as an
environment (`Write`, `Exit`, or hanging), and the processor: `read_faults`, the choice
of the next directory, the label from `system.terminal`, the contents of `stats.txt`,
`read_stats` line by line, and the csv file. A simulation may outlive its timeout
(`orphan`) and go on writing while it is read. Keys and values are character
sequences, because `read_stats` joins them without a separator before hashing; md5
is taken to be collision-free. What gem5 guarantees of a statistics file is in
`TrainingAssumption`: sections have their marks and begin with the same statistic, no
statistic is there twice (`Info::setName` of `base/statistics.cc` panics), the order is
that of the one list that `dump` of `python/m5/stats/__init__.py` goes through
(`SameOrder`), and what is on disk only grows.

## Runs

Passing:

| Run | Shows |
|---|---|
| `FiSystem_atomic` | two x86 cores, three processes, START/PAUSE/STOP in any order: `TypeOK`, `CacheCoherent`, `NeverFails`, `EnabledIffStarted`, `OneSwitch` |
| `FiSystem_single` | one out-of-order Alpha core, all requests, disciplined programs, no faults in the main queue: `NeverFails`, `EnableCounts` |
| `FaultQueue_good` | zeroed memory: `NeverCrashes`, `LinksAgree`, `EnteredAscending`, `ResetTerminates`, `ImplementsList` |
| `Injection` | two or three faults in any of the five queues, aimed at one or all of two threads and two cores, timed by instructions or by ticks: `TypeOK`, `TotalsAgree`, `StruckOnSchedule`, `AtMostOccurrences`, `HiddenByMissed`, `InstructionCompletes` |
| `Effects` | the files of both generators, hand-written and two-line ones, Alpha and x86: `TypeOK`, `ReadsAsWritten`, `ContextWasRead`, `Manifested`, `DecodesAsFetched`, `DamageContained`, `RegisterKindKept` |
| `Campaign` | two workers, with and without crashes and a copying `mv`: `TypeOK`, `AtMostOnce`, `Accounted`, `EmptyRunsBounded`, `OwnOutput`, `AllRun`, `SurvivorsFinish` |
| `TrainingData` | simulations that end, crash, hang or outlive their timeout: `TypeOK`, `HeadingComplete`, `RowsDistinct`, `CorrectFirst`, `RowsAreSections`, `LabelsCurrent`, `NothingLost`, `Finishes` |

Violated, where the code and what the repository says of it disagree:

| Run | What happens |
|---|---|
| `FiSystem_dump` | DUMP on one of two cores: the other one fails the assertion "This should never happen" of `tick()` |
| `FiSystem_flags` | two STARTs: `fi_enable & bool` is 0 and load/store faults are not reached |
| `FaultQueue_wild` | a traversal follows an uninitialised pointer |
| `Injection_addr` | a permanent address-timed fault keeps its hook in the loop for ever |
| `Effects_opcode` | an opcode fault alters any bit of the instruction: `fetch_fault` calls the `process` of another class |

Some properties say exactly how far the code keeps a promise, and what lies beyond
is an observation of its own:

- `HiddenByMissed`: `scan` gives up at the first fault whose time has passed. What can be
  passed over without having been hidden itself is a tick-timed fault, because `tick()`
  adds the absolute time of the next clock edge to counters documented as the ticks a
  thread has been executing (`fi/cpu_threadInfo.hh:43`), and a fault due at instruction 0,
  because the counters are incremented before they are first compared. A fault that such
  a one hides is passed over in turn and may hide a third from another thread.
- `StruckOnSchedule`: `main_fault` scans before `fetch_fault` counts, so a register
  fault `Inst:T` strikes when the instruction after the T-th is fetched, whereas the
  report (`report/approach.tex:45`) says at the T-th.
- `ReadsAsWritten`: the reader accepts a full line only without a final newline; with
  one it builds a second fault from variables nothing was read into and asserts. Both
  writers avoid it, the Python one because it leaves the last field out. The number of
  a `Src` or `Dst` operand loses its first digit (`ParseOperand`).
- `Manifested`: bits are numbered from 1 in `FLIP`, from 2 in the generator's files and
  from 0 in the Python files, whose bit 0 flips nothing. `IMMD` and `XOR` pair a narrow
  value with the high bytes of the operand (`Partner`). On x86 `lds_fault` works on an
  address and its result is dropped.
- `DamageContained`, `RegisterKindKept`: a decode fault, transient or not, stays in the
  cached instruction. A repeated one also keeps the shift by `FP_Reg_Base`, which is why
  `RegisterKindKept` asks for faults that strike once and name a register below it
  (`Transient`), as the generator's do. It divides by
  zero on an instruction without the operand, and a load/store fault on a 32-bit value
  ends the Alpha simulator by an assertion (`failed`).
- The class `ExecutionInjectedFault` of the report (`report/approach.tex:47`) is not
  known to the reader, which skips the name.
- `OwnOutput`, `Accounted`: each crash of a worker may lose one experiment and spoil one
  result. With an `mv` across devices a crash may lose the rest of a list.
- `NothingLost`: `remove_this_iput` is misspelt in the reset, so a broken line drops every
  later section of its file; different sections may join to the same text.
- `LabelsCurrent`: the timeout kills the shell only, and a simulation that lives on
  can change the output its row was labelled by.
- `run.sh` prints "This should never happen" (line 135) after every experiment that was
  restored from the main checkpoint: the calls that would create stage checkpoints are
  commented out in `fi_system.hh`.

### Bounds

- `FiSystem`: two cores and three processes give one process that waits; three
  thread objects allow re-creation after STOP; `UIntMod = 8` lets the count wrap.
- `FaultQueue`: three faults reach the four cases of `insert` (empty, head, end,
  between) and of `remove`; three timings allow ties.
- `Injection`: timings up to 3 and 3 or 4 instructions let the faults strike, be
  rescheduled and be passed; with three faults a missed one hides another that hides
  the third (`ShadowFiles`). `ticks = 1` keeps only "zero or not", which is all that
  `scan` asks of ticks for instruction timing; files with tick timing have 20, more
  than 3 instructions can count. `MaxStrikes` is at least every occurrence count.
- `Effects`: bytes of 2 bits, words of 4 bytes, instructions of 2 bytes keep all
  relations between widths (narrower than, as wide as, wider than an instruction);
  three instructions (integer, floating-point, without operands) executed at most three
  times let a strike damage the cache and later executions meet it.
- `Campaign`: two workers race for the last line of each of two lists; two crashes with
  an atomic `mv`, one with a copying one, none with old stage checkpoints.
- `TrainingData`: three families of two or three simulations (duplicate and disjoint
  sections, a faulty run that looks like a correct one, broken and oversized files),
  with and without timeout and list of correct runs; `SizeLimit` is 20 lines.

### Fairness

`FaultQueue` and `Injection`: weak fairness of the loop that runs inside one
simulator event. `Campaign`: weak fairness of each worker; the operating system
schedules it, and `time.sh` ends simulations that use too much processor time.
Locking needs no strong fairness since each worker takes the lock finitely often.
`Crash`, `OrphanWrites`, `Restart` and the start of instructions have none.
`TrainingData`: weak fairness of the runner, whose timeout strikes, and of the
processor; none of the simulations, which may hang.

### Deadlock

All runs stop checking deadlock: simulations end at their bounds or with a failure,
campaigns when the lists are empty, the training data with the csv file.

## Proofs

For every value of the constants that satisfies the named assumptions.

**FiSystem_proofs** (`FiAssumption`: finitely many cores and processes, and a counter
wider than the number of processes):

- `TypeCorrect`: `TypeOK` is inductive; `fi_enable` stays in its width.
- `Coherence`: `CacheCoherent`, under `LocalDump` (no DUMP, or one core). It is
  inductive with `TypeOK`; its first conjunct, that no process runs on two cores,
  is needed because STOP and PAUSE change the map for the caller's process only,
  and another core running it would be left stale.
- `Safety`: `NeverFails`, from `CacheCoherent` and `MainUnused` (no fault reaches the
  main queue of the out-of-order core, assumption `StageFaultsOnly`).
- `ThreadOwnership`: `OwnThreads`, no two processes share a thread object.
- `Counting`: `EnableCounts` for disciplined programs; `OwnThreads` is needed so that
  a request changes the state of one process only.
- `Activation`: `EnabledIffStarted` on x86 under `LocalDump`, with `CacheCoherent` and
  `OwnThreads` as strengthening.
- `SwitchedOnce`: `OneSwitch`; at most one of the events and the option is pending.

Without `LocalDump` the code fails, as `FiSystem_dump` exhibits. Without
`StageFaultsOnly` it fails too: the out-of-order `fetch()` guards `main_fault` with
the flag `fi_main` alone, and passes a null thread when it runs kernel code.

**FaultQueue_proofs** (`QueueAssumption`: finitely many faults, distinct pointers; the
theorems are about `Fresh = {NULL}`, since `FaultQueue_wild` shows that they fail
otherwise). Inductive is `QueueInv`: some sequence of faults without repetition is
chained up by `head`, `tail`, `nxt` and `prv` (`Chain`), in ascending order of timing while
the file is read. From it a traversal of `n` steps is computed (`At`), and with it where
`insert` stops and which of its four cases applies.

- `Unbroken`, `Doubly`, `Ordered`: `NeverCrashes`, `LinksAgree`, `EnteredAscending`.
- `Refinement`: `ImplementsList`. The sequence of `QueueInv` is what `Contents` returns, and
  every step of the linked list is one of `FaultList` on it, or a stutter.

**Injection_proofs** (`InjectionAssumption`: finitely many threads, cores and faults, each
fault of a known stage with a natural number as its timing; its occurrences do not
exceed the bound up to which strikes are counted).

- `OccurrencesKept`: `AtMostOccurrences`. Inductive is `OccInv`: a queue holds faults of its
  own stage and none twice, and `_occurrence` and the strikes of a queued fault add up to
  the number in the file. That the queues are free of duplicates is needed so that
  `remove` takes the fault out altogether; that they hold their own stage's faults, so
  that no other queue has it.
- `TypeCorrect`: `TypeOK`, with the cores the counters know of (`Shape`).
- `CountersAgree`: `TotalsAgree`. Needed is that sums over finite sets, defined as folds,
  gain what one summand gains (the `Sum` lemmas).
- `ScansMissNothing`, `StrikesOnSchedule`: `HiddenByMissed`, `StruckOnSchedule`. Inductive is
  `ScheduleInv`: queues are in the order of the file's timings, although rescheduling
  changes a timing in place (`InOrder`); a fault nothing can hide has the timing of its next
  strike (`NextDue`); and its strikes are those due on the foremost clock of the threads it
  concerns, or one less while the hook of the instruction in progress has still to scan
  (`OnTime`).

**FaultFile_proofs** (`FileAssumption`: the lines of the files are well formed) has the
lemmas on the reader: what `GetAll` extracts from the tokens of a line, that the constructor
makes the fault of it, and that the words of a line whose class the reader does not know
are passed over one by one without being taken for a class.

**Effects_proofs** (also `ManifestAssumption`: bytes and words are not empty, and
`EffectsAssumption`: a word has two bytes at least, the opcode is within an instruction,
the instruction set gives every opcode two sequences of registers).

- `FlipOneBit`, `FlipOutside`, `FlipTwice`: for any width, `FLIP` inverts the one bit it
  names, nothing when that is 0 or beyond the structure, and is its own inverse.
- `CacheSound`: `DecodesAsFetched`, and an instruction that no decode fault has struck is
  cached as `decodeInst` made it. Inductive with `CacheShape`: a decoded instruction has its
  page, and every cached instruction its count of strikes.
- `EveryFileRead`: `ReadsAsWritten`, by `ReaderInv`: before each round of the loop, what is
  left in the stream are the tokens from some line on, or words of an unknown line and
  then those, and the faults made are the ones meant by the lines before.
- `TypeCorrect`, `ContextAlwaysRead`: `TypeOK` and `ContextWasRead`, by `ExecInv` (the state of
  the processor) and `QueueInv` (every fault in a queue came from a well-formed line, and
  one whose context was not read strikes once).
- `StrikesManifest`: `Manifested`. What `manifest` does bit by bit is derived for each
  of its four operations and for each pairing of bytes; `QueueInv` supplies that the bit
  number of a fault was moved into the structure at most by an earlier strike.

**DecodeCache_proofs**: `DamageBounded`, `KindsPreserved` for `DamageContained` and
`RegisterKindKept`. Inductive is `KeptInv`, which adds that cached instructions have the
number of operands the instruction set gives them (`MapInv`): a strike then alters
a position that exists.

**Campaign_proofs** (`CampaignAssumption`: finitely many workers; the lists name every
experiment once).

- `TakenOnce`: `AtMostOnce`, with any number of workers and crashes. Inductive is `TakeInv`:
  whoever is between `lockfile` and `rm -f` is the lock's holder (`Mutex`), each list is a
  prefix of the original one, what is listed nobody holds and no result has, and what a
  worker is about to take is the line after those it leaves (`Lines`).
- `TypeCorrect`: `TypeOK`.
- `OneSpoiltPerCrash`: `OwnOutput`. Each crash pays for one worker whose next result may
  carry another's output (`Spoilt`), until it is stored (`OutputInv`).
- `OneLostPerCrash`: `Accounted`. The lost experiments are no more than the crashes; a
  rename loses nothing, as what is left and what is taken make up the list (`LossInv`).
- `FaultFreeRuns`: `EmptyRunsBounded`. Each worker has one chance per file to come too
  late, each crash gives it another, and whoever takes the last line gives up its own;
  runs and chances left are within that number (`EmptyInv`).

**TrainingData_proofs** (`TrainingAssumption`, described above; the shared statistic,
`sim_seconds`, is not skipped and is a number).

- `NoKeyError`: `HeadingComplete`. The argument is that the shared statistic is in every
  row, so `one_stat` and `common_features` are empty only while there are no rows, and the
  test for emptiness never restarts an intersection (`Covers`, `HeadingInv`).
- `LabelsRight`: `LabelsCurrent`, because once the processor runs every simulation has
  ended or outlived its timeout, and only the latter write (`LabelInv`).
- `NoSectionLost`: `NothingLost`. Inductive is `ScanInv`: after each line `skipped_warmup` and
  `remove_this_input` say whether a section has ended and whether a line was broken since,
  `feat` and `feature_str` are those of the lines of the section so far, and each whole
  section before has its text in the hash or follows a broken line. That no statistic is
  there twice is needed: `feat` would keep the last value only.
- `RowsFromSections`, `RowsAllDistinct`: `RowsAreSections`, `RowsDistinct`. Inductive is
  `RowInv`: each row is a section, of its file as it was read, whose text the hash has. A row
  with the same features would come of a section with the same statistics, thus, by
  `SameOrder`, with the same text. What is on disk when rows are looked at is longer than
  what was read, hence the need that files only grow.
- `CorrectRunsFirst`: `CorrectFirst`. Inductive is `FirstInv`: a correct run is complete and
  stays so; it is to be read, being read, or the texts of its sections are in the hash;
  another directory is read only when none of the former two is left; so a row of
  such a directory has the statistics of no section of a correct run.
- `TypeCorrect`: `TypeOK`.

Inductions over data (the length of a list, the tokens of a file, the elements of a sum)
are carried out without an induction theorem: `NatMin`, that a set of numbers has a least
one, gives `UpTo`, which a lemma applies to the set of numbers for which it holds.

Model-checked only: liveness (`ResetTerminates`, `InstructionCompletes`, `AllRun`,
`SurvivorsFinish`, `Finishes`), because it needs fairness and `ENABLED`, which are beyond
the provers; and that the five violated properties are violated. Every safety
property of a passing run is proved.

## Not modelled

The repository contains all of gem5 and MiBench, generated output and a MATLAB library,
more than a million lines, of which these models cover some two thousand: those that were
written or changed for fault injection and decide something. Left out are:

- gem5 itself (pipelines, caches, devices, ISA descriptions) and MiBench: third-party
  code. The squashing of counted instructions by the out-of-order pipeline would need
  a model of that pipeline.
- Memory faults (`fi/mem_injfault.cc`): not compiled.
- `get_Pc_address`, `rename_ckpt`, dump routines, `print_time`: output only.
- `OpCodeInjectedFault::process`, `AND`, `OR`: never called.
- The generator's random distributions and its dialogue; `data_analyzer.py` and the input
  scripts of `qsort`: one-shot file I/O.
- `machine_learning/`: floating-point numerics, out of TLC's reach.
- `scritps/run.sh`: not valid shell.
- Where the lock file's directory is mounted, and the delivery of `time.sh`'s signals.

## Possible extensions

1. A composition of `FiSystem` and `Injection`, in which threads pause and stop while
   their instructions are counted.
2. A schedule in `Effects`, so that faults strike only when `Injection` lets them.
