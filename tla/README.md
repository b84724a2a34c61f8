# itb-c: a verification project in TLA+

itb-c is a thin C binding over libitb3, a Go library that encrypts messages
and streams through *Pipeline* handles. Next to the binding the repository
holds `loop`, a multi-threaded stress harness over shared handles, and
`eitb`, a command line tool. libitb3 itself is not in the repository. This
project models the binding and the harness, checks them with TLC and proves
the properties that matter most with TLAPS.

Paths below are relative to the repository. In `PROJECT.json` they carry the
prefix `src/`.

## The system

| component | code | state it keeps | operations |
|---|---|---|---|
| pipeline calls | `src/itb_pipeline.c`, `src/internal.h` | an `itb_pipeline` per open session; heap blocks during a call | init, init_keys, load, load_f, free, save, save_f, max_workers, rekey, encrypt/decrypt message and one-shot stream, inspect, register, lookup, profiles, hash_names |
| stream sessions | `src/itb_stream.c` | an `itb_stream`; scratch buffer and accumulator of the pump | begin, write, end, read, free; whole-buffer pump |
| diagnostics | `src/itb_status.c` | an inline buffer per thread, a wide block in a pthread key | `itb_last_error` |
| knobs | `src/itb_status.c` | none | version, DRBG tier, memory limit, GC, pool statistics |
| opts builder | `src/itb_opts.c` | a growing query string | new, set, query, free |
| harness: run | `loop/main.c`, `loop/worker.c`, `loop/ops.c` | two shared handles, two retained blobs, a rwlock, two barriers, a stop flag, counters | warmup, round trips, rekey, blob reopen, stop, verdict |
| harness: start | `loop/main.c` | the configuration, the Go runtime it shapes | parse and validate the command line, memory limit, GC, processors, narrow the shape, build the pipelines, report the runtime |
| harness: plaintexts | `loop/payload.c` | a generator and a buffer per worker | seed, fill, refill |
| sizes | `loop/size.c` | none | parse and render sizes and durations |
| summary | `loop/summary.c` | two snapshots of the library's pool counters | difference, report, verdict |
| eitb | `eitb/eitb.c` | none beyond its files | encrypt, decrypt, profiles, version |

The parts meet in six places.

* The harness' workers share handles under a rwlock: a round trip (encrypt,
  decrypt, compare) holds the read side, maintenance (rekey, reopen from the
  retained blob) the write side.
* Main and the workers meet at two barriers around the warmup and then through
  an atomic stop flag and a counter under a mutex.
* The start of the harness hands the run its shape and its handles: which
  surfaces the workers will call, and which handles serve them, is decided by
  flags, profile and narrowing together.
* The binding calls libitb3 with buffers whose size it must guess, and asks a
  second time when the guess was too small; other threads may change the
  answer in between.
* The diagnostic of a failure is one string for the whole process, which
  `itb_last_error` copies in one or two calls.
* The two commands of `eitb` meet in their files and in the blob that one
  prints and the other is given.

What is hard to test here: the order of round trips and maintenance; a failed
warmup with everybody else at a barrier; a signal or a deadline landing
anywhere; a rotation that fails after the first of two handles; an allocation
that fails between two attempts; a chain that breaks late in a stream; a
message recorded between the two fetches; a sum of lengths that wraps; a file
whose data is lost when it is closed; a flag that asks a profile for a layer
it leaves unnamed. `PROJECT.json` lists these hazards line by line with the
properties that cover them.

What makes each part correct:

* harness, run: no call is in flight on a handle that is closed or being
  rekeyed; an encrypt and its decrypt see the same keying; the retained blob
  opens to the keying in force; the run ends, with baselines and elapsed time
  taken at the right moments, and PASS only when all the work was done;
* harness, start: the surfaces the workers call are served, a layer that is
  asked for is supplied, the environment stands unless a flag says otherwise;
* plaintexts, figures: a crossover or a stale answer shows in the data, and
  the pool figures are those of the main loop;
* conversions: a text means what its grammar says, within the rounding of
  doubles;
* pipeline calls: what is handed out is whole, under its own length and of the
  time of the call; nothing is leaked or released twice; no session stays open
  without an owner;
* stream pump: the complete output or nothing;
* opts builder: the query reads back as the pairs that were accepted;
* diagnostics: never an old text, one wide block per thread;
* eitb: exit code 0 means that the whole wire was written, whose blob opens it
  if it was read off the terminal, or that the whole text was restored.

## Modules

| module | role |
|---|---|
| `SharedHandle` | abstract contract of a handle shared by threads: calls only on live handles, rotation and release only without calls in flight |
| `LoopRun` | the harness' run: main, workers, maintenance, signals |
| `LoopRunProofs` | type correctness, lock, inductive invariant, handle and round-trip safety; `LoopRun` implements `SharedHandle`; open handles and retained blobs |
| `LoopVerdictProofs` | measurement and the meaning of PASS |
| `Startup`, `MCStartup` | the harness' start: command line, runtime, pipelines, runtime figures; the command lines for TLC |
| `StartupProofs` | its invariants and its action property, for any catalogue of profiles, command line and environment |
| `Payload` | the plaintexts of the workers |
| `Sizes` | sizes and durations, with reference grammars |
| `PoolFigures` | pool counters from the snapshots to the report |
| `HarnessProofs` | proofs about `Payload`, `PoolFigures` and the sizes of `Sizes` |
| `PipelineCalls`, `PipelineCallsProofs` | the retry-once calls of the binding, init, load and free, under concurrent callers and failing allocations; its invariants for any number of them |
| `MCCalls` | the symmetry of the callers for TLC |
| `OutCap` | the capacity of a first attempt |
| `WholeBuffer` | abstract whole-buffer call: the complete output or a failure |
| `StreamPump` | both pumps over a session whose chain runs on its own; implements `WholeBuffer` |
| `StreamPumpProofs` | the refinement, step by step, and the invariants of the pumps |
| `LastError` | `itb_last_error` over a process-global message |
| `OptsBuilder` | the builder of the opts string over blocks of bytes |
| `BindingProofs` | proofs about `LastError`, `OptsBuilder` and `OutCap` |
| `MCParts` | `LastError`, `OptsBuilder`, `OutCap`, `Sizes`, `Payload` and `PoolFigures` side by side for TLC |
| `Eitb`, `MCEitb` | runs of the command line tool over the same files; the blobs for TLC |
| `EitbProofs` | its invariants |

A definition called `Name_Something` next to `Name`, introduced by "Mutant:",
is `Name` with a plausible bug; no specification uses it. It documents which
bug the properties would catch.

`MCParts` puts modules that have no variable in common next to each other. A
variable `part`, chosen at the start, says which of them moves;
as a step of one can neither enable nor disable a step of another, and no
property reads the variables of two, the interleavings left out add nothing.

### LoopRun

A step is one thread's code between two points another thread can notice: a
lock or barrier operation, the start and the return of a library call, an
access to a shared variable. Maintained state:

* `gen`, `live`, `keying`, `blob`: the pipe variables are generations of
  handles, `live` the handles libitb3 holds open, `keying` and `blob` name
  masters by who drew them in which iteration (an iteration rotates once, so
  the pair is unique);
* `readers`, `writer`: the rwlock of default kind, which lets readers pass
  waiting writers;
* `pc`, `iter`, `wire`, `todo`, `failed`, `iters` of each worker, where
  `wire` is the keying of its last encrypt and `todo` the pipes a
  maintenance section has yet to visit; `rekeys` and `cycles` count what
  maintenance has done;
* `arrived`: the threads at each barrier; `stop`, `active`, `finish`: as in
  `run_state`; `finish` says whether `finish_ns` holds its initial value or
  the stamp of the last worker;
* `mpc`, `signal_seen`, `expired`, `exit` of main.

`iterate` is `Refill` to `RdUnlock`, `worker_main` is `WarmupArrive` to
`WorkerDone`, `rekey_pipes` and `blob_cycle_pipes` are `Maintain` to
`WrUnlock`, `run` is `BuildPipeline` to `Return`. Every failing branch is an
action or a disjunct, enabled by the constant `Faults`. `DataMismatch` ends
the process at once, like `_Exit(3)`.

The library is the environment: a call may fail when `Faults` allows, a
decrypt must fail when the keying has changed since the encrypt, and a rekey
that fails may have rotated the handle first (see `PipelineCalls`).

### Startup

`ParseArg` is a turn of the argument loop, `ParseFlags` the checks after it,
up to the narrowing of the shape to what the profile's mode exposes;
`MemLimit`, `Gogc` and `Procs` are the three setters, `Options` and
`InitAndSave` the building of one pipeline, `Run` stands for the run that
`LoopRun` models, `Summary` for the runtime figures, whose queries are calls
of the same setters. `raw` keeps the token of every flag; `IntOf`, `SizeOf`
and `DurationOf` say what well-formed tokens mean (how they are read is
`Sizes`). A profile is its mode and which optional keys its JSON text names,
which is all the code looks for. `CatalogueAssumption` is what the code takes
for granted of the profiles of libitb3, also those another program registers:
the two default profiles serve their surface and name every layer, and a
profile with a palette has a segment size. The last is the premise of
`loop/main.c:420-422`, which looks for a segment size only where no palette is.
`runtime` is what the Go runtime has in force, `env` what the process was
started with.

`Accepts` is what the repository tells of the refusals of `Init`: an unknown
hash, MAC or DRBG (`tests/test_errors.c:44-51`, 132-142), the wide interlock
with a hash of less than 512 bits (`README.md:102`, `tests/test_persist.c:348-356`),
and a layer without what it is made of (`loop/main.c:386-393`). libitb3 may know
others, which `Faults` stands for. `LayersSupplied` therefore speaks of the
query when `Init` is entered and not of the answer.

### Payload, PoolFigures, Sizes

`Payload` keeps the generator, the buffer and the number of fills of every
worker, and `used`, the plaintexts given to `encrypt`. Widths are scaled down:
a word has two bytes of eight values, and the finaliser of splitmix64, of
which only that it is a permutation matters here, is a small one. Bytes of the
CSPRNG carry the number of the fill that drew them, so that a byte left over
shows. `SpreadAssumption` is what makes an increment good: its multiples stay
further from 0 modulo the word than there are workers. It holds of the source:
by the continued fraction of 0x9E3779B97F4A7C15 / 2^64, no multiple before the
1018231460777725123rd comes closer to 0 than 18, and `LOOP_MAX_WORKERS` is 10,
so a run keeps it until a worker has drawn 8 * 10^18 bytes.

`PoolFigures` lays out the slots of a snapshot as the library does
(`LibSlots`), takes the two snapshots, each of which may fail, and computes
the report from them by the offsets of `pool_delta`. `done` records what the
main loop really did. `FiguresAreWork` says what a report holds for each of the
snapshots that was lost, too: without the baseline everything since the library
was loaded, without the second one no tier. Of the byte pools of the latter
nothing is said: `pool_diff` takes them from slots of the baseline that hold
something else.

`Sizes` computes `parse_size`, `parse_duration` and `human_duration` on texts
of single characters and compares them with grammars written independently
(`SizeMeanings`, `IsDuration`, `Meaning`). The integer type, the factors 1024,
60 and 60 and the thousand are scaled down. A double is a mantissa of
`Precision` bits (53 in the code) and an exponent: the literal, its product with
the unit and every sum are rounded to nearest, ties to even (`Rounded`, `Times`,
`Plus`), the total is compared and cut after that. `StrToD` reads what `strtod`
does after a digit or a point: decimal numbers with an exponent, and hexadecimal
ones. Signs in exponents and binary exponents are left out. `DurationMeansText`
allows the result to differ from the meaning by what these roundings add up to
(`Slack`), and not at all for whole numbers within `Precision` bits: with 53 of
them, durations up to 104 days.

### PipelineCalls

`call[c]` is what thread `c` is doing: the entry, the handle, the size `n`
libitb3 last reported, the size `buf` of the block, `held` blocks not yet
released, the state of the out-parameters; `wrote` and `from` are the length and
the version of what is really in the block. Sizes are counted in units; `Cap`
stands for `ITB_BLOB_CAP` or the guess of `itb_internal_out_cap`, which
`OutCap` models on its own. `Accept`, `Alloc`, `First`, `Grow`/`NoRetry`,
`Second`, `Finish` and `Tail` are the statements of `buf_call`, `cipher_call`
and their callers in order. The length of the profile records stands for
their version, since records are only added. `masters` counts the rotations of
a session and is the version of its blob, whose size (`size`) may be another
after each. The application keeps the rules of the header (`Apart`): no cipher
call beside a rekey of its handle, nothing beside a free. Saves and rotations of
several threads do run beside one another, and between the two attempts of one.

### StreamPump

The session is a chain with an asynchronous producer: `ChainProduces` moves
one unit of output into the spool, `ChainBreaks` makes every later call
fail. Units of output are the units of input, in order, with a final unit
after an encryption, so that a lost, repeated or stale unit shows. `Enough` is
the set of capacities the doubling of the accumulator passes that would do. `reuse`,
chosen at the start, selects between the pump of the binding and the one of
the harness, whose accumulator outlives the call.

### LastError

A message is the number of the failure that recorded it and a size. `First`
and `Second` are the two calls of `ITB_LastError`; the destructor of the
pthread key is part of `Exit`.

### OptsBuilder

`blocks` is every block the builder ever had, byte by byte, with whether it is
still allocated; `buf`, `len` and `cap` are the fields of the builder. A `size_t`
has `Width` bits and its sums wrap. `Set` is the whole of `itb_opts_set`:
lengths, guard, growth by doubling with the wipe of the old block, and the
encoding. `Enough` are the capacities the doubling loop passes that would do,
none when it gives up; `Grown` is the first. `pairs` records what was accepted,
and `Decode` reads a query the way a parser of it would: cut at `&`, each piece
cut at `=`, each half unescaped. A piece is what lies between two neighbours
among the `Bounds` of a text.

`OptsAssumption` states the condition under which the guard at
`src/itb_opts.c:92` sees every sum that wraps: no string may encode to within
three bytes of the whole address space. That is true of every string a process
can hold next to anything else, and the guard is not exact without it.

### Eitb

A run of the tool is `Parse` to `Finish`: `read_file` (`Open` to `ReadEnd`), the
pipeline, the cipher call, `write_file` (`MakeParents`, `Create`, `Write`), and for
encrypt the blob. `files` outlives the runs; `sessions` is what libitb3 ever
opened and `printed` the hex texts that arrived at the terminal. `heap` counts
the buffers, the pipeline and the file a run holds. Each command derives its
pair of calls from the profile name it is given (`Surface`); a name that says
streaming may belong to a profile without those calls (`Served`), or the two
commands may be given names of different kinds. A wire is opened only by its own
session through the pair of calls it was made with.

`Blobs` gives every session its blob, any sequence of bytes; no two are alike.
What `decrypt` is handed are the printed texts, in small or capital digits, cut
short or not hex at all. The results of printing are not looked at
(`eitb/eitb.c:251-254`), so `PrintBlob` may lose any of the bytes and the run goes
on to exit code 0.

## Runs

| run | instance | what it shows |
|---|---|---|
| `loop_faults` | 2 workers, both handles, 4 iterations, a rekey after each, a reopen after every second, every failure, a signal | the inductive invariant, handle and round-trip safety, blobs, open handles, measurement, the verdict; refinement of `SharedHandle` |
| `loop_duration` | 2 workers, duration mode, a rekey and a reopen in every iteration, failures and a signal, fair | `Terminates` |
| `loop_signal` | 2 workers, rotating payload, no failures, a signal | violated: finding 1 |
| `calls_runs` | 2 threads, 1 handle, every entry, 2 rotations, failing allocations | results whole, under their own length and of the time of the call, `BUFFER_TOO_SMALL` absorbed, no leak, no orphan session |
| `calls_out_params` | 1 thread | violated: finding 2 |
| `pump_runs` | both pumps, inputs up to 5 units, slices of 2, `SIZE_MAX` 7, 2 calls, fair | refines `WholeBuffer`, no leak, copies in bounds, every call returns |
| `fetch_lost` | 2 threads, 3 failures, memory at hand | violated: finding 3 |
| `parts` | 2 threads, 3 failures, messages of 3 sizes; a `size_t` of 5 bits and up to 3 pairs; every payload of an 8-bit `size_t`; every text of up to 5 characters, doubles of 10 bits; 3 workers, 4 seeds, 3 fills; libraries of 0 to 3 tiers, 2 of which fit, lost snapshots | one block per thread, never a stale text; the query means the pairs, inside its block, and leaves nothing behind; the capacity is sound; conversions mean their text, plaintexts are distinct and drawn whole, figures are the work of the main loop |
| `eitb_runs` | 3 runs over 2 files with any call failing, 3 profile names, blobs of 1 and 2 bytes, fair | exit code 0 means the whole wire, its blob printed unless the print failed, or the text restored; nothing kept, no other file touched, every run ends |
| `eitb_print` | the same | violated: finding 5 |
| `startup_lines` | every command line of up to 3 of the arguments in `MCStartup`, 6 profiles, 4 environments | surfaces served, layers supplied, the environment stands, the runtime shaped before any pipeline |
| `startup_memory` | 1 argument, failing allocations | violated: finding 4 |

Why the bounds are enough.

* `loop_faults`: two workers let one read while the other waits to write and
  the reverse; a third would only repeat one of the two roles, and the proofs
  below hold for any number. Four iterations make `both` go through all three
  surfaces and back, with a rekey every iteration and a reopen every second
  one, so both orders of the two maintenances occur.
* `calls_runs`: records of up to 3 units with a first guess of 1 exercise a
  first attempt that fits, one that does not, and a second attempt that no
  longer does because the other thread registered a record or rotated the
  session. With two rotations both attempts of a rekey may rotate, or one attempt
  and the other thread. The proofs hold for any number of threads and handles.
* `pump_runs`: 5 units in slices of 2 have full slices, a short last one and an
  empty input; the accumulator must grow twice, and with `SIZE_MAX` 7 the
  second growth is refused.
* `parts`: three message sizes give one inline and two wide ones, of
  which the larger does not fit the size asked for by the smaller. The strings
  hold every unsafe character, one text that looks like an escape already, and
  one so long that two of it wrap a sum in five bits. Five characters hold a
  number, a fraction and a unit, or two short pieces. With 10 bits a double
  has 1024 whole numbers below the first rounded one, and texts of five
  characters reach numbers of four digits, sums on both sides of `DurationMax`
  and values that round upwards, downwards and to the even neighbour; seed 62
  makes `seed + id + 1` wrap; a library with one tier more than fits is among
  the libraries.
* `eitb_runs`: three runs are an encrypt, another one over the same file, and a
  decrypt with the blob of either; a text of 2 bytes with a first capacity of
  2 ends where the buffer is full, and `SIZE_MAX` 7 refuses the second doubling.
  A blob of two bytes, both with two different nibbles, tells the orders of bytes
  and of nibbles apart.
* `startup_lines`: a flag interacts with the profile and with one other flag
  (shape with profile, memory limit with workers, interlock with hash); three
  arguments hold each such pair and a repeated flag.

`MaxIter`, `MaxSize`, `MaxRekey`, `MaxInput`, `MaxCalls`, `MaxFailures`,
`MaxSets`, `MaxLen`, `MaxPrinted`, `MaxFills`, `MaxWork`, `MaxRuns` and
`MaxArgs` exist only to bound the models. In duration mode a worker that has
spent `MaxIter` waits for the stop, which the deadline brings.

Fairness. `LoopRun!FairSpec` assumes that each worker and main keep running
when they can (threads are scheduled, library calls and `getrandom` return)
and that time passes; no failure and no signal is owed. `StreamPump!FairSpec`
assumes that the calling thread runs and that the chain works on what it was
given, `Eitb!FairSpec` that the process is scheduled and its calls return; the
next run of the tool is not owed. Weak fairness of a worker that waits for
the write lock is not contested for ever: readers come back only through the
head of a loop with a budget or a stop, so writers get in within the bound; a
real rwlock that starves a writer in duration mode delays maintenance but the
deadline still stops the readers.

## Findings

1. `loop/main.c:643-646` promises that a signal interrupts nothing mid-call
   and that the run ends with the verdict its iterations earned. Handlers are
   installed without `SA_RESTART`, and `fill_random` (`loop/payload.c:73`)
   treats a `getrandom` that returns -1 with `EINTR` as a failed CSPRNG, so
   with a rotating payload a signal can end the run with FAIL
   (`loop_signal`).
2. `include/itb3.h:44-45` promises NULL / 0 out-parameters on every non-OK
   return. `itb_pipeline_save` and the cipher calls return before clearing
   the one when the other is NULL (`calls_out_params`).
3. `include/itb3.h:326-329` reserves the empty string for "no diagnostic".
   `itb_last_error` gives up after its second call, and returns it also when
   another thread recorded a longer message in between (`fetch_lost`).
4. `loop/main.c:740-741` builds a pipeline "with every flag-carried override in
   the opts string". The results of `itb_opts_set` are ignored (756-770), so a
   set that runs out of memory leaves its override out and the run goes on
   with the profile's own value, which the summary reports as the flag's
   (`startup_memory`).
5. `eitb/eitb.c:11-12` says that `encrypt` prints the session blob to stderr as
   hex, to be fed back to `decrypt`. The results of `fprintf` are not looked at
   (251-254): when the print fails, the tool releases the only blob that opens the
   file it wrote, and exits with 0 (`eitb_print`).

Seen while modelling, and kept in the models as the code has it:

* `eitb` releases the pipeline before it fetches the diagnostic of the failed
  call (`eitb/eitb.c:237-238`, 248-249, 330-331), where the header asks for the
  fetch right after the failing call (`include/itb3.h:45-47`). Harmless as long
  as a release records no diagnostic.
* `--hash ,` passes for a registered name: the quoted comma is found between
  any two names of the array (`loop/main.c:369-371`, against 360-362). libitb3
  then refuses it.
* `parse_duration` reads its numbers with `strtod` (`loop/size.c:105`), which takes
  an exponent and, after `0x`, hexadecimal digits: `1e3s` and `0x5s` are durations,
  although they are not "a sequence of decimal numbers each followed by a unit"
  (83-86). `DurationMeansText` says nothing of texts with these marks but that they
  stay in range.
* It adds and cuts doubles (`loop/size.c:123`, 128): "2.01s" becomes
  2009999999 ns, "1.9999999999999999999ns" 2 ns, and whole numbers above 2^53 are
  rounded before they are compared with the limit (125).
* A snapshot of the pools that fails is reported as if it had been taken
  (`loop/main.c:946`, 983): the results of `pool_snapshot_take` are ignored. A lost
  baseline puts the warmup into the figures; a lost second snapshot leaves a report
  without tiers whose byte pools are differences with slots of the baseline.
* Seeded plaintexts shorter than a word of the generator need not be distinct,
  against `loop/payload.c:48-50`: with `--payload-size 1` one byte of the first
  word is all there is. `PlaintextsDistinct` therefore speaks of a word or more.
* A failing `pthread_key_create` goes unnoticed (`src/itb_status.c:52`).
* A worker's error text may be another worker's (`loop/worker.c:230`), since
  the diagnostic is one for the process; the header says so.

## Proofs

TLAPS checks every theorem below from the assumption of its module alone.

**The harness** (`LoopRun`), for every number of workers, every shape,
interval and set of failures:

* `TypeCorrect`, `LockCorrect`, `Inductive`, `HandleSafe`, `RoundTripSafe`: a
  writer is alone, no call is in flight on a closed or rotating handle, no
  rotation falls between an encrypt and its decrypt;
* `RefinesContract`: every step of the harness is a step of `SharedHandle` or
  leaves its variables alone;
* `OneHandlePerPipeHolds`, `BlobMatchesLiveHolds`: reopens and rotations lose
  and duplicate no handle, and the retained blob follows the keying;
* `MeasuresMainLoopHolds`: baselines and elapsed time are of the main loop;
* `PassIsComplete`: PASS means every iteration, rotation and reopen that was
  owed.

The argument. `HandleSafety` is not inductive: that a call's handle stays
open depends on nobody freeing it, hence on the lock, hence on who is where.
`IndInv` adds `LockInv` (program counters against holders), `CallInv` (a call
in flight is on the handle its pipe variable points to now, and belongs to a
worker inside a cipher call), `MaintenanceInv` (a reopen has its fresh handle
before it gives up the old one), `StageInv` (workers exist only between the
building and the freeing of the handles) and `LiveInv` (a pipe variable
dangles only between the free and the swap of a reopen). The step theorem
goes through the actions one by one: lock actions first, then the actions
that touch handles, with the observation that a writer's section excludes
every reader and therefore every call.

On top of it, each of the other invariants has its own strengthening.
`ExactInv` says exactly which handles are open at each point of a reopen, and
needs `EarlyInv` (no worker is past the warmup while main may still fail to
create one). `KeyInv` says how far a rotation has come: the pipes already
visited carry the new masters, the others still agree among themselves.
`WarmInv` ties a worker's place before the release to its count of iterations;
`CountInv` says that `active` is the number of workers that have not returned.
For `PassMeansComplete` the totals are counted as pairs: `TallyInv` says that
`rekeys` is the cardinality of the set of pairs of a worker and an iteration
whose rotation is over, which grows by one pair at each rotation. When every
worker has returned, that set is the product of the workers and the multiples
of the interval, whose size follows from the cardinality of a product and a
bijection between the multiples and their quotients (`Multiples`,
`TallyTotal`). `PlaceInv` ties the place of a worker to what falls due in its
iteration, and `StopInv` says that only a failure or a signal stops a worker
early.

**The calls of the binding** (`PipelineCalls`), for any number of threads and
sessions, any first capacity and any failures of the allocator:
`ResultIsCurrent`, `BlobIsOfTheCall`, `TooSmallIsGrowth`, `NothingLeaks`,
`NoSessionOrphaned`. All five follow from `CallsInv`. `Shape` and `Blocks` say
what a call is and holds at each of its places; `Answer` and `Keyed` what the
last answer of libitb3 still means: a size of a record is between the one at
entry and the one now, a size of a blob is the one the session has unless it was
rotated since the call began, the block of a second attempt is as large as was
asked for, and what is in it is of the time of the call. Both survive what the
other threads do because records are only added and rotations only counted
upwards; that the session is not released under a call is `UseInv`.
`FlightInv` gives every open session
exactly one owner, a pipe of the application or one call under way, which is
what makes a release by one thread harmless to the others. Steps that stay on
their session, steps that open one and steps that hand one out are three
lemmas (`StayStep`, `OpenStep`, `HandOutStep`); each action is reduced to one of
them.

**The stream pumps** (`StreamPump`), for inputs, slices and a `size_t` of any
size, any number of calls, any pace of the chain and every failure:
`PumpKeepsPromise` (both pumps implement `WholeBuffer`), `PumpLeaksNothing`,
`PumpStaysInBlocks`. A returned call has the complete output because of what
happened to every unit on the way: `FlowInv` says that what was fed is a first
part of the input, that what was spooled can be produced from it and what was
taken was spooled; `TakenInv` that the accumulator, with the chunk behind it
while an append is under way, is the first `taken` units of the output;
`HeldInv` what the call owns at each place. Units are given by their position
(`Units`, `Stretch`), so that appending a chunk is a lemma about
concatenation, not an induction. The refinement maps the beginning
of a call, its return and `Done` to the steps of `WholeBuffer` and every other
step to a stutter.

**The diagnostic** (`LastError`), for any threads, messages and failed
allocations: `OneWideBlockHolds`, `NeverStaleHolds`, from `BlockInv` (what a
thread owns at each place of a fetch) and `AgeInv` (the library's message is
the newest failure).

**The opts builder** (`OptsBuilder`), for every set of keys and values
`OptsAssumption` allows and any failures of the allocator: `OptsStayInBlock`,
`OptsWipeWhatTheyGiveUp` and `QueryMeansThePairs`. The first two follow from
`OptsInv`. It says of the block in use that
the string has no terminator before its end (`Holds`) and that behind it
there are only zeros and bytes never written, and of the others that they are
blank. That no wrapped sum slips through rests on two lemmas: an encoding has
at most three bytes a character, and a sum of three lengths that wraps is
smaller than one of them. The first is about `FlattenSeq`, which the library
defines by a recursive function: that the function exists, and the bound, are
proved by taking the least index at which either fails.

`QueryMeansThePairs` adds to `OptsInv` that the query so far, read back, is
the pairs accepted so far (`QueryInv`). Three facts about the reader carry the
step of `itb_opts_set`. An encoding contains neither separator, so the bounds
`Split` cuts at are those of the query before it and the ones the new pair
brings; the pieces, taken by the rank of their bounds, are then the old ones
followed by the new one, and no piece changes. No escape reaches across the
seam of two encodings, so unescaping goes piece by piece. And unescaping an
encoded character gives the character back, by the digits of its byte; for a
text of any length this is proved by its shortest counterexample.

**The capacity** (`OutCap`), for every width of `size_t` and every floor:
`CapIsSound`, that a sum which wrapped is never taken.

**The tool** (`Eitb`), for inputs of any length, any paths, any first capacity
and every failure: `EitbKeepsNothing`, `EitbTouchesOutputOnly`,
`EitbEncryptsRecoverably`, `EitbDecryptsWhole`, `EitbRecovers`. `HeapInv` gives
the resources held at each place as a function of the place and the command.
`ReadInv` says that the buffer is the stretch of the input that was read and
that the reading ends at its end unless it failed; `OutcomeInv` carries what
the cipher call was given and answered to the end of the run; `PrintedParses`
says that parsing undoes printing for every sequence of bytes, in small and
capital digits, so that different blobs are printed differently (`BlobTells`);
`RecoverInv` that a decrypt given its own blob and wire fails only by a
fault.

**The start of the harness** (`Startup`), for any catalogue of profiles that
meets `CatalogueAssumption`, any command line and environment:
`StartupServesSurfaces`, `StartupKeepsEnvironment`, `StartupSuppliesLayers` and
the action property `StartupShapesFirst`. `LineInv` says what the checks of
`parse_flags` leave true of the line; `RuntimeInv` follows the three limits of
the runtime through the setters; `BuiltInv` says that each pipe of the shape
is still to be built or was built once, against its profile; `QueryInv`,
where memory does not run out, that every pair the code wanted is in the
query when the library reads it. `FullQueryLayered` then goes through what
`fill_keystream_layers` adds for each kind of profile.

**The plaintexts** (`Payload`), for any number of workers, any seed, size and
number of fills: `PlaintextsAreDrawn` and, under `SpreadAssumption`,
`PlaintextsDiffer`. `DrawnInv` relates a buffer to the offset its fill has
reached; `SeededInv` says where the generator of each worker stands before
every fill, so that a plaintext is a function of its worker and its fill. Two
plaintexts differ in their first word: the finaliser is a permutation
(`FinaliseInjective`), and no two fills, of two workers or of one, start in the
same state of the generator, since the distance of two states is a multiple of the increment plus the
difference of two ids. The width of a word and the finaliser are the
model's; the argument uses nothing else of them.

**The sizes** (`Sizes`), for texts of any length and any widths:
`SizeMeansItsText`. The invariant (`SizeInv`) only says that the result is what
`parse_size` makes of the text; the work is in comparing two descriptions of a
text that proceed in opposite directions. The grammar places digits and suffix
anywhere in the text with spaces around them (`Reading`); the code trims,
capitalises and takes the suffix off the end (`Parts`). `ReadingIsParts` and
`PartsIsReading` translate one into the other position by position.
`SuffixIsFound` shows that of the suffixes that end in each other the code
finds the one the grammar means: no unit is "B" or "I", so the character before
a shorter match decides. A text therefore has at most one meaning, and
`TooLargeIsExact` shows that the guard on the product refuses exactly what does
not fit. That a text of digits has a value at all is again a least
counterexample (`NumberIsNat`).

**The pool figures** (`PoolFigures`), for any number of tiers and any work:
`FiguresAreTheWork`. `PoolInv` says that the first snapshot shows the counters
less what the main loop has added since, the second one those of its end. The
lemma `SlotsOfSnap` gives the slot the library writes each counter to and
`ReportIsWork` that `pool_diff` reads the same one, for a tier count the delta
has room for.

**Only model-checked.**

* `Terminates`, `Returns`, `Finishes`: liveness under fairness is beyond TLAPS.
* `DurationMeansText`, `PrintedMeansValue`: the reference meaning of a duration
  is a sum over the pieces of a text scaled by powers of ten, and the code's
  total a fold over the same pieces. That the two agree is an induction over
  the pieces, and the library has no fact about powers the provers could use.

Type invariants are stated where a proof needs them (`TypeOK` of `LoopRun` and
`LastError`, `CallsTypeOK`, and those at the head of the proof modules);
elsewhere the properties themselves would not evaluate on a value of the wrong
type.

## Not modelled

* libitb3 is outside the repository. Its answers are nondeterministic in every
  module, restricted by what the header promises. What an undersized or failed
  rekey leaves in the session is its decision; both outcomes are allowed.
* `itb_pipeline_save_f`, `itb_pipeline_max_workers`, the version getters, the
  DRBG tier and the heap profile: one relayed call each, no state.
* The incremental session entries called by an application in an order of its
  own: each relays one library call after a NULL check, and what a session
  answers to a wrong order is libitb3's. The order the pumps use is modelled.
* `human_bytes`, `human_rate`, `mb_per_sec`, the resident set and the layout of
  both summaries: figures of log lines. Of `strtod`, signed and binary exponents,
  infinities and the locale.
* `version`, `profiles` and the runtime caps of `eitb`.
* Tests, benches and build files, read as documentation.

## Plan

The modules were written in this order: the harness (`SharedHandle`,
`LoopRun`, `Startup`, `Payload`, `Sizes`, `PoolFigures`), the binding
(`PipelineCalls`, `OutCap`, `StreamPump`, `LastError`, `OptsBuilder`), the tool
(`Eitb`), and then the proofs. They leave no safety property of a run unproved
but `DurationMeansText` and `PrintedMeansValue`.

What a continuation could add:

1. `human_duration` without its texts: that the fields it prints add up to the
   value, by the arithmetic of quotients and remainders alone.
2. One lemma for the doubling of a capacity, shared by `StreamPump`, `Eitb` and
   `OptsBuilder`: it ends at the least capacity that will do and gives up
   exactly when none does.
