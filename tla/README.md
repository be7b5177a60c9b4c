# TLA+ models and proofs for syzkaller-rust

syzkaller-rust is a kernel fuzzer: a *manager* boots a VM under QEMU, talks to
the upstream `syz-executor` in it over a flatbuffers protocol, generates and
mutates programs of system calls, sends one at a time, learns from coverage,
hangs and crashes, and files what it finds under a work directory. *Repro
workers*, processes of their own, take the filed artifacts from a queue in that
directory and replay them. Which system calls there are, and of which types their
arguments are, it reads from syzkaller's descriptions.

This directory holds TLA+ modules of the parts of the program in which something
can go wrong over several steps, between several actors, or between several
computations of the same thing; the TLC runs that check them on small instances;
and TLAPS proofs of what matters most for any size. `PROJECT.json` lists
components, runs, theorems, hazards and, for each definition, the source lines it
stands for.

## The system

| component | state it keeps | operations | interacts with |
|---|---|---|---|
| manager (`manager.rs`) | the phase of `run`/`run_instance`, `total_attempts`, `total_execs`, the request in hand, blocked programs and shapes | load, boot, connect, pick, skip, send, receive, time out, look at the console, discard the VM, stop at `max_execs` | all of the following |
| corpus (`corpus.rs`) | programs, signal seen, signal not yet passed on; `corpus.json` | `add_result`, `take_new_signal`, `save`, `load` | manager; executor, by signal updates |
| timeout avoidance (`avoidance.rs`, parts of `manager.rs`) | failures and last failure epoch per syscall and edge, blocked sets, learning epoch; `avoidance.json` | note a failure, decay, compact, prune, save, load | manager; the table of choices |
| artifacts (`crash.rs`) | per artifact a directory with texts, `metadata.json` and `first_*` copies; `artifacts.json` | `detect_crash`, `save_crash`, `save_timeout`, `sync_artifact_catalog` | manager writes, workers scan; both rebuild the queue |
| repro queue (`crash.rs`) | `repro_queue.json`: per artifact attempts, last outcome, backoff, lease; a stored order | claim, release, requeue, attempt, rebuild | manager, workers, commands by hand, all through the file |
| repro worker (`repro.rs`) | the claim of this round, the replay attempts, their archives and results | sync, claim, restore the program, replay, classify, finish, file | queue, VM, executor |
| protocol (`protocol.rs`) | a TCP stream | framed messages, handshake | manager and worker |
| VM (`qemu.rs`, `ssh.rs`) | the QEMU process, the ssh process, a bounded buffer of console output filled by a thread | start, wait for SSH, copy, launch, is_running, kill | manager and worker |
| programs (`program.rs`, `fuzzer.rs`, `special.rs`) | none | reach, weigh, choose, generate, mutate, repair, validate, describe | manager; worker |
| encoding (`exec.rs`) | pages and copyout indices, per program | serialize | manager and worker; executor |
| descriptions (`description.rs`) | constants, sets, resources, types, numbers, visited files | parse, include, resolve | programs |
| targets, configuration, command line (`target.rs`, `config.rs`, `main.rs`) | none | load at start-up, dispatch | all |

What is hard about it:

* **Shared files without locks.** The manager, any number of workers and commands
  given by hand read, change and rewrite the same JSON files in place.
* **Leases against time.** A replay may outlast its lease, a worker may die with
  one, an operator may override one.
* **Derived state.** Blocked sets derive from counts that decay, are pruned when
  saved and come back after a restart.
* **Failure on every path.** A VM may crash, exit, hang or lose its link in every
  phase; files may fail to be read or written; the processes may be killed.
* **Implicit pairings.** An answer is taken for one to the request in hand without
  a comparison of ids; a recorded layout is found by its offset and size; a
  round's directory is named by a number read some time before.
* **The same thing computed twice.** The validator works out lengths, layouts and
  pointers again from the bytes that generation made piece by piece; the size of
  a field is inferred from that of the whole; the text of a program is parsed
  back; the executor reads what was written for it.
* **Positions that shift.** References name calls by their position, in programs
  that calls are inserted into, removed from and spliced into.
* **Order.** Definitions come in any order, in files that include each other.
* **Limits.** `max_execs` over all VMs, a generator that may only produce blocked
  programs, a bounded console buffer, a page per argument, weights of zero.

What makes each component correct: the manager pairs answers with requests, stays
within its limit, keeps the executor in step with the corpus, and does not lose a
crash; the corpus only grows, also on disk, and has a program for all its signal;
avoidance blocks exactly what the counts say, before and after a restart, and
releases nothing that has not been idle; the queue grants an artifact to one
holder at a time, counts every outcome of a holder whose lease is in force,
forgets no attempt and lets no artifact wait forever; the files end up complete
whatever races or dies, and lead readers to contents of one occurrence; a session
ends, leaves no process behind and reports the crash it saw; a program refers to
live results only, is valid however it was made, and arrives in the executor as
what it is; descriptions are loaded whole whatever their order.

## Modules

| module | models | composed with |
|---|---|---|
| `Avoidance`, `AvoidanceProofs` | timeout avoidance with its snapshot, across restarts | |
| `Corpus` | the operations on a corpus, as operators on a value | |
| `Manager`, `ManagerProofs` | `run` and `run_instance`, the guest, its console, the link, the disk | extends `Corpus` |
| `Session`, `SessionProofs` | a VM from start to end: SSH, connection, handshake, framing, a request, clean-up, for manager and worker | |
| `Console` (theorems in `SessionProofs`) | the bounded buffer of console output | |
| `Titles` (theorem in `ArtifactsProofs`) | how a crash is found, named, normalized and told apart | |
| `Artifacts`, `ArtifactsProofs` | the files of an artifact and its catalog entry across saves, syncs and kills | |
| `QueueEntries` | an entry, the stored order, each operation as a map on queues | |
| `ReproQueue`, `ReproQueueProofs` | the queue with workers, operators, the manager and time; operations are atomic | extends `QueueEntries` |
| `ReproQueueFiles`, `ReproQueueFilesProofs` | the same operations as loads, truncations and writes of three files by several processes | extends `QueueEntries`; implements `ReproQueue` |
| `ReproWorker`, `ReproWorkerProofs` | rounds of replays and what is filed of them | extends `QueueEntries` |
| `ProgramRefs`, `ProgramProofs` | references to results under generation and every mutation | |
| `Choice` (theorems in `ProgramProofs`) | reachable syscalls, the table of choices, the next call and the producers before it | |
| `Layout` | types, sizes, alignment, bitfields, fields of varying size, bytes of scalars | |
| `Lengths` | argument values and what a length tells of them | extends `Layout` |
| `Validation` | what the validator accepts | extends `Lengths` |
| `Resources` | what a syscall makes and needs, and whether generation can handle it | extends `Layout` |
| `Generation` | what generation may make of an argument | extends `Lengths` |
| `CallArgs` | the arguments of a call, generated, repaired and mutated | extends `Generation`, `Validation`, `Resources` |
| `ProgramText` | the text of a program and the program restored from it | extends `CallArgs` |
| `ExecFormat` | the encoding, and the executor reading it | extends `Lengths`, `Resources` |
| `Varint` (theorems in `ProgramProofs`) | the numbers of the encoding | |
| `Descriptions` | loading files and directories: constants, sets, resources, numbers of calls | |
| `TypeDefs` | resolving type definitions that refer to each other | |
| `Sample...` | the types, calls, tables and files that instances are made of | extend what they are samples for |
| `MC...` | the instances for TLC | extend or instantiate what they check |

Operators marked `mutant:` are deliberately wrong versions of the definition next
to them. They occur in no specification; putting one in place of the right
definition makes a property fail, which shows that the property depends on that
code.

`MCPrograms`, `MCArtifacts` and `MCDescriptions` each hold several instances that
share no state: a behaviour chooses its `part` at the start, only the variables of
that part change, and each property is about one part. Those that theorems state
(`RefsAreSound`, `RefsFollowTheirCalls`, `CallsAreFed`, `ChoiceNeverFails`,
`WordsReadBack`, `RecentCrashIsFound`, `TitlesAreStable`, `CatalogLeadsToFiles`,
`ResultsTellTheBest` and `RoundsAreOnRecord`) hold trivially of the other parts,
where their variables rest.

### Avoidance

One variable per map or set of the code; edges and syscalls are treated alike by
the code and are one function over `Kind` here. A program is a sequence of
syscalls (`Calls`), and with it its shape and its timeout-prone syscalls and edges
are given. `Fails` is a timeout or hang with all it does: the epoch is advanced,
failures and epochs noted, the blocked sets extended, the program and its shape
remembered, the snapshot saved or not. `Succeeds` is a successful execution with
`maybe_decay_avoidance`. `Start`, `Stop` and `InstanceFails` are the life of the
process around them. What survives a restart goes through `Compactions` (the copy
that is compacted and pruned when saved) and `Loaded`.

### Manager and Corpus

`pc` is the place in `run`/`run_instance`: `outer` is the loop in `run`, `booting`
everything up to the handshake, `top` the top of the fuzz loop, `waiting` the wait
for an answer. `Replace` and `GoOn` are the two checks at the top of the loop (the
VM has exited; every tenth execution the console is searched), `Skip` the four
blocks, `Send` `send_exec_request` with the counting of attempts, `Expire` the 15 s
timeout and the stall of executor retries, `RecvFails` any other read error, and
`Receive` the whole of the `ExecResult` branch: a hang is learned from, new signal
goes to the corpus, the executor and the disk, a report in the output is saved,
the limit is checked. Every `return` and every `Err` of `run_instance` ends in the
VM being dropped, which is `Discard`. Generation, mutation and choice of the
program are an arbitrary program. Of avoidance the manager module keeps the
outcome only: which programs are refused, in memory (`remembered`) and across a
restart (`avoided`).

The guest answers requests in any way, with any signal, absorbs signal updates
before later requests or not, crashes (with a report on its console), exits, and
loses its link. These definitions are marked external: they are modelled from how
the manager uses them.

### Session and Console

`Session` follows one VM step by step: `StartVm`, `SshReady`, `Copy`, `Launch`,
`Accept`, the five messages of the handshake, the request, and the loop that
alternates a look at the console and at the deadlines (`Check`) with reads. Any of
the sends may fail instead (`SendFails`): because the executor is gone, or because
nothing is taken for the write timeout; the error goes up and the VM is dropped. A
message is its size and then its body; `ReadPart` is `recv_raw`, which may be cut
by a read timeout between the two. `job` says whose session it is (the worker
turns its ssh process into a guard only after the handshake, the manager at once),
what is replayed, and whether the link may stall in the middle of a message. Time
counts read timeouts of 5 s. The executor at the other end may be slow, talk
without end, die, or its guest panic, with the report reaching the console's
reader some time later.

`Console` keeps of the buffer its first and last byte and where the line of a crash
lies in it.

### Titles and Artifacts

`Titles` has the patterns of `detect_crash` by name, with priorities and
exclusions, as sets of the needles a line contains, the marks (times, levels, task
ids) of which some are stripped, and `normalize_summary` on words of characters;
`MinNumber` and `MinHex` stand for the three decimal and eight hexadecimal digits
in a row that are replaced (`crash.rs:650`, `661`), and are 2 and 4 in the
instance. A hash is the text that goes into it: that two texts have the same one
is left out.

`Artifacts` writes one file of an artifact after the other (`Steps`), then the
metadata, the copies of the first occurrence and the catalog entry; each file is
truncated and then filled, and a kill or an error may end the save in between.
`Sync` makes the entry again from what it finds.

### QueueEntries, ReproQueue, ReproQueueFiles, ReproWorker

A deadline in the code is a time that is compared with the clock; here it is the
time left, lowered by `Tick`. The stored order is kept, because `claim` takes the
first claimable entry *in the order of the file*, which was sorted when it was last
written; ties after the type of the artifact are left open. `Rebuilt`, `Offered`,
`Claimed`, `Finished` and `Freed` are the operations as maps from the loaded queue
to the queues that may be written; `Summary` and `Peeked` are what `status` and
`peek` show.

`ReproQueue` has the manager save artifacts, workers go through sync, claim,
replay and `finish_claim`, operators claim, release, requeue and record attempts
by hand, and holders die. Its history variables `held` and `overridden` say how
long a holder has had its claim and whether somebody recorded an attempt over it;
a claim is *secure* while the first is below the lease and the second is false.

`ReproQueueFiles` takes operations apart: `OpenMetadata`/`WriteMetadata`,
`UpdateCatalog` or `Scan`, `OpenCatalog`/`WriteCatalog`, `Rebuild`,
`OpenQueue`/`WriteQueue`, then `Claim`, `Finish` and `Release`, each of which reads
the queue file in one step and goes on to `OpenQueue`. Opening truncates; a file
that is empty or mixed up does not parse and counts as empty; two writers that
overlap leave the one text or a mix of both. With `Undisturbed` operations of
different processes do not overlap and processes die between operations only;
without it anything goes. Reading a file and scanning the directories are single
steps; an operation that fails for lack of disk space is a death of the process.

`ReproWorker` is one round after another of several workers: the claim with its
number, the load of what is replayed, the attempts with an archive each, which may
fail to be written, `finish_claim`, and the results, in the order of the code.
`disturbed` marks artifacts on which rounds overlapped, one was cut short, or one
outlived its claim.

### ProgramRefs and Choice

A program is a sequence of calls whose arguments are `Plain` or a reference by
position. `ProgramRefs` has generation of a call (`Draft...`), insertion with the
producers a call needs, removal, change of arguments, and splicing of a program of
the corpus, each followed by the passes of `repair_result_refs`; `Given` are
programs read from the corpus, which the validator has accepted and which need
not be like those this code generates. `origin` is a history variable: for each
call, which call of the program before it was.

`Choice` runs `transitively_generatable_syscalls` round by round, then generates:
`Static` and `Dynamic` priorities, penalties with saturation (`Less`), the choice
of the next call after the previous one, and the producers inserted before it.

### Layout, Lengths, Validation, Resources, Generation, CallArgs, ProgramText

These translate the functions on types and values. A type is a record; data are
sequences of bytes; pointers and recorded layouts inside data carry offsets. What
is random is a set: each operator of `Generation` is the set of the values a
random choice leads to, with `Noise` for random bytes. Recursion on types is
recursion here. `CallArgs` goes from argument to argument, then repairs lengths,
then mutates any number of times. `ProgramText` is `describe_program` and the
parser of `repro.rs`.

### ExecFormat and Varint

`ExecFormat` goes through the passes of `serialize_program` argument by argument,
and then reads the stream as the executor does: copy in, constants and results,
call, copy out, default values. A page is 32 bytes in place of 4096. `Varint` writes
and reads words of 8 bits in groups of 3 in place of 64 and 7.

### Descriptions and TypeDefs

`Descriptions` keeps a stack of the files that are gone through, each with the
stage it is at: `prescan_path_definitions`, includes, siblings with constants, the
two passes over a text. Statements are records. `TypeDefs` has the rounds of
resolution: what cannot be resolved waits, a round without progress makes pointers
opaque (`Relaxed`), and a directory is gone through with all its definitions and
then file by file.

## Runs

All runs finish within five minutes with two workers.

| run | what it asks | bounds |
|---|---|---|
| `avoidance` | blocked sets equal what the counts say; epochs match; a restart blocks the same and makes nothing older; nothing is released that was not idle | four programs with shared syscalls and edges, thresholds of 2 and 3, two decay tiers, one weak entry persisted, seven epochs: enough to block, decay twice, prune, restart and block again |
| `manager` | answers belong to the request in hand; the executor is in step; all signal has a program; the disk never shrinks; the manager makes its requests or offers nothing but refused programs | two programs, two signals, two requests, two faults: a crash or lost link and a failed write, or a kill, within one history |
| `manager_crash` | a crash on the console is always saved: **violated** | one fault |
| `repro_queue` | secure claims stay on record and exclude each other; what is shown is what is claimed; secure outcomes are counted and attempts kept | a crash and a timeout artifact, two workers, one operator, leases of 2, replays of up to 3 (longer than a lease), two deaths or commands by hand |
| `repro_queue_live` | every saved artifact is attempted, if replays end before their leases | replays of 1 under leases of 2, one intervention |
| `queue_files` | the file operations implement `ReproQueue` as long as they are undisturbed (refinement) | two artifacts, two workers, leases of 1, replays of up to 2, two saves, one death |
| `queue_files_live` | an artifact with readable metadata gets into a readable queue, with overlapping operations and deaths in the middle of a write | one artifact, a worker and the manager, two saves, two deaths |
| `queue_race` | leases exclude, without any care taken: **violated** | one artifact, two workers |
| `session` | messages stay whole; nothing is left of a VM; a replay whose program was sent reports the crash it saw; sessions end | jobs of the manager and of the worker for a crash or a timeout, links that stall or not, two failures anywhere, a request of two read timeouts |
| `programs`, refs | references are to earlier, fitting, live results, and follow their calls | four syscalls over two kinds, programs of three calls, a program with a use after close in the corpus |
| `programs`, choice | exactly what can be generated is enabled, with producers for each need; there is always a call to draw, and a consumer keeps its chance | close and any three of nine other syscalls in any order, two corpora, timeouts of any one syscall or of all, and of a pair; four calls |
| `programs`, structs | layouts computed in different ways agree | structs of up to three of eleven fields in every packing, alignment and overlay |
| `programs`, values | what is generated is valid; lengths tell what they name, also after mutation; a text brings a program back | 27 calls that put together all kinds of types with lengths among them; arrays and buffers of up to three |
| `programs`, exec | the kernel sees the data; results arrive where they are used | two calls out of five makers of resources (returned, in an array, behind a pointer, in a struct, behind two pointers) and one with data of more than a page before other data, around a pointer and at the end; then a user of what they made |
| `programs`, words | words are read back | two words of 8 bits in groups of 3 |
| `artifacts`, console | a crash within what is kept is found | a buffer of 8 bytes cut to 4, lines of up to 5, 24 bytes in all |
| `artifacts`, titles | titles, normal forms and signatures are stable | three of eight lines; words of six out of five characters |
| `artifacts`, artifacts | paths lead to files of one occurrence, and never elsewhere later; occurrences are counted | a crash and a timeout with up to three saves each and one stop |
| `artifacts`, rounds | results tell the best attempt, are on record, and the latest one never goes back | two artifacts, two workers, two rounds of two attempts, one fault, leases of 1 |
| `artifacts`, again | the same of artifacts that are filed again | three rounds of one worker on two artifacts; two rounds leave each artifact with one result, the third goes to one that has a result already and whose backoff has passed |
| `descriptions` | files lose nothing; the order of types does not matter; copies have the shape of the original; loading ends | two texts of up to four statements with two files of constants, in a directory or including each other; files in circles; several thousand loads of three types and a template |

The interesting cases need no more: a claim is lost to one other worker, a reference
breaks with one call between, a cycle of two types contains the pointer that is
relaxed, and a group of bitfields splits at the third field.

Bounds that are not sizes: `AttemptsCap` saturates the count of attempts, beyond
which backoffs do not change either; `MaxFaults`, `MaxInterventions`, `MaxSaves`,
`MaxStops`, `MaxRounds`, `MaxTotal` and `MaxEpoch` (in the MC module) limit events
of the environment. Times are scaled down: what matters is which of lease, replay
and backoff is longer, and that a wait is longer than a read.

Deadlock is not checked in the runs whose subject comes to an end: `manager` (its
`stopped`), `session`, `programs`, `artifacts` and `descriptions`.

### Findings

* **A console crash may be dropped** (`manager_crash`). The console is only
  searched at the top of the loop. A wait that ends with a failed read or the 15 s
  timeout drops the VM without a look; a panic that takes the connection down is
  lost, or filed as a timeout.
* **Two workers may be granted the same entry** (`queue_race`). Both load the queue
  before either writes. What `queue_files` shows is what it takes to be safe:
  operations that do not overlap, such as under a file lock.

### Where the instances stop short of the code

While modelling, the code was found to disagree with itself or with a comment in
the places below. The definitions follow the code; the instances, or the property
where noted, leave these cases out, so that the runs say something of the rest.

Values (`programs`, values):

* A struct of varying size that begins with a struct of as many fields gets the
  recorded layout of that one (`program.rs:1271`), and generation falls back to an
  empty buffer that the validator refuses.
* Generation rounds a union of varying size up to its alignment (`fuzzer.rs:1140`),
  the validator wants the exact size of a member (`program.rs:4435`); the lengths
  around such a union differ in the same way, and the patch of lengths inside goes
  by the first member that fits, not by the one that was generated
  (`fuzzer.rs:1750`).
* A struct with an array of elements of varying size is generated as zeros
  (`fuzzer.rs:1582`) and never valid.
* Mutation overwrites the NUL of a string (`fuzzer.rs:2144`) and makes a mapping
  anew without its length (`fuzzer.rs:2108`). `LengthsAreTold` is about the lengths
  of arguments; that mutated arguments are valid is not claimed.
* An output pointer to a string without a fixed size, to an array of elements of
  varying size, or to a length, an input pointer to a pointer, and a length behind a
  pointer in big-endian order give values the validator refuses. A struct or union
  passed by value is encoded as the constant 0.

Encoding (`programs`, exec): every argument in memory, and all data behind a
pointer, are placed on the next page (`exec.rs:83`), however many they need,
although the comment at `exec.rs:57` speaks of a page of its own. What they have
beyond the first is overwritten by data of the same call that are copied in later,
or overwrites what they point to, which was copied in before. `KernelSeesTheData`
allows just that: `Overrun` is a byte on which later data of the same call lie, one
of the two beyond its page. Results in memory are in data of less than a page.

Layout (`programs`, structs): of a struct with a group of bitfields that an overlay
cuts in two (`SplitGroup`) the two functions that tell its size disagree. Of an aligned packed struct whose
size is below its most padding, such as an empty one, the size of the field that
varies is not found (`program.rs:1628`); generation records the layout then
(`GeneratedIsValid` has such a struct), and `SizeIsFoundAgain` leaves it out (`Lost`).

Text (`programs`, values): a replay from text zeroes buffers, cannot parse objects
and arrays, takes "..." for a nested pointer to be the pointee's bytes, and refuses a
call with a length that came out 0; `OnlyContentsAreLost` says what remains.

Session: a replay whose program cannot be sent ends with that error, without a look
at the console (`repro.rs:1305`, `1313`), so `CrashesAreReported` begins when it has
been sent; a message that stalls in the middle for a read timeout is given up and its
body read as a size (`repro.rs:1341`, against `protocol.rs:175`), so
`MessagesStayWhole` asks for whole messages only on links that are not slow; and a
replay that fails before the end of the handshake drops its ssh process unreaped
(`repro.rs:1445`, against `ssh.rs:101`), so `NothingIsLeft` asks for ssh only of the
manager.

Console: after a cut 128 KB are left, not the 256 KB of the comment
(`qemu.rs:101`); `RecentCrashIsFound` speaks of 128 KB.

Titles: caller ids like `[ T123]` are not stripped; a long hexadecimal number without
0x that begins with decimal digits has a normal form of its own.

Artifacts: the log of a timeout is listed only by the save that brought one while a
sync lists what is on disk, so the paths of logs are not compared; after a kill
between the metadata and the copies the catalog prefers the current files.

ReproWorker: a failing later round replaces the seed by one that is not eligible;
early failures leave no result; an artifact that reproduced has no backoff and may
be replayed again in the same batch.

Descriptions: a directory resolves resources before it reads files of constants
(`description.rs:473`), so a special value named there is unknown, against
`src/README.md:244`; a call nobody knows is numbered from 0 on, above the known ones
so far, and a known one that comes later may have the same number
(`description.rs:3311`), although it is an index into the table of the executor
(`program.rs:170`), so `SyntheticIdsAreNew` looks at the calls before; values after ":" of a resource are ignored; in a single file
one round without progress makes all pending pointers opaque, in a circle or not
(`CopiesHaveTheShape` asks for known pointers of directories only).

### Fairness

* `Manager`: weak fairness of the manager's steps, guests are free to do nothing.
  A wait is bounded by the timeout, a boot by the time allowed for SSH, so the
  manager always has a next step and takes it. Since `Send` is one of those steps,
  it is assumed that the random generator produces a program that is not refused
  at some time, if there is one.
* `ReproQueue`: workers are run again and again, a replay ends, time passes. The
  liveness property also needs replays shorter than their leases; with two workers
  whose replays always outlast the leases, each loses its outcome to the other's
  claim and an artifact may be replayed forever without a recorded attempt.
* `ReproQueueFiles`: a worker that is in the middle of something, or may start
  something, goes on. Nothing is assumed of the manager, which may stop between
  any two steps.
* `Session`: the host goes on and time passes, the thread reads what there is and
  ends with its pipe, and a link that is not slow delivers the rest of a message. ssh
  and scp are taken to end, with or without success, which nothing in the code
  enforces. The guest and the executor owe nothing.
* `MCDescriptions`: one thread works until it is done. That it ends is asked of
  files in circles and of types; in the larger loads it is the same code, and only
  the evaluation of fairness would be dear.

## Proofs

All theorems hold for every value of the constants that meets the named
assumptions of the modules: thresholds and intervals are positive, the ids of
workers, operators and `None` are distinct, corpus programs are valid, and so on.

`AvoidanceProofs`. `Consistency` proves the inductive invariant: the types, that
blocked sets equal the keys at or above the threshold, and that every counted key
of this process has an epoch no later than the current one. Decay is the step that
makes the parts depend on each other: the sets are recomputed from the decayed
counts. From it follow `TypeCorrect`, `BlockedIsDerived`, `EpochsAreDerived`,
`RestartIsTransparent` (compaction and pruning only drop keys below the threshold),
`RestartIsConservative`, the two together as `RestartGoesOn`, and `ReleaseIsEarned`.

`ManagerProofs`. The inductive invariant adds to the checked properties what a wait
relies on: requests on the wire and answers carry the id and program in hand, there
is at most that one, nothing is on the wire at the top of the loop, and signal in
an answer has been produced by its program. That a request is only ever given up
with its VM is the reason ids need not be compared; `Expire` and `Discard` are where
the proof uses it. `Invariance` gives `TypeCorrect`, `AnswersAreAttributed`,
`ExecutorIsInStep`, `LimitHolds`, `SignalsAreReachable`, and with it the action
property `SnapshotGrows`.

`ReproQueueProofs`. Sorting only affects the order, so each operation is reduced to
what it does to the entries: a rebuild, a replacement of one entry, or ageing
(`StepsRewrite`). The invariant is the types, the lease of each secure claim on
record, and that no resting entry is leased; a claim takes an entry that is its
holder's already or leased to nobody, so it never touches another's secure claim,
and a rebuild retains a lease in force. Exclusion (`Exclusive`) follows because an
entry names one owner. `OutcomesAreNeverLost` is an action property under the same
invariant.

`CommandsShowTheQueue` is about what the operations return: a finite set of entries
can be sorted whatever their number, so the stored order has every entry of the
queue, and the claimed, resting and claimable ones divide them; what a peek finds
first in that order is what a claim takes.

`ReproQueueFilesProofs`. `OperationsAddUp` is the refinement that `queue_files`
checks on an instance: if operations are `Undisturbed`, `ReproQueueFiles`
implements `ReproQueue`, for any artifacts, workers, times and deaths. Each step is
shown to be an operation of `ReproQueue` or none. The invariant says that one process
at a time is in the middle of an operation, that a file it has truncated is empty
until it writes it, that catalog, metadata and queue name the same artifacts but for
those the process at work has changed so far, and that a worker whose claim was
refused still owns nothing when it releases it, which is why the release changes
nothing. Deaths are the steps in which another process may be at work.
`LeasesAreHonoured` applies `Exclusive` of `ReproQueueProofs` to the queue behind the
files: no two workers replay an artifact under leases in force. Both assume
`Undisturbed`; without it `queue_race` shows two that do.

`ProgramProofs`. The invariant of `ProgramRefs` says what holds at each place of a repair: calls
before the one at hand have references that are valid and live among the calls
before them, the rest may refer to anything. A step that inserts, removes or
splices leaves that for position 1; a pass moves it to the end. `ReferencesSound`
is for any set of syscalls, kinds and lineage, any limit and any valid corpus;
it includes that a close never comes between a result and its use.
`MutationsCarryReferences` follows `origin` in the same way: when calls were moved,
every reference has been moved with the call it refers to (`Carried`), and the
repair only draws anew what is not on offer (`Kept`). The second pass over a
spliced program finds everything on offer and changes nothing.

For `Choice`, `EnabledCallsAreFed` has an invariant on the rounds: each syscall that
is listed runs on what those listed before it make, and no syscall before the one
the round is at was missed as long as the round has found nothing. A kind that is
lacking is therefore made by a syscall that needs only what is made before it, and
of the makers in question the first one lacks nothing itself: by the least
counterexample there is always a producer to insert, so the next call has all it
cannot do without, although calls may close what was made. `ThereIsAChoice`: a row
without weight falls back to all that is enabled, which is not empty, and neither
penalty touches a consumer that was never blamed, whose static weight is positive.

For `Varint`, `NumbersReadBack` goes through the bytes with three functions of the
place: before byte i a reader is at word `of[i]`, has `part[i]` of it, and the next
group counts `val[i]`. What is written and not yet read are the next groups of the
words that are still to be read, wherever writing and reading are; with
`ZigZagReadsBack` the words read are those written. The width of words and groups
and their number are arbitrary.

`SessionProofs`. What is under way to the executor is what it waits for: the
handshake is in step because each side's place in it determines what was taken,
sent and seen. On the link to the host sizes and bodies take turns, and the reader
expects the one that comes next unless the link is slow or the session has been
given up; `SessionMessagesStayWhole` follows. The ssh process of the manager has
its guard as long as there is one, and QEMU and the thread are waited for on the
one way out (`SessionNothingIsLeft`). `SessionCrashesAreReported` goes through the
ways in which the wait for an answer ends once the program was sent: an answer, what
is no message, a connection that fails, and the time limit. Two theorems are about `Console`:
what is dropped of the buffer lies before the last `Kept` bytes.

`ArtifactsProofs`. The steps left of a save are ordered by stage (texts, metadata,
the text of what is replayed, copies, the entry), and what is not left to be done
is on disk (`SaveSound`). So at the first write of the metadata all that a catalog
entry may list is there, at the entry all copies of a first occurrence are
complete, and a sync in between finds metadata only of artifacts that have their
files. `MetaInv` and `CountInv` relate the number in the metadata to the number of
saves, which makes 1 the number of the first one only, unless a stop hit the
metadata (`broken`). `CatalogLeadsSomewhere` follows, and `ReplayedFilesStay`: a
copy is only written during the first occurrence, and entries made later prefer
the copies as well. They assume of `Absent` that it is no file, entry or save.

`TitlesStayStable` is about `Titles`, in the same module. Priorities are numbers up
to 100, so there is a greatest one, and the first line that has it stays the first
when lines are added that say no more. What is hashed ends each part with a byte
that no text contains, so where it stands tells where the parts end. The normal form
is shown from the end of the word to its front (by the greatest counterexample,
since the provers have no induction): what stands for the characters from i on has
no run of digits left that would be replaced again, and begins with no longer a run
than the word has there, so that a character put in front makes no new one
(`StandsFor`); what has no runs left is its own normal form. Words that end alike
have the same normal form from there on (`RestsAreLocal`), and a difference behind a
character that ends every run changes nothing in front of it (`HeadsAreSame`); an
address or a number between such places is one mark (`AddressNormal`,
`NumberNormal`). The thresholds may be any numbers above 1.

`ReproWorkerProofs`. What makes `RoundsAreOnRecord` inductive is where a worker is
in its round: the number of the round is the one after that on record until the
claim is finished, and the one on record from then on. The invariant has four
parts: rounds (claims, numbers and attempts agree), the queue, paths (what a path
leads to was written for it, by this round or one that is over), and `TidyInv`,
results and seeds of undisturbed artifacts. A step of one worker leaves the files of
all other rounds alone, since while an artifact is undisturbed its directories are
of one round each. `WorkerResultsTellTheBest` uses that attempts end with the first
reproduction; `WorkerLatestGoesForward` is an action property under the same
invariant. They assume `AttemptsCap >= MaxRounds`, that is, counts that are not yet
saturated: in the code the count is a `u64`.

Only model-checked: everything about liveness; the findings; and what is computed by
recursion over types, texts and definitions (`Layout` to `ProgramText`,
`ExecFormat`, `Descriptions`, `TypeDefs`), of which the provers have no induction.

## Not modelled

* Importing and loading targets (`target.rs`), configuration, the dispatch of the
  command line, the summaries and smoke runs it prints: one pass, nothing to
  interleave. The Go tools that convert upstream descriptions, and generated code.
* The syntax of descriptions: names of types with their attributes, templates with
  arguments (a template that uses itself with growing arguments overflows the
  stack), and what becomes of syntax that is not supported.
* The bytes of images, and random bytes as such.
* What a program refers to inside of data, together with its values: `ProgramRefs`
  has whole programs without values, `CallArgs` the values of one call.
* Choosing from the cumulative table (`program.rs:2136`, `2257`) is used by no caller
  but tests; the second check for consumers that are ready (`fuzzer.rs:369`) cannot
  be reached.
* Two processes under one worker id, and an operator who uses a worker's id.
* The cut of console text at a byte that is no character boundary (`manager.rs:596`).
* Pipes that nobody reads (`repro.rs:1445`), and ssh or scp that never end.
* Torn catalogs in `Artifacts`: how its writes overlap is in `ReproQueueFiles`.

## Plan

Done: the manager, the corpus, avoidance, the queue and its files, artifacts,
workers, sessions, programs, the encoding and the loading of descriptions. What is
left, in the order of importance:

1. `Manager` with `Avoidance` in place of `remembered` and `avoided`, and with
   `Session` in place of `booting`, shown to implement `Manager`.
2. References inside of data: `ProgramRefs` over the values of `CallArgs`.
3. Templates with arguments, and the syntax of types.
