# A TLA+ verification of the cxl tool

This directory holds TLA+ models of `cxl`, the command-line tool that manages
CXL memory devices through libcxlmi (`cxl/`, `vendor_meta/`, `vendor_util/`),
TLC configurations that model-check them, and TLAPS proofs about them.
`PROJECT.json` lists the components, the runs, the source lines behind each
definition, the mutants each property is tested with, the hazards and the
findings.

## The system

| Component | State | Operations | Talks to |
|---|---|---|---|
| `cxl_main.c`, `util_main.c`: main and the command table | command line | find the command, run it, make an exit status | command functions |
| `parse_option.c`: option parser | context: words left, words kept, current switch | start, step, end | option structs |
| `cmd_parser.c`: options and dispatch | one option struct per command (static) | parse options, `cmd_action` over the named devices | option parser, libcxlmi context, `cxl_cmd_*` |
| `cxl_cmd.c`: the commands | locals of one call | about 75 commands: one exchange and a print, except those below | wrappers, libcxlmi |
| - firmware update | file, buffer, request, block, retry count | INITIATE/CONTINUE/END/ABORT, status polling | device's firmware engine |
| - DDR statistics | buffer, bytes copied | status, chunked read | a job on the device |
| - get_log | log size | look the size up, then read | device |
| `vendor_commands.c`: wrappers | request and answer buffers | allocate, send, copy out on success; sysfs payload limit | libcxlmi mailbox, sysfs |
| `vendor_types.h`, `ddr.h`: layouts | | requests and answers of the vendor commands | wrappers, commands |
| `dimm_mgmt.c`, uuids | none | decoding for display | |
| `strbuf.c` | length and allocation | grow, splice, add, read, detach, release | nothing that a command reaches |
| `ddr.c`, `membridge_err.c`, `pcie_eye.c`, `cxl_link.c`, `ltssm_states.c` | none | display | |
| libcxlmi (a submodule, not in this tree) and the device | endpoints; firmware engine, jobs | | everything above |

The tool is a single-threaded process. Concurrency comes from outside it: several
processes use one device, the device works in the background, drops what it
was doing, or loses a request or an answer; and a process can be killed between any two
commands. There is no lock across processes, and no command is undone
automatically. What is hard is therefore

- the **firmware update**: a conversation of many commands with retries, polling
  and an abort, against a device with a state of its own, other updaters, and
  the leftovers of killed runs. It is correct if a package on the device is always
  one whole file, a run that reports completion installed its file, a run that
  ended properly leaves no transfer open, resources are released on every
  path, and every run ends;
- the **dispatch**: the results of several devices become one exit status, in a
  loop that closes what it iterates on. It is correct if each target has its turn
  whatever became of the ones before, no endpoint stays open, and no
  success is hidden;
- the **jobs** (statistics, eye scan, margin, scrub): status is read in one
  command and results in later ones. Results should be from one job;
- the **path of a number**: from the command line to the device it passes an option
  variable, a parameter and a request field, in three files and up to three widths,
  sometimes with its bytes reversed and taken apart. It should arrive in the field the help
  names; and what is displayed should have come with the answer;
- the **option parser**: sequential, with many spellings of the same thing, that compacts an
  array while reading it. A line should be read as what it says, whatever stands next to what.

## Modules

| Module | Models |
|---|---|
| `FwUpdate` | `cxl_cmd_update_device_fw`, once per process, and the device's firmware engine |
| `FwInstall` | what an update promises: atomic installation and an honest report |
| `DdrStats` | `cxl_cmd_ddr_stats_run` and `_get` by several processes, and the job on the device |
| `CmdAction` | one invocation of the tool: `main`, the command table, `cmd_action`, exit status |
| `ParseOptions` | `parse_options`: the option parser as a state machine |
| `CommandLines` | what a command line means: the specification of `ParseOptions` |
| `Exchange` | a command that asks the device one thing, over tables of the commands |
| `CommandOptions` | table: `cmd_parser.c`, options and the calls they are passed to |
| `CxlCommands` | table: `cxl_cmd.c`, parameters, request fields, display |
| `VendorCommands` | table: `vendor_commands.c`, opcode and fields copied in and out |
| `VendorTypes` | table: `vendor_types.h`, `ddr.h`, fields of requests and answers |
| `Libcxlmi` | table: the generic commands of libcxlmi, as far as `cxl_cmd.c` uses them |
| `MC*` | instances for TLC |
| `*Proofs` | theorems about the module of that name |

### FwUpdate

`pc[p]` is the driver's place in `cxl_cmd_update_device_fw`:

| `pc` | code (`cxl/src/cxl_cmd.c`) |
|---|---|
| `loop` | top of `for (i = 0; i < num_blocks; i++)`, 480 |
| `send`, `resend` | the first call of Transfer FW and the retry loop, 511-533 |
| `poll`, `repoll` | the first status call and its retry loop, 540-559 |
| `abort` | the label `abort`, 571 |
| `ready`, `exited` | no run yet; the label `out`, 582 |

`rc`, `retry`, `i`, `mock` are the locals of the same name, `held` stands for the
open file with its buffer and for the request block, and `how` records which
way the last run took to its end. A run is started by anyone, with any file,
opcode and `--mock` (`Start`, `StartFails`). One driver action is one step between two
device commands, and a device command, with the engine's reaction and the driver's
reading of the answer, is atomic: the mailbox serialises commands.

A part on the device is a record of file, block number and length. The length
distinguishes what the two transfer commands send: libcxlmi's
sends the bytes given, `cxlmi_cmd_vendor_transfer_fw` always a whole block.

The engine (`Accepts` to `DropTransfer`) is not in the repository. It is
modelled from what the driver sends and is prepared to hear, and from the CXL rule that parts
come in order or repeat the one before. It may refuse anything, lose a
request or an answer, execute a part in the background (the vendor commands
then answer 0, the standard one 1), fail in the background and drop an
open transfer; each of these is a member of `Faults` so that a run can name what
it assumes. Return codes are collapsed to 0, 1 (any positive
code) and -1 (any negative one): the driver only tests for 0.

### CmdAction

`argv` is what remains for the loop over `argv` in `cmd_action`, `eps` the endpoint list
of the libcxlmi context, `log` a history of what became of each
word. `Scan` is the first loop (`all`, bad names), `Open`/`OpenFails`/`SkipWord`,
`Act` and `Close` the second, `Return` and `Status` the folding of results, `Exit`
the end of the process. The words left after option parsing are any
sequence up to `MaxWords`: `ParseOptions` says which words those are.

### DdrStats

A reader (`cxl_cmd_ddr_stats_get`) is `idle` before the status, in `read` in the chunk loop and
`done` afterwards; `loopCount`, `total`, `copied` and `rc` are
`ddr_stats_status.loop_count`, `total_bytes`, `bytes_copied` and `rc`, and `AsInt` is the
conversion of a `size_t` product to `int`. `buf` maps each byte of the buffer to where
it came from: a job, an offset in that job's records and whether the job was over; or
`Unset`, what `malloc` left there. `shown` is what the display functions find in
`loop_count` records. `since`, `until` and `refused` are history.
`StatsRun` is `cxl_cmd_ddr_stats_run` by anyone; of the device it is assumed that it refuses a run while
one is on, that its records are those of the latest job, and that it may
refuse or lose any other command.

The properties say which byte of which job is where. A get is not atomic and
nothing locks the job: `ShownIsOneJob` holds when no job was started
between status and display, and `ShownNeverOlder` is what is left otherwise.

### Exchange and its tables

Some 70 commands have the same control flow and differ in names, widths and offsets. The
flow is `Exchange`; the differences are four tables, one for each file they come from, and
`Libcxlmi` for the commands that go to the library. The tables are constants of `Exchange`, so that its theorems are about any
tables, and `MCExchange` gives it the program's.

| Table | entry | from |
|---|---|---|
| `CommandOptions` | the function called and, in the order of the call, each option variable with its width and the fields its help names (`fields`: the lowest byte of the number that belongs to each) | `cmd_parser.c` |
| `CxlCommands` | the wrapper, the parameters in order with their width, `fills` (from which parameter and byte each request field is assigned), `shows` (the field printed under each label), `atMost`, `onError`, `heap`/`unless` (a structure that is allocated, or not), `branch` (which parameters are zero, or are not) | `cxl_cmd.c` |
| `VendorCommands` | opcode, fields copied into the request (`puts`) and out of the answer (`takes`), and those a payload limit cuts (`limited`) | `vendor_commands.c` |
| `VendorTypes` | request fields with their width, answer fields | `vendor_types.h`, `ddr.h` |

A number is eight bytes, the lowest first, so that narrowing is `Low`, a right shift `Shifted`, and the
reversal by `cpu_to_be32` before bytes are shifted out (`SwappedByte`, `SwappedHalf`) a
choice of bytes. The host is little-endian. Each number carries the option it came from, which
distinguishes two options with equal values.

Where a function branches on a parameter, each branch has an entry of its own, and an exchange starts only with numbers that
take the branch of its entry (`TakesBranch`). Only `cxl_cmd_clear_event_records` does: with `flags` zero, because
`event_flag` was not typed (`clear_event_records`) or because its low byte is zero
(`clear_event_records_flag_zero`), it sends a handle; with any other, none (`clear_all_event_records`).

| Action | code |
|---|---|
| `Call` | an `action_cmd_*` of `cmd_parser.c`: option variables become parameters |
| `Refuse`, `NoRoom` | a check or an allocation in `cxl_cmd_*` fails |
| `NoRequest`, `Arm`, `NoAnswer` | a wrapper allocates and fills the request, and allocates for the answer |
| `Answered`, `NotAnswered` | `send_cmd_cci` |
| `CopyAll`, `CopyPart`, `CopyNone`, `Crash` | the wrapper copies the answer out: all of it, as much as `get_cxl_maxpayload` allows, or into a structure that was never allocated |
| `Show`, `ShowError` | `cxl_cmd_*` prints, after a success or a failure |

`TablesAgree` says where two tables could disagree: an argument in the wrong place of a
call, a parameter or a variable too narrow for the field, a field nobody fills or copies, a label
with another field's value. It is about the command in hand (`Agree(cmd)`), is checked on the program's tables
for all commands, and is the premise inside the two theorems: `Spec => [](TablesAgree => ...)`.

### ParseOptions and CommandLines

`argv`, `at`, `argc`, `cpidx` and `opt` are the array and the members of the parser's
context; `values` the option variables; `outcome` says how the program went on (`done`,
or an exit: `help`, `list`, `usage`, `unknown`, `typo`); `from` is history. All commands call
`parse_options` with no flags, without subcommands and with a NULL prefix, which is what is
modelled. A word is a sequence of characters, because abbreviations, groups of letters and `--name=value`
are about parts of words. `IntSize` and `LongSize` stand for 2^32 and 2^64. Numbers are read as `strtol` and
`strtoull` do: after blanks and a sign, in base 16 with or without `0x` or `0X`; one out of range is taken for the nearest in range.

| Action | code (`vendor_util/src/parse_option.c`) |
|---|---|
| `KeepWord` | a word that is no option, 587-592 |
| `FirstSwitch`, `NextSwitch` | `parse_short_opt` and `check_typos`: first letter, further letters, 594-628 |
| `LongOption` | `parse_long_opt`, 639-655 |
| `Finish` | `--`, the end of the line and `parse_options_end` |

`CommandLines` says, independently of the parser, how a setting, a word or a mistake can be
written (an item) and what it means. A line is a sequence of items, and `ReadAsWritten` requires of the
parser what the items say one after the other: the last value given to each option, the words in their
order, an exit at the first mistake and at nothing else.

## Runs

| Run | Question | Bounds |
|---|---|---|
| `fw_sole` | one updater, every fault: types, resources, retries, whole packages, every run ends, and the invariant the proofs use | files of 0, 1, 1 short, 2 and 2 and a half blocks; two runs; retries 0..2 |
| `fw_install` | one updater implements `FwInstall` (all faults but a failing background operation): each step is one of an installation | files of 2 and 2.5 blocks; two runs |
| `fw_recover` | a run on a device without an open transfer delivers, without a repetition | four runs, each killed anywhere |
| `fw_contend` | two updaters: no transfer is orphaned, a mixed package has its parts in place, and no one moves a run away from its end | files of 2 and 2.5 blocks; one run each; lost answers, background execution, drops |
| `fw_returns` | finding | |
| `cmd_action` | dispatch: each target has its turn, endpoints are closed, the result counts successes, usage only without a device, each step brings the end nearer, the command ends | up to 3 of 4 words and `all`; 2 of 3 devices present |
| `ddr_get` | bytes in place, of one job, never older; chunks stay in the buffer; each get advances and ends | 2 readers, 2 jobs; records of 3 bytes, chunks of 2, `INT_MAX` 7: sizes 0, 3, 6, and two that wrap |
| `ddr_refused` | finding | |
| `exchange_all` | the program's tables agree; numbers arrive; what is displayed was received | all commands of the tables, nine numbers, three payload limits |
| `exchange_clear`, `exchange_policy` | findings | one command each; the former with the number 1, as its help has it |
| `parse_lines` | the parser reads what is written, loses no word, leaves nothing over, does not guess, and stops | 18 000 lines over six option tables |

Firmware: a block is two bytes instead of 128: what matters is whether the last one is short. Three
blocks are enough for INITIATE, CONTINUE and END to be different blocks; two
for INITIATE to be followed by END; one for the case without END. `max_retries` is 0
or 1 instead of 10: one retry that fails and one that succeeds already take every path, and the
proofs hold for any number. `MaxRuns` bounds the starts; two runs let the second meet
whatever the first left, the recovery run allows three leftovers in a row. `fw_contend` has no retries, and no kills,
which `fw_sole` and `fw_recover` have; the two processes of it are interchangeable (`SYMMETRY`), which is
sound since its properties are invariants and a property of steps.

Dispatch: three words let a bad one precede, separate and follow good ones and let two devices
follow a failure.

Statistics: the record, chunk and integer sizes of `ddr_get` give a job without records, a short last chunk,
an exact multiple of chunks, a size that turns negative and one that wraps to a small
number; two jobs let a reader see the one it asked about replaced.

Exchange: every command of the tables is a starting state. The numbers are 0; 128 and 129, around the limit of an
i2c read; 256, 2^32 and 2^63, one beyond the widths of 1 and 4 bytes and the top bit of 8; 300, which becomes
44 in a byte; all bits; and one whose bytes are all different, so that no shift or swap goes unnoticed. All
options of a command are given the same number: they are told apart by name. `exchange_all` leaves
deadlock unchecked since a command ends.

Parser: the six tables have between them each type of option, names that share a beginning, a name that begins
another, flags to group, and the letter `h`. Lines are: each item alone, with seventeen spellings of
numbers (signs, blanks, both bases, either case, out of range); and, for all tables but that of clear-event-records, a word and then any two items, any item followed by `--` or by `-`. Items interact only
through what one leaves behind, so pairs in a row suffice for the parser as it is;
the word in front makes later moves visible. An `int` has 8 bits and a `long` 16.

## Fairness

`FwUpdate` assumes weak fairness of `Step(p)` only: the driver's sleeps are finite and
the kernel's mailbox call returns, with an error if need be. Nothing is assumed
of the device (an operation may run in the background for ever), of the processes
that start, or of what goes wrong. `RunsEnd` therefore rests on the bounded retries
alone, and `RunShortens` says how: each step of a driver reduces `StepsLeft`, and no other step increases it. `FreshRunDelivers` is checked with a device that only suffers kills: with
background execution it would not hold, since the standard command's answer 1 makes the
driver repeat END until it gives up, although the device then installs the
package. `CmdAction` assumes weak fairness of its one process, of which `EndComesNearer` bounds the steps, and `DdrStats` of each reader, which
waits for nothing. `ParseOptions` needs none: `ReadsOn` says that each step leaves less to read or ends the
parse, and deadlock is checked, with the end of the parse a step of its own, so no line
keeps it busy for ever. `Exchange` has no loop.

## Refinement

`FwInstall` has no blocks, retries or answers: a package appears in one step or
after a check the device makes (`late`), never from a dry run, and a run that reports
success has its package there. The mapping takes the package a run wants from its file and
opcode, and the outcome from the way the driver ended (`how`), not from its
return value: the return value is what `ReturnsZeroMeansStaged` shows to be
unreliable. `fw_install` leaves out `boFail`, because the driver never looks at a
background operation's return code, and files with fewer than two blocks, which are
never sent with END. `ImplementsInstallation` is about steps, and is also proved, under the same exceptions; that a run
that has begun comes to its report is `RunsEnd`, which needs none of them.

## Proofs

Each is for all values of the constants that satisfy the module's assumptions.

**FwUpdateProofs**

- for any number of updaters and any faults, from the inductive invariant
  `SharedInv`: `TypeCorrect`, `ResourcesBalanced` (every path releases what it
  holds and ABORT still has its request), `RetriesAreBounded` and
  `NoTransferOrphaned`. The last one needs `OpenHasOwner`: while a transfer is open some
  process is in a run that has not been told of its end, or left one without being told.
  It is kept although processes close each other's transfers, because closing never
  falsifies it and opening makes the sender an owner;
- also for any number of updaters, `StagedStaysInPlace`: files may get mixed, but each part of the package is at its place
  in some file, and the package stops where the file that ended it stops. The engine's ordering rule gives the place
  (`PartsInPlace`, `WrittenInPlace`): a part goes behind as many as its number says, so what END completes has as many
  as its file;
- `RunsShorten`: the steps left to a run are counted from its block, place and retries (`StepsLeft`); each step of its driver
  reduces the count, whatever the device answers, and nothing else increases it. With the fairness of the driver this
  is `RunsEnd`; the last inference, from fairness, stays with TLC. It needs `LoopInRange` and `RetriesBounded`, by which the count is never negative;
- for one updater at a time (`SoleUpdater`: all processes are the same one):
  `SoleInvInvariant`, and from it `StagedPackageIsWhole` and `CompleteRunIsStaged`. A package is whole because the
  engine has only parts of the current run once its INITIATE is accepted (`PartsOfRun`), so
  END completes the sequence; `TransferShape`, `EndingIsWhole`, `EndDelivered` and
  `QuietOnceDelivered` carry this over the background operation. `FreshRunStaysOnCourse` is the safety half of
  `FreshRunDelivers`, on a device that refuses, loses, drops and delays nothing (`DeviceWorks`; files may be missing and
  processes killed): a run that finds no open transfer repeats nothing, and leaves `OnCourse` only delivered or killed. With `RunsShorten` it gets
  there as long as it is scheduled. Block arithmetic
  (`SizeIsRest`: the parts' lengths are those of the reference cut `Package`) is a lemma.

With two updaters at once those of `SoleInv` do not hold: a second INITIATE right after the first repeats
it as far as the device can tell, and parts of two files can be mixed. Nothing in the
tool prevents it; `StagedStaysInPlace` is what remains.

**FwInstallProofs**: `UpdateIsInstallation`, for one updater at a time, files of at least two blocks (`FilesHaveEnd`), any
sizes, limits and all faults but `boFail`. `InstallInv` adds to `SoleInv` that no operation has failed and that
a mock run is still at its first block. A start maps to `Begin` or `Reject`, every way out to `Succeed` or `Fail`, an
accepted END to `Install` or `Accept`, the end of its background operation to `InstallLate`, and the rest to
nothing. A mock run cannot install because END is the second block or a later one; it cannot succeed because the
loop is over only then. Each exception is needed: each one makes a run complete whose package is not there.

**CmdActionProofs**, for command lines of any length: `TypeCorrect`, `NoEndpointStaysOpen` and `ResultIsSuccesses` from
`CmdInv`, which adds to the properties that
`count` is the number of successes in the log and that an endpoint is open exactly in the body of
the loop; `EveryTargetWorkedOn` and `UsageWithoutDevice` from `TurnInv`: the words left are the last ones
of those to work on, and each device before them has its entry in the log at its rank
(the number of devices up to it), which the lemmas `RankGrows` and `RankIsPlace` are about. The place of an entry is given by counting and
not by filtering, because what a filter does with a longer sequence takes an induction. `EndAlwaysNearer` counts the steps
an invocation has left (`StepsLeft`: three for each word the loop has still to see): every step but the first reduces the
count, which is `Terminates` but for the inference from fairness.

**DdrStatsProofs**, for any number of readers and any sizes: `SpecInv`, and from it
`TypeCorrect`, `ChunksStayInBuffer`, `RecordsAreInPlace`, `RecordsAreOfOneJob` and
`RecordsAreNeverOlder`. `DdrInv` says of a buffer in the making what the properties say of one
displayed (`FilledInPlace`, `FilledSince`, `FilledInOrder`), that the job of the status stays over
until another starts (`StatusHolds`), and that there are no records before a first job. The
step lemmas treat the reader that moves; `OthersKeep` carries everyone else over whatever
the device does. `GetsAdvance` says that a step of a reader ends its get, begins the loop or moves `copied` towards a
`total` that does not change, because a chunk is never empty (`ChunkInBuffer`); with fairness this is `GetsEnd`.

**ExchangeProofs**, for any tables that satisfy `TablesAssumption`: `TypeCorrect`; and for every command whose
own entries agree (`TablesAgree`), `EveryNumberArrives` for all 64-bit numbers and
`DisplaysWhatItReceived`. The invariant is `TypeOK /\ Passing /\ Copying`: `Passing` says that parameters and message are
what the tables make of the number given, `Copying` that a result of 0 at the end means that the structure was
filled as far as the wrapper and the limit go. `PartArrives` is the arithmetic (`Arrives`): a slice of a number that was narrowed
twice is the slice of the number, if both widths hold it.

**ParseOptionsProofs**, for any tables and lines: `TypeCorrect`, `LeftInOrderAlways`, `NothingLeftOverAlways`,
`ReadsOnAlways` and `NeverGuesses`. The invariant adds to the first two where the parser stands: `Shape` (what the
variables are) and `Place` (`at` and `argc` add up to the line, and the place written to is before the
word in hand). The lemma `GetValueReads` says what every option does to the rest of the word and the line,
and `ReadsInv` that this is enough.

`TypeCorrect` says that no number that can be typed leaves a value the variable cannot hold: `NumbersAreIntegers`, that
`strtol` as modelled returns an integer, and `StoredFits`, that saturation and narrowing bring it into range. The former is an
induction over the digits. The library's induction theorems take an operator, which the provers cannot instantiate;
the lemma `LeastNumber` takes a set instead (a set of naturals that is not empty has a least element, from the well-foundedness of `<`),
and the proof is about the least number of digits whose reading were no integer. `ReadingsExist` shows in the same way that the
recursive function `Readings` is a function at all.

`NeverGuesses` says of a step that sets an option that the word in hand means that option (`Means`): it is the first with
the letter, or its name is given in full, or no other option's name is begun. `LongMeans` is the argument for names: an exact
name wins wherever it stands in the table, and without one a single candidate is left when no message was given. That a
further letter is no part of a long name takes `NothingLeftOver`. What is proved is the choice of the option; the value it gets is
`ReadAsWritten`.

Only model-checked are:

- liveness (`RunsEnd`, `FreshRunDelivers`, `Terminates`, `GetsEnd`): what follows from fairness needs
  ENABLED, which the prover does not reach. The decreasing measures under three of them and the course under a fourth
  are theorems (`RunsShorten`, `GetsAdvance`, `EndAlwaysNearer`, `FreshRunStaysOnCourse`);
- `TablesAgree`: a fact about the program's own tables, which TLC evaluates in full;
- `ReadAsWritten`: the meaning of a line is a fold over its items and of folds over their settings, and the claim is about every way to
  write each of them.

## Findings

- An update that gave up returns the answer to its ABORT: accepted, it is 0, and
  `cmd_action` counts a success (`fw_returns`).
- A statistics chunk refused with a positive return code is passed over: uninitialised memory
  is displayed, and the command can still return 0 (`ddr_refused`).
- With `event_flag` 1, clear all events, the request names no handle and its flag for clearing all is zero: nothing
  in `cxl_cmd_clear_event_records` sets it (`exchange_clear`).
- The interrupt setting displayed for failures is the one for warnings (`exchange_policy`).

### Known departures

What the models show of the code and a reader of its help or comments would not expect, without a run of its
own:

- `--mock` aborts after INITIATE (`cxl_cmd.c:561`); its help promises one CONTINUE
  (`cmd_parser.c:306-307`).
- `cmd_action` returns a device's positive return code when nothing succeeded; its
  comment promises a negative one (`cmd_parser.c:116-121`), and the exit status becomes 0.
- `all` means mem0 and mem1 (`cmd_parser.c:79-84`), not the devices there are (`README.md:121`).
- The number of bytes of an i2c read is narrowed to 8 bits before the limit is checked: 300 passes as
  44 (`cxl_cmd.c:1347`).
- When an eye run fails, the status printed was never received (`cxl_cmd.c:1082`).
- Without a payload limit from sysfs the margins are copied as nothing, and reported as a success
  (`vendor_commands.c:730`); they are displayed by the device's own count.
- A read of 0 bytes of SPD copies into a structure that was not allocated (`cxl_cmd.c:777`, the action
  `Crash`).
- Return code and extended status of a background operation are always read as 0
  (`vendor_commands.c:156`: an `int` shifted by 32 and more); nothing looks at them.
- The search for the end of the link states looks one entry past the last (`cxl_cmd.c:1053`), and the search for a
  manufacturer one before the first for code 0x80 (`dimm_mgmt.c:1115`).
- The option `-h` of `hpa-to-dpa` (`cmd_parser.c:1010`) can be given by name only: the letter is answered with
  help before the table is looked at (`parse_option.c:596`).
- An unsigned value is tried in base 16 when it is not decimal, so `-b` is the number -11; an empty word is
  0, and numbers out of range wrap or saturate without a message.

## Plan

Done: `FwUpdate`, `FwInstall`, `CmdAction`, `DdrStats`, `Exchange` with its tables, `ParseOptions` with `CommandLines`, and their
proofs. Left:

1. the jobs behind eye scan, margin and scrub, shared by processes, in the manner of `DdrStats`; `get_log`, which looks a
   size up with one exchange and reads with another;
2. `CmdAction` composed with `FwUpdate`: what exit status an update of several
   devices has.

## Not modelled

- Display and formatting of results, texts of messages and help, paths, the build.
- The SPD decoders (`dimm_mgmt.c`) and uuids: table look-ups for display, without state.
- `strbuf.c`: no command reaches it. Its callers in the parser run only for a list of subcommands and for a prefix of
  file names, and `parse_options` passes NULL for both.
- Parser flags, callbacks, bits and counters that no option table uses.
- `cxl_cmd_get_log` and the slices of a software eye scan: more than one exchange, see the plan.
- libcxlmi's own code (a submodule that is not in this tree). `--help`, `--version` and `--list-cmds` print and
  exit.
