# Verification of yalibct

yalibct collects the test suites of many C libraries and runs them against the
C library it is built with.  Most of its 509 files are those tests and their
expected outputs.  The program logic is in

* the **harnesses** under `src/include/test-deps/`, which stand in for the
  frameworks the tests were written for; the largest are the Linux Test
  Project's (`linux-test-project.h`, "LTP" below), ATF's, cmocka's, glibc's and
  the old LTP's of Cygwin;
* the **portable symbols** under `src/include/test-lib/portable-symbols/`,
  replacements for functions that a C library may lack, among them gnulib's
  file tree walk (FTS) with its hash table, its ring of descriptors and its
  cycle detection, `getopt` and `tmpnam`;
* the **script** `src/run_test_binaries.sh`, which runs the test binaries in
  parallel and judges them.

Everything here was written from the code.  Line numbers in the comments of the
modules refer to the file that the module's heading names.

## Inventory

| Component | State | Operations | What makes it correct |
|---|---|---|---|
| LTP watchdog | timer, pending signals, handlers in progress, `test_pid`, `sigkill_retries`; the test's process, group and descendants | `fork_testrun`, `alarm_handler`, `heartbeat_handler`, `sigint_handler`, `heartbeat` | a library that waits can always be woken; a run ends whatever its test does; a killed test never passes; nothing of a test outlives it |
| LTP test run and results | shared counters, `saved_results`, the children of the test, `ret` | `tst_res`, `tst_brk` (test, child, cleanup), `run_tests`, `tst_reap_children`, `do_test_setup`/`cleanup`, `do_exit` | the exit status is the truth about what any process recorded |
| LTP library lifecycle | `shm_path`, `ipc_fd`, `results`, `TESTDIR`, the file and directory behind them | `do_setup`, `setup_ipc`, `tst_tmpdir`, `do_exit`, `do_cleanup`, `cleanup_ipc` | whatever fails, nothing is left and no success is reported |
| LTP command line | `iterations`, `duration`, `timeout_mul`, the test's description | `assert_test_fn`, `check_option_collision`, `parse_opts`, `set_timeout`, `testrun`'s loop | malformed descriptions and lines never run; the others run as often and as long as asked |
| ATF program | `params`, test program, cases with three maps of configuration, the error on flight, `Current`, temporary directories | `atf_tp_main`, `process_params`, `handle_srcdir`, `atf_tp_add_tc`, `run_tc`, `fail_check`, `pass`, ... | memory is freed once; errors do not collide; the configuration reaches each case; the exit status is the truth |
| cmocka runner | group, jump buffer, signal handlers and mask, `cm_error_message`, totals, five reports | `_cmocka_run_group_tests`, `cmocka_run_one_test_or_fixture`, `exit_test`, `exception_handler` | failures stay in their test; reports agree with what happened |
| glibc test driver | wrapper, test, captured subprocess, shared failure counts, lists of temporary files | `support_test_main`, `signal_handler`, `run_test_function`, `support_capture_subprocess`, `support_delete_temp_files` | a test that hangs is killed; statuses are adjusted for failures; files go with their owner |
| Cygwin's old LTP | the `STD_` options, `Tst_count`, the buffered result, counters | `parse_opts`, `usc_test_looping`, `tst_res`, `tst_condense`, `tst_flush`, `tst_brk`, `tst_exit` | each result reaches its reader; the loop ends when asked |
| kernel self-test harness | the child and its group, the alarm, the last signal | `test_harness`, `test_harness_internal_run_test`, the signal handler | timed-out tests end and do not pass silently |
| gVisor, cosmopolitan, z88dk | files and counters; errno and buffers; `stage` and the jump buffer | temporary paths and transfers; checks and `rngset`; `suite_run` | files go, counts are true; checks decide, buffers are filled; each test is counted and torn down once |
| gnulib hash table | buckets, overflow cells, free list, obstack, two counters | initialize, insert, lookup, remove, rehash, free | it is a set; chains are well formed; cells are neither lost nor shared |
| gnulib `I_ring` | four slots, front, back, empty | push, pop, empty | it is a stack of at most four that displaces its oldest |
| gnulib `cycle_check` | a counter and one remembered directory | `cycle_check`, the chdir-up macro, init | alarms are true; the memory stays useful; `abort()` is out of reach |
| gnulib `getopt` | `argv`, `optind`, `nextchar`, the stretch of skipped non-options | `_getopt_internal_r`, `exchange`, `process_long_option` | arguments are permuted, never lost; a second scan sees what the first saw |
| gnulib tempname | the file system, the random digits, attempts | `path_search`, `try_tempname_len`, its three ways of trying | no two users get one file |
| FTS | a node per level, batches of entries, table of active directories or a `cycle_check` state, instructions; the working directory, its descriptor and the ring; the buffer of the path | `fts_open`, `fts_read`, `fts_build`, `fts_set`, `fts_close` | the walk ends, reports only real cycles, misses nothing, leaves what it enters once, lists the directory it means, and never points into freed memory |
| test runner script | jobs, `JOBS_COUNT`, results file | `run_one_test`, `wait`, verdict | bounded load, right verdict, termination |

How they interact:

* The LTP **library** process forks one **test** process per variant.  They
  share the counters (`results`, a shared mapping) and talk by signals: the
  test's heartbeat is a SIGUSR1 to the library, the library's timeout a SIGKILL
  to the test's group.  `LtpWatchdog` has the signals and the time, `LtpTestRun`
  the counters and statuses, `LtpLifecycle` what the library owns before and
  after, `LtpOptions` what it was asked to do.  Each abstracts the others to
  what they can do to it: in `LtpTestRun` the group may be killed at any time;
  in `LtpWatchdog` a process ends in any way; in `LtpLifecycle` the variants
  are one step.
* FTS calls `cycle_check` on the way down and the macro on the way up, or keeps
  its active directories in a hash table.  `FtsWalk` takes the operators of
  `CycleCheck` (`CC == INSTANCE CycleCheck`) and checks that the walk keeps the
  protocol that `CycleCheck`'s proofs assume of their user; of the hash table it
  takes what `HashTable` is shown to implement, a set.  `FtsCwd` uses the ring as
  the bounded stack that `IRing` is proved to implement.
* `AtfProgram` is built over the operators of `AtfMap` and `AtfPath`.
* The harnesses are alternatives: a test program includes one.  The script sees
  of a test its exit status and its output, nothing else.

What is hard to test, and hence what the properties are for, is listed line by
line under `hazards` in `PROJECT.json`: handlers interrupting one another,
counters that surviving children still increment when they are read, a dozen
system calls each of which may fail with the previous ones' results in place, a
rehash that relinks cells in place while it walks them, walks over cyclic
graphs with faults on the way, directories moved under a walk, jumps out of
signal handlers, alarms that race a late exit, jobs that end between a count
and a decision.

## Modules

| Module | Models | Correspondence |
|---|---|---|
| `LtpWatchdog` | `linux-test-project.h` 2366-2503, 3072-3178, 3326-3396 | one action per system call of `fork_testrun` and of each handler; `frames` is the stack of handlers in progress |
| `LtpWatchdog_proofs` | | proofs about `LtpWatchdog` |
| `LtpTestRun` | 2571-2601, 2793-3104, 3128-3178, 3326-3382, 3651-3712 | one action per step between two calls of user code; user code reports, breaks, forks, crashes or returns |
| `LtpLifecycle` | 1693-1863, 2061-2330, 3276-3396, 3692-3712 | one action per system call; each may fail |
| `LtpOptions` | 430-564, 728-843, 1431-1561, 2153-2160, 2401-2420, 3072-3104 | one action per option, then one per round of `testrun` |
| `MCLtp` | | the three above, the chosen one at a time |
| `Ltp_proofs` | | proofs about `LtpTestRun`, `LtpLifecycle` and `LtpOptions` |
| `AtfMap`, `AtfPath` | `atf.h` 1052-1352, 1533-1814; 2043-2225, 2481-2625 | operators on maps with the memory behind them, and on paths |
| `AtfProgram`, `AtfProgram_proofs` | `atf.h` 365-934, 1878-2003, 2227-3316 | one action per option, per case registered and started, per call of a test body, and per label on the way out |
| `Cmocka` | `cmocka.h` 79-670, 1182-1565, 1575-1997 | one action per fixture or test entered, left, failed in or interrupted, and per report |
| `GlibcTest` | `glibc.h` 95-161, 504-1019, 1131-1390 | wrapper, handler, test and captured subprocess, one action per system call and per temporary file removed |
| `CygwinTest` | `cygwin.h` 60-480, 721-1221, 1286-1725; the loops, `setup()` and `cleanup()` of `tests/stat/cygwin-0*.c` | one action per option, per round and per call of `tst_res` or `tst_brk` |
| `KernelHarness` | `linux-kernel.h` 208-398 | parent, child, alarm and user, one action per system call |
| `GvisorFiles` | `gvisor.h` 30-363 | one action per call of a helper; a transfer one action per system call |
| `Cosmopolitan` | `cosmopolitan.h` 75-279, 347-528, 623-757 | one action per check and per eight bytes of `rngset` |
| `Z88dk` | `z88dk.h` 12-133 | one action per assertion and per part of a test that returns |
| `MCHarnesses` | | `AtfProgram`, `Cmocka`, `CygwinTest`, `GvisorFiles`, `Cosmopolitan` and `Z88dk`, the chosen one at a time |
| `MCSupervised` | | `GlibcTest` and `KernelHarness`, whose parents watch the time of a test, the chosen one at a time |
| `Harnesses_proofs` | | proofs about the seven from `Cmocka` to `Z88dk` and about the script (`TestRunner`), each alone |
| `KeySet`, `HashTable`, `HashTable_proofs` | `gnulib/hash*.h` | one action per function of the header; cells and `next` pointers are explicit |
| `BoundedStack`, `IRing` | `gnulib/i_ring*.h` | one action per function |
| `CycleCheck` | `gnulib/cycle*.h`, the macro | one action per function, `path` is what the caller has entered |
| `Getopt`, `Getopt_proofs` | `gnulib/getopt-common.h` | one action per call of `getopt`, one for a caller that starts again |
| `Tempname` | `gnulib/try_tempname_len.h`, `gen_tempname_len.h`, `path_search.h` | one action per draw and per try, in each of several processes |
| `FtsLeaf` | `fts_read.h` 406-606, 654-705, 743-1125, 1220-1374, `fts-common.h` | one action per `readdir`, per entry given, per directory opened and left |
| `MCGnulib` | | the five above (`CycleCheck` to `FtsLeaf`, with `IRing`), the chosen one at a time |
| `Gnulib_proofs` | | proofs about `CycleCheck`, `IRing`, `Tempname` and `FtsLeaf` |
| `FtsWalk`, `MCFtsWalk` | `fts_read.h`, `fts_set.h`, `fts_open.h`, `fts-common.h` | one action per way through `fts_read`; the operators between are the parts of `fts_read` and `fts_build`, from streams to the sets of streams they may leave |
| `FtsCwd`, `MCFtsCwd` | `fts_read.h` 73-307, 686-881, 1062-1088, 1149-1376, `fts_close.h` | one action per resolution of a name; a rename may come between any two |
| `Fts_proofs` | | proofs about `FtsWalk` and `FtsCwd`, each alone |
| `TestRunner` | `run_test_binaries.sh` 80-236 | the shell's steps, the end of a test as the command that runs it tells of it, the line its job appends |

`KeySet` and `BoundedStack` are the abstract specifications: what a user of the
table and of the ring may rely on.  `HashTable` and `IRing` are checked and
proved to implement them under the refinement mappings `AsSet` and `Stack`
(`HashTable` as long as no rehash strays).

`MCLtp`, `MCHarnesses`, `MCSupervised` and `MCGnulib` put components side by side that do not
meet at run time.  A variable `chosen` says which of them runs; the variables of
the others stay at one initial value.  The behaviours are exactly those of the
components, and a state of the run is a state of the chosen one.  Names carry a
prefix of their component where two of them would meet.

A property of several parts (`StatusHonest`, `SetupHonest`, `GlReportsTrue`,
`LeftAsEntered`, ...) is a conjunction of definitions that have a comment each.

Definitions marked `mutant` stand next to the definition they would replace.
They are plausible bugs of that code; no specification uses them.  Each shows
that a property is sensitive to the code: with the mutant in place its run fails
on that property.  `PROJECT.json` pairs them.

## Runs

Passing runs:

| Run | Bounds | Shows |
|---|---|---|
| `ltp_watchdog` | 2 variants, 1 retry of SIGKILL, 1 interrupt; `fork()` may outlast the timer; the library may be killed | `WatchdogArmed`, `OnlyNormalEndsPass`, `NoLeftovers` in every interleaving; `NothingRunsOn`: a test that hangs or cannot be killed ends the run, an orphan stops |
| `ltp` | results: 2 variants, 2 cases, 1 child, 4 results; lifecycle: 2 runs with one pid, 2 failing calls in each; command line: 2 options, 9 test descriptions, 4 rounds, 4 seconds | `StatusHonest`, `ProcessesAccounted`: the exit status accounts for every result, case and child; `NothingLeft`, `SetupHonest`: nothing left, failures reported, tests get what they asked for; `LoAsAsked`: what runs is what was asked for |
| `fts_walk` | every graph of 3 directories with up to 3 edges, 2 roots; lazy detection and table with batches of 2, tight check with one batch and mounts; 1 fault or instruction | the walk ends, real cycles only, nothing missed, each directory left once |
| `fts_cwd` | 2 trees of 5 directories, a ring of 2, 3 renames; with and without `FTS_CWDFD`, tight check | the directory listed is the one meant; descriptors are bounded and all closed; the ring aborts only after a rename |
| `hash_table` | 7 keys; tables of 3, 7 and 11 buckets; 7 cells | well-formed chains, no lost cell, a set |
| `gnulib` | cycle check: 3 directories, paths up to 6 deep, a counter modulo 8; ring: 4 slots as in the source, 3 values; getopt: 13 words in vectors of up to 3, 8 option specifications, 2 scans; tempname: 2 tests, names of 2 binary digits, 2 attempts; `fts_build`: 2 and 3 directories of up to 3 entries of 4 kinds, batches of 2, 3 faults or changes | true alarms; a bounded stack; arguments permuted and not lost, second scan like the first; one file per test; no entry skipped and no pointer left behind |
| `harnesses` | cmocka: groups of 2 and 3 tests, 2 signals, 4 forms of output, 1 fault; Cygwin: 7 command lines, 4 environments, 2 cases in a round, 2 rounds where none are asked for; gVisor: 4 files, 2 tests; cosmopolitan: sizes up to 21, 3 checks; z88dk: all suites of 2 tests with up to 2 assertions per part; ATF: 2 cases, 11 lists of options, 5 of arguments, every form of the program's path, 1 failing allocation, 1 failed check per case | reports and statuses are true; failures stay in their test; results reach their reader; each test is torn down once; nothing is freed wrongly, and the configuration reaches every case |
| `supervised` | glibc: 4 configurations, 3 outputs into pipes of one chunk, 2 temporary files per process (1 in tests that capture), 1 fault; kernel: 2 SIGINTs, a test that heeds SIGTERM or not | `GlReportsTrue`, `KhVerdictHonest`: statuses and captured output are true; `GlFilesRemoved`: who deletes what, with signals between two removals; `GlEnds`, `KernelTestEnds`: a test that hangs is ended |
| `test_runner` | 4 tests, 2 processors, every command, with and without `set -e` within the evals | load, verdict, termination |

Violations - the code does not do what a comment of the repository says:

| Run | What happens | The comment |
|---|---|---|
| `hash_table_stack` | a rehash that takes a cell takes it from a copy of the obstack; the table's own obstack will give the same cell out again | `hash_rehash.h:191` |
| `fts_read_error` | after `readdir` failed half-way the directory is never taken out of the table of active ones | `FTS.h:154` |
| `fts_again` | `FTS_AGAIN` on a directory in post-order makes the walk leave it twice: `abort()` | `fts_read.h:1145` |

`fts_again` was reproduced with the compiled code: a small program that calls
`fts_set(FTS_AGAIN)` on the first directory it gets in post-order, with
`FTS_LOGICAL`, is aborted in `leave_dir`.

More divergences and limits were met that no run keeps:

* **LTP.**  A failed `chdir()` into the temporary directory counts as a passed
  result: the type given to `tst_resm` at `linux-test-project.h:1853` is
  `TERRNO`, whose result bits are 0, against "issue TBROK messages for all test
  cases" (1847).  `ChdirFails` models it; the run still ends TBROK.  An option
  given twice records a TWARN while the counters are not mapped yet, and it is
  lost (1509, 2996).  The help says that a time multiplier is at least 1; 0.099
  is accepted (752, 775).  A test with `max_runtime` meets an assertion (3375);
  none has one.
* **Script.**  `run_test_binaries.sh:157` promises as many tests as processors;
  the loop allows one more, which is why `LoadBounded` says
  `PROCESSOR_COUNT + 1`.  `! grep .` (170) does not see output of empty lines
  only.  A command that goes on after its test (84, 103, 125) loses the test's
  status where `set -e` is not in force; see *Abstractions*.
* **FTS.**  With `FTS_TIGHT_CYCLE_CHECK` a failing `fstat()` (`fts_read.h:801`)
  makes the walk leave a directory twice: `RestatFails` models it, it takes a
  setup with the fault `"fstat"`.  With mounts *and* full batches, a directory
  marked `FTS_DC` loses its mark when the batch after the last one is empty
  (1086), against the comment at 1368; that is why the setup with the fault
  `"mount"` has batches that are never full.  Without the tight check a walk may
  be led back into the directory that `stat` saw rather than the one it opened;
  `CwdIsListed` says so, the comment at 213-216 does not.  With `FTS_NOSTAT` a
  directory with two links that cannot be entered is given in post-order with no
  error and none of its entries, although "we can still return the names
  themselves" (842-846); `FlNothingSkipped` allows for it.  The table of
  file-system types is keyed by device number and goes stale when another mount
  takes the number.
* **ATF.**  `-r` and the argument naming a case are read and ignored, all cases
  run in one process and cleanups never do.  A failing allocation in
  `atf_tp_add_tc` aborts (1992-2003), and one in a head is ignored, so that the
  next error aborts (403).
* **cmocka.**  A group teardown that fails is printed and not counted; the exit
  status is a count modulo 256; TAP says "ok" although the group's setup failed.
* **glibc.**  In direct mode a test that calls `exit(77)` hides the failures it
  recorded.  The alarm is never disarmed and may go off after the test was
  reaped, which turns a success into a failure.  It may also go off, or the user
  press ^C, between two removals of temporary files, which happen in `exit()`:
  the handler calls `exit()` itself (728), the interrupted function is not called
  again, and the other files stay, against "make sure temporary files are
  deleted" (870) and "make sure we clean up if the wrapper gets interrupted"
  (956).  `GlFilesRemoved` says when that is so, and that the status then is 1.
* **Cygwin.**  `tst_brk` after all test numbers are used up reports nothing
  (1166); `-i 0 -i 2` loops for ever, as `STD_INFINITE` is never reset; a
  SIGUSR1 between `signal()` and `pause()` is lost (1672-1675).  Every round
  numbers its cases from 1 again (`Tst_count = 0`, `cygwin-01.c:124`), and the
  lines do not say which round is meant: with `-i 2` one number may have both a
  PASS and a FAIL, and a result that went on into the next round is printed with
  a range of 0 or less, that is, as the one case it began with.  The tests
  increment `Tst_count` once more at the end of a round (`cygwin-01.c:165`), so
  that with `TOUTPUT=CONDENSE` the last range includes a case that there is not
  ("1-2" of one case), against "ranges are used where identical messages occur"
  (831); `CyNumbered` looks at the cases that there are.  A `cleanup()` whose
  assertion fails loses the buffered line.
* **Kernel.**  A test that exits 0 on the SIGTERM of its time limit counts as
  passed, and an interrupt by the user is taken for the limit.
* **gVisor.**  `RetryEINTR` compares with 1 where the calls return -1
  (`gvisor.h:305`): an interrupted call is never retried, and what was moved
  before it is missing from the result.  `GvCountExact` speaks of the counts
  that are returned.
* **cosmopolitan.**  `EXPECT` is the same as `ASSERT`; `ASSERT_SYS` (749)
  compares an `errno` that it did not clear.
* **getopt.**  After a scan whose last option lacked its argument a second scan
  takes a permuted non-option for it.
* **tempname.**  A test that opens its name without `O_EXCL`
  (`tests/printf/gcc-2.c`) may take over another one's file: `TnExclusive` is
  about the careful ones.

### Why these bounds

* `MaxRetries` stands for the 10 of `alarm_handler`, `CounterLimit` for 2^64,
  `MaxEntries` (a setup's `max_entries`) and `FlMaxEntries` for 100000,
  `FlThreshold` for the 10000 entries from which sorting pays, `TnAttempts` for
  62^3, `LoIntMax` for `INT_MAX`, `SmallestCandidate` for the 10 below which
  `next_prime` does not go, the thresholds and factors of the hash table for the
  default tuning in tenths and thousandths.  The bounds are reached in every
  run: retries and attempts run out, the counter wraps, batches are full, the
  table grows twice and shrinks.
* The cycle check has a counter of three bits on paths of up to six: it is
  renewed at 1, 2 and 4, wraps around within one walk, and is met again after
  the wrap.
* `hash_table` has the constraint `NotStrayed`: it stops at the first rehash
  that takes a cell from its copy of the obstack, the divergence of
  `hash_table_stack`.  Beyond it the table may give out a cell twice, and no
  property of chains survives.  Up to it - all insertions and removals, and
  rehashes in both directions that find free cells or need none - all hold.
  `hash_table_stack` uses the source's own sizes.
* With two variants the second meets what the first left (`test_pid`, strays,
  retries, counters), and a third would meet nothing else.  The same holds of
  two tests, cases or runs with one pid elsewhere.  Two processors and four
  tests let the shell hold back, and take up, a test.
* Three directories and three edges give self-loops, cycles of two and three,
  two ways to a directory, and cycles off the way from the roots.  Every fault
  is met at every place in every graph, one at a time.  Five levels with a ring
  of two make the walk come back up past what the ring remembers.
* Two temporary files in each process (`GlMaxFiles`) are the fewest with a moment
  between two removals; tests that capture have one, which is enough for the
  order of reaping, reading and removing.
* Two cases in a round (`CyMaxResults`) and totals of 1 and 3 have results that
  merge and that do not, rounds that report all of their cases and rounds that
  do not, and cases that remain at a break; the environments set the number of
  iterations to 2, -1 and 0.
* A pipe of one chunk is full at once, which is what a reader of two pipes must
  not wait for.  Sizes up to 21 with reseeds of 0, 8, 9, 12 and 20 have every
  kind of rest that `rngset` meets.
* `Max...` constants in guards bound what the environment does (`MaxReports`,
  `MaxInterrupts`, `MaxFaults`, `MaxRuns`, `MaxTrouble`, `MaxDepth`,
  `FcMaxMoves`, `LoMaxClock`, ...), never what the code does.

`CHECK_DEADLOCK FALSE` is given where the systems stop in states of many kinds:
a run that is over, a walk that has ended, a table that was freed, a process
that called `abort()`.  `ltp`, `gnulib`, `harnesses`, `supervised`
and `fts_cwd` are checked for deadlock: they may stutter in the states that are
named as ends (`MCEnded`, for ATF `Ended`) and in no others.

### Fairness

* `ltp_watchdog`: the scheduler runs the library and a test that has not hung,
  pending signals are delivered and timers expire.  Nothing is assumed of the
  death of a process that was sent SIGKILL - `alarm_handler` gives up after ten
  retries precisely because it may never come -, nor that a test ends.
* `supervised`: glibc's wrapper, or the kernel's parent, is scheduled, its alarms
  go off, and in glibc a process that was sent SIGKILL dies.  The test may hang
  anywhere.  The conditions are stated of the steps of the component (`Gl(...)`,
  `Kh(...)`), which are disabled while the other is chosen.
* `test_runner`: the shell runs, and every test ends.  Nothing in the script
  enforces the second; a test that hangs hangs the script.
* `fts_walk`: the caller goes on calling `fts_read`, which is what its users do
  until it returns NULL.

## Proofs

Every theorem holds for all values of the constants that satisfy the assumption
of its module (`ASSUME` there).  The assumptions say what the constants are -
numbers, not 0 where the code could not run with 0; sets; sequences of records -
and little more: a program's cases have names of their own, a walk has roots
and they are directories, no directory is one of the two values that stand
for the place a walk began in and for what is out of it, and no option of
`getopt` has the value -1.

A reader who wants one proof should take `RingImplementsStack`, `PassedNormally`
or `CmReportsTrue`, in this order of length.

### LtpWatchdog (`LtpWatchdog_proofs`)

`TypeCorrect` (with `RunsGrouped`: only a process in its own group runs, so that
only grouped processes are doomed or leave strays), `AlwaysArmed`,
`PassedNormally` (`OnlyNormalEndsPass`) and `SweptClean` (`NoLeftovers`), for any
number of variants, retries and interrupts.

The frames of the handlers are a stack of any depth; for `AlwaysArmed` the lemmas
say what pushing, popping and replacing its top do to "some handler will re-arm
the timer".  The other two need `RunInv`: one test process exists at a time, and
the library's `test_pid` is that process from the moment `fork()` returned.
Without the second conjunct a signal to the group could miss it.

### LtpTestRun, LtpLifecycle and LtpOptions (`Ltp_proofs`)

* `StatusTold` and `ProcessesTold`, for any number of variants, cases, children
  and results.  A result goes through three places: a process records it, the
  counters hold it, the library gathers it into `ret`.  `ReportsSeen` and
  `Gathered` relate neighbours, `NobodyLeft` and `ReapedWell` say that a variant
  is gathered when no process of it can record any more.
* `NothingIsLeft` and `SetupIsHonest`, whatever calls fail in however many runs.
  `DirAcquired`/`DirReturned` and `IpcAcquired`/`IpcReturned` say for each place
  of the program which resources it holds on the way in and has still to return
  on the way out; `FailureKept` that a failure is in the counters from where it
  was met, or in `ret` where there are no counters.
* `RunsAsAsked`, for every description, environment and command line.
  `LoParsed` says that while options are parsed `iterations` and `duration` are
  those of the last `-i` and `-I` seen so far, and that only good options were
  passed; `LoCounted` that a round was begun because the iterations were not
  used up or the time was not over.  A test with `max_runtime` never starts,
  nor does one that is a `sample`.

### Harnesses (`Harnesses_proofs`)

* *cmocka.*  `CmStaysContained`: a part of a test runs with an empty signal mask
  saved at its setjmp, which is what makes the next fatal signal survivable too.
  `CmReportsTrue` (`CmReportHonest`), for groups of fewer than 256 tests - the
  exit status is a count modulo 256, and the groups here have one or two.  The
  invariant, `CmReportInv`, says of the tests before the current one that
  their verdict is what happened to them, that they own their messages, are
  counted, and have their line in a TAP report; of the current one, how far its
  status and its messages are; of the later ones that nothing is known.  A step
  of user code changes only what is said of the current test (`BodyEffect`,
  `ReportedStay`).  That the TAP plan is met is a bijection between tests and
  lines.
* *glibc.*  `GlReportsAreTrue` and `GlFilesGo`, for any script of a captured
  subprocess, size of a pipe and expected status.  The invariant is
  `GlRoles /\ GlKept /\ GlExits /\ GlJudged /\ GlPiped`: which processes exist at each
  place of the wrapper (nothing returns from a handler to the wait, so that what
  exits leaves no test that it could have killed; a captured subprocess outlives
  the test only where both are killed), who has registered which files and how
  far each is with removing them (only a wrapper whose exit function was
  interrupted ends with names on its list), what was recorded, and for each stream that what is stored, what is in the pipe and
  what is not written yet are together the script.
* *kernel.*  `KhVerdictIsHonest`, for every result and any number of interrupts,
  and `KhNeverWaitsUnlimited`: a waiting parent has an alarm set or is about to
  handle one, the safety half of `KernelTestEnds`.
* *gVisor, cosmopolitan.*  `GvHelpersAreTrue`: paths end in numbers below the
  counter, hence the next is new; a transfer has counted what it moved.
  `CoHelpersAreTrue`, for buffers of any size: `rngset` has filled exactly what
  it has counted, whatever the rest.
* *z88dk.*  `ZkAccounts`, for suites of any number of tests with parts of any
  length.  The invariant counts what went wrong so far: the failed tests are the
  bad ones below the current one (`ZkCounted`), the reports are in their order,
  each of the first part of its test that failed (`ZkTold`), a test behind was
  torn down once (`ZkTorn`), and where the current test is says what it can have
  done (`ZkAtNow`).  The lemmas follow a failed assertion through both jumps.
* *Cygwin.*  `CyDoesAsAsked`, for every command line, environment, `TST_TOTAL`,
  mode of output and number of results and rounds.  Two claims survive each of
  the ways in which `tst_res`, `tst_condense` and `tst_brk` buffer, merge and
  print, and `tst_flush` turns them into `CyReported`.  `CyHeard`, in every round:
  a result has a line of its type and text or is like the one in the buffer, and
  no line was invented (`CyResHeard`, `CyBrkHeard`).  `CyToldSoFar`, in the first
  round, whose numbers are still unique: all numbers below the buffered one are
  told by lines and by no wrong line, all from it on are of its type
  (`CyResTells`, `CyBrkTells`).  `CyLooping` bounds the counter from above, which `usc_test_looping` only tests
  from below.  `CyAssumption` says what `parse_opts` and `check_env` make sure of:
  values of options and variables are integers, the mode is one of four.

### gnulib (`Gnulib_proofs`, `Fts_proofs`)

* *cycle_check.*  `TypeCorrect`, `AlarmsAreTrue` (`NoFalseAlarm`) and
  `AbortUnreachable`, for any width of the counter and any depth.  The inductive
  invariant is `RecordOnPath` (once something was checked, the record is a
  directory the walk is in) and `CountsSinceStart` (a walk that has entered
  something has counted, or has wrapped around).
* *I_ring.*  `RingTypeCorrect`, `SlotsCorrect` (`UndefinedIsDefault`) and
  `RingImplementsStack`, the refinement `IRingSpec => ImplementsStack`, for every
  size.  A push that displaces must find the value the stack displaces, and one
  that does not must find the default, which is what `UndefinedIsDefault` says of
  the slots outside back..front.  The lemmas compute the indices (`%` with a
  wrap-around in both directions) and the abstract sequence before and after
  each operation.
* *tempname.*  `TnIsExclusive`, for any number of tests, directories, names and
  attempts: a file that a careful test holds was created by its own `O_EXCL`, and
  what exists when an attempt fails is what was in its way (`TnHeld`, `TnTold`).
* *FTS, the working directory.*  `CwdStaysListed` and `RingStaysSound`, for every
  tree, every size of the ring and every sequence of renames.  `FcAligned` says
  that the entries of the ring and the working directory are those of
  consecutive levels of the path, up to the current one (only the oldest may be,
  without the tight check, the directory that `stat` saw at its level), whatever
  they are called by now; `FcLinked` that each is the parent of the next unless
  the next was moved.
* *FTS, the entries.*  `FlNothingIsMissed` (`FlAllFound`) and `FlListIsSound`
  (`FlListSound`), for any directories, options, batches, failures and changes
  of the files.  `FlCounts` says that as long as nothing fails each entry was
  given, is in the list or is still to be read; the sorts are permutations of
  the list, one of all that agree with the order (`Orders`), and lose nothing
  (`FlSortIs`).  `FlSees` follows an entry that stays a directory from the list
  to the caller, `FlPaths` says where a node may point into an old buffer, and
  `FlDescendsIs` that a directory is only left unread for a link count of its own
  file system or a type that is stale.  `FlAssumption` asks for at least one
  root and for entries and devices that exist.
* *FTS, the walk.*  `CyclesReal` (`CyclesAreReal`) and `LeftOnce` (`LeftAsEntered`),
  for every graph, roots and batches of any size.  The invariant `Good` of a
  stream says that the active directories are the ones on the path, each
  entered once (`Inside`), or those without the current one (`Outside`),
  according to what the current node is; the lemmas follow the streams through
  the parts of `fts_read` and `fts_build`.

  In the lazy mode the path may meet a directory twice, and `Recent` takes the
  place of the table: the record was taken at a check whose number `p` is a
  power of two with `p <= counter < 2 * p`, is one of the directories entered,
  and as many checks were made since at least as there are directories below
  it.  Going up moves it along with the path; the check after the last one of
  that interval, being a power of two again, renews it (`CheckedRecent`, by
  `Doubles`: twice a power of two is one).  `RecordIsRecent` follows, and that
  the directory of an `FTS_DC` is on the path.

  Both are stated for setups that are `Tidy`: without a failing `readdir`, with
  the tight check also without a failing `fstat` and mounts, and without instructions on directories
  in post-order or that no `stat` survives.  These are not a convenience:
  `fts_read_error` and `fts_again` show the walk violate the properties with two
  of them, and the list of divergences above has the others (`fstat`: left
  twice; `mount` with full batches: a lost `FTS_DC`).  An `FTS_AGAIN` whose
  `stat` fails leaves the directory in the table, so that with both only one
  of them may happen, not two (`MaxTrouble = 1`).

  `MissesNothing` (`NothingMissed`) needs no `Tidy`: it holds for every setup,
  the lazy detection included, and of any set of directories, of which each has
  finitely many entries.  `WalkInv` says of a walk without troubles that whatever
  a directory that was read has in it was read itself, or is owed (`Owed`: a
  sibling to come at some level, or unread in a directory that is left open), or
  is at hand, and that the detection of cycles only knows directories that
  were read (`Known`), so that one that is not entered was not needed.
  `Reachable` is the least set with the roots and the entries of what it has:
  what was read is such a set when nothing is owed any more.

### ATF (`AtfProgram_proofs`)

`FailuresAreContained`, `VerdictIsHonest` and `ConfigReachesCases`, for all
cases, options, arguments and bodies and any number of failing allocations.  `AtfControl` says for each
label of the program which error is on flight and what the exit code is; the
memory is bounded from both sides: what is still to be freed is allocated, so
that no free is wrong, and what is allocated is still to be freed, or among the
`KnownLeaks`.  Maps keep their keys unique, which is why an insertion frees
exactly the value that the map gives up; blocks of parameters and of the program
have different owners, so that freeing the one cannot touch the other.

`ConfigReachesCases` (`ConfigReachesTests`) follows the values: `AtfConfig` says
that while the options are read the map holds the last value of each variable
named so far, and `params.srcdir` the normal form of the last `-s`, else of the
program's own directory; and that each later copy (parameters, test program,
test case) is right, save a value that a failing `strdup` left NULL.  For that, the
names of a path have to survive everything `atf_fs_path_*` does to it, for
strings of any length: normalizing, cutting off the last name, appending to the
working directory, stripping `.libs` (`NormalIs`, `NormalSplit`, `ArgvDir`,
`StripNames`, `FoundNames`), and a map its way through an array (`CopyIs`).
`Names` and `atf_map_init_charpp` are recursive functions; what holds of them is
proved by induction with a set in the place of a predicate: `SetInduction`, from
the library's well-founded order on the naturals.  `AtfAssumption` says what the
command lines are: argv[0] is the path of a file (a string that is not empty, in
which slashes separate the names, with none at the end), and the working
directory is not empty.  The texts after `-s` may be any, an empty one included.

### getopt (`Getopt_proofs`)

`GetoptIsSound` (`GoSound`), for all arguments, option strings, long options and
numbers of scans.  `GoAssumption` says that an argument is a sequence of
characters, that a long option has a number, and that no option's value is -1,
by which `getopt` tells its caller that the scan is over, and by which
`process_long_option` tells `getopt` that a word is no long option ("short" in
the model).  The argument has four parts.

* *`exchange` is a rotation.*  Each pass moves one segment to its place and leaves
  a smaller pair of adjacent segments, whose rotation is what is left to do
  (`Rotated`); the passes are a recursive function, and the induction is over
  sets of numbers, from the library's well-founded order (`UpFromZero`).  It
  follows that between two calls of a first scan `argv` is three blocks
  (`Blocks`, `Scanning`): the words taken as options and their arguments, the
  non-options skipped, and the rest where it always was, each in order.
* *A call sees the word at `optind` and the one after it, and nothing else.*
  Every way through short options, `W;`, long options and abbreviations returns
  what it does because of these two words and of whether there is a second
  (`Alike`), and changes `optind` and `nextchar` only (`Took`, `Takes`).  Where
  it depends on more, an option lacks its argument, and the result is "?" or ":".
* *The first scan is a chain of calls.*  The next option will move down past the
  skipped non-options to `Place(d)`.  `Leads` says that a call from that place in
  arguments that are sorted already would return the same and go on to the next
  place; `Order(d)` is the order that the arguments will have if nothing more
  is skipped.  `Traced` strings these together, and each further call either
  extends the chain or completes it (`Completes`).  A place once looked at does
  not move again, so that the chain stays one for every later `Order`.
* *Every later scan follows it.*  After the first scan the arguments are `Sorted`.
  A later scan, which starts with `optind` 0 or 1, is at a place of the chain
  before each call (`Repeats`), returns what the first one returned there, ends
  where that ended, and moves nothing.

`GoShape`, the inductive invariant, says for each moment of the program which of
these it is in.  A scan that met trouble - an option refused, or one that lacks
its argument - is where it ends: the next scan would find a non-option after
such an option, and take it (see *getopt* above), so the invariant says nothing
of the scans that follow.

### The hash table (`HashTable_proofs`)

`CellsAreSound`, that is `[](~strayed => CellsSound)`, and `TableIsASet`, the
refinement `HtSpec /\ []NotStrayed => ImplementsSet`, for every finite set of
keys, every tuning that `check_tuning` lets pass and every sequence of calls.
`NotStrayed` is the constraint of the run, and the divergence of
`hash_table_stack` makes both false without it.  `HashAssumption` asks beyond
that for a first chunk with a cell for every key (`Cardinality(Keys) <=
ChunkCells`): with it the stack of cells never ends, because a cell is taken
off it only when none is free, and then each has a key of its own (`Room`).

The invariant is `Sound(table, K)`: the table holds the keys of `K`, all cells
given out so far are in a chain or free, and the counters are right.

* *The heap of cells* (`Heap`).  Each live cell has an owner, a bucket or the list
  of free cells; each owner's first cell is its own, a link leads to a cell of the
  same owner and of lower rank, no two cells link to one, and every cell is
  first or linked to.  The rank, which exists and is never computed, is
  what makes a chain end: a walk that follows the links finds every cell of its
  owner once (`ChainIs`), however many there are.
* *What it holds* (`Content`).  The key of a bucket's head and those of its cells
  hash to the bucket, all keys differ, and an empty head has no chain.  Between
  the steps of a transfer there is a third kind of cell, in no chain of the new
  table and not free: those still to be moved (`P` in `Holds(t, L, P, K)`), which
  must have keys that the new table does not have yet.
* *Operations.*  A cell is freed, recycled, linked, unlinked or taken in hand
  (`HoldsFree` to `HoldsInHand`); insertion, removal and `CellMoved` are strings
  of these (`PutIs`, `HoldsDeleted`, `CellMovedIs`).  `transfer_entries` goes
  through buckets and chains by recursive functions; that every member arrives
  (`BucketStage`, `TransferStage`) is an induction over sets of numbers, like
  those of `getopt`.
* *What the runs check* follows: a walk over all buckets and the free list lists
  the cells, and a walk over the entries the members, each once (`CellsInUseAre`,
  `AllEntriesAre`); a bijection turns the length of such a list into the count.

### The script (`Harnesses_proofs`)

`RunnerTypeCorrect`, `NeverOverloaded` (`LoadBounded`) and `StatusIsRight`
(`VerdictRight`), for any number of tests and processors.  `RunnerIInv` adds that
tests start in order, that the lines in the file are those of the tests that ended,
each judged by what its command did, that no wrapper hides a failed program
where `set -e` is in force (`NothingLost`, by `WrappersTell`), and that a count made before a decision is at
least the number of tests still active, which bounds the load even though jobs
end between count and start.

### Only model-checked

Liveness (`NothingRunsOn`, `GlEnds`, `KernelTestEnds`, `ScriptEnds`,
`WalkEnds`): the prover does not reason about `ENABLED` and fairness.  Every
invariant of a run that passes, and each of the two refinements, is proved; what the
three runs of the second table refute is not.

## Abstractions

* **LTP.**  SIGKILL takes effect at once in `LtpTestRun`; that a killed process
  may linger is `LtpWatchdog`'s.  User code reports, breaks, forks, crashes,
  hangs or returns; it does not call `exit()` by itself.  A child that detaches
  itself changes its parent, not its process group, and `cleanup()` forks none.  User ids are not
  modelled (a test that drops its privileges cannot send heartbeats).
  `SlowFork` says whether the timer may expire before `fork()` has returned in
  the library; it may, if the machine is slow enough.  In `LtpOptions` a text on
  the command line is what `strtol` makes of it, and a step of the clock is a
  second.
* **Hash table.**  A key is its hash.  The obstack is one chunk that is large
  enough; tuning arithmetic is exact where the code's is in `float`.  The part
  of `hash_rehash` that undoes a failed transfer cannot be reached:
  `obstack_alloc` ends the process rather than return NULL.
* **FTS.**  Three modules look at one function.  `FtsWalk` has directories only:
  no links, sorting or memory failures; a mount that is met when a directory is
  opened does not persist.  A graph with cycles is what `FTS_LOGICAL` sees of
  symbolic links and `FTS_PHYSICAL` of bind mounts; the record that `malloc`
  leaves undetermined is any directory; the counter of checks does not wrap around
  there, which 2^64 checks would take (`CycleCheck` has that).  `FtsCwd` has one root, no entries, and
  a file system whose directories are renamed between two resolutions of a name;
  the ring is `BoundedStack`'s.  `FtsLeaf` has entries of every kind in
  directories that the caller skips, and the buffer of the path as a number that
  changes with every move; another file system is mounted, if at all, before a
  root is entered.  `FTS_XDEV`, `FTS_SEEDOT`, `FTS_FOLLOW`'s descriptor
  and `fts_children` are in none of them.
* **Script.**  `jobs | wc -l` counts the active jobs and any number of those
  that have ended but were not waited for: what bash lists depends on when it
  reaps and notifies.  `set -e` is ignored in the commands before a `&&` or
  `||`, by the letter of the manual also in the `eval` of line 170, which runs
  there as a part of a pipeline.  bash 5.2 does not ignore it in such an `eval`:
  with it `set -eo pipefail; f() { false; echo after; }; { eval f | cat && echo
  passed; } || echo failed` prints "failed", and so do the script's own
  wrappers around a program that fails and prints nothing.  As neither is the
  script's to decide, `errexit` is either.  A status is 0 or 1, for all others.
  Output is whether it has a line that is not empty.
* **ATF.**  Strings are sequences of tokens, memory is a set of named blocks.
  Nothing in the header sets an expectation, so that everything but
  `EXPECT_PASS` is unreachable.
* **cmocka.**  Messages are the places they come from.  `setjmp` is `sigsetjmp`
  where the header finds it, and that is what is modelled.  There is no mocking, no
  filter and no skipping in this header.
* **glibc.**  A second `exit()`, from a handler that interrupts the first, is
  undefined by the C standard; it is modelled as C libraries do it: functions
  not yet called are called, the interrupted one is not called again.  A file is
  removed and taken off its list in one step, as a signal between the two finds
  the list abandoned.
* **glibc, kernel.**  Alarms go off at any time after they were set, in the
  kernel's harness not in the instructions between `alarm()` and `waitpid()`.
* **Cygwin, gVisor, cosmopolitan, z88dk.**  What a test computes is whether each
  check holds.  Times are not compared in `CygwinTest`: whether a duration is
  over is left open; a round with or without functional testing (`-f`) may count
  cases that it does not report (`cygwin-06.c:250`).  z88dk's bound of 300 tests, which `suite_add_test` does
  not check, is not modelled; the largest suites have 256.
* **getopt.**  Arguments are sequences of characters with numbers, so that a
  permutation can be told; messages are left out.  The loop of `exchange` is as
  many passes as there are elements to exchange, of which those that find nothing
  left change nothing.
* **tempname.**  Random values are any values.

### Not modelled

* The LTP's old API in `linux-test-project.h` (unreachable when `tst_test` is
  set, as in every test here; the same code is modelled where it is used, in
  `cygwin.h`) and its wrappers of single system calls.
* obstack's chunks: arithmetic on pointers and sizes whose limits TLC does not
  reach.
* The remaining harnesses: macros that print and exit, or count, at the first
  failed comparison.  `wine.h` prints failures and never changes an exit status.
* The tests, the build, and the vendored compiler macros.

`PROJECT.json` lists them with the reasons.

## Plan

1. *Proofs*: `ActiveExact` for the setups of `FtsWalk` with a mount and batches
   that are never full.
2. An abstract "supervised test" that `LtpWatchdog`, `GlibcTest` and
   `KernelHarness` implement: a test that was killed never passes, and the
   supervisor ends.
3. *FTS*: `FtsWalk` over `FtsCwd` and `FtsLeaf`, so that instructions meet
   renames and links; `FTS_FOLLOW`.
4. *obstack*, and the hash table over it instead of over one chunk.
