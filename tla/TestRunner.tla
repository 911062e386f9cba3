----------------------------- MODULE TestRunner -----------------------------
(***************************************************************************)
(* run_test_binaries.sh: one shell starts every test as a background job,  *)
(* holding back while too many jobs run; each job judges its test by exit  *)
(* status and output and appends one line to the results file; the shell   *)
(* waits for all of them and turns the file into its own exit status.      *)
(* The tests themselves, and bash's job table, are external; so is whether *)
(* set -e holds within an eval that is a part of a pipeline on the left of *)
(* && and ||, on which it depends what some wrappers make of a status.     *)
(***************************************************************************)
EXTENDS Naturals, FiniteSets

CONSTANTS NTests,           \* run_one_test calls
          PROCESSOR_COUNT   \* nproc --ignore=2, at least 1

ASSUME RunnerAssumption == NTests \in Nat \ {0} /\ PROCESSOR_COUNT \in Nat \ {0}

VARIABLES
  errexit,     \* set -e holds within the eval of a job
  pc,          \* the shell: "count", "loop", "wait", "drain", "judge", "done"
  next,        \* the test run_one_test is called for
  JOBS_COUNT,
  job,         \* "none", "running", "passed"/"failed" (no line yet), "ended", "waited"
  outcome,     \* how each test went, once it ended (history)
  lines,       \* the results file
  code         \* the shell's exit status

vars == <<errexit, pc, next, JOBS_COUNT, job, outcome, lines, code>>

Tests == 1 .. NTests

\* The exit status of the test program, that of the command that runs it, 1 for all but 0,
\* and whether the command put out a line that is not empty.
Outcomes == [exits : {0, 1}, status : {0, 1}, text : BOOLEAN]

Jobs(states) == {i \in Tests : job[i] \in states}
Active == Jobs({"running", "passed", "failed"})

Init ==
  /\ pc = "count" /\ next = 1 /\ JOBS_COUNT = 0
  /\ job = [i \in Tests |-> "none"]
  /\ outcome = [i \in Tests |-> [exits |-> 0, status |-> 0, text |-> FALSE]]
  /\ lines = {} /\ code = 0 /\ errexit \in BOOLEAN

\* $(jobs | wc -l): bash lists the active jobs, and may still list some that
\* have ended and were not waited for.
Count(then) ==
  /\ \E done \in SUBSET Jobs({"ended"}) : JOBS_COUNT' = Cardinality(Active \cup done)
  /\ pc' = then
  /\ UNCHANGED <<errexit, next, job, outcome, lines, code>>

CountJobs == pc = "count" /\ Count("loop")

NeverTooMany == FALSE                                             \* mutant

TooMany == JOBS_COUNT > PROCESSOR_COUNT

\* wait -n: some job that has ended, now or earlier; then count again.
HoldBack ==
  /\ pc = "loop"
  /\ TooMany
  /\ pc' = "wait"
  /\ UNCHANGED <<errexit, next, JOBS_COUNT, job, outcome, lines, code>>

WaitAny(i) ==
  /\ pc = "wait"
  /\ job[i] = "ended"
  /\ job' = [job EXCEPT ![i] = "waited"]
  /\ pc' = "count"
  /\ UNCHANGED <<errexit, next, JOBS_COUNT, outcome, lines, code>>

StartTest ==                                              \* { ... } &
  /\ pc = "loop"
  /\ ~TooMany
  /\ job' = [job EXCEPT ![next] = "running"]
  /\ IF next = NTests THEN pc' = "drain" /\ UNCHANGED next
                      ELSE pc' = "count" /\ next' = next + 1
  /\ UNCHANGED <<errexit, JOBS_COUNT, outcome, lines, code>>

\* What a command's status can be, from the program's and from whether there is text.
do_mtrace_test(exits, text) ==                  \* the program, then mtrace | diff, rm, unset
  IF errexit THEN {exits} \cup (IF text THEN {1} ELSE {}) ELSE {0}

do_output_diff_test(status, text) == IF text THEN 1 ELSE status    \* pipefail

do_output_lines_only_in_executable_output_test(exits, text) ==
  IF text \/ (errexit /\ exits # 0) THEN 1 ELSE 0

do_printf_NetBSD_t(exits, text) ==              \* two programs, each with a diff
  IF errexit \/ ~(text \/ exits # 0) THEN {do_output_diff_test(exits, text)} ELSE {0, 1}

do_printf_gnulib_test_posix2(exits, text) ==    \* echoes what failed
  IF exits # 0 => text THEN {0} ELSE {}

Statuses(exits, text) ==
  {exits, do_output_diff_test(exits, text),
   do_output_lines_only_in_executable_output_test(exits, text)}
    \cup do_mtrace_test(exits, text)
    \cup {do_output_diff_test(status, text) : status \in do_mtrace_test(exits, text)}
    \cup do_printf_NetBSD_t(exits, text) \cup do_printf_gnulib_test_posix2(exits, text)

\* The job: eval "$1" |& { ! grep . 1>&2; }, under pipefail; empty lines escape the grep.
StatusOnly(o) == IF o.status = 0 THEN "passed" ELSE "failed"      \* mutant

VerdictOf(o) == IF o.status = 0 /\ ~o.text THEN "passed" ELSE "failed"

TestEnds(i, o) ==
  /\ job[i] = "running" /\ o.status \in Statuses(o.exits, o.text)
  /\ outcome' = [outcome EXCEPT ![i] = o]
  /\ job' = [job EXCEPT ![i] = VerdictOf(o)]
  /\ UNCHANGED <<errexit, pc, next, JOBS_COUNT, lines, code>>

AppendLine(i) ==                                          \* tee -a
  /\ job[i] \in {"passed", "failed"}
  /\ lines' = lines \cup {<<i, job[i]>>}
  /\ job' = [job EXCEPT ![i] = "ended"]
  /\ UNCHANGED <<errexit, pc, next, JOBS_COUNT, outcome, code>>

\* wait, for everything; then grep the file.
AllWaited == Jobs({"waited"}) = Tests                             \* mutant

AllEnded == Active = {}

WaitAll ==
  /\ pc = "drain"
  /\ AllEnded
  /\ pc' = "judge"
  /\ UNCHANGED <<errexit, next, JOBS_COUNT, job, outcome, lines, code>>

Judge ==
  /\ pc = "judge"
  /\ code' = IF \E l \in lines : l[2] = "failed" THEN 1 ELSE 0
  /\ pc' = "done"
  /\ UNCHANGED <<errexit, next, JOBS_COUNT, job, outcome, lines>>

Shell == CountJobs \/ HoldBack \/ StartTest \/ WaitAll \/ Judge \/ \E i \in Tests : WaitAny(i)

JobStep(i) == AppendLine(i) \/ \E o \in Outcomes : TestEnds(i, o)

Next == Shell \/ \E i \in Tests : JobStep(i)

Spec == Init /\ [][Next]_vars

\* Every test comes to an end (nothing here enforces it), and the shell runs.
FairSpec == Spec /\ WF_vars(Shell) /\ \A i \in Tests : WF_vars(JobStep(i))

-----------------------------------------------------------------------------
TypeOK ==
  /\ errexit \in BOOLEAN
  /\ pc \in {"count", "loop", "wait", "drain", "judge", "done"}
  /\ next \in Tests
  /\ JOBS_COUNT \in 0 .. NTests
  /\ job \in [Tests -> {"none", "running", "passed", "failed", "ended", "waited"}]
  /\ outcome \in [Tests -> Outcomes]
  /\ lines \subseteq Tests \X {"passed", "failed"}
  /\ code \in {0, 1}
  /\ pc = "wait" => Active \cup Jobs({"ended"}) # {}     \* what wait -n waits for

\* "Try and only run as many tests as there are processors simultaneously" (157):
\* one more, in fact, and never more than that, whatever ends between the count
\* and the start (165-170).
LoadBounded == Cardinality(Active) <= PROCESSOR_COUNT + 1

\* When the script ends every test has exactly one line, and the status is 1 exactly if some
\* test's command exited non-zero or put out a line that is not empty (170, 230-236).  Where
\* set -e holds within the evals, no wrapper loses a test program's status: 0 says that all
\* of them exited with 0.
VerdictRight ==
  pc = "done" =>
    /\ \A i \in Tests : \E v \in {"passed", "failed"} : {l \in lines : l[1] = i} = {<<i, v>>}
    /\ code = 1 <=> \E i \in Tests : outcome[i].status # 0 \/ outcome[i].text
    /\ errexit /\ code = 0 => \A i \in Tests : outcome[i].exits = 0

\* If every test ends, so does the script: wait -n is never called for nothing.
ScriptEnds == <>(pc = "done")
=============================================================================
