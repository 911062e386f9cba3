------------------------------- MODULE Cmocka -------------------------------
(***************************************************************************)
(* The cmocka test runner (cmocka.h): a group of tests with its fixtures.  *)
(* Every test and fixture runs between a setjmp and a leave: a failed      *)
(* assertion, or the handler of a fatal signal, jumps back to the setjmp,  *)
(* which must leave the process fit for the next test.                     *)
(*                                                                         *)
(* The header has no test_malloc and no mocking functions, so its lists of *)
(* allocated blocks and of mocked values are always empty, and nothing     *)
(* sets global_skip_test, global_stop_test or the filters: what depends on *)
(* them cannot be reached and is left out.  Messages are the sequences of  *)
(* what they were made from: <<phase, test>> of each failure.              *)
(***************************************************************************)
EXTENDS Naturals, Sequences, FiniteSets

CONSTANTS
    CmGroups,       \* groups that may run: [setup, teardown, tests]
    CmSignals,      \* exception_signals
    CmOutputs,      \* values of CMOCKA_MESSAGE_OUTPUT: sets of names, {} if unset
    CmMaxFaults     \* bound on failing allocations

ASSUME CmAssumption == \A g \in CmGroups : g.tests \in Seq([setup : BOOLEAN, teardown : BOOLEAN])

VARIABLES
    cm_group,       \* the group's fixtures and tests (each [setup, teardown])
    cm_abort,       \* CMOCKA_TEST_ABORT is "1"
    cm_env,         \* CMOCKA_MESSAGE_OUTPUT
    cm_phase,       \* what runs, or runs next
    cm_step,        \* "enter", "body" or "after"
    cm_i,           \* the test's number
    cm_running,     \* global_running_test
    cm_handler,     \* the signals' handler: "default" or "exception"
    cm_blocked,     \* the signal mask
    cm_saved,       \* the mask in global_run_test_env
    cm_rc,
    cm_error_message,
    cm_status,      \* status of the tests
    cm_messages,    \* error_message of the tests
    cm_total,       \* total_executed, _passed, _failed and _errors
    cm_faults,
    cm_ending,      \* "none", "exit", "abort" or "signal"
    cm_exit,        \* the exit status
    \* seen only by the properties
    cm_out,         \* what was printed: <<format, verdict, test>> or with a message
    cm_broken       \* <<phase, test>> that failed

cmvars == <<cm_group, cm_abort, cm_env, cm_phase, cm_step, cm_i, cm_running, cm_handler,
            cm_blocked, cm_saved, cm_rc, cm_error_message, cm_status, cm_messages,
            cm_total, cm_faults, cm_ending, cm_exit, cm_out, cm_broken>>
cmConfig == <<cm_group, cm_abort, cm_env>>
cmReport == <<cm_status, cm_messages, cm_total, cm_out>>
cmSignalState == <<cm_running, cm_handler, cm_blocked, cm_saved>>

CmTests == cm_group.tests
CmHere == <<cm_phase, cm_i>>
CmFault == cm_faults < CmMaxFaults /\ cm_faults' = cm_faults + 1

CmInit ==
    /\ cm_group \in CmGroups /\ cm_abort \in BOOLEAN /\ cm_env \in CmOutputs
    /\ cm_phase = "main" /\ cm_step = "after" /\ cm_i = 0
    /\ cm_running = FALSE /\ cm_handler = "default" /\ cm_blocked = {} /\ cm_saved = {}
    /\ cm_rc = 0 /\ cm_error_message = <<>>
    /\ cm_status = [i \in DOMAIN CmTests |-> "NOT_STARTED"]
    /\ cm_messages = [i \in DOMAIN CmTests |-> <<>>]
    /\ cm_total = [executed |-> 0, passed |-> 0, failed |-> 0, errors |-> 0]
    /\ cm_faults = 0 /\ cm_ending = "none" /\ cm_exit = 0 /\ cm_out = {} /\ cm_broken = {}

----------------------------------------------------------------------------
\* Messages and output formats.

\* cm_get_output, where its strdup does not fail.
CmFormats == {"STANDARD", "SUBUNIT", "TAP", "XML"}
cm_get_output == IF cm_env \cap CmFormats = {} THEN {"STANDARD"} ELSE cm_env \cap CmFormats

\* cmocka_print_error: appends, unless there is no memory for it.
cmocka_print_error(what) ==
    \/ cm_error_message' = Append(cm_error_message, what) /\ UNCHANGED cm_faults
    \/ cm_error_message' = cm_error_message /\ CmFault

\* cmprintf for one test.
CmPrints(format, verdict) ==
    CASE format = "STANDARD" -> verdict \in {"FAILURE", "ERROR"}
      [] format = "SUBUNIT"  -> TRUE
      [] format = "TAP"      -> verdict # "START"
      [] format = "XML"      -> FALSE
cmprintf(verdict, i) == {<<f, verdict, i>> : f \in {g \in cm_get_output : CmPrints(g, verdict)}}

----------------------------------------------------------------------------
\* _cmocka_run_group_tests, up to the first fixture.
CmGoto(phase) == cm_phase' = phase /\ cm_step' = "enter"

CmTest(i, printed) ==
    /\ cm_i' = i
    /\ IF i > Len(CmTests)
       THEN CmGoto(IF cm_group.teardown THEN "group_teardown" ELSE "finish")
            /\ cm_out' = cm_out \cup printed
       ELSE CmGoto(IF CmTests[i].setup THEN "setup" ELSE "test")
            /\ cm_out' = cm_out \cup printed \cup cmprintf("START", i)

CmEnd(how, status) ==
    cm_phase' = "ended" /\ cm_step' = "after" /\ cm_ending' = how /\ cm_exit' = status

CmPlan == IF "TAP" \in cm_get_output THEN {<<"TAP", "plan", Len(CmTests)>>} ELSE {}
CmMain ==
    /\ cm_phase = "main"
    /\ IF cm_group.setup
       THEN CmGoto("group_setup") /\ cm_out' = cm_out \cup CmPlan /\ UNCHANGED cm_i
       ELSE CmTest(1, CmPlan)
    /\ UNCHANGED <<cmConfig, cmSignalState, cm_rc, cm_error_message, cm_status, cm_messages,
                   cm_total, cm_faults, cm_ending, cm_exit, cm_broken>>

CmNoTable ==
    /\ cm_phase = "main" /\ CmFault /\ CmEnd("exit", 255)
    /\ UNCHANGED <<cmConfig, cmReport, cmSignalState, cm_i, cm_rc, cm_error_message,
                   cm_broken>>

----------------------------------------------------------------------------
\* cmocka_run_one_test_or_fixture.
CmFixture == {"group_setup", "setup", "teardown", "group_teardown"}

CmEnter ==
    /\ cm_phase \in CmFixture \cup {"test"} /\ cm_step = "enter"
    /\ cm_handler' = "exception" /\ cm_running' = TRUE /\ cm_saved' = cm_blocked
    /\ cm_step' = "body"
    /\ UNCHANGED <<cmConfig, cmReport, cm_phase, cm_i, cm_blocked, cm_rc, cm_error_message,
                   cm_faults, cm_ending, cm_exit, cm_broken>>

CmLeave(rc) ==
    /\ cm_running' = FALSE /\ cm_handler' = "default" /\ cm_rc' = rc /\ cm_step' = "after"

\* The function returns; a fixture may return an error.
CmReturns ==
    /\ cm_step = "body"
    /\ \/ CmLeave(0) /\ UNCHANGED cm_broken
       \/ cm_phase \in CmFixture /\ CmLeave(1) /\ cm_broken' = cm_broken \cup {CmHere}
    /\ UNCHANGED <<cmConfig, cmReport, cm_phase, cm_i, cm_blocked, cm_saved, cm_error_message,
                   cm_faults, cm_ending, cm_exit>>

\* The signal mask after siglongjmp: the one that sigsetjmp(env, 1) saved.
Unsaved(mask) == mask \* mutant
MaskAfterJump(mask) == cm_saved

\* exit_test, called with mask blocked.
exit_test(mask) ==
    \/ cm_abort /\ CmEnd("abort", 0) /\ UNCHANGED <<cmSignalState, cm_rc>>
    \/ ~cm_abort /\ cm_running /\ CmLeave(2) /\ cm_blocked' = MaskAfterJump(mask)
         /\ UNCHANGED <<cm_phase, cm_saved, cm_ending, cm_exit>>

\* A failed assertion: its text, then _fail's.
CmFails ==
    /\ cm_step = "body" /\ cmocka_print_error(CmHere) /\ exit_test(cm_blocked)
    /\ cm_broken' = cm_broken \cup {CmHere}
    /\ UNCHANGED <<cmConfig, cmReport, cm_i>>

\* A fatal signal: its handler runs with it blocked; it kills if it was blocked already.
CmRaises(sig) ==
    /\ cm_step = "body" /\ cm_broken' = cm_broken \cup {CmHere}
    /\ IF sig \in cm_blocked \/ cm_handler = "default"
       THEN CmEnd("signal", 0)
            /\ UNCHANGED <<cmSignalState, cm_rc, cm_error_message, cm_faults>>
       ELSE cmocka_print_error(CmHere) /\ exit_test(cm_blocked \cup {sig})
    /\ UNCHANGED <<cmConfig, cmReport, cm_i>>

----------------------------------------------------------------------------
\* cmocka_run_one_tests and the loop of _cmocka_run_group_tests.
CmKept == <<cmConfig, cmSignalState, cm_rc, cm_ending, cm_exit, cm_broken>>

\* A test whose setup failed is not run, and not torn down.
CmAfterSetup ==
    /\ cm_phase = "setup" /\ cm_step = "after"
    /\ \/ cm_rc = 0 /\ CmGoto("test") /\ UNCHANGED <<cm_status, cm_error_message, cm_faults>>
       \/ cm_rc # 0 /\ cm_phase' = "report" /\ cm_step' = "after"
            /\ cm_status' = [cm_status EXCEPT ![cm_i] = "ERROR"] /\ cmocka_print_error(CmHere)
    /\ UNCHANGED <<CmKept, cm_i, cm_messages, cm_total, cm_out>>

CmAfterTest ==
    /\ cm_phase = "test" /\ cm_step = "after"
    /\ cm_status' = [cm_status EXCEPT ![cm_i] = IF cm_rc = 0 THEN "PASSED" ELSE "FAILED"]
    /\ cm_rc' = 0
    /\ IF CmTests[cm_i].teardown THEN CmGoto("teardown")
       ELSE cm_phase' = "report" /\ cm_step' = "after"
    /\ UNCHANGED <<cmConfig, cmSignalState, cm_i, cm_error_message, cm_messages,
                   cm_total, cm_faults, cm_ending, cm_exit, cm_out, cm_broken>>

CmAfterTeardown ==
    /\ cm_phase = "teardown" /\ cm_step = "after" /\ cm_phase' = "report"
    /\ \/ cm_rc = 0 /\ UNCHANGED <<cm_status, cm_error_message, cm_faults>>
       \/ cm_rc # 0 /\ cm_status' = [cm_status EXCEPT ![cm_i] = "ERROR"]
            /\ cmocka_print_error(CmHere)
    /\ UNCHANGED <<CmKept, cm_step, cm_i, cm_messages, cm_total, cm_out>>

\* The test takes its message along; its verdict is printed and counted.
Kept(message) == message \* mutant
Taken(message) == <<>>
Verdict == IF cm_rc # 0 THEN "ERROR"
           ELSE IF cm_status[cm_i] = "PASSED" THEN "SUCCESS" ELSE "FAILURE"
CmCount(field, verdict) == cm_total[field] + (IF Verdict = verdict THEN 1 ELSE 0)
CmReport ==
    /\ cm_phase = "report"
    /\ cm_messages' = [cm_messages EXCEPT ![cm_i] = cm_error_message]
    /\ cm_error_message' = Taken(cm_error_message)
    /\ cm_total' = [executed |-> cm_total.executed + 1, passed |-> CmCount("passed", "SUCCESS"),
                    failed |-> CmCount("failed", "FAILURE"), errors |-> CmCount("errors", "ERROR")]
    /\ CmTest(cm_i + 1, cmprintf(Verdict, cm_i))
    /\ UNCHANGED <<CmKept, cm_status, cm_faults>>

\* The group's fixtures: a failing teardown is printed, and not counted.
CmAfterGroupSetup ==
    /\ cm_phase = "group_setup" /\ cm_step = "after"
    /\ \/ cm_rc = 0 /\ CmTest(1, {}) /\ UNCHANGED <<cm_error_message, cm_total>>
       \/ /\ cm_rc # 0 /\ cm_error_message' = <<>>
          /\ cm_total' = [cm_total EXCEPT !.errors = @ + 1]
          /\ cm_out' = cm_out \cup cmprintf("ERROR", 0)
          /\ CmGoto(IF cm_group.teardown THEN "group_teardown" ELSE "finish")
          /\ UNCHANGED cm_i
    /\ UNCHANGED <<CmKept, cm_status, cm_messages, cm_faults>>

CmAfterGroupTeardown ==
    /\ cm_phase = "group_teardown" /\ cm_step = "after" /\ CmGoto("finish")
    /\ \/ cm_rc = 0 /\ UNCHANGED <<cm_error_message, cm_out>>
       \/ cm_rc # 0 /\ cm_error_message' = <<>> /\ cm_out' = cm_out \cup cmprintf("ERROR", 0)
    /\ UNCHANGED <<CmKept, cm_i, cm_status, cm_messages, cm_total, cm_faults>>

\* cmprintf_group_finish, and the exit status of main: eight bits of the count.
Executed == 1..cm_total.executed
CmListed == {<<"STANDARD", "listed", i>> : i \in {j \in Executed : cm_status[j] = "FAILED"}}
CmTapGroup ==
    {<<"TAP", IF cm_total.passed = cm_total.executed THEN "group ok" ELSE "group not ok", 0>>}
CmXml == {<<"XML", cm_status[i], i, cm_messages[i]>> : i \in Executed}
CmSummary(format) ==
    CASE format = "STANDARD" -> CmListed [] format = "SUBUNIT" -> {}
      [] format = "TAP" -> CmTapGroup [] format = "XML" -> CmXml
CmFinish ==
    /\ cm_phase = "finish"
    /\ cm_out' = cm_out \cup UNION {CmSummary(format) : format \in cm_get_output}
    /\ CmEnd("exit", (cm_total.failed + cm_total.errors) % 256)
    /\ UNCHANGED <<cmConfig, cmSignalState, cm_i, cm_rc, cm_error_message, cm_status,
                   cm_messages, cm_total, cm_faults, cm_broken>>

CmNext == \/ CmMain \/ CmNoTable \/ CmEnter \/ CmReturns \/ CmFails
          \/ \E sig \in CmSignals : CmRaises(sig)
          \/ CmAfterSetup \/ CmAfterTest \/ CmAfterTeardown \/ CmReport
          \/ CmAfterGroupSetup \/ CmAfterGroupTeardown \/ CmFinish

CmSpec == CmInit /\ [][CmNext]_cmvars

----------------------------------------------------------------------------
(***************************************************************************)
(* The group's answer is 0 only if its setup and every test with its       *)
(* fixtures succeeded, and the table of tests says which did not, each     *)
(* with messages of its own only: none that an earlier test left behind.   *)
(* Where TAP is printed throughout, its plan is met.                       *)
(***************************************************************************)
Broken(i) == \E phase \in {"setup", "test", "teardown"} : <<phase, i>> \in cm_broken
GroupBroken == \E what \in cm_broken : what[1] = "group_setup"
TapLines == {line \in cm_out : line[1] = "TAP" /\ line[2] \in {"SUCCESS", "FAILURE", "ERROR"}}

CmReportHonest ==
    /\ \A i \in DOMAIN CmTests : \A k \in DOMAIN cm_messages[i] : cm_messages[i][k][2] = i
    /\ cm_ending = "exit" /\ cm_exit = 0 =>
        ~GroupBroken /\ \A i \in DOMAIN CmTests : cm_status[i] = "PASSED" /\ ~Broken(i)
    /\ cm_ending = "exit" /\ cm_exit # 255 /\ ~GroupBroken => \A i \in DOMAIN CmTests :
        /\ cm_status[i] = "PASSED" <=> ~Broken(i)
        /\ cm_status[i] = "ERROR" <=> <<"setup", i>> \in cm_broken \/ <<"teardown", i>> \in cm_broken
        /\ Broken(i) /\ cm_faults = 0 => cm_messages[i] # <<>>
        /\ {line[2] : line \in {l \in TapLines : l[3] = i}} \subseteq
             {IF cm_status[i] = "PASSED" THEN "SUCCESS"
              ELSE IF cm_status[i] = "FAILED" THEN "FAILURE" ELSE "ERROR"}
    /\ cm_ending = "exit" /\ cm_faults = 0 /\ ~GroupBroken /\ "TAP" \in cm_env =>
        Cardinality({line \in TapLines : line[3] > 0}) = Len(CmTests)

(***************************************************************************)
(* A failure stays in its test: unless CMOCKA_TEST_ABORT asks for it, no   *)
(* failed assertion and no fatal signal ends the process, however many     *)
(* have been survived; between tests the signals are unblocked and have    *)
(* their own handlers again.                                               *)
(***************************************************************************)
CmContained ==
    /\ cm_ending \notin {"signal"} /\ (cm_ending = "abort" => cm_abort)
    /\ cm_step # "body" /\ cm_ending = "none" =>
        cm_handler = "default" /\ ~cm_running /\ cm_blocked = {}
=============================================================================
