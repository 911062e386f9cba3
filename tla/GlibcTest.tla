----------------------------- MODULE GlibcTest ------------------------------
(***************************************************************************)
(* A test of glibc's test driver (glibc.h, glibc/test-driver.h): the       *)
(* wrapper support_test_main, the process it forks for the test function,  *)
(* and the subprocess whose output the test may capture.                   *)
(*                                                                         *)
(* The wrapper waits for the test; SIGALRM (the time limit) and SIGINT     *)
(* reach it between any two steps, also when the test is already reaped:   *)
(* nothing disarms the alarm.  Failures are counted in memory shared by    *)
(* all processes.  Each process removes, when it exits, the temporary      *)
(* files that it registered itself, one after the other: a signal that the *)
(* wrapper handles in the midst of this leaves the rest where they are.    *)
(***************************************************************************)
EXTENDS Integers, Sequences, FiniteSets

CONSTANTS
    GlConfigs,      \* struct test_config and options: [status, signal, cleanup, direct]
    GlScripts,      \* what a captured subprocess writes: sequences of streams
    GlPipe,         \* chunks that a pipe holds
    GlMaxFiles,     \* bound on temporary files per process
    GlMaxFaults     \* bound on failing system calls

Streams == {"out", "err"}
ASSUME GlAssumption ==
    /\ GlConfigs \subseteq [status : Nat, signal : Nat, cleanup : BOOLEAN, direct : BOOLEAN]
    /\ GlScripts \subseteq Seq(Streams)
    /\ GlPipe \in Nat \ {0} /\ GlMaxFiles \in Nat /\ GlMaxFaults \in Nat

VARIABLES
    gl_config,
    gl_pc,          \* the wrapper
    gl_sig,         \* the signal its handler is called for, 0 if none
    gl_killed,      \* the handler's waitpid: "pid", "0" or "-1"
    gl_sigint,      \* the user may still press ^C
    gl_alarm,       \* the alarm is set
    gl_caught,      \* signals that the handler is installed for
    gl_child,       \* the test: "none", "new", "runs", "exiting", "dying", "zombie" or "reaped"
    gl_group,       \* setpgid has been done
    gl_wait,        \* its wait status: <<"exit", n>> or <<"signal", s>>
    gl_failed,      \* state->failed
    gl_lists,       \* temp_name_list of the wrapper and of the test: sets of files
    gl_files,       \* temporary files that exist: <<owner, number>>
    gl_atexit,      \* the wrapper's exit function: "registered", "running" (its last call
                    \* began, and may have been interrupted for good) or "done"
    gl_cleaned,     \* the cleanup handler was called
    gl_exit,        \* the wrapper's wait status
    gl_faults,
    \* support_capture_subprocess
    gl_sub,         \* the subprocess: "none", "runs", "dead" or "reaped"
    gl_todo,        \* what it has still to write
    gl_pipes,       \* unread chunks per stream
    gl_events,      \* streams that are polled
    gl_stored,      \* chunks stored per stream
    gl_script       \* what it was to write (seen only by the properties)

glParent == <<gl_pc, gl_sig, gl_killed, gl_sigint, gl_alarm, gl_caught, gl_cleaned, gl_exit>>
glChild == <<gl_child, gl_group, gl_wait>>
glTemp == <<gl_lists, gl_files, gl_atexit>>
glCapture == <<gl_sub, gl_todo, gl_pipes, gl_events, gl_stored, gl_script>>
glvars == <<gl_config, glParent, glChild, gl_failed, glTemp, gl_faults, glCapture>>

SIGINT == 2
SIGKILL == 9
SIGSEGV == 11
SIGALRM == 14
GlFault == gl_faults < GlMaxFaults /\ gl_faults' = gl_faults + 1

GlInit ==
    /\ gl_config \in GlConfigs
    /\ gl_pc = "prepare" /\ gl_sig = 0 /\ gl_killed = "none" /\ gl_sigint = TRUE
    /\ gl_alarm = FALSE /\ gl_caught = {} /\ gl_cleaned = FALSE /\ gl_exit = <<"none", 0>>
    /\ gl_child = "none" /\ gl_group = FALSE /\ gl_wait = <<"none", 0>>
    /\ gl_failed = FALSE /\ gl_faults = 0
    /\ gl_lists = [wrapper |-> {}, test |-> {}] /\ gl_files = {} /\ gl_atexit = "registered"
    /\ gl_sub = "none" /\ gl_todo = <<>> /\ gl_script = <<>> /\ gl_events = {}
    /\ gl_pipes = [s \in Streams |-> 0] /\ gl_stored = [s \in Streams |-> 0]

----------------------------------------------------------------------------
\* create_temp_file and add_temp_file: a name that cannot be copied is not registered.
CreateTemp(process) ==
    \E k \in 1 .. GlMaxFiles :
        LET file == <<process, k>> IN
        /\ file \notin gl_files /\ (k > 1 => <<process, k - 1>> \in gl_files)
        /\ gl_files' = gl_files \cup {file} /\ UNCHANGED gl_atexit
        /\ \/ gl_lists' = [gl_lists EXCEPT ![process] = @ \cup {file}] /\ UNCHANGED gl_faults
           \/ GlFault /\ UNCHANGED gl_lists

\* support_delete_temp_files, which runs in exit(): one name off the list, and its file
\* gone if this process registered it.
AnyOwner(process, file) == TRUE \* mutant
Owns(process, file) == file[1] = process
DeleteNext(process) ==
    \E file \in gl_lists[process] :
        /\ gl_lists' = [gl_lists EXCEPT ![process] = @ \ {file}]
        /\ gl_files' = IF Owns(process, file) THEN gl_files \ {file} ELSE gl_files

Unadjusted(status) == status \* mutant
adjust_exit_status(status) == IF status \in {0, 77} /\ gl_failed THEN 1 ELSE status

\* The wrapper calls exit, or returns from main.
GlExit(status) == gl_pc' = "exiting" /\ gl_exit' = <<"exit", status % 256>>

----------------------------------------------------------------------------
\* support_test_main.
GlPrepare ==
    /\ gl_pc = "prepare" /\ CreateTemp("wrapper")
    /\ UNCHANGED <<gl_config, glParent, glChild, gl_failed, glCapture>>

\* A wrong option, a missing -test-dir or an unwritable TEST_DIRECT file.
GlRefuse ==
    /\ gl_pc = "prepare" /\ GlFault /\ GlExit(1)
    /\ UNCHANGED <<gl_config, gl_sig, gl_killed, gl_sigint, gl_alarm, gl_caught, gl_cleaned,
                   glChild, gl_failed, glTemp, glCapture>>

GlDirect ==
    /\ gl_pc = "prepare" /\ gl_config.direct
    /\ gl_pc' = "direct" /\ gl_child' = "runs"
    /\ UNCHANGED <<gl_config, gl_sig, gl_killed, gl_sigint, gl_alarm, gl_caught, gl_cleaned,
                   gl_exit, gl_group, gl_wait, gl_failed, glTemp, gl_faults, glCapture>>

GlFork ==
    /\ gl_pc = "prepare" /\ ~gl_config.direct
    /\ \/ gl_pc' = "arm" /\ gl_child' = "new" /\ UNCHANGED <<gl_exit, gl_faults>>
            /\ gl_lists' = [gl_lists EXCEPT !.test = gl_lists.wrapper]
       \/ GlFault /\ GlExit(1) /\ UNCHANGED <<gl_child, gl_lists>>
    /\ UNCHANGED <<gl_config, gl_sig, gl_killed, gl_sigint, gl_alarm, gl_caught, gl_cleaned,
                   gl_group, gl_wait, gl_failed, gl_files, gl_atexit, glCapture>>

NoAlarm == FALSE \* mutant
TimeLimit == TRUE
GlArm ==
    /\ gl_pc = "arm" /\ gl_pc' = "catch" /\ gl_alarm' = TimeLimit
    /\ gl_caught' = gl_caught \cup {SIGALRM}
    /\ UNCHANGED <<gl_config, gl_sig, gl_killed, gl_sigint, gl_cleaned, gl_exit, glChild,
                   gl_failed, glTemp, gl_faults, glCapture>>

GlCatch ==
    /\ gl_pc = "catch" /\ gl_pc' = "wait" /\ gl_caught' = gl_caught \cup {SIGINT}
    /\ UNCHANGED <<gl_config, gl_sig, gl_killed, gl_sigint, gl_alarm, gl_cleaned, gl_exit,
                   glChild, gl_failed, glTemp, gl_faults, glCapture>>

\* The test ended by itself.
Expected ==
    \/ gl_config.status # 0 /\ gl_wait = <<"exit", gl_config.status>>
    \/ gl_config.signal # 0 /\ gl_wait = <<"signal", gl_config.signal>>
GlWaited ==
    /\ gl_pc = "wait" /\ gl_child = "zombie" /\ gl_child' = "reaped"
    /\ IF gl_wait[1] = "exit" /\ gl_config.status = 0 /\ gl_config.signal = 0
       THEN GlExit(adjust_exit_status(gl_wait[2]))
       ELSE GlExit(IF Expected THEN adjust_exit_status(0) ELSE 1)
    /\ UNCHANGED <<gl_config, gl_sig, gl_killed, gl_sigint, gl_alarm, gl_caught, gl_cleaned,
                   gl_group, gl_wait, gl_failed, glTemp, gl_faults, glCapture>>

----------------------------------------------------------------------------
\* exit() takes a function off its list and calls it.  A signal handler that interrupts
\* the function and calls exit() itself runs those that are left, not this one again:
\* the standard leaves a second exit() undefined, this is what C libraries do.
ExitBegins ==
    /\ gl_pc = "exiting" /\ gl_atexit = "registered"
    /\ gl_pc' = "deleting" /\ gl_atexit' = "running"
    /\ UNCHANGED <<gl_config, gl_sig, gl_killed, gl_sigint, gl_alarm, gl_caught, gl_cleaned,
                   gl_exit, glChild, gl_failed, gl_lists, gl_files, gl_faults, glCapture>>

ExitDeletes ==
    /\ gl_pc = "deleting" /\ DeleteNext("wrapper") /\ UNCHANGED gl_atexit
    /\ UNCHANGED <<gl_config, glParent, glChild, gl_failed, gl_faults, glCapture>>

ExitDeleted ==
    /\ gl_pc = "deleting" /\ gl_lists["wrapper"] = {}
    /\ gl_pc' = "exiting" /\ gl_atexit' = "done"
    /\ UNCHANGED <<gl_config, gl_sig, gl_killed, gl_sigint, gl_alarm, gl_caught, gl_cleaned,
                   gl_exit, glChild, gl_failed, gl_lists, gl_files, gl_faults, glCapture>>

ExitLeaves ==
    /\ gl_pc = "exiting" /\ gl_atexit # "registered" /\ gl_pc' = "ended"
    /\ UNCHANGED <<gl_config, gl_sig, gl_killed, gl_sigint, gl_alarm, gl_caught, gl_cleaned,
                   gl_exit, glChild, gl_failed, glTemp, gl_faults, glCapture>>

----------------------------------------------------------------------------
\* Signals to the wrapper: the handler of the first one holds off the same signal only.
InTime == {"arm", "catch", "wait", "direct", "prepare", "exiting", "deleting"}
Arrives(sig) ==
    /\ gl_pc \in InTime \cup {"kill", "reap", "cleanup"} /\ gl_sig # sig
    /\ IF sig \in gl_caught
       THEN gl_pc' = "kill" /\ gl_sig' = sig /\ UNCHANGED gl_exit
       ELSE gl_pc' = "ended" /\ gl_exit' = <<"signal", sig>> /\ UNCHANGED gl_sig
    /\ UNCHANGED <<gl_config, gl_killed, gl_caught, gl_cleaned, glChild, gl_failed, glTemp,
                   gl_faults, glCapture>>
Alarm == gl_alarm /\ gl_alarm' = FALSE /\ Arrives(SIGALRM) /\ UNCHANGED gl_sigint
Interrupt == gl_sigint /\ gl_sigint' = FALSE /\ Arrives(SIGINT) /\ UNCHANGED gl_alarm

\* signal_handler: kill the group and the process.
Killable(child) == child \in {"new", "runs", "exiting"}
HandlerKills ==
    /\ gl_pc = "kill" /\ gl_pc' = "reap"
    /\ gl_child' = IF Killable(gl_child) THEN "dying" ELSE gl_child
    /\ gl_sub' = IF gl_group /\ gl_sub = "runs" THEN "dead" ELSE gl_sub
    /\ UNCHANGED <<gl_config, gl_sig, gl_killed, gl_sigint, gl_alarm, gl_caught, gl_cleaned,
                   gl_exit, gl_group, gl_wait, gl_failed, glTemp, gl_faults, gl_todo, gl_pipes,
                   gl_events, gl_stored, gl_script>>

\* Five looks at half a second in all; -1 if main has reaped the process already.
HandlerReaps ==
    /\ gl_pc = "reap"
    /\ \/ gl_child = "zombie" /\ gl_killed' = "pid" /\ gl_child' = "reaped"
            /\ gl_pc' = "cleanup" /\ UNCHANGED gl_exit
       \/ gl_child = "dying" /\ gl_killed' = "0" /\ gl_pc' = "cleanup"
            /\ UNCHANGED <<gl_child, gl_exit>>
       \/ gl_child = "reaped" /\ gl_killed' = "-1" /\ GlExit(1) /\ UNCHANGED gl_child
    /\ UNCHANGED <<gl_config, gl_sig, gl_sigint, gl_alarm, gl_caught, gl_cleaned, gl_group,
                   gl_wait, gl_failed, glTemp, gl_faults, glCapture>>

\* signal() does not say whether raise() inside the handler is held off until its end.
HandlerEnds ==
    /\ gl_pc = "cleanup" /\ gl_cleaned' = (gl_cleaned \/ gl_config.cleanup)
    /\ \/ GlExit(1)
       \/ gl_sig = SIGINT /\ gl_pc' = "ended" /\ gl_exit' = <<"signal", SIGINT>>
    /\ UNCHANGED <<gl_config, gl_sig, gl_killed, gl_sigint, gl_alarm, gl_caught, glChild,
                   gl_failed, glTemp, gl_faults, glCapture>>

----------------------------------------------------------------------------
\* The test: in its own process or, if run directly, in the wrapper.
Me == IF gl_config.direct THEN "wrapper" ELSE "test"
TestRuns == gl_child = "runs" /\ (gl_config.direct => gl_pc = "direct")
InBody == TestRuns /\ gl_sub \in {"none", "reaped"}

GlSetpgid ==
    /\ gl_child = "new" /\ gl_child' = "runs"
    /\ \/ gl_group' = TRUE /\ UNCHANGED gl_faults
       \/ GlFault /\ UNCHANGED gl_group
    /\ UNCHANGED <<gl_config, glParent, gl_wait, gl_failed, glTemp, glCapture>>

TestExit(status) ==
    IF gl_config.direct
    THEN GlExit(status) /\ gl_child' = "none" /\ UNCHANGED gl_wait
    ELSE gl_child' = "exiting" /\ gl_wait' = <<"exit", status % 256>>
         /\ UNCHANGED <<gl_pc, gl_exit>>
glQuiet == <<gl_sig, gl_killed, gl_sigint, gl_alarm, gl_caught, gl_cleaned>>

GlRecords ==
    /\ InBody /\ gl_failed' = TRUE
    /\ UNCHANGED <<gl_config, glParent, glChild, glTemp, gl_faults, glCapture>>

GlCreates ==
    /\ InBody /\ CreateTemp(Me)
    /\ UNCHANGED <<gl_config, glParent, glChild, gl_failed, glCapture>>

GlReturns(status) ==
    /\ InBody /\ TestExit(IF gl_config.direct THEN adjust_exit_status(status) ELSE status)
    /\ UNCHANGED <<gl_config, glQuiet, gl_group, gl_failed, glTemp, gl_faults, glCapture>>

\* FAIL_EXIT1 and FAIL_UNSUPPORTED: support_exit_failure_impl.
FailExit(status) ==
    TestExit(status) /\ gl_failed' = (gl_failed \/ status \notin {0, 77})
GlFailExit(status) ==
    /\ InBody /\ FailExit(status)
    /\ UNCHANGED <<gl_config, glQuiet, gl_group, glTemp, gl_faults, glCapture>>

GlCrashes ==
    /\ InBody
    /\ IF gl_config.direct
       THEN gl_pc' = "ended" /\ gl_exit' = <<"signal", SIGSEGV>> /\ gl_child' = "none"
            /\ UNCHANGED gl_wait
       ELSE gl_child' = "zombie" /\ gl_wait' = <<"signal", SIGSEGV>> /\ UNCHANGED <<gl_pc, gl_exit>>
    /\ UNCHANGED <<gl_config, glQuiet, gl_group, gl_failed, glTemp, gl_faults, glCapture>>

\* No handler is installed in the test's process: its exit function is not interrupted,
\* but a SIGKILL of the handler's may end it.
GlTestDeletes ==
    /\ gl_child = "exiting" /\ DeleteNext("test") /\ UNCHANGED gl_atexit
    /\ UNCHANGED <<gl_config, glParent, glChild, gl_failed, gl_faults, glCapture>>

GlTestExits ==
    /\ gl_child = "exiting" /\ gl_lists["test"] = {} /\ gl_child' = "zombie"
    /\ UNCHANGED <<gl_config, glParent, gl_group, gl_wait, gl_failed, glTemp, gl_faults, glCapture>>

GlDies ==
    /\ gl_child = "dying" /\ gl_child' = "zombie" /\ gl_wait' = <<"signal", SIGKILL>>
    /\ UNCHANGED <<gl_config, glParent, gl_group, gl_failed, glTemp, gl_faults, glCapture>>

----------------------------------------------------------------------------
\* support_capture_subprocess.
Capture(script) ==
    /\ InBody /\ gl_sub = "none"
    /\ \/ gl_sub' = "runs" /\ gl_todo' = script /\ gl_script' = script /\ gl_events' = Streams
            /\ UNCHANGED <<gl_pc, gl_exit, gl_child, gl_wait, gl_failed, gl_faults>>
       \/ GlFault /\ FailExit(1) /\ UNCHANGED <<gl_sub, gl_todo, gl_script, gl_events>>
    /\ UNCHANGED <<gl_config, glQuiet, gl_group, glTemp, gl_pipes, gl_stored>>

SubWrites ==
    /\ gl_sub = "runs" /\ gl_todo # <<>>
    /\ IF TestRuns
       THEN /\ gl_pipes[Head(gl_todo)] < GlPipe
            /\ gl_pipes' = [gl_pipes EXCEPT ![Head(gl_todo)] = @ + 1]
            /\ gl_todo' = Tail(gl_todo) /\ UNCHANGED gl_sub
       ELSE gl_sub' = "dead" /\ UNCHANGED <<gl_pipes, gl_todo>>       \* SIGPIPE
    /\ UNCHANGED <<gl_config, glParent, glChild, gl_failed, glTemp, gl_faults, gl_events,
                   gl_stored, gl_script>>

SubRecords ==
    /\ gl_sub = "runs" /\ gl_failed' = TRUE
    /\ UNCHANGED <<gl_config, glParent, glChild, glTemp, gl_faults, glCapture>>

SubExits ==
    /\ gl_sub = "runs" /\ gl_todo = <<>> /\ gl_sub' = "dead"
    /\ UNCHANGED <<gl_config, glParent, glChild, gl_failed, glTemp, gl_faults, gl_todo, gl_pipes,
                   gl_events, gl_stored, gl_script>>

\* xpoll reports data on the streams that are polled, and the end of both writers always.
Ready(s) == (s \in gl_events /\ gl_pipes[s] > 0) \/ gl_sub = "dead"
Transfer(unreadable) ==
    LET read(s) == Ready(s) /\ gl_pipes[s] > 0 /\ s \notin unreadable IN
    /\ gl_pipes' = [s \in Streams |-> gl_pipes[s] - (IF read(s) THEN 1 ELSE 0)]
    /\ gl_stored' = [s \in Streams |-> gl_stored[s] + (IF read(s) THEN 1 ELSE 0)]
    /\ gl_events' = {s \in gl_events : Ready(s) => read(s)}
CapturePoll ==
    /\ TestRuns /\ gl_sub \in {"runs", "dead"} /\ gl_events # {}
    /\ \E s \in Streams : Ready(s)
    /\ \/ Transfer({}) /\ UNCHANGED <<gl_failed, gl_faults>>
       \/ \E s \in Streams : /\ Ready(s) /\ GlFault /\ Transfer({s}) /\ gl_failed' = TRUE
    /\ UNCHANGED <<gl_config, glParent, glChild, glTemp, gl_sub, gl_todo, gl_script>>

CaptureEnds ==
    /\ TestRuns /\ gl_sub = "dead" /\ gl_events = {} /\ gl_sub' = "reaped"
    /\ UNCHANGED <<gl_config, glParent, glChild, gl_failed, glTemp, gl_faults, gl_todo, gl_pipes,
                   gl_events, gl_stored, gl_script>>

----------------------------------------------------------------------------
GlWrapper == GlRefuse \/ GlDirect \/ GlFork \/ GlArm \/ GlCatch \/ GlWaited
                \/ ExitBegins \/ ExitDeletes \/ ExitDeleted \/ ExitLeaves
                \/ HandlerKills \/ HandlerReaps \/ HandlerEnds
GlTest == \/ GlRecords \/ GlCreates \/ GlCrashes \/ GlTestDeletes \/ GlTestExits
          \/ \E status \in {0, 1, 3, 77} : GlReturns(status)
          \/ \E status \in {1, 77} : GlFailExit(status)
GlCapture == \/ \E script \in GlScripts : Capture(script)
             \/ SubWrites \/ SubRecords \/ SubExits \/ CapturePoll \/ CaptureEnds
GlNext == GlPrepare \/ GlWrapper \/ GlSetpgid \/ Alarm \/ Interrupt \/ GlDies \/ GlTest \/ GlCapture
GlSpec == GlInit /\ [][GlNext]_glvars

\* The wrapper runs, the timer fires and a killed process dies; the test may hang.
GlFairness == WF_glvars(GlWrapper) /\ WF_glvars(Alarm) /\ WF_glvars(GlDies)

----------------------------------------------------------------------------
(***************************************************************************)
(* The wrapper's 0 (and its 77) are believable: the test ended by itself   *)
(* and as was expected, and no process counted a failure - unless the test *)
(* ran directly and called exit itself.  When the wrapper ends without     *)
(* being killed, the test is not running any more.                         *)
(***************************************************************************)
GlVerdictHonest ==
    gl_pc = "ended" /\ gl_exit[1] = "exit" =>
        /\ gl_child \in {"none", "reaped", "dying", "zombie"}
        /\ gl_exit[2] \in {0, 77} /\ ~gl_config.direct =>
             /\ ~gl_failed /\ gl_child = "reaped"
             /\ \/ gl_config.signal # 0 /\ gl_wait = <<"signal", gl_config.signal>>
                \/ gl_config.status # 0 /\ gl_wait = <<"exit", gl_config.status>>
                \/ gl_config.signal = 0 /\ gl_config.status = 0 /\ gl_wait = <<"exit", gl_exit[2]>>

(***************************************************************************)
(* Temporary files go with the process that made them: the wrapper's are   *)
(* there for as long as the test may want them, and its own for as long as *)
(* the test lives.  What a process registered is gone when it has exited - *)
(* but for a wrapper that a signal met at its removing them: it leaves     *)
(* files behind, and then never reports a success                          *)
(* (support_delete_temp_files, signal_handler, glibc.h).                   *)
(***************************************************************************)
GlFilesOf(process) == {file \in gl_files : file[1] = process}
GlFilesRemoved ==
    /\ gl_lists.wrapper \subseteq gl_files
    /\ Killable(gl_child) => gl_lists.test \subseteq gl_files
    /\ gl_pc = "ended" /\ gl_exit[1] = "exit" /\ gl_faults = 0 /\ GlFilesOf("wrapper") # {} =>
         gl_exit[2] = 1 /\ gl_sig # 0 /\ gl_atexit = "running"
    /\ gl_child \in {"zombie", "reaped"} /\ gl_wait[1] = "exit" /\ gl_faults = 0 =>
         GlFilesOf("test") = {}

(***************************************************************************)
(* Capturing never blocks on the one pipe while the subprocess fills the   *)
(* other, and returns all that the subprocess wrote to each.               *)
(***************************************************************************)
GlCaptured ==
    gl_faults = 0 =>
        /\ gl_sub = "runs" /\ gl_todo # <<>> /\ TestRuns =>
             gl_pipes[Head(gl_todo)] < GlPipe \/ Ready(Head(gl_todo))
        /\ gl_sub = "reaped" => \A s \in Streams :
             gl_stored[s] = Cardinality({i \in DOMAIN gl_script : gl_script[i] = s})

\* What the wrapper reports of the test, and support_capture_subprocess of its child,
\* is what they did (glibc.h).
GlReportsTrue == GlVerdictHonest /\ GlCaptured

\* A test that hangs, wherever it hangs, is killed when its time is over: the wrapper ends.
GlEnds == gl_pc = "wait" ~> gl_pc = "ended"
=============================================================================
