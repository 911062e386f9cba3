--------------------------- MODULE KernelHarness ---------------------------
(***************************************************************************)
(* The harness of the Linux kernel's self tests (linux-kernel.h): a child  *)
(* in a process group of its own runs the test function; an alarm, or a    *)
(* SIGINT from the user, wakes the parent from waitpid, and it tells the   *)
(* group to terminate, then kills it.                                      *)
(*                                                                         *)
(* An alarm of seconds does not go off in the few instructions between     *)
(* alarm() and waitpid(); a SIGINT may, and is lost there.                 *)
(***************************************************************************)
EXTENDS Integers

CONSTANTS
    KhResults,      \* what test functions return
    KhMaxInts       \* bound on SIGINTs

VARIABLES
    kh_pc,          \* the parent: "start", "forked", "wait", "eintr", "reaped" or "returned"
    kh_terminated,  \* terminated
    kh_alarm,       \* an alarm is set
    kh_child,       \* "none", "running", "zombie" or "reaped"
    kh_helpers,     \* other processes of the group are running
    kh_stubborn,    \* the child and its helpers go on after SIGTERM
    kh_status,      \* how the child ended: "none", "signal", or its exit status as a number
    kh_rc,          \* what test_harness returns
    kh_said,        \* "none", "skip", "failure", "success" or "error"
    kh_ints         \* SIGINTs so far

khvars == <<kh_pc, kh_terminated, kh_alarm, kh_child, kh_helpers, kh_stubborn, kh_status, kh_rc,
            kh_said, kh_ints>>
khChild == <<kh_child, kh_helpers, kh_stubborn, kh_status>>

KhSignalled == -1     \* kh_status: died of a signal
KhUnknown == -2       \* kh_status: has not ended
MAGIC_SKIP_RETURN_VALUE == 99

KhInit ==
    /\ kh_pc = "start" /\ kh_terminated = FALSE /\ kh_alarm = FALSE
    /\ kh_child = "none" /\ kh_helpers = FALSE /\ kh_stubborn \in BOOLEAN /\ kh_status = KhUnknown
    /\ kh_rc = KhUnknown /\ kh_said = "none" /\ kh_ints = 0

KhReturns(rc, said) == kh_pc' = "returned" /\ kh_rc' = rc /\ kh_said' = said
KhRunning == kh_child = "running"

----------------------------------------------------------------------------
\* The child.
ChildForks ==
    /\ KhRunning /\ ~kh_helpers /\ kh_helpers' = TRUE
    /\ UNCHANGED <<kh_pc, kh_terminated, kh_alarm, kh_child, kh_stubborn, kh_status, kh_rc, kh_said,
                   kh_ints>>
ChildEnds ==
    /\ KhRunning /\ kh_child' = "zombie"
    /\ kh_status' \in {r % 256 : r \in KhResults} \cup {KhSignalled}
    /\ UNCHANGED <<kh_pc, kh_terminated, kh_alarm, kh_helpers, kh_stubborn, kh_rc, kh_said, kh_ints>>

\* kill(-pid, signal): the whole group.
KillGroup(signal) ==
    LET heeds == signal = "KILL" \/ ~kh_stubborn IN
    /\ kh_helpers' = (kh_helpers /\ ~heeds)
    /\ IF KhRunning /\ heeds THEN kh_child' = "zombie" /\ kh_status' = KhSignalled
       ELSE UNCHANGED <<kh_child, kh_status>>
    /\ UNCHANGED kh_stubborn

----------------------------------------------------------------------------
\* test_harness and test_harness_internal_run_test.
HarnessFails ==
    /\ kh_pc = "start"
    /\ \/ KhReturns(1, "error")           \* sigaction
       \/ KhReturns(1, "failure")         \* fork
    /\ UNCHANGED <<kh_terminated, kh_alarm, khChild, kh_ints>>
KhFork ==
    /\ kh_pc = "start" /\ kh_pc' = "forked" /\ kh_child' = "running"
    /\ UNCHANGED <<kh_terminated, kh_alarm, kh_helpers, kh_stubborn, kh_status, kh_rc, kh_said, kh_ints>>
KhArm ==
    /\ kh_pc = "forked" /\ kh_pc' = "wait" /\ kh_alarm' = TRUE
    /\ UNCHANGED <<kh_terminated, khChild, kh_rc, kh_said, kh_ints>>

KhAlarm ==
    /\ kh_alarm /\ kh_pc = "wait" /\ kh_alarm' = FALSE /\ kh_pc' = "eintr"
    /\ UNCHANGED <<kh_terminated, khChild, kh_rc, kh_said, kh_ints>>
KhInterrupt ==
    /\ kh_pc \in {"forked", "wait", "eintr", "reaped"} /\ kh_ints < KhMaxInts
    /\ kh_ints' = kh_ints + 1 /\ kh_pc' = IF kh_pc = "wait" THEN "eintr" ELSE kh_pc
    /\ UNCHANGED <<kh_terminated, kh_alarm, khChild, kh_rc, kh_said>>

\* waitpid failed with EINTR: SIGTERM and five seconds more, or else SIGKILL.
NoSecondAlarm == kh_alarm       \* mutant
KillTimeout == TRUE
KhTerminate ==
    /\ kh_pc = "eintr" /\ ~kh_terminated
    /\ KillGroup("TERM") /\ kh_terminated' = TRUE /\ kh_alarm' = KillTimeout /\ kh_pc' = "wait"
    /\ UNCHANGED <<kh_rc, kh_said, kh_ints>>
AskAgain == "TERM"              \* mutant
LastSignal == "KILL"
KhForceKill ==
    /\ kh_pc = "eintr" /\ kh_terminated
    /\ KillGroup(LastSignal) /\ KhReturns(1, "failure")
    /\ UNCHANGED <<kh_terminated, kh_alarm, kh_ints>>

KhReap ==
    /\ kh_pc = "wait" /\ kh_child = "zombie" /\ kh_child' = "reaped" /\ kh_pc' = "reaped"
    /\ UNCHANGED <<kh_terminated, kh_alarm, kh_helpers, kh_stubborn, kh_status, kh_rc, kh_said, kh_ints>>

\* What is left of the group is told to terminate; the status is judged.
KhJudged(status) == IF status = KhSignalled THEN 1 ELSE status
KhVerdict ==
    /\ kh_pc = "reaped" /\ KillGroup("TERM")
    /\ LET rc == KhJudged(kh_status) IN
       IF rc = MAGIC_SKIP_RETURN_VALUE THEN KhReturns(0, "skip")
       ELSE KhReturns(rc, IF rc = 0 THEN "success" ELSE "failure")
    /\ UNCHANGED <<kh_terminated, kh_alarm, kh_ints>>

KhStep == HarnessFails \/ KhFork \/ KhArm \/ KhTerminate \/ KhForceKill \/ KhReap \/ KhVerdict
KhNext == KhStep \/ ChildForks \/ ChildEnds \/ KhAlarm \/ KhInterrupt

KhSpec == KhInit /\ [][KhNext]_khvars

----------------------------------------------------------------------------
(***************************************************************************)
(* When test_harness returns, the test's process is gone or doomed, its    *)
(* group got a signal, and 0 is returned only if the process exited by     *)
(* itself with 0, or with the status that means "skipped" - whatever       *)
(* signals came in between.                                                *)
(***************************************************************************)
KhVerdictHonest ==
    kh_pc = "returned" =>
        /\ ~KhRunning /\ (kh_helpers => kh_stubborn)
        /\ kh_rc = 0 => kh_status \in {0, MAGIC_SKIP_RETURN_VALUE} /\ kh_child = "reaped"
        /\ kh_said = "success" => kh_status = 0

(***************************************************************************)
(* The harness returns, even from a test that hangs and does not heed      *)
(* SIGTERM, and whenever the user interrupts it: some alarm is always set  *)
(* while it waits.  (The parent is scheduled, and alarms go off.)          *)
(***************************************************************************)
KhFairness == WF_khvars(KhStep) /\ WF_khvars(KhAlarm)
KhEnds == <>(kh_pc = "returned")
=============================================================================
