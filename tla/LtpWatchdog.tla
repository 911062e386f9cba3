---------------------------- MODULE LtpWatchdog ----------------------------
(***************************************************************************)
(* How the Linux Test Project harness (linux-test-project.h) supervises a  *)
(* test: the library process forks one test process per variant, arms a    *)
(* timer, waits for it, and lives on through SIGALRM (kill the test's      *)
(* process group), SIGUSR1 (the test's heartbeat: re-arm the timer) and    *)
(* SIGINT/SIGTERM (kill the group).  Handlers interrupt the library        *)
(* between any two of its steps and one another.                           *)
(*                                                                         *)
(* What the test reports is the subject of LtpTestRun; here a test process *)
(* runs, beats, hangs, exits or is killed.                                 *)
(***************************************************************************)
EXTENDS Integers, Sequences

CONSTANTS Variants,      \* fork_testrun is called at most this often
          MaxRetries,    \* 10 in alarm_handler
          MaxInterrupts, \* bound: SIGINT/SIGTERM sent to the library
          ForksChild,    \* tst_test->forks_child
          SlowFork,      \* may fork() outlast the timer armed before it?
          MayKillLib     \* may somebody SIGKILL the library?

ASSUME WatchdogAssumption ==
  /\ Variants \in Nat \ {0}
  /\ MaxRetries \in Nat
  /\ MaxInterrupts \in Nat
  /\ {ForksChild, SlowFork, MayKillLib} \subseteq BOOLEAN

VARIABLES
  lib,             \* the library's place in fork_testrun
  variant,         \* tst_variant + 1; also the pid of that variant's process
  test_pid,        \* the global the handlers read
  timer,           \* alarm(): "off", "timeout" or "five"
  pend,            \* signals pending at the library
  frames,          \* handlers in progress, innermost first
  sigkill_retries,
  interrupts,      \* bound counter
  verdict,         \* how the library ended
  proc,            \* each test process
  status,          \* what waitpid reports of it
  grouped,         \* test processes that have called setpgid(0, 0)
  doomed,          \* test processes with SIGKILL pending
  strays           \* groups in which a descendant of the test is alive

libVars  == <<lib, variant, test_pid, verdict>>
sigVars  == <<timer, pend, frames, sigkill_retries, interrupts>>
procVars == <<proc, status, grouped, doomed, strays>>
vars     == <<libVars, sigVars, procVars>>

Pids    == 1 .. Variants
Signals == {"ALRM", "USR1", "INT"}
Alive   == {"child", "beat", "checked", "running", "hung"}

\* The places in each handler, and where it starts.
Frames == [ALRM |-> {"alrm_kill", "alrm_rearm", "alrm_count"},
           USR1 |-> {"usr1_rearm", "usr1_reset"},
           INT  |-> {"int_kill"}]

FirstFrame == [ALRM |-> "alrm_kill", USR1 |-> "usr1_rearm", INT |-> "int_kill"]

Init ==
  /\ lib = "arm" /\ variant = 1 /\ test_pid = 0 /\ verdict = "none"
  /\ timer = "off" /\ pend = {} /\ frames = <<>>
  /\ sigkill_retries = 0 /\ interrupts = 0
  /\ proc = [v \in Pids |-> "none"] /\ status = [v \in Pids |-> "none"]
  /\ grouped = {} /\ doomed = {} /\ strays = {}

LibAlive == lib # "exited"

LibEnds(how) == lib' = "exited" /\ verdict' = how

-----------------------------------------------------------------------------
(* The library's own steps: fork_testrun and the loop around it.  They run *)
(* only when no handler does.                                              *)

FirstBeatArms == timer                                            \* mutant

ArmedTimer == "timeout"

Arm ==                             \* SAFE_SIGNAL(SIGINT, SIGTERM); alarm()
  /\ lib = "arm"
  /\ lib' = "fork"
  /\ timer' = ArmedTimer
  /\ UNCHANGED <<variant, test_pid, verdict, pend, frames, sigkill_retries,
                 interrupts, procVars>>

Fork ==                            \* the child exists, test_pid is still old
  /\ lib = "fork"
  /\ lib' = "assign"
  /\ proc' = [proc EXCEPT ![variant] = "child"]
  /\ UNCHANGED <<variant, test_pid, verdict, sigVars, status, grouped, doomed, strays>>

ForkFails ==                       \* tst_brk(TBROK | TERRNO, "fork()")
  /\ lib = "fork"
  /\ test_pid' = -1
  /\ LibEnds("broken")
  /\ UNCHANGED <<variant, sigVars, procVars>>

AssignPid ==                       \* test_pid = fork()
  /\ lib = "assign"
  /\ lib' = "wait"
  /\ test_pid' = variant
  /\ UNCHANGED <<variant, verdict, sigVars, procVars>>

Wait ==                            \* SAFE_WAITPID(test_pid, &status, 0)
  /\ lib = "wait"
  /\ proc[variant] = "zombie"
  /\ lib' = "disarm"
  /\ proc' = [proc EXCEPT ![variant] = "reaped"]
  /\ UNCHANGED <<variant, test_pid, verdict, sigVars, status, grouped, doomed, strays>>

Disarm ==                          \* alarm(0)
  /\ lib = "disarm"
  /\ lib' = "sweep"
  /\ timer' = "off"
  /\ UNCHANGED <<variant, test_pid, verdict, pend, frames, sigkill_retries,
                 interrupts, procVars>>

\* kill(-test_pid, SIGKILL) of what the test left behind.
SweepSkipped == strays                                            \* mutant

SweptStrays == IF ForksChild THEN strays \ {test_pid} ELSE strays

\* What a test process's end means for the run: only 0 and TCONF go on to the
\* next variant; death by a signal is tst_brk(TBROK).
OnlySigkillBreaks(s) == IF s = "killed" THEN "broken"
                        ELSE IF s = "crashed" THEN "ok" ELSE s    \* mutant

VerdictOf(s) == IF s \in {"killed", "crashed"} THEN "broken" ELSE s

Sweep ==
  /\ lib = "sweep"
  /\ strays' = SweptStrays
  /\ LET v == VerdictOf(status[variant])
     IN IF v \in {"ok", "conf"} /\ variant < Variants
        THEN lib' = "arm" /\ variant' = variant + 1 /\ UNCHANGED verdict
        ELSE LibEnds(v) /\ UNCHANGED variant
  /\ UNCHANGED <<test_pid, sigVars, proc, status, grouped, doomed>>

LibStep == /\ frames = <<>>
           /\ Arm \/ Fork \/ ForkFails \/ AssignPid \/ Wait \/ Disarm \/ Sweep

-----------------------------------------------------------------------------
(* Signals and handlers.                                                   *)

\* kill(-pid, SIGKILL).  A process that has not called setpgid yet is not in
\* the group its pid names: the call fails with ESRCH and nothing happens.
KillGroup(pid) ==
  /\ doomed' = IF pid \in grouped /\ proc[pid] \in Alive
               THEN doomed \cup {pid} ELSE doomed
  /\ strays' = strays \ {pid}
  /\ UNCHANGED <<proc, status, grouped>>

Pop == frames' = Tail(frames)

Goto(f) == frames' = <<f>> \o Tail(frames)

\* The timer runs out.  Unless fork() is slower than the timer, not before
\* test_pid is set.
TimerFires ==
  /\ LibAlive
  /\ timer # "off"
  /\ SlowFork \/ lib \notin {"fork", "assign"}
  /\ timer' = "off"
  /\ pend' = pend \cup {"ALRM"}
  /\ UNCHANGED <<libVars, frames, sigkill_retries, interrupts, procVars>>

Interrupt ==
  /\ LibAlive
  /\ interrupts < MaxInterrupts
  /\ interrupts' = interrupts + 1
  /\ pend' = pend \cup {"INT"}
  /\ UNCHANGED <<libVars, timer, frames, sigkill_retries, procVars>>

InProgress(sig) == \E i \in 1 .. Len(frames) : frames[i] \in Frames[sig]

\* A handler starts unless the same signal's handler is running.  SIGINT has
\* its default action outside Arm .. Disarm.
Deliver(sig) ==
  /\ LibAlive
  /\ sig \in pend
  /\ ~InProgress(sig)
  /\ pend' = pend \ {sig}
  /\ IF sig = "INT" /\ lib \notin {"fork", "assign", "wait", "disarm"}
     THEN LibEnds("interrupted") /\ UNCHANGED frames
     ELSE /\ frames' = <<FirstFrame[sig]>> \o frames
          /\ UNCHANGED <<lib, verdict>>
  /\ UNCHANGED <<variant, test_pid, timer, sigkill_retries, interrupts, procVars>>

InHandler(f) == LibAlive /\ frames # <<>> /\ Head(frames) = f

\* alarm_handler: kill(-test_pid), where a test_pid of 0 names the library's
\* own group.
AlarmKill ==
  /\ InHandler("alrm_kill")
  /\ IF test_pid = 0
     THEN LibEnds("suicide") /\ UNCHANGED <<frames, procVars>>
     ELSE Goto("alrm_rearm") /\ KillGroup(test_pid) /\ UNCHANGED <<lib, verdict>>
  /\ UNCHANGED <<variant, test_pid, timer, pend, sigkill_retries, interrupts>>

NoRearm == timer                                                  \* mutant

RearmedTimer == "five"

AlarmRearm ==                                                 \* alarm(5)
  /\ InHandler("alrm_rearm")
  /\ timer' = RearmedTimer
  /\ Goto("alrm_count")
  /\ UNCHANGED <<libVars, pend, sigkill_retries, interrupts, procVars>>

GiveUp == sigkill_retries + 1 > MaxRetries

AlarmCount ==                                  \* _exit(TFAIL) after too many
  /\ InHandler("alrm_count")
  /\ IF GiveUp
     THEN LibEnds("unclean") /\ UNCHANGED <<sigkill_retries, frames>>
     ELSE /\ sigkill_retries' = sigkill_retries + 1
          /\ Pop
          /\ UNCHANGED <<lib, verdict>>
  /\ UNCHANGED <<variant, test_pid, timer, pend, interrupts, procVars>>

HeartbeatRearm ==                              \* alarm(results->timeout)
  /\ InHandler("usr1_rearm")
  /\ timer' = "timeout"
  /\ Goto("usr1_reset")
  /\ UNCHANGED <<libVars, pend, sigkill_retries, interrupts, procVars>>

HeartbeatReset ==
  /\ InHandler("usr1_reset")
  /\ sigkill_retries' = 0
  /\ Pop
  /\ UNCHANGED <<libVars, timer, pend, interrupts, procVars>>

InterruptKill ==                               \* sigint_handler
  /\ InHandler("int_kill")
  /\ Pop
  /\ IF test_pid > 0 THEN KillGroup(test_pid) ELSE UNCHANGED procVars
  /\ UNCHANGED <<libVars, timer, pend, sigkill_retries, interrupts>>

HandlerStep == \/ AlarmKill \/ AlarmRearm \/ AlarmCount
               \/ HeartbeatRearm \/ HeartbeatReset \/ InterruptKill

LibKilled ==
  /\ MayKillLib
  /\ LibAlive
  /\ LibEnds("external")
  /\ UNCHANGED <<variant, test_pid, sigVars, procVars>>

-----------------------------------------------------------------------------
(* The test process of variant v.  With SIGKILL pending it takes no step   *)
(* that needs the kernel, and Dies when the kernel gets to it.             *)

CanRun(v) == v \notin doomed

Becomes(v, s) == proc' = [proc EXCEPT ![v] = s]

SetGroup(v) ==                     \* SAFE_SETPGID(0, 0); testrun()
  /\ CanRun(v)
  /\ proc[v] = "child"
  /\ grouped' = grouped \cup {v}
  /\ Becomes(v, "beat")
  /\ UNCHANGED <<libVars, sigVars, status, doomed, strays>>

\* heartbeat: getppid() == 1 means the library is gone.
ParentPresent == LibAlive

BeatChecks(v) ==
  /\ CanRun(v)
  /\ proc[v] = "beat"
  /\ ParentPresent
  /\ Becomes(v, "checked")
  /\ UNCHANGED <<libVars, sigVars, status, grouped, doomed, strays>>

BeatOrphaned(v) ==                 \* kill(0, SIGKILL): its own group
  /\ CanRun(v)
  /\ proc[v] = "beat"
  /\ ~ParentPresent
  /\ Becomes(v, "zombie")
  /\ status' = [status EXCEPT ![v] = "killed"]
  /\ strays' = strays \ {v}
  /\ UNCHANGED <<libVars, sigVars, grouped, doomed>>

BeatSends(v) ==                    \* kill(getppid(), SIGUSR1)
  /\ CanRun(v)
  /\ proc[v] = "checked"
  /\ Becomes(v, "running")
  /\ pend' = IF LibAlive THEN pend \cup {"USR1"} ELSE pend
  /\ UNCHANGED <<libVars, timer, frames, sigkill_retries, interrupts,
                 status, grouped, doomed, strays>>

NextTest(v) ==                     \* run_tests: back to heartbeat()
  /\ CanRun(v)
  /\ proc[v] = "running"
  /\ Becomes(v, "beat")
  /\ UNCHANGED <<libVars, sigVars, status, grouped, doomed, strays>>

Spawn(v) ==                        \* a descendant that outlives the test
  /\ CanRun(v)
  /\ proc[v] = "running"
  /\ strays' = strays \cup {v}
  /\ UNCHANGED <<libVars, sigVars, proc, status, grouped, doomed>>

Exit(v, s) ==
  /\ CanRun(v)
  /\ proc[v] = "running"
  /\ Becomes(v, "zombie")
  /\ status' = [status EXCEPT ![v] = s]
  /\ UNCHANGED <<libVars, sigVars, grouped, doomed, strays>>

Hang(v) ==                         \* never another step of its own
  /\ CanRun(v)
  /\ proc[v] \in {"child", "running"}
  /\ Becomes(v, "hung")
  /\ UNCHANGED <<libVars, sigVars, status, grouped, doomed, strays>>

Die(v) ==
  /\ v \in doomed
  /\ proc[v] \in Alive
  /\ Becomes(v, "zombie")
  /\ status' = [status EXCEPT ![v] = "killed"]
  /\ UNCHANGED <<libVars, sigVars, grouped, doomed, strays>>

Progress(v) ==
  \/ SetGroup(v) \/ BeatChecks(v) \/ BeatOrphaned(v) \/ BeatSends(v)
  \/ NextTest(v) \/ \E s \in {"ok", "conf", "bad", "crashed"} : Exit(v, s)

Next ==
  \/ LibStep
  \/ HandlerStep
  \/ TimerFires \/ Interrupt \/ LibKilled
  \/ \E sig \in Signals : Deliver(sig)
  \/ \E v \in Pids : Progress(v) \/ Spawn(v) \/ Hang(v) \/ Die(v)

Spec == Init /\ [][Next]_vars

\* The scheduler runs the library and delivers its signals, timers expire, and
\* a test process that has not hung makes progress.  Nothing is assumed of the
\* death of a process with SIGKILL pending: alarm_handler allows for a test
\* that cannot be killed.
Fairness ==
  /\ WF_vars(LibStep)
  /\ WF_vars(HandlerStep)
  /\ WF_vars(TimerFires)
  /\ \A sig \in Signals : WF_vars(Deliver(sig))
  /\ \A v \in Pids : WF_vars(Progress(v))

FairSpec == Spec /\ Fairness

-----------------------------------------------------------------------------
TypeOK ==
  /\ lib \in {"arm", "fork", "assign", "wait", "disarm", "sweep", "exited"}
  /\ variant \in Pids
  /\ test_pid \in Pids \cup {-1, 0}
  /\ timer \in {"off", "timeout", "five"}
  /\ pend \subseteq Signals
  /\ frames \in Seq(UNION {Frames[sig] : sig \in Signals})
  /\ sigkill_retries \in 0 .. MaxRetries
  /\ interrupts \in 0 .. MaxInterrupts
  /\ verdict \in {"none", "ok", "conf", "bad", "broken", "unclean",
                  "suicide", "interrupted", "external"}
  /\ proc \in [Pids -> Alive \cup {"none", "zombie", "reaped"}]
  /\ status \in [Pids -> {"none", "ok", "conf", "bad", "killed", "crashed"}]
  /\ grouped \subseteq Pids
  /\ doomed \subseteq grouped
  /\ strays \subseteq grouped

\* While the library waits for a test process there is always something that
\* will wake it: a running timer, a pending SIGALRM, or a handler that has yet
\* to re-arm the timer - whatever interrupts what in alarm_handler and
\* heartbeat_handler (linux-test-project.h:2377-2395).
WillRearm(i) == frames[i] \in {"alrm_kill", "alrm_rearm", "usr1_rearm"}

WatchdogArmed ==
  lib \in {"fork", "assign", "wait"} =>
    \/ timer # "off"
    \/ "ALRM" \in pend
    \/ \E i \in 1 .. Len(frames) : WillRearm(i)

\* The library reports success or "not configured" only if every variant's
\* process ran to its own normal end: a test killed by the watchdog, or by a
\* signal of its own, never passes (3165-3177, 3391).
OnlyNormalEndsPass ==
  verdict \in {"ok", "conf"} =>
    \A v \in Pids : proc[v] = "reaped" /\ status[v] \in {"ok", "conf"}

\* A test that declares forks_child leaves no descendant behind, however its
\* process ended, once the library has dealt with it (3162).
NoLeftovers ==
  ForksChild =>
    \A v \in Pids :
      /\ proc[v] = "reaped"
      /\ variant > v \/ verdict \in {"ok", "conf", "bad", "broken"}
      => v \notin strays

\* The library ends the run of a test that hangs anywhere, even before it has a
\* process group of its own to be killed by and even if it cannot be killed.
HangEndsRun == (\E v \in Pids : proc[v] = "hung") ~> lib = "exited"

\* Once the group of a test was sent SIGKILL the run ends, even if the process
\* never dies.
DoomedEndsRun == doomed # {} ~> lib = "exited"

\* A test process whose library is gone (killed, or given up) notices at its
\* next heartbeat and takes its group down (2492-2500), instead of going
\* through the rest of its iterations unsupervised.
OrphanStops ==
  \A v \in Pids : (lib = "exited" /\ proc[v] \in Alive) ~>
                    (proc[v] \notin Alive \/ proc[v] = "hung" \/ v \in doomed)

\* Nothing runs on unwatched: a test that hangs or cannot be killed ends the run, and
\* a test whose library is gone ends itself (alarm_handler, heartbeat).
NothingRunsOn == HangEndsRun /\ DoomedEndsRun /\ OrphanStops
=============================================================================
