------------------------- MODULE LtpWatchdog_proofs -------------------------
(***************************************************************************)
(* For any number of variants, retries and interrupts: the library that    *)
(* waits for a test process can always be woken by its timer, only normal  *)
(* ends of every test process make a success, and no descendant outlives   *)
(* the run of a test that forks children.                                  *)
(***************************************************************************)
EXTENDS LtpWatchdog, SequenceTheorems, TLAPS

AllFrames == UNION {Frames[sig] : sig \in Signals}

\* What the argument needs of the types: the handler stack is a sequence.
FramesOK == frames \in Seq(AllFrames)

LEMMA FramesExpand ==
  AllFrames = {"alrm_kill", "alrm_rearm", "alrm_count",
               "usr1_rearm", "usr1_reset", "int_kill"}
BY DEF AllFrames, Frames, Signals

\* Every handler step replaces or removes the innermost frame, and a signal
\* adds one.
LEMMA FramesStep == FramesOK /\ [Next]_vars => FramesOK'
<1> SUFFICES ASSUME FramesOK, [Next]_vars PROVE FramesOK'
  OBVIOUS
<1>1. ASSUME frames # <<>>
      PROVE  /\ Tail(frames) \in Seq(AllFrames)
             /\ \A f \in AllFrames : <<f>> \o Tail(frames) \in Seq(AllFrames)
  BY <1>1, HeadTailProperties, ConcatProperties DEF FramesOK
<1>2. \A f \in AllFrames : <<f>> \o frames \in Seq(AllFrames)
  BY ConcatProperties DEF FramesOK
<1>3. CASE UNCHANGED frames
  BY <1>3 DEF FramesOK
<1>4. ASSUME NEW sig \in Signals, Deliver(sig) PROVE FramesOK'
  <2>1. frames' = frames \/ \E f \in AllFrames : frames' = <<f>> \o frames
    BY <1>4, FramesExpand DEF Deliver, Signals, FirstFrame
  <2> QED BY <1>2, <1>3, <2>1 DEF FramesOK
<1>5. CASE HandlerStep
  <2>1. \/ frames' = frames
        \/ frames # <<>> /\ frames' = Tail(frames)
        \/ frames # <<>> /\ \E f \in AllFrames : frames' = <<f>> \o Tail(frames)
    BY <1>5, FramesExpand
    DEF HandlerStep, AlarmKill, AlarmRearm, AlarmCount, HeartbeatRearm,
        HeartbeatReset, InterruptKill, InHandler, Pop, Goto, vars, sigVars
  <2> QED BY <1>1, <1>3, <2>1 DEF FramesOK
<1>6. CASE LibStep \/ TimerFires \/ Interrupt \/ LibKilled
  BY <1>3, <1>6
  DEF LibStep, Arm, Fork, ForkFails, AssignPid, Wait, Disarm, Sweep,
      TimerFires, Interrupt, LibKilled, sigVars
<1>7. ASSUME NEW v \in Pids, Progress(v) \/ Spawn(v) \/ Hang(v) \/ Die(v)
      PROVE  FramesOK'
  BY <1>3, <1>7
  DEF Progress, SetGroup, BeatChecks, BeatOrphaned, BeatSends, NextTest,
      Exit, Spawn, Hang, Die, sigVars
<1>8. CASE UNCHANGED vars
  BY <1>3, <1>8 DEF vars, sigVars
<1> QED BY <1>4, <1>5, <1>6, <1>7, <1>8 DEF Next

\* The types, with the one fact about groups they need: a process that beats or
\* runs has called setpgid.
RunsGrouped ==
  \A v \in Pids : proc[v] \in {"beat", "checked", "running"} => v \in grouped

LEMMA TypeStep == TypeOK /\ RunsGrouped /\ [Next]_vars => TypeOK' /\ RunsGrouped'
<1> SUFFICES ASSUME TypeOK, RunsGrouped, [Next]_vars PROVE TypeOK' /\ RunsGrouped'
  OBVIOUS
<1>0. frames' \in Seq(UNION {Frames[sig] : sig \in Signals})
  BY FramesStep DEF FramesOK, AllFrames, TypeOK
<1> USE WatchdogAssumption DEF TypeOK, RunsGrouped
<1>1. CASE LibStep
  <2>1. CASE Arm
    BY <1>0, <2>1 DEF Arm, ArmedTimer, procVars, Pids
  <2>2. CASE Fork
    BY <1>0, <2>2 DEF Fork, sigVars, Pids, Alive
  <2>3. CASE ForkFails
    BY <1>0, <2>3 DEF ForkFails, LibEnds, sigVars, procVars, Pids
  <2>4. CASE AssignPid
    BY <1>0, <2>4 DEF AssignPid, sigVars, procVars, Pids
  <2>5. CASE Wait
    BY <1>0, <2>5 DEF Wait, sigVars, Pids
  <2>6. CASE Disarm
    BY <1>0, <2>6 DEF Disarm, procVars, Pids
  <2>7. CASE Sweep
    <3>1. VerdictOf(status[variant]) \in {"none", "ok", "conf", "bad", "broken"}
      BY DEF VerdictOf
    <3>2. variant' \in Pids
      BY <2>7 DEF Sweep, Pids
    <3> QED BY <1>0, <2>7, <3>1, <3>2 DEF Sweep, SweptStrays, LibEnds, sigVars
  <2> QED BY <1>1, <2>1, <2>2, <2>3, <2>4, <2>5, <2>6, <2>7 DEF LibStep
<1>2. CASE HandlerStep
  <2>1. CASE AlarmKill
    BY <1>0, <2>1 DEF AlarmKill, KillGroup, LibEnds, procVars, Pids
  <2>2. CASE AlarmRearm
    BY <1>0, <2>2 DEF AlarmRearm, RearmedTimer, libVars, procVars, Pids
  <2>3. CASE AlarmCount
    BY <1>0, <2>3 DEF AlarmCount, GiveUp, LibEnds, procVars, Pids
  <2>4. CASE HeartbeatRearm
    BY <1>0, <2>4 DEF HeartbeatRearm, libVars, procVars
  <2>5. CASE HeartbeatReset
    BY <1>0, <2>5 DEF HeartbeatReset, libVars, procVars
  <2>6. CASE InterruptKill
    <3>1. doomed' \subseteq grouped /\ strays' \subseteq grouped
      BY <2>6 DEF InterruptKill, KillGroup, procVars
    <3>2. UNCHANGED <<libVars, timer, pend, sigkill_retries, interrupts,
                      proc, status, grouped>>
      BY <2>6 DEF InterruptKill, KillGroup, procVars
    <3> QED BY <1>0, <3>1, <3>2 DEF libVars
  <2> QED BY <1>2, <2>1, <2>2, <2>3, <2>4, <2>5, <2>6 DEF HandlerStep
<1>3. CASE TimerFires \/ Interrupt \/ LibKilled
  <2>1. CASE TimerFires
    BY <1>0, <2>1 DEF TimerFires, libVars, procVars, Signals
  <2>2. CASE Interrupt
    BY <1>0, <2>2 DEF Interrupt, libVars, procVars, Signals
  <2>3. CASE LibKilled
    BY <1>0, <2>3 DEF LibKilled, LibEnds, procVars, sigVars
  <2> QED BY <1>3, <2>1, <2>2, <2>3
<1>4. ASSUME NEW sig \in Signals, Deliver(sig) PROVE TypeOK' /\ RunsGrouped'
  BY <1>0, <1>4 DEF Deliver, LibEnds, procVars, Pids
<1>5. ASSUME NEW v \in Pids, NEW st,
             st \in Alive \cup {"zombie"}, Becomes(v, st),
             st \in {"beat", "checked", "running"} => v \in grouped'
      PROVE  /\ proc' \in [Pids -> Alive \cup {"none", "zombie", "reaped"}]
             /\ grouped \subseteq grouped' => RunsGrouped'
  BY <1>5 DEF Becomes
<1>6. ASSUME NEW v \in Pids, Progress(v) PROVE TypeOK' /\ RunsGrouped'
  <2>1. CASE SetGroup(v)
    BY <1>0, <2>1 DEF SetGroup, Becomes, libVars, sigVars, Alive, Pids
  <2>2. CASE BeatChecks(v)
    BY <1>0, <1>5, <2>2 DEF BeatChecks, libVars, sigVars, Alive
  <2>3. CASE BeatOrphaned(v)
    BY <1>0, <1>5, <2>3 DEF BeatOrphaned, libVars, sigVars, Alive
  <2>4. CASE NextTest(v)
    BY <1>0, <1>5, <2>4 DEF NextTest, libVars, sigVars, Alive
  <2>5. CASE BeatSends(v)
    BY <1>0, <1>5, <2>5 DEF BeatSends, libVars, Signals, Alive
  <2>6. ASSUME NEW s \in {"ok", "conf", "bad", "crashed"}, Exit(v, s)
        PROVE  TypeOK' /\ RunsGrouped'
    BY <1>0, <1>5, <2>6 DEF Exit, libVars, sigVars, Alive
  <2> QED BY <1>6, <2>1, <2>2, <2>3, <2>4, <2>5, <2>6 DEF Progress
<1>7. ASSUME NEW v \in Pids, Spawn(v) \/ Hang(v) \/ Die(v)
      PROVE  TypeOK' /\ RunsGrouped'
  <2>1. CASE Spawn(v)
    BY <1>0, <2>1 DEF Spawn, libVars, sigVars
  <2>2. CASE Hang(v)
    BY <1>0, <1>5, <2>2 DEF Hang, libVars, sigVars, Alive
  <2>3. CASE Die(v)
    BY <1>0, <1>5, <2>3 DEF Die, libVars, sigVars, Alive
  <2> QED BY <1>7, <2>1, <2>2, <2>3
<1>8. CASE UNCHANGED vars
  BY <1>0, <1>8 DEF vars, libVars, sigVars, procVars, Pids
<1> QED BY <1>1, <1>2, <1>3, <1>4, <1>6, <1>7, <1>8 DEF Next

\* The type invariant, for any number of variants, retries and interrupts.
THEOREM TypeCorrect == Spec => []TypeOK
<1>1. Init => TypeOK /\ RunsGrouped
  BY WatchdogAssumption
  DEF Init, TypeOK, RunsGrouped, Pids, Signals, Alive
<1> QED BY <1>1, TypeStep, PTL DEF Spec

-----------------------------------------------------------------------------
\* The frame about to run, or about to be popped, is the only one a step takes
\* away: the others keep their duty to re-arm.
RearmsLater == \E i \in 1 .. Len(frames) : WillRearm(i)

LEMMA PopKeeps ==
  ASSUME FramesOK, frames # <<>>, ~WillRearm(1), RearmsLater, Pop
  PROVE  RearmsLater'
<1>1. PICK i \in 1 .. Len(frames) : WillRearm(i)
  BY DEF RearmsLater
<1>2. i - 1 \in 1 .. Len(frames') /\ frames'[i - 1] = frames[i]
  BY <1>1, HeadTailProperties DEF FramesOK, Pop, WillRearm
<1> QED BY <1>1, <1>2 DEF RearmsLater, WillRearm

LEMMA PushKeeps ==
  ASSUME FramesOK, NEW f \in AllFrames, frames' = <<f>> \o frames
  PROVE  /\ RearmsLater => RearmsLater'
         /\ f \in {"alrm_kill", "usr1_rearm"} => RearmsLater'
<1>1. /\ Len(frames') = Len(frames) + 1
      /\ frames'[1] = f
      /\ \A i \in 1 .. Len(frames) : frames'[i + 1] = frames[i]
  BY ConcatProperties DEF FramesOK
<1> QED BY <1>1 DEF RearmsLater, WillRearm, FramesOK

LEMMA GotoRearm ==
  ASSUME FramesOK, frames # <<>>, Goto("alrm_rearm")
  PROVE  RearmsLater'
<1>1. Tail(frames) \in Seq(AllFrames)
  BY HeadTailProperties DEF FramesOK
<1>2. Len(frames') \in Nat \ {0} /\ frames'[1] = "alrm_rearm"
  BY <1>1, FramesExpand DEF Goto
<1> QED BY <1>2 DEF RearmsLater, WillRearm

LEMMA ArmedStep ==
  TypeOK /\ WatchdogArmed /\ [Next]_vars => WatchdogArmed'
<1> SUFFICES ASSUME TypeOK, WatchdogArmed, [Next]_vars PROVE WatchdogArmed'
  OBVIOUS
<1>0. FramesOK
  BY DEF TypeOK, FramesOK, AllFrames
<1> DEFINE Waiting == lib \in {"fork", "assign", "wait"}
           Armed   == timer # "off" \/ "ALRM" \in pend \/ RearmsLater
<1>a. WatchdogArmed = (Waiting => Armed)
  BY DEF WatchdogArmed, RearmsLater
<1>b. WatchdogArmed' = (Waiting' => Armed')
  BY DEF WatchdogArmed, RearmsLater
<1>same. CASE (Waiting' => Waiting) /\ UNCHANGED <<timer, pend, frames>>
  BY <1>a, <1>b, <1>same DEF RearmsLater, WillRearm
<1>1. CASE LibStep
  <2>1. CASE Arm
    BY <1>b, <2>1 DEF Arm, ArmedTimer
  <2>2. CASE Disarm \/ Sweep \/ ForkFails \/ Wait
    BY <1>b, <2>2 DEF Disarm, Sweep, ForkFails, Wait, LibEnds
  <2>3. CASE Fork \/ AssignPid
    BY <1>same, <2>3 DEF Fork, AssignPid, sigVars
  <2> QED BY <1>1, <2>1, <2>2, <2>3 DEF LibStep
<1>2. CASE HandlerStep
  <2>1. CASE AlarmKill
    BY <1>0, <1>b, <2>1, GotoRearm DEF AlarmKill, LibEnds, InHandler
  <2>2. CASE AlarmRearm \/ HeartbeatRearm
    BY <1>b, <2>2 DEF AlarmRearm, HeartbeatRearm, RearmedTimer
  <2>3. CASE AlarmCount /\ GiveUp
    BY <1>b, <2>3 DEF AlarmCount, LibEnds
  <2>4. CASE (AlarmCount /\ ~GiveUp) \/ HeartbeatReset \/ InterruptKill
    <3>1. /\ UNCHANGED <<lib, timer, pend>>
          /\ frames # <<>>
          /\ Pop
          /\ Head(frames) \in {"alrm_count", "usr1_reset", "int_kill"}
      BY <2>4 DEF AlarmCount, HeartbeatReset, InterruptKill, InHandler, libVars
    <3>2. ~WillRearm(1)
      BY <1>0, <3>1 DEF WillRearm, FramesOK
    <3> QED BY <1>0, <1>a, <1>b, <3>1, <3>2, PopKeeps
  <2> QED BY <1>2, <2>1, <2>2, <2>3, <2>4 DEF HandlerStep
<1>3. CASE TimerFires
  BY <1>b, <1>3 DEF TimerFires
<1>4. CASE Interrupt
  BY <1>a, <1>b, <1>4 DEF Interrupt, libVars, RearmsLater, WillRearm
<1>5. CASE LibKilled
  BY <1>b, <1>5 DEF LibKilled, LibEnds
<1>6. ASSUME NEW sig \in Signals, Deliver(sig) PROVE WatchdogArmed'
  <2>1. CASE lib' = "exited"
    BY <1>b, <2>1
  <2>2. CASE lib' # "exited"
    <3>1. /\ UNCHANGED <<lib, timer>>
          /\ pend' = pend \ {sig}
          /\ frames' = <<FirstFrame[sig]>> \o frames
      BY <1>6, <2>2 DEF Deliver, LibEnds
    <3>2. /\ FirstFrame[sig] \in AllFrames
          /\ sig = "ALRM" => FirstFrame[sig] = "alrm_kill"
      BY FramesExpand DEF FirstFrame, Signals
    <3> QED BY <1>0, <1>a, <1>b, <3>1, <3>2, PushKeeps DEF Signals
  <2> QED BY <2>1, <2>2
<1>7. ASSUME NEW v \in Pids, Progress(v) \/ Spawn(v) \/ Hang(v) \/ Die(v)
      PROVE  WatchdogArmed'
  <2>1. /\ UNCHANGED <<lib, timer, frames>>
        /\ pend \subseteq pend'
    BY <1>7
    DEF Progress, SetGroup, BeatChecks, BeatOrphaned, BeatSends, NextTest,
        Exit, Spawn, Hang, Die, sigVars, libVars
  <2> QED BY <1>a, <1>b, <2>1 DEF RearmsLater, WillRearm
<1>8. CASE UNCHANGED vars
  BY <1>same, <1>8 DEF vars, libVars, sigVars
<1> QED BY <1>1, <1>2, <1>3, <1>4, <1>5, <1>6, <1>7, <1>8 DEF Next

\* No interleaving of the library with its own handlers leaves it waiting for a
\* test process with nothing that would ever wake it.
THEOREM AlwaysArmed == Spec => []WatchdogArmed
<1>1. Init => TypeOK /\ RunsGrouped /\ WatchdogArmed
  BY WatchdogAssumption
  DEF Init, TypeOK, RunsGrouped, WatchdogArmed, Pids, Signals, Alive
<1> QED BY <1>1, TypeStep, ArmedStep, PTL DEF Spec
-----------------------------------------------------------------------------
(* What a run leaves behind.  The argument is about where the library is   *)
(* in fork_testrun and what it has done to each variant's process by then. *)

\* The variants are run in order, each process is reaped before the next one is
\* forked, and only a normal end leads to the next variant.
OneAtATime ==
  /\ \A v \in Pids : v < variant => proc[v] = "reaped" /\ status[v] \in {"ok", "conf"}
  /\ \A v \in Pids : v > variant => proc[v] = "none"
  /\ lib \in {"arm", "fork"} => proc[variant] = "none"
  /\ lib \in {"assign", "wait"} => proc[variant] \in Alive \cup {"zombie"}
  /\ lib \in {"disarm", "sweep"} => proc[variant] = "reaped"

\* What the library knows: the process it waited for is the one it sweeps after.
PidKnown ==
  /\ lib \in {"wait", "disarm", "sweep"} => test_pid = variant
  /\ LibAlive => verdict = "none"

RunInv == OneAtATime /\ PidKnown /\ OnlyNormalEndsPass /\ NoLeftovers

\* No step of a test process, and no handler, touches a process that has been
\* reaped or not been forked; none of them adds a stray to a reaped process.
ProcsKeep ==
  /\ UNCHANGED variant
  /\ \A v \in Pids :
       /\ proc[v] \notin Alive => proc'[v] = proc[v] /\ status'[v] = status[v]
       /\ proc[v] \in Alive => proc'[v] \in Alive \cup {"zombie"}
       /\ proc[v] = "reaped" /\ v \notin strays => v \notin strays'

\* The library goes on where it was, or ends with none of the verdicts of Sweep.
LibKeeps ==
  \/ UNCHANGED <<lib, test_pid, verdict>>
  \/ lib' = "exited" /\ verdict' \in {"unclean", "suicide", "interrupted", "external"}

LEMMA KeepsRunInv ==
  ASSUME TypeOK, RunInv, ProcsKeep, LibKeeps PROVE RunInv'
<1> USE DEF TypeOK, RunInv, ProcsKeep, LibKeeps
<1>1. OneAtATime'
  BY DEF OneAtATime, Alive, Pids
<1>2. PidKnown'
  BY DEF PidKnown, LibAlive
<1>3. OnlyNormalEndsPass'
  BY DEF OnlyNormalEndsPass, Alive
<1>4. NoLeftovers'
  <2> SUFFICES ASSUME ForksChild, NEW v \in Pids, proc'[v] = "reaped",
                      variant > v \/ verdict' \in {"ok", "conf", "bad", "broken"}
               PROVE  v \notin strays'
    BY DEF NoLeftovers
  <2>1. proc[v] = "reaped"
    BY DEF Alive
  <2>2. variant > v \/ verdict \in {"ok", "conf", "bad", "broken"}
    OBVIOUS
  <2> QED BY <2>1, <2>2 DEF NoLeftovers
<1> QED BY <1>1, <1>2, <1>3, <1>4

LEMMA RunStep == TypeOK /\ RunInv /\ [Next]_vars => RunInv'
<1> SUFFICES ASSUME TypeOK, RunInv, [Next]_vars PROVE RunInv'
  OBVIOUS
<1>1. CASE LibStep
  <2> USE DEF TypeOK, RunInv, OneAtATime, PidKnown, OnlyNormalEndsPass, NoLeftovers, LibAlive
  <2>1. CASE Arm
    BY <2>1 DEF Arm, ArmedTimer, procVars
  <2>2. CASE Fork
    BY <2>2 DEF Fork, Pids, Alive
  <2>3. CASE ForkFails
    BY <2>3 DEF ForkFails, LibEnds, procVars, Pids
  <2>4. CASE AssignPid
    BY <2>4 DEF AssignPid, procVars
  <2>5. CASE Wait
    BY <2>5 DEF Wait, Pids
  <2>6. CASE Disarm
    BY <2>6 DEF Disarm, procVars
  <2>7. CASE Sweep
    <3> DEFINE s == VerdictOf(status[variant])
    <3>1. /\ lib = "sweep" /\ UNCHANGED <<test_pid, proc, status>>
          /\ ForksChild => strays' = strays \ {variant}
          /\ strays' \subseteq strays
          /\ \/ /\ s \in {"ok", "conf"} /\ variant < Variants
                /\ lib' = "arm" /\ variant' = variant + 1 /\ UNCHANGED verdict
             \/ /\ ~(s \in {"ok", "conf"} /\ variant < Variants)
                /\ lib' = "exited" /\ verdict' = s /\ UNCHANGED variant
      BY <2>7 DEF Sweep, SweptStrays, LibEnds
    <3>2. s \in {"ok", "conf"} => status[variant] \in {"ok", "conf"}
      BY DEF VerdictOf
    <3>3. CASE lib' = "arm"
      <4>1. OneAtATime'
        BY <3>1, <3>2, <3>3, WatchdogAssumption DEF Pids
      <4>2. NoLeftovers'
        BY <3>1, <3>3, WatchdogAssumption DEF Pids
      <4> QED BY <3>1, <3>3, <4>1, <4>2
    <3>4. CASE lib' = "exited"
      <4>1. OneAtATime' /\ PidKnown'
        BY <3>1, <3>4
      <4>2. OnlyNormalEndsPass'
        BY <3>1, <3>2, <3>4, WatchdogAssumption DEF Pids
      <4>3. NoLeftovers'
        BY <3>1, <3>4, WatchdogAssumption DEF Pids
      <4> QED BY <4>1, <4>2, <4>3
    <3> QED BY <3>1, <3>3, <3>4
  <2> QED BY <1>1, <2>1, <2>2, <2>3, <2>4, <2>5, <2>6, <2>7 DEF LibStep
<1>2. CASE HandlerStep
  <2>1. ProcsKeep
    BY <1>2
    DEF HandlerStep, AlarmKill, AlarmRearm, AlarmCount, HeartbeatRearm, HeartbeatReset,
        InterruptKill, KillGroup, ProcsKeep, Alive, libVars, procVars
  <2>2. LibKeeps
    BY <1>2
    DEF HandlerStep, AlarmKill, AlarmRearm, AlarmCount, HeartbeatRearm, HeartbeatReset,
        InterruptKill, LibEnds, LibKeeps, libVars
  <2> QED BY <2>1, <2>2, KeepsRunInv
<1>3. CASE TimerFires \/ Interrupt \/ LibKilled \/ \E sig \in Signals : Deliver(sig)
  <2>1. ProcsKeep
    BY <1>3 DEF TimerFires, Interrupt, LibKilled, Deliver, ProcsKeep, Alive, libVars, procVars
  <2>2. LibKeeps
    BY <1>3 DEF TimerFires, Interrupt, LibKilled, Deliver, LibEnds, LibKeeps, libVars
  <2> QED BY <2>1, <2>2, KeepsRunInv
<1>4. ASSUME NEW v \in Pids, Progress(v) \/ Spawn(v) \/ Hang(v) \/ Die(v)
      PROVE  RunInv'
  <2>1. ProcsKeep
    <3> USE DEF ProcsKeep, Becomes, Alive, libVars, TypeOK
    <3>1. CASE SetGroup(v) \/ BeatChecks(v) \/ BeatSends(v) \/ NextTest(v) \/ Hang(v)
      BY <3>1 DEF SetGroup, BeatChecks, BeatSends, NextTest, Hang
    <3>2. CASE BeatOrphaned(v)
      BY <3>2 DEF BeatOrphaned
    <3>3. CASE Spawn(v) \/ Die(v)
      BY <3>3 DEF Spawn, Die
    <3>4. ASSUME NEW s \in {"ok", "conf", "bad", "crashed"}, Exit(v, s) PROVE ProcsKeep
      BY <3>4 DEF Exit
    <3> QED BY <1>4, <3>1, <3>2, <3>3, <3>4 DEF Progress
  <2>2. LibKeeps
    BY <1>4
    DEF Progress, SetGroup, BeatChecks, BeatOrphaned, BeatSends, NextTest, Exit,
        Spawn, Hang, Die, LibKeeps, libVars
  <2> QED BY <2>1, <2>2, KeepsRunInv
<1>5. CASE UNCHANGED vars
  <2>1. ProcsKeep /\ LibKeeps
    BY <1>5 DEF vars, libVars, procVars, ProcsKeep, LibKeeps, Alive
  <2> QED BY <2>1, KeepsRunInv
<1> QED BY <1>1, <1>2, <1>3, <1>4, <1>5 DEF Next

LEMMA RunInvariant == Spec => []RunInv
<1>1. Init => TypeOK /\ RunsGrouped /\ RunInv
  BY WatchdogAssumption
  DEF Init, TypeOK, RunsGrouped, RunInv, OneAtATime, PidKnown, OnlyNormalEndsPass,
      NoLeftovers, Pids, Signals, Alive, LibAlive
<1> QED BY <1>1, TypeStep, RunStep, PTL DEF Spec

\* For any number of variants, and whatever handlers interrupt the library: it
\* reports success, or "not configured", only after every test process has run to
\* a normal end of its own.
THEOREM PassedNormally == Spec => []OnlyNormalEndsPass
<1>1. RunInv => OnlyNormalEndsPass
  BY DEF RunInv
<1> QED BY <1>1, RunInvariant, PTL

\* For any number of variants: when the library has dealt with a test process that
\* forks children, no descendant of it is left.
THEOREM SweptClean == Spec => []NoLeftovers
<1>1. RunInv => NoLeftovers
  BY DEF RunInv
<1> QED BY <1>1, RunInvariant, PTL
=============================================================================
