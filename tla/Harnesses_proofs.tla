--------------------------- MODULE Harnesses_proofs ---------------------------
(***************************************************************************)
(* What holds of the harnesses that tests from other projects bring along, *)
(* and of the script that runs the tests, for every value of the           *)
(* constants: each alone.                                                  *)
(***************************************************************************)
EXTENDS KernelHarness, Cosmopolitan, Cmocka, GvisorFiles, GlibcTest, Z88dk,
        CygwinTest, TestRunner,
        FiniteSetTheorems, FunctionTheorems, SequenceTheorems, TLAPS

----------------------------------------------------------------------------
(***************************************************************************)
(* The Linux kernel's harness (test_harness, linux-kernel.h).  No process  *)
(* is there before the fork, and the child's own process is reaped before  *)
(* its status is judged; nothing that returns leaves it running.           *)
(***************************************************************************)
KhIInv ==
    /\ kh_helpers \in BOOLEAN /\ kh_stubborn \in BOOLEAN
    /\ kh_pc = "start" => kh_child = "none" /\ kh_helpers = FALSE
    /\ kh_pc = "reaped" => kh_child = "reaped"
    /\ KhVerdictHonest

\* After a signal to the group only what does not heed SIGTERM goes on.
LEMMA GroupIsTold ==
  ASSUME kh_helpers \in BOOLEAN, kh_stubborn \in BOOLEAN, NEW signal, KillGroup(signal)
  PROVE  /\ kh_helpers' \in BOOLEAN /\ kh_stubborn' = kh_stubborn
         /\ kh_helpers' => kh_stubborn
         /\ kh_child # "running" => UNCHANGED <<kh_child, kh_status>>
         /\ signal = "KILL" => kh_child' # "running"
<1>1. kh_helpers' \in BOOLEAN /\ (kh_helpers' => kh_stubborn)
  BY Zenon DEF KillGroup
<1>2. /\ kh_stubborn' = kh_stubborn
      /\ kh_child # "running" => UNCHANGED <<kh_child, kh_status>>
      /\ signal = "KILL" => kh_child' # "running"
  BY Zenon DEF KillGroup, KhRunning
<1> QED
  BY <1>1, <1>2

\* Whatever the test did and whichever signals came, what the harness returns is true
\* (test_harness and test_harness_internal_run_test, linux-kernel.h).
THEOREM KhVerdictIsHonest == KhSpec => []KhVerdictHonest
<1>1. KhInit => KhIInv
  BY DEF KhInit, KhIInv, KhVerdictHonest
<1>2. KhIInv /\ [KhNext]_khvars => KhIInv'
  <2> SUFFICES ASSUME KhIInv, [KhNext]_khvars PROVE KhIInv'
    OBVIOUS
  <2> USE DEF KhIInv, KhVerdictHonest, KhReturns, KhRunning, khChild
  <2>1. CASE HarnessFails
    BY <2>1 DEF HarnessFails
  <2>2. CASE KhFork
    BY <2>2 DEF KhFork
  <2>3. CASE KhArm
    BY <2>3 DEF KhArm
  <2>4. CASE KhTerminate
    <3>1. KillGroup("TERM") /\ kh_pc' = "wait"
      BY <2>4 DEF KhTerminate
    <3> QED
      BY <3>1, GroupIsTold
  <2>5. CASE KhForceKill
    <3>1. KillGroup("KILL") /\ kh_pc' = "returned" /\ kh_rc' = 1 /\ kh_said' = "failure"
      BY <2>5 DEF KhForceKill, LastSignal
    <3> QED
      BY <3>1, GroupIsTold
  <2>6. CASE KhReap
    BY <2>6 DEF KhReap
  <2>7. CASE KhVerdict
    <3>1. KillGroup("TERM") /\ kh_child = "reaped" /\ kh_pc' = "returned"
      BY <2>7 DEF KhVerdict
    <3>2. /\ kh_child' = "reaped" /\ kh_status' = kh_status /\ kh_helpers' \in BOOLEAN
          /\ kh_stubborn' = kh_stubborn /\ (kh_helpers' => kh_stubborn)
      BY <3>1, GroupIsTold
    <3>3. /\ kh_rc' = 0 => kh_status \in {0, MAGIC_SKIP_RETURN_VALUE}
          /\ kh_said' = "success" => kh_status = 0
      BY <2>7 DEF KhVerdict, KhJudged, KhSignalled, MAGIC_SKIP_RETURN_VALUE
    <3> QED
      BY <3>1, <3>2, <3>3
  <2>8. CASE ChildForks
    BY <2>8 DEF ChildForks
  <2>9. CASE ChildEnds
    BY <2>9 DEF ChildEnds
  <2>10. CASE KhAlarm
    BY <2>10 DEF KhAlarm
  <2>11. CASE KhInterrupt
    BY <2>11 DEF KhInterrupt
  <2>12. CASE UNCHANGED khvars
    BY <2>12 DEF khvars
  <2> QED
    BY <2>1, <2>2, <2>3, <2>4, <2>5, <2>6, <2>7, <2>8, <2>9, <2>10, <2>11, <2>12
    DEF KhNext, KhStep
<1>3. KhIInv => KhVerdictHonest
  BY DEF KhIInv
<1> QED
  BY <1>1, <1>2, <1>3, PTL DEF KhSpec

(***************************************************************************)
(* While the parent waits, an alarm is set: what KhEnds rests on, and what *)
(* a second alarm after the SIGTERM is for (timeout_handler).              *)
(***************************************************************************)
KhAlarmed == kh_pc = "wait" => kh_alarm

\* The parent never waits without a limit.
THEOREM KhNeverWaitsUnlimited == KhSpec => []KhAlarmed
<1>1. KhInit => KhAlarmed
  BY DEF KhInit, KhAlarmed
<1>2. KhAlarmed /\ [KhNext]_khvars => KhAlarmed'
  BY DEF KhAlarmed, KhNext, KhStep, HarnessFails, KhFork, KhArm, KhTerminate, KhForceKill, KhReap,
         KhVerdict, ChildForks, ChildEnds, KhAlarm, KhInterrupt, KhReturns, KillTimeout, khvars
<1> QED
  BY <1>1, <1>2, PTL DEF KhSpec

----------------------------------------------------------------------------
(***************************************************************************)
(* The checks and rngset of cosmopolitan.h.  A check that does not hold    *)
(* ends the program, so that nothing is broken where a test goes on.  A    *)
(* fill is over only when the whole buffer is written.                     *)
(***************************************************************************)
CoFillType == co_fill \in [size : Int, n : Int, m : Int, reseed : Int, seeded : BOOLEAN,
                           written : Int, since : Int]
CoFilled == co_pc # "filling" => co_fill.m = 0 /\ co_fill.n = 0 /\ co_fill.written = co_fill.size
CoSound == co_pc \in {"test", "filling", "ended"} => ~co_broken \/ co_stale
CoBooleans == co_broken \in BOOLEAN /\ co_stale \in BOOLEAN
CoIInv ==
    /\ CoBooleans /\ CoSound /\ CoVerdictHonest
    /\ CoFillType /\ CoFilled /\ CoFillExact /\ co_fill.m >= 0 /\ co_fill.reseed >= 0

LEMMA MinOfTwo ==
  ASSUME NEW a \in Int, NEW b \in Int
  PROVE  Min({a, b}) \in {a, b} /\ Min({a, b}) <= a /\ Min({a, b}) <= b
<1>1. \E x \in {a, b} : \A y \in {a, b} : x <= y
  <2>1. CASE a <= b
    BY <2>1
  <2>2. CASE b <= a
    BY <2>2
  <2> QED
    BY <2>1, <2>2
<1> QED
  BY <1>1 DEF Min

LEMMA MaxOfTwo ==
  ASSUME NEW a \in Int, NEW b \in Int
  PROVE  Max({a, b}) \in {a, b} /\ Max({a, b}) >= a /\ Max({a, b}) >= b
<1>1. \E x \in {a, b} : \A y \in {a, b} : x >= y
  <2>1. CASE a >= b
    BY <2>1
  <2>2. CASE b >= a
    BY <2>2
  <2> QED
    BY <2>1, <2>2
<1> QED
  BY <1>1 DEF Max

\* A check leaves the buffers, and the program goes on only if it held.
LEMMA ChecksKeep ==
  ASSUME CoIInv, UNCHANGED co_fill, co_pc = "test",
         co_pc' \in {"test", "aborted"}, CoBooleans',
         co_pc' = "test" => ~co_broken' \/ co_stale',
         co_pc' = "aborted" => co_broken' \/ co_stale'
  PROVE  CoIInv'
<1>1. (CoFillType /\ CoFillExact /\ co_fill.m >= 0 /\ co_fill.reseed >= 0)'
  BY Zenon DEF CoIInv, CoFillType, CoFillExact
<1>2. CoFilled' /\ CoSound' /\ CoVerdictHonest'
  BY DEF CoIInv, CoFilled, CoSound, CoVerdictHonest
<1> QED
  BY <1>1, <1>2, Zenon DEF CoIInv

LEMMA CheckKeeps ==
  ASSUME CoIInv, NEW counted, NEW holds \in BOOLEAN, NEW errno, CoCheck(counted, holds, errno)
  PROVE  CoIInv'
<1>1. /\ UNCHANGED <<co_fill, co_stale>> /\ co_pc = "test"
      /\ co_pc' = IF holds THEN "test" ELSE "aborted"
      /\ co_broken' = (co_broken \/ ~holds)
  BY Zenon DEF CoCheck, Begins, Judged, testlib_abort
<1>2. co_broken' \in BOOLEAN /\ co_stale' \in BOOLEAN
  BY <1>1, Zenon DEF CoIInv, CoBooleans
<1>3. co_pc' \in {"test", "aborted"}
  BY <1>1
<1>4. co_pc' = "test" => ~co_broken' \/ co_stale'
  BY <1>1, Zenon DEF CoIInv, CoSound
<1>5. co_pc' = "aborted" => co_broken' \/ co_stale'
  BY <1>1, Zenon
<1> QED
  BY <1>1, <1>2, <1>3, <1>4, <1>5, ChecksKeep DEF CoBooleans

\* EXPECT_SYS compares the errno of its own call.
LEMMA ExpectKeeps ==
  ASSUME CoIInv, NEW wanted, NEW value \in BOOLEAN, NEW failed \in BOOLEAN, NEW e,
         EXPECT_SYS(wanted, value, failed, e)
  PROVE  CoIInv'
<1> DEFINE held == value /\ wanted = After(0, failed, e)
<1>1. /\ UNCHANGED <<co_fill, co_stale>> /\ co_pc = "test"
      /\ co_pc' = IF held THEN "test" ELSE "aborted"
      /\ co_broken' = (co_broken \/ ~value \/ wanted # After(0, failed, e))
  BY Zenon DEF EXPECT_SYS, Begins, Judged, testlib_abort, Cleared
<1>2. co_broken' \in BOOLEAN /\ co_stale' \in BOOLEAN
  BY <1>1, Zenon DEF CoIInv, CoBooleans
<1>3. co_pc' \in {"test", "aborted"}
  BY <1>1
<1>4. co_pc' = "test" => ~co_broken' \/ co_stale'
  BY <1>1, Zenon DEF CoIInv, CoSound
<1>5. co_pc' = "aborted" => co_broken' \/ co_stale'
  BY <1>1, Zenon
<1> QED
  BY <1>1, <1>2, <1>3, <1>4, <1>5, ChecksKeep DEF CoBooleans

\* ASSERT_SYS may compare an older one, where its call did not fail.
LEMMA AssertKeeps ==
  ASSUME CoIInv, NEW wanted, NEW value \in BOOLEAN, NEW failed \in BOOLEAN, NEW e,
         ASSERT_SYS(wanted, value, failed, e)
  PROVE  CoIInv'
<1> DEFINE held == value /\ wanted = After(co_errno, failed, e)
<1>1. /\ UNCHANGED co_fill /\ co_pc = "test"
      /\ co_pc' = IF held THEN "test" ELSE "aborted"
      /\ co_broken' = (co_broken \/ ~value \/ wanted # After(0, failed, e))
      /\ co_stale' = (co_stale \/ (~failed /\ value /\ co_errno # 0))
  BY Zenon DEF ASSERT_SYS, Begins, Judged, testlib_abort
<1>2. co_broken' \in BOOLEAN /\ co_stale' \in BOOLEAN
  BY <1>1, Zenon DEF CoIInv, CoBooleans
<1>3. co_pc' \in {"test", "aborted"}
  BY <1>1
<1>4. CASE failed \/ co_errno = 0
  <2>1. After(co_errno, failed, e) = After(0, failed, e)
    BY <1>4, Zenon DEF After
  <2>2. co_pc' = "test" => ~co_broken' \/ co_stale'
    BY <1>1, <2>1, Zenon DEF CoIInv, CoSound
  <2>3. co_pc' = "aborted" => co_broken' \/ co_stale'
    BY <1>1, <2>1, Zenon
  <2> QED
    BY <1>1, <1>2, <1>3, <2>2, <2>3, ChecksKeep DEF CoBooleans
<1>5. CASE ~failed /\ co_errno # 0
  <2>1. value => co_stale'
    BY <1>1, <1>5, Zenon
  <2>2. ~value => co_broken' /\ co_pc' = "aborted"
    BY <1>1, Zenon
  <2> QED
    BY <1>1, <1>2, <1>3, <2>1, <2>2, ChecksKeep DEF CoBooleans
<1> QED
  BY <1>4, <1>5, Zenon

\* A record of rngset with every byte accounted for.
LEMMA FillFields ==
  ASSUME NEW size \in Int, NEW n \in Int, NEW m \in Int, NEW reseed \in Int,
         NEW seeded \in BOOLEAN, NEW written \in Int, NEW since \in Int,
         co_fill' = [size |-> size, n |-> n, m |-> m, reseed |-> reseed, seeded |-> seeded,
                     written |-> written, since |-> since],
         written + m + n = size, n >= 0, m >= 0, reseed >= 0, seeded => since + m <= reseed
  PROVE  CoFillType' /\ (CoFillExact /\ co_fill.m >= 0 /\ co_fill.reseed >= 0)'
  BY DEF CoFillType, CoFillExact

\* rngset: its first state, each stretch, each write and its end.
LEMMA FillKeeps ==
  ASSUME CoIInv,
         UNCHANGED <<co_broken, co_stale>>,
         \/ RngSeed \/ RngWrite \/ RngEnd
         \/ \E n \in CoSizes, seeded \in BOOLEAN, reseed \in CoReseeds : rngset(n, seeded, reseed)
  PROVE  CoIInv'
<1> USE CoAssumption DEF CoAssumption
<1>1. CoBooleans'
  BY Zenon DEF CoIInv, CoBooleans
<1>2. CoSound' /\ CoVerdictHonest'
  <2>1. co_pc \in {"test", "filling"} /\ co_pc' \in {"test", "filling"}
    BY Zenon DEF RngSeed, RngWrite, RngEnd, rngset, Begins
  <2> QED
    BY <2>1 DEF CoIInv, CoSound, CoVerdictHonest
<1>3. (CoFillType /\ CoFilled /\ CoFillExact /\ co_fill.m >= 0 /\ co_fill.reseed >= 0)'
  <2>0. CoFillType /\ CoFilled /\ CoFillExact /\ co_fill.m >= 0 /\ co_fill.reseed >= 0
    BY DEF CoIInv
  <2>1. CASE RngSeed
    <3>1. /\ co_pc = "filling" /\ co_pc' = co_pc
          /\ co_fill' = [co_fill EXCEPT !.m = Stretch(co_fill.n), !.n = @ - Stretch(co_fill.n),
                                        !.since = 0]
          /\ co_fill.m = 0 /\ co_fill.n > 0
      BY <2>1 DEF RngSeed
    <3>2. co_fill.reseed \in Int /\ co_fill.n \in Int
      BY <2>0 DEF CoFillType
    <3>3. /\ Stretch(co_fill.n) \in {co_fill.reseed, co_fill.n}
          /\ Stretch(co_fill.n) <= co_fill.reseed /\ Stretch(co_fill.n) <= co_fill.n
      BY <3>2, MinOfTwo, Zenon DEF Stretch
    <3>4. Stretch(co_fill.n) \in Int /\ Stretch(co_fill.n) >= 0
      BY <2>0, <3>1, <3>2, <3>3
    <3> DEFINE m == Stretch(co_fill.n)
    <3>5. co_fill' = [size |-> co_fill.size, n |-> co_fill.n - m, m |-> m,
                      reseed |-> co_fill.reseed, seeded |-> co_fill.seeded,
                      written |-> co_fill.written, since |-> 0]
      BY <2>0, <3>1 DEF CoFillType
    <3>6. m \in Int /\ m >= 0 /\ m <= co_fill.n /\ m <= co_fill.reseed
      BY <3>3, <3>4
    <3> HIDE DEF m
    <3>7. CoFillType' /\ (CoFillExact /\ co_fill.m >= 0 /\ co_fill.reseed >= 0)'
      <4>1. /\ co_fill.size \in Int /\ co_fill.n - m \in Int /\ co_fill.reseed \in Int
            /\ co_fill.seeded \in BOOLEAN /\ co_fill.written \in Int /\ 0 \in Int
            /\ co_fill.reseed >= 0 /\ co_fill.n - m >= 0
            /\ co_fill.written + m + (co_fill.n - m) = co_fill.size
            /\ co_fill.seeded => 0 + m <= co_fill.reseed
        BY <2>0, <3>1, <3>6 DEF CoFillType, CoFillExact
      <4> QED
        BY <4>1, <3>5, <3>6 DEF CoFillType, CoFillExact
    <3> QED
      BY <3>1, <3>7 DEF CoFilled
  <2>2. CASE RngWrite
    <3> DEFINE k == IF co_fill.m >= 8 THEN 8 ELSE 1
    <3>1. /\ co_pc = "filling" /\ co_pc' = co_pc /\ co_fill.m > 0
          /\ co_fill' = [co_fill EXCEPT !.m = @ - k, !.written = @ + k, !.since = @ + k]
      BY <2>2 DEF RngWrite
    <3>2. k \in Int /\ k <= co_fill.m
      BY <2>0, <3>1 DEF CoFillType
    <3> HIDE DEF k
    <3>3. co_fill' = [size |-> co_fill.size, n |-> co_fill.n, m |-> co_fill.m - k,
                      reseed |-> co_fill.reseed, seeded |-> co_fill.seeded,
                      written |-> co_fill.written + k, since |-> co_fill.since + k]
      BY <2>0, <3>1 DEF CoFillType
    <3>4. CoFillType' /\ (CoFillExact /\ co_fill.m >= 0 /\ co_fill.reseed >= 0)'
      <4>1. /\ co_fill.size \in Int /\ co_fill.n \in Int /\ co_fill.m - k \in Int
            /\ co_fill.reseed \in Int /\ co_fill.seeded \in BOOLEAN
            /\ co_fill.written + k \in Int /\ co_fill.since + k \in Int
            /\ co_fill.reseed >= 0 /\ co_fill.n >= 0 /\ co_fill.m - k >= 0
            /\ (co_fill.written + k) + (co_fill.m - k) + co_fill.n = co_fill.size
            /\ co_fill.seeded => (co_fill.since + k) + (co_fill.m - k) <= co_fill.reseed
        BY <2>0, <3>2 DEF CoFillType, CoFillExact
      <4> QED
        BY <4>1, <3>3 DEF CoFillType, CoFillExact
    <3> QED
      BY <3>1, <3>4 DEF CoFilled
  <2>3. CASE RngEnd
    BY <2>0, <2>3 DEF RngEnd, CoFillType, CoFilled, CoFillExact
  <2>4. ASSUME NEW n \in CoSizes, NEW seeded \in BOOLEAN, NEW reseed \in CoReseeds,
               rngset(n, seeded, reseed)
        PROVE  (CoFillType /\ CoFilled /\ CoFillExact /\ co_fill.m >= 0 /\ co_fill.reseed >= 0)'
    <3>0. n \in Nat /\ reseed \in Nat
      BY <2>4
    <3>1. Max({8, reseed}) \in Int /\ Max({8, reseed}) >= 8
      <4>1. reseed \in Int /\ 8 \in Int
        BY <3>0
      <4>2. /\ Max({8, reseed}) \in {8, reseed} /\ Max({8, reseed}) >= 8
        BY <4>1, MaxOfTwo, Zenon
      <4> QED
        BY <4>1, <4>2
    <3> DEFINE r == IF seeded THEN Max({8, reseed}) ELSE CoUnseeded
    <3>2. /\ co_pc' = "filling"
          /\ co_fill' = [NoFill EXCEPT !.size = n, !.n = n, !.seeded = seeded, !.reseed = r]
      BY <2>4 DEF rngset
    <3>3. r \in Int /\ r >= 0
      BY <3>1
    <3> HIDE DEF r
    <3>4. co_fill' = [size |-> n, n |-> n, m |-> 0, reseed |-> r, seeded |-> seeded,
                      written |-> 0, since |-> 0]
      BY <3>2 DEF NoFill
    <3>5. CoFillType' /\ (CoFillExact /\ co_fill.m >= 0 /\ co_fill.reseed >= 0)'
      <4>1. /\ n \in Int /\ 0 \in Int /\ n >= 0 /\ 0 >= 0
            /\ 0 + 0 + n = n /\ (seeded => 0 + 0 <= r)
        BY <3>0, <3>3
      <4> QED
        BY <4>1, <3>3, <3>4, FillFields, Zenon
    <3> QED
      BY <3>2, <3>5 DEF CoFilled
  <2> QED
    BY <2>1, <2>2, <2>3, <2>4
<1> QED
  BY <1>1, <1>2, <1>3, Zenon DEF CoIInv

\* The checks of cosmopolitan.h decide rightly, and rngset fills what it was given and no
\* more, for every size, reseed and order of checks (testlib_onfail2, rngset).
THEOREM CoHelpersAreTrue == CoSpec => []CoHelpersHold
<1>1. CoInit => CoIInv
  <2>1. CoInit => CoBooleans /\ CoSound /\ CoVerdictHonest
    BY Zenon DEF CoInit, CoBooleans, CoSound, CoVerdictHonest
  <2>2. CoInit => CoFillType /\ CoFilled /\ CoFillExact /\ co_fill.m >= 0 /\ co_fill.reseed >= 0
    BY DEF CoInit, NoFill, CoFillType, CoFilled, CoFillExact
  <2> QED
    BY <2>1, <2>2, Zenon DEF CoIInv
<1>2. CoIInv /\ [CoNext]_covars => CoIInv'
  <2> SUFFICES ASSUME CoIInv, [CoNext]_covars PROVE CoIInv'
    OBVIOUS
  <2>1. ASSUME NEW holds \in BOOLEAN, NEW errno \in CoErrnos,
               TEST_EQ(holds, errno) \/ TEST_NE(holds, errno) \/ TEST2(holds, errno)
        PROVE  CoIInv'
    <3>1. (~holds) \in BOOLEAN
      BY <2>1
    <3> QED
      BY <2>1, <3>1, CheckKeeps, Zenon DEF TEST_EQ, TEST_NE, TEST2
  <2>2. ASSUME NEW want \in CoStrings, NEW got \in CoStrings, NEW errno \in CoErrnos,
               assertStringEquals(want, got, errno)
        PROVE  CoIInv'
    BY <2>2, CheckKeeps, Zenon DEF assertStringEquals, testlib_strequals
  <2>3. ASSUME NEW wanted \in CoErrnos, NEW e \in CoErrnos \ {0},
               NEW value \in BOOLEAN, NEW failed \in BOOLEAN,
               EXPECT_SYS(wanted, value, failed, e) \/ ASSERT_SYS(wanted, value, failed, e)
        PROVE  CoIInv'
    BY <2>3, ExpectKeeps, AssertKeeps, Zenon
  <2>4. CASE \/ RngSeed \/ RngWrite \/ RngEnd
             \/ \E n \in CoSizes, seeded \in BOOLEAN, reseed \in CoReseeds : rngset(n, seeded, reseed)
    <3>1. UNCHANGED <<co_broken, co_stale>>
      BY <2>4, Zenon DEF RngSeed, RngWrite, RngEnd, rngset
    <3> QED
      BY <2>4, <3>1, FillKeeps, Zenon
  <2>5. CASE CoEnd \/ UNCHANGED covars
    <3>1. UNCHANGED <<co_fill, co_broken, co_stale>> 
          /\ (co_pc' = co_pc \/ (co_pc = "test" /\ co_pc' = "ended"))
      BY <2>5, Zenon DEF CoEnd, covars
    <3>2. CoBooleans' /\ (CoFillType /\ CoFillExact /\ co_fill.m >= 0 /\ co_fill.reseed >= 0)'
      BY <3>1, Zenon DEF CoIInv, CoBooleans, CoFillType, CoFillExact
    <3>3. CoFilled' /\ CoSound' /\ CoVerdictHonest'
      BY <3>1 DEF CoIInv, CoFilled, CoSound, CoVerdictHonest
    <3> QED
      BY <3>2, <3>3, Zenon DEF CoIInv
  <2> QED
    BY <2>1, <2>2, <2>3, <2>4, <2>5, Zenon DEF CoNext
<1>3. CoIInv => CoHelpersHold
  BY Zenon DEF CoIInv, CoHelpersHold
<1> QED
  BY <1>1, <1>2, <1>3, PTL DEF CoSpec

----------------------------------------------------------------------------
(***************************************************************************)
(* cmocka's runner.  Between tests the handlers are the signals' own and   *)
(* no signal is blocked; a test or fixture runs between the setjmp and its *)
(* leave, with the handlers in place and an empty mask saved, which is     *)
(* what makes the next fatal signal survivable too.                        *)
(***************************************************************************)
CmIInv ==
    /\ cm_blocked = {} /\ cm_ending # "signal" /\ (cm_ending = "abort" => cm_abort)
    /\ cm_ending # "none" => cm_phase = "ended" /\ cm_step = "after"
    /\ cm_step = "body" =>
         /\ cm_handler = "exception" /\ cm_running = TRUE /\ cm_saved = {}
         /\ cm_phase \in CmFixture \cup {"test"}
    /\ cm_step # "body" /\ cm_ending = "none" => cm_handler = "default" /\ cm_running = FALSE

\* What exit_test may do to the runner.
LEMMA Jumps ==
  ASSUME CmIInv, cm_step = "body", NEW mask, exit_test(mask)
  PROVE  /\ cm_blocked' = {}
         /\ \/ /\ cm_abort /\ cm_phase' = "ended" /\ cm_step' = "after" /\ cm_ending' = "abort"
            \/ /\ cm_step' = "after" /\ cm_handler' = "default" /\ cm_running' = FALSE
               /\ UNCHANGED <<cm_phase, cm_ending>>
  BY DEF CmIInv, exit_test, CmEnd, CmLeave, MaskAfterJump, cmSignalState

\* A step between two parts of a test or of the group.
CmMoves ==
    /\ UNCHANGED <<cm_running, cm_handler, cm_blocked, cm_saved, cm_abort>> /\ cm_step' # "body"
    /\ \/ cm_ending' = "none"
       \/ cm_ending' = "exit" /\ cm_phase' = "ended" /\ cm_step' = "after"

LEMMA MovesKeep ==
  ASSUME CmIInv, CmMoves, cm_ending = "none", cm_step # "body"
  PROVE  CmIInv'
  BY DEF CmIInv, CmMoves, CmFixture

LEMMA CmIInvStays ==
  ASSUME CmIInv, [CmNext]_cmvars
  PROVE  CmIInv'
<1>1. CASE CmEnter
  <2>1. /\ cm_handler' = "exception" /\ cm_running' = TRUE /\ cm_saved' = cm_blocked
        /\ cm_step' = "body" /\ UNCHANGED <<cm_blocked, cm_ending, cm_phase>>
        /\ cm_phase \in CmFixture \cup {"test"}
    BY <1>1, Zenon DEF CmEnter
  <2> QED
    BY <2>1 DEF CmIInv, CmFixture
<1>2. CASE CmReturns
  <2>1. /\ cm_step = "body" /\ cm_running' = FALSE /\ cm_handler' = "default"
        /\ cm_step' = "after" /\ UNCHANGED <<cm_blocked, cm_ending>>
        /\ cm_phase' = cm_phase
    BY <1>2, Zenon DEF CmReturns, CmLeave
  <2> QED
    BY <2>1 DEF CmIInv
<1>3. CASE CmFails
  <2>1. cm_step = "body" /\ exit_test(cm_blocked) /\ cm_abort' = cm_abort
    BY <1>3, Zenon DEF CmFails, cmConfig
  <2> QED
    BY <2>1, Jumps DEF CmIInv, CmFixture
<1>4. ASSUME NEW sig \in CmSignals, CmRaises(sig) PROVE CmIInv'
  <2>1. cm_step = "body" /\ sig \notin cm_blocked /\ cm_handler # "default"
    BY <1>4 DEF CmRaises, CmIInv
  <2>2. exit_test(cm_blocked \cup {sig}) /\ cm_abort' = cm_abort
    BY <1>4, <2>1, Zenon DEF CmRaises, cmConfig
  <2> QED
    BY <2>1, <2>2, Jumps DEF CmIInv, CmFixture
<1> USE MovesKeep DEF CmMoves, CmGoto, CmTest, CmEnd, CmKept, cmConfig, cmSignalState
<1>5. CASE CmMain \/ CmNoTable \/ CmReport \/ CmFinish
  <2>1. cm_ending = "none" /\ cm_step # "body"
    BY <1>5 DEF CmIInv, CmFixture, CmMain, CmNoTable, CmReport, CmFinish
  <2>2. CmMoves
    BY <1>5, <2>1, Zenon DEF CmMain, CmNoTable, CmReport, CmFinish
  <2> QED
    BY <2>1, <2>2
<1>6. CASE CmAfterSetup \/ CmAfterTest \/ CmAfterTeardown \/ CmAfterGroupSetup \/ CmAfterGroupTeardown
  <2>1. cm_ending = "none" /\ cm_step # "body"
    BY <1>6 DEF CmIInv, CmAfterSetup, CmAfterTest, CmAfterTeardown, CmAfterGroupSetup,
                CmAfterGroupTeardown
  <2>2. CmMoves
    BY <1>6, <2>1 DEF CmAfterSetup, CmAfterTest, CmAfterTeardown, CmAfterGroupSetup, CmAfterGroupTeardown
  <2> QED
    BY <2>1, <2>2
<1>7. CASE UNCHANGED cmvars
  BY <1>7 DEF CmIInv, cmvars
<1> QED
  BY <1>1, <1>2, <1>3, <1>4, <1>5, <1>6, <1>7, Zenon DEF CmNext

\* Whatever fails in whichever tests, and however often, the process goes on and is fit for
\* the next test (exit_test, exception_handler and cmocka_run_one_test_or_fixture).
THEOREM CmStaysContained == CmSpec => []CmContained
<1>1. CmInit => CmIInv
  BY DEF CmInit, CmIInv, CmFixture
<1>2. CmIInv /\ [CmNext]_cmvars => CmIInv'
  BY CmIInvStays
<1>3. CmIInv => CmContained
  BY DEF CmIInv, CmContained
<1> QED
  BY <1>1, <1>2, <1>3, PTL DEF CmSpec

(***************************************************************************)
(* Its report.  Where the group is, what the tests it has reported (the    *)
(* first cm_total.executed) came to, and what is known of the current one. *)
(***************************************************************************)
CmPlaces == (CmFixture \cup {"test"}) \X Nat
CmTesting == cm_phase \in {"setup", "test", "teardown", "report"}
CmDone == cm_total.executed
At(phase, i) == <<phase, i>> \in cm_broken
Fixtures(i) == At("setup", i) \/ At("teardown", i)

CmTyped ==
    /\ cm_group \in CmGroups /\ cm_i \in Nat /\ cm_rc \in {0, 1, 2} /\ cm_faults \in Nat
    /\ cm_phase \in CmFixture \cup {"main", "test", "report", "finish", "ended"}
    /\ cm_step \in {"enter", "body", "after"} /\ cm_ending \in {"none", "exit", "abort", "signal"}
    /\ cm_status \in [DOMAIN CmTests -> {"NOT_STARTED", "PASSED", "FAILED", "ERROR"}]
    /\ cm_error_message \in Seq(CmPlaces) /\ cm_messages \in [DOMAIN CmTests -> Seq(CmPlaces)]
    /\ cm_broken \subseteq CmPlaces
    /\ cm_total \in [executed : Nat, passed : Nat, failed : Nat, errors : Nat]

\* All tests were run, or the group's setup failed and none was.
CmOver ==
    IF GroupBroken THEN CmDone = 0 /\ cm_total.failed = 0 /\ cm_total.errors = 1
    ELSE CmDone = Len(CmTests)

CmPlaced ==
    /\ cm_step = "body" => cm_phase \in CmFixture \cup {"test"}
    /\ CmDone <= Len(CmTests)
    /\ cm_phase \in {"main", "group_setup"} =>
         cm_i = 0 /\ CmDone = 0 /\ cm_total.failed = 0 /\ cm_total.errors = 0
    /\ cm_phase = "main" => cm_broken = {} /\ cm_error_message = <<>>
    /\ cm_phase = "group_setup" =>
         /\ GroupBroken <=> cm_step = "after" /\ cm_rc # 0
         /\ cm_error_message # <<>> => cm_step = "after" /\ cm_rc # 0
    /\ CmTesting => cm_i \in DOMAIN CmTests /\ CmDone = cm_i - 1 /\ ~GroupBroken
    /\ cm_phase \in {"group_teardown", "finish"} => CmOver
    /\ cm_ending = "exit" => \/ cm_exit = 255 /\ cm_faults > 0
                             \/ CmOver /\ cm_exit = (cm_total.failed + cm_total.errors) % 256
    /\ cm_phase = "ended" => cm_ending # "none"

\* What a test came to, with the messages that it had.
CmJudged(i, messages) ==
    /\ cm_status[i] # "NOT_STARTED"
    /\ cm_status[i] = "PASSED" <=> ~Broken(i)
    /\ cm_status[i] = "ERROR" <=> Fixtures(i)
    /\ Broken(i) /\ cm_faults = 0 => messages # <<>>

CmSettled ==
    /\ \A i \in 1 .. CmDone : CmJudged(i, cm_messages[i])
    /\ \A i \in DOMAIN CmTests : i > CmDone =>
         /\ cm_messages[i] = <<>>
         /\ cm_ending = "none" /\ ~(CmTesting /\ i = cm_i) => ~Broken(i)
    /\ \A i \in DOMAIN CmTests : \A k \in DOMAIN cm_messages[i] : cm_messages[i][k][2] = i

\* The test that is under way.
CmCurrent ==
    CmTesting =>
        /\ \A k \in DOMAIN cm_error_message : cm_error_message[k][2] = cm_i
        /\ cm_phase = "setup" =>
             /\ ~At("test", cm_i) /\ ~At("teardown", cm_i)
             /\ At("setup", cm_i) <=> cm_step = "after" /\ cm_rc # 0
        /\ cm_phase = "test" =>
             /\ ~Fixtures(cm_i)
             /\ At("test", cm_i) <=> cm_step = "after" /\ cm_rc # 0
        /\ cm_phase = "teardown" =>
             /\ ~At("setup", cm_i)
             /\ At("teardown", cm_i) <=> cm_step = "after" /\ cm_rc # 0
             /\ cm_status[cm_i] = IF At("test", cm_i) THEN "FAILED" ELSE "PASSED"
        /\ cm_phase \in {"test", "teardown"} /\ At("test", cm_i) /\ cm_faults = 0 => cm_error_message # <<>>
        /\ cm_phase = "report" =>
             CmJudged(cm_i, cm_error_message) /\ (cm_rc # 0 <=> Fixtures(cm_i))

CmCounts ==
    ~GroupBroken =>
        /\ cm_total.failed + cm_total.errors <= CmDone
        /\ cm_total.failed + cm_total.errors = 0 <=> \A i \in 1 .. CmDone : cm_status[i] = "PASSED"

TapOf(i) == <<"TAP", IF cm_status[i] = "PASSED" THEN "SUCCESS"
                     ELSE IF cm_status[i] = "FAILED" THEN "FAILURE" ELSE "ERROR", i>>
CmTap ==
    /\ "TAP" \in cm_get_output => \A i \in 1 .. CmDone : TapOf(i) \in cm_out
    /\ \A line \in TapLines : line[3] = 0 \/ \E i \in 1 .. CmDone : line = TapOf(i)

CmReportInv == CmIInv /\ CmTyped /\ CmPlaced /\ CmSettled /\ CmCurrent /\ CmCounts /\ CmTap

LEMMA TestsSeq ==
  ASSUME CmTyped
  PROVE  Len(CmTests) \in Nat /\ DOMAIN CmTests = 1 .. Len(CmTests)
  BY CmAssumption DEF CmTyped, CmTests

\* A failure is written down, unless there is no memory for it.
LEMMA ErrorPrinted ==
  ASSUME CmTyped, NEW what \in CmPlaces, cmocka_print_error(what)
  PROVE  /\ cm_error_message' \in Seq(CmPlaces) /\ cm_faults' \in Nat
         /\ cm_faults' = 0 => cm_faults = 0 /\ cm_error_message' # <<>>
         /\ \A k \in DOMAIN cm_error_message' :
              \/ k \in DOMAIN cm_error_message /\ cm_error_message'[k] = cm_error_message[k]
              \/ cm_error_message'[k] = what
         /\ cm_error_message # <<>> => cm_error_message' # <<>>
<1>1. CASE cm_error_message' = Append(cm_error_message, what) /\ UNCHANGED cm_faults
  BY <1>1 DEF CmTyped
<1>2. CASE cm_error_message' = cm_error_message /\ CmFault
  BY <1>2 DEF CmTyped, CmFault
<1> QED
  BY <1>1, <1>2 DEF cmocka_print_error

\* A test or fixture returns, fails or is interrupted.
CmBody == CmReturns \/ CmFails \/ \E sig \in CmSignals : CmRaises(sig)

LEMMA BodyEffect ==
  ASSUME CmIInv, CmTyped, CmPlaced, CmBody
  PROVE  /\ cm_step = "body" /\ cm_step' = "after" /\ cm_phase \in CmFixture \cup {"test"}
         /\ UNCHANGED <<cm_group, cm_env, cm_i, cm_status, cm_messages, cm_total, cm_out>>
         /\ cm_faults' \in Nat /\ (cm_faults' = 0 => cm_faults = 0)
         /\ cm_error_message' \in Seq(CmPlaces)
         /\ \A k \in DOMAIN cm_error_message' :
              \/ k \in DOMAIN cm_error_message /\ cm_error_message'[k] = cm_error_message[k]
              \/ cm_error_message'[k] = CmHere
         /\ \/ /\ cm_phase' = "ended" /\ cm_ending' = "abort" /\ cm_rc' = cm_rc
               /\ cm_broken' = cm_broken \cup {CmHere}
            \/ /\ UNCHANGED <<cm_phase, cm_ending>> /\ cm_rc' = 0
               /\ UNCHANGED <<cm_broken, cm_error_message, cm_faults>>
            \/ /\ UNCHANGED <<cm_phase, cm_ending>> /\ cm_rc' \in {1, 2}
               /\ cm_broken' = cm_broken \cup {CmHere}
               /\ cm_phase = "test" /\ cm_faults' = 0 => cm_error_message' # <<>>
               /\ cm_error_message # <<>> => cm_error_message' # <<>>
<1>1. ASSUME cm_step = "body" PROVE CmHere \in CmPlaces /\ cm_phase \in CmFixture \cup {"test"}
  BY <1>1 DEF CmPlaced, CmTyped, CmHere, CmPlaces
<1>2. CASE CmReturns
  <2>1. /\ cm_step = "body" /\ cm_step' = "after"
        /\ UNCHANGED <<cm_group, cm_env, cm_i, cm_status, cm_messages, cm_total, cm_out>>
        /\ UNCHANGED <<cm_phase, cm_ending, cm_error_message, cm_faults>>
        /\ \/ cm_rc' = 0 /\ UNCHANGED cm_broken
           \/ cm_phase \in CmFixture /\ cm_rc' = 1 /\ cm_broken' = cm_broken \cup {CmHere}
    BY <1>2 DEF CmReturns, CmLeave, cmConfig, cmReport
  <2> QED
    BY <1>1, <2>1 DEF CmTyped, CmFixture
<1>3. ASSUME CmFails \/ \E sig \in CmSignals : CmRaises(sig)
      PROVE  /\ cm_step = "body" /\ cmocka_print_error(CmHere) /\ (\E mask : exit_test(mask))
             /\ cm_broken' = cm_broken \cup {CmHere}
             /\ UNCHANGED <<cm_group, cm_env, cm_i, cm_status, cm_messages, cm_total, cm_out>>
  <2>1. CASE CmFails
    BY <2>1 DEF CmFails, cmConfig, cmReport
  <2>2. ASSUME NEW sig \in CmSignals, CmRaises(sig)
        PROVE  /\ cm_step = "body" /\ cmocka_print_error(CmHere) /\ (\E mask : exit_test(mask))
               /\ cm_broken' = cm_broken \cup {CmHere}
               /\ UNCHANGED <<cm_group, cm_env, cm_i, cm_status, cm_messages, cm_total, cm_out>>
    <3>1. cm_step = "body" /\ sig \notin cm_blocked /\ cm_handler # "default"
      BY <2>2 DEF CmRaises, CmIInv
    <3> QED
      BY <2>2, <3>1, Zenon DEF CmRaises, cmConfig, cmReport
  <2> QED
    BY <1>3, <2>1, <2>2
<1>4. CASE CmFails \/ \E sig \in CmSignals : CmRaises(sig)
  <2>1. /\ cm_step = "body" /\ cmocka_print_error(CmHere) /\ cm_broken' = cm_broken \cup {CmHere}
        /\ UNCHANGED <<cm_group, cm_env, cm_i, cm_status, cm_messages, cm_total, cm_out>>
    BY <1>3, <1>4
  <2>2. PICK mask : exit_test(mask)
    BY <1>3, <1>4
  <2>3. /\ cm_error_message' \in Seq(CmPlaces) /\ cm_faults' \in Nat
        /\ cm_faults' = 0 => cm_faults = 0 /\ cm_error_message' # <<>>
        /\ \A k \in DOMAIN cm_error_message' :
             \/ k \in DOMAIN cm_error_message /\ cm_error_message'[k] = cm_error_message[k]
             \/ cm_error_message'[k] = CmHere
        /\ cm_error_message # <<>> => cm_error_message' # <<>>
    BY <1>1, <2>1, ErrorPrinted
  <2>4. \/ cm_phase' = "ended" /\ cm_ending' = "abort" /\ cm_step' = "after" /\ UNCHANGED cm_rc
        \/ cm_step' = "after" /\ cm_rc' = 2 /\ UNCHANGED <<cm_phase, cm_ending>>
    BY <2>2 DEF exit_test, CmEnd, CmLeave
  <2> QED
    BY <1>1, <2>1, <2>3, <2>4
<1> QED
  BY <1>2, <1>4 DEF CmBody

\* What becomes of the tests that were reported, whatever else a step does.
CmVerdicts == {"SUCCESS", "FAILURE", "ERROR"}
Tells(line) == line[1] = "TAP" /\ line[2] \in CmVerdicts /\ line[3] # 0

LEMMA ReportedStay ==
  ASSUME CmTyped, CmPlaced, CmSettled, CmCounts, CmTap,
         UNCHANGED <<cm_group, cm_env, cm_messages, CmDone>>,
         cm_total' = cm_total \/ GroupBroken',
         \A i \in 1 .. CmDone : cm_status'[i] = cm_status[i],
         \A i \in 1 .. CmDone : \A p \in {"setup", "test", "teardown"} : At(p, i)' <=> At(p, i),
         cm_faults' = 0 => cm_faults = 0, GroupBroken => GroupBroken',
         cm_out \subseteq cm_out', \A line \in cm_out' : Tells(line) => line \in cm_out
  PROVE  /\ \A i \in 1 .. CmDone' : CmJudged(i, cm_messages[i])'
         /\ \A i \in DOMAIN CmTests' : \A k \in DOMAIN cm_messages'[i] : cm_messages'[i][k][2] = i
         /\ CmCounts' /\ CmTap'
<1>1. /\ CmTests' = CmTests /\ CmDone' = CmDone /\ cm_messages' = cm_messages /\ cm_get_output' = cm_get_output
  BY DEF CmTests, cm_get_output
<1>2. CmDone \in Nat /\ CmDone <= Len(CmTests) /\ Len(CmTests) \in Nat /\ DOMAIN CmTests = 1 .. Len(CmTests)
  BY TestsSeq DEF CmTyped, CmPlaced, CmDone
<1>3. ASSUME NEW i \in 1 .. CmDone PROVE CmJudged(i, cm_messages[i])'
  <2>1. CmJudged(i, cm_messages[i])
    BY <1>3 DEF CmSettled
  <2>2. cm_status'[i] = cm_status[i] /\ (At("setup", i)' <=> At("setup", i)) /\ (At("test", i)' <=> At("test", i))
        /\ (At("teardown", i)' <=> At("teardown", i))
    BY <1>3
  <2>3. \A j : Broken(j) <=> At("setup", j) \/ At("test", j) \/ At("teardown", j)
    BY Zenon DEF Broken, At
  <2>4. Broken(i)' <=> At("setup", i)' \/ At("test", i)' \/ At("teardown", i)'
    BY Zenon DEF Broken, At
  <2>5. (Broken(i)' <=> Broken(i)) /\ (Fixtures(i)' <=> Fixtures(i))
    BY <2>2, <2>3, <2>4, Zenon DEF Fixtures
  <2> QED
    BY <1>1, <2>1, <2>2, <2>5, Zenon DEF CmJudged
<1>4. \A i \in DOMAIN CmTests' : \A k \in DOMAIN cm_messages'[i] : cm_messages'[i][k][2] = i
  BY <1>1, Zenon DEF CmSettled
<1>5. CmCounts'
  BY <1>1, <1>2 DEF CmCounts, CmDone
<1>6. \A i \in 1 .. CmDone : TapOf(i)' = TapOf(i)
  BY <1>1 DEF TapOf
<1>7. CmTap'
  <2>1. ("TAP" \in cm_get_output => \A i \in 1 .. CmDone : TapOf(i) \in cm_out)'
    BY <1>1, <1>6 DEF CmTap
  <2>2. ASSUME NEW line \in TapLines', line[3] # 0 PROVE \E i \in 1 .. CmDone' : line = TapOf(i)'
    <3>1. line \in cm_out' /\ line[1] = "TAP" /\ line[2] \in {"SUCCESS", "FAILURE", "ERROR"}
      BY <2>2, Zenon DEF TapLines
    <3>2. line \in TapLines
      BY <2>2, <3>1, Zenon DEF TapLines, Tells, CmVerdicts
    <3>3. PICK i \in 1 .. CmDone : line = TapOf(i)
      BY <2>2, <3>2, Zenon DEF CmTap
    <3> QED
      BY <1>1, <1>6, <3>3
  <2> QED
    BY <2>1, <2>2, Zenon DEF CmTap
<1> QED
  BY <1>1, <1>3, <1>4, <1>5, <1>7

CmRest == CmTyped /\ CmPlaced /\ CmSettled /\ CmCurrent /\ CmCounts /\ CmTap

LEMMA BrokenStays ==
  ASSUME UNCHANGED cm_broken
  PROVE  /\ \A p, j : At(p, j)' <=> At(p, j)
         /\ \A j : (Broken(j)' <=> Broken(j)) /\ (Fixtures(j)' <=> Fixtures(j))
         /\ GroupBroken' <=> GroupBroken
  BY Zenon DEF At, Broken, Fixtures, GroupBroken

LEMMA BrokenAre ==
  \A j : Broken(j) <=> At("setup", j) \/ At("test", j) \/ At("teardown", j)
  BY Zenon DEF Broken, At

LEMMA BrokenGrows ==
  ASSUME cm_broken' = cm_broken \cup {CmHere}
  PROVE  /\ \A p, j : At(p, j)' <=> At(p, j) \/ (p = cm_phase /\ j = cm_i)
         /\ \A j : Broken(j)' <=> Broken(j) \/ (cm_phase \in {"setup", "test", "teardown"} /\ j = cm_i)
         /\ \A j : Fixtures(j)' <=> Fixtures(j) \/ (cm_phase \in {"setup", "teardown"} /\ j = cm_i)
         /\ GroupBroken' <=> GroupBroken \/ cm_phase = "group_setup"
<1>1. \A p, j : At(p, j)' <=> At(p, j) \/ (p = cm_phase /\ j = cm_i)
  BY DEF At, CmHere
<1>2. \A j : Broken(j)' <=> At("setup", j)' \/ At("test", j)' \/ At("teardown", j)'
  BY Zenon DEF Broken, At
<1>3. GroupBroken' <=> GroupBroken \/ cm_phase = "group_setup"
  <2>1. GroupBroken' <=> GroupBroken \/ CmHere[1] = "group_setup"
    BY Zenon DEF GroupBroken
  <2> QED
    BY <2>1 DEF CmHere
<1> QED
  BY <1>1, <1>2, <1>3, BrokenAre DEF Fixtures

LEMMA BodyKeeps ==
  ASSUME CmReportInv, CmBody
  PROVE  CmRest'
<1>1. CmIInv /\ CmTyped /\ CmPlaced /\ CmSettled /\ CmCurrent /\ CmCounts /\ CmTap
  BY DEF CmReportInv
<1>2. /\ cm_step = "body" /\ cm_step' = "after" /\ cm_phase \in CmFixture \cup {"test"}
      /\ UNCHANGED <<cm_group, cm_env, cm_i, cm_status, cm_messages, cm_total, cm_out>>
      /\ cm_faults' \in Nat /\ (cm_faults' = 0 => cm_faults = 0)
      /\ cm_error_message' \in Seq(CmPlaces)
      /\ \A k \in DOMAIN cm_error_message' :
           \/ k \in DOMAIN cm_error_message /\ cm_error_message'[k] = cm_error_message[k]
           \/ cm_error_message'[k] = CmHere
  BY <1>1, BodyEffect
<1>3. /\ CmTests' = CmTests /\ CmDone' = CmDone /\ cm_ending = "none"
      /\ CmDone \in Nat /\ Len(CmTests) \in Nat /\ DOMAIN CmTests = 1 .. Len(CmTests)
      /\ CmHere \in CmPlaces /\ cm_error_message \in Seq(CmPlaces)
  BY <1>1, <1>2, TestsSeq DEF CmTests, CmDone, CmIInv, CmTyped, CmHere, CmPlaces
<1>4. \/ cm_broken' = cm_broken
      \/ cm_broken' = cm_broken \cup {CmHere}
  BY <1>1, BodyEffect, Zenon
<1>5. /\ \A i \in 1 .. CmDone : \A p \in {"setup", "test", "teardown"} : At(p, i)' <=> At(p, i)
      /\ GroupBroken => GroupBroken'
  <2>1. CASE UNCHANGED cm_broken
    BY <2>1, BrokenStays
  <2>2. CASE cm_broken' = cm_broken \cup {CmHere}
    BY <1>1, <1>2, <1>3, <2>2, BrokenGrows DEF CmPlaced, CmTesting, CmFixture, CmTyped
  <2> QED
    BY <1>4, <2>1, <2>2
<1>6. /\ \A i \in 1 .. CmDone' : CmJudged(i, cm_messages[i])'
      /\ \A i \in DOMAIN CmTests' : \A k \in DOMAIN cm_messages'[i] : cm_messages'[i][k][2] = i
      /\ CmCounts' /\ CmTap'
  BY <1>1, <1>2, <1>3, <1>5, ReportedStay
<1>7. CASE cm_phase' = "ended" /\ cm_ending' = "abort" /\ cm_rc' = cm_rc /\ cm_broken' = cm_broken \cup {CmHere}
  <2>1. CmTyped'
    BY <1>1, <1>2, <1>3, <1>7 DEF CmTyped
  <2>2. CmPlaced'
    BY <1>1, <1>2, <1>3, <1>7 DEF CmPlaced, CmTesting
  <2>3. CmSettled'
    BY <1>1, <1>2, <1>3, <1>6, <1>7 DEF CmSettled
  <2>4. CmCurrent'
    BY <1>7 DEF CmCurrent, CmTesting
  <2> QED
    BY <1>6, <2>1, <2>2, <2>3, <2>4 DEF CmRest
<1>8. ASSUME UNCHANGED <<cm_phase, cm_ending>>, cm_rc' = 0,
             UNCHANGED <<cm_broken, cm_error_message, cm_faults>>
      PROVE  CmRest'
  <2>0. /\ \A p, j : At(p, j)' <=> At(p, j)
        /\ \A j : (Broken(j)' <=> Broken(j)) /\ (Fixtures(j)' <=> Fixtures(j))
        /\ GroupBroken' <=> GroupBroken
    BY <1>8, BrokenStays
  <2>1. CmTyped'
    BY <1>1, <1>2, <1>3, <1>8 DEF CmTyped
  <2>2. CmPlaced'
    BY <1>1, <1>2, <1>3, <1>8, <2>0 DEF CmPlaced, CmTesting, CmOver, CmFixture
  <2>3. CmSettled'
    BY <1>1, <1>2, <1>3, <1>6, <1>8, <2>0 DEF CmSettled, CmTesting
  <2>4. CmCurrent'
    BY <1>1, <1>2, <1>3, <1>8, <2>0 DEF CmCurrent, CmTesting, CmFixture
  <2> QED
    BY <1>6, <2>1, <2>2, <2>3, <2>4 DEF CmRest
<1>9. ASSUME UNCHANGED <<cm_phase, cm_ending>>, cm_rc' \in {1, 2}, cm_broken' = cm_broken \cup {CmHere},
             cm_phase = "test" /\ cm_faults' = 0 => cm_error_message' # <<>>,
             cm_error_message # <<>> => cm_error_message' # <<>>
      PROVE  CmRest'
  <2>0. /\ \A p, j : At(p, j)' <=> At(p, j) \/ (p = cm_phase /\ j = cm_i)
        /\ \A j : Broken(j)' <=> Broken(j) \/ (cm_phase \in {"setup", "test", "teardown"} /\ j = cm_i)
        /\ \A j : Fixtures(j)' <=> Fixtures(j) \/ (cm_phase \in {"setup", "teardown"} /\ j = cm_i)
        /\ GroupBroken' <=> GroupBroken \/ cm_phase = "group_setup"
    BY <1>9, BrokenGrows
  <2>1. CmTyped'
    BY <1>1, <1>2, <1>3, <1>9 DEF CmTyped
  <2>2. CmPlaced'
    <3>1. cm_phase \in {"group_setup"} => GroupBroken' /\ cm_step' = "after" /\ cm_rc' # 0
      BY <1>2, <1>9, <2>0
    <3>2. cm_phase \notin {"group_setup"} => (GroupBroken' <=> GroupBroken)
      BY <2>0
    <3>3. cm_phase = "group_teardown" => CmOver'
      BY <1>1, <1>2, <1>3, <1>9, <3>2 DEF CmPlaced, CmOver
    <3>4. CmTesting' => cm_i' \in DOMAIN CmTests' /\ CmDone' = cm_i' - 1 /\ ~GroupBroken'
      BY <1>1, <1>2, <1>3, <1>9, <3>2 DEF CmPlaced, CmTesting
    <3>5. cm_phase' \in CmFixture \cup {"test"} /\ cm_ending' = "none" /\ cm_step' = "after"
      BY <1>2, <1>3, <1>9
    <3> QED
      BY <1>1, <1>2, <1>3, <1>9, <3>1, <3>3, <3>4, <3>5 DEF CmPlaced, CmFixture
  <2>3. CmSettled'
    BY <1>1, <1>2, <1>3, <1>6, <1>9, <2>0 DEF CmSettled, CmTesting, CmFixture
  <2>4. CmCurrent'
    <3>1. CmTesting' => \A k \in DOMAIN cm_error_message' : cm_error_message'[k][2] = cm_i
      BY <1>1, <1>2, <1>9 DEF CmCurrent, CmTesting, CmHere
    <3> QED
      BY <1>1, <1>2, <1>3, <1>9, <2>0, <3>1 DEF CmCurrent, CmTesting, CmFixture
  <2> QED
    BY <1>6, <2>1, <2>2, <2>3, <2>4 DEF CmRest
<1> QED
  <2>1. \/ cm_phase' = "ended" /\ cm_ending' = "abort" /\ cm_rc' = cm_rc /\ cm_broken' = cm_broken \cup {CmHere}
        \/ /\ UNCHANGED <<cm_phase, cm_ending>> /\ cm_rc' = 0
           /\ UNCHANGED <<cm_broken, cm_error_message, cm_faults>>
        \/ /\ UNCHANGED <<cm_phase, cm_ending>> /\ cm_rc' \in {1, 2}
           /\ cm_broken' = cm_broken \cup {CmHere}
           /\ cm_phase = "test" /\ cm_faults' = 0 => cm_error_message' # <<>>
           /\ cm_error_message # <<>> => cm_error_message' # <<>>
    BY <1>1, BodyEffect
  <2> QED
    BY <1>7, <1>8, <1>9, <2>1

LEMMA EnterKeeps ==
  ASSUME CmReportInv, CmEnter
  PROVE  CmRest'
<1>1. CmIInv /\ CmTyped /\ CmPlaced /\ CmSettled /\ CmCurrent /\ CmCounts /\ CmTap
  BY DEF CmReportInv
<1>2. /\ cm_phase \in CmFixture \cup {"test"} /\ cm_step = "enter" /\ cm_step' = "body"
      /\ UNCHANGED <<cm_group, cm_env, cm_status, cm_messages, cm_total, cm_out>>
      /\ UNCHANGED <<cm_phase, cm_i, cm_rc, cm_error_message, cm_faults, cm_ending, cm_exit, cm_broken>>
  BY DEF CmEnter, cmConfig, cmReport
<1>3. CmTests' = CmTests /\ CmDone' = CmDone
  BY <1>2 DEF CmTests, CmDone
<1>4. /\ \A p, j : At(p, j)' <=> At(p, j)
      /\ \A j : (Broken(j)' <=> Broken(j)) /\ (Fixtures(j)' <=> Fixtures(j))
      /\ GroupBroken' <=> GroupBroken
  BY <1>2, BrokenStays
<1>5. /\ \A i \in 1 .. CmDone' : CmJudged(i, cm_messages[i])'
      /\ \A i \in DOMAIN CmTests' : \A k \in DOMAIN cm_messages'[i] : cm_messages'[i][k][2] = i
      /\ CmCounts' /\ CmTap'
  BY <1>1, <1>2, <1>3, <1>4, ReportedStay
<1>6. CmTyped'
  BY <1>1, <1>2, <1>3 DEF CmTyped
<1>7. CmPlaced'
  BY <1>1, <1>2, <1>3, <1>4 DEF CmPlaced, CmTesting, CmOver, CmFixture
<1>8. CmSettled'
  BY <1>1, <1>2, <1>3, <1>4, <1>5 DEF CmSettled, CmTesting
<1>9. CmCurrent'
  BY <1>1, <1>2, <1>3, <1>4 DEF CmCurrent, CmTesting, CmFixture
<1> QED
  BY <1>5, <1>6, <1>7, <1>8, <1>9 DEF CmRest

\* From one part of a test to the next.
LEMMA PartsKeep ==
  ASSUME CmReportInv, CmTesting, CmTesting', cm_step' \in {"enter", "after"}, cm_rc' \in {0, 1, 2},
         cm_error_message' \in Seq(CmPlaces), cm_faults' \in Nat, cm_faults' = 0 => cm_faults = 0,
         UNCHANGED <<cm_group, cm_env, cm_i, cm_messages, cm_total, cm_out, cm_broken, cm_ending>>,
         \/ cm_status' = cm_status
         \/ \E s \in {"PASSED", "FAILED", "ERROR"} : cm_status' = [cm_status EXCEPT ![cm_i] = s]
  PROVE  CmTyped' /\ CmPlaced' /\ CmSettled' /\ CmCounts' /\ CmTap'
<1>1. CmIInv /\ CmTyped /\ CmPlaced /\ CmSettled /\ CmCurrent /\ CmCounts /\ CmTap
  BY DEF CmReportInv
<1>2. /\ CmTests' = CmTests /\ CmDone' = CmDone /\ CmDone \in Nat /\ cm_i \in Nat
      /\ DOMAIN CmTests = 1 .. Len(CmTests) /\ Len(CmTests) \in Nat
      /\ CmDone = cm_i - 1 /\ cm_i \in DOMAIN CmTests /\ cm_ending = "none" /\ ~GroupBroken
  BY <1>1, TestsSeq DEF CmTests, CmDone, CmTyped, CmPlaced, CmTesting, CmIInv
<1>3. /\ \A p, j : At(p, j)' <=> At(p, j)
      /\ \A j : (Broken(j)' <=> Broken(j)) /\ (Fixtures(j)' <=> Fixtures(j))
      /\ GroupBroken' <=> GroupBroken
  BY BrokenStays
<1>4. /\ cm_status' \in [DOMAIN CmTests -> {"NOT_STARTED", "PASSED", "FAILED", "ERROR"}]
      /\ \A i \in DOMAIN CmTests : i # cm_i => cm_status'[i] = cm_status[i]
  <2>1. cm_status \in [DOMAIN CmTests -> {"NOT_STARTED", "PASSED", "FAILED", "ERROR"}]
    BY <1>1 DEF CmTyped
  <2>2. ASSUME NEW s \in {"PASSED", "FAILED", "ERROR"}, cm_status' = [cm_status EXCEPT ![cm_i] = s]
        PROVE  /\ cm_status' \in [DOMAIN CmTests -> {"NOT_STARTED", "PASSED", "FAILED", "ERROR"}]
               /\ \A i \in DOMAIN CmTests : i # cm_i => cm_status'[i] = cm_status[i]
    BY <2>1, <2>2
  <2> QED
    BY <2>1, <2>2
<1>5. \A i \in 1 .. CmDone : cm_status'[i] = cm_status[i]
  BY <1>2, <1>4
<1>10. CmTyped'
  <2>1. /\ cm_group' \in CmGroups /\ cm_i' \in Nat /\ cm_rc' \in {0, 1, 2} /\ cm_faults' \in Nat
        /\ cm_ending' \in {"none", "exit", "abort", "signal"} /\ cm_broken' \subseteq CmPlaces
        /\ cm_total' \in [executed : Nat, passed : Nat, failed : Nat, errors : Nat]
    BY <1>1 DEF CmTyped
  <2>2. cm_phase' \in CmFixture \cup {"main", "test", "report", "finish", "ended"}
    BY DEF CmTesting, CmFixture
  <2>3. cm_step' \in {"enter", "body", "after"}
    OBVIOUS
  <2>4. /\ cm_status' \in [DOMAIN CmTests' -> {"NOT_STARTED", "PASSED", "FAILED", "ERROR"}]
        /\ cm_messages' \in [DOMAIN CmTests' -> Seq(CmPlaces)]
    BY <1>1, <1>2, <1>4 DEF CmTyped
  <2> QED
    BY <2>1, <2>2, <2>3, <2>4 DEF CmTyped
<1>6. /\ \A i \in 1 .. CmDone' : CmJudged(i, cm_messages[i])'
      /\ \A i \in DOMAIN CmTests' : \A k \in DOMAIN cm_messages'[i] : cm_messages'[i][k][2] = i
      /\ CmCounts' /\ CmTap'
  BY <1>1, <1>2, <1>3, <1>5, ReportedStay
<1>7. CmPlaced'
  BY <1>1, <1>2, <1>3 DEF CmPlaced, CmTesting
<1>8. CmSettled'
  BY <1>1, <1>2, <1>3, <1>6 DEF CmSettled
<1> QED
  BY <1>10, <1>6, <1>7, <1>8

LEMMA AfterSetupKeeps ==
  ASSUME CmReportInv, CmAfterSetup
  PROVE  CmRest'
<1>1. CmIInv /\ CmTyped /\ CmPlaced /\ CmSettled /\ CmCurrent /\ CmCounts /\ CmTap
  BY DEF CmReportInv
<1>2. /\ cm_phase = "setup" /\ cm_step = "after"
      /\ UNCHANGED <<cm_group, cm_env, cm_i, cm_messages, cm_total, cm_out, cm_broken, cm_ending, cm_rc>>
  BY DEF CmAfterSetup, CmKept, cmConfig
<1>3. /\ CmTests' = CmTests /\ CmTesting /\ cm_i \in DOMAIN CmTests /\ CmHere \in CmPlaces /\ cm_i \in Nat
      /\ cm_rc \in {0, 1, 2} /\ cm_faults \in Nat /\ cm_error_message \in Seq(CmPlaces)
  BY <1>1, <1>2 DEF CmTests, CmTesting, CmPlaced, CmTyped, CmHere, CmPlaces, CmFixture
<1>4. /\ \A p, j : At(p, j)' <=> At(p, j)
      /\ \A j : (Broken(j)' <=> Broken(j)) /\ (Fixtures(j)' <=> Fixtures(j))
  BY <1>2, BrokenStays
<1>5. ~At("test", cm_i) /\ ~At("teardown", cm_i) /\ (At("setup", cm_i) <=> cm_rc # 0)
  BY <1>1, <1>2, <1>3 DEF CmCurrent
<1>6. CASE cm_rc = 0 /\ CmGoto("test") /\ UNCHANGED <<cm_status, cm_error_message, cm_faults>>
  <2>1. cm_phase' = "test" /\ cm_step' = "enter"
    BY <1>6 DEF CmGoto
  <2>2. CmTyped' /\ CmPlaced' /\ CmSettled' /\ CmCounts' /\ CmTap'
    BY <1>2, <1>3, <1>6, <2>1, PartsKeep DEF CmTesting
  <2>3. CmCurrent'
    BY <1>1, <1>2, <1>3, <1>4, <1>5, <1>6, <2>1 DEF CmCurrent, CmTesting, Fixtures
  <2> QED
    BY <2>2, <2>3 DEF CmRest
<1>7. CASE /\ cm_rc # 0 /\ cm_phase' = "report" /\ cm_step' = "after"
           /\ cm_status' = [cm_status EXCEPT ![cm_i] = "ERROR"] /\ cmocka_print_error(CmHere)
  <2>1. /\ cm_error_message' \in Seq(CmPlaces) /\ cm_faults' \in Nat
        /\ cm_faults' = 0 => cm_faults = 0 /\ cm_error_message' # <<>>
        /\ \A k \in DOMAIN cm_error_message' :
             \/ k \in DOMAIN cm_error_message /\ cm_error_message'[k] = cm_error_message[k]
             \/ cm_error_message'[k] = CmHere
    BY <1>1, <1>3, <1>7, ErrorPrinted
  <2>2. CmTyped' /\ CmPlaced' /\ CmSettled' /\ CmCounts' /\ CmTap'
    BY <1>2, <1>3, <1>7, <2>1, PartsKeep DEF CmTesting
  <2>3. \A k \in DOMAIN cm_error_message' : cm_error_message'[k][2] = cm_i
    BY <1>1, <1>3, <2>1 DEF CmCurrent, CmHere
  <2>4. cm_status'[cm_i] = "ERROR"
    BY <1>1, <1>3, <1>7 DEF CmTyped
  <2>5. CmCurrent'
    BY <1>2, <1>3, <1>4, <1>5, <1>7, <2>1, <2>3, <2>4, BrokenAre DEF CmCurrent, CmJudged, Fixtures
  <2> QED
    BY <2>2, <2>5 DEF CmRest
<1> QED
  BY <1>6, <1>7 DEF CmAfterSetup

LEMMA AfterTestKeeps ==
  ASSUME CmReportInv, CmAfterTest
  PROVE  CmRest'
<1>1. CmIInv /\ CmTyped /\ CmPlaced /\ CmSettled /\ CmCurrent /\ CmCounts /\ CmTap
  BY DEF CmReportInv
<1>2. /\ cm_phase = "test" /\ cm_step = "after" /\ cm_rc' = 0
      /\ UNCHANGED <<cm_group, cm_env, cm_i, cm_messages, cm_total, cm_out, cm_broken, cm_ending>>
      /\ UNCHANGED <<cm_error_message, cm_faults>>
      /\ cm_status' = [cm_status EXCEPT ![cm_i] = IF cm_rc = 0 THEN "PASSED" ELSE "FAILED"]
      /\ \/ cm_phase' = "teardown" /\ cm_step' = "enter"
         \/ cm_phase' = "report" /\ cm_step' = "after"
  BY DEF CmAfterTest, cmConfig, CmGoto
<1>3. /\ CmTests' = CmTests /\ CmTesting /\ CmTesting' /\ cm_i \in DOMAIN CmTests
      /\ cm_rc \in {0, 1, 2} /\ cm_faults \in Nat /\ cm_error_message \in Seq(CmPlaces)
  BY <1>1, <1>2 DEF CmTests, CmTesting, CmPlaced, CmTyped
<1>4. /\ \A p, j : At(p, j)' <=> At(p, j)
      /\ \A j : (Broken(j)' <=> Broken(j)) /\ (Fixtures(j)' <=> Fixtures(j))
  BY <1>2, BrokenStays
<1>5. CmTyped' /\ CmPlaced' /\ CmSettled' /\ CmCounts' /\ CmTap'
  BY <1>2, <1>3, PartsKeep
<1>6. cm_status'[cm_i] = IF cm_rc = 0 THEN "PASSED" ELSE "FAILED"
  BY <1>1, <1>2, <1>3 DEF CmTyped
<1>7. /\ ~Fixtures(cm_i) /\ (At("test", cm_i) <=> cm_rc # 0)
      /\ At("test", cm_i) /\ cm_faults = 0 => cm_error_message # <<>>
      /\ \A k \in DOMAIN cm_error_message : cm_error_message[k][2] = cm_i
  BY <1>1, <1>2, <1>3 DEF CmCurrent
<1>8. CmCurrent'
  BY <1>2, <1>3, <1>4, <1>6, <1>7, BrokenAre DEF CmCurrent, CmJudged, Fixtures
<1> QED
  BY <1>5, <1>8 DEF CmRest

LEMMA AfterTeardownKeeps ==
  ASSUME CmReportInv, CmAfterTeardown
  PROVE  CmRest'
<1>1. CmIInv /\ CmTyped /\ CmPlaced /\ CmSettled /\ CmCurrent /\ CmCounts /\ CmTap
  BY DEF CmReportInv
<1>2. /\ cm_phase = "teardown" /\ cm_step = "after" /\ cm_phase' = "report"
      /\ UNCHANGED <<cm_group, cm_env, cm_i, cm_messages, cm_total, cm_out, cm_broken, cm_ending, cm_rc, cm_step>>
  BY DEF CmAfterTeardown, CmKept, cmConfig
<1>3. /\ CmTests' = CmTests /\ CmTesting /\ CmTesting' /\ cm_i \in DOMAIN CmTests /\ CmHere \in CmPlaces
      /\ cm_rc \in {0, 1, 2} /\ cm_faults \in Nat /\ cm_error_message \in Seq(CmPlaces)
  BY <1>1, <1>2 DEF CmTests, CmTesting, CmPlaced, CmTyped, CmHere, CmPlaces, CmFixture
<1>4. /\ \A p, j : At(p, j)' <=> At(p, j)
      /\ \A j : (Broken(j)' <=> Broken(j)) /\ (Fixtures(j)' <=> Fixtures(j))
  BY <1>2, BrokenStays
<1>5. /\ ~At("setup", cm_i) /\ (At("teardown", cm_i) <=> cm_rc # 0)
      /\ cm_status[cm_i] = IF At("test", cm_i) THEN "FAILED" ELSE "PASSED"
      /\ At("test", cm_i) /\ cm_faults = 0 => cm_error_message # <<>>
      /\ \A k \in DOMAIN cm_error_message : cm_error_message[k][2] = cm_i
  BY <1>1, <1>2, <1>3 DEF CmCurrent
<1>6. CASE cm_rc = 0 /\ UNCHANGED <<cm_status, cm_error_message, cm_faults>>
  <2>1. CmTyped' /\ CmPlaced' /\ CmSettled' /\ CmCounts' /\ CmTap'
    BY <1>2, <1>3, <1>6, PartsKeep
  <2>2. CmCurrent'
    BY <1>2, <1>3, <1>4, <1>5, <1>6, BrokenAre DEF CmCurrent, CmJudged, Fixtures
  <2> QED
    BY <2>1, <2>2 DEF CmRest
<1>7. CASE cm_rc # 0 /\ cm_status' = [cm_status EXCEPT ![cm_i] = "ERROR"] /\ cmocka_print_error(CmHere)
  <2>1. /\ cm_error_message' \in Seq(CmPlaces) /\ cm_faults' \in Nat
        /\ cm_faults' = 0 => cm_faults = 0 /\ cm_error_message' # <<>>
        /\ \A k \in DOMAIN cm_error_message' :
             \/ k \in DOMAIN cm_error_message /\ cm_error_message'[k] = cm_error_message[k]
             \/ cm_error_message'[k] = CmHere
    BY <1>1, <1>3, <1>7, ErrorPrinted
  <2>2. CmTyped' /\ CmPlaced' /\ CmSettled' /\ CmCounts' /\ CmTap'
    BY <1>2, <1>3, <1>7, <2>1, PartsKeep
  <2>3. \A k \in DOMAIN cm_error_message' : cm_error_message'[k][2] = cm_i
    BY <1>5, <2>1 DEF CmHere
  <2>4. cm_status'[cm_i] = "ERROR"
    BY <1>1, <1>3, <1>7 DEF CmTyped
  <2>5. CmCurrent'
    BY <1>2, <1>3, <1>4, <1>5, <1>7, <2>1, <2>3, <2>4, BrokenAre DEF CmCurrent, CmJudged, Fixtures
  <2> QED
    BY <2>2, <2>5 DEF CmRest
<1> QED
  BY <1>6, <1>7 DEF CmAfterTeardown

\* The next test begins, or the group goes on to its end.
LEMMA TestBegins ==
  ASSUME NEW i \in Nat, NEW printed, CmTest(i, printed), Len(CmTests) \in Nat
  PROVE  /\ cm_i' = i /\ cm_step' = "enter"
         /\ \/ i <= Len(CmTests) /\ cm_phase' \in {"setup", "test"}
            \/ i > Len(CmTests) /\ cm_phase' \in {"group_teardown", "finish"}
         /\ cm_out \subseteq cm_out' /\ printed \subseteq cm_out'
         /\ \A line \in cm_out' : Tells(line) => line \in cm_out \cup printed
<1>1. \A line \in cmprintf("START", i) : ~Tells(line)
  BY DEF cmprintf, Tells, CmVerdicts
<1>2. CASE i > Len(CmTests)
  BY <1>2 DEF CmTest, CmGoto
<1>3. CASE ~(i > Len(CmTests))
  <2>1. /\ cm_i' = i /\ cm_step' = "enter" /\ cm_phase' \in {"setup", "test"}
        /\ cm_out' = cm_out \cup printed \cup cmprintf("START", i)
    BY <1>3 DEF CmTest, CmGoto
  <2> QED
    BY <1>1, <1>3, <2>1
<1> QED
  BY <1>2, <1>3

LEMMA TestPlaced ==
  ASSUME NEW i \in Nat, cm_i' = i, i > 0, cm_step' = "enter", cm_ending' = "none",
         Len(CmTests') \in Nat, DOMAIN CmTests' = 1 .. Len(CmTests'),
         \/ i <= Len(CmTests') /\ cm_phase' \in {"setup", "test"}
         \/ i > Len(CmTests') /\ cm_phase' \in {"group_teardown", "finish"},
         CmDone' = i - 1, i - 1 <= Len(CmTests'), ~GroupBroken', cm_error_message' = <<>>,
         i \in DOMAIN CmTests' => ~Broken(i)'
  PROVE  CmPlaced' /\ CmCurrent'
<1>1. i \in DOMAIN CmTests' => ~At("setup", i)' /\ ~At("test", i)' /\ ~At("teardown", i)' /\ ~Fixtures(i)'
  <2>1. Broken(i)' <=> At("setup", i)' \/ At("test", i)' \/ At("teardown", i)'
    BY Zenon DEF Broken, At
  <2>2. Fixtures(i)' <=> At("setup", i)' \/ At("teardown", i)'
    BY Zenon DEF Fixtures
  <2> QED
    BY <2>1, <2>2
<1>2. CmPlaced'
  BY DEF CmPlaced, CmTesting, CmOver
<1>3. CmCurrent'
  BY <1>1 DEF CmCurrent, CmTesting
<1> QED
  BY <1>2, <1>3

LEMMA MainKeeps ==
  ASSUME CmReportInv, CmMain
  PROVE  CmRest'
<1>1. CmIInv /\ CmTyped /\ CmPlaced /\ CmSettled /\ CmCurrent /\ CmCounts /\ CmTap
  BY DEF CmReportInv
<1>2. /\ cm_phase = "main" /\ UNCHANGED <<cm_group, cm_env, cm_rc, cm_error_message, cm_status, cm_messages>>
      /\ UNCHANGED <<cm_total, cm_faults, cm_ending, cm_exit, cm_broken>>
  BY DEF CmMain, cmConfig
<1>3. /\ CmTests' = CmTests /\ CmDone' = CmDone /\ cm_ending = "none" /\ cm_i = 0 /\ CmDone = 0
      /\ cm_total.failed = 0 /\ cm_total.errors = 0 /\ cm_broken = {} /\ cm_error_message = <<>>
      /\ DOMAIN CmTests = 1 .. Len(CmTests) /\ Len(CmTests) \in Nat
  BY <1>1, <1>2, TestsSeq DEF CmTests, CmDone, CmPlaced, CmIInv
<1>4. /\ \A p, j : ~At(p, j) /\ ~At(p, j)'
      /\ \A j : ~Broken(j) /\ ~Broken(j)' /\ ~Fixtures(j)'
      /\ ~GroupBroken /\ ~GroupBroken'
  BY <1>2, <1>3, Zenon DEF At, Broken, Fixtures, GroupBroken
<1>5. \A line \in CmPlan : ~Tells(line)
  BY DEF CmPlan, Tells, CmVerdicts
<1>6. /\ cm_i' \in Nat /\ cm_step' = "enter"
      /\ cm_phase' \in {"group_setup", "setup", "test", "group_teardown", "finish"}
      /\ cm_out \subseteq cm_out' /\ (\A line \in cm_out' : Tells(line) => line \in cm_out)
      /\ CmPlaced' /\ CmCurrent'
  <2>1. CASE CmGoto("group_setup") /\ cm_out' = cm_out \cup CmPlan /\ UNCHANGED cm_i
    <3>1. cm_phase' = "group_setup" /\ cm_step' = "enter" /\ cm_i' = 0 /\ cm_error_message' = <<>>
      BY <1>2, <1>3, <2>1 DEF CmGoto
    <3>2. CmPlaced'
      BY <1>2, <1>3, <1>4, <3>1 DEF CmPlaced, CmTesting
    <3>3. CmCurrent'
      BY <3>1 DEF CmCurrent, CmTesting
    <3> QED
      BY <1>5, <2>1, <3>1, <3>2, <3>3
  <2>2. CASE CmTest(1, CmPlan)
    <3>1. /\ cm_i' = 1 /\ cm_step' = "enter"
          /\ \/ 1 <= Len(CmTests) /\ cm_phase' \in {"setup", "test"}
             \/ 1 > Len(CmTests) /\ cm_phase' \in {"group_teardown", "finish"}
          /\ cm_out \subseteq cm_out' /\ CmPlan \subseteq cm_out'
          /\ \A line \in cm_out' : Tells(line) => line \in cm_out \cup CmPlan
      BY <1>3, <2>2, TestBegins
    <3>2. CmPlaced' /\ CmCurrent'
      BY <1>2, <1>3, <1>4, <3>1, TestPlaced
    <3> QED
      BY <1>5, <3>1, <3>2
  <2> QED
    BY <2>1, <2>2 DEF CmMain
<1>7. /\ \A i \in 1 .. CmDone' : CmJudged(i, cm_messages[i])'
      /\ \A i \in DOMAIN CmTests' : \A k \in DOMAIN cm_messages'[i] : cm_messages'[i][k][2] = i
      /\ CmCounts' /\ CmTap'
  BY <1>1, <1>2, <1>3, <1>4, <1>6, ReportedStay
<1>8. CmSettled'
  BY <1>1, <1>2, <1>3, <1>4, <1>7 DEF CmSettled
<1>9. CmTyped'
  BY <1>1, <1>2, <1>3, <1>6 DEF CmTyped, CmFixture
<1> QED
  BY <1>6, <1>7, <1>8, <1>9 DEF CmRest

LEMMA AfterGroupSetupKeeps ==
  ASSUME CmReportInv, CmAfterGroupSetup
  PROVE  CmRest'
<1>1. CmIInv /\ CmTyped /\ CmPlaced /\ CmSettled /\ CmCurrent /\ CmCounts /\ CmTap
  BY DEF CmReportInv
<1>2. /\ cm_phase = "group_setup" /\ cm_step = "after"
      /\ UNCHANGED <<cm_group, cm_env, cm_rc, cm_status, cm_messages, cm_faults, cm_ending, cm_exit, cm_broken>>
  BY DEF CmAfterGroupSetup, CmKept, cmConfig
<1>3. /\ CmTests' = CmTests /\ cm_ending = "none" /\ cm_i = 0 /\ CmDone = 0
      /\ cm_total.failed = 0 /\ cm_total.errors = 0
      /\ DOMAIN CmTests = 1 .. Len(CmTests) /\ Len(CmTests) \in Nat
      /\ GroupBroken <=> cm_rc # 0
      /\ cm_error_message # <<>> => cm_rc # 0
  BY <1>1, <1>2, TestsSeq DEF CmTests, CmDone, CmPlaced, CmIInv
<1>4. /\ \A p, j : At(p, j)' <=> At(p, j)
      /\ \A j : (Broken(j)' <=> Broken(j)) /\ (Fixtures(j)' <=> Fixtures(j))
      /\ GroupBroken' <=> GroupBroken
  BY <1>2, BrokenStays
<1>5. \A j \in DOMAIN CmTests : ~Broken(j)
  BY <1>1, <1>2, <1>3 DEF CmSettled, CmTesting
<1>6. /\ cm_i' \in Nat /\ cm_step' = "enter"
      /\ cm_phase' \in {"setup", "test", "group_teardown", "finish"}
      /\ cm_out \subseteq cm_out' /\ (\A line \in cm_out' : Tells(line) => line \in cm_out)
      /\ CmDone' = CmDone /\ (cm_total' = cm_total \/ GroupBroken')
      /\ cm_total' \in [executed : Nat, passed : Nat, failed : Nat, errors : Nat]
      /\ cm_error_message' = <<>>
      /\ CmPlaced' /\ CmCurrent'
  <2>1. CASE cm_rc = 0 /\ CmTest(1, {}) /\ UNCHANGED <<cm_error_message, cm_total>>
    <3>1. /\ cm_i' = 1 /\ cm_step' = "enter"
          /\ \/ 1 <= Len(CmTests) /\ cm_phase' \in {"setup", "test"}
             \/ 1 > Len(CmTests) /\ cm_phase' \in {"group_teardown", "finish"}
          /\ cm_out \subseteq cm_out'
          /\ \A line \in cm_out' : Tells(line) => line \in cm_out
      BY <1>3, <2>1, TestBegins
    <3>2. CmDone' = CmDone /\ cm_error_message' = <<>> /\ ~GroupBroken'
      BY <1>3, <1>4, <2>1 DEF CmDone
    <3>3. CmPlaced' /\ CmCurrent'
      BY <1>2, <1>3, <1>4, <1>5, <3>1, <3>2, TestPlaced
    <3> QED
      BY <1>1, <2>1, <3>1, <3>2, <3>3 DEF CmTyped
  <2>2. CASE /\ cm_rc # 0 /\ cm_error_message' = <<>>
             /\ cm_total' = [cm_total EXCEPT !.errors = @ + 1]
             /\ cm_out' = cm_out \cup cmprintf("ERROR", 0)
             /\ CmGoto(IF cm_group.teardown THEN "group_teardown" ELSE "finish")
             /\ UNCHANGED cm_i
    <3>1. /\ cm_total' \in [executed : Nat, passed : Nat, failed : Nat, errors : Nat]
          /\ cm_total'.executed = cm_total.executed /\ cm_total'.failed = 0 /\ cm_total'.errors = 1
      BY <1>1, <1>3, <2>2 DEF CmTyped
    <3>2. cm_phase' \in {"group_teardown", "finish"} /\ cm_step' = "enter" /\ cm_i' = 0
      BY <1>3, <2>2 DEF CmGoto
    <3>3. \A line \in cmprintf("ERROR", 0) : ~Tells(line)
      BY DEF cmprintf, Tells
    <3>4. CmDone' = 0 /\ CmDone' = CmDone /\ GroupBroken'
      BY <1>3, <1>4, <2>2, <3>1 DEF CmDone
    <3>5. CmPlaced'
      BY <1>2, <1>3, <3>1, <3>2, <3>4 DEF CmPlaced, CmTesting, CmOver
    <3>6. CmCurrent'
      BY <3>2 DEF CmCurrent, CmTesting
    <3> QED
      BY <2>2, <3>1, <3>2, <3>3, <3>4, <3>5, <3>6
  <2> QED
    BY <2>1, <2>2 DEF CmAfterGroupSetup
<1>7. /\ \A i \in 1 .. CmDone' : CmJudged(i, cm_messages[i])'
      /\ \A i \in DOMAIN CmTests' : \A k \in DOMAIN cm_messages'[i] : cm_messages'[i][k][2] = i
      /\ CmCounts' /\ CmTap'
  BY <1>1, <1>2, <1>3, <1>4, <1>6, ReportedStay
<1>8. CmSettled'
  BY <1>1, <1>2, <1>3, <1>4, <1>5, <1>6, <1>7 DEF CmSettled
<1>9. CmTyped'
  BY <1>1, <1>2, <1>3, <1>6 DEF CmTyped, CmFixture
<1> QED
  BY <1>6, <1>7, <1>8, <1>9 DEF CmRest

\* A step that reports nothing and touches no test.
LEMMA EndsKeep ==
  ASSUME CmReportInv, cm_phase \in {"main", "group_teardown", "finish"}, cm_step' \in {"enter", "after"},
         UNCHANGED <<cm_group, cm_env, cm_i, cm_rc, cm_status, cm_messages, cm_total, cm_broken>>,
         cm_phase' \in {"finish", "ended"}, cm_ending' \in {"none", "exit"},
         cm_error_message' \in Seq(CmPlaces), cm_faults' \in Nat, cm_faults' = 0 => cm_faults = 0,
         cm_out \subseteq cm_out', \A line \in cm_out' : Tells(line) => line \in cm_out,
         CmPlaced'
  PROVE  CmRest'
<1>1. CmIInv /\ CmTyped /\ CmPlaced /\ CmSettled /\ CmCurrent /\ CmCounts /\ CmTap
  BY DEF CmReportInv
<1>2. /\ CmTests' = CmTests /\ CmDone' = CmDone /\ ~CmTesting
      /\ DOMAIN CmTests = 1 .. Len(CmTests) /\ Len(CmTests) \in Nat
  BY <1>1, TestsSeq DEF CmTests, CmDone, CmTesting
<1>3. /\ \A p, j : At(p, j)' <=> At(p, j)
      /\ \A j : (Broken(j)' <=> Broken(j)) /\ (Fixtures(j)' <=> Fixtures(j))
      /\ GroupBroken' <=> GroupBroken
  BY BrokenStays
<1>4. /\ \A i \in 1 .. CmDone' : CmJudged(i, cm_messages[i])'
      /\ \A i \in DOMAIN CmTests' : \A k \in DOMAIN cm_messages'[i] : cm_messages'[i][k][2] = i
      /\ CmCounts' /\ CmTap'
  BY <1>1, <1>2, <1>3, ReportedStay
<1>5. cm_ending = "none"
  BY <1>1 DEF CmIInv
<1>6. CmSettled'
  BY <1>1, <1>2, <1>3, <1>4, <1>5 DEF CmSettled
<1>7. CmTyped'
  BY <1>1, <1>2 DEF CmTyped
<1>8. CmCurrent'
  BY DEF CmCurrent, CmTesting
<1> QED
  BY <1>4, <1>6, <1>7, <1>8 DEF CmRest

LEMMA NoTableKeeps ==
  ASSUME CmReportInv, CmNoTable
  PROVE  CmRest'
<1>1. CmIInv /\ CmTyped /\ CmPlaced
  BY DEF CmReportInv
<1>2. /\ cm_phase = "main" /\ cm_phase' = "ended" /\ cm_step' = "after" /\ cm_ending' = "exit"
      /\ cm_exit' = 255 /\ cm_faults' = cm_faults + 1
      /\ UNCHANGED <<cm_group, cm_env, cm_i, cm_rc, cm_status, cm_messages, cm_total, cm_broken>>
      /\ UNCHANGED <<cm_out, cm_error_message>>
  BY DEF CmNoTable, CmFault, CmEnd, cmConfig, cmReport
<1>3. cm_faults \in Nat /\ cm_error_message \in Seq(CmPlaces) /\ CmTests' = CmTests /\ CmDone' = CmDone
  BY <1>1, <1>2 DEF CmTyped, CmTests, CmDone
<1>4. CmPlaced'
  BY <1>1, <1>2, <1>3 DEF CmPlaced, CmTesting
<1> QED
  BY <1>2, <1>3, <1>4, EndsKeep

LEMMA AfterGroupTeardownKeeps ==
  ASSUME CmReportInv, CmAfterGroupTeardown
  PROVE  CmRest'
<1>1. CmIInv /\ CmTyped /\ CmPlaced
  BY DEF CmReportInv
<1>2. /\ cm_phase = "group_teardown" /\ cm_phase' = "finish" /\ cm_step' = "enter"
      /\ UNCHANGED <<cm_group, cm_env, cm_i, cm_rc, cm_status, cm_messages, cm_total, cm_broken>>
      /\ UNCHANGED <<cm_faults, cm_ending, cm_exit>>
      /\ \/ UNCHANGED <<cm_error_message, cm_out>>
         \/ cm_error_message' = <<>> /\ cm_out' = cm_out \cup cmprintf("ERROR", 0)
  BY DEF CmAfterGroupTeardown, CmGoto, CmKept, cmConfig
<1>3. /\ cm_faults \in Nat /\ cm_error_message \in Seq(CmPlaces) /\ CmTests' = CmTests /\ CmDone' = CmDone
      /\ cm_ending = "none"
  BY <1>1, <1>2 DEF CmTyped, CmTests, CmDone, CmIInv
<1>4. \A line \in cmprintf("ERROR", 0) : ~Tells(line)
  BY DEF cmprintf, Tells
<1>5. cm_error_message' \in Seq(CmPlaces)
  <2>1. <<>> \in Seq(CmPlaces)
    OBVIOUS
  <2> QED
    BY <1>2, <1>3, <2>1
<1>6. CmOver'
  <2>1. GroupBroken' <=> GroupBroken
    BY <1>2, BrokenStays
  <2> QED
    BY <1>1, <1>2, <1>3, <2>1 DEF CmPlaced, CmOver
<1>7. CmPlaced'
  BY <1>1, <1>2, <1>3, <1>6 DEF CmPlaced, CmTesting
<1> QED
  BY <1>2, <1>3, <1>4, <1>5, <1>7, EndsKeep

LEMMA FinishKeeps ==
  ASSUME CmReportInv, CmFinish
  PROVE  CmRest'
<1>1. CmIInv /\ CmTyped /\ CmPlaced
  BY DEF CmReportInv
<1>2. /\ cm_phase = "finish" /\ cm_phase' = "ended" /\ cm_step' = "after" /\ cm_ending' = "exit"
      /\ cm_exit' = (cm_total.failed + cm_total.errors) % 256
      /\ UNCHANGED <<cm_group, cm_env, cm_i, cm_rc, cm_status, cm_messages, cm_total, cm_broken>>
      /\ UNCHANGED <<cm_faults, cm_error_message>>
      /\ cm_out' = cm_out \cup UNION {CmSummary(format) : format \in cm_get_output}
  BY DEF CmFinish, CmEnd, cmConfig, cmSignalState
<1>3. /\ cm_faults \in Nat /\ cm_error_message \in Seq(CmPlaces) /\ CmTests' = CmTests /\ CmDone' = CmDone
  BY <1>1, <1>2 DEF CmTyped, CmTests, CmDone
<1>4. ASSUME NEW format \in cm_get_output PROVE \A line \in CmSummary(format) : ~Tells(line)
  <2>1. format \in {"STANDARD", "SUBUNIT", "TAP", "XML"}
    BY DEF cm_get_output, CmFormats
  <2>2. \A line \in CmListed : line[1] = "STANDARD"
    BY DEF CmListed
  <2>3. \A line \in CmXml : line[1] = "XML"
    BY DEF CmXml
  <2>4. \A line \in CmTapGroup : line[2] \in {"group ok", "group not ok"}
    <3> DEFINE what == IF cm_total.passed = cm_total.executed THEN "group ok" ELSE "group not ok"
    <3>1. what \in {"group ok", "group not ok"} /\ CmTapGroup = {<<"TAP", what, 0>>}
      BY DEF CmTapGroup
    <3> HIDE DEF what
    <3> SUFFICES ASSUME NEW line \in CmTapGroup PROVE line[2] \in {"group ok", "group not ok"}
      OBVIOUS
    <3>2. line = <<"TAP", what, 0>>
      BY <3>1
    <3>3. line[2] = what
      BY <3>2
    <3> QED
      BY <3>1, <3>3
  <2> QED
    BY <2>1, <2>2, <2>3, <2>4 DEF CmSummary, Tells, CmVerdicts
<1>5. cm_out \subseteq cm_out' /\ \A line \in cm_out' : Tells(line) => line \in cm_out
  BY <1>2, <1>4, Zenon
<1>6. CmOver /\ CmOver'
  <2>1. GroupBroken' <=> GroupBroken
    BY <1>2, BrokenStays
  <2> QED
    BY <1>1, <1>2, <1>3, <2>1 DEF CmPlaced, CmOver
<1>7. CmPlaced'
  BY <1>1, <1>2, <1>3, <1>6 DEF CmPlaced, CmTesting
<1> QED
  BY <1>2, <1>3, <1>5, <1>7, EndsKeep

\* A test is reported: its verdict is counted and printed, and it takes its messages along.
LEMMA ReportKeeps ==
  ASSUME CmReportInv, CmReport
  PROVE  CmRest'
<1>1. CmIInv /\ CmTyped /\ CmPlaced /\ CmSettled /\ CmCurrent /\ CmCounts /\ CmTap
  BY DEF CmReportInv
<1>2. /\ cm_phase = "report"
      /\ UNCHANGED <<cm_group, cm_env, cm_rc, cm_ending, cm_broken, cm_status, cm_faults>>
      /\ cm_messages' = [cm_messages EXCEPT ![cm_i] = cm_error_message]
      /\ cm_error_message' = <<>>
      /\ CmTest(cm_i + 1, cmprintf(Verdict, cm_i))
  BY DEF CmReport, CmKept, cmConfig, Taken
<1>3. /\ CmTests' = CmTests /\ cm_get_output' = cm_get_output
      /\ cm_i \in DOMAIN CmTests /\ CmDone = cm_i - 1 /\ ~GroupBroken
      /\ DOMAIN CmTests = 1 .. Len(CmTests) /\ Len(CmTests) \in Nat /\ cm_i \in Nat
      /\ cm_ending = "none" /\ cm_rc \in {0, 1, 2} /\ cm_error_message \in Seq(CmPlaces)
      /\ CmJudged(cm_i, cm_error_message) /\ (cm_rc # 0 <=> Fixtures(cm_i))
      /\ \A k \in DOMAIN cm_error_message : cm_error_message[k][2] = cm_i
  BY <1>1, <1>2, TestsSeq DEF CmTests, CmPlaced, CmTesting, CmIInv, CmTyped, CmCurrent, cm_get_output
<1>4. /\ \A p, j : At(p, j)' <=> At(p, j)
      /\ \A j : (Broken(j)' <=> Broken(j)) /\ (Fixtures(j)' <=> Fixtures(j))
      /\ GroupBroken' <=> GroupBroken
  BY <1>2, BrokenStays
<1>5. cm_status[cm_i] \in {"PASSED", "FAILED", "ERROR"} /\ (cm_rc # 0 <=> cm_status[cm_i] = "ERROR")
  BY <1>1, <1>3 DEF CmJudged, CmTyped
<1>6. Verdict = IF cm_status[cm_i] = "PASSED" THEN "SUCCESS"
                ELSE IF cm_status[cm_i] = "FAILED" THEN "FAILURE" ELSE "ERROR"
  BY <1>5 DEF Verdict
<1>7. /\ CmDone' = cm_i
      /\ cm_total' \in [executed : Nat, passed : Nat, failed : Nat, errors : Nat]
      /\ cm_total'.failed + cm_total'.errors = cm_total.failed + cm_total.errors
                                               + (IF cm_status[cm_i] = "PASSED" THEN 0 ELSE 1)
  <2>1. /\ cm_total' = [executed |-> cm_total.executed + 1, passed |-> CmCount("passed", "SUCCESS"),
                        failed |-> CmCount("failed", "FAILURE"), errors |-> CmCount("errors", "ERROR")]
    BY DEF CmReport
  <2>2. /\ CmCount("failed", "FAILURE") = cm_total.failed + (IF Verdict = "FAILURE" THEN 1 ELSE 0)
        /\ CmCount("errors", "ERROR") = cm_total.errors + (IF Verdict = "ERROR" THEN 1 ELSE 0)
        /\ CmCount("passed", "SUCCESS") = cm_total.passed + (IF Verdict = "SUCCESS" THEN 1 ELSE 0)
    BY DEF CmCount
  <2>3. cm_total \in [executed : Nat, passed : Nat, failed : Nat, errors : Nat]
    BY <1>1 DEF CmTyped
  <2>4. cm_total.executed + 1 = cm_i
    BY <1>3, <2>3 DEF CmDone
  <2> QED
    BY <1>5, <1>6, <2>1, <2>2, <2>3, <2>4 DEF CmDone
<1>8. /\ cm_messages' \in [DOMAIN CmTests -> Seq(CmPlaces)]
      /\ cm_messages'[cm_i] = cm_error_message
      /\ \A i \in DOMAIN CmTests : i # cm_i => cm_messages'[i] = cm_messages[i]
  BY <1>1, <1>2, <1>3 DEF CmTyped
<1>9. /\ cm_i' = cm_i + 1 /\ cm_step' = "enter"
      /\ \/ cm_i + 1 <= Len(CmTests) /\ cm_phase' \in {"setup", "test"}
         \/ cm_i + 1 > Len(CmTests) /\ cm_phase' \in {"group_teardown", "finish"}
      /\ cm_out \subseteq cm_out' /\ cmprintf(Verdict, cm_i) \subseteq cm_out'
      /\ \A line \in cm_out' : Tells(line) => line \in cm_out \cup cmprintf(Verdict, cm_i)
  BY <1>2, <1>3, TestBegins
<1>10. cm_i + 1 \in DOMAIN CmTests => ~Broken(cm_i + 1)
  BY <1>1, <1>2, <1>3 DEF CmSettled
<1>11. CmPlaced' /\ CmCurrent'
  BY <1>2, <1>3, <1>4, <1>7, <1>9, <1>10, TestPlaced
<1>12. CmTyped'
  BY <1>1, <1>2, <1>3, <1>7, <1>8, <1>9 DEF CmTyped, CmFixture
<1>13. CmSettled'
  <2>1. ASSUME NEW i \in 1 .. cm_i PROVE CmJudged(i, cm_messages[i])'
    <3>1. CmJudged(i, cm_messages'[i])
      BY <1>1, <1>3, <1>8 DEF CmSettled
    <3> QED
      BY <1>2, <1>4, <3>1, Zenon DEF CmJudged
  <2>2. ASSUME NEW i \in DOMAIN CmTests, NEW k \in DOMAIN cm_messages'[i] PROVE cm_messages'[i][k][2] = i
    BY <1>1, <1>3, <1>8, <2>2 DEF CmSettled
  <2>3. ASSUME NEW i \in DOMAIN CmTests, i > cm_i PROVE cm_messages'[i] = <<>> /\ ~Broken(i)
    BY <1>1, <1>3, <1>8, <2>3 DEF CmSettled
  <2> QED
    BY <1>3, <1>4, <1>7, <2>1, <2>2, <2>3 DEF CmSettled
<1>14. CmCounts'
  <2>1. /\ cm_total.failed \in Nat /\ cm_total.errors \in Nat
        /\ cm_total.failed + cm_total.errors <= cm_i - 1
        /\ cm_total.failed + cm_total.errors = 0 <=> \A i \in 1 .. cm_i - 1 : cm_status[i] = "PASSED"
    BY <1>1, <1>3 DEF CmCounts, CmTyped
  <2>2. (\A i \in 1 .. cm_i : cm_status[i] = "PASSED")
          <=> (\A i \in 1 .. cm_i - 1 : cm_status[i] = "PASSED") /\ cm_status[cm_i] = "PASSED"
    BY <1>3
  <2>3. /\ cm_total'.failed + cm_total'.errors <= cm_i
        /\ cm_total'.failed + cm_total'.errors = 0 <=> \A i \in 1 .. cm_i : cm_status[i] = "PASSED"
    <3>1. CASE cm_status[cm_i] = "PASSED"
      BY <1>3, <1>7, <2>1, <2>2, <3>1
    <3>2. CASE cm_status[cm_i] # "PASSED"
      <4>1. /\ cm_total'.failed + cm_total'.errors = cm_total.failed + cm_total.errors + 1
            /\ ~(\A i \in 1 .. cm_i : cm_status[i] = "PASSED")
        BY <1>7, <2>2, <3>2
      <4>2. cm_total.failed + cm_total.errors \in Nat /\ cm_total.failed + cm_total.errors <= cm_i - 1
        BY <2>1
      <4>3. cm_total'.failed + cm_total'.errors <= cm_i /\ cm_total'.failed + cm_total'.errors # 0
        BY <1>3, <4>1, <4>2
      <4> QED
        BY <4>1, <4>3
    <3> QED
      BY <3>1, <3>2
  <2>4. cm_status' = cm_status /\ CmDone' = cm_i
    BY <1>2, <1>7
  <2> QED
    BY <2>3, <2>4 DEF CmCounts
<1>15. CmTap'
  <2>1. \A i \in 1 .. cm_i : TapOf(i)' = TapOf(i)
    BY <1>2 DEF TapOf
  <2>2. TapOf(cm_i) = <<"TAP", Verdict, cm_i>>
    BY <1>6 DEF TapOf
  <2>3. "TAP" \in cm_get_output => TapOf(cm_i) \in cmprintf(Verdict, cm_i)
    <3>1. CmPrints("TAP", Verdict)
      BY <1>6 DEF CmPrints
    <3> QED
      BY <2>2, <3>1 DEF cmprintf
  <2>4. \A line \in cmprintf(Verdict, cm_i) : line[1] = "TAP" => line = TapOf(cm_i)
    BY <2>2 DEF cmprintf
  <2>5. ("TAP" \in cm_get_output => \A i \in 1 .. CmDone : TapOf(i) \in cm_out)'
    BY <1>1, <1>3, <1>7, <1>9, <2>1, <2>3 DEF CmTap
  <2>6. ASSUME NEW line \in TapLines', line[3] # 0 PROVE \E i \in 1 .. cm_i : line = TapOf(i)
    <3>1. line \in cm_out' /\ line[1] = "TAP" /\ line[2] \in {"SUCCESS", "FAILURE", "ERROR"}
      BY <2>6, Zenon DEF TapLines
    <3>2. CASE line \in cm_out
      <4>1. line \in TapLines
        BY <3>1, <3>2, Zenon DEF TapLines
      <4>2. PICK i \in 1 .. CmDone : line = TapOf(i)
        BY <1>1, <2>6, <4>1, Zenon DEF CmTap
      <4> QED
        BY <1>3, <4>2
    <3>3. CASE line \in cmprintf(Verdict, cm_i)
      BY <1>3, <2>4, <3>1, <3>3
    <3> QED
      BY <1>9, <2>6, <3>1, <3>2, <3>3 DEF Tells, CmVerdicts
  <2>7. \A line \in TapLines' : line[3] = 0 \/ \E i \in 1 .. CmDone' : line = TapOf(i)'
    BY <1>7, <2>1, <2>6
  <2> QED
    BY <2>5, <2>7, Zenon DEF CmTap
<1> QED
  BY <1>11, <1>12, <1>13, <1>14, <1>15 DEF CmRest

\* The exit status of cmocka's main is a count modulo 256: with fewer tests than that (every
\* group here has), the report is true to what happened, whatever fails where.
THEOREM CmReportsTrue == CmSpec => []((Len(CmTests) < 256) => CmReportHonest)
<1>1. CmInit => CmReportInv
  <2> SUFFICES ASSUME CmInit PROVE CmReportInv
    OBVIOUS
  <2>1. /\ cm_phase = "main" /\ cm_step = "after" /\ cm_i = 0 /\ cm_rc = 0 /\ cm_error_message = <<>>
        /\ cm_total = [executed |-> 0, passed |-> 0, failed |-> 0, errors |-> 0]
        /\ cm_ending = "none" /\ cm_out = {} /\ cm_broken = {} /\ CmDone = 0
        /\ \A i \in DOMAIN CmTests : cm_messages[i] = <<>>
    BY DEF CmInit, CmDone
  <2>2. /\ \A p, j : ~At(p, j)
        /\ \A j : ~Broken(j)
        /\ ~GroupBroken
    BY <2>1, Zenon DEF At, Broken, GroupBroken
  <2>3. CmIInv
    BY DEF CmInit, CmIInv, CmFixture
  <2>4. CmTyped
    BY DEF CmInit, CmTyped, CmTests
  <2>5. Len(CmTests) \in Nat /\ DOMAIN CmTests = 1 .. Len(CmTests)
    BY <2>4, TestsSeq
  <2>6. CmPlaced
    BY <2>1, <2>2, <2>5 DEF CmPlaced, CmTesting
  <2>7. CmSettled
    BY <2>1, <2>2, <2>5 DEF CmSettled
  <2>8. CmCurrent
    BY <2>1 DEF CmCurrent, CmTesting
  <2>9. CmCounts
    BY <2>1 DEF CmCounts
  <2>10. CmTap
    BY <2>1 DEF CmTap, TapLines
  <2> QED
    BY <2>3, <2>4, <2>6, <2>7, <2>8, <2>9, <2>10 DEF CmReportInv
<1>2. CmReportInv /\ [CmNext]_cmvars => CmReportInv'
  <2> SUFFICES ASSUME CmReportInv, [CmNext]_cmvars PROVE CmReportInv'
    OBVIOUS
  <2>1. CmIInv'
    BY CmIInvStays DEF CmReportInv
  <2>2. CASE CmNext
    <3>1. CASE CmReturns \/ CmFails \/ \E sig \in CmSignals : CmRaises(sig)
      BY <2>1, <3>1, BodyKeeps DEF CmBody, CmRest, CmReportInv
    <3>2. CASE CmAfterSetup \/ CmAfterTest \/ CmAfterTeardown \/ CmReport
      BY <2>1, <3>2, AfterSetupKeeps, AfterTestKeeps, AfterTeardownKeeps, ReportKeeps DEF CmRest, CmReportInv
    <3>3. CASE CmMain \/ CmNoTable \/ CmEnter
      BY <2>1, <3>3, MainKeeps, NoTableKeeps, EnterKeeps DEF CmRest, CmReportInv
    <3>4. CASE CmAfterGroupSetup \/ CmAfterGroupTeardown \/ CmFinish
      BY <2>1, <3>4, AfterGroupSetupKeeps, AfterGroupTeardownKeeps, FinishKeeps DEF CmRest, CmReportInv
    <3> QED
      BY <2>2, <3>1, <3>2, <3>3, <3>4, Zenon DEF CmNext
  <2>3. CASE UNCHANGED cmvars
    <3>1. /\ UNCHANGED <<cm_group, cm_abort, cm_env, cm_phase, cm_step, cm_i, cm_running, cm_handler>>
          /\ UNCHANGED <<cm_blocked, cm_saved, cm_rc, cm_error_message, cm_status, cm_messages>>
          /\ UNCHANGED <<cm_total, cm_faults, cm_ending, cm_exit, cm_out, cm_broken>>
      BY <2>3 DEF cmvars
    <3>2. /\ CmTests' = CmTests /\ CmDone' = CmDone /\ TapLines' = TapLines /\ cm_get_output' = cm_get_output
          /\ \A i : TapOf(i)' = TapOf(i)
      BY <3>1 DEF CmTests, CmDone, TapLines, cm_get_output, TapOf
    <3>3. /\ \A p, j : At(p, j)' <=> At(p, j)
          /\ \A j : (Broken(j)' <=> Broken(j)) /\ (Fixtures(j)' <=> Fixtures(j))
          /\ GroupBroken' <=> GroupBroken
      BY <3>1, BrokenStays
    <3>4. CmTyped' /\ CmPlaced'
      BY <3>1, <3>2, <3>3 DEF CmReportInv, CmTyped, CmPlaced, CmTesting, CmOver
    <3>5. \A i, m : CmJudged(i, m)' <=> CmJudged(i, m)
      BY <3>1, <3>3, Zenon DEF CmJudged
    <3>6. CmSettled' /\ CmCurrent'
      BY <3>1, <3>2, <3>3, <3>5 DEF CmReportInv, CmSettled, CmCurrent, CmTesting, CmJudged
    <3>7. CmCounts' /\ CmTap'
      BY <3>1, <3>2, <3>3 DEF CmReportInv, CmCounts, CmTap
    <3> QED
      BY <2>1, <3>4, <3>6, <3>7 DEF CmReportInv
  <2> QED
    BY <2>2, <2>3
<1>3. CmReportInv => ((Len(CmTests) < 256) => CmReportHonest)
  <2> SUFFICES ASSUME CmReportInv, Len(CmTests) < 256 PROVE CmReportHonest
    OBVIOUS
  <2>0. CmIInv /\ CmTyped /\ CmPlaced /\ CmSettled /\ CmCounts /\ CmTap
    BY DEF CmReportInv
  <2>1. /\ Len(CmTests) \in Nat /\ DOMAIN CmTests = 1 .. Len(CmTests) /\ CmDone \in Nat
        /\ cm_total.failed \in Nat /\ cm_total.errors \in Nat /\ cm_faults \in Nat
    BY <2>0, TestsSeq DEF CmTyped, CmDone
  <2>2. \A i \in DOMAIN CmTests : \A k \in DOMAIN cm_messages[i] : cm_messages[i][k][2] = i
    BY <2>0 DEF CmSettled
  \* Whatever ended well is over; what is over was judged.
  <2>3. cm_ending = "exit" /\ (cm_exit # 255 \/ cm_faults = 0) =>
          CmOver /\ cm_exit = (cm_total.failed + cm_total.errors) % 256
    BY <2>0, <2>1 DEF CmPlaced
  <2>4. CmOver /\ ~GroupBroken => CmDone = Len(CmTests) /\ \A i \in DOMAIN CmTests : CmJudged(i, cm_messages[i])
    BY <2>0, <2>1 DEF CmOver, CmSettled
  <2>5. ASSUME cm_ending = "exit", cm_exit = 0
        PROVE  ~GroupBroken /\ \A i \in DOMAIN CmTests : cm_status[i] = "PASSED" /\ ~Broken(i)
    <3>1. CmOver /\ (cm_total.failed + cm_total.errors) % 256 = 0
      BY <2>3, <2>5
    <3>2. ~GroupBroken
      BY <3>1 DEF CmOver
    <3>3. cm_total.failed + cm_total.errors <= CmDone /\ CmDone = Len(CmTests)
      BY <2>0, <2>4, <3>1, <3>2 DEF CmCounts
    <3>4. cm_total.failed + cm_total.errors = 0
      BY <2>1, <3>1, <3>3
    <3>5. \A i \in DOMAIN CmTests : cm_status[i] = "PASSED"
      BY <2>0, <2>1, <3>2, <3>3, <3>4 DEF CmCounts
    <3> QED
      BY <2>4, <3>1, <3>2, <3>5 DEF CmJudged
  <2>6. ASSUME cm_ending = "exit", cm_exit # 255, ~GroupBroken, NEW i \in DOMAIN CmTests
        PROVE  /\ cm_status[i] = "PASSED" <=> ~Broken(i)
               /\ cm_status[i] = "ERROR" <=> <<"setup", i>> \in cm_broken \/ <<"teardown", i>> \in cm_broken
               /\ Broken(i) /\ cm_faults = 0 => cm_messages[i] # <<>>
               /\ {line[2] : line \in {l \in TapLines : l[3] = i}} \subseteq
                    {IF cm_status[i] = "PASSED" THEN "SUCCESS"
                     ELSE IF cm_status[i] = "FAILED" THEN "FAILURE" ELSE "ERROR"}
    <3>1. CmJudged(i, cm_messages[i])
      BY <2>3, <2>4, <2>6
    <3>2. \A line \in TapLines : line[3] = i => line = TapOf(i)
      BY <2>0, <2>1 DEF CmTap, TapOf
    <3>3. TapOf(i)[2] = IF cm_status[i] = "PASSED" THEN "SUCCESS"
                        ELSE IF cm_status[i] = "FAILED" THEN "FAILURE" ELSE "ERROR"
      BY DEF TapOf
    <3> QED
      BY <3>1, <3>2, <3>3 DEF CmJudged, Fixtures, At
  <2>7. ASSUME cm_ending = "exit", cm_faults = 0, ~GroupBroken, "TAP" \in cm_env
        PROVE  Cardinality({line \in TapLines : line[3] > 0}) = Len(CmTests)
    <3> DEFINE rows == {line \in TapLines : line[3] > 0}
               place == [i \in 1 .. Len(CmTests) |-> TapOf(i)]
    <3>1. CmDone = Len(CmTests) /\ "TAP" \in cm_get_output
      BY <2>3, <2>4, <2>7 DEF cm_get_output, CmFormats
    <3>2. \A i : TapOf(i)[1] = "TAP" /\ TapOf(i)[2] \in {"SUCCESS", "FAILURE", "ERROR"} /\ TapOf(i)[3] = i
      BY DEF TapOf
    <3>3. ASSUME NEW i \in 1 .. Len(CmTests) PROVE TapOf(i) \in rows
      BY <2>0, <2>1, <3>1, <3>2 DEF CmTap, TapLines
    <3>4. ASSUME NEW line \in rows PROVE \E i \in 1 .. Len(CmTests) : line = TapOf(i)
      BY <2>0, <3>1 DEF CmTap
    <3>5. place \in Bijection(1 .. Len(CmTests), rows)
      <4>1. place \in [1 .. Len(CmTests) -> rows]
        BY <3>3
      <4>2. \A line \in rows : \E i \in 1 .. Len(CmTests) : place[i] = line
        BY <3>4
      <4>3. \A i, j \in 1 .. Len(CmTests) : place[i] = place[j] => i = j
        BY <3>2
      <4> HIDE DEF rows, place
      <4>4. DOMAIN place = 1 .. Len(CmTests)
        BY <4>1
      <4> QED
        BY <4>1, <4>2, <4>3, <4>4, Zenon DEF Bijection, Injection, Surjection, IsInjective
    <3>6. IsFiniteSet(1 .. Len(CmTests)) /\ Cardinality(1 .. Len(CmTests)) = Len(CmTests)
      <4> DEFINE n == Len(CmTests)
      <4>1. n \in Nat /\ n \in Int /\ 1 \in Int
        BY <2>1
      <4> HIDE DEF n, rows, place
      <4>2. IsFiniteSet(1 .. n) /\ Cardinality(1 .. n) = IF 1 > n THEN 0 ELSE n - 1 + 1
        BY <4>1, FS_Interval, Zenon
      <4>3. Cardinality(1 .. n) = n
        BY <4>1, <4>2
      <4> QED
        BY <4>2, <4>3 DEF n
    <3> HIDE DEF rows, place
    <3>7. ExistsBijection(1 .. Len(CmTests), rows)
      BY <3>5, Fun_ExistsBij, Zenon
    <3>8. Cardinality(rows) = Len(CmTests)
      BY <3>6, <3>7, FS_Bijection, Zenon
    <3> QED
      BY <3>8 DEF rows
  <2> QED
    BY <2>2, <2>5, <2>6, <2>7 DEF CmReportHonest
<1> QED
  BY <1>1, <1>2, <1>3, PTL DEF CmSpec

----------------------------------------------------------------------------
(***************************************************************************)
(* The files of gVisor's tests.  Every path ends in a number below the     *)
(* counter, so the next one is new; the directory exists from the first    *)
(* test on.  A transfer under way has counted exactly what moved.          *)
(***************************************************************************)
GvPaths ==
    /\ gv_number \in Nat /\ gv_files \subseteq Seq(Nat) /\ gv_dirs \subseteq Seq(Nat)
    /\ \A f \in gv_files : Len(f) > 0 /\ f[Len(f)] < gv_number
GvPlaces ==
    /\ gv_dir = "template" => gv_files = {}
    /\ gv_pc = "test" => gv_dir = "made"
    /\ gv_pc \in {"between", "ended"} => gv_self.open = FALSE
    /\ gv_pc = "ended" => gv_files = {} /\ gv_dir # "made"
    /\ gv_reopened = FALSE
GvIoRecords == [pc : {"none", "calling", "returned"}, want : Int, done : Int, moved : Int,
                eof : BOOLEAN, ret : Int]
GvIoType == gv_io \in GvIoRecords
GvCounts ==
    gv_io.pc = "calling" => gv_io.done = gv_io.moved /\ gv_io.done <= gv_io.want
GvIo == GvIoType /\ GvCounts /\ GvCountExact

\* A new path differs from all that exist.
LEMMA NewPathIsNew ==
  ASSUME GvPaths, NEW parent \in Seq(Nat)
  PROVE  /\ JoinPath(parent, gv_number) \notin gv_files
         /\ JoinPath(parent, gv_number) \in Seq(Nat)
         /\ Len(JoinPath(parent, gv_number)) > 0
         /\ JoinPath(parent, gv_number)[Len(JoinPath(parent, gv_number))] = gv_number
<1>1. /\ Append(parent, gv_number) \in Seq(Nat) /\ Len(Append(parent, gv_number)) = Len(parent) + 1
      /\ Append(parent, gv_number)[Len(parent) + 1] = gv_number /\ Len(parent) \in Nat
  BY DEF GvPaths
<1> DEFINE path == Append(parent, gv_number)
<1>2. path[Len(path)] = gv_number
  BY <1>1
<1>3. ASSUME path \in gv_files PROVE FALSE
  <2> HIDE DEF path
  <2>1. path[Len(path)] < gv_number /\ gv_number \in Nat
    BY <1>3 DEF GvPaths
  <2> QED
    BY <1>2, <2>1
<1> QED
  BY <1>1, <1>2, <1>3 DEF JoinPath

LEMMA MakesKeep ==
  ASSUME GvPaths, gv_reopened = FALSE, NEW parent \in Seq(Nat), NEW isDir,
         GvMake(JoinPath(parent, gv_number), isDir)
  PROVE  GvPaths' /\ gv_reopened' = FALSE
<1> DEFINE path == JoinPath(parent, gv_number)
<1>1. path \notin gv_files /\ path \in Seq(Nat) /\ Len(path) > 0 /\ path[Len(path)] = gv_number
  BY NewPathIsNew
<1> HIDE DEF path
<1>2. /\ gv_number' = gv_number + 1 /\ gv_files' = gv_files \cup {path}
      /\ gv_dirs' \in {gv_dirs, gv_dirs \cup {path}}
      /\ gv_reopened' = (gv_reopened \/ path \in gv_files)
  BY DEF GvMake, NextTempBasename, path
<1>3. GvPaths'
  BY <1>1, <1>2 DEF GvPaths
<1>4. gv_reopened' = FALSE
  BY <1>1, <1>2
<1> QED
  BY <1>3, <1>4

\* Only an empty directory can be removed.
LEMMA OnlyEmptyGoes ==
  ASSUME GvPaths, Removed(<<>>)
  PROVE  gv_files = {}
<1>1. \A f \in gv_files : f \in Seq(Nat) /\ f # <<>>
  BY DEF GvPaths
<1>2. ASSUME NEW f \in Seq(Nat) PROVE IsPrefix(<<>>, f)
  <2>1. SubSeq(<<>>, 1, 0) = <<>> /\ SubSeq(f, 1, 0) = <<>> /\ Len(<<>>) = 0 /\ Len(f) \in Nat
    OBVIOUS
  <2> QED
    BY <2>1 DEF IsPrefix
<1> QED
  BY <1>1, <1>2, Zenon DEF Removed, Removable

\* What happens to files.
LEMMA FilesKeep ==
  ASSUME GvPaths, GvPlaces, GvNext \/ UNCHANGED gvvars
  PROVE  GvPaths' /\ GvPlaces'
<1> DEFINE Going == gv_files' \subseteq gv_files /\ gv_dirs' \subseteq gv_dirs
                    /\ UNCHANGED <<gv_number, gv_reopened>>
<1>0. ASSUME Going PROVE GvPaths' /\ gv_reopened' = FALSE
  BY <1>0 DEF GvPaths, GvPlaces
<1>1. CASE GvSetUp
  <2>1. GvMake(JoinPath(<<>>, gv_number), FALSE) /\ gv_dir' = "made" /\ gv_pc' = "test"
    BY <1>1 DEF GvSetUp, NewTempAbsPathInDir
  <2>2. <<>> \in Seq(Nat)
    OBVIOUS
  <2>3. GvPaths' /\ gv_reopened' = FALSE
    BY <2>1, <2>2, MakesKeep DEF GvPlaces
  <2> QED
    BY <2>1, <2>3 DEF GvPlaces
<1>2. ASSUME NEW parent \in gv_dirs \cup {<<>>}, NEW isDir \in BOOLEAN, TempPath_CreateIn(parent, isDir)
      PROVE  GvPaths' /\ GvPlaces'
  <2>1. /\ GvMake(JoinPath(parent, gv_number), isDir) /\ gv_pc = "test"
        /\ UNCHANGED <<gv_dir, gv_self, gv_pc>>
    BY <1>2 DEF TempPath_CreateIn, NewTempAbsPathInDir
  <2>2. parent \in Seq(Nat)
    <3>1. <<>> \in Seq(Nat)
      OBVIOUS
    <3> QED
      BY <3>1, Zenon DEF GvPaths
  <2>3. GvPaths' /\ gv_reopened' = FALSE
    BY <2>1, <2>2, MakesKeep DEF GvPlaces
  <2> QED
    BY <2>1, <2>3 DEF GvPlaces
<1>3. ASSUME NEW path \in gv_files, TempPath_RemoveAndFreePath(path) PROVE GvPaths' /\ GvPlaces'
  <2>1. Going /\ gv_pc = "test" /\ gv_pc' \in {"test", "aborted"} /\ UNCHANGED gv_dir
    BY <1>3 DEF TempPath_RemoveAndFreePath
  <2> QED
    BY <1>0, <2>1 DEF GvPlaces
<1>4. CASE FileTest_UnlinkFile
  <2>1. Going /\ gv_pc = "test" /\ gv_pc' = "test" /\ UNCHANGED gv_dir
    BY <1>4 DEF FileTest_UnlinkFile
  <2> QED
    BY <1>0, <2>1 DEF GvPlaces
<1>5. CASE FileTest_TearDown
  <2>1. Going /\ gv_pc = "test" /\ gv_pc' = "between" /\ gv_self'.open = FALSE /\ UNCHANGED gv_dir
    BY <1>5 DEF FileTest_TearDown, NoFixture
  <2> QED
    BY <1>0, <2>1 DEF GvPlaces
<1>6. CASE GvTestFails
  <2>1. Going /\ gv_pc' = "aborted" /\ UNCHANGED <<gv_dir, gv_files>>
    BY <1>6 DEF GvTestFails, gvFiles
  <2> QED
    BY <1>0, <2>1 DEF GvPlaces
<1>7. CASE GvMainEnds
  <2>1. Going /\ gv_pc = "between" /\ UNCHANGED <<gv_files, gv_self>>
    BY <1>7 DEF GvMainEnds
  <2>2. \/ gv_pc' = "ended" /\ gv_dir = "template" /\ gv_dir' = "template"
        \/ gv_pc' = "ended" /\ gv_files = {} /\ gv_dir' = "removed"
        \/ gv_pc' = "aborted" /\ gv_dir' = gv_dir
    BY <1>7, OnlyEmptyGoes, Zenon DEF GvMainEnds
  <2> QED
    BY <1>0, <2>1, <2>2 DEF GvPlaces
<1>8. CASE UNCHANGED gvvars
           \/ (\E count \in 0 .. GvMaxCount : GvTransfer(count))
           \/ (\E cur \in -1 .. GvMaxCount, eintr \in BOOLEAN : GvCall(cur, eintr))
  <2>1. UNCHANGED <<gvFiles, gv_self, gv_pc>>
    BY <1>8, Zenon DEF GvTransfer, GvCall, gvvars
  <2> QED
    BY <1>0, <2>1 DEF GvPlaces, gvFiles
<1> QED
  BY <1>1, <1>2, <1>3, <1>4, <1>5, <1>6, <1>7, <1>8, Zenon DEF GvNext

\* A transfer after a call, field by field.
LEMMA ReturnFields ==
  ASSUME NEW io \in GvIoRecords, NEW ret \in Int,
         NEW after, after = [io EXCEPT !.pc = "returned", !.ret = ret]
  PROVE  after = [pc |-> "returned", want |-> io.want, done |-> io.done, moved |-> io.moved,
                  eof |-> io.eof, ret |-> ret]
  BY DEF GvIoRecords

\* What happens to transfers.
LEMMA TransfersKeep ==
  ASSUME GvIo, GvNext \/ UNCHANGED gvvars
  PROVE  GvIo'
<1>1. ASSUME NEW count \in 0 .. GvMaxCount, GvTransfer(count) PROVE GvIo'
  <2>1. gv_io' = [pc |-> "calling", want |-> count, done |-> 0, moved |-> 0, eof |-> FALSE, ret |-> 0]
    BY <1>1 DEF GvTransfer, NoTransfer
  <2> QED
    BY <2>1, GvAssumption DEF GvAssumption, GvIo, GvIoType, GvIoRecords, GvCounts, GvCountExact
<1>2. ASSUME NEW cur \in -1 .. GvMaxCount, NEW eintr \in BOOLEAN, GvCall(cur, eintr) PROVE GvIo'
  <2> DEFINE moved == gv_io.moved + (IF cur > 0 THEN cur ELSE 0)
             done == IF cur > 0 THEN gv_io.done + cur ELSE gv_io.done
             over == cur <= 0 \/ gv_io.done + cur >= gv_io.want
             eof == cur = 0
             ret == IF cur < 0 THEN -1 ELSE IF over THEN done ELSE gv_io.ret
  <2>0. cur \in Int /\ cur <= gv_io.want - gv_io.done /\ gv_io.pc = "calling"
    BY <1>2 DEF GvCall, GvIo, GvIoType, GvIoRecords, GvCounts, GvCountExact
  <2>1. gv_io' = [pc |-> IF over THEN "returned" ELSE "calling", want |-> gv_io.want, done |-> done,
                  moved |-> moved, eof |-> eof, ret |-> ret]
    <3> DEFINE after == [gv_io EXCEPT !.moved = moved, !.done = done, !.eof = eof]
    <3>1. gv_io' = IF cur < 0 THEN [after EXCEPT !.pc = "returned", !.ret = -1]
                   ELSE IF over THEN [after EXCEPT !.pc = "returned", !.ret = after.done]
                   ELSE after
      BY <1>2, <2>0 DEF GvCall, Completed
    <3>2. moved \in Int /\ done \in Int /\ eof \in BOOLEAN /\ -1 \in Int
      BY <2>0 DEF GvIo, GvIoType, GvIoRecords, GvCounts, GvCountExact
    <3>3. ret = IF cur < 0 THEN -1 ELSE IF over THEN done ELSE gv_io.ret
      OBVIOUS
    <3>4. cur < 0 => over
      BY <2>0
    <3> HIDE DEF moved, done, eof, over, ret
    <3>5. /\ after \in GvIoRecords
          /\ after = [pc |-> gv_io.pc, want |-> gv_io.want, done |-> done, moved |-> moved,
                      eof |-> eof, ret |-> gv_io.ret]
      <4>1. gv_io \in GvIoRecords
        BY DEF GvIo, GvIoType
      <4>2. after = [gv_io EXCEPT !.moved = moved, !.done = done, !.eof = eof]
        OBVIOUS
      <4> HIDE DEF after
      <4> QED
        BY <3>2, <4>1, <4>2 DEF GvIoRecords
    <3> HIDE DEF after
    <3>6. /\ after.want = gv_io.want /\ after.done = done /\ after.moved = moved /\ after.eof = eof
      BY <3>5
    <3>7. CASE cur < 0
      BY <3>1, <3>2, <3>3, <3>4, <3>5, <3>6, <3>7, ReturnFields
    <3>8. CASE ~(cur < 0) /\ over
      BY <3>1, <3>2, <3>3, <3>5, <3>6, <3>8, ReturnFields
    <3>9. CASE ~(cur < 0) /\ ~over
      BY <3>1, <3>3, <3>5, <3>9, <2>0
    <3> QED
      BY <3>7, <3>8, <3>9
  <2>2. eof \in BOOLEAN /\ moved \in Int /\ done \in Int /\ ret \in Int /\ moved = done /\ done <= gv_io.want
    BY <2>0 DEF GvIo, GvIoType, GvIoRecords, GvCounts, GvCountExact
  <2>3. over /\ ret >= 0 => ret = moved /\ (moved < gv_io.want => eof)
    BY <2>0 DEF GvIo, GvIoType, GvIoRecords, GvCounts, GvCountExact
  <2>4. /\ gv_io'.pc = (IF over THEN "returned" ELSE "calling") /\ gv_io'.want = gv_io.want
        /\ gv_io'.done = done /\ gv_io'.moved = moved /\ gv_io'.eof = eof /\ gv_io'.ret = ret
    BY <2>1
  <2> HIDE DEF moved, done, over, eof, ret
  <2>5. GvIoType'
    BY <2>0, <2>1, <2>2 DEF GvIo, GvIoType, GvIoRecords, GvCounts, GvCountExact
  <2> QED
    BY <2>2, <2>3, <2>4, <2>5 DEF GvIo, GvIoType, GvIoRecords, GvCounts, GvCountExact
<1>3. CASE \/ GvSetUp \/ FileTest_UnlinkFile \/ GvTestFails \/ GvMainEnds \/ UNCHANGED gvvars
           \/ \E parent \in gv_dirs \cup {<<>>}, isDir \in BOOLEAN : TempPath_CreateIn(parent, isDir)
           \/ \E path \in gv_files : TempPath_RemoveAndFreePath(path)
  <2>1. gv_io' = gv_io
    BY <1>3, Zenon DEF GvSetUp, FileTest_UnlinkFile, GvTestFails, GvMainEnds, gvvars,
                       TempPath_CreateIn, TempPath_RemoveAndFreePath
  <2> QED
    BY <2>1, Zenon DEF GvIo, GvIoType, GvIoRecords, GvCounts, GvCountExact
<1>4. CASE FileTest_TearDown
  BY <1>4 DEF FileTest_TearDown, NoTransfer, GvIo, GvIoType, GvIoRecords, GvCounts, GvCountExact
<1> QED
  BY <1>1, <1>2, <1>3, <1>4, Zenon DEF GvNext

\* A program of gVisor's tests that ends well leaves nothing, no path is handed out twice, and
\* transfers count truly (gvisor.h): for any number of files and tests and any counts.
THEOREM GvHelpersAreTrue == GvSpec => []GvHelpersHold
<1>1. GvInit => GvPaths /\ GvPlaces /\ GvIo
  BY DEF GvInit, GvPaths, GvPlaces, GvIo, GvIoType, GvIoRecords, GvCounts, GvCountExact, NoTransfer, NoFixture
<1>2. GvPaths /\ GvPlaces /\ GvIo /\ [GvNext]_gvvars => GvPaths' /\ GvPlaces' /\ GvIo'
  BY FilesKeep, TransfersKeep
<1>3. GvPaths /\ GvPlaces /\ GvIo => GvHelpersHold
  BY DEF GvPlaces, GvIo, GvHelpersHold, GvNothingLeft
<1> QED
  BY <1>1, <1>2, <1>3, PTL DEF GvSpec

----------------------------------------------------------------------------
(***************************************************************************)
(* glibc's test driver (support_test_main, glibc.h).  GlRoles: where the   *)
(* wrapper and its test are with respect to one another.  Nothing returns  *)
(* from a handler to the wait, so that what exits does not leave a test    *)
(* that could still be killed.                                             *)
(***************************************************************************)
GlPcs == {"prepare", "arm", "catch", "wait", "direct", "exiting", "deleting", "kill", "reap",
          "cleanup", "ended"}
GlProcesses == {"wrapper", "test"}
GlTempFiles == GlProcesses \X (1 .. GlMaxFiles)
GlRoles ==
    /\ gl_config \in GlConfigs /\ gl_faults \in Nat /\ gl_failed \in BOOLEAN
    /\ gl_child \in {"none", "new", "runs", "exiting", "dying", "zombie", "reaped"}
    /\ gl_pc \in GlPcs
    /\ gl_pc = "prepare" => gl_child = "none" /\ gl_sub = "none"
    /\ gl_pc = "direct" => gl_config.direct
    /\ gl_config.direct => /\ gl_child \in {"none", "runs"} /\ gl_caught = {}
                           /\ gl_pc \in {"prepare", "direct", "exiting", "deleting", "ended"}
    /\ gl_child = "new" => gl_sub = "none"
    /\ gl_pc \in {"reap", "cleanup", "exiting", "deleting"} \/ (gl_pc = "ended" /\ gl_exit[1] = "exit") =>
         ~Killable(gl_child)
    /\ gl_exit[1] = "exit" => gl_pc \in {"exiting", "deleting", "kill", "reap", "cleanup", "ended"}

\* Each list of temporary files has its owner's, and those of the parent at the fork.
GlKept ==
    /\ gl_lists \in [GlProcesses -> SUBSET GlTempFiles] /\ gl_files \in SUBSET GlTempFiles
    /\ gl_lists.wrapper \subseteq GlFilesOf("wrapper")
    /\ gl_config.direct \/ gl_child \in {"none", "new"} => GlFilesOf("test") = {}
    /\ gl_config.direct => gl_lists.test = {}
    /\ gl_faults = 0 => \A file \in gl_files : file \in gl_lists[file[1]]
    /\ GlFilesRemoved

\* How far the wrapper's exit function is: what has interrupted it for good was a handler,
\* which exits with 1.
GlExits ==
    /\ gl_atexit \in {"registered", "running", "done"}
    /\ gl_pc = "deleting" => gl_atexit = "running"
    /\ gl_atexit = "done" => gl_lists.wrapper = {}
    /\ gl_atexit # "registered" =>
         gl_pc \in {"exiting", "deleting", "kill", "reap", "cleanup", "ended"}
    /\ gl_pc \in {"kill", "reap", "cleanup"} => gl_sig # 0
    /\ /\ gl_atexit = "running"
       /\ gl_pc = "exiting" \/ (gl_pc = "ended" /\ gl_exit[1] = "exit")
       => gl_sig # 0 /\ gl_exit[2] = 1
    /\ gl_pc = "ended" /\ gl_exit[1] = "exit" => gl_atexit # "registered"

\* A captured subprocess outlives the test only where that was killed; a verdict of 0 or
\* 77 stays true after it was given.
GlJudged ==
    /\ gl_wait = <<gl_wait[1], gl_wait[2]>> /\ gl_wait[2] \in Nat /\ gl_wait[2] < 256
    /\ gl_sub = "runs" /\ gl_child # "runs" =>
         \/ gl_pc \in {"kill", "reap", "cleanup"}
         \/ gl_pc \in {"exiting", "deleting", "ended"} /\ gl_exit[2] \notin {0, 77}
    /\ gl_exit[1] = "exit" /\ gl_exit[2] \in {0, 77} /\ ~gl_config.direct =>
         /\ ~gl_failed /\ gl_child = "reaped" /\ gl_sub # "runs"
         /\ \/ gl_config.signal # 0 /\ gl_wait = <<"signal", gl_config.signal>>
            \/ gl_config.status # 0 /\ gl_wait = <<"exit", gl_config.status>>
            \/ gl_config.signal = 0 /\ gl_config.status = 0 /\ gl_wait = <<"exit", gl_exit[2]>>

\* What the subprocess was to write to a stream is stored, in the pipe or not yet written.
GlCount(q, s) == Cardinality({i \in DOMAIN q : q[i] = s})
GlPiped ==
    /\ gl_pipes \in [Streams -> 0 .. GlPipe] /\ gl_stored \in [Streams -> Nat]
    /\ gl_todo \in Seq(Streams) /\ gl_script \in Seq(Streams) /\ gl_events \in SUBSET Streams
    /\ gl_sub \in {"none", "runs", "dead", "reaped"}
    /\ gl_sub = "none" => \A s \in Streams : gl_pipes[s] = 0 /\ gl_stored[s] = 0
    /\ TestRuns /\ gl_sub = "dead" => gl_todo = <<>>
    /\ gl_faults = 0 /\ TestRuns =>
         /\ gl_sub = "runs" => gl_events = Streams
         /\ gl_sub = "dead" => \A s \in Streams \ gl_events : gl_pipes[s] = 0
         /\ gl_sub \in {"runs", "dead"} => \A s \in Streams :
              gl_stored[s] + gl_pipes[s] + GlCount(gl_todo, s) = GlCount(gl_script, s)
    /\ gl_faults = 0 /\ gl_sub = "reaped" => \A s \in Streams : gl_stored[s] = GlCount(gl_script, s)

GlIInv == GlRoles /\ GlKept /\ GlExits /\ GlJudged /\ GlPiped

\* The roles of wrapper and test, step by step (glibc.h 861-1019).
LEMMA GlRolesKeep ==
  ASSUME GlIInv, [GlNext]_glvars
  PROVE  GlRoles'
<1> USE GlAssumption DEF GlIInv, GlRoles, glParent, glChild, glTemp, glCapture,
           glQuiet, GlFault, GlExit, InBody, TestRuns, Killable, GlPcs, InTime,
           SIGINT, SIGALRM, SIGSEGV, SIGKILL
<1>1. CASE GlPrepare
  BY <1>1 DEF GlPrepare, CreateTemp
<1>2. CASE GlRefuse
  BY <1>2 DEF GlRefuse
<1>3. CASE GlDirect
  BY <1>3 DEF GlDirect
<1>4. CASE GlFork
  BY <1>4 DEF GlFork
<1>5. CASE GlArm
  BY <1>5 DEF GlArm
<1>6. CASE GlCatch
  BY <1>6 DEF GlCatch
<1>7. CASE GlWaited
  BY <1>7 DEF GlWaited, Expected, adjust_exit_status
<1>8. CASE ExitBegins \/ ExitDeletes \/ ExitDeleted \/ ExitLeaves
  BY <1>8 DEF ExitBegins, ExitDeletes, DeleteNext, ExitDeleted, ExitLeaves
<1>9. CASE HandlerKills
  BY <1>9 DEF HandlerKills
<1>10. CASE HandlerReaps
  BY <1>10 DEF HandlerReaps
<1>11. CASE HandlerEnds
  BY <1>11 DEF HandlerEnds
<1>12. CASE Alarm
  BY <1>12 DEF Alarm, Arrives
<1>13. CASE Interrupt
  BY <1>13 DEF Interrupt, Arrives
<1>14. CASE GlSetpgid
  BY <1>14 DEF GlSetpgid
<1>15. CASE GlRecords
  BY <1>15 DEF GlRecords
<1>16. CASE GlCreates
  BY <1>16 DEF GlCreates, CreateTemp
<1>17. CASE GlCrashes
  BY <1>17 DEF GlCrashes
<1>18. CASE GlTestDeletes \/ GlTestExits
  BY <1>18 DEF GlTestDeletes, DeleteNext, GlTestExits
<1>19. CASE GlDies
  BY <1>19 DEF GlDies
<1>20. CASE SubWrites
  BY <1>20 DEF SubWrites
<1>21. CASE SubRecords
  BY <1>21 DEF SubRecords
<1>22. CASE SubExits
  BY <1>22 DEF SubExits
<1>23. CASE CapturePoll
  <2>1. /\ UNCHANGED <<gl_config, glParent, glChild, glTemp, gl_sub>>
        /\ UNCHANGED gl_faults \/ GlFault
        /\ gl_failed' \in BOOLEAN
    BY <1>23, Zenon DEF CapturePoll
  <2> QED
    BY <2>1
<1>24. CASE CaptureEnds
  BY <1>24 DEF CaptureEnds
<1>25. CASE \E status \in {0, 1, 3, 77} : GlReturns(status)
  BY <1>25 DEF GlReturns, TestExit, Expected, adjust_exit_status
<1>26. CASE \E status \in {1, 77} : GlFailExit(status)
  BY <1>26 DEF GlFailExit, FailExit, TestExit
<1>27. ASSUME NEW script \in GlScripts, Capture(script) PROVE GlRoles'
  <2>1. CASE gl_sub' = "runs" /\ UNCHANGED <<gl_pc, gl_exit, gl_child, gl_wait, gl_failed, gl_faults>>
    BY <1>27, <2>1 DEF Capture
  <2>2. CASE GlFault /\ FailExit(1) /\ UNCHANGED gl_sub
    BY <1>27, <2>2 DEF Capture, FailExit, TestExit
  <2> QED
    BY <1>27, <2>1, <2>2 DEF Capture
<1>28. CASE UNCHANGED glvars
  BY <1>28 DEF glvars
<1> QED
  BY <1>1, <1>2, <1>3, <1>4, <1>5, <1>6, <1>7, <1>8, <1>9, <1>10, <1>11, <1>12, <1>13,
     <1>14, <1>15, <1>16, <1>17, <1>18, <1>19, <1>20, <1>21, <1>22, <1>23, <1>24, <1>25, <1>26,
     <1>27, <1>28
     DEF GlNext, GlWrapper, GlTest, GlCapture

\* The exit function, step by step (glibc.h 504-530, 728, 870).
LEMMA GlExitsKeep ==
  ASSUME GlIInv, [GlNext]_glvars
  PROVE  GlExits'
<1> USE GlAssumption DEF GlIInv, GlRoles, GlKept, GlProcesses, GlExits, glParent, glChild, glTemp, glCapture,
           glQuiet, GlFault, GlExit, InBody, TestRuns, Killable, GlPcs, InTime,
           SIGINT, SIGALRM, SIGSEGV, SIGKILL
<1>1. CASE GlPrepare
  BY <1>1 DEF GlPrepare, CreateTemp
<1>2. CASE GlRefuse
  BY <1>2 DEF GlRefuse
<1>3. CASE GlDirect
  BY <1>3 DEF GlDirect
<1>4. CASE GlFork
  BY <1>4 DEF GlFork
<1>5. CASE GlArm
  BY <1>5 DEF GlArm
<1>6. CASE GlCatch
  BY <1>6 DEF GlCatch
<1>7. CASE GlWaited
  BY <1>7 DEF GlWaited, Expected, adjust_exit_status
<1>8. CASE ExitBegins \/ ExitDeletes \/ ExitDeleted \/ ExitLeaves
  BY <1>8 DEF ExitBegins, ExitDeletes, DeleteNext, ExitDeleted, ExitLeaves
<1>9. CASE HandlerKills
  BY <1>9 DEF HandlerKills
<1>10. CASE HandlerReaps
  BY <1>10 DEF HandlerReaps
<1>11. CASE HandlerEnds
  BY <1>11 DEF HandlerEnds
<1>12. CASE Alarm
  BY <1>12 DEF Alarm, Arrives
<1>13. CASE Interrupt
  BY <1>13 DEF Interrupt, Arrives
<1>14. CASE GlSetpgid
  BY <1>14 DEF GlSetpgid
<1>15. CASE GlRecords
  BY <1>15 DEF GlRecords
<1>16. CASE GlCreates
  <2>1. gl_config.direct => gl_pc = "direct"
    BY <1>16 DEF GlCreates
  <2>2. UNCHANGED <<glParent, gl_config, gl_atexit>>
    BY <1>16 DEF GlCreates, CreateTemp
  <2>3. gl_config.direct \/ gl_lists'.wrapper = gl_lists.wrapper
    BY <1>16 DEF GlCreates, CreateTemp, Me
  <2> QED
    BY <2>1, <2>2, <2>3
<1>17. CASE GlCrashes
  BY <1>17 DEF GlCrashes
<1>18. CASE GlTestDeletes \/ GlTestExits
  BY <1>18 DEF GlTestDeletes, DeleteNext, GlTestExits
<1>19. CASE GlDies
  BY <1>19 DEF GlDies
<1>20. CASE SubWrites
  BY <1>20 DEF SubWrites
<1>21. CASE SubRecords
  BY <1>21 DEF SubRecords
<1>22. CASE SubExits
  BY <1>22 DEF SubExits
<1>23. CASE CapturePoll
  <2>1. /\ UNCHANGED <<gl_config, glParent, glChild, glTemp, gl_sub>>
        /\ UNCHANGED gl_faults \/ GlFault
        /\ gl_failed' \in BOOLEAN
    BY <1>23, Zenon DEF CapturePoll
  <2> QED
    BY <2>1
<1>24. CASE CaptureEnds
  BY <1>24 DEF CaptureEnds
<1>25. CASE \E status \in {0, 1, 3, 77} : GlReturns(status)
  BY <1>25 DEF GlReturns, TestExit, Expected, adjust_exit_status
<1>26. CASE \E status \in {1, 77} : GlFailExit(status)
  BY <1>26 DEF GlFailExit, FailExit, TestExit
<1>27. ASSUME NEW script \in GlScripts, Capture(script) PROVE GlExits'
  <2>1. CASE gl_sub' = "runs" /\ UNCHANGED <<gl_pc, gl_exit, gl_child, gl_wait, gl_failed, gl_faults>>
    BY <1>27, <2>1 DEF Capture
  <2>2. CASE GlFault /\ FailExit(1) /\ UNCHANGED gl_sub
    BY <1>27, <2>2 DEF Capture, FailExit, TestExit
  <2> QED
    BY <1>27, <2>1, <2>2 DEF Capture
<1>28. CASE UNCHANGED glvars
  BY <1>28 DEF glvars
<1> QED
  BY <1>1, <1>2, <1>3, <1>4, <1>5, <1>6, <1>7, <1>8, <1>9, <1>10, <1>11, <1>12, <1>13,
     <1>14, <1>15, <1>16, <1>17, <1>18, <1>19, <1>20, <1>21, <1>22, <1>23, <1>24, <1>25, <1>26,
     <1>27, <1>28
     DEF GlNext, GlWrapper, GlTest, GlCapture

\* The lists of temporary files, step by step (glibc.h 504-560).
LEMMA GlKeptKeep ==
  ASSUME GlIInv, [GlNext]_glvars
  PROVE  GlKept'
<1> USE GlAssumption DEF GlIInv, GlRoles, GlKept, GlFilesRemoved, GlFilesOf, Owns, GlTempFiles, GlExits, GlProcesses, Me,
           glParent, glChild, glTemp, glCapture, glQuiet, GlFault, GlExit, InBody, TestRuns, Killable, GlPcs, InTime,
           SIGINT, SIGALRM, SIGSEGV, SIGKILL
<1>1. CASE GlPrepare
  BY <1>1 DEF GlPrepare, CreateTemp
<1>2. CASE GlRefuse
  BY <1>2 DEF GlRefuse
<1>3. CASE GlDirect
  BY <1>3 DEF GlDirect
<1>4. CASE GlFork
  BY <1>4 DEF GlFork
<1>5. CASE GlArm
  BY <1>5 DEF GlArm
<1>6. CASE GlCatch
  BY <1>6 DEF GlCatch
<1>7. CASE GlWaited
  BY <1>7 DEF GlWaited, Expected, adjust_exit_status
<1>8. CASE ExitBegins \/ ExitDeletes \/ ExitDeleted \/ ExitLeaves
  BY <1>8 DEF ExitBegins, ExitDeletes, DeleteNext, ExitDeleted, ExitLeaves
<1>9. CASE HandlerKills
  BY <1>9 DEF HandlerKills
<1>10. CASE HandlerReaps
  BY <1>10 DEF HandlerReaps
<1>11. CASE HandlerEnds
  BY <1>11 DEF HandlerEnds
<1>12. CASE Alarm
  BY <1>12 DEF Alarm, Arrives
<1>13. CASE Interrupt
  BY <1>13 DEF Interrupt, Arrives
<1>14. CASE GlSetpgid
  BY <1>14 DEF GlSetpgid
<1>15. CASE GlRecords
  BY <1>15 DEF GlRecords
<1>16. CASE GlCreates
  BY <1>16 DEF GlCreates, CreateTemp
<1>17. CASE GlCrashes
  BY <1>17 DEF GlCrashes
<1>18. CASE GlTestDeletes \/ GlTestExits
  BY <1>18 DEF GlTestDeletes, DeleteNext, GlTestExits
<1>19. CASE GlDies
  BY <1>19 DEF GlDies
<1>20. CASE SubWrites
  BY <1>20 DEF SubWrites
<1>21. CASE SubRecords
  BY <1>21 DEF SubRecords
<1>22. CASE SubExits
  BY <1>22 DEF SubExits
<1>23. CASE CapturePoll
  <2>1. /\ UNCHANGED <<gl_config, glParent, glChild, glTemp, gl_sub>>
        /\ UNCHANGED gl_faults \/ GlFault
        /\ gl_failed' \in BOOLEAN
    BY <1>23, Zenon DEF CapturePoll
  <2> QED
    BY <2>1
<1>24. CASE CaptureEnds
  BY <1>24 DEF CaptureEnds
<1>25. CASE \E status \in {0, 1, 3, 77} : GlReturns(status)
  BY <1>25 DEF GlReturns, TestExit, Expected, adjust_exit_status
<1>26. CASE \E status \in {1, 77} : GlFailExit(status)
  BY <1>26 DEF GlFailExit, FailExit, TestExit
<1>27. CASE \E script \in GlScripts : Capture(script)
  BY <1>27 DEF Capture, FailExit, TestExit
<1>28. CASE UNCHANGED glvars
  BY <1>28 DEF glvars
<1> QED
  BY <1>1, <1>2, <1>3, <1>4, <1>5, <1>6, <1>7, <1>8, <1>9, <1>10, <1>11, <1>12, <1>13,
     <1>14, <1>15, <1>16, <1>17, <1>18, <1>19, <1>20, <1>21, <1>22, <1>23, <1>24, <1>25, <1>26,
     <1>27, <1>28
     DEF GlNext, GlWrapper, GlTest, GlCapture

\* An exit status is a byte.
LEMMA StatusByte == \A n \in Nat : n % 256 \in Nat /\ n % 256 < 256 /\ (n < 256 => n % 256 = n)
  OBVIOUS

\* The statuses, step by step.
LEMMA GlJudgedKeep ==
  ASSUME GlIInv, [GlNext]_glvars
  PROVE  GlJudged'
<1> USE GlAssumption DEF GlIInv, GlRoles, GlJudged, glParent, glChild, glTemp, glCapture,
           glQuiet, GlFault, GlExit, InBody, TestRuns, Killable, GlPcs, InTime,
           SIGINT, SIGALRM, SIGSEGV, SIGKILL
<1>1. CASE GlPrepare
  BY <1>1 DEF GlPrepare, CreateTemp
<1>2. CASE GlRefuse
  BY <1>2 DEF GlRefuse
<1>3. CASE GlDirect
  BY <1>3 DEF GlDirect
<1>4. CASE GlFork
  BY <1>4 DEF GlFork
<1>5. CASE GlArm
  BY <1>5 DEF GlArm
<1>6. CASE GlCatch
  BY <1>6 DEF GlCatch
<1>7. CASE GlWaited
  <2>1. /\ gl_pc = "wait" /\ gl_child = "zombie" /\ gl_child' = "reaped" /\ gl_exit[1] # "exit" /\ gl_sub # "runs"
        /\ gl_pc' = "exiting" /\ UNCHANGED <<gl_config, gl_wait, gl_failed, gl_sub>>
    BY <1>7 DEF GlWaited
  <2>2. CASE gl_wait[1] = "exit" /\ gl_config.status = 0 /\ gl_config.signal = 0
    <3>1. gl_exit' = <<"exit", adjust_exit_status(gl_wait[2]) % 256>>
      BY <1>7, <2>2 DEF GlWaited
    <3>2. gl_exit'[2] \in {0, 77} => ~gl_failed /\ gl_exit'[2] = gl_wait[2]
      BY <3>1, StatusByte DEF adjust_exit_status
    <3> QED
      BY <2>1, <2>2, <3>1, <3>2
  <2>3. CASE ~(gl_wait[1] = "exit" /\ gl_config.status = 0 /\ gl_config.signal = 0)
    <3>1. gl_exit' = <<"exit", (IF Expected THEN adjust_exit_status(0) ELSE 1) % 256>>
      BY <1>7, <2>3 DEF GlWaited
    <3>2. gl_exit'[2] \in {0, 77} => ~gl_failed /\ Expected
      BY <3>1, StatusByte DEF adjust_exit_status
    <3> QED
      BY <2>1, <3>1, <3>2 DEF Expected
  <2> QED
    BY <2>2, <2>3
<1>8. CASE ExitBegins \/ ExitDeletes \/ ExitDeleted \/ ExitLeaves
  BY <1>8 DEF ExitBegins, ExitDeletes, DeleteNext, ExitDeleted, ExitLeaves
<1>9. CASE HandlerKills
  BY <1>9 DEF HandlerKills
<1>10. CASE HandlerReaps
  BY <1>10 DEF HandlerReaps
<1>11. CASE HandlerEnds
  BY <1>11 DEF HandlerEnds
<1>12. CASE Alarm
  BY <1>12 DEF Alarm, Arrives
<1>13. CASE Interrupt
  BY <1>13 DEF Interrupt, Arrives
<1>14. CASE GlSetpgid
  BY <1>14 DEF GlSetpgid
<1>15. CASE GlRecords
  BY <1>15 DEF GlRecords
<1>16. CASE GlCreates
  BY <1>16 DEF GlCreates, CreateTemp
<1>17. CASE GlCrashes
  BY <1>17, StatusByte DEF GlCrashes
<1>18. CASE GlTestDeletes \/ GlTestExits
  BY <1>18 DEF GlTestDeletes, DeleteNext, GlTestExits
<1>19. CASE GlDies
  BY <1>19 DEF GlDies
<1>20. CASE SubWrites
  BY <1>20 DEF SubWrites
<1>21. CASE SubRecords
  BY <1>21 DEF SubRecords
<1>22. CASE SubExits
  BY <1>22 DEF SubExits
<1>23. CASE CapturePoll
  BY <1>23 DEF CapturePoll
<1>24. CASE CaptureEnds
  BY <1>24 DEF CaptureEnds
<1>25. CASE \E status \in {0, 1, 3, 77} : GlReturns(status)
  BY <1>25, StatusByte DEF GlReturns, TestExit, Expected, adjust_exit_status
<1>26. CASE \E status \in {1, 77} : GlFailExit(status)
  BY <1>26, StatusByte DEF GlFailExit, FailExit, TestExit
<1>27. CASE \E script \in GlScripts : Capture(script)
  BY <1>27, StatusByte DEF Capture, FailExit, TestExit
<1>28. CASE UNCHANGED glvars
  BY <1>28 DEF glvars
<1> QED
  BY <1>1, <1>2, <1>3, <1>4, <1>5, <1>6, <1>7, <1>8, <1>9, <1>10, <1>11, <1>12, <1>13,
     <1>14, <1>15, <1>16, <1>17, <1>18, <1>19, <1>20, <1>21, <1>22, <1>23, <1>24, <1>25, <1>26,
     <1>27, <1>28
     DEF GlNext, GlWrapper, GlTest, GlCapture

\* Where a stream is in a script.
GlAt(q, s) == {i \in DOMAIN q : q[i] = s}

LEMMA GlCountEmpty == \A s : GlCount(<<>>, s) = 0
<1> SUFFICES ASSUME NEW s PROVE GlCount(<<>>, s) = 0
  OBVIOUS
<1>1. {i \in DOMAIN <<>> : <<>>[i] = s} = {}
  OBVIOUS
<1> QED
  BY <1>1, FS_EmptySet DEF GlCount

\* What is written next is one less to write.
LEMMA GlCountHead ==
  ASSUME NEW q \in Seq(Streams), NEW s, q # <<>>
  PROVE  GlCount(Tail(q), s) \in Nat /\ GlCount(q, s) = GlCount(Tail(q), s) + (IF Head(q) = s THEN 1 ELSE 0)
<1> DEFINE t == Tail(q)
           Moved == [i \in GlAt(t, s) |-> i + 1]
<1>1. /\ t \in Seq(Streams) /\ Len(t) = Len(q) - 1 /\ Len(q) \in Nat \ {0} /\ Head(q) = q[1]
      /\ \A i \in 1 .. Len(t) : t[i] = q[i + 1]
  OBVIOUS
<1> HIDE DEF t
<1>2. GlAt(t, s) \subseteq Nat /\ DOMAIN t = 1 .. Len(t) /\ DOMAIN q = 1 .. Len(q)
  BY <1>1 DEF GlAt
<1>3. Moved \in Bijection(GlAt(t, s), GlAt(q, s) \ {1})
  <2>1. Moved \in [GlAt(t, s) -> GlAt(q, s) \ {1}]
    BY <1>1, <1>2 DEF GlAt
  <2>2. \A a, b \in GlAt(t, s) : Moved[a] = Moved[b] => a = b
    BY <1>2
  <2>3. \A c \in GlAt(q, s) \ {1} : \E a \in GlAt(t, s) : Moved[a] = c
    <3> SUFFICES ASSUME NEW c \in GlAt(q, s) \ {1} PROVE c - 1 \in GlAt(t, s) /\ Moved[c - 1] = c
      OBVIOUS
    <3>1. c \in 2 .. Len(q) /\ q[c] = s
      BY <1>1, <1>2 DEF GlAt
    <3>2. c - 1 \in 1 .. Len(t) /\ t[c - 1] = q[c]
      BY <1>1, <3>1
    <3> QED
      BY <1>2, <3>1, <3>2 DEF GlAt
  <2> QED
    BY <2>1, <2>2, <2>3, Fun_IsBij
<1>4. IsFiniteSet(GlAt(q, s)) /\ IsFiniteSet(GlAt(t, s))
  <2>1. IsFiniteSet(1 .. Len(q)) /\ IsFiniteSet(1 .. Len(t))
    BY <1>1, FS_Interval
  <2> QED
    BY <1>2, <2>1, FS_Subset DEF GlAt
<1>5. Cardinality(GlAt(q, s) \ {1}) = Cardinality(GlAt(t, s))
  BY <1>3, <1>4, FS_Bijection DEF ExistsBijection
<1>6. Cardinality(GlAt(q, s) \ {1}) = IF 1 \in GlAt(q, s) THEN Cardinality(GlAt(q, s)) - 1 ELSE Cardinality(GlAt(q, s))
  BY <1>4, FS_RemoveElement
<1>7. Cardinality(GlAt(t, s)) \in Nat /\ Cardinality(GlAt(q, s)) \in Nat
  BY <1>4, FS_CardinalityType
<1>8. 1 \in GlAt(q, s) <=> Head(q) = s
  BY <1>1, <1>2 DEF GlAt
<1>9. GlCount(q, s) = Cardinality(GlAt(q, s)) /\ GlCount(t, s) = Cardinality(GlAt(t, s))
  BY DEF GlCount, GlAt
<1> QED
  BY <1>5, <1>6, <1>7, <1>8, <1>9 DEF t

LEMMA GlCountIsNat ==
  ASSUME NEW q \in Seq(Streams), NEW s
  PROVE  GlCount(q, s) \in Nat
<1>1. CASE q = <<>>
  BY <1>1, GlCountEmpty
<1>2. CASE q # <<>>
  BY <1>2, GlCountHead
<1> QED
  BY <1>1, <1>2

LEMMA GlPipesCount ==
  ASSUME GlIInv
  PROVE  \A s \in Streams : gl_pipes[s] \in Nat /\ gl_stored[s] \in Nat
<1>1. gl_pipes \in [Streams -> 0 .. GlPipe] /\ gl_stored \in [Streams -> Nat]
  BY DEF GlIInv, GlPiped
<1> QED
  BY <1>1, GlAssumption

LEMMA GlWriteMoves ==
  ASSUME GlIInv, gl_todo # <<>>, gl_todo' = Tail(gl_todo), gl_stored' = gl_stored,
         NEW h \in Streams, h = Head(gl_todo), gl_pipes' = [gl_pipes EXCEPT ![h] = @ + 1],
         NEW s \in Streams
  PROVE  gl_stored'[s] + gl_pipes'[s] + GlCount(gl_todo', s) = gl_stored[s] + gl_pipes[s] + GlCount(gl_todo, s)
<1>1. gl_todo \in Seq(Streams) /\ gl_pipes \in [Streams -> 0 .. GlPipe]
  BY DEF GlIInv, GlPiped
<1>2. GlCount(gl_todo', s) \in Nat /\ GlCount(gl_todo, s) = GlCount(gl_todo', s) + (IF h = s THEN 1 ELSE 0)
  BY <1>1, GlCountHead
<1>3. gl_pipes[s] \in Nat /\ gl_stored[s] \in Nat
  BY GlPipesCount
<1>4. gl_pipes'[s] = IF h = s THEN gl_pipes[s] + 1 ELSE gl_pipes[s]
  BY <1>1
<1>5. gl_stored'[s] = gl_stored[s]
  OBVIOUS
<1>6. CASE h = s
  BY <1>2, <1>3, <1>4, <1>5, <1>6, SMTT(30)
<1>7. CASE h # s
  BY <1>2, <1>3, <1>4, <1>5, <1>7
<1> QED
  BY <1>6, <1>7

\* The pipes, step by step: what leaves one is stored, also at the end of the subprocess.
LEMMA GlPipedKeep ==
  ASSUME GlIInv, [GlNext]_glvars
  PROVE  GlPiped'
<1> USE GlAssumption DEF GlIInv, GlRoles, GlPiped, glParent, glChild, glTemp, glCapture,
           glQuiet, GlFault, GlExit, InBody, TestRuns, Killable
<1>1. CASE UNCHANGED glCapture /\ gl_faults' \in {gl_faults, gl_faults + 1} /\ (TestRuns' => TestRuns \/ gl_sub = "none")
  BY <1>1
<1>2. CASE GlPrepare
  BY <1>1, <1>2 DEF GlPrepare, CreateTemp
<1>3. CASE GlRefuse
  BY <1>1, <1>3 DEF GlRefuse
<1>4. CASE GlDirect
  BY <1>1, <1>4 DEF GlDirect
<1>5. CASE GlFork
  BY <1>1, <1>5 DEF GlFork
<1>6. CASE GlArm \/ GlCatch
  BY <1>1, <1>6 DEF GlArm, GlCatch
<1>7. CASE GlWaited
  BY <1>1, <1>7 DEF GlWaited
<1>8. CASE ExitBegins \/ ExitDeletes \/ ExitDeleted \/ ExitLeaves
  BY <1>1, <1>8 DEF ExitBegins, ExitDeletes, DeleteNext, ExitDeleted, ExitLeaves
<1>9. CASE HandlerKills
  BY <1>9 DEF HandlerKills
<1>10. CASE HandlerReaps
  BY <1>1, <1>10 DEF HandlerReaps
<1>11. CASE HandlerEnds
  BY <1>1, <1>11 DEF HandlerEnds
<1>12. CASE Alarm \/ Interrupt
  BY <1>1, <1>12 DEF Alarm, Interrupt, Arrives
<1>13. CASE GlSetpgid
  BY <1>1, <1>13 DEF GlSetpgid
<1>14. CASE GlRecords \/ GlCreates
  BY <1>1, <1>14 DEF GlRecords, GlCreates, CreateTemp
<1>15. CASE GlCrashes
  BY <1>1, <1>15 DEF GlCrashes
<1>16. CASE GlTestDeletes \/ GlTestExits \/ GlDies
  BY <1>1, <1>16 DEF GlTestDeletes, DeleteNext, GlTestExits, GlDies
<1>17. CASE \E status \in {0, 1, 3, 77} : GlReturns(status)
  BY <1>1, <1>17 DEF GlReturns, TestExit
<1>18. CASE \E status \in {1, 77} : GlFailExit(status)
  BY <1>1, <1>18 DEF GlFailExit, FailExit, TestExit
<1>19. ASSUME NEW script \in GlScripts, Capture(script) PROVE GlPiped'
  <2>1. CASE gl_sub' = "runs" /\ UNCHANGED <<gl_pc, gl_child, gl_faults>>
    <3>1. gl_todo' = script /\ gl_script' = script /\ gl_events' = Streams /\ UNCHANGED <<gl_pipes, gl_stored>>
      BY <1>19, <2>1 DEF Capture
    <3>2. script \in Seq(Streams) /\ gl_sub = "none"
      BY <1>19 DEF Capture
    <3>3. \A s \in Streams : GlCount(script, s) \in Nat
      BY <3>2, GlCountIsNat
    <3> QED
      BY <2>1, <3>1, <3>2, <3>3
  <2>2. CASE GlFault /\ FailExit(1) /\ UNCHANGED <<gl_sub, gl_todo, gl_script, gl_events>>
    BY <1>1, <1>19, <2>2 DEF Capture, FailExit, TestExit
  <2> QED
    BY <1>19, <2>1, <2>2 DEF Capture
<1>20. CASE SubWrites
  <2>1. CASE TestRuns
    <3>1. PICK h \in Streams : h = Head(gl_todo)
      BY <1>20 DEF SubWrites
    <3>2. /\ gl_pipes[h] < GlPipe /\ gl_pipes' = [gl_pipes EXCEPT ![h] = @ + 1]
          /\ gl_todo' = Tail(gl_todo) /\ gl_sub' = "runs" /\ gl_sub = "runs" /\ gl_todo # <<>>
          /\ UNCHANGED <<gl_config, glParent, glChild, gl_faults, gl_events, gl_stored, gl_script>>
      BY <1>20, <2>1, <3>1 DEF SubWrites
    <3>3. gl_pipes' \in [Streams -> 0 .. GlPipe]
      <4>1. gl_pipes \in [Streams -> 0 .. GlPipe] /\ GlPipe \in Nat
        BY GlAssumption DEF GlIInv, GlPiped
      <4> HIDE DEF GlIInv
      <4>2. gl_pipes[h] \in 0 .. GlPipe /\ gl_pipes[h] + 1 \in 0 .. GlPipe
        BY <3>2, <4>1
      <4> QED
        BY <3>2, <4>1, <4>2
    <3>5. gl_todo' \in Seq(Streams)
      BY <3>2, HeadTailProperties DEF GlIInv, GlPiped
    <3>4. \A s \in Streams :
            gl_stored'[s] + gl_pipes'[s] + GlCount(gl_todo', s) = gl_stored[s] + gl_pipes[s] + GlCount(gl_todo, s)
      BY <3>1, <3>2, GlWriteMoves
    <3> QED
      BY <2>1, <3>2, <3>3, <3>4, <3>5
  <2>2. CASE ~TestRuns
    BY <1>20, <2>2 DEF SubWrites
  <2> QED
    BY <2>1, <2>2
<1>21. CASE SubRecords
  BY <1>1, <1>21 DEF SubRecords
<1>22. CASE SubExits
  BY <1>22 DEF SubExits
<1>23. CASE CapturePoll
  <2> DEFINE Reads(unreadable, s) == Ready(s) /\ gl_pipes[s] > 0 /\ s \notin unreadable
  <2>1. /\ TestRuns /\ gl_sub \in {"runs", "dead"}
        /\ UNCHANGED <<gl_config, glParent, glChild, gl_sub, gl_todo, gl_script>>
    BY <1>23 DEF CapturePoll
  <2>2. PICK unreadable : /\ Transfer(unreadable)
                          /\ \/ unreadable = {} /\ UNCHANGED gl_faults
                             \/ gl_faults' = gl_faults + 1
    BY <1>23 DEF CapturePoll
  <2>3. /\ gl_pipes' = [s \in Streams |-> gl_pipes[s] - (IF Reads(unreadable, s) THEN 1 ELSE 0)]
        /\ gl_stored' = [s \in Streams |-> gl_stored[s] + (IF Reads(unreadable, s) THEN 1 ELSE 0)]
        /\ gl_events' = {s \in gl_events : Ready(s) => Reads(unreadable, s)}
    BY <2>2 DEF Transfer
  <2>4. \A s \in Streams : Reads(unreadable, s) => gl_pipes[s] > 0
    OBVIOUS
  <2>5. \A s \in gl_events : Ready(s) /\ ~Reads({}, s) => gl_sub = "dead" /\ gl_pipes[s] = 0
    BY DEF Ready
  <2> HIDE DEF Reads
  <2>6. gl_pipes' \in [Streams -> 0 .. GlPipe] /\ gl_stored' \in [Streams -> Nat] /\ gl_events' \in SUBSET Streams
    BY <2>3, <2>4
  <2>7. ASSUME NEW s \in Streams
        PROVE  gl_stored'[s] + gl_pipes'[s] = gl_stored[s] + gl_pipes[s] /\ (gl_pipes[s] = 0 => gl_pipes'[s] = 0)
    <3>1. gl_pipes[s] \in Nat /\ gl_stored[s] \in Nat
      BY GlPipesCount
    <3>2. CASE Reads(unreadable, s)
      BY <2>3, <2>4, <3>1, <3>2, SMTT(30)
    <3>3. CASE ~Reads(unreadable, s)
      BY <2>3, <3>1, <3>3
    <3> QED
      BY <3>2, <3>3
  <2>8. gl_faults' = 0 => gl_faults = 0 /\ unreadable = {}
    BY <2>2
  <2>9. gl_faults' = 0 /\ gl_sub = "runs" => gl_events' = Streams
    BY <2>1, <2>3, <2>5, <2>8
  <2>10. ASSUME gl_faults' = 0, gl_sub = "dead", NEW s \in Streams \ gl_events' PROVE gl_pipes'[s] = 0
    <3>1. gl_pipes[s] = 0
      BY <2>1, <2>3, <2>5, <2>8, <2>10
    <3> QED
      BY <2>7, <3>1
  <2>11. gl_faults' = 0 => \A s \in Streams :
           gl_stored'[s] + gl_pipes'[s] + GlCount(gl_todo', s) = GlCount(gl_script', s)
    BY <2>1, <2>7, <2>8
  <2> QED
    BY <2>1, <2>6, <2>8, <2>9, <2>10, <2>11
<1>24. CASE CaptureEnds
  <2>1. /\ TestRuns /\ gl_sub = "dead" /\ gl_events = {} /\ gl_sub' = "reaped"
        /\ UNCHANGED <<gl_faults, gl_todo, gl_pipes, gl_events, gl_stored, gl_script>>
    BY <1>24 DEF CaptureEnds
  <2>2. gl_faults = 0 => \A s \in Streams : gl_stored[s] = GlCount(gl_script, s)
    <3> SUFFICES ASSUME gl_faults = 0, NEW s \in Streams PROVE gl_stored[s] = GlCount(gl_script, s)
      OBVIOUS
    <3>1. gl_pipes[s] = 0 /\ gl_todo = <<>> /\ gl_stored[s] + gl_pipes[s] + GlCount(gl_todo, s) = GlCount(gl_script, s)
      BY <2>1
    <3> QED
      BY <3>1, GlCountEmpty
  <2> QED
    BY <2>1, <2>2
<1>25. CASE UNCHANGED glvars
  BY <1>1, <1>25 DEF glvars
<1> QED
  BY <1>2, <1>3, <1>4, <1>5, <1>6, <1>7, <1>8, <1>9, <1>10, <1>11, <1>12, <1>13, <1>14,
     <1>15, <1>16, <1>17, <1>18, <1>19, <1>20, <1>21, <1>22, <1>23, <1>24, <1>25
     DEF GlNext, GlWrapper, GlTest, GlCapture

\* The parts are kept together: each needs the roles.
THEOREM GlInvariant == GlSpec => []GlIInv
<1>1. GlInit => GlIInv
  <2> SUFFICES ASSUME GlInit PROVE GlIInv
    OBVIOUS
  <2>1. GlRoles
    BY DEF GlInit, GlRoles, GlPcs, Killable
  <2>2. GlKept
    BY DEF GlInit, GlKept, GlFilesRemoved, GlFilesOf, GlProcesses, Killable
  <2>5. GlExits
    BY DEF GlInit, GlExits
  <2>3. GlJudged
    BY DEF GlInit, GlJudged
  <2>4. GlPiped
    BY GlAssumption DEF GlInit, GlPiped, TestRuns
  <2> QED
    BY <2>1, <2>2, <2>3, <2>4, <2>5 DEF GlIInv
<1>2. GlIInv /\ [GlNext]_glvars => GlIInv'
  BY GlRolesKeep, GlExitsKeep, GlKeptKeep, GlJudgedKeep, GlPipedKeep DEF GlIInv
<1> QED
  BY <1>1, <1>2, PTL DEF GlSpec

(***************************************************************************)
(* The wrapper's status and the captured output are true, whatever the     *)
(* test, its subprocess, the time limit and the user do, for every         *)
(* expected status and signal, any script, any size of the pipes and any   *)
(* number of failing calls (support_test_main, signal_handler and          *)
(* support_capture_subprocess, glibc.h).                                   *)
(***************************************************************************)
THEOREM GlReportsAreTrue == GlSpec => []GlReportsTrue
<1>1. GlIInv => GlVerdictHonest
  BY DEF GlIInv, GlRoles, GlJudged, GlVerdictHonest, Killable
<1>2. GlIInv => GlCaptured
  BY GlAssumption DEF GlIInv, GlPiped, GlCaptured, Ready, GlCount
<1> QED
  BY <1>1, <1>2, GlInvariant, PTL DEF GlReportsTrue

\* Likewise: each process that exits has removed the temporary files that it made and
\* registered, and nobody removes another's; only a wrapper that its handler interrupts at
\* the removing leaves files, and reports a failure (support_delete_temp_files, glibc.h:505).
THEOREM GlFilesGo == GlSpec => []GlFilesRemoved
<1>1. GlIInv => GlFilesRemoved
  BY DEF GlIInv, GlKept
<1> QED
  BY <1>1, GlInvariant, PTL
----------------------------------------------------------------------------
(***************************************************************************)
(* z88dk's suites (suite_run, z88dk.h).  What was counted and told is that *)
(* of the tests before the one that runs; of that one, either no assertion *)
(* failed before where it is, or its first failure is noted and only the   *)
(* teardown is left, entered once.                                         *)
(***************************************************************************)
ZkPlaces == {"setup", "test", "teardown"}
ZkBad(t) == \E p \in ZkPlaces : ZkFails(t[p])
\* The first part of a test that fails.
ZkFirst(t, p) ==
    /\ p \in ZkPlaces /\ ZkFails(t[p])
    /\ p \in {"test", "teardown"} => ~ZkFails(t.setup)
    /\ p = "teardown" => ~ZkFails(t.test)
ZkBadUpTo(n) == {j \in DOMAIN zk_suite : j <= n /\ ZkBad(zk_suite[j])}
ZkMessages == {<<>>} \cup (ZkPlaces \X Nat)

ZkPcs == {"begin", "calling", "protected", "ended"}
ZkReports == Seq([message : ZkMessages, also : BOOLEAN])
ZkNumbers == Nat \ {0}
ZkStages == 0 .. 3
ZkStatuses == {0, 1}
ZkTorns == [DOMAIN zk_suite -> Nat]
ZkStates ==
    [pc : ZkPcs, i : ZkNumbers, stage : ZkStages, at : ZkNumbers, failed_message : ZkMessages, passed : Nat,
     failed : Nat, status : ZkStatuses, reports : ZkReports, torn : ZkTorns]

ZkTyped ==
    /\ zk_suite \in Seq(ZkTest)
    /\ zk \in ZkStates
    /\ zk.i <= Len(zk_suite) + 1
    /\ zk.pc \in {"calling", "protected"} => zk.i \in DOMAIN zk_suite /\ zk.stage <= 2
    /\ zk.pc = "ended" => zk.i = Len(zk_suite) + 1

\* The tests that are over.
ZkCounted ==
    /\ zk.failed = Cardinality(ZkBadUpTo(zk.i - 1)) /\ zk.passed + zk.failed = zk.i - 1
    /\ zk.pc = "ended" => zk.status = IF zk.failed # 0 THEN 1 ELSE 0
ZkTold ==
    /\ Len(zk.reports) = zk.failed
    /\ \A n \in DOMAIN zk.reports : \E j \in ZkBadUpTo(zk.i - 1) :
         /\ Cardinality(ZkBadUpTo(j)) = n
         /\ ZkFirst(zk_suite[j], zk.reports[n].message[1])
ZkTorn ==
    \A j \in DOMAIN zk_suite : zk_suite[j].teardown # <<>> =>
        /\ j < zk.i => zk.torn[j] = 1
        /\ j > zk.i => zk.torn[j] = 0
        /\ j = zk.i => zk.torn[j] = IF zk.pc \in {"calling", "protected"} /\ PartOf(zk.stage) = "teardown" /\ zk.at > 1
                                    THEN 1 ELSE 0

\* The test that runs: nothing failed before where it is, or its first failure is noted.
ZkAtNow ==
    /\ zk.pc \in {"calling", "protected"} =>
         /\ zk.at <= Len(Calls(zk.stage)) + 1
         /\ \A k \in 1 .. zk.at - 1 : Calls(zk.stage)[k]
    /\ zk.pc = "calling" =>
         /\ zk.failed_message = <<>>
         /\ zk.stage > 0 => ~ZkFails(RunningTest.setup)
         /\ zk.stage > 1 => ~ZkFails(RunningTest.test)
    /\ zk.pc = "protected" =>
         /\ zk.stage < 2 /\ zk.failed_message # <<>> /\ ZkFirst(RunningTest, zk.failed_message[1])

ZkIInv == ZkTyped /\ ZkCounted /\ ZkTold /\ ZkTorn /\ ZkAtNow

LEMMA ZkTests ==
  ASSUME ZkTyped
  PROVE  /\ Len(zk_suite) \in Nat /\ DOMAIN zk_suite = 1 .. Len(zk_suite)
         /\ \A j \in DOMAIN zk_suite : \A p \in ZkPlaces : zk_suite[j][p] \in Seq(BOOLEAN)
<1>1. Len(zk_suite) \in Nat /\ DOMAIN zk_suite = 1 .. Len(zk_suite) /\ \A j \in DOMAIN zk_suite : zk_suite[j] \in ZkTest
  BY DEF ZkTyped
<1>2. \A t \in ZkTest : \A p \in ZkPlaces : t[p] \in Seq(BOOLEAN)
  BY DEF ZkTest, ZkPlaces
<1> QED
  BY <1>1, <1>2

\* A part fails where one of its assertions does.
LEMMA PartFails ==
  ASSUME NEW part \in Seq(BOOLEAN)
  PROVE  ZkFails(part) <=> \E k \in 1 .. Len(part) : ~part[k]
<1>1. DOMAIN part = 1 .. Len(part) /\ \A k \in 1 .. Len(part) : part[k] \in BOOLEAN
  OBVIOUS
<1>2. ZkFails(part) <=> \E k \in DOMAIN part : part[k] = FALSE
  BY Zenon DEF ZkFails, Range
<1> QED
  BY <1>1, <1>2

\* How many tests failed up to a number.
LEMMA BadNext ==
  ASSUME ZkTyped, NEW n \in DOMAIN zk_suite
  PROVE  /\ IsFiniteSet(ZkBadUpTo(n)) /\ Cardinality(ZkBadUpTo(n)) \in Nat
         /\ Cardinality(ZkBadUpTo(n)) = Cardinality(ZkBadUpTo(n - 1)) + (IF ZkBad(zk_suite[n]) THEN 1 ELSE 0)
<1>1. Len(zk_suite) \in Nat /\ DOMAIN zk_suite = 1 .. Len(zk_suite)
  BY ZkTests
<1>2. IsFiniteSet(1 .. Len(zk_suite))
  BY <1>1, FS_Interval
<1>3. \A m : ZkBadUpTo(m) \subseteq 1 .. Len(zk_suite)
  BY <1>1 DEF ZkBadUpTo
<1>4. \A m : IsFiniteSet(ZkBadUpTo(m)) /\ Cardinality(ZkBadUpTo(m)) \in Nat
  BY <1>2, <1>3, FS_Subset, FS_CardinalityType
<1>5. CASE ZkBad(zk_suite[n])
  <2>1. ZkBadUpTo(n) = ZkBadUpTo(n - 1) \cup {n} /\ n \notin ZkBadUpTo(n - 1)
    BY <1>1, <1>5 DEF ZkBadUpTo
  <2>2. Cardinality(ZkBadUpTo(n - 1) \cup {n}) = Cardinality(ZkBadUpTo(n - 1)) + 1
    BY <1>4, <2>1, FS_AddElement
  <2> QED
    BY <1>4, <1>5, <2>1, <2>2
<1>6. CASE ~ZkBad(zk_suite[n])
  <2>1. ZkBadUpTo(n) = ZkBadUpTo(n - 1)
    BY <1>1, <1>6 DEF ZkBadUpTo
  <2> QED
    BY <1>4, <1>6, <2>1
<1> QED
  BY <1>5, <1>6

LEMMA ZkFields ==
  ASSUME NEW s \in ZkStates
  PROVE  /\ s.pc \in ZkPcs /\ s.i \in Nat \ {0} /\ s.stage \in 0 .. 3 /\ s.at \in Nat \ {0}
         /\ s.failed_message \in ZkMessages /\ s.passed \in Nat /\ s.failed \in Nat /\ s.status \in {0, 1}
         /\ s.reports \in ZkReports /\ s.torn \in [DOMAIN zk_suite -> Nat]
  BY DEF ZkStates, ZkNumbers, ZkStages, ZkStatuses, ZkTorns

LEMMA ReportedIs ==
  ASSUME NEW s \in ZkStates
  PROVE  /\ Reported(s) \in ZkStates
         /\ Reported(s).pc = "begin" /\ Reported(s).i = s.i + 1 /\ Reported(s).failed = s.failed + 1
         /\ Reported(s).passed = s.passed /\ Reported(s).status = s.status /\ Reported(s).torn = s.torn
         /\ Reported(s).reports = Append(s.reports, [message |-> s.failed_message, also |-> s.stage = 3])
<1> DEFINE e == [message |-> s.failed_message, also |-> s.stage = 3]
           r == Append(s.reports, e)
           t == Reported(s)
<1>1. r \in ZkReports
  <2>1. e \in [message : ZkMessages, also : BOOLEAN]
    BY ZkFields
  <2> HIDE DEF e
  <2> QED
    BY <2>1, ZkFields, AppendProperties DEF ZkReports
<1>2. t = [s EXCEPT !.pc = "begin", !.failed = @ + 1, !.i = @ + 1, !.reports = r]
  BY DEF Reported
<1>3. s.i + 1 \in ZkNumbers /\ s.failed + 1 \in Nat /\ "begin" \in ZkPcs
  BY ZkFields DEF ZkPcs, ZkNumbers
<1> HIDE DEF r, t
<1>4. /\ t \in ZkStates /\ t.pc = "begin" /\ t.i = s.i + 1 /\ t.failed = s.failed + 1
      /\ t.passed = s.passed /\ t.status = s.status /\ t.torn = s.torn /\ t.reports = r
  BY <1>1, <1>2, <1>3 DEF ZkStates
<1> QED
  BY <1>4 DEF r, t

\* Where the parts are.
LEMMA PartsAre ==
  ASSUME ZkTyped, zk.pc \in {"calling", "protected"}
  PROVE  /\ PartOf(zk.stage) \in ZkPlaces /\ RunningTest = zk_suite[zk.i] /\ zk.i \in DOMAIN zk_suite
         /\ Calls(zk.stage) = RunningTest[PartOf(zk.stage)] /\ Calls(zk.stage) \in Seq(BOOLEAN)
         /\ zk.pc = "protected" => PartOf(zk.stage) = "teardown"
         /\ zk.pc = "calling" => \/ zk.stage = 0 /\ PartOf(zk.stage) = "setup"
                                 \/ zk.stage = 1 /\ PartOf(zk.stage) = "test"
                                 \/ zk.stage = 2 /\ PartOf(zk.stage) = "teardown"
<1>1. zk.stage \in {0, 1, 2} /\ zk.i \in DOMAIN zk_suite
  BY ZkFields DEF ZkTyped
<1>2. Parts[1] = "setup" /\ Parts[2] = "test" /\ Parts[3] = "teardown"
  BY DEF Parts
<1>3. PartOf(zk.stage) \in ZkPlaces
  BY <1>1, <1>2 DEF PartOf, ZkPlaces
<1> QED
  BY <1>1, <1>2, <1>3, ZkTests DEF PartOf, RunningTest, Calls

\* What an assertion does.
LEMMA AssertIs ==
  ASSUME ZkTyped, ZkAssert
  PROVE  /\ zk.pc \in {"calling", "protected"} /\ zk.at <= Len(Calls(zk.stage)) /\ zk_suite' = zk_suite
         /\ zk' \in ZkStates /\ zk'.passed = zk.passed /\ zk'.status = zk.status
         /\ \A j \in DOMAIN zk_suite :
              zk'.torn[j] = IF j = zk.i /\ PartOf(zk.stage) = "teardown" /\ zk.at = 1 THEN zk.torn[j] + 1 ELSE zk.torn[j]
         /\ \/ /\ Calls(zk.stage)[zk.at] /\ zk'.at = zk.at + 1 /\ zk'.pc = zk.pc /\ zk'.i = zk.i
               /\ zk'.stage = zk.stage /\ zk'.failed = zk.failed /\ zk'.reports = zk.reports
               /\ zk'.failed_message = zk.failed_message
            \/ /\ ~Calls(zk.stage)[zk.at] /\ zk.pc = "calling" /\ zk.stage < 2
               /\ zk'.pc = "protected" /\ zk'.at = 1 /\ zk'.i = zk.i
               /\ zk'.stage = zk.stage /\ zk'.failed = zk.failed /\ zk'.reports = zk.reports
               /\ zk'.failed_message = IF zk.failed_message = <<>> THEN <<PartOf(zk.stage), zk.at>> ELSE zk.failed_message
            \/ /\ ~Calls(zk.stage)[zk.at] /\ (zk.pc = "protected" \/ zk.stage = 2)
               /\ zk'.pc = "begin" /\ zk'.i = zk.i + 1 /\ zk'.failed = zk.failed + 1
               /\ \E also \in BOOLEAN :
                    zk'.reports = Append(zk.reports,
                      [message |-> IF zk.failed_message = <<>> THEN <<PartOf(zk.stage), zk.at>> ELSE zk.failed_message,
                       also |-> also])
<1> DEFINE s == [zk EXCEPT !.torn[zk.i] = IF InTeardown(zk) THEN @ + 1 ELSE @]
           f == FirstMessage(s, <<PartOf(zk.stage), zk.at>>)
<1>1. /\ zk.pc \in {"calling", "protected"} /\ zk.at <= Len(Calls(zk.stage)) /\ zk_suite' = zk_suite
      /\ zk' = IF Calls(zk.stage)[zk.at] THEN [s EXCEPT !.at = @ + 1] ELSE Jumped(f)
  BY DEF ZkAssert
<1>2. /\ zk \in ZkStates /\ zk.i \in DOMAIN zk_suite /\ PartOf(zk.stage) \in ZkPlaces /\ zk.stage \in {0, 1, 2}
      /\ zk.at \in Nat \ {0}
  BY <1>1, PartsAre, ZkFields DEF ZkTyped
<1>9. zk.torn \in [DOMAIN zk_suite -> Nat]
  BY <1>2, ZkFields
<1> DEFINE torn == [zk.torn EXCEPT ![zk.i] = IF InTeardown(zk) THEN @ + 1 ELSE @]
<1>10. /\ torn \in ZkTorns
       /\ \A j \in DOMAIN zk_suite :
            torn[j] = IF j = zk.i /\ PartOf(zk.stage) = "teardown" /\ zk.at = 1 THEN zk.torn[j] + 1 ELSE zk.torn[j]
  BY <1>2, <1>9 DEF ZkTorns, InTeardown
<1>11. s = [zk EXCEPT !.torn = torn]
  OBVIOUS
<1>3. /\ s \in ZkStates
      /\ s.pc = zk.pc /\ s.i = zk.i /\ s.stage = zk.stage /\ s.at = zk.at /\ s.passed = zk.passed
      /\ s.failed = zk.failed /\ s.status = zk.status /\ s.reports = zk.reports
      /\ s.failed_message = zk.failed_message
      /\ \A j \in DOMAIN zk_suite :
           s.torn[j] = IF j = zk.i /\ PartOf(zk.stage) = "teardown" /\ zk.at = 1 THEN zk.torn[j] + 1 ELSE zk.torn[j]
  <2> HIDE DEF s, torn
  <2>1. /\ s \in ZkStates
        /\ s.pc = zk.pc /\ s.i = zk.i /\ s.stage = zk.stage /\ s.at = zk.at /\ s.passed = zk.passed
        /\ s.failed = zk.failed /\ s.status = zk.status /\ s.reports = zk.reports
        /\ s.failed_message = zk.failed_message /\ s.torn = torn
    BY <1>2, <1>10, <1>11 DEF ZkStates
  <2> QED
    BY <1>10, <2>1
<1>4. <<PartOf(zk.stage), zk.at>> \in ZkMessages
  BY <1>2 DEF ZkMessages
<1> HIDE DEF s
<1>5. /\ f \in ZkStates
      /\ f.pc = zk.pc /\ f.i = zk.i /\ f.stage = zk.stage /\ f.at = zk.at /\ f.passed = zk.passed
      /\ f.failed = zk.failed /\ f.status = zk.status /\ f.reports = zk.reports /\ f.torn = s.torn
      /\ f.failed_message = IF zk.failed_message = <<>> THEN <<PartOf(zk.stage), zk.at>> ELSE zk.failed_message
  BY <1>3, <1>4 DEF ZkStates, FirstMessage
<1> HIDE DEF f
<1>6. CASE Calls(zk.stage)[zk.at]
  <2>1. zk' = [s EXCEPT !.at = @ + 1]
    BY <1>1, <1>6
  <2>2. /\ zk' \in ZkStates /\ zk'.at = zk.at + 1 /\ zk'.pc = zk.pc /\ zk'.i = zk.i /\ zk'.stage = zk.stage
        /\ zk'.failed = zk.failed /\ zk'.reports = zk.reports /\ zk'.failed_message = zk.failed_message
        /\ zk'.passed = zk.passed /\ zk'.status = zk.status /\ zk'.torn = s.torn
    <3>1. zk.at + 1 \in ZkNumbers
      BY <1>2 DEF ZkNumbers
    <3> QED
      BY <1>2, <1>3, <2>1, <3>1 DEF ZkStates
  <2> QED
    BY <1>1, <1>3, <1>6, <2>2
<1>7. CASE ~Calls(zk.stage)[zk.at] /\ zk.pc = "calling" /\ zk.stage < 2
  <2>1. zk' = [f EXCEPT !.pc = "protected", !.at = 1]
    BY <1>1, <1>5, <1>7 DEF Jumped
  <2>2. /\ zk' \in ZkStates /\ zk'.at = 1 /\ zk'.pc = "protected" /\ zk'.i = f.i /\ zk'.stage = f.stage
        /\ zk'.failed = f.failed /\ zk'.reports = f.reports /\ zk'.failed_message = f.failed_message
        /\ zk'.passed = f.passed /\ zk'.status = f.status /\ zk'.torn = f.torn
    <3>1. "protected" \in ZkPcs /\ 1 \in ZkNumbers
      BY DEF ZkPcs, ZkNumbers
    <3> QED
      BY <1>5, <2>1, <3>1 DEF ZkStates
  <2> QED
    BY <1>1, <1>3, <1>5, <1>7, <2>2
<1>8. CASE ~Calls(zk.stage)[zk.at] /\ (zk.pc = "protected" \/ zk.stage = 2)
  <2>1. \E g \in ZkStates : /\ zk' = Reported(g)
                            /\ g.i = f.i /\ g.failed = f.failed /\ g.passed = f.passed /\ g.status = f.status
                            /\ g.torn = f.torn /\ g.reports = f.reports /\ g.failed_message = f.failed_message
    <3>1. CASE zk.pc = "protected"
      <4> DEFINE g == [f EXCEPT !.stage = 3]
      <4>1. zk' = Reported(g)
        BY <1>1, <1>5, <1>8, <3>1 DEF Jumped
      <4>2. /\ g \in ZkStates /\ g.i = f.i /\ g.failed = f.failed /\ g.passed = f.passed /\ g.status = f.status
            /\ g.torn = f.torn /\ g.reports = f.reports /\ g.failed_message = f.failed_message
        <5>1. 3 \in ZkStages
          BY DEF ZkStages
        <5> QED
          BY <1>5, <5>1 DEF ZkStates
      <4> QED
        BY <4>1, <4>2
    <3>2. CASE zk.pc = "calling" /\ zk.stage = 2
      <4>1. zk' = Reported(f)
        BY <1>1, <1>5, <1>8, <3>2 DEF Jumped
      <4> QED
        BY <1>5, <4>1
    <3> QED
      BY <1>1, <1>8, <3>1, <3>2
  <2>2. PICK g \in ZkStates : /\ zk' = Reported(g)
                            /\ g.i = f.i /\ g.failed = f.failed /\ g.passed = f.passed /\ g.status = f.status
                            /\ g.torn = f.torn /\ g.reports = f.reports /\ g.failed_message = f.failed_message
    BY <2>1
  <2>3. /\ zk' \in ZkStates /\ zk'.pc = "begin" /\ zk'.i = g.i + 1 /\ zk'.failed = g.failed + 1
        /\ zk'.passed = g.passed /\ zk'.status = g.status /\ zk'.torn = g.torn
        /\ zk'.reports = Append(g.reports, [message |-> g.failed_message, also |-> g.stage = 3])
    BY <2>2, ReportedIs
  <2>4. \E also \in BOOLEAN : zk'.reports = Append(zk.reports, [message |-> f.failed_message, also |-> also])
    <3>1. (g.stage = 3) \in BOOLEAN
      OBVIOUS
    <3> QED
      BY <1>5, <2>2, <2>3, <3>1
  <2>5. \A j \in DOMAIN zk_suite : zk'.torn[j] = s.torn[j]
    BY <1>5, <2>2, <2>3
  <2> QED
    BY <1>1, <1>3, <1>5, <1>8, <2>2, <2>3, <2>4, <2>5, ZenonT(40)
<1>12. zk.pc = "calling" \/ zk.pc = "protected"
  BY <1>1
<1>13. zk.stage < 2 \/ zk.stage = 2
  BY <1>2
<1> QED
  BY <1>6, <1>7, <1>8, <1>12, <1>13, Zenon

\* What the return of a part does.
LEMMA ReturnIs ==
  ASSUME ZkTyped, ZkReturn
  PROVE  /\ zk.pc \in {"calling", "protected"} /\ zk.at > Len(Calls(zk.stage)) /\ zk_suite' = zk_suite
         /\ zk' \in ZkStates /\ zk'.status = zk.status /\ zk'.torn = zk.torn
         /\ \/ /\ zk.pc = "calling" /\ zk.stage < 2
               /\ zk'.pc = "calling" /\ zk'.at = 1 /\ zk'.stage = zk.stage + 1 /\ zk'.i = zk.i
               /\ zk'.failed = zk.failed /\ zk'.passed = zk.passed /\ zk'.reports = zk.reports
               /\ zk'.failed_message = zk.failed_message
            \/ /\ zk.pc = "calling" /\ zk.stage = 2
               /\ zk'.pc = "begin" /\ zk'.i = zk.i + 1
               /\ zk'.failed = zk.failed /\ zk'.passed = zk.passed + 1 /\ zk'.reports = zk.reports
            \/ /\ zk.pc = "protected" /\ zk'.pc = "begin" /\ zk'.i = zk.i + 1
               /\ zk'.failed = zk.failed + 1 /\ zk'.passed = zk.passed
               /\ \E also \in BOOLEAN :
                    zk'.reports = Append(zk.reports, [message |-> zk.failed_message, also |-> also])
<1> DEFINE s == [zk EXCEPT !.at = 1, !.stage = @ + 1]
<1>1. /\ zk.pc \in {"calling", "protected"} /\ zk.at > Len(Calls(zk.stage)) /\ zk_suite' = zk_suite
      /\ zk' = IF zk.pc = "protected" THEN Reported(zk)
               ELSE IF zk.stage < 2 THEN s
               ELSE [s EXCEPT !.pc = "begin", !.passed = @ + 1, !.i = @ + 1]
  BY DEF ZkReturn
<1>2. zk \in ZkStates /\ zk.stage \in {0, 1, 2} /\ zk.i \in Nat \ {0} /\ zk.passed \in Nat
  BY <1>1, ZkFields DEF ZkTyped
<1>3. /\ s \in ZkStates /\ s.at = 1 /\ s.stage = zk.stage + 1
      /\ s.pc = zk.pc /\ s.i = zk.i /\ s.passed = zk.passed /\ s.failed_message = zk.failed_message
      /\ s.failed = zk.failed /\ s.status = zk.status /\ s.reports = zk.reports /\ s.torn = zk.torn
  <2>1. 1 \in ZkNumbers /\ zk.stage + 1 \in ZkStages
    BY <1>2 DEF ZkNumbers, ZkStages
  <2> QED
    BY <1>2, <2>1 DEF ZkStates
<1> HIDE DEF s
<1>4. CASE zk.pc = "protected"
  <2>1. zk' = Reported(zk)
    BY <1>1, <1>4
  <2>2. /\ zk' \in ZkStates /\ zk'.pc = "begin" /\ zk'.i = zk.i + 1 /\ zk'.failed = zk.failed + 1
        /\ zk'.passed = zk.passed /\ zk'.status = zk.status /\ zk'.torn = zk.torn
        /\ zk'.reports = Append(zk.reports, [message |-> zk.failed_message, also |-> zk.stage = 3])
    BY <1>2, <2>1, ReportedIs
  <2> QED
    BY <1>1, <1>4, <2>2
<1>5. CASE zk.pc = "calling" /\ zk.stage < 2
  <2>1. zk' = s
    BY <1>1, <1>5
  <2> QED
    BY <1>1, <1>3, <1>5, <2>1
<1>6. CASE zk.pc = "calling" /\ ~(zk.stage < 2)
  <2>1. zk' = [s EXCEPT !.pc = "begin", !.passed = @ + 1, !.i = @ + 1]
    BY <1>1, <1>6
  <2>2. "begin" \in ZkPcs /\ zk.i + 1 \in ZkNumbers /\ zk.passed + 1 \in Nat
    BY <1>2 DEF ZkPcs, ZkNumbers
  <2>3. /\ zk' \in ZkStates /\ zk'.pc = "begin" /\ zk'.i = s.i + 1 /\ zk'.passed = s.passed + 1
        /\ zk'.failed = s.failed /\ zk'.status = s.status /\ zk'.reports = s.reports /\ zk'.torn = s.torn
    BY <1>3, <2>1, <2>2 DEF ZkStates
  <2> QED
    BY <1>1, <1>2, <1>3, <1>6, <2>3
<1> QED
  BY <1>1, <1>4, <1>5, <1>6

\* A test is over: as one that failed, with its first failure told, or as one that passed.
LEMMA TestOver ==
  ASSUME ZkIInv, zk_suite' = zk_suite, zk.i \in DOMAIN zk_suite, zk' \in ZkStates, zk'.pc = "begin",
         zk'.i = zk.i + 1,
         zk_suite[zk.i].teardown # <<>> => zk'.torn[zk.i] = 1,
         \A j \in DOMAIN zk_suite : j # zk.i => zk'.torn[j] = zk.torn[j],
         \/ /\ ~ZkBad(zk_suite[zk.i])
            /\ zk'.failed = zk.failed /\ zk'.passed = zk.passed + 1 /\ zk'.reports = zk.reports
         \/ /\ ZkBad(zk_suite[zk.i])
            /\ zk'.failed = zk.failed + 1 /\ zk'.passed = zk.passed
            /\ \E m \in ZkMessages, also \in BOOLEAN :
                 /\ ZkFirst(zk_suite[zk.i], m[1])
                 /\ zk'.reports = Append(zk.reports, [message |-> m, also |-> also])
  PROVE  ZkIInv'
<1>1. /\ ZkTyped /\ ZkCounted /\ ZkTold /\ ZkTorn
      /\ Len(zk_suite) \in Nat /\ DOMAIN zk_suite = 1 .. Len(zk_suite)
      /\ zk.i \in 1 .. Len(zk_suite) /\ zk.failed \in Nat /\ zk.passed \in Nat
      /\ zk.reports \in ZkReports
  BY ZkTests, ZkFields DEF ZkIInv, ZkTyped
<1>2. \A n : ZkBadUpTo(n)' = ZkBadUpTo(n)
  BY DEF ZkBadUpTo
<1>3. zk'.i - 1 = zk.i
  BY <1>1
<1>4. Cardinality(ZkBadUpTo(zk.i)) = Cardinality(ZkBadUpTo(zk.i - 1)) + (IF ZkBad(zk_suite[zk.i]) THEN 1 ELSE 0)
  BY <1>1, BadNext
<1>5. ZkTyped'
  <2>1. ZkStates' = ZkStates
    BY DEF ZkStates, ZkTorns
  <2> QED
    BY <1>1, <2>1 DEF ZkTyped
<1>6. ZkBadUpTo(zk.i - 1)' = ZkBadUpTo(zk.i)
  BY <1>3 DEF ZkBadUpTo
<1>7. ZkCounted'
  <2>1. zk.failed = Cardinality(ZkBadUpTo(zk.i - 1)) /\ zk.passed + zk.failed = zk.i - 1
    BY <1>1 DEF ZkCounted
  <2>2. zk'.failed = Cardinality(ZkBadUpTo(zk.i)) /\ zk'.passed + zk'.failed = zk'.i - 1
    BY <1>1, <1>3, <1>4, <2>1
  <2> QED
    BY <1>6, <2>2 DEF ZkCounted
<1>8. ZkTorn'
  BY <1>1, <1>5 DEF ZkTorn
<1>9. ZkAtNow'
  BY DEF ZkAtNow
<1>10. ASSUME NEW n \in DOMAIN zk.reports
       PROVE  \E j \in ZkBadUpTo(zk.i) : Cardinality(ZkBadUpTo(j)) = n /\ ZkFirst(zk_suite[j], zk.reports[n].message[1])
  <2>1. ZkBadUpTo(zk.i - 1) \subseteq ZkBadUpTo(zk.i)
    BY <1>1 DEF ZkBadUpTo
  <2> QED
    BY <1>1, <1>10, <2>1 DEF ZkTold
<1>11. ZkTold'
  <2>1. CASE ~ZkBad(zk_suite[zk.i]) /\ zk'.failed = zk.failed /\ zk'.reports = zk.reports
    BY <1>1, <1>2, <1>6, <1>10, <2>1 DEF ZkTold
  <2>2. ASSUME ZkBad(zk_suite[zk.i]), zk'.failed = zk.failed + 1, NEW m \in ZkMessages, NEW also \in BOOLEAN,
               ZkFirst(zk_suite[zk.i], m[1]), zk'.reports = Append(zk.reports, [message |-> m, also |-> also])
        PROVE  ZkTold'
    <3> DEFINE e == [message |-> m, also |-> also]
    <3>1. e \in [message : ZkMessages, also : BOOLEAN] /\ e.message = m
      OBVIOUS
    <3> HIDE DEF e
    <3>2. /\ Len(zk'.reports) = Len(zk.reports) + 1 /\ DOMAIN zk'.reports = 1 .. Len(zk.reports) + 1
          /\ DOMAIN zk.reports = 1 .. Len(zk.reports) /\ Len(zk.reports) \in Nat
          /\ \A n \in DOMAIN zk.reports : zk'.reports[n] = zk.reports[n]
          /\ zk'.reports[Len(zk.reports) + 1] = e
      BY <1>1, <2>2, <3>1, AppendProperties, LenProperties DEF ZkReports, e
    <3>3. Len(zk.reports) = zk.failed /\ zk.failed = Cardinality(ZkBadUpTo(zk.i - 1))
      BY <1>1 DEF ZkTold, ZkCounted
    <3>4. /\ zk.i \in ZkBadUpTo(zk.i) /\ Cardinality(ZkBadUpTo(zk.i)) = Len(zk.reports) + 1
          /\ ZkFirst(zk_suite[zk.i], zk'.reports[Len(zk.reports) + 1].message[1])
      BY <1>1, <1>4, <2>2, <3>1, <3>2, <3>3 DEF ZkBadUpTo
    <3>5. ASSUME NEW n \in DOMAIN zk'.reports
          PROVE  \E j \in ZkBadUpTo(zk.i) : Cardinality(ZkBadUpTo(j)) = n /\ ZkFirst(zk_suite[j], zk'.reports[n].message[1])
      BY <1>10, <3>2, <3>4, <3>5
    <3> QED
      BY <1>2, <1>6, <2>2, <3>2, <3>3, <3>5, Zenon DEF ZkTold
  <2> QED
    BY <2>1, <2>2
<1> QED
  BY <1>5, <1>7, <1>8, <1>9, <1>11 DEF ZkIInv

\* A step within a test leaves what was counted and told as it is.
LEMMA TestGoesOn ==
  ASSUME ZkIInv, zk_suite' = zk_suite, zk.i \in DOMAIN zk_suite, zk' \in ZkStates,
         zk'.pc \in {"calling", "protected"}, zk'.i = zk.i, zk'.stage <= 2,
         zk'.failed = zk.failed, zk'.passed = zk.passed, zk'.reports = zk.reports
  PROVE  /\ ZkTyped' /\ ZkCounted' /\ ZkTold'
         /\ RunningTest' = zk_suite[zk.i]
         /\ PartOf(zk.stage)' = IF zk'.pc = "protected" THEN "teardown" ELSE Parts[zk'.stage + 1]
         /\ Calls(zk.stage)' = zk_suite[zk.i][PartOf(zk.stage)']
<1>1. ZkTyped /\ ZkCounted /\ ZkTold
  BY DEF ZkIInv
<1>2. ZkTyped'
  <2>1. ZkStates' = ZkStates
    BY DEF ZkStates, ZkTorns
  <2> QED
    BY <1>1, <2>1 DEF ZkTyped
<1>3. ZkCounted'
  BY <1>1 DEF ZkCounted, ZkBadUpTo
<1>4. ZkTold'
  BY <1>1, Zenon DEF ZkTold, ZkBadUpTo
<1> QED
  BY <1>2, <1>3, <1>4 DEF RunningTest, PartOf, Calls

LEMMA ZkBeginKeeps ==
  ASSUME ZkIInv, ZkBegin
  PROVE  ZkIInv'
<1>1. /\ ZkTyped /\ ZkTorn /\ zk.pc = "begin" /\ zk.i <= Len(zk_suite) /\ zk_suite' = zk_suite
      /\ zk' = [zk EXCEPT !.pc = "calling", !.stage = 0, !.at = 1, !.failed_message = <<>>]
  BY DEF ZkIInv, ZkBegin
<1>2. zk \in ZkStates /\ zk.i \in DOMAIN zk_suite
  BY <1>1, ZkFields, ZkTests DEF ZkTyped
<1>3. /\ zk' \in ZkStates /\ zk'.pc = "calling" /\ zk'.stage = 0 /\ zk'.at = 1 /\ zk'.failed_message = <<>>
      /\ zk'.i = zk.i /\ zk'.failed = zk.failed /\ zk'.passed = zk.passed /\ zk'.reports = zk.reports
      /\ zk'.torn = zk.torn
  <2>1. "calling" \in ZkPcs /\ 0 \in ZkStages /\ 1 \in ZkNumbers /\ <<>> \in ZkMessages
    BY DEF ZkPcs, ZkStages, ZkNumbers, ZkMessages
  <2> QED
    BY <1>1, <1>2, <2>1 DEF ZkStates
<1>4. /\ ZkTyped' /\ ZkCounted' /\ ZkTold' /\ PartOf(zk.stage)' = Parts[1]
      /\ Calls(zk.stage)' = zk_suite[zk.i][Parts[1]]
  BY <1>1, <1>2, <1>3, TestGoesOn
<1>5. Parts[1] = "setup"
  BY DEF Parts
<1>6. ZkTorn'
  BY <1>1, <1>3, <1>4, <1>5 DEF ZkTorn
<1>7. ZkAtNow'
  <2>1. Len(zk_suite[zk.i].setup) \in Nat
    BY <1>1, <1>2, ZkTests DEF ZkPlaces
  <2> QED
    BY <1>3, <1>4, <1>5, <2>1 DEF ZkAtNow
<1> QED
  BY <1>4, <1>6, <1>7 DEF ZkIInv

LEMMA ZkEndKeeps ==
  ASSUME ZkIInv, ZkEnd
  PROVE  ZkIInv'
<1>1. /\ ZkTyped /\ ZkCounted /\ ZkTold /\ ZkTorn /\ zk.pc = "begin" /\ zk.i > Len(zk_suite) /\ zk_suite' = zk_suite
      /\ zk' = [zk EXCEPT !.pc = "ended", !.status = IF zk.failed # 0 THEN 1 ELSE 0]
  BY DEF ZkIInv, ZkEnd
<1>2. zk \in ZkStates /\ zk.i = Len(zk_suite) + 1
  BY <1>1, ZkFields, ZkTests DEF ZkTyped
<1>3. /\ zk' \in ZkStates /\ zk'.pc = "ended" /\ zk'.status = IF zk.failed # 0 THEN 1 ELSE 0
      /\ zk'.i = zk.i /\ zk'.failed = zk.failed /\ zk'.passed = zk.passed /\ zk'.reports = zk.reports
      /\ zk'.torn = zk.torn
  <2>1. "ended" \in ZkPcs /\ (IF zk.failed # 0 THEN 1 ELSE 0) \in ZkStatuses
    BY DEF ZkPcs, ZkStatuses
  <2> QED
    BY <1>1, <1>2, <2>1 DEF ZkStates
<1>4. ZkTyped'
  <2>1. ZkStates' = ZkStates
    BY <1>1 DEF ZkStates, ZkTorns
  <2> QED
    BY <1>1, <1>2, <1>3, <2>1 DEF ZkTyped
<1>5. ZkCounted'
  BY <1>1, <1>3 DEF ZkCounted, ZkBadUpTo
<1>6. ZkTold'
  BY <1>1, <1>3, Zenon DEF ZkTold, ZkBadUpTo
<1>7. ZkTorn'
  BY <1>1, <1>3 DEF ZkTorn
<1>8. ZkAtNow'
  BY <1>3 DEF ZkAtNow
<1> QED
  BY <1>4, <1>5, <1>6, <1>7, <1>8 DEF ZkIInv

LEMMA ZkAssertKeeps ==
  ASSUME ZkIInv, ZkAssert
  PROVE  ZkIInv'
<1> DEFINE part == PartOf(zk.stage)
           calls == Calls(zk.stage)
<1>1. /\ ZkTyped /\ ZkTorn /\ ZkAtNow /\ zk.pc \in {"calling", "protected"} /\ zk.at <= Len(calls)
      /\ zk_suite' = zk_suite /\ zk' \in ZkStates /\ zk'.passed = zk.passed
      /\ \A j \in DOMAIN zk_suite :
           zk'.torn[j] = IF j = zk.i /\ part = "teardown" /\ zk.at = 1 THEN zk.torn[j] + 1 ELSE zk.torn[j]
  BY AssertIs DEF ZkIInv
<1>2. /\ part \in ZkPlaces /\ RunningTest = zk_suite[zk.i] /\ zk.i \in DOMAIN zk_suite
      /\ calls = RunningTest[part] /\ calls \in Seq(BOOLEAN)
      /\ zk.pc = "protected" => part = "teardown"
      /\ zk.pc = "calling" => \/ zk.stage = 0 /\ part = "setup"
                              \/ zk.stage = 1 /\ part = "test"
                              \/ zk.stage = 2 /\ part = "teardown"
  BY <1>1, PartsAre
<1>3. /\ zk \in ZkStates /\ zk.at \in Nat \ {0} /\ zk.stage \in {0, 1, 2} /\ zk.torn \in [DOMAIN zk_suite -> Nat]
      /\ zk.i \in Nat \ {0} /\ zk.failed_message \in ZkMessages /\ DOMAIN zk_suite \subseteq Nat
      /\ Len(calls) \in Nat
  BY <1>1, <1>2, ZkFields, ZkTests DEF ZkTyped
<1>4. ~calls[zk.at] => ZkFails(RunningTest[part])
  BY <1>1, <1>2, <1>3, PartFails
<1>5. zk_suite[zk.i].teardown # <<>> => zk.torn[zk.i] = IF part = "teardown" /\ zk.at > 1 THEN 1 ELSE 0
  BY <1>1, <1>2 DEF ZkTorn
<1>6. \A j \in DOMAIN zk_suite : j # zk.i => zk'.torn[j] = zk.torn[j]
  BY <1>1
<1>7. /\ zk.pc = "calling" => /\ zk.failed_message = <<>>
                              /\ zk.stage > 0 => ~ZkFails(RunningTest.setup)
                              /\ zk.stage > 1 => ~ZkFails(RunningTest.test)
      /\ zk.pc = "protected" => /\ zk.stage < 2 /\ zk.failed_message # <<>>
                                /\ ZkFirst(RunningTest, zk.failed_message[1])
      /\ \A k \in 1 .. zk.at - 1 : calls[k]
  BY <1>1 DEF ZkAtNow
\* The assertion holds.
<1>8. ASSUME calls[zk.at], zk'.at = zk.at + 1, zk'.pc = zk.pc, zk'.i = zk.i, zk'.stage = zk.stage,
             zk'.failed = zk.failed, zk'.reports = zk.reports, zk'.failed_message = zk.failed_message
      PROVE  ZkIInv'
  <2>1. /\ ZkTyped' /\ ZkCounted' /\ ZkTold' /\ RunningTest' = RunningTest
        /\ PartOf(zk.stage)' = part /\ Calls(zk.stage)' = calls
    <3>1. /\ ZkTyped' /\ ZkCounted' /\ ZkTold' /\ RunningTest' = zk_suite[zk.i]
          /\ PartOf(zk.stage)' = IF zk'.pc = "protected" THEN "teardown" ELSE Parts[zk'.stage + 1]
          /\ Calls(zk.stage)' = zk_suite[zk.i][PartOf(zk.stage)']
      BY <1>1, <1>2, <1>3, <1>8, TestGoesOn
    <3>2. PartOf(zk.stage)' = part
      BY <1>8, <3>1 DEF PartOf
    <3> QED
      BY <1>2, <3>1, <3>2
  <2>2. zk_suite[zk.i].teardown # <<>> => zk'.torn[zk.i] = IF part = "teardown" /\ zk'.at > 1 THEN 1 ELSE 0
    BY <1>1, <1>2, <1>3, <1>5, <1>8
  <2>3. ZkTorn'
    BY <1>1, <1>2, <1>3, <1>6, <1>8, <2>1, <2>2 DEF ZkTorn
  <2>4. ZkAtNow'
    <3>1. \A k \in 1 .. zk'.at - 1 : calls[k]
      BY <1>3, <1>7, <1>8
    <3> QED
      BY <1>1, <1>3, <1>7, <1>8, <2>1, <3>1 DEF ZkAtNow
  <2> QED
    BY <2>1, <2>3, <2>4 DEF ZkIInv
\* It fails before the teardown: the teardown is run, protected.
<1>9. ASSUME ~calls[zk.at], zk.pc = "calling", zk.stage < 2, zk'.pc = "protected", zk'.at = 1, zk'.i = zk.i,
             zk'.stage = zk.stage, zk'.failed = zk.failed, zk'.reports = zk.reports,
             zk'.failed_message = IF zk.failed_message = <<>> THEN <<part, zk.at>> ELSE zk.failed_message
      PROVE  ZkIInv'
  <2>1. /\ ZkTyped' /\ ZkCounted' /\ ZkTold' /\ RunningTest' = RunningTest
        /\ PartOf(zk.stage)' = "teardown" /\ Calls(zk.stage)' = RunningTest.teardown
    BY <1>1, <1>2, <1>3, <1>9, TestGoesOn
  <2>2. part # "teardown"
    BY <1>2, <1>9
  <2>3. ZkTorn'
    BY <1>1, <1>2, <1>3, <1>5, <1>6, <1>9, <2>1, <2>2 DEF ZkTorn
  <2>4. zk'.failed_message = <<part, zk.at>> /\ zk'.failed_message # <<>> /\ zk'.failed_message[1] = part
    BY <1>7, <1>9
  <2>5. ZkFirst(RunningTest, part)
    BY <1>2, <1>4, <1>7, <1>9, <2>2 DEF ZkFirst
  <2>6. ZkAtNow'
    <3>1. Len(RunningTest.teardown) \in Nat
      BY <1>1, <1>2, ZkTests DEF ZkPlaces
    <3>2. ZkFirst(RunningTest, zk.failed_message[1])'
      BY <1>1, <2>1, <2>4, <2>5 DEF ZkFirst, ZkFails
    <3> QED
      BY <1>9, <2>1, <2>4, <3>1, <3>2 DEF ZkAtNow
  <2> QED
    BY <2>1, <2>3, <2>6 DEF ZkIInv
\* It fails in the teardown: the test is over.
<1>10. ASSUME ~calls[zk.at], zk.pc = "protected" \/ zk.stage = 2, zk'.pc = "begin", zk'.i = zk.i + 1,
              zk'.failed = zk.failed + 1, NEW also \in BOOLEAN,
              zk'.reports = Append(zk.reports,
                [message |-> IF zk.failed_message = <<>> THEN <<part, zk.at>> ELSE zk.failed_message, also |-> also])
       PROVE  ZkIInv'
  <2> DEFINE m == IF zk.failed_message = <<>> THEN <<part, zk.at>> ELSE zk.failed_message
  <2>1. part = "teardown"
    BY <1>1, <1>2, <1>10
  <2>2. m \in ZkMessages /\ ZkFirst(RunningTest, m[1])
    <3>1. CASE zk.pc = "protected"
      BY <1>3, <1>7, <3>1
    <3>2. CASE zk.pc = "calling"
      <4>1. m = <<part, zk.at>> /\ zk.stage = 2
        BY <1>7, <1>10, <3>2
      <4>2. ZkFirst(RunningTest, part)
        BY <1>2, <1>4, <1>7, <1>10, <2>1, <3>2, <4>1 DEF ZkFirst
      <4>3. <<part, zk.at>> \in ZkMessages /\ <<part, zk.at>>[1] = part
        BY <1>2, <1>3 DEF ZkMessages
      <4> QED
        BY <4>1, <4>2, <4>3
    <3> QED
      BY <1>1, <3>1, <3>2
  <2>3. ZkBad(zk_suite[zk.i])
    BY <1>2, <1>4, <1>10 DEF ZkBad
  <2>4. zk_suite[zk.i].teardown # <<>> => zk'.torn[zk.i] = 1
    BY <1>1, <1>2, <1>3, <1>5, <2>1
  <2>5. zk'.reports = Append(zk.reports, [message |-> m, also |-> also])
    BY <1>10
  <2> HIDE DEF m
  <2> QED
    BY <1>1, <1>2, <1>6, <1>10, <2>2, <2>3, <2>4, <2>5, TestOver
<1> QED
  BY <1>1, <1>8, <1>9, <1>10, AssertIs

LEMMA ZkReturnKeeps ==
  ASSUME ZkIInv, ZkReturn
  PROVE  ZkIInv'
<1> DEFINE part == PartOf(zk.stage)
           calls == Calls(zk.stage)
<1>1. /\ ZkTyped /\ ZkTorn /\ ZkAtNow /\ zk.pc \in {"calling", "protected"} /\ zk.at > Len(calls)
      /\ zk_suite' = zk_suite /\ zk' \in ZkStates /\ zk'.torn = zk.torn
  BY ReturnIs DEF ZkIInv
<1>2. /\ part \in ZkPlaces /\ RunningTest = zk_suite[zk.i] /\ zk.i \in DOMAIN zk_suite
      /\ calls = RunningTest[part] /\ calls \in Seq(BOOLEAN)
      /\ zk.pc = "protected" => part = "teardown"
      /\ zk.pc = "calling" => \/ zk.stage = 0 /\ part = "setup"
                              \/ zk.stage = 1 /\ part = "test"
                              \/ zk.stage = 2 /\ part = "teardown"
  BY <1>1, PartsAre
<1>3. /\ zk \in ZkStates /\ zk.at \in Nat \ {0} /\ zk.stage \in {0, 1, 2} /\ zk.torn \in [DOMAIN zk_suite -> Nat]
      /\ zk.i \in Nat \ {0} /\ zk.failed_message \in ZkMessages /\ DOMAIN zk_suite \subseteq Nat
      /\ Len(calls) \in Nat
  BY <1>1, <1>2, ZkFields, ZkTests DEF ZkTyped
<1>4. zk_suite[zk.i].teardown # <<>> => zk.torn[zk.i] = IF part = "teardown" /\ zk.at > 1 THEN 1 ELSE 0
  BY <1>1, <1>2 DEF ZkTorn
<1>5. /\ zk.pc = "calling" => /\ zk.failed_message = <<>>
                              /\ zk.stage > 0 => ~ZkFails(RunningTest.setup)
                              /\ zk.stage > 1 => ~ZkFails(RunningTest.test)
      /\ zk.pc = "protected" => /\ zk.stage < 2 /\ zk.failed_message # <<>>
                                /\ ZkFirst(RunningTest, zk.failed_message[1])
      /\ \A k \in 1 .. zk.at - 1 : calls[k]
  BY <1>1 DEF ZkAtNow
<1>6. ~ZkFails(RunningTest[part])
  BY <1>1, <1>2, <1>3, <1>5, PartFails
<1>7. part = "teardown" /\ zk_suite[zk.i].teardown # <<>> => zk'.torn[zk.i] = 1
  <2>1. ASSUME part = "teardown", zk_suite[zk.i].teardown # <<>>
        PROVE  zk.at > 1
    <3>1. calls # <<>>
      BY <1>2, <2>1
    <3>2. Len(calls) > 0
      BY <1>2, <1>3, <3>1
    <3> QED
      BY <1>1, <1>3, <3>2
  <2> QED
    BY <1>1, <1>4, <2>1
\* The setup, or the test, is done.
<1>8. ASSUME zk.pc = "calling", zk.stage < 2, zk'.pc = "calling", zk'.at = 1, zk'.stage = zk.stage + 1, zk'.i = zk.i,
             zk'.failed = zk.failed, zk'.passed = zk.passed, zk'.reports = zk.reports,
             zk'.failed_message = zk.failed_message
      PROVE  ZkIInv'
  <2>1. /\ ZkTyped' /\ ZkCounted' /\ ZkTold' /\ RunningTest' = RunningTest
        /\ Calls(zk.stage)' = zk_suite[zk.i][PartOf(zk.stage)']
        /\ PartOf(zk.stage)' = Parts[zk'.stage + 1]
    BY <1>1, <1>2, <1>3, <1>8, TestGoesOn
  <2>2. PartOf(zk.stage)' \in ZkPlaces
    BY <1>3, <1>8, <2>1 DEF Parts, ZkPlaces
  <2>3. part # "teardown"
    BY <1>2, <1>8
  <2>4. ZkTorn'
    BY <1>1, <1>2, <1>3, <1>4, <1>8, <2>1, <2>3 DEF ZkTorn
  <2>5. ZkAtNow'
    <3>1. Len(Calls(zk.stage)') \in Nat
      BY <1>1, <1>2, <2>1, <2>2, ZkTests
    <3>2. /\ zk'.stage > 0 => ~ZkFails(RunningTest.setup)
          /\ zk'.stage > 1 => ~ZkFails(RunningTest.test)
      BY <1>2, <1>3, <1>5, <1>6, <1>8
    <3>3. /\ zk'.stage > 0 => ~ZkFails(RunningTest.setup)'
          /\ zk'.stage > 1 => ~ZkFails(RunningTest.test)'
      BY <2>1, <3>2 DEF ZkFails
    <3> QED
      BY <1>5, <1>8, <3>1, <3>3 DEF ZkAtNow
  <2> QED
    BY <2>1, <2>4, <2>5 DEF ZkIInv
\* The teardown is done, and nothing failed.
<1>9. ASSUME zk.pc = "calling", zk.stage = 2, zk'.pc = "begin", zk'.i = zk.i + 1,
             zk'.failed = zk.failed, zk'.passed = zk.passed + 1, zk'.reports = zk.reports
      PROVE  ZkIInv'
  <2>1. part = "teardown" /\ ~ZkFails(RunningTest.setup) /\ ~ZkFails(RunningTest.test) /\ ~ZkFails(RunningTest.teardown)
    BY <1>2, <1>5, <1>6, <1>9
  <2>2. ~ZkBad(zk_suite[zk.i])
    BY <1>2, <2>1 DEF ZkBad, ZkPlaces
  <2> QED
    BY <1>1, <1>2, <1>7, <1>9, <2>1, <2>2, TestOver
\* The teardown of a test that failed is done.
<1>10. ASSUME zk.pc = "protected", zk'.pc = "begin", zk'.i = zk.i + 1, zk'.failed = zk.failed + 1,
              zk'.passed = zk.passed, NEW also \in BOOLEAN,
              zk'.reports = Append(zk.reports, [message |-> zk.failed_message, also |-> also])
       PROVE  ZkIInv'
  <2>1. part = "teardown" /\ ZkFirst(RunningTest, zk.failed_message[1]) /\ zk.failed_message[1] \in ZkPlaces
    BY <1>2, <1>5, <1>10 DEF ZkFirst
  <2>2. ZkBad(zk_suite[zk.i])
    BY <1>2, <2>1 DEF ZkBad, ZkFirst
  <2> QED
    BY <1>1, <1>2, <1>3, <1>7, <1>10, <2>1, <2>2, TestOver
<1> QED
  BY <1>1, <1>8, <1>9, <1>10, ReturnIs

LEMMA ZkStart ==
  ASSUME ZkInit
  PROVE  ZkIInv
<1>1. /\ zk_suite \in Seq(ZkTest)
      /\ zk = [pc |-> "begin", i |-> 1, stage |-> 0, at |-> 1, failed_message |-> <<>>, passed |-> 0,
               failed |-> 0, status |-> 0, reports |-> <<>>, torn |-> [i \in DOMAIN zk_suite |-> 0]]
  BY ZkAssumption DEF ZkInit
<1>2. Len(zk_suite) \in Nat /\ DOMAIN zk_suite = 1 .. Len(zk_suite)
  BY <1>1
<1>3. ZkTyped
  <2>1. /\ "begin" \in ZkPcs /\ 1 \in ZkNumbers /\ 0 \in ZkStages /\ <<>> \in ZkMessages /\ 0 \in ZkStatuses
        /\ <<>> \in ZkReports
    BY DEF ZkPcs, ZkNumbers, ZkStages, ZkMessages, ZkStatuses, ZkReports
  <2>2. [i \in DOMAIN zk_suite |-> 0] \in ZkTorns
    BY DEF ZkTorns
  <2>3. zk \in ZkStates
    BY <1>1, <2>1, <2>2, Zenon DEF ZkStates
  <2> QED
    BY <1>1, <1>2, <2>3 DEF ZkTyped
<1>4. zk.i - 1 = 0 /\ zk.failed = 0 /\ zk.passed = 0 /\ zk.pc = "begin" /\ zk.reports = <<>>
  BY <1>1
<1>5. ZkCounted
  <2>1. ZkBadUpTo(zk.i - 1) = {}
    BY <1>2, <1>4 DEF ZkBadUpTo
  <2> QED
    BY <1>4, <2>1, FS_EmptySet DEF ZkCounted
<1>6. ZkTold
  BY <1>1 DEF ZkTold
<1>7. ZkTorn
  BY <1>1, <1>2 DEF ZkTorn
<1>8. ZkAtNow
  BY <1>1 DEF ZkAtNow
<1> QED
  BY <1>3, <1>5, <1>6, <1>7, <1>8 DEF ZkIInv

\* For every suite: what was counted, told and torn down is that of the tests that are over,
\* and the jump buffer is where the test that runs needs it (suite_run, z88dk.h 76-133).
THEOREM SuiteIsRun == ZkSpec => []ZkIInv
<1>1. ZkIInv /\ [ZkNext]_zkvars => ZkIInv'
  <2> SUFFICES ASSUME ZkIInv, [ZkNext]_zkvars PROVE ZkIInv'
    OBVIOUS
  <2>1. CASE UNCHANGED zkvars
    <3>1. zk' = zk /\ zk_suite' = zk_suite
      BY <2>1 DEF zkvars
    <3>2. ZkTyped'
      BY <3>1 DEF ZkIInv, ZkTyped, ZkStates, ZkTorns
    <3>3. ZkCounted' /\ ZkTold'
      BY <3>1, Zenon DEF ZkIInv, ZkCounted, ZkTold, ZkBadUpTo
    <3>4. PartOf(zk.stage)' = PartOf(zk.stage) /\ Calls(zk.stage)' = Calls(zk.stage) /\ RunningTest' = RunningTest
      BY <3>1 DEF Calls, PartOf, RunningTest
    <3>5. ZkTorn' /\ ZkAtNow'
      BY <3>1, <3>4, Zenon DEF ZkIInv, ZkTorn, ZkAtNow
    <3> QED
      BY <3>2, <3>3, <3>5 DEF ZkIInv
  <2> QED
    BY <2>1, ZkBeginKeeps, ZkAssertKeeps, ZkReturnKeeps, ZkEndKeeps DEF ZkNext
<1> QED
  BY <1>1, ZkStart, PTL DEF ZkSpec

\* For every suite: each test is counted once, as one that failed if an assertion of any of
\* its parts did; its teardown is entered once, and its first failure is what is told of it
\* (suite_run and Assert_real, z88dk.h 17-133).
THEOREM ZkAccounts == ZkSpec => []ZkAccounted
<1>1. ZkIInv => ZkAccounted
  <2> SUFFICES ASSUME ZkIInv, zk.pc = "ended"
               PROVE  ZkAccounted
    BY DEF ZkAccounted
  <2> DEFINE bad == {i \in DOMAIN zk_suite : \E p \in Range(Parts) : ZkFails(zk_suite[i][p])}
             First(t) == CHOOSE p \in Range(Parts) :
                           ZkFails(t[p]) /\ \A q \in 1 .. 3 : ZkFails(t[Parts[q]]) => \E r \in 1 .. q : Parts[r] = p
             Nth(n) == CHOOSE i \in bad : Cardinality({j \in bad : j <= i}) = n
  <2>1. /\ ZkTyped /\ ZkCounted /\ ZkTold /\ ZkTorn /\ zk.i = Len(zk_suite) + 1
        /\ Len(zk_suite) \in Nat /\ DOMAIN zk_suite = 1 .. Len(zk_suite) /\ zk.i - 1 = Len(zk_suite)
        /\ zk.reports \in ZkReports /\ zk.failed \in Nat
    BY ZkTests, ZkFields DEF ZkIInv, ZkTyped
  <2>2. /\ DOMAIN Parts = 1 .. 3 /\ Parts[1] = "setup" /\ Parts[2] = "test" /\ Parts[3] = "teardown"
        /\ Range(Parts) = ZkPlaces
    BY DEF Parts, Range, ZkPlaces
  <2>3. bad = ZkBadUpTo(Len(zk_suite)) /\ \A i \in DOMAIN zk_suite : {j \in bad : j <= i} = ZkBadUpTo(i)
    BY <2>1, <2>2 DEF ZkBadUpTo, ZkBad
  <2>4. IsFiniteSet(bad) /\ \A i \in DOMAIN zk_suite : ZkBadUpTo(i) \subseteq bad /\ IsFiniteSet(ZkBadUpTo(i))
    <3>1. IsFiniteSet(DOMAIN zk_suite)
      BY <2>1, FS_Interval
    <3>2. bad \subseteq DOMAIN zk_suite
      OBVIOUS
    <3>3. \A i \in DOMAIN zk_suite : ZkBadUpTo(i) \subseteq bad
      BY <2>3
    <3> QED
      BY <3>1, <3>2, <3>3, FS_Subset
  <2>5. zk.failed = Cardinality(bad) /\ zk.passed + zk.failed = Len(zk_suite)
    BY <2>1, <2>3 DEF ZkCounted
  <2>6. zk.status = IF bad = {} THEN 0 ELSE 1
    <3>1. Cardinality(bad) = 0 <=> bad = {}
      BY <2>4, FS_EmptySet
    <3>2. zk.status = IF zk.failed # 0 THEN 1 ELSE 0
      BY <2>1 DEF ZkCounted
    <3> HIDE DEF bad
    <3> QED
      BY <2>5, <3>1, <3>2
  <2>7. \A i \in DOMAIN zk_suite : zk_suite[i].teardown # <<>> => zk.torn[i] = 1
    BY <2>1 DEF ZkTorn
  <2>8. ASSUME NEW i \in bad, NEW j \in bad, i <= j, Cardinality(ZkBadUpTo(i)) = Cardinality(ZkBadUpTo(j))
        PROVE  i = j
    <3>1. i \in DOMAIN zk_suite /\ j \in DOMAIN zk_suite /\ ZkBadUpTo(i) \subseteq ZkBadUpTo(j) /\ j \in ZkBadUpTo(j)
      BY <2>1, <2>3, <2>8 DEF ZkBadUpTo
    <3>2. ZkBadUpTo(i) = ZkBadUpTo(j)
      BY <2>4, <2>8, <3>1, FS_Subset
    <3> QED
      BY <2>1, <2>8, <3>1, <3>2 DEF ZkBadUpTo
  <2>9. ASSUME NEW t, NEW p \in ZkPlaces, ZkFirst(t, p)
        PROVE  First(t) = p
    <3> DEFINE Is(q) == ZkFails(t[q]) /\ \A n \in 1 .. 3 : ZkFails(t[Parts[n]]) => \E r \in 1 .. n : Parts[r] = q
    <3>1. \A q \in ZkPlaces : Is(q) <=> q = p
      <4>1. (ZkFails(t[p]) /\ \A n \in 1 .. 3 : ZkFails(t[Parts[n]]) => \E r \in 1 .. n : Parts[r] = p)
        BY <2>2, <2>9 DEF ZkFirst, ZkPlaces
      <4>2. ASSUME NEW q \in ZkPlaces, Is(q) PROVE q = p
        <5>1. /\ ZkFails(t.setup) => q = "setup"
              /\ ZkFails(t.test) => q \in {"setup", "test"}
          BY <2>2, <4>2
        <5>2. ZkFails(t[q])
          BY <4>2
        <5> HIDE DEF Is
        <5> QED
          BY <2>9, <5>1, <5>2 DEF ZkFirst, ZkPlaces
      <4> QED
        BY <4>1, <4>2
    <3> HIDE DEF Is
    <3>2. (CHOOSE q \in ZkPlaces : Is(q)) = p
      BY <3>1
    <3>3. First(t) = CHOOSE q \in ZkPlaces : Is(q)
      BY <2>2, Zenon DEF Is
    <3> QED
      BY <3>2, <3>3
  <2>10. DOMAIN zk.reports = 1 .. Cardinality(bad)
    BY <2>1, <2>5 DEF ZkTold, ZkReports
  <2>11. ASSUME NEW n \in DOMAIN zk.reports
         PROVE  zk.reports[n].message[1] = First(zk_suite[Nth(n)])
    <3>1. PICK j \in bad : Cardinality(ZkBadUpTo(j)) = n /\ ZkFirst(zk_suite[j], zk.reports[n].message[1])
      BY <2>1, <2>3, <2>11 DEF ZkTold
    <3>2. \A i \in bad : Cardinality({k \in bad : k <= i}) = n <=> i = j
      <4>1. \A i \in bad : {k \in bad : k <= i} = ZkBadUpTo(i)
        BY <2>3
      <4>2. \A i \in bad : i <= j \/ j <= i
        BY <2>1
      <4>3. \A i \in bad : Cardinality(ZkBadUpTo(i)) = n => i = j
        BY <2>8, <3>1, <4>2
      <4> QED
        BY <3>1, <4>1, <4>3
    <3>3. Nth(n) = j
      BY <3>2
    <3>4. zk.reports[n].message[1] \in ZkPlaces
      BY <3>1 DEF ZkFirst
    <3> QED
      BY <2>9, <3>1, <3>3, <3>4
  <2>12. [n \in DOMAIN zk.reports |-> zk.reports[n].message[1]] = [n \in 1 .. Cardinality(bad) |-> First(zk_suite[Nth(n)])]
    BY <2>10, <2>11
  <2> QED
    BY <2>5, <2>6, <2>7, <2>12 DEF ZkAccounted
<1> QED
  BY <1>1, SuiteIsRun, PTL

----------------------------------------------------------------------------
(***************************************************************************)
(* Cygwin's old LTP library (tst_res, tst_brk, parse_opts and              *)
(* usc_test_looping, cygwin.h).  Numbers from the buffered result on wait  *)
(* in the buffer, all of its type; every number before it is told by the   *)
(* lines printed, as far as the mode shows its type.  The loop goes beyond *)
(* its count only with a duration or for ever.                             *)
(***************************************************************************)
CyTypes == {"PASS", "FAIL", "BROK", "CONF", "RETR", "WARN", "INFO"}
CyMessages == {"m", "n", "options", "remaining"}
CyCaseTypes == CyTypes \ {"WARN", "INFO"}
CyLines == [from : Nat, to : Nat, type : CyTypes, message : CyMessages]
CyLasts == {None} \cup [num : Nat \ {0}, type : CyCaseTypes, message : CyMessages]
CyResults == [exitval : SUBSET CyTypes, count : Nat, last : CyLasts, printed : Seq(CyLines)]

\* Every result so far is told by a line, if the mode shows it, and no line tells otherwise.
CyAllTold(res, calls) ==
    /\ \A call \in calls : Shown(call[2]) =>
         \E k \in DOMAIN res.printed : res.printed[k].type = call[2] /\ Covers(res.printed[k], call[1])
    /\ \A call \in calls, k \in DOMAIN res.printed :
         call[1] > 0 /\ Covers(res.printed[k], call[1]) => res.printed[k].type = call[2]

\* The first number that no line may have yet: those from it on are in the buffer.
CyEdge(res) == IF res.last = None THEN res.count + 1 ELSE res.last.num
CyBefore(res, calls) == {call \in calls : call[1] < CyEdge(res)}

CyToldSoFar(res, calls) ==
    /\ res \in CyResults /\ calls \subseteq Nat \X CyTypes \X CyMessages
    /\ res.exitval = {call[2] : call \in calls}
    /\ res.last # None => /\ cy_mode \in {"CONDENSE", "NOPASS"}
                          /\ res.last.num <= res.count /\ res.last.type \in res.exitval
    /\ \A call \in calls : /\ call[1] <= res.count
                           /\ call[1] >= CyEdge(res) => call[2] = res.last.type
    /\ \A k \in DOMAIN res.printed : res.printed[k].to < CyEdge(res)
    /\ CyAllTold(res, CyBefore(res, calls))

\* When tst_print prints nothing.
CySilent(type) == cy_mode = "DISCARD" \/ (cy_mode = "NOPASS" /\ type \notin Failures)

\* A line, and one of a range.
LEMMA CyLineIs ==
  ASSUME NEW num \in Nat, NEW range \in Int, NEW type \in CyTypes, NEW message \in CyMessages
  PROVE  /\ Line(num, range, type, message) \in CyLines
         /\ Line(num, range, type, message).from = num /\ Line(num, range, type, message).type = type
         /\ Line(num, range, type, message).message = message
         /\ range \in Nat \ {0} => Line(num, range, type, message).to = num + range - 1
<1> DEFINE to == IF range > 1 THEN num + range - 1 ELSE num
<1>1. to \in Nat /\ (range \in Nat \ {0} => to = num + range - 1)
  OBVIOUS
<1>2. Line(num, range, type, message) = [from |-> num, to |-> to, type |-> type, message |-> message]
  BY DEF Line
<1> HIDE DEF to
<1> QED
  BY <1>1, <1>2 DEF CyLines

LEMMA CyPrintIs ==
  ASSUME NEW res \in CyResults, NEW num \in Nat, NEW range \in Int, NEW type \in CyTypes,
         NEW message \in CyMessages
  PROVE  /\ tst_print(res, num, range, type, message) \in CyResults
         /\ tst_print(res, num, range, type, message).exitval = res.exitval \cup {type}
         /\ tst_print(res, num, range, type, message).count = res.count
         /\ tst_print(res, num, range, type, message).last = res.last
         /\ tst_print(res, num, range, type, message).printed =
              IF CySilent(type) THEN res.printed
              ELSE Append(res.printed, Line(num, range, type, message))
<1> DEFINE l == Line(num, range, type, message)
           p == IF CySilent(type) THEN res.printed
                ELSE Append(res.printed, l)
           e == res.exitval \cup {type}
           r == tst_print(res, num, range, type, message)
<1>1. res.exitval \in SUBSET CyTypes /\ res.printed \in Seq(CyLines)
  BY DEF CyResults
<1>2. l \in CyLines
  BY CyLineIs
<1>3. p \in Seq(CyLines) /\ e \in SUBSET CyTypes
  <2> HIDE DEF l
  <2> QED
    BY <1>1, <1>2
<1>4. r = [res EXCEPT !.exitval = e, !.printed = p]
  BY Zenon DEF tst_print, CySilent
<1> HIDE DEF l, p, e, r
<1>5. r \in CyResults /\ r.exitval = e /\ r.count = res.count /\ r.last = res.last /\ r.printed = p
  BY <1>3, <1>4 DEF CyResults
<1> QED
  BY <1>5 DEF p, e, r, l

\* What is in the buffer is printed.
LEMMA CyLastLine ==
  ASSUME NEW num, NEW range, NEW type, NEW message, num \in Nat, range \in Int, type \in CyTypes,
         message \in CyMessages
  PROVE  LET l == Line(num, range, type, message)
         IN /\ l \in CyLines /\ l.from = num /\ l.type = type /\ l.message = message
            /\ range > 0 => l.to = num + range - 1
<1>1. range > 0 => range \in Nat \ {0}
  OBVIOUS
<1> QED
  BY <1>1, CyLineIs

LEMMA CyLastPrint ==
  ASSUME NEW res \in CyResults, res.last # None, NEW range \in Int
  PROVE  LET l == Line(res.last.num, range, res.last.type, res.last.message)
             r == tst_print(res, res.last.num, range, res.last.type, res.last.message)
         IN /\ l \in CyLines /\ l.from = res.last.num /\ l.type = res.last.type
            /\ l.message = res.last.message /\ (range > 0 => l.to = res.last.num + range - 1)
            /\ r \in CyResults /\ r.exitval = res.exitval \cup {res.last.type} /\ r.count = res.count
            /\ r.last = res.last
            /\ r.printed = IF CySilent(res.last.type) THEN res.printed ELSE Append(res.printed, l)
<1> DEFINE num == res.last.num
           type == res.last.type
           message == res.last.message
<1>1. num \in Nat /\ type \in CyTypes /\ message \in CyMessages
  BY DEF CyResults, CyLasts, CyCaseTypes
<1> HIDE DEF num, type, message
<1>2. LET l == Line(num, range, type, message)
      IN /\ l \in CyLines /\ l.from = num /\ l.type = type /\ l.message = message
         /\ range > 0 => l.to = num + range - 1
  BY <1>1, CyLastLine
<1>3. LET r == tst_print(res, num, range, type, message)
      IN /\ r \in CyResults /\ r.exitval = res.exitval \cup {type} /\ r.count = res.count
         /\ r.last = res.last
         /\ r.printed = IF CySilent(type) THEN res.printed ELSE Append(res.printed, Line(num, range, type, message))
  BY <1>1, CyPrintIs
<1> QED
  BY <1>2, <1>3 DEF num, type, message

LEMMA CyLinesAre ==
  ASSUME NEW p \in Seq(CyLines)
  PROVE  \A k \in DOMAIN p : p[k].from \in Nat /\ p[k].to \in Nat /\ p[k].type \in CyTypes
<1>1. \A k \in DOMAIN p : p[k] \in CyLines
  OBVIOUS
<1>2. \A l \in CyLines : l.from \in Nat /\ l.to \in Nat /\ l.type \in CyTypes
  BY DEF CyLines
<1> QED
  BY <1>1, <1>2

\* One line more.
LEMMA CyAddLine ==
  ASSUME NEW p \in Seq(CyLines), NEW l \in CyLines
  PROVE  /\ DOMAIN p = 1 .. Len(p) /\ Len(p) \in Nat /\ DOMAIN Append(p, l) = 1 .. Len(p) + 1
         /\ \A k \in DOMAIN p : Append(p, l)[k] = p[k]
         /\ Append(p, l)[Len(p) + 1] = l
BY AppendProperties

\* A line that is true of what it covers keeps the rest told.
LEMMA CyLineTells ==
  ASSUME NEW p \in Seq(CyLines), NEW l \in CyLines,
         NEW calls \in SUBSET (Nat \X CyTypes \X CyMessages), NEW more \in SUBSET calls,
         NEW res, NEW r, res.printed = p, r.printed = Append(p, l),
         CyAllTold(res, calls \ more),
         \A call \in calls : call[1] > 0 /\ Covers(l, call[1]) => call[2] = l.type,
         \A call \in more : call[2] = l.type /\ Covers(l, call[1]),
         \A call \in more, k \in DOMAIN p : call[1] > 0 => ~Covers(p[k], call[1])
  PROVE  CyAllTold(r, calls)
<1>1. /\ DOMAIN p = 1 .. Len(p) /\ Len(p) \in Nat /\ DOMAIN r.printed = 1 .. Len(p) + 1
      /\ \A k \in DOMAIN p : r.printed[k] = p[k]
      /\ r.printed[Len(p) + 1] = l
  BY CyAddLine
<1>2. \A k \in DOMAIN r.printed : k \in DOMAIN p \/ k = Len(p) + 1
  BY <1>1
<1>3. ASSUME NEW call \in calls, Shown(call[2])
      PROVE  \E k \in DOMAIN r.printed : r.printed[k].type = call[2] /\ Covers(r.printed[k], call[1])
  <2>1. CASE call \in more
    BY <1>1, <2>1
  <2>2. CASE call \notin more
    <3>1. PICK k \in DOMAIN p : p[k].type = call[2] /\ Covers(p[k], call[1])
      BY <1>3, <2>2 DEF CyAllTold
    <3>2. k \in DOMAIN r.printed
      BY <1>1
    <3> QED
      BY <1>1, <3>1, <3>2
  <2> QED
    BY <2>1, <2>2
<1>4. ASSUME NEW call \in calls, NEW k \in DOMAIN r.printed, call[1] > 0,
             Covers(r.printed[k], call[1])
      PROVE  r.printed[k].type = call[2]
  <2>1. CASE k = Len(p) + 1
    BY <1>1, <1>4, <2>1
  <2>2. CASE k \in DOMAIN p
    <3>1. call \notin more
      BY <1>1, <1>4, <2>2
    <3> QED
      BY <1>1, <1>4, <2>2, <3>1 DEF CyAllTold
  <2> QED
    BY <1>2, <2>1, <2>2
<1> QED
  BY <1>3, <1>4 DEF CyAllTold

\* What a mode does not print it does not show.
LEMMA CyNotShown ==
  ASSUME NEW type \in CyTypes, CySilent(type)
  PROVE  ~Shown(type)
BY DEF Shown, CySilent

\* What is in the buffer is printed: all is told.
LEMMA CyUnbuffered ==
  ASSUME NEW res, NEW calls, CyToldSoFar(res, calls), res.last # None, NEW range \in Nat \ {0},
         range = res.count + 1 - res.last.num
  PROVE  LET r == tst_print(res, res.last.num, range, res.last.type, res.last.message)
         IN /\ r \in CyResults /\ r.exitval = res.exitval /\ r.count = res.count
            /\ CyAllTold(r, calls)
            /\ r.last = res.last
            /\ \A k \in DOMAIN r.printed : r.printed[k].to <= res.count
<1> DEFINE r == tst_print(res, res.last.num, range, res.last.type, res.last.message)
           l == Line(res.last.num, range, res.last.type, res.last.message)
<1>1. /\ res \in CyResults /\ calls \in SUBSET (Nat \X CyTypes \X CyMessages)
      /\ res.last \in [num : Nat \ {0}, type : CyCaseTypes, message : CyMessages] /\ res.count \in Nat
      /\ res.printed \in Seq(CyLines) /\ res.last.type \in res.exitval
      /\ CyEdge(res) = res.last.num
  BY DEF CyToldSoFar, CyResults, CyLasts, CyEdge
<1>2. /\ res.last.num \in Nat \ {0} /\ res.last.num \in Nat /\ res.last.type \in CyTypes
      /\ res.last.message \in CyMessages
  BY <1>1 DEF CyCaseTypes
<1>3. /\ r \in CyResults /\ r.exitval = res.exitval \cup {res.last.type}
      /\ r.count = res.count /\ r.last = res.last
      /\ r.printed = IF CySilent(res.last.type) THEN res.printed
                     ELSE Append(res.printed, l)
  <2>1. range \in Int
    OBVIOUS
  <2> QED
    BY <1>1, <2>1, CyLastPrint, Zenon
<1>4. res.exitval \cup {res.last.type} = res.exitval
  BY <1>1
<1>5. /\ \A call \in calls : /\ call[1] \in Nat /\ call[1] <= res.count
                             /\ call[1] >= res.last.num => call[2] = res.last.type
      /\ \A k \in DOMAIN res.printed : res.printed[k].to < res.last.num
      /\ CyAllTold(res, CyBefore(res, calls))
  BY <1>1 DEF CyToldSoFar
<1>6. l \in CyLines /\ l.from = res.last.num /\ l.to = res.count /\ l.type = res.last.type
  <2>1. range \in Int /\ range > 0 /\ res.last.num + range - 1 = res.count
    BY <1>1, <1>2
  <2>2. /\ l \in CyLines /\ l.from = res.last.num /\ l.type = res.last.type
        /\ (range > 0 => l.to = res.last.num + range - 1)
    BY <1>1, <2>1, CyLastPrint, Zenon
  <2> HIDE DEF l
  <2> QED
    BY <2>1, <2>2
<1> DEFINE more == {call \in calls : call[1] >= res.last.num}
<1>7. more \in SUBSET calls /\ calls \ more = CyBefore(res, calls)
  BY <1>1, <1>2, <1>5 DEF CyBefore
<1>8. \A call \in more, k \in DOMAIN res.printed : ~Covers(res.printed[k], call[1])
  <2>1. \A k \in DOMAIN res.printed : res.printed[k].to \in Nat
    BY <1>1, CyLinesAre
  <2> QED
    BY <1>2, <1>5, <2>1 DEF Covers
<1> HIDE DEF l, r
<1>9. CASE r.printed = Append(res.printed, l)
  <2>1. \A call \in calls : call[1] > 0 /\ Covers(l, call[1]) => call[2] = l.type
    BY <1>2, <1>5, <1>6 DEF Covers
  <2>2. \A call \in more : call[2] = l.type /\ Covers(l, call[1])
    BY <1>2, <1>5, <1>6 DEF Covers
  <2>3. CyAllTold(r, calls)
    <3> DEFINE p == res.printed
    <3>1. /\ p \in Seq(CyLines) /\ l \in CyLines /\ more \in SUBSET calls /\ res.printed = p
          /\ r.printed = Append(p, l) /\ CyAllTold(res, calls \ more)
          /\ \A call \in more, k \in DOMAIN p : call[1] > 0 => ~Covers(p[k], call[1])
      BY <1>1, <1>5, <1>6, <1>7, <1>8, <1>9
    <3> HIDE DEF more, p
    <3> QED
      BY <1>1, <2>1, <2>2, <3>1, CyLineTells
  <2>4. \A k \in DOMAIN r.printed : r.printed[k].to <= res.count
    <3>1. /\ DOMAIN r.printed = 1 .. Len(res.printed) + 1
          /\ DOMAIN res.printed = 1 .. Len(res.printed)
          /\ \A k \in DOMAIN res.printed : r.printed[k] = res.printed[k]
          /\ r.printed[Len(res.printed) + 1] = l /\ Len(res.printed) \in Nat
      BY <1>1, <1>6, <1>9, CyAddLine
    <3>2. \A k \in DOMAIN res.printed : res.printed[k].to <= res.count
      <4>1. \A k \in DOMAIN res.printed : res.printed[k].to \in Nat
        BY <1>1, CyLinesAre
      <4>2. res.last.num <= res.count
        BY DEF CyToldSoFar
      <4> QED
        BY <1>1, <1>2, <1>5, <4>1, <4>2
    <3>3. \A k \in DOMAIN r.printed : k \in DOMAIN res.printed \/ k = Len(res.printed) + 1
      BY <3>1
    <3> QED
      BY <1>1, <1>6, <3>1, <3>2, <3>3
  <2> QED
    BY <1>3, <1>4, <2>3, <2>4 DEF r
<1>10. CASE r.printed = res.printed /\ CySilent(res.last.type)
  <2>1. ~Shown(res.last.type)
    BY <1>2, <1>10, CyNotShown
  <2>2. CyAllTold(r, calls)
    <3>1. \A call \in calls : call \in CyBefore(res, calls) \/ call \in more
      BY <1>7
    <3>2. \A call \in more : call[2] = res.last.type
      BY <1>5
    <3> HIDE DEF more
    <3> QED
      BY <1>5, <1>7, <1>8, <1>10, <2>1, <3>1, <3>2 DEF CyAllTold
  <2>3. \A k \in DOMAIN r.printed : r.printed[k].to <= res.count
    <3>1. \A k \in DOMAIN res.printed : res.printed[k].to \in Nat
      BY <1>1, CyLinesAre
    <3>2. res.last.num <= res.count
      BY DEF CyToldSoFar
    <3> QED
      BY <1>1, <1>2, <1>5, <1>10, <3>1, <3>2
  <2> QED
    BY <1>3, <1>4, <2>2, <2>3 DEF r
<1> QED
  BY <1>3, <1>9, <1>10 DEF r

\* The calls that a tst_res stands for.
CyNumbers(res, range, type, message) ==
    IF type \in {"WARN", "INFO"} THEN {<<0, type, message>>}
    ELSE {<<i, type, message>> : i \in res.count + 1 .. res.count + range}

LEMMA CyToldIs ==
  ASSUME NEW res, NEW calls, CyToldSoFar(res, calls)
  PROVE  /\ res \in CyResults /\ calls \in SUBSET (Nat \X CyTypes \X CyMessages) /\ res.count \in Nat
         /\ res.exitval \in SUBSET CyTypes /\ res.printed \in Seq(CyLines)
         /\ res.last # None => /\ res.last \in [num : Nat \ {0}, type : CyCaseTypes, message : CyMessages]
                               /\ res.last.num \in Nat \ {0} /\ res.last.num <= res.count
                               /\ res.last.type \in CyCaseTypes
         /\ CyEdge(res) \in Nat \ {0} /\ CyEdge(res) <= res.count + 1
         /\ \A k \in DOMAIN res.printed : res.printed[k].to \in Nat /\ res.printed[k].to < CyEdge(res)
         /\ \A call \in calls : call[1] \in Nat /\ call[1] <= res.count
<1>1. /\ res \in CyResults /\ calls \in SUBSET (Nat \X CyTypes \X CyMessages)
      /\ res.count \in Nat
      /\ res.exitval \in SUBSET CyTypes /\ res.printed \in Seq(CyLines)
      /\ res.last \in CyLasts
  BY DEF CyToldSoFar, CyResults
<1>2. res.last # None => /\ res.last \in [num : Nat \ {0}, type : CyCaseTypes, message : CyMessages]
                         /\ res.last.num \in Nat \ {0} /\ res.last.num <= res.count
                         /\ res.last.type \in CyCaseTypes
  BY <1>1 DEF CyToldSoFar, CyLasts
<1>3. CyEdge(res) \in Nat \ {0} /\ CyEdge(res) <= res.count + 1
  BY <1>1, <1>2 DEF CyEdge
<1>4. \A k \in DOMAIN res.printed : res.printed[k].to \in Nat /\ res.printed[k].to < CyEdge(res)
  BY <1>1, CyLinesAre DEF CyToldSoFar
<1>5. \A call \in calls : call[1] \in Nat /\ call[1] <= res.count
  BY <1>1 DEF CyToldSoFar
<1> QED
  BY <1>1, <1>2, <1>3, <1>4, <1>5

\* r is res with range more results of a type, but for the lines and the buffer.
CyCountsUp(r, res, range, type) ==
    r \in CyResults /\ r.exitval = res.exitval \cup {type} /\ r.count = res.count + range
CyMerges(r, res, type) ==
    res.last # None /\ res.last.type = type /\ r.last = res.last /\ r.printed = res.printed
CyBuffers(r, res, calls, type) ==
    /\ r.last # None /\ r.last.num = res.count + 1 /\ r.last.type = type
    /\ CyAllTold(r, calls) /\ \A k \in DOMAIN r.printed : r.printed[k].to <= res.count
CyLists(r, res, range, type, rows) ==
    /\ r.printed = res.printed \o rows /\ Len(rows) = range
    /\ \A i \in 1 .. range : rows[i].from = res.count + i /\ rows[i].to = res.count + i /\ rows[i].type = type

LEMMA CyNumberedAre ==
  ASSUME NEW res \in CyResults, NEW range \in Nat \ {0}, NEW type \in CyCaseTypes,
         NEW message \in CyMessages
  PROVE  /\ CyNumbers(res, range, type, message) \in SUBSET (Nat \X CyTypes \X CyMessages)
         /\ \A call \in CyNumbers(res, range, type, message) :
              call[1] \in Nat /\ call[2] = type /\ call[1] > res.count /\ call[1] <= res.count + range
         /\ {call[2] : call \in CyNumbers(res, range, type, message)} = {type}
<1> DEFINE new == CyNumbers(res, range, type, message)
           numbers == res.count + 1 .. res.count + range
<1>1. res.count \in Nat /\ type \in CyTypes /\ type \notin {"WARN", "INFO"}
  BY DEF CyResults, CyCaseTypes
<1>2. new = {<<i, type, message>> : i \in numbers}
  BY <1>1 DEF CyNumbers
<1>3. \A i \in numbers : i \in Nat /\ i > res.count /\ i <= res.count + range
  BY <1>1
<1>4. res.count + 1 \in numbers
  BY <1>1
<1> HIDE DEF new, numbers
<1>5. \A call \in new : \E i \in numbers : call = <<i, type, message>>
  BY <1>2
<1>6. \A call \in new : /\ call \in Nat \X CyTypes \X CyMessages /\ call[1] \in Nat /\ call[2] = type
                        /\ call[1] > res.count /\ call[1] <= res.count + range
  BY <1>1, <1>3, <1>5
<1>7. new # {}
  BY <1>2, <1>4
<1> QED
  BY <1>6, <1>7 DEF new

LEMMA CyTwoLists ==
  ASSUME NEW p \in Seq(CyLines), NEW q \in Seq(CyLines)
  PROVE  /\ DOMAIN p = 1 .. Len(p) /\ Len(p) \in Nat /\ DOMAIN (p \o q) = 1 .. Len(p) + Len(q)
         /\ \A k \in 1 .. Len(p) : (p \o q)[k] = p[k]
         /\ \A i \in 1 .. Len(q) : (p \o q)[Len(p) + i] = q[i]
BY ConcatProperties

\* The types of one more call.
LEMMA CyTypesOf ==
  ASSUME NEW calls, NEW new, NEW type, NEW exitval, exitval = {call[2] : call \in calls},
         {call[2] : call \in new} = {type}
  PROVE  exitval \cup {type} = {call[2] : call \in calls \cup new}
OBVIOUS

\* A result that is neither shown nor printed is only counted.
LEMMA CyUncounted ==
  ASSUME NEW res, NEW calls, CyToldSoFar(res, calls), NEW range \in Nat \ {0},
         NEW type \in CyCaseTypes,
         NEW message \in CyMessages, res.last = None, ~Shown(type),
         NEW r, CyCountsUp(r, res, range, type), r.last = None, r.printed = res.printed
  PROVE  CyToldSoFar(r, calls \cup CyNumbers(res, range, type, message))
<1> DEFINE new == CyNumbers(res, range, type, message)
<1>0. res \in CyResults
  BY CyToldIs
<1>1. /\ r \in CyResults /\ r.exitval = res.exitval \cup {type} /\ r.count = res.count + range
      /\ res \in CyResults /\ calls \in SUBSET (Nat \X CyTypes \X CyMessages)
      /\ res.count \in Nat
      /\ CyEdge(res) = res.count + 1 /\ CyEdge(r) = res.count + range + 1
      /\ \A k \in DOMAIN res.printed : res.printed[k].to \in Nat /\ res.printed[k].to < CyEdge(res)
      /\ \A call \in calls : call[1] \in Nat /\ call[1] <= res.count
  BY CyToldIs DEF CyEdge, CyCountsUp
<1>2. /\ new \in SUBSET (Nat \X CyTypes \X CyMessages)
      /\ \A call \in new : call[1] \in Nat /\ call[2] = type /\ call[1] > res.count /\ call[1] <= res.count + range
      /\ {call[2] : call \in new} = {type}
  BY <1>0, CyNumberedAre
<1> HIDE DEF new
<1>3. r.exitval = {call[2] : call \in calls \cup new}
  BY <1>1, <1>2, CyTypesOf DEF CyToldSoFar
<1>4. /\ \A call \in calls \cup new : call[1] \in Nat /\ call[1] <= r.count /\ ~(call[1] >= CyEdge(r))
      /\ \A k \in DOMAIN r.printed : r.printed[k].to < CyEdge(r)
  BY <1>1, <1>2
<1>5. CyAllTold(r, CyBefore(r, calls \cup new))
  <2>1. CyAllTold(res, calls)
    <3>1. CyBefore(res, calls) = calls
      BY <1>1 DEF CyBefore
    <3> QED
      BY <3>1 DEF CyToldSoFar
  <2>2. \A call \in new, k \in DOMAIN res.printed : ~Covers(res.printed[k], call[1])
    BY <1>1, <1>2 DEF Covers
  <2>3. CyAllTold(r, calls \cup new)
    BY <1>2, <2>1, <2>2 DEF CyAllTold
  <2> QED
    BY <2>3 DEF CyAllTold, CyBefore
<1>6. calls \cup new \subseteq Nat \X CyTypes \X CyMessages
  BY <1>1, <1>2
<1> QED
  BY <1>1, <1>3, <1>4, <1>5, <1>6 DEF CyToldSoFar, new

\* A warning or a remark is printed at once, with no number.
LEMMA CyRemarked ==
  ASSUME NEW res, NEW calls, CyToldSoFar(res, calls), NEW type \in {"WARN", "INFO"},
         NEW message \in CyMessages,
         NEW r \in CyResults, r.exitval = res.exitval \cup {type}, r.count = res.count, r.last = res.last,
         r.printed = IF CySilent(type) THEN res.printed
                     ELSE Append(res.printed, Line(0, 1, type, message))
  PROVE  CyToldSoFar(r, calls \cup {<<0, type, message>>})
<1> DEFINE n == <<0, type, message>>
           l == Line(0, 1, type, message)
<1>1. /\ res \in CyResults /\ calls \in SUBSET (Nat \X CyTypes \X CyMessages)
      /\ res.count \in Nat
      /\ res.printed \in Seq(CyLines)
      /\ CyEdge(res) \in Nat \ {0} /\ CyEdge(r) = CyEdge(res)
      /\ \A k \in DOMAIN res.printed : res.printed[k].to \in Nat /\ res.printed[k].to < CyEdge(res)
      /\ \A call \in calls : call[1] \in Nat /\ call[1] <= res.count
  BY CyToldIs DEF CyEdge
<1>2. n \in Nat \X CyTypes \X CyMessages /\ n[1] = 0 /\ n[2] = type /\ type \in CyTypes
  BY DEF CyTypes
<1>3. l \in CyLines /\ l.from = 0 /\ l.to = 0 /\ l.type = type
  <2>1. 0 \in Nat /\ 1 \in Int /\ 1 \in Nat \ {0} /\ 0 + 1 - 1 = 0
    OBVIOUS
  <2> HIDE DEF n
  <2> QED
    BY <1>2, <2>1, CyLineIs
<1>4. /\ r.printed = res.printed /\ ~Shown(type)
      \/ r.printed = Append(res.printed, l)
  BY <1>2, CyNotShown
<1> HIDE DEF n, l
<1>5. r.exitval = {call[2] : call \in calls \cup {n}}
  <2>1. {call[2] : call \in {n}} = {type}
    BY <1>2
  <2> QED
    BY <2>1, CyTypesOf DEF CyToldSoFar
<1>6. \A call \in calls \cup {n} : /\ call[1] \in Nat /\ call[1] <= r.count
                                   /\ call[1] >= CyEdge(r) => call[2] = r.last.type
  BY <1>1, <1>2 DEF CyToldSoFar
<1>7. CyBefore(r, calls \cup {n}) = CyBefore(res, calls) \cup {n}
  BY <1>1, <1>2 DEF CyBefore
<1>8. \A k \in DOMAIN r.printed : r.printed[k].to < CyEdge(r)
  <2>0. 0 < CyEdge(res)
    BY <1>1
  <2>1. CASE r.printed = res.printed
    BY <1>1, <2>1
  <2>2. CASE r.printed = Append(res.printed, l)
    <3>1. /\ DOMAIN r.printed = 1 .. Len(res.printed) + 1
          /\ DOMAIN res.printed = 1 .. Len(res.printed)
          /\ \A k \in DOMAIN res.printed : r.printed[k] = res.printed[k]
          /\ r.printed[Len(res.printed) + 1] = l /\ Len(res.printed) \in Nat
      <4> DEFINE p == res.printed
      <4>1. p \in Seq(CyLines) /\ r.printed = Append(p, l)
        BY <1>1, <2>2
      <4> HIDE DEF p
      <4>2. /\ DOMAIN p = 1 .. Len(p) /\ Len(p) \in Nat /\ DOMAIN Append(p, l) = 1 .. Len(p) + 1
            /\ \A k \in DOMAIN p : Append(p, l)[k] = p[k]
            /\ Append(p, l)[Len(p) + 1] = l
        BY <1>3, <4>1, CyAddLine
      <4> QED
        BY <4>1, <4>2 DEF p
    <3>2. \A k \in DOMAIN r.printed : k \in DOMAIN res.printed \/ k = Len(res.printed) + 1
      BY <3>1
    <3>3. /\ \A k \in DOMAIN res.printed : r.printed[k].to < CyEdge(res)
          /\ r.printed[Len(res.printed) + 1].to < CyEdge(res)
      BY <1>1, <1>3, <2>0, <3>1
    <3> QED
      BY <1>1, <3>2, <3>3
  <2> QED
    BY <1>4, <2>1, <2>2
<1>9. CyAllTold(r, CyBefore(res, calls) \cup {n})
  <2> DEFINE told == CyBefore(res, calls) \cup {n}
             p == res.printed
  <2>1. CyAllTold(res, CyBefore(res, calls))
    BY DEF CyToldSoFar
  <2>2. CASE r.printed = res.printed /\ ~Shown(type)
    <3>1. \A call \in {n} : ~Shown(call[2]) /\ ~(call[1] > 0)
      BY <1>2, <2>2
    <3> QED
      BY <2>1, <2>2, <3>1 DEF CyAllTold
  <2>3. CASE r.printed = Append(res.printed, l)
    <3>1. /\ p \in Seq(CyLines) /\ told \in SUBSET (Nat \X CyTypes \X CyMessages)
          /\ {n} \in SUBSET told
          /\ res.printed = p /\ r.printed = Append(p, l)
      BY <1>1, <1>2, <2>3 DEF CyBefore
    <3>2. CyAllTold(res, told \ {n})
      BY <2>1 DEF CyAllTold
    <3>3. \A call \in told : call[1] > 0 /\ Covers(l, call[1]) => call[2] = l.type
      <4>1. \A call \in told : call[1] \in Nat
        BY <1>1, <1>2 DEF CyBefore
      <4> QED
        BY <1>3, <4>1 DEF Covers
    <3>4. \A call \in {n} : call[2] = l.type /\ Covers(l, call[1])
      BY <1>2, <1>3 DEF Covers
    <3>5. \A call \in {n}, k \in DOMAIN p : call[1] > 0 => ~Covers(p[k], call[1])
      BY <1>2
    <3> HIDE DEF told, p
    <3>6. CyAllTold(r, told)
      <4> DEFINE more == {n}
      <4>1. /\ more \in SUBSET told /\ CyAllTold(res, told \ more) /\ l \in CyLines
            /\ \A call \in more : call[2] = l.type /\ Covers(l, call[1])
            /\ \A call \in more, k \in DOMAIN p : call[1] > 0 => ~Covers(p[k], call[1])
        BY <1>3, <3>1, <3>2, <3>4, <3>5
      <4> HIDE DEF more
      <4> QED
        BY <3>1, <3>3, <4>1, CyLineTells
    <3> QED
      BY <3>6 DEF told
  <2> QED
    BY <1>4, <2>2, <2>3
<1>10. calls \cup {n} \subseteq Nat \X CyTypes \X CyMessages
  BY <1>1, <1>2
<1>11. r.last # None => /\ cy_mode \in {"CONDENSE", "NOPASS"}
                        /\ r.last.num <= r.count /\ r.last.type \in r.exitval
  BY DEF CyToldSoFar
<1>12. CyToldSoFar(r, calls \cup {n})
  BY <1>5, <1>6, <1>7, <1>8, <1>9, <1>10, <1>11 DEF CyToldSoFar
<1> QED
  BY <1>12 DEF n

\* A result that goes to the buffer, where there is none, or an equal one, or what is there is told.
LEMMA CyCondensed ==
  ASSUME NEW res, NEW calls, CyToldSoFar(res, calls), NEW range \in Nat \ {0},
         NEW type \in CyCaseTypes,
         NEW message \in CyMessages, cy_mode \in {"CONDENSE", "NOPASS"},
         NEW r, CyCountsUp(r, res, range, type), CyMerges(r, res, type) \/ CyBuffers(r, res, calls, type)
  PROVE  CyToldSoFar(r, calls \cup CyNumbers(res, range, type, message))
<1> DEFINE new == CyNumbers(res, range, type, message)
<1>0. res \in CyResults
  BY CyToldIs
<1>1. /\ r \in CyResults /\ r.exitval = res.exitval \cup {type} /\ r.count = res.count + range
      /\ res \in CyResults /\ calls \in SUBSET (Nat \X CyTypes \X CyMessages)
      /\ res.count \in Nat
      /\ res.printed \in Seq(CyLines) /\ r.printed \in Seq(CyLines)
      /\ CyEdge(res) \in Nat \ {0} /\ CyEdge(res) <= res.count + 1
      /\ \A k \in DOMAIN res.printed : res.printed[k].to \in Nat /\ res.printed[k].to < CyEdge(res)
      /\ \A call \in calls : call[1] \in Nat /\ call[1] <= res.count
      /\ res.last # None => res.last.num \in Nat /\ res.last.num <= res.count /\ CyEdge(res) = res.last.num
  BY CyToldIs DEF CyEdge, CyResults, CyCountsUp
<1>2. /\ new \in SUBSET (Nat \X CyTypes \X CyMessages)
      /\ \A call \in new : call[1] \in Nat /\ call[2] = type /\ call[1] > res.count /\ call[1] <= res.count + range
      /\ {call[2] : call \in new} = {type}
  BY <1>0, CyNumberedAre
<1> HIDE DEF new
<1>3. r.exitval = {call[2] : call \in calls \cup new}
  <2>1. res.exitval = {call[2] : call \in calls} /\ r.exitval = res.exitval \cup {type}
    BY <1>1 DEF CyToldSoFar
  <2> QED
    BY <1>2, <2>1, CyTypesOf
<1>4. calls \cup new \subseteq Nat \X CyTypes \X CyMessages /\ \A call \in calls \cup new : call[1] <= r.count
  BY <1>1, <1>2
<1>5. CASE CyMerges(r, res, type)
  <2> USE DEF CyMerges
  <2>1. CyEdge(r) = CyEdge(res) /\ CyEdge(res) <= res.count
    BY <1>1, <1>5 DEF CyEdge
  <2>2. CyBefore(r, calls \cup new) = CyBefore(res, calls)
    BY <1>1, <1>2, <2>1 DEF CyBefore
  <2>3. CyAllTold(r, CyBefore(r, calls \cup new))
    BY <1>5, <2>2 DEF CyToldSoFar, CyAllTold
  <2>4. \A call \in calls \cup new : call[1] >= CyEdge(r) => call[2] = r.last.type
    BY <1>2, <1>5, <2>1 DEF CyToldSoFar
  <2>5. r.last.num <= r.count /\ r.last.type \in r.exitval
    BY <1>1, <1>5
  <2>6. \A k \in DOMAIN r.printed : r.printed[k].to < CyEdge(r)
    BY <1>1, <1>5, <2>1
  <2> QED
    BY <1>1, <1>3, <1>4, <2>3, <2>4, <2>5, <2>6 DEF CyToldSoFar, new
<1>6. CASE CyBuffers(r, res, calls, type)
  <2> USE DEF CyBuffers
  <2>1. CyEdge(r) = res.count + 1 /\ r.last.num = res.count + 1 /\ r.last.type = type
    BY <1>6 DEF CyEdge
  <2>2. CyBefore(r, calls \cup new) = calls
    BY <1>1, <1>2, <2>1 DEF CyBefore
  <2>3. CyAllTold(r, CyBefore(r, calls \cup new))
    BY <1>6, <2>2
  <2>4. \A call \in calls \cup new : call[1] >= CyEdge(r) => call[2] = r.last.type
    BY <1>1, <1>2, <2>1
  <2>5. r.last.num <= r.count /\ r.last.type \in r.exitval
    BY <1>1, <2>1
  <2>6. \A k \in DOMAIN r.printed : r.printed[k].to < CyEdge(r)
    <3>1. \A k \in DOMAIN r.printed : r.printed[k].to \in Nat
      BY <1>1, CyLinesAre
    <3> QED
      BY <1>1, <1>6, <2>1, <3>1
  <2> QED
    BY <1>1, <1>3, <1>4, <2>3, <2>4, <2>5, <2>6 DEF CyToldSoFar, new
<1> QED
  BY <1>5, <1>6

\* With nothing in a buffer, all is told.
LEMMA CyNoBuffer ==
  ASSUME NEW res, NEW calls, CyToldSoFar(res, calls), res.last = None
  PROVE  CyAllTold(res, calls) /\ \A k \in DOMAIN res.printed : res.printed[k].to <= res.count
<1>1. /\ res.count \in Nat /\ CyEdge(res) = res.count + 1
      /\ \A k \in DOMAIN res.printed : res.printed[k].to \in Nat /\ res.printed[k].to < CyEdge(res)
      /\ \A call \in calls : call[1] \in Nat /\ call[1] <= res.count
  BY CyToldIs DEF CyEdge
<1>2. CyBefore(res, calls) = calls
  BY <1>1 DEF CyBefore
<1> QED
  BY <1>1, <1>2 DEF CyToldSoFar

\* A line for each number.
LEMMA CyListed ==
  ASSUME NEW res, NEW calls, CyToldSoFar(res, calls), NEW range \in Nat \ {0},
         NEW type \in CyCaseTypes,
         NEW message \in CyMessages, res.last = None,
         NEW r, CyCountsUp(r, res, range, type), r.last = None,
         NEW rows \in Seq(CyLines), CyLists(r, res, range, type, rows)
  PROVE  CyToldSoFar(r, calls \cup CyNumbers(res, range, type, message))
<1> DEFINE new == CyNumbers(res, range, type, message)
           p == res.printed
<1>0. res \in CyResults
  BY CyToldIs
<1>1. /\ r \in CyResults /\ r.exitval = res.exitval \cup {type} /\ r.count = res.count + range
      /\ res \in CyResults /\ calls \in SUBSET (Nat \X CyTypes \X CyMessages)
      /\ res.count \in Nat
      /\ p \in Seq(CyLines)
      /\ CyEdge(res) = res.count + 1 /\ CyEdge(r) = res.count + range + 1
      /\ \A k \in DOMAIN p : p[k].to \in Nat /\ p[k].to < CyEdge(res)
      /\ \A call \in calls : call[1] \in Nat /\ call[1] <= res.count
  <2>1. /\ calls \in SUBSET (Nat \X CyTypes \X CyMessages)
        /\ res.count \in Nat /\ p \in Seq(CyLines)
        /\ \A k \in DOMAIN p : p[k].to \in Nat /\ p[k].to < CyEdge(res)
        /\ \A call \in calls : call[1] \in Nat /\ call[1] <= res.count
    BY CyToldIs
  <2>2. r \in CyResults /\ r.exitval = res.exitval \cup {type} /\ r.count = res.count + range
    BY DEF CyCountsUp
  <2>3. CyEdge(res) = res.count + 1
    BY DEF CyEdge
  <2>4. CyEdge(r) = res.count + range + 1
    BY <2>1, <2>2 DEF CyEdge
  <2> QED
    BY <1>0, <2>1, <2>2, <2>3, <2>4
<1>2. /\ new \in SUBSET (Nat \X CyTypes \X CyMessages)
      /\ \A call \in new : call[1] \in Nat /\ call[2] = type /\ call[1] > res.count /\ call[1] <= res.count + range
      /\ {call[2] : call \in new} = {type}
  BY <1>0, CyNumberedAre, SMTT(40)
<1>5. r.printed = p \o rows /\ Len(rows) = range
      /\ \A i \in 1 .. range : rows[i].from = res.count + i /\ rows[i].to = res.count + i /\ rows[i].type = type
  BY DEF CyLists
<1> HIDE DEF new, p
<1>6. /\ DOMAIN p = 1 .. Len(p) /\ Len(p) \in Nat /\ DOMAIN r.printed = 1 .. Len(p) + range
      /\ \A k \in 1 .. Len(p) : r.printed[k] = p[k]
      /\ \A i \in 1 .. range : r.printed[Len(p) + i] = rows[i]
  BY <1>1, <1>5, CyTwoLists
<1>7. \A k \in DOMAIN r.printed : k \in DOMAIN p \/ \E i \in 1 .. range : k = Len(p) + i
  <2> SUFFICES ASSUME NEW k \in 1 .. Len(p) + range, k \notin 1 .. Len(p)
               PROVE  \E i \in 1 .. range : k = Len(p) + i
    BY <1>6
  <2>1. k - Len(p) \in 1 .. range /\ k = Len(p) + (k - Len(p))
    BY <1>6
  <2> QED
    BY <2>1
<1>8. r.exitval = {call[2] : call \in calls \cup new}
  BY <1>1, <1>2, CyTypesOf, ZenonT(40) DEF CyToldSoFar
<1>9. calls \cup new \subseteq Nat \X CyTypes \X CyMessages
      /\ \A call \in calls \cup new : call[1] \in Nat /\ call[1] <= r.count /\ ~(call[1] >= CyEdge(r))
  BY <1>1, <1>2
<1>10. \A k \in DOMAIN r.printed : r.printed[k].to < CyEdge(r)
  <2> SUFFICES ASSUME NEW k \in DOMAIN r.printed
               PROVE  r.printed[k].to < CyEdge(r)
    OBVIOUS
  <2>1. CASE k \in DOMAIN p
    BY <1>1, <1>6, <2>1
  <2>2. ASSUME NEW i \in 1 .. range, k = Len(p) + i
        PROVE  r.printed[k].to < CyEdge(r)
    BY <1>1, <1>5, <1>6, <2>2
  <2> QED
    BY <1>7, <2>1, <2>2
<1>11. CyAllTold(res, calls)
  BY CyNoBuffer
<1>12. ASSUME NEW call \in calls \cup new, Shown(call[2])
       PROVE  \E k \in DOMAIN r.printed : r.printed[k].type = call[2] /\ Covers(r.printed[k], call[1])
  <2>1. CASE call \in calls
    <3>1. PICK k \in DOMAIN p : p[k].type = call[2] /\ Covers(p[k], call[1])
      BY <1>11, <1>12, <2>1 DEF CyAllTold, p
    <3>2. k \in DOMAIN r.printed /\ r.printed[k] = p[k]
      BY <1>6
    <3> QED
      BY <3>1, <3>2
  <2>2. CASE call \in new
    <3> DEFINE i == call[1] - res.count
    <3>1. i \in 1 .. range /\ call[1] = res.count + i
      BY <1>1, <1>2, <2>2
    <3> HIDE DEF i
    <3>2. Len(p) + i \in 1 .. Len(p) + range
      BY <1>6, <3>1
    <3>4. Len(p) + i \in DOMAIN r.printed /\ r.printed[Len(p) + i] = rows[i]
      BY <1>6, <3>1, <3>2, Zenon
    <3>3. rows[i].type = call[2] /\ Covers(rows[i], call[1])
      BY <1>1, <1>2, <1>5, <2>2, <3>1, SMTT(40) DEF Covers
    <3> QED
      BY <3>4, <3>3
  <2> QED
    BY <2>1, <2>2
<1>13. ASSUME NEW call \in calls \cup new, NEW k \in DOMAIN r.printed, call[1] > 0,
              Covers(r.printed[k], call[1])
       PROVE  r.printed[k].type = call[2]
  <2>1. CASE k \in DOMAIN p
    <3>1. r.printed[k] = p[k]
      BY <1>6, <2>1
    <3>2. call \in calls
      BY <1>1, <1>2, <1>13, <2>1, <3>1 DEF Covers
    <3> QED
      BY <1>11, <1>13, <2>1, <3>1, <3>2 DEF CyAllTold, p
  <2>2. ASSUME NEW i \in 1 .. range, k = Len(p) + i
        PROVE  r.printed[k].type = call[2]
    <3>1. r.printed[k] = rows[i] /\ rows[i].from = res.count + i /\ rows[i].type = type
      BY <1>5, <1>6, <2>2
    <3>2. call \in new
      BY <1>1, <1>9, <1>13, <3>1 DEF Covers
    <3> QED
      BY <1>2, <3>1, <3>2
  <2> QED
    BY <1>7, <2>1, <2>2
<1>14. CyAllTold(r, CyBefore(r, calls \cup new))
  <2>1. CyAllTold(r, calls \cup new)
    BY <1>12, <1>13 DEF CyAllTold
  <2> QED
    BY <2>1 DEF CyAllTold, CyBefore
<1> QED
  BY <1>1, <1>8, <1>9, <1>10, <1>14 DEF CyToldSoFar, new

LEMMA CyFirstIs ==
  ASSUME NEW res \in CyResults, NEW type \in CyTypes
  PROVE  LET s == [res EXCEPT !.exitval = @ \cup {type}]
         IN /\ s \in CyResults /\ s.exitval = res.exitval \cup {type} /\ s.count = res.count
            /\ s.last = res.last /\ s.printed = res.printed
<1> DEFINE e == res.exitval \cup {type}
           s == [res EXCEPT !.exitval = e]
<1>1. e \in SUBSET CyTypes
  BY DEF CyResults
<1> HIDE DEF e
<1>2. /\ s \in CyResults /\ s.exitval = e /\ s.count = res.count
      /\ s.last = res.last /\ s.printed = res.printed
  BY <1>1 DEF CyResults
<1> QED
  BY <1>2 DEF e

LEMMA CyCountedIs ==
  ASSUME NEW s \in CyResults, NEW range \in Nat
  PROVE  LET r == [s EXCEPT !.count = @ + range]
         IN /\ r \in CyResults /\ r.exitval = s.exitval /\ r.count = s.count + range
            /\ r.last = s.last /\ r.printed = s.printed
BY DEF CyResults

\* A result that is another goes to the buffer.
LEMMA CyBufferedIs ==
  ASSUME NEW s \in CyResults, NEW num \in Nat \ {0}, NEW type \in CyCaseTypes,
         NEW message \in CyMessages
  PROVE  LET r == [s EXCEPT !.last = [num |-> num, type |-> type, message |-> message]]
         IN /\ r \in CyResults /\ r.exitval = s.exitval /\ r.count = s.count
            /\ r.printed = s.printed
            /\ r.last # None /\ r.last.num = num /\ r.last.type = type
<1> DEFINE l == [num |-> num, type |-> type, message |-> message]
           r == [s EXCEPT !.last = l]
<1>1. l \in CyLasts /\ l.num = num /\ l.type = type /\ l # None
  BY DEF CyLasts, None
<1> HIDE DEF l
<1>2. /\ r \in CyResults /\ r.exitval = s.exitval /\ r.count = s.count
      /\ r.printed = s.printed /\ r.last = l
  BY <1>1 DEF CyResults
<1> QED
  BY <1>1, <1>2 DEF l

CyFourModes == {"VERBOSE", "CONDENSE", "NOPASS", "DISCARD"}

\* The same where another type is noted already.
LEMMA CyEmptied ==
  ASSUME NEW res, NEW calls, CyToldSoFar(res, calls), res.last # None, NEW s \in CyResults,
         s.count = res.count, s.last = res.last, s.printed = res.printed, res.exitval \subseteq s.exitval
  PROVE  LET w == tst_print(s, s.last.num, (res.count + 1) - s.last.num, s.last.type, s.last.message)
         IN /\ w \in CyResults /\ w.exitval = s.exitval /\ w.count = s.count
            /\ CyAllTold(w, calls)
            /\ \A k \in DOMAIN w.printed : w.printed[k].to <= res.count
<1> DEFINE num == s.last.num
           type == s.last.type
           message == s.last.message
           range == (res.count + 1) - num
           l == Line(num, range, type, message)
           w == tst_print(s, num, range, type, message)
           v == tst_print(res, num, range, type, message)
           p == IF CySilent(type) THEN s.printed
                ELSE Append(s.printed, l)
<1>1. /\ res \in CyResults /\ num \in Nat /\ num = res.last.num /\ type = res.last.type
      /\ message = res.last.message /\ type \in CyTypes /\ message \in CyMessages /\ range \in Int
      /\ range \in Nat \ {0} /\ range = res.count + 1 - res.last.num /\ type \in s.exitval
  BY CyToldIs DEF CyToldSoFar, CyCaseTypes
<1> HIDE DEF num, type, message, range
<1>2. /\ v \in CyResults /\ v.exitval = res.exitval /\ v.count = res.count
      /\ CyAllTold(v, calls)
      /\ \A k \in DOMAIN v.printed : v.printed[k].to <= res.count
  <2> DEFINE u == tst_print(res, res.last.num, range, res.last.type, res.last.message)
  <2>1. v = u
    BY <1>1
  <2>2. /\ u \in CyResults /\ u.exitval = res.exitval /\ u.count = res.count
        /\ CyAllTold(u, calls) /\ \A k \in DOMAIN u.printed : u.printed[k].to <= res.count
    BY <1>1, CyUnbuffered
  <2> HIDE DEF u, v
  <2> QED
    BY <2>1, <2>2
<1>3. w \in CyResults /\ w.exitval = s.exitval \cup {type} /\ w.count = s.count /\ w.printed = p
  BY <1>1, CyLastPrint, Zenon DEF num, type, message
<1>4. v.printed = p
  <2> DEFINE u == tst_print(res, res.last.num, range, res.last.type, res.last.message)
  <2>1. u.printed = IF CySilent(res.last.type) THEN res.printed
                    ELSE Append(res.printed, Line(res.last.num, range, res.last.type, res.last.message))
    BY <1>1, CyLastPrint, Zenon
  <2>2. u = v /\ p = IF CySilent(res.last.type) THEN res.printed
                    ELSE Append(res.printed, Line(res.last.num, range, res.last.type, res.last.message))
    BY <1>1
  <2> HIDE DEF u, v, p
  <2> QED
    BY <2>1, <2>2
<1> HIDE DEF p, w, v
<1>5. CyAllTold(w, calls)
  BY <1>2, <1>3, <1>4 DEF CyAllTold
<1>6. /\ w \in CyResults /\ w.exitval = s.exitval /\ w.count = s.count /\ CyAllTold(w, calls)
      /\ \A k \in DOMAIN w.printed : w.printed[k].to <= res.count
  BY <1>1, <1>2, <1>3, <1>4, <1>5
<1> QED
  BY <1>6 DEF w, num, type, message, range

\* A result in one of the modes that condense.
LEMMA CyCondenseTells ==
  ASSUME NEW res, NEW calls, CyToldSoFar(res, calls), NEW range \in Nat \ {0},
         NEW type \in CyCaseTypes,
         NEW message \in CyMessages, cy_mode \in {"CONDENSE", "NOPASS"},
         NEW s \in CyResults, s.exitval = res.exitval \cup {type}, s.count = res.count, s.last = res.last,
         s.printed = res.printed
  PROVE  LET u == tst_condense(s, res.count + 1, type, message)
         IN /\ u \in CyResults /\ u.exitval = s.exitval /\ u.count = s.count
            /\ \A r : /\ r.printed = u.printed /\ r.last = u.last
                         => CyMerges(r, res, type) \/ CyBuffers(r, res, calls, type)
<1> DEFINE num == res.count + 1
           u == tst_condense(s, num, type, message)
           told == tst_print(s, s.last.num, (res.count + 1) - s.last.num, s.last.type, s.last.message)
           w == IF s.last = None THEN s ELSE told
           b == [w EXCEPT !.last = [num |-> num, type |-> type, message |-> message]]
<1>1. /\ res \in CyResults /\ num \in Nat \ {0} /\ type \in CyTypes
      /\ res.last # None => /\ res.last.num \in Nat \ {0} /\ res.last.num <= res.count
                            /\ res.last.type \in CyTypes /\ res.last.type \in res.exitval
      /\ res.count \in Nat
  BY CyToldIs DEF CyToldSoFar, CyCaseTypes
<1>2. CASE s.last # None /\ s.last.type = type /\ s.last.message = message
  <2>1. u = s
    BY <1>2 DEF tst_condense
  <2>2. \A r : r.printed = s.printed /\ r.last = s.last => CyMerges(r, res, type)
    BY <1>2 DEF CyMerges
  <2> QED
    BY <2>1, <2>2
<1>3. CASE ~(s.last # None /\ s.last.type = type /\ s.last.message = message)
  <2>1. u = b
    BY <1>3, Zenon DEF tst_condense
  <2>2. /\ w \in CyResults /\ w.exitval = s.exitval /\ w.count = s.count /\ CyAllTold(w, calls)
        /\ \A k \in DOMAIN w.printed : w.printed[k].to <= res.count
    <3>1. CASE s.last = None
      <4>1. CyAllTold(res, calls) /\ \A k \in DOMAIN res.printed : res.printed[k].to <= res.count
        BY <3>1, CyNoBuffer
      <4>2. CyAllTold(s, calls)
        BY <4>1 DEF CyAllTold
      <4> QED
        BY <3>1, <4>1, <4>2
    <3>2. CASE s.last # None
      <4>1. told = tst_print(s, s.last.num, (res.count + 1) - s.last.num, s.last.type, s.last.message)
        BY Zenon
      <4> HIDE DEF told
      <4>3. w = told
        BY <3>2
      <4> HIDE DEF w
      <4>2. res.last # None /\ res.exitval \subseteq s.exitval
        BY <3>2
      <4> QED
        BY <4>1, <4>2, <4>3, CyEmptied
    <3> QED
      BY <3>1, <3>2
  <2> HIDE DEF w
  <2>3. /\ b \in CyResults /\ b.exitval = w.exitval /\ b.count = w.count
        /\ b.printed = w.printed
        /\ b.last # None /\ b.last.num = num /\ b.last.type = type
    BY <1>1, <2>2, CyBufferedIs
  <2> HIDE DEF b
  <2>4. ASSUME NEW r, r.printed = b.printed, r.last = b.last
        PROVE  CyBuffers(r, res, calls, type)
    <3>1. CyAllTold(r, calls) /\ \A k \in DOMAIN r.printed : r.printed[k].to <= res.count
      BY <2>2, <2>3, <2>4 DEF CyAllTold
    <3> QED
      BY <2>3, <2>4, <3>1 DEF CyBuffers
  <2> QED
    BY <2>1, <2>2, <2>3, <2>4
<1> QED
  BY <1>2, <1>3

\* What tst_res reports is told, or waits in the buffer to be.
LEMMA CyResTells ==
  ASSUME NEW res, NEW calls, CyToldSoFar(res, calls), NEW range \in Nat \ {0}, NEW type \in CyTypes,
         NEW message \in CyMessages, cy_mode \in CyFourModes
  PROVE  /\ CyToldSoFar(tst_res(res, range, type, message), calls \cup CyNumbers(res, range, type, message))
         /\ tst_res(res, range, type, message).count =
              IF type \in {"WARN", "INFO"} THEN res.count ELSE res.count + range
<1> DEFINE r == tst_res(res, range, type, message)
           s == [res EXCEPT !.exitval = @ \cup {type}]
           C(x) == [x EXCEPT !.count = @ + range]
           line(i) == Line(res.count + i, 1, type, message)
           rows == [i \in 1 .. range |-> line(i)]
           L(x) == [x EXCEPT !.printed = @ \o rows]
<1>1. /\ res \in CyResults /\ res.count \in Nat /\ res.printed \in Seq(CyLines)
      /\ res.last # None => cy_mode \in {"CONDENSE", "NOPASS"}
  BY CyToldIs DEF CyToldSoFar
<1>2. /\ s \in CyResults /\ s.exitval = res.exitval \cup {type} /\ s.count = res.count
      /\ s.last = res.last /\ s.printed = res.printed
  BY <1>1, CyFirstIs
<1>3. r = CASE type \in {"WARN", "INFO"} -> tst_print(s, 0, 1, type, message)
         [] type \notin {"WARN", "INFO"} /\ cy_mode = "DISCARD" -> C(s)
         [] type \notin {"WARN", "INFO"} /\ cy_mode \in {"CONDENSE", "NOPASS"} ->
              C(tst_condense(s, res.count + 1, type, message))
         [] OTHER -> C(IF type = "PASS" THEN s ELSE L(s))
  BY Zenon DEF tst_res
<1> HIDE DEF s, r
<1>4. CASE type \in {"WARN", "INFO"}
  <2>1. r = tst_print(s, 0, 1, type, message)
    BY <1>3, <1>4
  <2>2. /\ r \in CyResults /\ r.exitval = s.exitval \cup {type} /\ r.count = s.count
        /\ r.last = s.last
        /\ r.printed = IF CySilent(type) THEN s.printed
                       ELSE Append(s.printed, Line(0, 1, type, message))
    <3>1. 0 \in Nat /\ 1 \in Int
      OBVIOUS
    <3> QED
      BY <1>2, <2>1, <3>1, CyPrintIs
  <2>3. 0 + 1 - 1 = 0 /\ s.exitval \cup {type} = res.exitval \cup {type}
    BY <1>2
  <2>4. CyNumbers(res, range, type, message) = {<<0, type, message>>}
    BY <1>4 DEF CyNumbers
  <2>5. CyToldSoFar(r, calls \cup {<<0, type, message>>})
    BY <1>2, <1>4, <2>2, <2>3, CyRemarked
  <2> QED
    BY <1>2, <1>4, <2>2, <2>4, <2>5 DEF r
<1>5. ASSUME type \notin {"WARN", "INFO"}
      PROVE  CyToldSoFar(r, calls \cup CyNumbers(res, range, type, message)) /\ r.count = res.count + range
  <2>1. cy_mode \in {"CONDENSE", "NOPASS"} \/ cy_mode = "DISCARD" \/ cy_mode = "VERBOSE"
    BY DEF CyFourModes
  <2>2. type \in CyCaseTypes
    BY <1>5 DEF CyCaseTypes
  <2>3. CASE cy_mode = "DISCARD" \/ (cy_mode = "VERBOSE" /\ type = "PASS")
    <3>1. r = C(s)
      BY <1>3, <1>5, <2>3
    <3>2. /\ r \in CyResults /\ r.exitval = s.exitval /\ r.count = s.count + range
          /\ r.last = s.last /\ r.printed = s.printed
      BY <1>2, <3>1, CyCountedIs
    <3>3. CyCountsUp(r, res, range, type) /\ r.last = None /\ r.printed = res.printed /\ res.last = None
      BY <1>1, <1>2, <2>3, <3>2 DEF CyCountsUp
    <3>4. ~Shown(type)
      BY <2>3 DEF Shown
    <3> QED
      BY <1>2, <2>2, <3>2, <3>3, <3>4, CyUncounted
  <2>4. CASE cy_mode \in {"CONDENSE", "NOPASS"}
    <3> DEFINE u == tst_condense(s, res.count + 1, type, message)
    <3>1. r = C(u)
      BY <1>3, <1>5, <2>4
    <3>2. /\ u \in CyResults /\ u.exitval = s.exitval /\ u.count = s.count
          /\ \A x : /\ x.printed = u.printed /\ x.last = u.last
                         => CyMerges(x, res, type) \/ CyBuffers(x, res, calls, type)
      BY <1>2, <2>2, <2>4, CyCondenseTells
    <3> HIDE DEF u
    <3>3. /\ r \in CyResults /\ r.exitval = u.exitval /\ r.count = u.count + range
          /\ r.last = u.last /\ r.printed = u.printed
      BY <3>1, <3>2, CyCountedIs
    <3>4. CyCountsUp(r, res, range, type)
      BY <1>2, <3>2, <3>3 DEF CyCountsUp
    <3>5. CyMerges(r, res, type) \/ CyBuffers(r, res, calls, type)
      BY <3>2, <3>3
    <3> QED
      BY <1>2, <2>2, <2>4, <3>2, <3>3, <3>4, <3>5, CyCondensed
  <2>5. CASE cy_mode = "VERBOSE" /\ type # "PASS"
    <3>1. r = C(L(s))
      BY <1>3, <1>5, <2>5
    <3>2. \A i \in 1 .. range : /\ line(i) \in CyLines /\ line(i).from = res.count + i /\ line(i).to = res.count + i
                                /\ line(i).type = type
      <4> SUFFICES ASSUME NEW i \in 1 .. range
                   PROVE  /\ line(i) \in CyLines /\ line(i).from = res.count + i /\ line(i).to = res.count + i
                          /\ line(i).type = type
        OBVIOUS
      <4>1. res.count + i \in Nat /\ 1 \in Int /\ 1 \in Nat \ {0} /\ (res.count + i) + 1 - 1 = res.count + i
        BY <1>1
      <4> QED
        BY <4>1, CyLineIs
    <3> HIDE DEF line
    <3>3. rows \in Seq(CyLines) /\ Len(rows) = range /\ \A i \in 1 .. range : rows[i] = line(i)
      BY <3>2
    <3> HIDE DEF rows
    <3>4. LET x == L(s) IN /\ x \in CyResults /\ x.exitval = s.exitval /\ x.count = s.count /\ x.last = s.last
                           /\ x.printed = s.printed \o rows
      <4> DEFINE q == s.printed \o rows
      <4>1. q \in Seq(CyLines)
        BY <1>1, <1>2, <3>3, ConcatProperties
      <4>2. L(s) = [s EXCEPT !.printed = q]
        OBVIOUS
      <4> HIDE DEF q, L
      <4>3. L(s) \in CyResults /\ L(s).exitval = s.exitval /\ L(s).count = s.count /\ L(s).last = s.last /\ L(s).printed = q
        BY <1>2, <4>1, <4>2 DEF CyResults
      <4> QED
        BY <4>3 DEF q
    <3> HIDE DEF L
    <3>5. /\ r \in CyResults /\ r.exitval = s.exitval /\ r.count = s.count + range
          /\ r.last = s.last /\ r.printed = s.printed \o rows
      BY <3>1, <3>4, CyCountedIs
    <3>6. CyCountsUp(r, res, range, type) /\ r.last = None /\ res.last = None /\ CyLists(r, res, range, type, rows)
      BY <1>1, <1>2, <2>5, <3>2, <3>3, <3>5 DEF CyCountsUp, CyLists
    <3> QED
      BY <1>2, <2>2, <3>3, <3>5, <3>6, CyListed
  <2> QED
    BY <2>1, <2>3, <2>4, <2>5
<1> QED
  BY <1>4, <1>5 DEF r

\* A test may count without a result.
LEMMA CyCountTells ==
  ASSUME NEW res, NEW calls, CyToldSoFar(res, calls), NEW more \in Nat,
         NEW r, r = [res EXCEPT !.count = @ + more]
  PROVE  CyToldSoFar(r, calls)
<1>1. /\ res \in CyResults /\ calls \in SUBSET (Nat \X CyTypes \X CyMessages)
      /\ res.count \in Nat
      /\ res.last # None => res.last.num \in Nat /\ res.last.num <= res.count
      /\ CyEdge(res) \in Nat \ {0} /\ CyEdge(res) <= res.count + 1
      /\ \A k \in DOMAIN res.printed : res.printed[k].to \in Nat /\ res.printed[k].to < CyEdge(res)
      /\ \A call \in calls : call[1] \in Nat /\ call[1] <= res.count
  BY CyToldIs
<1>2. /\ r \in CyResults /\ r.exitval = res.exitval /\ r.count = res.count + more
      /\ r.last = res.last /\ r.printed = res.printed
  BY <1>1, CyCountedIs
<1>3. CASE res.last = None
  <2>1. CyEdge(res) = res.count + 1 /\ CyEdge(r) = res.count + more + 1
    BY <1>2, <1>3 DEF CyEdge
  <2>2. CyBefore(res, calls) = calls /\ CyBefore(r, calls) = calls
    BY <1>1, <2>1 DEF CyBefore
  <2>3. CyAllTold(r, CyBefore(r, calls))
    BY <1>2, <2>2 DEF CyToldSoFar, CyAllTold
  <2>4. /\ \A call \in calls : call[1] <= r.count /\ ~(call[1] >= CyEdge(r))
        /\ \A k \in DOMAIN r.printed : r.printed[k].to < CyEdge(r)
    BY <1>1, <1>2, <2>1
  <2> QED
    BY <1>2, <1>3, <2>3, <2>4 DEF CyToldSoFar
<1>4. CASE res.last # None
  <2>1. CyEdge(r) = CyEdge(res)
    BY <1>2, <1>4 DEF CyEdge
  <2>2. CyAllTold(r, CyBefore(r, calls))
    BY <1>2, <2>1 DEF CyToldSoFar, CyAllTold, CyBefore
  <2>3. \A call \in calls : call[1] <= r.count
    BY <1>1, <1>2
  <2>4. r.last.num <= r.count
    BY <1>1, <1>2, <1>4
  <2> QED
    BY <1>2, <1>4, <2>1, <2>2, <2>3, <2>4 DEF CyToldSoFar
<1> QED
  BY <1>3, <1>4

\* At the end the buffer is printed.
LEMMA CyFlushTells ==
  ASSUME NEW res, NEW calls, CyToldSoFar(res, calls)
  PROVE  CyAllTold(tst_flush(res), calls) /\ tst_flush(res).exitval = {call[2] : call \in calls}
<1>1. res \in CyResults /\ res.exitval = {call[2] : call \in calls} /\ res.count \in Nat
  BY CyToldIs DEF CyToldSoFar
<1>2. CASE res.last = None
  BY <1>1, <1>2, CyNoBuffer DEF tst_flush, Buffered
<1>3. CASE res.last # None
  <2> DEFINE range == (res.count + 1) - res.last.num
             w == tst_print(res, res.last.num, range, res.last.type, res.last.message)
  <2>1. res.count - res.last.num + 1 = range
    BY <1>1, <1>3, CyToldIs
  <2>2. tst_flush(res) = w
    BY <1>3, <2>1, Zenon DEF tst_flush, Buffered
  <2>3. w.exitval = res.exitval /\ CyAllTold(w, calls)
    BY <1>1, <1>3, CyEmptied
  <2> HIDE DEF w
  <2> QED
    BY <1>1, <2>2, <2>3
<1> QED
  BY <1>2, <1>3

\* tst_brk is no, one or two tst_res.
LEMMA CyBrkIs ==
  ASSUME cy_res.count \in Nat, cy_total \in Int, NEW type \in {"BROK", "FAIL"}, NEW message \in CyMessages,
         cy_res.count < cy_total => tst_res(cy_res, 1, type, message).count = cy_res.count + 1
  PROVE  LET r == tst_brk(cy_res, type, message)
             calls == BrkCalls(type, message)
             first == tst_res(cy_res, 1, type, message)
             one == CyNumbers(cy_res, 1, type, message)
         IN \/ r = cy_res /\ calls = {}
            \/ r = first /\ calls = one
            \/ \E range \in Nat \ {0} :
                 /\ r = tst_res(first, range, "BROK", "remaining")
                 /\ calls = one \cup CyNumbers(first, range, "BROK", "remaining")
<1> DEFINE r == tst_brk(cy_res, type, message)
           first == IF cy_res.count < cy_total THEN tst_res(cy_res, 1, type, message) ELSE cy_res
           range == cy_total - first.count
           one == CyNumbers(cy_res, 1, type, message)
<1>1. type \notin {"WARN", "INFO"} /\ "BROK" \notin {"WARN", "INFO"} /\ Remaining(type) = "BROK"
  BY DEF Remaining
<1>2. r = IF range > 0 THEN tst_res(first, range, "BROK", "remaining") ELSE first
  BY <1>1, Zenon DEF tst_brk
<1>3. CASE ~(cy_res.count < cy_total)
  <2>1. first = cy_res
    BY <1>3
  <2> HIDE DEF first, r
  <2>2. ~(range > 0) /\ cy_res.count >= cy_total
    BY <1>3, <2>1
  <2>3. BrkCalls(type, message) = {}
    BY <2>2 DEF BrkCalls
  <2> QED
    BY <1>2, <2>1, <2>2, <2>3 DEF r
<1>4. CASE cy_res.count < cy_total
  <2>1. first = tst_res(cy_res, 1, type, message)
    BY <1>4
  <2> HIDE DEF first, r
  <2>2. first.count = cy_res.count + 1
    BY <1>4, <2>1
  <2>3. one = {<<cy_res.count + 1, type, message>>}
    <3>1. cy_res.count + 1 .. cy_res.count + 1 = {cy_res.count + 1}
      OBVIOUS
    <3>2. one = {<<i, type, message>> : i \in cy_res.count + 1 .. cy_res.count + 1}
      BY <1>1 DEF CyNumbers
    <3> QED
      BY <3>1, <3>2
  <2>4. BrkCalls(type, message) = one \cup {<<i, "BROK", "remaining">> : i \in cy_res.count + 2 .. cy_total}
    <3>1. ~(cy_res.count >= cy_total)
      BY <1>4
    <3> HIDE DEF one
    <3> QED
      BY <1>1, <2>3, <3>1, Zenon DEF BrkCalls
  <2>5. CASE range > 0
    <3>1. range \in Nat \ {0} /\ first.count + 1 = cy_res.count + 2 /\ first.count + range = cy_total
      BY <1>4, <2>2, <2>5
    <3>2. CyNumbers(first, range, "BROK", "remaining") =
            {<<i, "BROK", "remaining">> : i \in cy_res.count + 2 .. cy_total}
      BY <1>1, <3>1 DEF CyNumbers
    <3>3. r = tst_res(first, range, "BROK", "remaining")
      BY <1>2, <2>5
    <3> HIDE DEF range, one
    <3> QED
      BY <2>1, <2>4, <3>1, <3>2, <3>3 DEF r, one
  <2>6. CASE ~(range > 0)
    <3>1. cy_res.count + 2 .. cy_total = {}
      BY <1>4, <2>2, <2>6
    <3>2. BrkCalls(type, message) = one
      BY <2>4, <3>1
    <3> QED
      BY <1>2, <2>1, <2>6, <3>2 DEF r
  <2> QED
    BY <2>5, <2>6
<1> QED
  BY <1>3, <1>4

LEMMA CyBrkTells ==
  ASSUME CyToldSoFar(cy_res, cy_calls), cy_total \in Int, cy_mode \in CyFourModes,
         NEW type \in {"BROK", "FAIL"}, NEW message \in CyMessages
  PROVE  CyToldSoFar(tst_brk(cy_res, type, message), cy_calls \cup BrkCalls(type, message))
<1> DEFINE first == tst_res(cy_res, 1, type, message)
           one == CyNumbers(cy_res, 1, type, message)
           r == tst_brk(cy_res, type, message)
           calls == BrkCalls(type, message)
<1>1. /\ cy_res.count \in Nat /\ type \in CyTypes /\ "BROK" \in CyTypes /\ 1 \in Nat \ {0}
      /\ "remaining" \in CyMessages /\ type \notin {"WARN", "INFO"}
  BY CyToldIs DEF CyTypes, CyMessages
<1>2. CyToldSoFar(first, cy_calls \cup one) /\ first.count = cy_res.count + 1
  BY <1>1, CyResTells
<1>3. \/ r = cy_res /\ calls = {}
      \/ r = first /\ calls = one
      \/ \E range \in Nat \ {0} : /\ r = tst_res(first, range, "BROK", "remaining")
                                  /\ calls = one \cup CyNumbers(first, range, "BROK", "remaining")
  BY <1>1, <1>2, CyBrkIs
<1> HIDE DEF first, one, r, calls
<1>4. ASSUME NEW range \in Nat \ {0}
      PROVE  CyToldSoFar(tst_res(first, range, "BROK", "remaining"),
                         (cy_calls \cup one) \cup CyNumbers(first, range, "BROK", "remaining"))
  BY <1>1, <1>2, CyResTells
<1>5. \A x, y : (x \cup y = x \cup y) /\ (cy_calls \cup one) \cup y = cy_calls \cup (one \cup y) /\ x \cup {} = x
  OBVIOUS
<1>6. CyToldSoFar(r, cy_calls \cup calls)
  <2>1. CASE r = cy_res /\ calls = {}
    BY <1>5, <2>1
  <2>2. CASE r = first /\ calls = one
    BY <1>2, <2>2
  <2>3. ASSUME NEW range \in Nat \ {0}, r = tst_res(first, range, "BROK", "remaining"),
               calls = one \cup CyNumbers(first, range, "BROK", "remaining")
        PROVE  CyToldSoFar(r, cy_calls \cup calls)
    BY <1>4, <1>5, <2>3
  <2> QED
    BY <1>3, <2>1, <2>2, <2>3
<1> QED
  BY <1>6 DEF r, calls

----------------------------------------------------------------------------
\* In any round a result that is shown has a line of its type and text or waits in the buffer,
\* and each line begins with the number of a result of its type and text.
CyHas(p, call) == \E k \in DOMAIN p : Matches(p[k], call)
CyReal(p, calls) == \A k \in DOMAIN p : <<p[k].from, p[k].type, p[k].message>> \in calls

CyHeard(res, calls) ==
    /\ res \in CyResults /\ calls \subseteq Nat \X CyTypes \X CyMessages
    /\ res.exitval = {call[2] : call \in calls}
    /\ res.last # None => /\ cy_mode \in {"CONDENSE", "NOPASS"}
                          /\ <<res.last.num, res.last.type, res.last.message>> \in calls
    /\ CyReal(res.printed, calls)
    /\ \A call \in calls : Shown(call[2]) =>
         CyHas(res.printed, call) \/ (res.last # None /\ Matches(res.last, call))

LEMMA CyHeardIs ==
  ASSUME NEW res, NEW calls, CyHeard(res, calls)
  PROVE  /\ res \in CyResults /\ calls \in SUBSET (Nat \X CyTypes \X CyMessages) /\ res.count \in Nat
         /\ res.exitval \in SUBSET CyTypes /\ res.printed \in Seq(CyLines)
         /\ res.last # None => /\ res.last.num \in Nat \ {0} /\ res.last.num \in Nat
                               /\ res.last.type \in CyTypes /\ res.last.message \in CyMessages
                               /\ res.last.type \in res.exitval
<1>1. /\ res \in CyResults /\ calls \in SUBSET (Nat \X CyTypes \X CyMessages) /\ res.count \in Nat
      /\ res.exitval \in SUBSET CyTypes /\ res.printed \in Seq(CyLines) /\ res.last \in CyLasts
  BY DEF CyHeard, CyResults
<1>2. ASSUME res.last # None
      PROVE  /\ res.last.num \in Nat \ {0} /\ res.last.num \in Nat
             /\ res.last.type \in CyTypes /\ res.last.message \in CyMessages
             /\ res.last.type \in res.exitval
  <2>1. /\ res.last.num \in Nat \ {0} /\ res.last.type \in CyCaseTypes /\ res.last.message \in CyMessages
    BY <1>1, <1>2 DEF CyLasts
  <2> DEFINE call == <<res.last.num, res.last.type, res.last.message>>
  <2>2. call \in calls /\ call[2] = res.last.type /\ res.exitval = {c[2] : c \in calls}
    BY <1>2 DEF CyHeard
  <2>3. res.last.type \in res.exitval
    <3> HIDE DEF call
    <3> QED
      BY <2>2
  <2> QED
    BY <2>1, <2>3 DEF CyCaseTypes
<1> QED
  BY <1>1, <1>2

\* A line of a result.
LEMMA CyHeardMore ==
  ASSUME NEW p \in Seq(CyLines), NEW l \in CyLines, NEW calls, CyReal(p, calls),
         <<l.from, l.type, l.message>> \in calls
  PROVE  /\ CyReal(Append(p, l), calls)
         /\ \A call : CyHas(p, call) \/ Matches(l, call) => CyHas(Append(p, l), call)
<1> DEFINE q == Append(p, l)
<1>1. /\ DOMAIN p = 1 .. Len(p) /\ Len(p) \in Nat /\ DOMAIN q = 1 .. Len(p) + 1
      /\ \A k \in DOMAIN p : q[k] = p[k]
      /\ q[Len(p) + 1] = l
  BY CyAddLine
<1>2. \A k \in DOMAIN q : k \in DOMAIN p \/ k = Len(p) + 1
  BY <1>1
<1>3. \A k \in DOMAIN p : k \in DOMAIN q
  BY <1>1
<1>4. Len(p) + 1 \in DOMAIN q
  BY <1>1
<1> HIDE DEF q
<1>5. CyReal(q, calls)
  BY <1>1, <1>2 DEF CyReal
<1>6. ASSUME NEW call, CyHas(p, call) \/ Matches(l, call)
      PROVE  CyHas(q, call)
  BY <1>1, <1>3, <1>4, <1>6 DEF CyHas
<1> QED
  BY <1>5, <1>6 DEF q

LEMMA CyPrintHeard ==
  ASSUME NEW res \in CyResults, NEW num \in Nat, NEW range \in Int, NEW type \in CyTypes,
         NEW message \in CyMessages, NEW calls, CyReal(res.printed, calls),
         <<num, type, message>> \in calls
  PROVE  LET q == tst_print(res, num, range, type, message).printed
         IN /\ CyReal(q, calls)
            /\ \A call : CyHas(res.printed, call) => CyHas(q, call)
            /\ \A call : Shown(type) /\ call[2] = type /\ call[3] = message => CyHas(q, call)
<1> DEFINE q == tst_print(res, num, range, type, message).printed
           l == Line(num, range, type, message)
<1>1. /\ l \in CyLines /\ l.from = num /\ l.type = type /\ l.message = message
      /\ q = IF CySilent(type) THEN res.printed ELSE Append(res.printed, l)
      /\ res.printed \in Seq(CyLines)
  <2>1. l \in CyLines /\ l.from = num /\ l.type = type /\ l.message = message
    BY CyLineIs
  <2>2. q = IF CySilent(type) THEN res.printed ELSE Append(res.printed, l)
    BY CyPrintIs
  <2>3. res.printed \in Seq(CyLines)
    BY DEF CyResults
  <2> QED
    BY <2>1, <2>2, <2>3
<1> HIDE DEF q, l
<1>2. CASE CySilent(type)
  <2>1. ~Shown(type) /\ q = res.printed
    BY <1>1, <1>2, CyNotShown
  <2> QED
    BY <2>1 DEF q
<1>3. CASE ~CySilent(type)
  <2> DEFINE p == res.printed
  <2>1. q = Append(p, l) /\ p \in Seq(CyLines) /\ CyReal(p, calls)
        /\ <<l.from, l.type, l.message>> \in calls
    BY <1>1, <1>3
  <2> HIDE DEF p
  <2>2. /\ CyReal(Append(p, l), calls)
        /\ \A call : CyHas(p, call) \/ Matches(l, call) => CyHas(Append(p, l), call)
    BY <1>1, <2>1, CyHeardMore
  <2>3. \A call : call[2] = type /\ call[3] = message => Matches(l, call)
    BY <1>1 DEF Matches
  <2> QED
    BY <2>1, <2>2, <2>3 DEF q, p
<1> QED
  BY <1>2, <1>3

\* The buffer is printed.
LEMMA CyLastHeard ==
  ASSUME NEW res \in CyResults, res.last # None, NEW range \in Int, NEW calls, CyReal(res.printed, calls),
         <<res.last.num, res.last.type, res.last.message>> \in calls
  PROVE  LET q == tst_print(res, res.last.num, range, res.last.type, res.last.message).printed
         IN /\ CyReal(q, calls)
            /\ \A call : CyHas(res.printed, call) => CyHas(q, call)
            /\ \A call : Shown(call[2]) /\ Matches(res.last, call) => CyHas(q, call)
<1> DEFINE num == res.last.num
           type == res.last.type
           message == res.last.message
<1>1. num \in Nat /\ type \in CyTypes /\ message \in CyMessages /\ <<num, type, message>> \in calls
  BY DEF CyResults, CyLasts, CyCaseTypes
<1> HIDE DEF num, type, message
<1>2. LET q == tst_print(res, num, range, type, message).printed
      IN /\ CyReal(q, calls)
         /\ \A call : CyHas(res.printed, call) => CyHas(q, call)
         /\ \A call : Shown(type) /\ call[2] = type /\ call[3] = message => CyHas(q, call)
  BY <1>1, CyPrintHeard
<1>3. \A call : Shown(call[2]) /\ Matches(res.last, call) => Shown(type) /\ call[2] = type /\ call[3] = message
  BY DEF Matches, type, message
<1> QED
  BY <1>2, <1>3 DEF num, type, message

\* A result in one of the modes that condense: calls holds it.
LEMMA CyCondenseHeard ==
  ASSUME NEW s \in CyResults, NEW calls, NEW num \in Nat \ {0}, NEW type \in CyCaseTypes, NEW message \in CyMessages,
         <<num, type, message>> \in calls, CyReal(s.printed, calls),
         s.last # None => s.last.type \in s.exitval /\ <<s.last.num, s.last.type, s.last.message>> \in calls
  PROVE  LET u == tst_condense(s, num, type, message)
         IN /\ u \in CyResults /\ u.exitval = s.exitval /\ u.count = s.count
            /\ u.last # None /\ <<u.last.num, u.last.type, u.last.message>> \in calls
            /\ CyReal(u.printed, calls)
            /\ \A call : call[2] = type /\ call[3] = message => Matches(u.last, call)
            /\ \A call : Shown(call[2]) /\ (CyHas(s.printed, call) \/ (s.last # None /\ Matches(s.last, call)))
                 => CyHas(u.printed, call) \/ Matches(u.last, call)
<1> DEFINE u == tst_condense(s, num, type, message)
           told == tst_print(s, s.last.num, num - s.last.num, s.last.type, s.last.message)
           w == IF s.last = None THEN s ELSE told
           b == [w EXCEPT !.last = [num |-> num, type |-> type, message |-> message]]
<1>1. CASE s.last # None /\ s.last.type = type /\ s.last.message = message
  <2>1. u = s
    BY <1>1 DEF tst_condense
  <2>2. \A call : call[2] = type /\ call[3] = message => Matches(s.last, call)
    BY <1>1 DEF Matches
  <2> QED
    BY <1>1, <2>1, <2>2
<1>2. CASE ~(s.last # None /\ s.last.type = type /\ s.last.message = message)
  <2>1. u = b
    BY <1>2, Zenon DEF tst_condense
  <2>2. /\ w \in CyResults /\ w.exitval = s.exitval /\ w.count = s.count
        /\ CyReal(w.printed, calls)
        /\ \A call : Shown(call[2]) /\ (CyHas(s.printed, call) \/ (s.last # None /\ Matches(s.last, call)))
             => CyHas(w.printed, call)
    <3>1. CASE s.last = None
      BY <3>1
    <3>2. CASE s.last # None
      <4> DEFINE range == num - s.last.num
      <4>1. range \in Int
        BY <3>2 DEF CyResults, CyLasts
      <4>2. told = tst_print(s, s.last.num, range, s.last.type, s.last.message)
        BY Zenon
      <4>3. w = told
        BY <3>2
      <4> HIDE DEF range, told, w
      <4>4. told \in CyResults /\ told.exitval = s.exitval \cup {s.last.type} /\ told.count = s.count
        BY <3>2, <4>1, <4>2, CyLastPrint
      <4>5. /\ CyReal(told.printed, calls)
            /\ \A call : CyHas(s.printed, call) => CyHas(told.printed, call)
            /\ \A call : Shown(call[2]) /\ Matches(s.last, call) => CyHas(told.printed, call)
        BY <3>2, <4>1, <4>2, CyLastHeard
      <4> QED
        BY <3>2, <4>3, <4>4, <4>5
    <3> QED
      BY <3>1, <3>2
  <2> DEFINE l == [num |-> num, type |-> type, message |-> message]
  <2>3. l \in CyLasts /\ l.num = num /\ l.type = type /\ l.message = message /\ l # None
    BY DEF CyLasts, None
  <2> HIDE DEF w, l
  <2>4. b = [w EXCEPT !.last = l]
    BY DEF l
  <2> HIDE DEF b
  <2>5. /\ b \in CyResults /\ b.exitval = w.exitval /\ b.count = w.count /\ b.printed = w.printed
        /\ b.last = l
    BY <2>2, <2>3, <2>4 DEF CyResults
  <2>6. \A call : call[2] = type /\ call[3] = message => Matches(b.last, call)
    BY <2>3, <2>5 DEF Matches
  <2>7. <<b.last.num, b.last.type, b.last.message>> \in calls
    BY <2>3, <2>5
  <2> QED
    BY <2>1, <2>2, <2>3, <2>5, <2>6, <2>7
<1> QED
  BY <1>1, <1>2

\* What tst_res reports has a line, or waits in the buffer for it.
LEMMA CyNumbersAre ==
  ASSUME NEW res \in CyResults, NEW range \in Nat \ {0}, NEW type \in CyTypes, NEW message \in CyMessages
  PROVE  /\ CyNumbers(res, range, type, message) \in SUBSET (Nat \X CyTypes \X CyMessages)
         /\ \A call \in CyNumbers(res, range, type, message) : call[2] = type /\ call[3] = message
         /\ CyNumbers(res, range, type, message) # {}
         /\ type \in {"WARN", "INFO"} => <<0, type, message>> \in CyNumbers(res, range, type, message)
         /\ type \notin {"WARN", "INFO"} =>
              \A i \in 1 .. range : <<res.count + i, type, message>> \in CyNumbers(res, range, type, message)
<1> DEFINE new == CyNumbers(res, range, type, message)
<1>1. res.count \in Nat
  BY DEF CyResults
<1>2. CASE type \in {"WARN", "INFO"}
  <2>1. new = {<<0, type, message>>}
    BY <1>2 DEF CyNumbers
  <2> QED
    BY <1>2, <2>1
<1>3. CASE type \notin {"WARN", "INFO"}
  <2> DEFINE numbers == res.count + 1 .. res.count + range
  <2>1. new = {<<i, type, message>> : i \in numbers}
    BY <1>3 DEF CyNumbers
  <2>2. \A i \in numbers : i \in Nat
    BY <1>1
  <2>3. \A i \in 1 .. range : res.count + i \in numbers
    BY <1>1
  <2>4. 1 \in 1 .. range
    OBVIOUS
  <2> HIDE DEF new, numbers
  <2>5. \A call \in new : call \in Nat \X CyTypes \X CyMessages /\ call[2] = type /\ call[3] = message
    BY <2>1, <2>2
  <2>6. \A i \in 1 .. range : <<res.count + i, type, message>> \in new
    BY <2>1, <2>3
  <2>7. new # {}
    BY <2>4, <2>6
  <2>9. new \in SUBSET (Nat \X CyTypes \X CyMessages)
    BY <2>5
  <2> QED
    BY <1>3, <2>5, <2>6, <2>7, <2>9 DEF new
<1> QED
  BY <1>2, <1>3

\* One list of lines after another.
LEMMA CyHeardRows ==
  ASSUME NEW p \in Seq(CyLines), NEW rows \in Seq(CyLines), NEW calls, CyReal(p, calls), CyReal(rows, calls)
  PROVE  /\ CyReal(p \o rows, calls)
         /\ \A call : CyHas(p, call) \/ CyHas(rows, call) => CyHas(p \o rows, call)
<1> DEFINE q == p \o rows
<1>1. /\ DOMAIN p = 1 .. Len(p) /\ Len(p) \in Nat /\ DOMAIN q = 1 .. Len(p) + Len(rows)
      /\ \A k \in 1 .. Len(p) : q[k] = p[k]
      /\ \A i \in 1 .. Len(rows) : q[Len(p) + i] = rows[i]
      /\ DOMAIN rows = 1 .. Len(rows) /\ Len(rows) \in Nat
  BY CyTwoLists
<1> HIDE DEF q
<1>2. \A k \in DOMAIN q : k \in DOMAIN p \/ \E i \in DOMAIN rows : k = Len(p) + i
  <2> SUFFICES ASSUME NEW k \in 1 .. Len(p) + Len(rows), k \notin 1 .. Len(p)
               PROVE  \E i \in 1 .. Len(rows) : k = Len(p) + i
    BY <1>1
  <2>1. k - Len(p) \in 1 .. Len(rows) /\ k = Len(p) + (k - Len(p))
    BY <1>1
  <2> QED
    BY <2>1
<1>3. (\A k \in DOMAIN p : k \in DOMAIN q) /\ \A i \in DOMAIN rows : Len(p) + i \in DOMAIN q
  BY <1>1
<1>4. CyReal(q, calls)
  BY <1>1, <1>2 DEF CyReal
<1>5. ASSUME NEW call, CyHas(p, call) \/ CyHas(rows, call)
      PROVE  CyHas(q, call)
  BY <1>1, <1>3, <1>5 DEF CyHas
<1> QED
  BY <1>4, <1>5 DEF q

\* What is reported in the end, from lines and buffer.
LEMMA CyHeardAgain ==
  ASSUME NEW res, NEW calls, CyHeard(res, calls), NEW type \in CyTypes, NEW message \in CyMessages,
         NEW new \in SUBSET (Nat \X CyTypes \X CyMessages), new # {},
         \A call \in new : call[2] = type /\ call[3] = message,
         NEW r \in CyResults, r.exitval = res.exitval \cup {type}, CyReal(r.printed, calls \cup new),
         r.last # None => /\ cy_mode \in {"CONDENSE", "NOPASS"}
                          /\ <<r.last.num, r.last.type, r.last.message>> \in calls \cup new,
         \A call : Shown(call[2]) /\ (CyHas(res.printed, call) \/ (res.last # None /\ Matches(res.last, call)))
            => CyHas(r.printed, call) \/ (r.last # None /\ Matches(r.last, call)),
         \A call : Shown(type) /\ call[2] = type /\ call[3] = message
            => CyHas(r.printed, call) \/ (r.last # None /\ Matches(r.last, call))
  PROVE  CyHeard(r, calls \cup new)
<1>1. r.exitval = {call[2] : call \in calls \cup new}
  <2>1. res.exitval = {call[2] : call \in calls}
    BY DEF CyHeard
  <2>2. {call[2] : call \in new} = {type}
    OBVIOUS
  <2> QED
    BY <2>1, <2>2, CyTypesOf
<1>2. calls \cup new \subseteq Nat \X CyTypes \X CyMessages
  BY DEF CyHeard
<1>3. ASSUME NEW call \in calls \cup new, Shown(call[2])
      PROVE  CyHas(r.printed, call) \/ (r.last # None /\ Matches(r.last, call))
  <2>1. CASE call \in calls
    BY <1>3, <2>1 DEF CyHeard
  <2>2. CASE call \in new
    BY <1>3, <2>2
  <2> QED
    BY <2>1, <2>2
<1> QED
  BY <1>1, <1>2, <1>3 DEF CyHeard

LEMMA CyResHeard ==
  ASSUME NEW res, NEW calls, CyHeard(res, calls), NEW range \in Nat \ {0}, NEW type \in CyTypes,
         NEW message \in CyMessages, cy_mode \in CyFourModes
  PROVE  /\ CyHeard(tst_res(res, range, type, message), calls \cup CyNumbers(res, range, type, message))
         /\ tst_res(res, range, type, message).count =
              IF type \in {"WARN", "INFO"} THEN res.count ELSE res.count + range
<1> DEFINE r == tst_res(res, range, type, message)
           s == [res EXCEPT !.exitval = @ \cup {type}]
           C(x) == [x EXCEPT !.count = @ + range]
           line(i) == Line(res.count + i, 1, type, message)
           rows == [i \in 1 .. range |-> line(i)]
           L(x) == [x EXCEPT !.printed = @ \o rows]
           new == CyNumbers(res, range, type, message)
           all == calls \cup new
<1>0. res \in CyResults
  BY CyHeardIs
<1>1. /\ res \in CyResults /\ res.count \in Nat /\ res.printed \in Seq(CyLines)
      /\ res.last # None => /\ cy_mode \in {"CONDENSE", "NOPASS"} /\ res.last.type \in res.exitval
                            /\ <<res.last.num, res.last.type, res.last.message>> \in calls
      /\ CyReal(res.printed, calls)
  BY CyHeardIs DEF CyHeard
<1>2. /\ s \in CyResults /\ s.exitval = res.exitval \cup {type} /\ s.count = res.count
      /\ s.last = res.last /\ s.printed = res.printed
  BY <1>1, CyFirstIs
<1>3. r = CASE type \in {"WARN", "INFO"} -> tst_print(s, 0, 1, type, message)
         [] type \notin {"WARN", "INFO"} /\ cy_mode = "DISCARD" -> C(s)
         [] type \notin {"WARN", "INFO"} /\ cy_mode \in {"CONDENSE", "NOPASS"} ->
              C(tst_condense(s, res.count + 1, type, message))
         [] OTHER -> C(IF type = "PASS" THEN s ELSE L(s))
  BY Zenon DEF tst_res
<1>4. /\ new \in SUBSET (Nat \X CyTypes \X CyMessages) /\ new # {}
      /\ \A call \in new : call[2] = type /\ call[3] = message
      /\ type \in {"WARN", "INFO"} => <<0, type, message>> \in new
      /\ type \notin {"WARN", "INFO"} => \A i \in 1 .. range : <<res.count + i, type, message>> \in new
  BY <1>0, CyNumbersAre
<1> HIDE DEF s, r, new
<1>5. /\ CyReal(s.printed, all) /\ calls \subseteq all /\ new \subseteq all
      /\ s.last # None => /\ s.last.type \in s.exitval
                          /\ <<s.last.num, s.last.type, s.last.message>> \in all
  BY <1>1, <1>2 DEF CyReal
<1> HIDE DEF all
<1>6. ASSUME type \in {"WARN", "INFO"}
      PROVE  CyHeard(r, all) /\ r.count = res.count
  <2>1. r = tst_print(s, 0, 1, type, message)
    BY <1>3, <1>6
  <2>2. 0 \in Nat /\ 1 \in Int /\ <<0, type, message>> \in all
    BY <1>4, <1>5, <1>6
  <2>3. /\ r \in CyResults /\ r.exitval = s.exitval \cup {type} /\ r.count = s.count
        /\ r.last = s.last
    <3>1. ASSUME NEW n \in Nat, NEW g \in Int
          PROVE  /\ tst_print(s, n, g, type, message) \in CyResults
                 /\ tst_print(s, n, g, type, message).exitval = s.exitval \cup {type}
                 /\ tst_print(s, n, g, type, message).count = s.count
                 /\ tst_print(s, n, g, type, message).last = s.last
      BY <1>2, CyPrintIs
    <3>2. 0 \in Nat /\ 1 \in Int
      OBVIOUS
    <3> QED
      BY <2>1, <3>1, <3>2
  <2>4. /\ CyReal(r.printed, all)
        /\ \A call : CyHas(s.printed, call) => CyHas(r.printed, call)
        /\ \A call : Shown(type) /\ call[2] = type /\ call[3] = message => CyHas(r.printed, call)
    BY <1>2, <1>5, <2>1, <2>2, CyPrintHeard
  <2>5. /\ r.exitval = res.exitval \cup {type}
        /\ r.last # None => /\ cy_mode \in {"CONDENSE", "NOPASS"}
                            /\ <<r.last.num, r.last.type, r.last.message>> \in all
    BY <1>1, <1>2, <1>5, <2>3
  <2>6. \A call : Shown(call[2]) /\ (CyHas(res.printed, call) \/ (res.last # None /\ Matches(res.last, call)))
            => CyHas(r.printed, call) \/ (r.last # None /\ Matches(r.last, call))
    BY <1>2, <2>3, <2>4
  <2>7. \A call : Shown(type) /\ call[2] = type /\ call[3] = message
            => CyHas(r.printed, call) \/ (r.last # None /\ Matches(r.last, call))
    BY <2>4
  <2>8. CyHeard(r, all)
    <3>1. /\ r \in CyResults /\ CyReal(r.printed, calls \cup new) /\ r.exitval = res.exitval \cup {type}
          /\ r.last # None => /\ cy_mode \in {"CONDENSE", "NOPASS"}
                              /\ <<r.last.num, r.last.type, r.last.message>> \in calls \cup new
      BY <2>3, <2>4, <2>5 DEF all
    <3> QED
      BY <1>4, <2>6, <2>7, <3>1, CyHeardAgain DEF all
  <2> QED
    BY <1>2, <2>3, <2>8
<1>7. ASSUME type \notin {"WARN", "INFO"}
      PROVE  CyHeard(r, all) /\ r.count = res.count + range
  <2>1. cy_mode \in {"CONDENSE", "NOPASS"} \/ cy_mode = "DISCARD" \/ cy_mode = "VERBOSE"
    BY DEF CyFourModes
  <2>2. CASE cy_mode = "DISCARD" \/ (cy_mode = "VERBOSE" /\ type = "PASS")
    <3>1. r = C(s)
      BY <1>3, <1>7, <2>2
    <3>2. /\ r \in CyResults /\ r.exitval = s.exitval /\ r.count = s.count + range
          /\ r.last = s.last /\ r.printed = s.printed
      BY <1>2, <3>1, CyCountedIs
    <3>3. ~Shown(type) /\ r.last = None /\ res.last = None
      BY <1>1, <1>2, <2>2, <3>2 DEF Shown
    <3>4. \A call : Shown(call[2]) /\ (CyHas(res.printed, call) \/ (res.last # None /\ Matches(res.last, call)))
            => CyHas(r.printed, call) \/ (r.last # None /\ Matches(r.last, call))
      BY <1>2, <3>2
    <3>5. CyReal(r.printed, all) /\ r.exitval = res.exitval \cup {type}
      BY <1>2, <1>5, <3>2
    <3>6. CyHeard(r, all)
      BY <1>4, <3>2, <3>3, <3>4, <3>5, CyHeardAgain DEF all
    <3> QED
      BY <1>2, <3>2, <3>6
  <2>3. CASE cy_mode \in {"CONDENSE", "NOPASS"}
    <3> DEFINE num == res.count + 1
               u == tst_condense(s, num, type, message)
    <3>1. r = C(u)
      BY <1>3, <1>7, <2>3
    <3>2. num \in Nat \ {0} /\ type \in CyCaseTypes /\ <<num, type, message>> \in all
      BY <1>1, <1>4, <1>5, <1>7 DEF CyCaseTypes
    <3> HIDE DEF num, u
    <3>3. /\ u \in CyResults /\ u.exitval = s.exitval /\ u.count = s.count
          /\ u.last # None /\ <<u.last.num, u.last.type, u.last.message>> \in all
          /\ CyReal(u.printed, all)
          /\ \A call : call[2] = type /\ call[3] = message => Matches(u.last, call)
          /\ \A call : Shown(call[2]) /\ (CyHas(s.printed, call) \/ (s.last # None /\ Matches(s.last, call)))
                 => CyHas(u.printed, call) \/ Matches(u.last, call)
      BY <1>2, <1>5, <3>2, CyCondenseHeard DEF u
    <3>4. /\ r \in CyResults /\ r.exitval = u.exitval /\ r.count = u.count + range
          /\ r.last = u.last /\ r.printed = u.printed
      BY <3>1, <3>3, CyCountedIs
    <3>5. \A call : Shown(call[2]) /\ (CyHas(res.printed, call) \/ (res.last # None /\ Matches(res.last, call)))
            => CyHas(r.printed, call) \/ (r.last # None /\ Matches(r.last, call))
      BY <1>2, <3>3, <3>4
    <3>6. /\ CyReal(r.printed, all) /\ r.exitval = res.exitval \cup {type} /\ r.last # None
          /\ <<r.last.num, r.last.type, r.last.message>> \in all
          /\ \A call : call[2] = type /\ call[3] = message => Matches(r.last, call)
      BY <1>2, <3>3, <3>4
    <3>7. \A call : Shown(type) /\ call[2] = type /\ call[3] = message
            => CyHas(r.printed, call) \/ (r.last # None /\ Matches(r.last, call))
      BY <3>6
    <3>8. CyHeard(r, all)
      <4>1. /\ r \in CyResults /\ CyReal(r.printed, calls \cup new) /\ r.exitval = res.exitval \cup {type}
            /\ r.last # None => /\ cy_mode \in {"CONDENSE", "NOPASS"}
                                /\ <<r.last.num, r.last.type, r.last.message>> \in calls \cup new
        BY <2>3, <3>4, <3>6 DEF all
      <4> QED
        BY <1>4, <3>5, <3>7, <4>1, CyHeardAgain DEF all
    <3> QED
      BY <1>2, <3>3, <3>4, <3>8
  <2>4. CASE cy_mode = "VERBOSE" /\ type # "PASS"
    <3>1. r = C(L(s))
      BY <1>3, <1>7, <2>4
    <3>2. \A i \in 1 .. range : /\ line(i) \in CyLines /\ line(i).from = res.count + i
                                /\ line(i).type = type /\ line(i).message = message
      <4> SUFFICES ASSUME NEW i \in 1 .. range
                   PROVE  /\ line(i) \in CyLines /\ line(i).from = res.count + i
                          /\ line(i).type = type /\ line(i).message = message
        OBVIOUS
      <4>1. res.count + i \in Nat /\ 1 \in Int
        BY <1>1
      <4> QED
        BY <4>1, CyLineIs
    <3> HIDE DEF line
    <3>3. /\ rows \in Seq(CyLines) /\ DOMAIN rows = 1 .. range /\ \A i \in 1 .. range : rows[i] = line(i)
      BY <3>2
    <3> HIDE DEF rows
    <3>4. LET x == L(s) IN /\ x \in CyResults /\ x.exitval = s.exitval /\ x.count = s.count /\ x.last = s.last
                           /\ x.printed = s.printed \o rows
      <4> DEFINE q == s.printed \o rows
      <4>1. q \in Seq(CyLines)
        BY <1>1, <1>2, <3>3, ConcatProperties
      <4>2. L(s) = [s EXCEPT !.printed = q]
        OBVIOUS
      <4> HIDE DEF q, L
      <4>3. L(s) \in CyResults /\ L(s).exitval = s.exitval /\ L(s).count = s.count /\ L(s).last = s.last /\ L(s).printed = q
        BY <1>2, <4>1, <4>2 DEF CyResults
      <4> QED
        BY <4>3 DEF q
    <3> HIDE DEF L
    <3>5. /\ r \in CyResults /\ r.exitval = s.exitval /\ r.count = s.count + range
          /\ r.last = s.last /\ r.printed = s.printed \o rows
      BY <3>1, <3>4, CyCountedIs
    <3>6. CyReal(rows, all)
      BY <1>4, <1>5, <1>7, <3>2, <3>3 DEF CyReal
    <3>7. \A call : call[2] = type /\ call[3] = message => CyHas(rows, call)
      <4>1. 1 \in 1 .. range
        OBVIOUS
      <4> QED
        BY <3>2, <3>3, <4>1 DEF CyHas, Matches
    <3>8. /\ CyReal(r.printed, all)
          /\ \A call : CyHas(res.printed, call) \/ CyHas(rows, call) => CyHas(r.printed, call)
      <4> DEFINE p == res.printed
      <4>1. p \in Seq(CyLines) /\ r.printed = p \o rows /\ CyReal(p, all)
        BY <1>1, <1>2, <1>5, <3>5
      <4> HIDE DEF p
      <4>2. /\ CyReal(p \o rows, all)
            /\ \A call : CyHas(p, call) \/ CyHas(rows, call) => CyHas(p \o rows, call)
        BY <3>3, <3>6, <4>1, CyHeardRows
      <4> QED
        BY <4>1, <4>2 DEF p
    <3>9. r.last = None /\ res.last = None /\ r.exitval = res.exitval \cup {type}
      BY <1>1, <1>2, <2>4, <3>5
    <3>10. /\ \A call : Shown(type) /\ call[2] = type /\ call[3] = message
                => CyHas(r.printed, call) \/ (r.last # None /\ Matches(r.last, call))
           /\ \A call : Shown(call[2]) /\ (CyHas(res.printed, call) \/ (res.last # None /\ Matches(res.last, call)))
                => CyHas(r.printed, call) \/ (r.last # None /\ Matches(r.last, call))
      BY <3>7, <3>8, <3>9
    <3>11. CyHeard(r, all)
      <4>1. /\ r \in CyResults /\ CyReal(r.printed, calls \cup new) /\ r.exitval = res.exitval \cup {type}
            /\ r.last # None => /\ cy_mode \in {"CONDENSE", "NOPASS"}
                                /\ <<r.last.num, r.last.type, r.last.message>> \in calls \cup new
        BY <3>5, <3>8, <3>9 DEF all
      <4> QED
        BY <1>4, <3>10, <4>1, CyHeardAgain DEF all
    <3> QED
      BY <1>2, <3>5, <3>11
  <2> QED
    BY <2>1, <2>2, <2>3, <2>4
<1> QED
  BY <1>6, <1>7 DEF r, all, new

\* The count is of no account.
LEMMA CyCountHeard ==
  ASSUME NEW res, NEW calls, CyHeard(res, calls), NEW n \in Nat,
         NEW r, r = [res EXCEPT !.count = n]
  PROVE  CyHeard(r, calls)
<1>1. /\ r \in CyResults /\ r.exitval = res.exitval /\ r.last = res.last /\ r.printed = res.printed
  BY CyHeardIs DEF CyResults
<1> QED
  BY <1>1 DEF CyHeard

\* At the end the buffer is printed.
LEMMA CyFlushHeard ==
  ASSUME NEW res, NEW calls, CyHeard(res, calls)
  PROVE  LET w == tst_flush(res)
         IN /\ w.exitval = {call[2] : call \in calls} /\ CyReal(w.printed, calls)
            /\ \A call \in calls : Shown(call[2]) => CyHas(w.printed, call)
<1>1. CASE res.last = None
  BY <1>1 DEF CyHeard, tst_flush, Buffered
<1>2. CASE res.last # None
  <2> DEFINE range == res.count - res.last.num + 1
             w == tst_print(res, res.last.num, range, res.last.type, res.last.message)
  <2>1. tst_flush(res) = w
    BY <1>2, Zenon DEF tst_flush, Buffered
  <2>2. range \in Int /\ res \in CyResults /\ res.last.type \in res.exitval
    BY <1>2, CyHeardIs
  <2> HIDE DEF range
  <2>3. w.exitval = res.exitval \cup {res.last.type}
    BY <1>2, <2>2, CyLastPrint
  <2>4. /\ CyReal(w.printed, calls)
        /\ \A call : CyHas(res.printed, call) => CyHas(w.printed, call)
        /\ \A call : Shown(call[2]) /\ Matches(res.last, call) => CyHas(w.printed, call)
    <3>1. CyReal(res.printed, calls) /\ <<res.last.num, res.last.type, res.last.message>> \in calls
      BY <1>2 DEF CyHeard
    <3> QED
      BY <1>2, <2>2, <3>1, CyLastHeard
  <2> HIDE DEF w
  <2>5. res.exitval = {call[2] : call \in calls}
    BY DEF CyHeard
  <2>6. \A call \in calls : Shown(call[2]) => CyHas(w.printed, call)
    BY <2>4 DEF CyHeard
  <2> QED
    BY <2>1, <2>2, <2>3, <2>4, <2>5, <2>6
<1> QED
  BY <1>1, <1>2

LEMMA CyBrkHeard ==
  ASSUME CyHeard(cy_res, cy_calls), cy_total \in Int, cy_mode \in CyFourModes,
         NEW type \in {"BROK", "FAIL"}, NEW message \in CyMessages
  PROVE  CyHeard(tst_brk(cy_res, type, message), cy_calls \cup BrkCalls(type, message))
<1> DEFINE first == tst_res(cy_res, 1, type, message)
           one == CyNumbers(cy_res, 1, type, message)
           r == tst_brk(cy_res, type, message)
           calls == BrkCalls(type, message)
<1>1. /\ cy_res.count \in Nat /\ type \in CyTypes /\ "BROK" \in CyTypes /\ 1 \in Nat \ {0}
      /\ "remaining" \in CyMessages /\ type \notin {"WARN", "INFO"}
  BY CyHeardIs DEF CyTypes, CyMessages
<1>2. CyHeard(first, cy_calls \cup one) /\ first.count = cy_res.count + 1
  BY <1>1, CyResHeard
<1>3. \/ r = cy_res /\ calls = {}
      \/ r = first /\ calls = one
      \/ \E range \in Nat \ {0} : /\ r = tst_res(first, range, "BROK", "remaining")
                                  /\ calls = one \cup CyNumbers(first, range, "BROK", "remaining")
  BY <1>1, <1>2, CyBrkIs
<1> HIDE DEF first, one, r, calls
<1>4. ASSUME NEW range \in Nat \ {0}
      PROVE  CyHeard(tst_res(first, range, "BROK", "remaining"),
                     (cy_calls \cup one) \cup CyNumbers(first, range, "BROK", "remaining"))
  BY <1>1, <1>2, CyResHeard
<1>5. \A x, y : (cy_calls \cup one) \cup y = cy_calls \cup (one \cup y) /\ x \cup {} = x
  OBVIOUS
<1>6. CyHeard(r, cy_calls \cup calls)
  <2>1. CASE r = cy_res /\ calls = {}
    BY <1>5, <2>1
  <2>2. CASE r = first /\ calls = one
    BY <1>2, <2>2
  <2>3. ASSUME NEW range \in Nat \ {0}, r = tst_res(first, range, "BROK", "remaining"),
               calls = one \cup CyNumbers(first, range, "BROK", "remaining")
        PROVE  CyHeard(r, cy_calls \cup calls)
    BY <1>4, <1>5, <2>3
  <2> QED
    BY <1>3, <2>1, <2>2, <2>3
<1> QED
  BY <1>6 DEF r, calls

----------------------------------------------------------------------------
CyPcs == {"options", "setup", "paused", "prepare", "loop", "body", "cleanup", "broken", "ended"}
CyStds == [count : Int, duration : Int, infinite : BOOLEAN, pause : BOOLEAN, sbrk : BOOLEAN,
           errlog : BOOLEAN]
CyTyped ==
    /\ cy_pc \in CyPcs /\ cy_mode \in CyFourModes /\ cy_total \in Int /\ cy_lc \in Nat
    /\ cy_std \in CyStds /\ cy_args \in Seq(STRING \X Int) /\ cy_env \in CyEnvironments
    /\ cy_again \in BOOLEAN

\* Before the end each result has its line or waits in the buffer; in the first round the
\* numbers are right too; at the end all is told.
CyTelling ==
    /\ cy_pc # "ended" => cy_ending = "none"
    /\ cy_ending # "exit" => /\ CyHeard(cy_res, cy_calls)
                             /\ ~cy_again => CyToldSoFar(cy_res, cy_calls)
    /\ cy_pc = "options" => cy_calls = {}
    /\ CyReported

\* With neither a duration nor for ever, the loop does not go beyond its count; its first
\* round begins with no case counted.
CyAsked ==
    /\ "iteration" \notin cy_given =>
         cy_std.infinite \/ cy_env.USC_ITERATIONS \in {<<>>, <<cy_std.count>>}
    /\ EnvInfinite => cy_std.infinite
CyLooping ==
    /\ cy_pc \in {"options", "setup", "paused", "prepare"} => cy_lc = 0 /\ cy_res.count = 0
    /\ cy_pc = "loop" /\ cy_lc = 0 => cy_res.count = 0
    /\ cy_lc = 0 => ~cy_again
    /\ cy_pc \in {"setup", "paused", "prepare", "loop", "body", "cleanup"} => CyAsked
    /\ ~cy_std.infinite /\ cy_std.duration = 0 =>
         /\ cy_pc \in {"loop", "cleanup"} => cy_lc = 0 \/ cy_lc <= cy_std.count
         /\ cy_pc = "body" => cy_lc < cy_std.count
    /\ CyLoopsAsAsked

CyIInv == CyTyped /\ CyTelling /\ CyLooping

LEMMA CyHeardTold == CyHeard(cy_res, cy_calls) /\ cy_ending # "exit" => CyTold
<1>1. CyTold = /\ \A call \in cy_calls : Shown(call[2]) =>
                    CyHas(cy_res.printed, call)
                    \/ (cy_ending # "exit" /\ cy_res.last # None /\ Matches(cy_res.last, call))
               /\ CyReal(cy_res.printed, cy_calls)
  BY Zenon DEF CyTold, CyHas, CyReal
<1> QED
  BY <1>1 DEF CyHeard

\* A step that does not end the program.
LEMMA CyGoesOn ==
  ASSUME cy_mode' = cy_mode, CyHeard(cy_res', cy_calls'),
         ~cy_again' => CyToldSoFar(cy_res', cy_calls'),
         cy_ending' # "exit", cy_pc' # "ended" => cy_ending' = "none",
         cy_pc' = "options" => cy_calls' = {}
  PROVE  CyTelling'
<1>1. CyHeard(cy_res, cy_calls)'
  BY Zenon DEF CyHeard, CyHas, CyReal, Shown, Matches
<1>2. ~cy_again' => CyToldSoFar(cy_res, cy_calls)'
  BY Zenon DEF CyToldSoFar, CyAllTold, Shown, Covers, CyBefore, CyEdge
<1>3. CyTold'
  <2>1. (CyHeard(cy_res, cy_calls) /\ cy_ending # "exit")'
    BY <1>1
  <2>2. (CyHeard(cy_res, cy_calls) /\ cy_ending # "exit" => CyTold)'
    BY CyHeardTold, PTL
  <2> QED
    BY <2>1, <2>2
<1>4. CyReported'
  BY <1>3 DEF CyReported
<1> QED
  BY <1>1, <1>2, <1>4 DEF CyTelling

\* A step to the end of the program by tst_exit.
LEMMA CyExitTells ==
  ASSUME NEW res, NEW calls, CyHeard(res, calls), ~cy_again => CyToldSoFar(res, calls),
         cy_mode' = cy_mode, cy_again' = cy_again, tst_exit(res), cy_calls' = calls
  PROVE  CyTelling'
<1>1. /\ cy_pc' = "ended" /\ cy_ending' = "exit" /\ cy_res' = tst_flush(res)
      /\ cy_exit' = tst_flush(res).exitval \cap Failures
  BY DEF tst_exit
<1>2. /\ cy_exit' = {call[2] : call \in cy_calls'} \cap Failures /\ CyReal(cy_res'.printed, cy_calls')
      /\ \A call \in cy_calls' : Shown(call[2]) => CyHas(cy_res'.printed, call)
  BY <1>1, CyFlushHeard
<1>3. \A type : Shown(type)' <=> Shown(type)
  BY DEF Shown
<1>4. CyTold'
  BY <1>2, <1>3 DEF CyTold, CyHas, CyReal, Matches
<1>5. ~cy_again' => CyAllTold(cy_res', cy_calls')
  BY <1>1, CyFlushTells
<1>6. ~cy_again' => CyNumbered'
  BY <1>3, <1>5 DEF CyNumbered, CyAllTold, Covers
<1> QED
  BY <1>1, <1>2, <1>4, <1>6 DEF CyTelling, CyReported

\* Where results are left alone.
LEMMA CyQuiet ==
  ASSUME CyIInv, cy_res' = cy_res, cy_calls' = cy_calls, cy_mode' = cy_mode, cy_again' = cy_again,
         cy_pc # "ended", cy_ending' # "exit", cy_pc' # "ended" => cy_ending' = "none",
         cy_pc' = "options" => cy_pc = "options"
  PROVE  CyTelling'
<1>1. CyHeard(cy_res, cy_calls) /\ (~cy_again => CyToldSoFar(cy_res, cy_calls))
      /\ (cy_pc = "options" => cy_calls = {})
  BY DEF CyIInv, CyTelling
<1> QED
  BY <1>1, CyGoesOn

\* What a program that goes on has.
LEMMA CyRunning ==
  ASSUME CyIInv, cy_pc # "ended"
  PROVE  /\ CyHeard(cy_res, cy_calls) /\ (~cy_again => CyToldSoFar(cy_res, cy_calls))
         /\ cy_ending = "none" /\ cy_mode \in CyFourModes /\ cy_total \in Int /\ cy_lc \in Nat
         /\ cy_again \in BOOLEAN /\ cy_std \in CyStds /\ cy_std.count \in Int /\ cy_std.infinite \in BOOLEAN
         /\ cy_res \in CyResults /\ cy_res.count \in Nat
<1>1. CyHeard(cy_res, cy_calls) /\ (~cy_again => CyToldSoFar(cy_res, cy_calls)) /\ cy_ending = "none"
  BY DEF CyIInv, CyTelling
<1>2. cy_res \in CyResults /\ cy_res.count \in Nat
  BY <1>1, CyHeardIs
<1> QED
  BY <1>1, <1>2 DEF CyIInv, CyTyped, CyStds

LEMMA CyLoopKeeps ==
  ASSUME CyIInv, CyLoop
  PROVE  CyIInv'
<1>1. /\ cy_pc = "loop" /\ cy_mode' = cy_mode /\ cy_total' = cy_total /\ cy_lc' = cy_lc
      /\ cy_std' = cy_std /\ cy_args' = cy_args /\ cy_given' = cy_given /\ cy_env' = cy_env
      /\ cy_calls' = cy_calls /\ cy_ending' = cy_ending
      /\ \E inTime \in BOOLEAN :
           IF usc_test_looping(inTime)
           THEN /\ cy_pc' = "body" /\ cy_again' = (cy_lc > 0)
                /\ cy_res' = [cy_res EXCEPT !.count = 0]
           ELSE cy_pc' = "cleanup" /\ cy_again' = cy_again /\ cy_res' = cy_res
  BY DEF CyLoop
<1>2. /\ CyHeard(cy_res, cy_calls) /\ (~cy_again => CyToldSoFar(cy_res, cy_calls))
      /\ cy_ending = "none" /\ cy_lc \in Nat /\ cy_again \in BOOLEAN
      /\ cy_std.count \in Int /\ cy_std.infinite \in BOOLEAN
      /\ cy_res \in CyResults /\ cy_res.count \in Nat
  BY <1>1, CyRunning
<1>3. /\ CyTyped /\ CyAsked /\ (cy_lc = 0 => cy_res.count = 0 /\ ~cy_again)
      /\ ~cy_std.infinite /\ cy_std.duration = 0 => cy_lc = 0 \/ cy_lc <= cy_std.count
  BY <1>1 DEF CyIInv, CyLooping
<1>4. EnvInfinite' = EnvInfinite /\ CyAsked'
  BY <1>1, <1>3 DEF EnvInfinite, CyAsked
<1>5. ASSUME NEW inTime \in BOOLEAN, usc_test_looping(inTime), cy_pc' = "body", cy_again' = (cy_lc > 0),
             cy_res' = [cy_res EXCEPT !.count = 0]
      PROVE  CyIInv'
  <2>1. CyTyped'
    <3>1. cy_again' \in BOOLEAN
      BY <1>5
    <3> QED
      BY <1>1, <1>3, <1>5, <3>1 DEF CyTyped, CyPcs
  <2>2. CyHeard(cy_res', cy_calls')
    BY <1>1, <1>2, <1>5, CyCountHeard
  <2>3. ~cy_again' => CyToldSoFar(cy_res', cy_calls')
    <3> SUFFICES ASSUME ~cy_again' PROVE CyToldSoFar(cy_res', cy_calls')
      OBVIOUS
    <3>1. cy_lc = 0
      <4>1. ~(cy_lc > 0)
        BY <1>5, Zenon
      <4> QED
        BY <1>2, <4>1
    <3>2. cy_res' = cy_res
      BY <1>2, <1>3, <1>5, <3>1 DEF CyResults
    <3> QED
      BY <1>1, <1>2, <1>3, <3>1, <3>2
  <2>4. CyTelling'
    BY <1>1, <1>2, <1>5, <2>2, <2>3, CyGoesOn
  <2>5. cy_std.duration = 0 /\ ~cy_std.infinite => cy_lc < cy_std.count
    BY <1>5 DEF usc_test_looping
  <2>6. CyLooping'
    <3>1. cy_lc = 0 => ~cy_again'
      <4>1. cy_lc = 0 => ~(cy_lc > 0)
        BY <1>2
      <4> QED
        BY <1>5, <4>1, Zenon
    <3> QED
      BY <1>1, <1>4, <1>5, <2>5, <3>1 DEF CyLooping, CyLoopsAsAsked
  <2> QED
    BY <2>1, <2>4, <2>6 DEF CyIInv
<1>6. ASSUME NEW inTime \in BOOLEAN, ~usc_test_looping(inTime), cy_pc' = "cleanup", cy_again' = cy_again,
             cy_res' = cy_res
      PROVE  CyIInv'
  <2>1. CyTyped'
    BY <1>1, <1>3, <1>6 DEF CyTyped, CyPcs
  <2>2. CyTelling'
    BY <1>1, <1>2, <1>6, CyQuiet
  <2>3. ~cy_std.infinite /\ (cy_std.count = 0 \/ ~(cy_lc < cy_std.count))
    BY <1>6 DEF usc_test_looping
  <2>4. cy_lc >= cy_std.count /\ (cy_std.duration = 0 => cy_lc = IF cy_std.count < 0 THEN 0 ELSE cy_std.count)
    BY <1>2, <1>3, <2>3
  <2>5. "duration" \notin cy_given => cy_env.USC_LOOP_WALLTIME # 0 /\ cy_env.USC_DURATION # 0
    BY <1>3, <2>3 DEF CyAsked, EnvInfinite
  <2>6. "iteration" \notin cy_given => cy_env.USC_ITERATIONS \in {<<>>, <<cy_std.count>>}
    BY <1>3, <2>3 DEF CyAsked
  <2>7. CyLoopsAsAsked'
    BY <1>1, <2>3, <2>4, <2>5, <2>6 DEF CyLoopsAsAsked
  <2>8. CyLooping'
    BY <1>1, <1>3, <1>4, <1>6, <2>7 DEF CyLooping
  <2> QED
    BY <2>1, <2>2, <2>8 DEF CyIInv
<1> QED
  BY <1>1, <1>5, <1>6

\* Options and environment.
LEMMA CyOptionKeeps ==
  ASSUME CyIInv, CyOption \/ CyEnvironment
  PROVE  CyIInv'
<1>1. /\ cy_mode' = cy_mode /\ cy_total' = cy_total /\ cy_lc' = cy_lc /\ cy_env' = cy_env
      /\ cy_res' = cy_res /\ cy_calls' = cy_calls /\ cy_again' = cy_again /\ cy_pc = "options"
      /\ cy_ending = "none" /\ cy_ending' = cy_ending
  BY DEF CyOption, CyEnvironment, cyOut, CyIInv, CyTelling
<1>2. CyTyped /\ cy_std \in CyStds /\ cy_args \in Seq(STRING \X Int) /\ cy_std.count \in Int
  BY DEF CyIInv, CyTyped, CyStds
<1>3. cy_lc = 0 /\ cy_res.count = 0 /\ ~cy_again
  BY <1>1 DEF CyIInv, CyLooping
<1>4. CASE CyOption
  <2>1. cy_pc' = "options" /\ cy_args # <<>> /\ cy_args' = Tail(cy_args)
    BY <1>4 DEF CyOption
  <2>2. cy_std' \in CyStds
    <3> DEFINE value == Head(cy_args)[2]
    <3>1. value \in Int
      <4>1. Head(cy_args) \in STRING \X Int
        BY <1>2, <2>1
      <4> QED
        BY <4>1
    <3>2. \/ cy_std' = [cy_std EXCEPT !.count = value, !.infinite = @ \/ value = 0]
          \/ cy_std' = [cy_std EXCEPT !.duration = value, !.infinite = @ \/ value = 0]
          \/ cy_std' = [cy_std EXCEPT !.pause = TRUE]
          \/ cy_std' = [cy_std EXCEPT !.errlog = TRUE]
          \/ cy_std' = cy_std
      BY <1>4, Zenon DEF CyOption
    <3> HIDE DEF value
    <3> QED
      BY <1>2, <3>1, <3>2 DEF CyStds
  <2>3. CyTyped'
    <3>1. cy_args' \in Seq(STRING \X Int)
      BY <1>2, <2>1
    <3> QED
      BY <1>1, <1>2, <2>1, <2>2, <3>1 DEF CyTyped
  <2>4. CyTelling'
    BY <1>1, <2>1, CyQuiet
  <2> QED
    BY <1>1, <1>3, <2>1, <2>3, <2>4 DEF CyIInv, CyLooping, CyLoopsAsAsked
<1>5. CASE CyEnvironment
  <2>1. cy_pc' = "setup" /\ cy_args' = cy_args /\ cy_given' = cy_given
    BY <1>5 DEF CyEnvironment
  <2> DEFINE asked == cy_env.USC_ITERATIONS
             count == IF "iteration" \in cy_given \/ asked \in {<<>>, <<0>>} THEN cy_std.count ELSE asked[1]
             duration == IF "duration" \in cy_given THEN cy_std.duration
                         ELSE IF cy_env.USC_DURATION >= 0 THEN cy_env.USC_DURATION
                         ELSE IF cy_env.USC_LOOP_WALLTIME >= 0 THEN cy_env.USC_LOOP_WALLTIME
                         ELSE cy_std.duration
             infinite == cy_std.infinite \/ EnvInfinite
             sbrk == cy_env.USC_TP_SBRK > 0
  <2>2. cy_std' = [count |-> count, duration |-> duration, infinite |-> infinite,
                   pause |-> cy_std.pause, sbrk |-> sbrk, errlog |-> cy_std.errlog]
    BY <1>5 DEF CyEnvironment
  <2>3. asked \in Seq(Int) /\ Len(asked) <= 1
    BY <1>2 DEF CyTyped, CyEnvironments
  <2>4. asked = <<>> \/ (asked = <<asked[1]>> /\ asked[1] \in Int)
    <3> HIDE DEF asked
    <3>1. asked = <<>> \/ Len(asked) = 1
      <4> SUFFICES ASSUME asked # <<>> PROVE Len(asked) = 1
        OBVIOUS
      <4> DEFINE n == Len(asked)
      <4>1. n \in Nat \ {0} /\ n <= 1
        BY <2>3, EmptySeq
      <4> HIDE DEF n
      <4>2. n = 1
        BY <4>1
      <4> QED
        BY <4>2 DEF n
    <3> QED
      BY <2>3, <3>1
  <2>5. /\ count \in Int /\ infinite \in BOOLEAN /\ cy_std.pause \in BOOLEAN /\ sbrk \in BOOLEAN
        /\ cy_std.errlog \in BOOLEAN
    <3> HIDE DEF asked
    <3> QED
      BY <1>2, <2>4 DEF CyStds, EnvInfinite, CyTyped, CyEnvironments
  <2>6. duration \in Int
    BY <1>2 DEF CyStds, CyTyped, CyEnvironments
  <2>7. "iteration" \notin cy_given => infinite \/ asked \in {<<>>, <<count>>}
    <3>1. "iteration" \notin cy_given /\ asked = <<0>> => infinite
      BY DEF EnvInfinite
    <3> HIDE DEF asked, infinite
    <3> QED
      BY <2>4, <3>1
  <2>8. EnvInfinite' = EnvInfinite /\ (EnvInfinite => infinite)
    BY <1>1, <2>1 DEF EnvInfinite
  <2>9. asked = cy_env.USC_ITERATIONS
    OBVIOUS
  <2> HIDE DEF asked, count, duration, infinite, sbrk
  <2>10. cy_std' \in CyStds /\ cy_std'.count = count /\ cy_std'.infinite = infinite
    BY <2>2, <2>5, <2>6 DEF CyStds
  <2>11. CyTyped'
    BY <1>1, <1>2, <2>1, <2>10 DEF CyTyped, CyPcs
  <2>12. CyTelling'
    BY <1>1, <2>1, CyQuiet
  <2>13. CyAsked'
    BY <1>1, <2>1, <2>7, <2>8, <2>9, <2>10 DEF CyAsked
  <2> QED
    BY <1>1, <1>3, <2>1, <2>11, <2>12, <2>13 DEF CyIInv, CyLooping, CyLoopsAsAsked
<1> QED
  BY <1>4, <1>5

\* What leaves results, options and loop alone.
LEMMA CySetupKeeps ==
  ASSUME CyIInv, CySetup \/ CyPrepared \/ CyAborts
  PROVE  CyIInv'
<1>1. /\ cy_mode' = cy_mode /\ cy_total' = cy_total /\ cy_lc' = cy_lc /\ cy_env' = cy_env
      /\ cy_res' = cy_res /\ cy_calls' = cy_calls /\ cy_again' = cy_again /\ cy_args' = cy_args
      /\ cy_std' = cy_std /\ cy_given' = cy_given
      /\ \/ /\ cy_pc \in {"setup", "paused", "prepare"} /\ cy_pc' \in {"paused", "prepare", "loop"}
            /\ cy_ending' = cy_ending
         \/ /\ cy_pc \in {"setup", "paused", "prepare", "cleanup", "broken"} /\ cy_pc' = "ended"
            /\ cy_ending' = "abort"
  BY DEF CySetup, CyPrepared, CyAborts, cyOut
<1>2. cy_ending = "none" /\ CyTyped /\ EnvInfinite' = EnvInfinite
  BY <1>1, CyRunning DEF CyIInv, EnvInfinite
<1>3. CyTyped'
  BY <1>1, <1>2 DEF CyTyped, CyPcs
<1>4. CyTelling'
  BY <1>1, <1>2, CyQuiet
<1>5. CyLooping'
  BY <1>1, <1>2 DEF CyIInv, CyLooping, CyAsked, CyLoopsAsAsked
<1> QED
  BY <1>3, <1>4, <1>5 DEF CyIInv

\* Results and rounds.
LEMMA CyResultKeeps ==
  ASSUME CyIInv, NEW type \in {"PASS", "FAIL", "WARN", "INFO"}, NEW message \in {"m", "n"},
         tst_resm(type, message)
  PROVE  CyIInv'
<1>1. /\ cy_mode' = cy_mode /\ cy_total' = cy_total /\ cy_env' = cy_env /\ cy_args' = cy_args
      /\ cy_given' = cy_given /\ cy_std' = cy_std /\ cy_ending' = cy_ending /\ cy_again' = cy_again
      /\ cy_pc' = cy_pc /\ cy_lc' = cy_lc /\ cy_res' = tst_res(cy_res, 1, type, message)
      /\ cy_calls' = cy_calls \cup {<<IF type \in {"WARN", "INFO"} THEN 0 ELSE cy_res.count + 1, type, message>>}
      /\ \/ cy_pc = "prepare" /\ type = "WARN"
         \/ cy_pc = "body"
         \/ cy_pc = "cleanup"
  BY DEF tst_resm, Remarks
<1>2. /\ CyHeard(cy_res, cy_calls) /\ (~cy_again => CyToldSoFar(cy_res, cy_calls))
      /\ cy_ending = "none" /\ cy_mode \in CyFourModes /\ cy_res.count \in Nat
  BY <1>1, CyRunning
<1>3. 1 \in Nat \ {0} /\ type \in CyTypes /\ message \in CyMessages
  BY DEF CyTypes, CyMessages
<1>4. cy_calls' = cy_calls \cup CyNumbers(cy_res, 1, type, message)
  <2>1. cy_res.count + 1 .. cy_res.count + 1 = {cy_res.count + 1}
    BY <1>2
  <2>2. {<<i, type, message>> : i \in cy_res.count + 1 .. cy_res.count + 1} = {<<cy_res.count + 1, type, message>>}
    BY <2>1
  <2> QED
    BY <1>1, <2>2 DEF CyNumbers
<1>5. CyHeard(cy_res', cy_calls')
  BY <1>1, <1>2, <1>3, <1>4, CyResHeard
<1>6. cy_pc = "prepare" => cy_res'.count = cy_res.count
  <2>1. tst_res(cy_res, 1, type, message).count =
          IF type \in {"WARN", "INFO"} THEN cy_res.count ELSE cy_res.count + 1
    BY <1>2, <1>3, CyResHeard
  <2>2. cy_pc = "prepare" => type = "WARN"
    BY <1>1
  <2> QED
    BY <1>1, <2>1, <2>2
<1>7. ~cy_again' => CyToldSoFar(cy_res', cy_calls')
  BY <1>1, <1>2, <1>3, <1>4, CyResTells
<1>8. CyTelling'
  BY <1>1, <1>2, <1>5, <1>7, CyGoesOn
<1>9. EnvInfinite' = EnvInfinite /\ CyTyped'
  BY <1>1 DEF EnvInfinite, CyIInv, CyTyped
<1>10. CyLooping'
  BY <1>1, <1>6, <1>9 DEF CyIInv, CyLooping, CyAsked, CyLoopsAsAsked
<1> QED
  BY <1>8, <1>9, <1>10 DEF CyIInv

LEMMA CyRoundKeeps ==
  ASSUME CyIInv, CyCounts \/ CyIterated
  PROVE  CyIInv'
<1>1. /\ cy_mode' = cy_mode /\ cy_total' = cy_total /\ cy_env' = cy_env /\ cy_args' = cy_args
      /\ cy_given' = cy_given /\ cy_std' = cy_std /\ cy_ending' = cy_ending /\ cy_again' = cy_again
      /\ cy_calls' = cy_calls /\ cy_pc = "body"
      /\ \/ cy_pc' = "body" /\ cy_lc' = cy_lc
         \/ cy_pc' = "loop" /\ cy_lc' = cy_lc + 1
      /\ \E more \in {0, 1} : cy_res' = [cy_res EXCEPT !.count = @ + more]
  BY DEF CyCounts, CyIterated
<1>2. /\ CyHeard(cy_res, cy_calls) /\ (~cy_again => CyToldSoFar(cy_res, cy_calls))
      /\ cy_ending = "none" /\ cy_res.count \in Nat /\ cy_lc \in Nat /\ cy_std.count \in Int
  BY <1>1, CyRunning
<1>3. PICK more \in {0, 1} : cy_res' = [cy_res EXCEPT !.count = @ + more]
  BY <1>1
<1>4. CyHeard(cy_res', cy_calls')
  <2>1. cy_res.count + more \in Nat /\ cy_res' = [cy_res EXCEPT !.count = cy_res.count + more]
    BY <1>2, <1>3
  <2> QED
    BY <1>1, <1>2, <2>1, CyCountHeard
<1>5. ~cy_again' => CyToldSoFar(cy_res', cy_calls')
  <2>1. more \in Nat
    OBVIOUS
  <2> QED
    BY <1>1, <1>2, <1>3, <2>1, CyCountTells
<1>6. CyTelling'
  BY <1>1, <1>2, <1>4, <1>5, CyGoesOn
<1>7. EnvInfinite' = EnvInfinite /\ CyTyped'
  BY <1>1, <1>2 DEF EnvInfinite, CyIInv, CyTyped, CyPcs
<1>8. ~cy_std.infinite /\ cy_std.duration = 0 => cy_lc < cy_std.count /\ cy_lc + 1 <= cy_std.count
  BY <1>1, <1>2 DEF CyIInv, CyLooping
<1>9. (cy_lc = 0 => ~cy_again) /\ CyAsked /\ cy_lc + 1 # 0
  BY <1>1, <1>2 DEF CyIInv, CyLooping
<1>10. CyLooping'
  BY <1>1, <1>7, <1>8, <1>9 DEF CyLooping, CyAsked, CyLoopsAsAsked
<1> QED
  BY <1>6, <1>7, <1>10 DEF CyIInv

LEMMA CyBrokenKeeps ==
  ASSUME CyIInv, CyBadOption \/ CyBreaks
  PROVE  CyIInv'
<1>1. /\ cy_mode' = cy_mode /\ cy_total' = cy_total /\ cy_env' = cy_env /\ cy_args' = cy_args
      /\ cy_given' = cy_given /\ cy_std' = cy_std /\ cy_ending' = cy_ending /\ cy_again' = cy_again
      /\ cy_lc' = cy_lc
      /\ \/ cy_pc \in {"options", "prepare"} /\ cy_pc' = "broken"
         \/ cy_pc \in {"cleanup", "broken"} /\ cy_pc' = cy_pc
  BY DEF CyBadOption, CyBreaks
<1>2. \E type \in {"BROK", "FAIL"}, message \in CyMessages : Brk(type, message)
  <2>1. "options" \in CyMessages /\ "m" \in CyMessages
    BY DEF CyMessages
  <2> QED
    BY <2>1 DEF CyBadOption, CyBreaks
<1>3. PICK type \in {"BROK", "FAIL"}, message \in CyMessages : Brk(type, message)
  BY <1>2
<1>4. /\ CyHeard(cy_res, cy_calls) /\ (~cy_again => CyToldSoFar(cy_res, cy_calls))
      /\ cy_ending = "none" /\ cy_mode \in CyFourModes /\ cy_total \in Int
  BY <1>1, CyRunning
<1>5. cy_calls' = cy_calls \cup BrkCalls(type, message) /\ cy_res' = tst_brk(cy_res, type, message)
  BY <1>3 DEF Brk
<1>6. CyHeard(cy_res', cy_calls')
  BY <1>4, <1>5, CyBrkHeard
<1>7. ~cy_again' => CyToldSoFar(cy_res', cy_calls')
  BY <1>1, <1>4, <1>5, CyBrkTells
<1>8. CyTelling'
  BY <1>1, <1>4, <1>6, <1>7, CyGoesOn
<1>9. EnvInfinite' = EnvInfinite /\ CyTyped'
  BY <1>1 DEF EnvInfinite, CyIInv, CyTyped, CyPcs
<1>10. CyLooping'
  BY <1>1, <1>9 DEF CyIInv, CyLooping, CyAsked, CyLoopsAsAsked
<1> QED
  BY <1>8, <1>9, <1>10 DEF CyIInv

\* The ends of the program.
LEMMA CyEndingKeeps ==
  ASSUME CyIInv, CyHelp \/ CyCleanup
  PROVE  CyIInv'
<1>1. /\ cy_mode' = cy_mode /\ cy_total' = cy_total /\ cy_std' = cy_std /\ cy_lc' = cy_lc
      /\ cy_args' = cy_args /\ cy_env' = cy_env /\ cy_again' = cy_again /\ cy_given' = cy_given
      /\ cy_calls' = cy_calls
      /\ cy_pc' = "ended" /\ cy_pc \in {"options", "cleanup", "broken"}
  BY DEF CyHelp, CyCleanup, tst_exit, cyOut
<1>2. CyHeard(cy_res, cy_calls) /\ (~cy_again => CyToldSoFar(cy_res, cy_calls))
  BY <1>1, CyRunning
<1>3. CyTyped'
  BY <1>1 DEF CyIInv, CyTyped, CyPcs
<1>4. CyLooping'
  BY <1>1 DEF CyIInv, CyLooping, CyLoopsAsAsked
<1>5. CyTelling'
  <2>1. CASE CyHelp
    <3>1. cy_ending' = "exit" /\ cy_exit' = {} /\ cy_res' = cy_res /\ cy_calls' = {}
      BY <1>1, <2>1 DEF CyHelp, cyOut, CyIInv, CyTelling
    <3>2. CyReal(cy_res'.printed, cy_calls')
      BY <1>1, <1>2, <3>1 DEF CyHeard
    <3>3. CyTold' /\ CyNumbered'
      BY <3>1, <3>2 DEF CyTold, CyNumbered, CyReal
    <3> QED
      BY <1>1, <3>1, <3>3 DEF CyTelling, CyReported
  <2>2. CASE CyCleanup
    BY <1>1, <1>2, <2>2, CyExitTells DEF CyCleanup
  <2> QED
    BY <2>1, <2>2
<1> QED
  BY <1>3, <1>4, <1>5 DEF CyIInv

LEMMA CyStart ==
  ASSUME CyInit
  PROVE  CyIInv
<1>1. CyTyped
  <2>1. /\ cy_mode \in CyFourModes /\ cy_total \in Int /\ cy_env \in CyEnvironments
        /\ cy_args \in Seq(STRING \X Int)
    BY CyAssumption DEF CyInit, CyFourModes
  <2>2. cy_pc \in CyPcs /\ cy_lc \in Nat
    BY DEF CyInit, CyPcs
  <2>3. cy_std \in CyStds
    BY DEF CyInit, CyStds
  <2>4. cy_again \in BOOLEAN
    BY DEF CyInit
  <2> QED
    BY <2>1, <2>2, <2>3, <2>4 DEF CyTyped
<1>2. cy_res = [exitval |-> {}, count |-> 0, last |-> None, printed |-> <<>>] /\ cy_calls = {}
  BY DEF CyInit
<1>3. cy_res \in CyResults
  <2>1. <<>> \in Seq(CyLines) /\ {} \in SUBSET CyTypes /\ None \in CyLasts
    BY DEF CyLasts
  <2> QED
    BY <1>2, <2>1, Zenon DEF CyResults
<1>4. CyToldSoFar(cy_res, cy_calls)
  BY <1>2, <1>3 DEF CyToldSoFar, CyAllTold, CyBefore
<1>5. CyHeard(cy_res, cy_calls)
  BY <1>2, <1>3 DEF CyHeard, CyReal
<1>6. CyTelling
  BY <1>4, <1>5, CyHeardTold DEF CyInit, CyTelling, CyReported
<1>7. CyLooping
  BY <1>2 DEF CyInit, CyLooping, CyLoopsAsAsked
<1> QED
  BY <1>1, <1>6, <1>7 DEF CyIInv

\* Each result that a program's mode shows has a line of its type and text or waits in the
\* buffer, which an exit empties, and each line is of a result; an exit tells the failures, and
\* gives every number its type unless a second round used the numbers again; a test that is not
\* broken off ran as often as its options and environment ask (tst_res, tst_brk, tst_exit,
\* parse_opts, usc_test_looping).
THEOREM CyDoesAsAsked == CySpec => []CyAsAsked
<1>1. CyIInv /\ [CyNext]_cyvars => CyIInv'
  <2> SUFFICES ASSUME CyIInv, [CyNext]_cyvars PROVE CyIInv'
    OBVIOUS
  <2>1. CASE UNCHANGED cyvars
    <3>1. CyTyped'
      BY <2>1 DEF cyvars, CyIInv, CyTyped
    <3>2. EnvInfinite' = EnvInfinite
      BY <2>1 DEF cyvars, EnvInfinite
    <3>3. CyLooping'
      BY <2>1, <3>2 DEF cyvars, CyIInv, CyLooping, CyAsked, CyLoopsAsAsked
    <3>4. /\ CyToldSoFar(cy_res, cy_calls)' = CyToldSoFar(cy_res, cy_calls)
          /\ CyHeard(cy_res, cy_calls)' = CyHeard(cy_res, cy_calls)
      BY <2>1, Zenon DEF cyvars, CyToldSoFar, CyAllTold, Shown, Covers, CyBefore, CyEdge, CyHeard, CyHas,
                         CyReal, Matches
    <3>5. CyReported' = CyReported
      BY <2>1, Zenon DEF cyvars, CyReported, CyTold, CyNumbered, Shown, Covers, Matches
    <3>6. CyTelling'
      BY <2>1, <3>4, <3>5 DEF cyvars, CyIInv, CyTelling
    <3> QED
      BY <3>1, <3>3, <3>6 DEF CyIInv
  <2>2. ASSUME NEW type \in {"PASS", "FAIL"}, NEW message \in {"m", "n"}, tst_resm(type, message)
        PROVE  CyIInv'
    BY <2>2, CyResultKeeps
  <2>3. ASSUME NEW type \in Remarks, tst_resm(type, "m")
        PROVE  CyIInv'
    BY <2>3, CyResultKeeps DEF Remarks
  <2> QED
    BY <2>1, <2>2, <2>3, CyLoopKeeps, CyOptionKeeps, CySetupKeeps, CyRoundKeeps, CyBrokenKeeps,
       CyEndingKeeps DEF CyNext
<1>2. CyIInv => CyAsAsked
  BY DEF CyIInv, CyTelling, CyLooping, CyAsAsked
<1> QED
  BY <1>1, <1>2, CyStart, PTL DEF CySpec

----------------------------------------------------------------------------
(***************************************************************************)
(* The script that runs the tests (run_test_binaries.sh).  A count of jobs *)
(* is at least the number still active when it is used, and each line of   *)
(* the results file is the verdict of its test.                            *)
(***************************************************************************)
JobStates == {"none", "running", "passed", "failed", "ended", "waited"}
Over      == {"ended", "waited"}

\* The plain types.
RunnerTypes ==
  /\ errexit \in BOOLEAN
  /\ pc \in {"count", "loop", "wait", "drain", "judge", "done"}
  /\ next \in Tests
  /\ JOBS_COUNT \in 0 .. NTests
  /\ job \in [Tests -> JobStates]
  /\ outcome \in [Tests -> Outcomes]
  /\ lines \subseteq Tests \X {"passed", "failed"}
  /\ code \in {0, 1}

\* The tests before next have been started, the others have not.
InOrder ==
  /\ pc \in {"count", "loop", "wait"} =>
       \A i \in Tests : job[i] = "none" <=> i >= next
  /\ pc \in {"drain", "judge", "done"} => \A i \in Tests : job[i] # "none"
  /\ pc \in {"judge", "done"} => Active = {}

\* Every job carries its test's verdict, and then the file does.
JobsJudged ==
  \A i \in Tests :
    /\ job[i] \in {"passed", "failed"} => job[i] = VerdictOf(outcome[i])
    /\ {l \in lines : l[1] = i} =
         IF job[i] \in Over THEN {<<i, VerdictOf(outcome[i])>>} ELSE {}

\* With set -e in force a program's status is its command's, or there is text.
NothingLost ==
  errexit => \A i \in Tests : outcome[i].exits # 0 => VerdictOf(outcome[i]) = "failed"

StatusRight == pc = "done" => (code = 1 <=> \E l \in lines : l[2] = "failed")

\* Jobs end behind the shell's back, but none starts or is waited for between
\* the count and its use.
CountBounds ==
  /\ pc = "loop" => Cardinality(Active) <= JOBS_COUNT
  /\ pc = "loop" => JOBS_COUNT <= Cardinality(Active \cup Jobs({"ended"}))
  /\ pc = "wait" => Active \cup Jobs({"ended"}) # {}

RunnerIInv ==
  RunnerTypes /\ InOrder /\ JobsJudged /\ NothingLost /\ StatusRight /\ CountBounds /\ LoadBounded

-----------------------------------------------------------------------------
\* Sets of tests are finite, and a subset is no larger (the counts of jobs).
LEMMA SetsOfTests ==
  ASSUME NEW A \in SUBSET Tests, NEW B \in SUBSET A
  PROVE  /\ IsFiniteSet(A) /\ IsFiniteSet(B)
         /\ Cardinality(A) \in 0 .. NTests /\ Cardinality(B) \in 0 .. NTests
         /\ Cardinality(B) <= Cardinality(A)
<1>1. IsFiniteSet(Tests) /\ Cardinality(Tests) = NTests
  <2>1. 1 \in Int /\ NTests \in Int /\ ~(1 > NTests)
    BY RunnerAssumption, SMT
  <2>2. IsFiniteSet(1 .. NTests) /\ Cardinality(1 .. NTests) = NTests - 1 + 1
    BY <2>1, FS_Interval
  <2> QED BY <2>1, <2>2, SMT DEF Tests
<1>2. /\ IsFiniteSet(A) /\ Cardinality(A) <= Cardinality(Tests)
  BY <1>1, FS_Subset
<1>3. /\ IsFiniteSet(B) /\ Cardinality(B) <= Cardinality(A)
  BY <1>2, FS_Subset
<1>4. Cardinality(A) \in Nat /\ Cardinality(B) \in Nat
  BY <1>2, <1>3, FS_CardinalityType
<1> QED BY <1>1, <1>2, <1>3, <1>4, RunnerAssumption, SMT

\* The three sets of jobs the invariant counts.
LEMMA ActiveSets ==
  /\ Active \in SUBSET Tests
  /\ Jobs({"ended"}) \in SUBSET Tests
  /\ Active \cup Jobs({"ended"}) \in SUBSET Tests
BY DEF Active, Jobs

LEMMA ActiveBound == Cardinality(Active) \in 0 .. NTests
BY ActiveSets, SetsOfTests

LEMMA InitRunnerIInv == Init => RunnerIInv
<1> SUFFICES ASSUME Init PROVE RunnerIInv
  OBVIOUS
<1>1. RunnerTypes
  <2>1. [exits |-> 0, status |-> 0, text |-> FALSE] \in Outcomes
    BY DEF Outcomes
  <2>2. errexit \in BOOLEAN /\ outcome \in [Tests -> Outcomes]
    BY <2>1 DEF Init
  <2> QED BY <2>2, RunnerAssumption, SMT DEF Init, RunnerTypes, Tests, JobStates
<1>2. InOrder
  BY SMT DEF Init, InOrder, Tests
<1>3. JobsJudged /\ NothingLost /\ StatusRight
  BY DEF Init, JobsJudged, NothingLost, StatusRight, Over
<1>4. CountBounds
  BY DEF Init, CountBounds
<1>5. LoadBounded
  <2>1. Active = {}
    BY DEF Init, Active, Jobs
  <2> QED BY <2>1, FS_EmptySet, RunnerAssumption, SMT DEF LoadBounded
<1> QED BY <1>1, <1>2, <1>3, <1>4, <1>5 DEF RunnerIInv

\* $(jobs | wc -l) counts every active job, and no job that is gone.
LEMMA CountJobsStep == RunnerIInv /\ CountJobs => RunnerIInv'
<1> SUFFICES ASSUME RunnerIInv, CountJobs PROVE RunnerIInv'
  OBVIOUS
<1> USE DEF CountJobs, Count
<1>0. PICK done \in SUBSET Jobs({"ended"}) : JOBS_COUNT' = Cardinality(Active \cup done)
  OBVIOUS
<1>a. /\ Active' = Active
      /\ Jobs({"ended"})' = Jobs({"ended"})
  BY DEF Active, Jobs
<1>1. /\ JOBS_COUNT' \in 0 .. NTests
      /\ Cardinality(Active) <= JOBS_COUNT'
      /\ JOBS_COUNT' <= Cardinality(Active \cup Jobs({"ended"}))
  <2>1. /\ Active \cup done \in SUBSET (Active \cup Jobs({"ended"}))
        /\ Active \in SUBSET (Active \cup done)
        /\ Active \cup done \in SUBSET Tests
    BY ActiveSets
  <2>2. Cardinality(Active) <= Cardinality(Active \cup done)
    BY <2>1, SetsOfTests
  <2>3. /\ Cardinality(Active \cup done) <= Cardinality(Active \cup Jobs({"ended"}))
        /\ Cardinality(Active \cup done) \in 0 .. NTests
    BY <2>1, ActiveSets, SetsOfTests
  <2> QED BY <1>0, <2>2, <2>3
<1>2. RunnerTypes'
  BY <1>1 DEF RunnerIInv, RunnerTypes
<1>3. InOrder'
  BY <1>a DEF RunnerIInv, InOrder
<1>4. JobsJudged' /\ NothingLost' /\ StatusRight'
  BY DEF RunnerIInv, JobsJudged, NothingLost, StatusRight
<1>5. CountBounds'
  BY <1>1, <1>a DEF CountBounds
<1>6. LoadBounded'
  BY <1>a DEF RunnerIInv, LoadBounded
<1> QED BY <1>2, <1>3, <1>4, <1>5, <1>6 DEF RunnerIInv

\* wait -n is called only when there is a job to wait for: the count is above
\* zero, and a job counted has not been waited for.
LEMMA HoldBackStep == RunnerIInv /\ HoldBack => RunnerIInv'
<1> SUFFICES ASSUME RunnerIInv, HoldBack PROVE RunnerIInv'
  OBVIOUS
<1> USE DEF HoldBack
<1>a. /\ Active' = Active
      /\ Jobs({"ended"})' = Jobs({"ended"})
  BY DEF Active, Jobs
<1>1. Active \cup Jobs({"ended"}) # {}
  <2>1. JOBS_COUNT > PROCESSOR_COUNT /\ JOBS_COUNT <= Cardinality(Active \cup Jobs({"ended"}))
    BY DEF TooMany, RunnerIInv, CountBounds
  <2>2. Cardinality(Active \cup Jobs({"ended"})) \in 0 .. NTests
    BY ActiveSets, SetsOfTests
  <2>3. Cardinality(Active \cup Jobs({"ended"})) # 0
    BY <2>1, <2>2, RunnerAssumption, SMT DEF RunnerIInv, RunnerTypes
  <2> QED BY <2>3, FS_EmptySet
<1>2. RunnerTypes' /\ InOrder' /\ JobsJudged' /\ NothingLost' /\ StatusRight'
  BY <1>a DEF RunnerIInv, RunnerTypes, InOrder, JobsJudged, NothingLost, StatusRight
<1>3. CountBounds' /\ LoadBounded'
  BY <1>1, <1>a DEF RunnerIInv, CountBounds, LoadBounded
<1> QED BY <1>2, <1>3 DEF RunnerIInv

LEMMA WaitAnyStep == ASSUME NEW i \in Tests PROVE RunnerIInv /\ WaitAny(i) => RunnerIInv'
<1> SUFFICES ASSUME RunnerIInv, WaitAny(i) PROVE RunnerIInv'
  OBVIOUS
<1> USE DEF WaitAny
<1>0. job \in [Tests -> JobStates] /\ job[i] = "ended" /\ job' = [job EXCEPT ![i] = "waited"]
  BY DEF RunnerIInv, RunnerTypes
<1>a. Active' = Active
  BY <1>0 DEF Active, Jobs
<1>1. RunnerTypes'
  BY <1>0 DEF RunnerIInv, RunnerTypes, JobStates
<1>2. InOrder'
  BY <1>0, <1>a DEF RunnerIInv, InOrder
<1>3. JobsJudged' /\ NothingLost' /\ StatusRight'
  BY <1>0 DEF RunnerIInv, JobsJudged, NothingLost, StatusRight, Over
<1>4. CountBounds' /\ LoadBounded'
  BY <1>a DEF RunnerIInv, CountBounds, LoadBounded
<1> QED BY <1>1, <1>2, <1>3, <1>4 DEF RunnerIInv

\* The one step that adds a job: at most PROCESSOR_COUNT were active when the
\* jobs were counted, and none has been started since.
LEMMA StartTestStep == RunnerIInv /\ StartTest => RunnerIInv'
<1> SUFFICES ASSUME RunnerIInv, StartTest PROVE RunnerIInv'
  OBVIOUS
<1>0. /\ job \in [Tests -> JobStates] /\ next \in Tests /\ pc = "loop"
      /\ job' = [job EXCEPT ![next] = "running"]
      /\ UNCHANGED <<errexit, JOBS_COUNT, outcome, lines, code>>
      /\ \A i \in Tests : job[i] = "none" <=> i >= next
  BY DEF StartTest, RunnerIInv, RunnerTypes, InOrder
<1>b. \/ next = NTests /\ pc' = "drain" /\ next' = next
      \/ next # NTests /\ pc' = "count" /\ next' = next + 1
  BY DEF StartTest
<1>n. next \in Nat /\ next >= 1 /\ next <= NTests /\ NTests \in Nat
  BY <1>0, RunnerAssumption, SMT DEF Tests
<1>s. job[next] = "none"
  BY <1>0, <1>n, SMT
<1>1. RunnerTypes'
  <2>1. next' \in Tests
    BY <1>b, <1>n, SMT DEF Tests
  <2>2. job' \in [Tests -> JobStates]
    BY <1>0 DEF JobStates
  <2> QED BY <2>1, <2>2, <1>0, <1>b DEF RunnerIInv, RunnerTypes
<1>2. InOrder'
  <2>1. CASE next # NTests
    <3>1. pc' = "count" /\ next' = next + 1
      BY <2>1, <1>b
    <3>2. ASSUME NEW i \in Tests PROVE job'[i] = "none" <=> i >= next'
      <4>1. CASE i = next
        BY <4>1, <3>1, <1>0, <1>n, SMT
      <4>2. CASE i # next
        <5>1. job'[i] = job[i]
          BY <4>2, <1>0
        <5>2. i >= next <=> i >= next + 1
          BY <4>2, <1>n, SMT DEF Tests
        <5> QED BY <5>1, <5>2, <3>1, <1>0
      <4> QED BY <4>1, <4>2
    <3> QED BY <3>1, <3>2 DEF InOrder
  <2>2. CASE next = NTests
    <3>1. pc' = "drain"
      BY <2>2, <1>b
    <3>2. ASSUME NEW i \in Tests PROVE job'[i] # "none"
      <4>1. CASE i = next
        BY <4>1, <1>0
      <4>2. CASE i # next
        <5>1. job'[i] = job[i]
          BY <4>2, <1>0
        <5>2. ~(i >= next)
          BY <4>2, <2>2, <1>n, SMT DEF Tests
        <5> QED BY <5>1, <5>2, <1>0
      <4> QED BY <4>1, <4>2
    <3> QED BY <3>1, <3>2 DEF InOrder
  <2> QED BY <2>1, <2>2
<1>3. JobsJudged'
  <2> SUFFICES ASSUME NEW i \in Tests
               PROVE  /\ job'[i] \in {"passed", "failed"} => job'[i] = VerdictOf(outcome[i])
                      /\ {l \in lines : l[1] = i} =
                           IF job'[i] \in Over THEN {<<i, VerdictOf(outcome[i])>>} ELSE {}
    BY <1>0 DEF JobsJudged
  <2>1. CASE i = next
    BY <2>1, <1>0, <1>s DEF RunnerIInv, JobsJudged, Over
  <2>2. CASE i # next
    <3>1. job'[i] = job[i]
      BY <2>2, <1>0
    <3> QED BY <3>1 DEF RunnerIInv, JobsJudged
  <2> QED BY <2>1, <2>2
<1>4. NothingLost' /\ StatusRight' /\ CountBounds'
  BY <1>0, <1>b DEF RunnerIInv, NothingLost, StatusRight, CountBounds
<1>5. LoadBounded'
  <2>1. Active' = Active \cup {next} /\ next \notin Active
    BY <1>0, <1>s DEF Active, Jobs
  <2>2. Cardinality(Active') = Cardinality(Active) + 1
    <3>1. IsFiniteSet(Active)
      BY ActiveSets, SetsOfTests
    <3> QED BY <3>1, <2>1, FS_AddElement
  <2>3. Cardinality(Active) <= JOBS_COUNT
    BY <1>0 DEF RunnerIInv, CountBounds
  <2>4. ~(JOBS_COUNT > PROCESSOR_COUNT)
    BY DEF StartTest, TooMany
  <2>5. JOBS_COUNT \in 0 .. NTests
    BY DEF RunnerIInv, RunnerTypes
  <2> QED BY <2>2, <2>3, <2>4, <2>5, ActiveBound, RunnerAssumption, SMT DEF LoadBounded
<1> QED BY <1>1, <1>2, <1>3, <1>4, <1>5 DEF RunnerIInv

\* What the wrappers make of a status, with set -e in force.
LEMMA WrappersTell ==
  ASSUME errexit, NEW o \in Outcomes, o.status \in Statuses(o.exits, o.text), o.exits # 0
  PROVE  VerdictOf(o) = "failed"
<1>1. o.exits = 1 /\ o.text \in BOOLEAN
  BY DEF Outcomes
<1>2. CASE o.text
  BY <1>2 DEF VerdictOf
<1>3. CASE ~o.text
  <2>1. do_mtrace_test(o.exits, o.text) = {1}
    BY <1>1, <1>3 DEF do_mtrace_test
  <2>2. /\ do_output_diff_test(o.exits, o.text) = 1
        /\ do_output_lines_only_in_executable_output_test(o.exits, o.text) = 1
        /\ \A status \in {1} : do_output_diff_test(status, o.text) = 1
    BY <1>1, <1>3 DEF do_output_diff_test, do_output_lines_only_in_executable_output_test
  <2>3. do_printf_NetBSD_t(o.exits, o.text) = {1} /\ do_printf_gnulib_test_posix2(o.exits, o.text) = {}
    BY <1>1, <1>3, <2>2 DEF do_printf_NetBSD_t, do_printf_gnulib_test_posix2
  <2>4. o.status = 1
    BY <1>1, <2>1, <2>2, <2>3 DEF Statuses
  <2> QED BY <2>4 DEF VerdictOf
<1> QED BY <1>1, <1>2, <1>3

LEMMA TestEndsStep ==
  ASSUME NEW i \in Tests, NEW o \in Outcomes PROVE RunnerIInv /\ TestEnds(i, o) => RunnerIInv'
<1> SUFFICES ASSUME RunnerIInv, TestEnds(i, o) PROVE RunnerIInv'
  OBVIOUS
<1>0. /\ job \in [Tests -> JobStates] /\ outcome \in [Tests -> Outcomes]
      /\ job[i] = "running"
      /\ job' = [job EXCEPT ![i] = VerdictOf(o)]
      /\ outcome' = [outcome EXCEPT ![i] = o]
      /\ VerdictOf(o) \in {"passed", "failed"}
      /\ UNCHANGED <<errexit, pc, next, JOBS_COUNT, lines, code>>
  BY DEF TestEnds, RunnerIInv, RunnerTypes, VerdictOf
<1>a. Active' = Active /\ Jobs({"ended"})' = Jobs({"ended"})
  BY <1>0 DEF Active, Jobs
<1>1. RunnerTypes'
  BY <1>0 DEF RunnerIInv, RunnerTypes, JobStates
<1>2. InOrder'
  BY <1>0, <1>a DEF RunnerIInv, InOrder
<1>3. JobsJudged'
  <2> SUFFICES ASSUME NEW j \in Tests
               PROVE  /\ job'[j] \in {"passed", "failed"} => job'[j] = VerdictOf(outcome'[j])
                      /\ {l \in lines : l[1] = j} =
                           IF job'[j] \in Over THEN {<<j, VerdictOf(outcome'[j])>>} ELSE {}
    BY <1>0 DEF JobsJudged
  <2>1. CASE j = i
    BY <2>1, <1>0 DEF RunnerIInv, JobsJudged, Over
  <2>2. CASE j # i
    <3>1. job'[j] = job[j] /\ outcome'[j] = outcome[j]
      BY <2>2, <1>0
    <3> QED BY <3>1 DEF RunnerIInv, JobsJudged
  <2> QED BY <2>1, <2>2
<1>4. StatusRight' /\ CountBounds' /\ LoadBounded'
  BY <1>0, <1>a DEF RunnerIInv, StatusRight, CountBounds, LoadBounded
<1>5. NothingLost'
  <2> SUFFICES ASSUME errexit, NEW j \in Tests, outcome'[j].exits # 0
               PROVE  VerdictOf(outcome'[j]) = "failed"
    BY <1>0 DEF NothingLost
  <2>1. CASE j = i
    <3>1. outcome'[j] = o /\ o.status \in Statuses(o.exits, o.text)
      BY <2>1, <1>0 DEF TestEnds
    <3> QED BY <3>1, WrappersTell
  <2>2. CASE j # i
    BY <2>2, <1>0 DEF RunnerIInv, NothingLost
  <2> QED BY <2>1, <2>2
<1> QED BY <1>1, <1>2, <1>3, <1>4, <1>5 DEF RunnerIInv

\* The line a job appends is its only one, and it is appended before the shell
\* reads the file.
LEMMA AppendLineStep == ASSUME NEW i \in Tests PROVE RunnerIInv /\ AppendLine(i) => RunnerIInv'
<1> SUFFICES ASSUME RunnerIInv, AppendLine(i) PROVE RunnerIInv'
  OBVIOUS
<1>0. /\ job \in [Tests -> JobStates]
      /\ job[i] \in {"passed", "failed"}
      /\ job' = [job EXCEPT ![i] = "ended"]
      /\ lines' = lines \cup {<<i, job[i]>>}
      /\ UNCHANGED <<errexit, pc, next, JOBS_COUNT, outcome, code>>
  BY DEF AppendLine, RunnerIInv, RunnerTypes
<1>p. i \in Active /\ pc \notin {"judge", "done"}
  BY <1>0 DEF RunnerIInv, InOrder, Active, Jobs
<1>a. /\ Active' = Active \ {i}
      /\ Active' \cup Jobs({"ended"})' = Active \cup Jobs({"ended"})
  BY <1>0 DEF Active, Jobs
<1>c. Cardinality(Active') <= Cardinality(Active) /\ Cardinality(Active') \in 0 .. NTests
  BY <1>a, ActiveSets, SetsOfTests
<1>1. RunnerTypes'
  BY <1>0 DEF RunnerIInv, RunnerTypes, JobStates
<1>2. InOrder'
  BY <1>0, <1>p DEF RunnerIInv, InOrder
<1>3. JobsJudged'
  <2> SUFFICES ASSUME NEW j \in Tests
               PROVE  /\ job'[j] \in {"passed", "failed"} => job'[j] = VerdictOf(outcome[j])
                      /\ {l \in lines' : l[1] = j} =
                           IF job'[j] \in Over THEN {<<j, VerdictOf(outcome[j])>>} ELSE {}
    BY <1>0 DEF JobsJudged
  <2>1. CASE j = i
    <3>1. job[i] = VerdictOf(outcome[i])
      BY <1>0 DEF RunnerIInv, JobsJudged
    <3>2. {l \in lines : l[1] = i} = {}
      BY <1>0 DEF RunnerIInv, JobsJudged, Over
    <3>3. {l \in lines' : l[1] = i} = {<<i, job[i]>>}
      BY <3>2, <1>0
    <3>4. job'[i] = "ended"
      BY <1>0
    <3> QED BY <2>1, <3>1, <3>3, <3>4 DEF Over
  <2>2. CASE j # i
    <3>1. job'[j] = job[j]
      BY <2>2, <1>0
    <3>2. {l \in lines' : l[1] = j} = {l \in lines : l[1] = j}
      BY <2>2, <1>0
    <3> QED BY <3>1, <3>2 DEF RunnerIInv, JobsJudged
  <2> QED BY <2>1, <2>2
<1>4. NothingLost' /\ StatusRight'
  BY <1>0, <1>p DEF RunnerIInv, NothingLost, StatusRight
<1>5. CountBounds'
  <2>1. Active' \cup Jobs({"ended"})' = Active \cup Jobs({"ended"})
    BY <1>a
  <2>2. pc = "loop" => Cardinality(Active') <= JOBS_COUNT
    <3>1. pc = "loop" => Cardinality(Active) <= JOBS_COUNT
      BY DEF RunnerIInv, CountBounds
    <3>2. JOBS_COUNT \in 0 .. NTests
      BY DEF RunnerIInv, RunnerTypes
    <3> QED BY <3>1, <3>2, <1>c, ActiveBound, RunnerAssumption, SMT
  <2> QED BY <2>1, <2>2, <1>0 DEF RunnerIInv, CountBounds
<1>6. LoadBounded'
  BY <1>c, ActiveBound, RunnerAssumption, SMT DEF RunnerIInv, LoadBounded
<1> QED BY <1>1, <1>2, <1>3, <1>4, <1>5, <1>6 DEF RunnerIInv

LEMMA WaitAllStep == RunnerIInv /\ WaitAll => RunnerIInv'
<1> SUFFICES ASSUME RunnerIInv, WaitAll PROVE RunnerIInv'
  OBVIOUS
<1> USE DEF WaitAll
<1>a. Active' = Active /\ Active = {}
  BY DEF Active, Jobs, AllEnded
<1>1. RunnerTypes' /\ InOrder'
  BY <1>a DEF RunnerIInv, RunnerTypes, InOrder
<1>2. JobsJudged' /\ NothingLost' /\ StatusRight' /\ CountBounds' /\ LoadBounded'
  BY <1>a DEF RunnerIInv, JobsJudged, NothingLost, StatusRight, CountBounds, LoadBounded
<1> QED BY <1>1, <1>2 DEF RunnerIInv

LEMMA JudgeStep == RunnerIInv /\ Judge => RunnerIInv'
<1> SUFFICES ASSUME RunnerIInv, Judge PROVE RunnerIInv'
  OBVIOUS
<1> USE DEF Judge
<1>a. Active' = Active
  BY DEF Active, Jobs
<1>1. RunnerTypes' /\ InOrder'
  BY <1>a DEF RunnerIInv, RunnerTypes, InOrder
<1>2. JobsJudged' /\ NothingLost' /\ StatusRight' /\ CountBounds' /\ LoadBounded'
  BY <1>a DEF RunnerIInv, JobsJudged, NothingLost, StatusRight, CountBounds, LoadBounded
<1> QED BY <1>1, <1>2 DEF RunnerIInv

LEMMA RunnerStutters == RunnerIInv /\ UNCHANGED vars => RunnerIInv'
<1> SUFFICES ASSUME RunnerIInv, UNCHANGED vars PROVE RunnerIInv'
  OBVIOUS
<1> USE DEF vars
<1>a. Active' = Active /\ Jobs({"ended"})' = Jobs({"ended"})
  BY DEF Active, Jobs
<1>1. RunnerTypes' /\ InOrder'
  BY <1>a DEF RunnerIInv, RunnerTypes, InOrder
<1>2. JobsJudged' /\ NothingLost' /\ StatusRight' /\ CountBounds' /\ LoadBounded'
  BY <1>a DEF RunnerIInv, JobsJudged, NothingLost, StatusRight, CountBounds, LoadBounded
<1> QED BY <1>1, <1>2 DEF RunnerIInv

-----------------------------------------------------------------------------
\* RunnerIInv is an inductive invariant of the runner.
LEMMA RunnerInductive == Spec => []RunnerIInv
<1>1. RunnerIInv /\ [Next]_vars => RunnerIInv'
  <2> SUFFICES ASSUME RunnerIInv, [Next]_vars PROVE RunnerIInv'
    OBVIOUS
  <2>1. CASE CountJobs
    BY <2>1, CountJobsStep
  <2>2. CASE HoldBack
    BY <2>2, HoldBackStep
  <2>3. CASE StartTest
    BY <2>3, StartTestStep
  <2>4. CASE WaitAll
    BY <2>4, WaitAllStep
  <2>5. CASE Judge
    BY <2>5, JudgeStep
  <2>6. ASSUME NEW i \in Tests, WaitAny(i) PROVE RunnerIInv'
    BY <2>6, WaitAnyStep
  <2>7. ASSUME NEW i \in Tests, AppendLine(i) PROVE RunnerIInv'
    BY <2>7, AppendLineStep
  <2>8. ASSUME NEW i \in Tests, NEW o \in Outcomes, TestEnds(i, o) PROVE RunnerIInv'
    BY <2>8, TestEndsStep
  <2>9. CASE UNCHANGED vars
    BY <2>9, RunnerStutters
  <2> QED BY <2>1, <2>2, <2>3, <2>4, <2>5, <2>6, <2>7, <2>8, <2>9 DEF Next, Shell, JobStep
<1> QED BY <1>1, InitRunnerIInv, PTL DEF Spec

\* The types are right, and the shell never calls wait -n with no job to wait
\* for (165-167).
THEOREM RunnerTypeCorrect == Spec => []TypeOK
<1>1. RunnerIInv => TypeOK
  BY DEF RunnerIInv, RunnerTypes, CountBounds, TypeOK, JobStates
<1> QED BY <1>1, RunnerInductive, PTL

\* For any number of tests and processors, and whatever jobs end between the
\* count and the start: at most one job over the processor count (162-170).
THEOREM NeverOverloaded == Spec => []LoadBounded
<1>1. RunnerIInv => LoadBounded
  BY DEF RunnerIInv
<1> QED BY <1>1, RunnerInductive, PTL

\* For any number of tests, the script ends with one line for each, and its status tells whether
\* some command failed or put out a line; with set -e in force within the evals, 0 tells that
\* each test program exited with 0, whatever wraps it (80-148, 170, 230-236).
THEOREM StatusIsRight == Spec => []VerdictRight
<1>1. RunnerIInv => VerdictRight
  <2> SUFFICES ASSUME RunnerIInv, pc = "done"
               PROVE  /\ \A i \in Tests : \E v \in {"passed", "failed"} :
                           {l \in lines : l[1] = i} = {<<i, v>>}
                      /\ code = 1 <=> \E i \in Tests : outcome[i].status # 0 \/ outcome[i].text
                      /\ errexit /\ code = 0 => \A i \in Tests : outcome[i].exits = 0
    BY DEF VerdictRight
  <2>1. ASSUME NEW i \in Tests
        PROVE  {l \in lines : l[1] = i} = {<<i, VerdictOf(outcome[i])>>}
    <3>1. job[i] # "none" /\ i \notin Active /\ job[i] \in JobStates
      BY DEF RunnerIInv, InOrder, RunnerTypes
    <3>2. job[i] \in Over
      BY <3>1 DEF Active, Jobs, JobStates, Over
    <3> QED BY <3>2 DEF RunnerIInv, JobsJudged
  <2>2. ASSUME NEW i \in Tests
        PROVE  \E v \in {"passed", "failed"} : {l \in lines : l[1] = i} = {<<i, v>>}
    BY <2>1 DEF VerdictOf
  <2>3. (code = 1 <=> \E l \in lines : l[2] = "failed") /\ code \in {0, 1}
    BY DEF RunnerIInv, StatusRight, RunnerTypes
  <2>4. ASSUME NEW i \in Tests, VerdictOf(outcome[i]) = "failed" PROVE \E l \in lines : l[2] = "failed"
    <3>1. <<i, "failed">> \in {l \in lines : l[1] = i}
      BY <2>1, <2>4
    <3> QED BY <3>1
  <2>5. ASSUME NEW l \in lines, l[2] = "failed"
        PROVE  \E i \in Tests : VerdictOf(outcome[i]) = "failed"
    <3>1. l[1] \in Tests
      BY DEF RunnerIInv, RunnerTypes
    <3>2. l \in {m \in lines : m[1] = l[1]}
      OBVIOUS
    <3>3. l = <<l[1], VerdictOf(outcome[l[1]])>>
      BY <3>1, <3>2, <2>1
    <3>4. VerdictOf(outcome[l[1]]) = "failed"
      BY <3>3, <2>5
    <3> QED BY <3>1, <3>4
  <2>6. ASSUME NEW i \in Tests
        PROVE  VerdictOf(outcome[i]) = "failed" <=> outcome[i].status # 0 \/ outcome[i].text
    BY DEF VerdictOf
  <2>7. code = 1 <=> \E i \in Tests : VerdictOf(outcome[i]) = "failed"
    BY <2>3, <2>4, <2>5
  <2>8. errexit /\ code = 0 => \A i \in Tests : outcome[i].exits = 0
    BY <2>7 DEF RunnerIInv, NothingLost
  <2> QED BY <2>2, <2>6, <2>7, <2>8
<1> QED BY <1>1, RunnerInductive, PTL
=============================================================================
