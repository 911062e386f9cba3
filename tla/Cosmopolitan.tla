---------------------------- MODULE Cosmopolitan ----------------------------
(***************************************************************************)
(* The checks of the tests taken from cosmopolitan (test-deps/             *)
(* cosmopolitan.h): counters, the errno that the SYS checks compare, and   *)
(* rngset(), which fills the buffers they work on, byte by byte.  What a   *)
(* test computes is whether each check holds.                              *)
(***************************************************************************)
EXTENDS Integers, FiniteSets, FiniteSetsExt

CONSTANTS
    CoErrnos,       \* errno values, 0 among them
    CoStrings,      \* strings compared, and "NULL"
    CoSizes,        \* sizes given to rngset
    CoReseeds,      \* its reseed argument; with a seed function
    CoUnseeded,     \* (size_t)-1: a reseed larger than any size
    CoMaxChecks     \* bound on checks and fills

ASSUME CoAssumption == CoSizes \subseteq Nat /\ CoReseeds \subseteq Nat /\ CoUnseeded \in Nat

VARIABLES
    co_errno,
    co_ran, co_failed,      \* g_testlib_ran, g_testlib_failed
    co_pc,          \* "test", "filling", "ended", "aborted"
    co_broken,      \* a check did not hold
    co_stale,       \* ASSERT_SYS compared an errno from before its call
    co_steps,       \* checks and fills so far
    co_fill         \* rngset: size, n, m, reseed, seeded, written, since the last seed

coCounters == <<co_ran, co_failed>>
covars == <<co_errno, coCounters, co_pc, co_broken, co_stale, co_steps, co_fill>>

NoFill == [size |-> 0, n |-> 0, m |-> 0, reseed |-> 0, seeded |-> FALSE, written |-> 0, since |-> 0]

CoInit ==
    /\ co_errno \in CoErrnos /\ co_ran = 0 /\ co_failed = 0 /\ co_pc = "test"
    /\ co_broken = FALSE /\ co_stale = FALSE /\ co_steps = 0 /\ co_fill = NoFill

----------------------------------------------------------------------------
\* testlib_showerror_ and testlib_onfail2: every failure is fatal, EXPECT or
\* ASSERT, so that testlib_incrementfailed never comes to its limit of 23.
testlib_abort == "aborted"
Judged(holds) ==
    /\ co_failed' = co_failed + (IF holds THEN 0 ELSE 1)
    /\ co_pc' = IF holds THEN "test" ELSE testlib_abort

Begins == co_pc = "test" /\ co_steps < CoMaxChecks /\ co_steps' = co_steps + 1

\* Except for _TEST2, the check is counted as run.
CoCheck(counted, holds, errno) ==
    /\ Begins
    /\ co_ran' = co_ran + counted /\ Judged(holds)
    /\ co_errno' = errno /\ co_broken' = (co_broken \/ ~holds)
    /\ UNCHANGED <<co_stale, co_fill>>

\* The expressions compared may change errno.
TEST_EQ(holds, errno) == CoCheck(1, holds, errno)
TEST_NE(holds, errno) == CoCheck(1, ~holds, errno)
TEST2(holds, errno) == CoCheck(0, holds, errno)

\* NULL equals only NULL.
testlib_strequals(s1, s2) == s1 = s2
assertStringEquals(want, got, errno) == CoCheck(1, testlib_strequals(want, got), errno)

\* A system call sets errno when it fails and else leaves it.
After(errno, failed, e) == IF failed THEN e ELSE errno

\* EXPECT_SYS: errno is cleared first.
Cleared == 0
EXPECT_SYS(wanted, value, failed, e) ==
    /\ Begins
    /\ LET errno == After(Cleared, failed, e) IN
       /\ co_ran' = co_ran + (IF value THEN 2 ELSE 1) /\ Judged(value /\ wanted = errno)
       /\ co_errno' = errno
       /\ co_broken' = (co_broken \/ ~value \/ wanted # After(0, failed, e))
    /\ UNCHANGED <<co_stale, co_fill>>

\* ASSERT_SYS: errno is put back after both checks held.
ASSERT_SYS(wanted, value, failed, e) ==
    /\ Begins
    /\ LET errno == After(co_errno, failed, e) IN
       /\ co_ran' = co_ran + (IF value THEN 2 ELSE 1) /\ Judged(value /\ wanted = errno)
       /\ co_errno' = IF value /\ wanted = errno THEN co_errno ELSE errno
       /\ co_broken' = (co_broken \/ ~value \/ wanted # After(0, failed, e))
       /\ co_stale' = (co_stale \/ (~failed /\ value /\ co_errno # 0))
    /\ UNCHANGED co_fill

CoEnd ==
    /\ co_pc = "test" /\ co_pc' = "ended"
    /\ UNCHANGED <<co_errno, coCounters, co_broken, co_stale, co_steps, co_fill>>

----------------------------------------------------------------------------
\* rngset: without a seed function there is one value to the end.
rngset(n, seeded, reseed) ==
    /\ Begins /\ co_pc' = "filling"
    /\ co_fill' = [NoFill EXCEPT !.size = n, !.n = n, !.seeded = seeded,
                                 !.reseed = IF seeded THEN Max({8, reseed}) ELSE CoUnseeded]
    /\ UNCHANGED <<co_errno, coCounters, co_broken, co_stale>>

\* The next stretch from one value: eight bytes as they are, more of them with
\* the internal generator.
WholeStretch(n) == co_fill.reseed                                  \* mutant
Stretch(n) == Min({co_fill.reseed, n})
RngSeed ==
    /\ co_pc = "filling" /\ co_fill.m = 0 /\ co_fill.n > 0
    /\ LET m == Stretch(co_fill.n) IN
       co_fill' = [co_fill EXCEPT !.m = m, !.n = @ - m, !.since = 0]
    /\ UNCHANGED <<co_errno, coCounters, co_pc, co_broken, co_stale, co_steps>>

\* Eight bytes at once, then the rest one by one.
RngWrite ==
    /\ co_pc = "filling" /\ co_fill.m > 0
    /\ LET k == IF co_fill.m >= 8 THEN 8 ELSE 1 IN
       co_fill' = [co_fill EXCEPT !.m = @ - k, !.written = @ + k, !.since = @ + k]
    /\ UNCHANGED <<co_errno, coCounters, co_pc, co_broken, co_stale, co_steps>>

RngEnd ==
    /\ co_pc = "filling" /\ co_fill.m = 0 /\ co_fill.n = 0 /\ co_pc' = "test"
    /\ UNCHANGED <<co_errno, coCounters, co_broken, co_stale, co_steps, co_fill>>

CoNext ==
    \/ CoEnd \/ RngSeed \/ RngWrite \/ RngEnd
    \/ \E holds \in BOOLEAN, errno \in CoErrnos :
         TEST_EQ(holds, errno) \/ TEST_NE(holds, errno) \/ TEST2(holds, errno)
    \/ \E want, got \in CoStrings, errno \in CoErrnos : assertStringEquals(want, got, errno)
    \/ \E wanted \in CoErrnos, e \in CoErrnos \ {0}, value, failed \in BOOLEAN :
         EXPECT_SYS(wanted, value, failed, e) \/ ASSERT_SYS(wanted, value, failed, e)
    \/ \E n \in CoSizes, seeded \in BOOLEAN, reseed \in CoReseeds : rngset(n, seeded, reseed)

CoSpec == CoInit /\ [][CoNext]_covars

----------------------------------------------------------------------------
(***************************************************************************)
(* A program that ends well made no check that did not hold, and one that  *)
(* aborts did, unless an ASSERT_SYS of a call that succeeded compared the  *)
(* errno of an earlier one; EXPECT_SYS, which clears it, never does        *)
(* (cosmopolitan.h:623-631, 749-757).                                      *)
(***************************************************************************)
CoVerdictHonest ==
    /\ co_pc = "ended" => ~co_broken \/ co_stale
    /\ co_pc = "aborted" => co_broken \/ co_stale

(***************************************************************************)
(* rngset writes the n bytes it was asked for and none beyond, whatever    *)
(* the size and reseed; a value of seed() serves for no more than reseed   *)
(* bytes, or 8 (347-395).                                                  *)
(***************************************************************************)
CoFillExact ==
    /\ co_fill.written + co_fill.m + co_fill.n = co_fill.size /\ co_fill.n >= 0
    /\ co_fill.seeded => co_fill.since + co_fill.m <= co_fill.reseed

\* The helpers of cosmopolitan.h keep their word: checks decide, and buffers are filled.
CoHelpersHold == CoVerdictHonest /\ CoFillExact
=============================================================================
