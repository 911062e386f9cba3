-------------------------------- MODULE Z88dk --------------------------------
(***************************************************************************)
(* The suite runner of z88dk (test-deps/z88dk.h): every test is set up,    *)
(* run and torn down; an assertion that fails jumps back to the runner,    *)
(* which tears the test down too, out of reach of another failure there.   *)
(* A part of a test is a sequence of assertions, TRUE or FALSE.  A suite   *)
(* has at most MAX_TESTS tests, which suite_add_test does not check.       *)
(***************************************************************************)
EXTENDS Naturals, Sequences, SequencesExt, FiniteSetsExt

CONSTANT ZkSuites    \* sets of sequences of tests, see ZkTest

Parts == <<"setup", "test", "teardown">>

\* Which assertions of each part hold.  A suite without setup has it empty.
ZkTest == [setup : Seq(BOOLEAN), test : Seq(BOOLEAN), teardown : Seq(BOOLEAN)]
ASSUME ZkAssumption == ZkSuites \subseteq Seq(ZkTest)

VARIABLES
  zk_suite,    \* Suite
  zk           \* the variables of suite_run, and what was torn down and printed

zkvars == <<zk_suite, zk>>

RunningTest == zk_suite[zk.i]
PartOf(stage) == IF zk.pc = "protected" THEN "teardown" ELSE Parts[stage + 1]
Calls(stage) == RunningTest[PartOf(stage)]

\* setjmp for the next test.
ZkBegin ==
  /\ zk.pc = "begin" /\ zk.i <= Len(zk_suite)
  /\ zk' = [zk EXCEPT !.pc = "calling", !.stage = 0, !.at = 1, !.failed_message = <<>>]
  /\ UNCHANGED zk_suite

\* A failed test is reported and counted.
Reported(s) ==
  [s EXCEPT !.pc = "begin", !.failed = @ + 1, !.i = @ + 1,
            !.reports = Append(@, [message |-> s.failed_message, also |-> s.stage = 3])]

\* Assert_real: the first message of a test is kept.
FirstMessage(s, message) == IF s.failed_message = <<>> THEN [s EXCEPT !.failed_message = message] ELSE s

Unprotected(s) ==                                                     \* mutant
  IF s.stage < 2 THEN [s EXCEPT !.stage = 2, !.at = 1] ELSE Reported(s)

\* The jump: before the teardown, that is run under a setjmp of its own; in it, not again.
Jumped(s) ==
  IF s.pc = "protected" THEN Reported([s EXCEPT !.stage = 3])
  ELSE IF s.stage < 2 THEN [s EXCEPT !.pc = "protected", !.at = 1]
  ELSE Reported(s)

InTeardown(s) == PartOf(s.stage) = "teardown" /\ s.at = 1

\* The next assertion of the part that runs.
ZkAssert ==
  /\ zk.pc \in {"calling", "protected"} /\ zk.at <= Len(Calls(zk.stage))
  /\ LET s == [zk EXCEPT !.torn[zk.i] = IF InTeardown(zk) THEN @ + 1 ELSE @]
     IN zk' = IF Calls(zk.stage)[zk.at] THEN [s EXCEPT !.at = @ + 1]
              ELSE Jumped(FirstMessage(s, <<PartOf(zk.stage), zk.at>>))
  /\ UNCHANGED zk_suite

\* The part returns: the next part, or the test has passed, or failed before.
ZkReturn ==
  /\ zk.pc \in {"calling", "protected"} /\ zk.at > Len(Calls(zk.stage))
  /\ LET s == [zk EXCEPT !.at = 1, !.stage = @ + 1]
     IN zk' = IF zk.pc = "protected" THEN Reported(zk)
              ELSE IF zk.stage < 2 THEN s
              ELSE [s EXCEPT !.pc = "begin", !.passed = @ + 1, !.i = @ + 1]
  /\ UNCHANGED zk_suite

\* The exit status: did a test fail?
ZkEnd ==
  /\ zk.pc = "begin" /\ zk.i > Len(zk_suite)
  /\ zk' = [zk EXCEPT !.pc = "ended", !.status = IF zk.failed # 0 THEN 1 ELSE 0]
  /\ UNCHANGED zk_suite

ZkInit ==
  /\ zk_suite \in ZkSuites
  /\ zk = [pc |-> "begin", i |-> 1, stage |-> 0, at |-> 1, failed_message |-> <<>>, passed |-> 0,
           failed |-> 0, status |-> 0, reports |-> <<>>, torn |-> [i \in DOMAIN zk_suite |-> 0]]

ZkNext == ZkBegin \/ ZkAssert \/ ZkReturn \/ ZkEnd

ZkSpec == ZkInit /\ [][ZkNext]_zkvars /\ WF_zkvars(ZkNext)

-----------------------------------------------------------------------------

ZkFails(part) == FALSE \in Range(part)

\* At the end each test is counted once - failed if an assertion of any of its parts,
\* its teardown included, failed -, the teardown of every test was entered once, and
\* what is printed of a failed test is its first failure (suite_run, z88dk.h).
ZkAccounted ==
  zk.pc = "ended" =>
    LET bad == {i \in DOMAIN zk_suite : \E p \in Range(Parts) : ZkFails(zk_suite[i][p])}
        First(t) == CHOOSE p \in Range(Parts) :
                      ZkFails(t[p]) /\ \A q \in 1 .. 3 : ZkFails(t[Parts[q]]) => \E r \in 1 .. q : Parts[r] = p
    IN /\ zk.failed = Cardinality(bad) /\ zk.passed + zk.failed = Len(zk_suite)
       /\ zk.status = IF bad = {} THEN 0 ELSE 1
       /\ \A i \in DOMAIN zk_suite : zk_suite[i].teardown # <<>> => zk.torn[i] = 1
       /\ [n \in DOMAIN zk.reports |-> zk.reports[n].message[1]] =
            [n \in 1 .. Cardinality(bad) |->
               First(zk_suite[CHOOSE i \in bad : Cardinality({j \in bad : j <= i}) = n])]
=============================================================================
