----------------------------- MODULE LtpTestRun -----------------------------
(***************************************************************************)
(* What an LTP test reports and what its exit status becomes               *)
(* (linux-test-project.h): the test process of each variant runs setup(),  *)
(* the test function once per case, reaps the children the function        *)
(* forked, checks that somebody reported something, and runs cleanup();    *)
(* every process adds to the shared counters; the library turns counters   *)
(* and process statuses into one exit status.                              *)
(*                                                                         *)
(* Signals and timers are LtpWatchdog's: here GroupKilled may happen at    *)
(* any time.  SIGKILL takes effect at once.                                *)
(***************************************************************************)
EXTENDS Naturals

CONSTANTS Variants,   \* fork_testrun calls, at most
          Cases,      \* tcnt * iterations
          Kids,       \* children the user functions may fork
          MaxReports, \* bound: results reported by user code
          Daemons     \* may a child detach itself from the test process?

ASSUME TestRunAssumption ==
  /\ Variants \in Nat \ {0}
  /\ Cases \in Nat \ {0}
  /\ MaxReports \in Nat
  /\ Daemons \in BOOLEAN

VARIABLES
  lpc,       \* the library: "fork", "wait", "exit", "done"
  variant,
  ret,       \* the flags tst_run_tcases has gathered
  code,      \* exit status of the library, a set of flags
  results,   \* the shared counters, one per result type
  tpc,       \* the test process
  case,      \* cases started by this test process
  saved,     \* saved_results
  tstat,     \* the flags it will exit with; once dead, how it ended
  kid,       \* each child
  kstat,     \* how a zombie child ended
  orphans,   \* children whose parent is no longer the test process
  cleanups,  \* entries into cleanup() in this variant, by anyone
  spoke,     \* since the case began someone reported other than TWARN (history)
  silent     \* some case ended without that (history)

libVars  == <<lpc, variant, ret, code>>
testVars == <<tpc, case, saved, tstat, cleanups>>
kidVars  == <<kid, kstat, orphans>>
vars     == <<libVars, results, testVars, kidVars, spoke, silent>>

Types == {"TPASS", "TFAIL", "TBROK", "TWARN", "TCONF"}
Flags == Types \ {"TPASS"}                                \* TPASS is status 0
FlagsOf(t) == {t} \cap Flags

TestAlive == tpc \notin {"none", "dead"}
Live      == {k \in Kids : kid[k] \in {"live", "early"}}
Children  == {k \in Kids : kid[k] \in {"live", "early", "zombie"}} \ orphans

Init ==
  /\ lpc = "fork" /\ variant = 1 /\ ret = {} /\ code = {}
  /\ results = [t \in Types |-> 0]
  /\ tpc = "none" /\ case = 0 /\ saved = results /\ tstat = {}
  /\ kid = [k \in Kids |-> "none"] /\ kstat = [k \in Kids |-> {}]
  /\ orphans = {} /\ cleanups = 0 /\ spoke = FALSE /\ silent = FALSE

\* update_results: one atomic increment.
update_results(t) == results' = [results EXCEPT ![t] = @ + 1]

CanReport == results["TPASS"] + results["TFAIL"] + results["TBROK"]
               + results["TWARN"] + results["TCONF"] < MaxReports

Speaks(t) == spoke' = (spoke \/ t # "TWARN")

\* The test process is gone: its children are nobody's to reap.
Orphaned == orphans' = orphans \cup {k \in Kids : kid[k] # "none"}

-----------------------------------------------------------------------------
(* tst_brk.                                                                *)

\* do_test_cleanup is for the test process only (getpid() == main_pid).
EnterCleanup(flags) ==
  /\ tpc' = "cleanup"
  /\ tstat' = flags
  /\ cleanups' = cleanups + 1
  /\ UNCHANGED <<case, saved>>

\* tst_vbrk_ in the test process: record, clean up, exit with the type.
TestBreaks(t) == update_results(t) /\ EnterCleanup(FlagsOf(t))

\* In cleanup() tst_brk is tst_cvres: TBROK becomes a warning, and it returns.
tst_cvres(t) ==
  /\ update_results(IF t = "TBROK" THEN "TWARN" ELSE t)
  /\ UNCHANGED testVars

-----------------------------------------------------------------------------
(* The test process: testrun, do_test_setup, run_tests.                    *)

SetupReturns ==
  /\ tpc = "setup"
  /\ tpc' = "next"
  /\ UNCHANGED <<libVars, results, case, saved, tstat, cleanups, kidVars, spoke, silent>>

Fork(k, kind) ==
  /\ kid[k] = "none"
  /\ kid' = [kid EXCEPT ![k] = kind]
  /\ UNCHANGED <<libVars, results, testVars, kstat, orphans, spoke, silent>>

\* A child of setup() must not return from it; one of the test function may.
UserForks(k) == \/ tpc = "setup" /\ Fork(k, "early")
                \/ tpc = "body" /\ Fork(k, "live")

CasesLeft == case < Cases

StartCase ==
  /\ tpc = "next"
  /\ CasesLeft
  /\ case' = case + 1
  /\ saved' = results
  /\ tpc' = "body"
  /\ spoke' = FALSE
  /\ UNCHANGED <<libVars, results, tstat, cleanups, kidVars, silent>>

UserReports(t) ==                                         \* tst_res
  /\ tpc \in {"setup", "body", "cleanup"}
  /\ CanReport
  /\ update_results(t)
  /\ Speaks(t)
  /\ UNCHANGED <<libVars, testVars, kidVars, silent>>

UserBreaks(t) ==                                          \* tst_brk
  /\ t \in {"TBROK", "TCONF", "TFAIL"}
  /\ CanReport
  /\ \/ tpc \in {"setup", "body"} /\ TestBreaks(t)
     \/ tpc = "cleanup" /\ tst_cvres(t)
  /\ UNCHANGED <<libVars, kidVars, spoke, silent>>

BodyReturns ==
  /\ tpc = "body"
  /\ tpc' = "reap"
  /\ UNCHANGED <<libVars, results, case, saved, tstat, cleanups, kidVars, spoke, silent>>

\* check_child_status: the exit values a child may have.
ValidChild(s) == s \in {{}, {"TBROK"}, {"TCONF"}}

Reap(k) ==
  /\ tpc = "reap"
  /\ k \in Children /\ kid[k] = "zombie"
  /\ kid' = [kid EXCEPT ![k] = "gone"]
  /\ IF ValidChild(kstat[k]) THEN UNCHANGED <<results, testVars>>
                             ELSE TestBreaks("TBROK")
  /\ UNCHANGED <<libVars, kstat, orphans, spoke, silent>>

\* tst_reap_children returns at ECHILD.
ReapOnlyZombies == \A k \in Children : kid[k] # "zombie"          \* mutant

NoChildLeft == Children = {}

\* A warning is not a result.
results_equal(a, b) == \A t \in Types \ {"TWARN"} : a[t] = b[t]

CheckReported ==
  /\ tpc = "reap"
  /\ NoChildLeft
  /\ silent' = (silent \/ ~spoke)
  /\ IF results_equal(saved, results)
     THEN TestBreaks("TBROK")
     ELSE tpc' = "next" /\ UNCHANGED <<results, case, saved, tstat, cleanups>>
  /\ UNCHANGED <<libVars, kidVars, spoke>>

LastCaseDone ==
  /\ tpc = "next"
  /\ ~CasesLeft
  /\ EnterCleanup({})
  /\ UNCHANGED <<libVars, results, kidVars, spoke, silent>>

TestEnds(how) ==
  /\ tpc' = "dead"
  /\ tstat' = how
  /\ Orphaned
  /\ UNCHANGED <<libVars, results, case, saved, cleanups, kstat, spoke, silent>>

CleanupReturns == tpc = "cleanup" /\ TestEnds(tstat) /\ UNCHANGED kid

UserCrashes ==
  /\ tpc \in {"setup", "body", "cleanup"}
  /\ TestEnds({"signal"})
  /\ UNCHANGED kid

\* The watchdog's kill(-test_pid, SIGKILL).
GroupKilled ==
  /\ TestAlive
  /\ TestEnds({"SIGKILL"})
  /\ kid' = [k \in Kids |-> IF k \in Live THEN "gone" ELSE kid[k]]

-----------------------------------------------------------------------------
(* Children.                                                               *)

KidReports(k, t) ==
  /\ k \in Live
  /\ CanReport
  /\ update_results(t)
  /\ Speaks(t)
  /\ UNCHANGED <<libVars, testVars, kidVars, silent>>

KidEnds(k, how) ==
  /\ kid' = [kid EXCEPT ![k] = IF k \in orphans THEN "gone" ELSE "zombie"]
  /\ kstat' = [kstat EXCEPT ![k] = how]
  /\ UNCHANGED <<libVars, testVars, orphans, silent>>

\* tst_vbrk_ in a child: record and exit, no cleanup.
KidVbrk(k, t) == update_results(t) /\ KidEnds(k, FlagsOf(t))

KidBreaks(k, t) ==
  /\ k \in Live
  /\ CanReport
  /\ t \in {"TBROK", "TCONF", "TFAIL"}
  /\ KidVbrk(k, t)
  /\ Speaks(t)

\* "Runaway child in setup()!"
RunawayReturns(k) ==
  /\ kid[k] = "early"
  /\ KidVbrk(k, "TBROK")
  /\ Speaks("TBROK")

KidExits(k) ==                     \* returns from the test function, or exit(0)
  /\ k \in Live
  /\ KidEnds(k, {})
  /\ UNCHANGED <<results, spoke>>

KidCrashes(k) ==
  /\ k \in Live
  /\ KidEnds(k, {"signal"})
  /\ UNCHANGED <<results, spoke>>

KidDetaches(k) ==
  /\ Daemons
  /\ k \in Live \ orphans
  /\ orphans' = orphans \cup {k}
  /\ UNCHANGED <<libVars, results, testVars, kid, kstat, spoke, silent>>

-----------------------------------------------------------------------------
(* The library: tst_run_tcases, fork_testrun after waitpid, do_exit.       *)

StartVariant ==
  /\ lpc = "fork"
  /\ lpc' = "wait"
  /\ tpc' = "setup" /\ case' = 0 /\ tstat' = {} /\ cleanups' = 0
  /\ UNCHANGED <<variant, ret, code, results, saved, kidVars, spoke, silent>>

\* kill(-test_pid, SIGKILL) for a test that declares forks_child, which is
\* every test that has Kids.
LeftoversStay == UNCHANGED kid                                    \* mutant

KillLeftovers == kid' = [k \in Kids |-> IF k \in Live THEN "gone" ELSE kid[k]]

Collect ==
  /\ lpc = "wait"
  /\ tpc = "dead"
  /\ KillLeftovers
  /\ IF tstat \subseteq Flags
     THEN /\ ret' = ret \cup tstat
          /\ IF ret' \subseteq {"TCONF"} /\ variant < Variants
             THEN lpc' = "fork" /\ variant' = variant + 1
             ELSE lpc' = "exit" /\ UNCHANGED variant
          /\ UNCHANGED results
     ELSE /\ update_results("TBROK")                      \* tst_brk(TBROK)
          /\ ret' = {"TBROK"}
          /\ lpc' = "exit"
          /\ UNCHANGED variant
  /\ UNCHANGED <<code, testVars, kstat, orphans, spoke, silent>>

\* do_exit: TCONF is forgiven when something passed, then each counter adds
\* its flag.
ExitStatus(flags, r) ==
  LET kept == IF r["TPASS"] > 0 /\ flags = {"TCONF"} THEN {} ELSE flags
  IN kept \cup {t \in {"TFAIL", "TWARN", "TBROK"} : r[t] > 0}
          \cup {t \in {"TCONF"} : r["TCONF"] > 0 /\ r["TPASS"] = 0}

DoExit ==
  /\ lpc = "exit"
  /\ lpc' = "done"
  /\ code' = ExitStatus(ret, results)
  /\ UNCHANGED <<variant, ret, results, testVars, kidVars, spoke, silent>>

Next ==
  \/ StartVariant \/ Collect \/ DoExit
  \/ SetupReturns \/ StartCase \/ BodyReturns \/ CheckReported \/ LastCaseDone
  \/ CleanupReturns \/ UserCrashes \/ GroupKilled
  \/ \E t \in Types : UserReports(t) \/ UserBreaks(t)
  \/ \E k \in Kids :
       \/ UserForks(k) \/ Reap(k) \/ RunawayReturns(k) \/ KidExits(k)
       \/ KidCrashes(k) \/ KidDetaches(k)
       \/ \E t \in Types : KidReports(k, t) \/ KidBreaks(k, t)

Spec == Init /\ [][Next]_vars

-----------------------------------------------------------------------------
TypeOK ==
  /\ lpc \in {"fork", "wait", "exit", "done"}
  /\ variant \in 1 .. Variants
  /\ ret \subseteq Flags /\ code \subseteq Flags
  /\ results \in [Types -> Nat] /\ saved \in [Types -> Nat]
  /\ tpc \in {"none", "setup", "next", "body", "reap", "cleanup", "dead"}
  /\ case \in 0 .. Cases
  /\ tstat \subseteq Flags \cup {"signal", "SIGKILL"}
  /\ kid \in [Kids -> {"none", "live", "early", "zombie", "gone"}]
  /\ kstat \in [Kids -> SUBSET (Flags \cup {"signal"})]
  /\ orphans \subseteq Kids
  /\ cleanups \in Nat
  /\ spoke \in BOOLEAN /\ silent \in BOOLEAN

\* Every failure, breakage or warning any process ever recorded is in the exit
\* status: nobody is left to record one after do_exit has read the counters
\* (fork_testrun kills what the test left behind, 3162; do_exit, 3332-3341).
StatusIsComplete ==
  lpc = "done" => \A t \in {"TFAIL", "TBROK", "TWARN"} : results[t] > 0 => t \in code

\* Exit status 0 means that something passed, in a run that went through every
\* variant (3329-3338, 3383-3393).
PassMeansPassed ==
  lpc = "done" /\ code = {} => results["TPASS"] > 0 /\ variant = Variants

\* A case during which nobody reports anything (a warning is not a report)
\* breaks the run (2872, 2888), whatever the other cases report.
SilentCaseBreaks == lpc = "done" /\ silent => "TBROK" \in code

\* The exit status is the truth about what was recorded, and about what was not
\* (do_exit, run_tests).
StatusHonest == StatusIsComplete /\ PassMeansPassed /\ SilentCaseBreaks

\* A test process goes through all its cases only if every child it ever had
\* was reaped and none of them crashed or exited with a status of its own
\* invention (tst_reap_children, 2816-2837; check_child_status, 2793-2814).
EveryChildAccounted ==
  tpc = "cleanup" /\ tstat = {} =>
    \A k \in Kids \ orphans :
      \/ kid[k] = "none"
      \/ kid[k] = "gone" /\ kstat[k] \cap {"signal", "TFAIL", "TWARN"} = {}

\* cleanup() runs at most once per test process, never in a child, and is not
\* entered again by a tst_brk inside it (3062, 3705).
CleanupOnce == cleanups <= 1

\* Every child is accounted for before cleanup() runs, which it does at most once
\* (tst_reap_children, do_test_cleanup).
ProcessesAccounted == TypeOK /\ EveryChildAccounted /\ CleanupOnce
=============================================================================
