------------------------------ MODULE Ltp_proofs ------------------------------
(***************************************************************************)
(* The LTP library, for any number of variants, cases and children, of     *)
(* results, of failing calls and of runs with one pid, and for every       *)
(* command line.  The exit status of a test tells what was recorded and    *)
(* what was not, and no process of the test escapes the account; what was  *)
(* acquired is given back, a failed setup is never called a success, and   *)
(* the tests start only with what they asked for, as often and as long as  *)
(* they were asked to.                                                     *)
(***************************************************************************)
EXTENDS LtpTestRun, LtpLifecycle, LtpOptions, TLAPS

-----------------------------------------------------------------------------
(* The shared counters.                                                    *)

LEMMA Update ==
  ASSUME NEW t \in Types, results \in [Types -> Nat], update_results(t)
  PROVE  /\ results' \in [Types -> Nat]
         /\ results'[t] = results[t] + 1
         /\ \A u \in Types \ {t} : results'[u] = results[u]
         /\ \A u \in Types : results'[u] >= results[u]
BY DEF update_results

\* The actions that do not touch the counters, and the ones that add to one.
LEMMA Counting ==
  ASSUME [Next]_vars
  PROVE  UNCHANGED results \/ \E t \in Types : update_results(t)
<1>1. CASE StartVariant \/ DoExit \/ SetupReturns \/ StartCase \/ BodyReturns
           \/ LastCaseDone \/ CleanupReturns \/ UserCrashes \/ GroupKilled
  BY <1>1 DEF StartVariant, DoExit, SetupReturns, StartCase, BodyReturns, LastCaseDone,
              CleanupReturns, UserCrashes, GroupKilled, TestEnds
<1>2. CASE Collect \/ CheckReported
  BY <1>2 DEF Collect, CheckReported, TestBreaks, Types
<1>3. ASSUME NEW t \in Types, UserReports(t) \/ UserBreaks(t)
      PROVE  \E u \in Types : update_results(u)
  BY <1>3 DEF UserReports, UserBreaks, TestBreaks, tst_cvres, Types
<1>4. ASSUME NEW k \in Kids,
             UserForks(k) \/ KidExits(k) \/ KidCrashes(k) \/ KidDetaches(k)
      PROVE  UNCHANGED results
  BY <1>4 DEF UserForks, Fork, KidExits, KidCrashes, KidDetaches
<1>5. ASSUME NEW k \in Kids, Reap(k) \/ RunawayReturns(k)
      PROVE  UNCHANGED results \/ \E u \in Types : update_results(u)
  BY <1>5 DEF Reap, TestBreaks, RunawayReturns, KidVbrk, Types
<1>6. ASSUME NEW k \in Kids, NEW t \in Types, KidReports(k, t) \/ KidBreaks(k, t)
      PROVE  \E u \in Types : update_results(u)
  BY <1>6 DEF KidReports, KidBreaks, KidVbrk
<1>7. CASE UNCHANGED vars
  BY <1>7 DEF vars
<1> QED BY <1>1, <1>2, <1>3, <1>4, <1>5, <1>6, <1>7 DEF Next

\* Nothing recorded is ever taken back.
LEMMA CountersGrow ==
  ASSUME results \in [Types -> Nat], [Next]_vars
  PROVE  results' \in [Types -> Nat] /\ \A t \in Types : results'[t] >= results[t]
BY Counting, Update

-----------------------------------------------------------------------------
(* Types.                                                                  *)

LEMMA TypeStep == TypeOK /\ [Next]_vars => TypeOK'
<1> SUFFICES ASSUME TypeOK, [Next]_vars PROVE TypeOK'
  OBVIOUS
<1>0. results' \in [Types -> Nat]
  BY CountersGrow DEF TypeOK
<1> USE <1>0, TestRunAssumption DEF TypeOK, libVars, testVars, kidVars
<1>1. CASE StartVariant
  BY <1>1 DEF StartVariant
<1>2. CASE Collect
  <2>1. kid' \in [Kids -> {"none", "live", "early", "zombie", "gone"}]
    BY <1>2 DEF Collect, KillLeftovers
  <2>2. ret' \subseteq Flags
    <3>1. (tstat \subseteq Flags /\ ret' = ret \cup tstat) \/ ret' = {"TBROK"}
      BY <1>2 DEF Collect
    <3> QED BY <3>1 DEF Flags, Types
  <2>3. /\ lpc' \in {"fork", "exit"}
        /\ UNCHANGED variant \/ (variant < Variants /\ variant' = variant + 1)
    <3>1. CASE tstat \subseteq Flags
      BY <1>2, <3>1 DEF Collect
    <3>2. CASE ~(tstat \subseteq Flags)
      BY <1>2, <3>2 DEF Collect
    <3> QED BY <3>1, <3>2
  <2>4. variant' \in 1 .. Variants
    BY <2>3
  <2>5. UNCHANGED <<code, testVars, kstat, orphans, spoke, silent>>
    BY <1>2 DEF Collect
  <2> QED BY <2>1, <2>2, <2>3, <2>4, <2>5
<1>3. CASE DoExit
  <2>1. ExitStatus(ret, results) \subseteq Flags
    BY DEF ExitStatus, Flags, Types
  <2> QED BY <1>3, <2>1 DEF DoExit
<1>4. CASE SetupReturns \/ BodyReturns
  BY <1>4 DEF SetupReturns, BodyReturns
<1>5. CASE StartCase
  <2>1. case' \in 0 .. Cases
    BY <1>5 DEF StartCase, CasesLeft
  <2> QED BY <1>5, <2>1 DEF StartCase
<1>6. CASE CheckReported
  BY <1>6 DEF CheckReported, TestBreaks, EnterCleanup, FlagsOf, Flags
<1>7. CASE LastCaseDone
  BY <1>7 DEF LastCaseDone, EnterCleanup
<1>8. CASE CleanupReturns \/ UserCrashes
  BY <1>8 DEF CleanupReturns, UserCrashes, TestEnds, Orphaned
<1>9. CASE GroupKilled
  BY <1>9 DEF GroupKilled, TestEnds, Orphaned
<1>10. ASSUME NEW t \in Types, UserReports(t) PROVE TypeOK'
  BY <1>10 DEF UserReports, Speaks
<1>11. ASSUME NEW t \in Types, UserBreaks(t) PROVE TypeOK'
  <2>1. UNCHANGED <<libVars, kidVars, spoke, silent>>
    BY <1>11 DEF UserBreaks
  <2>2. UNCHANGED testVars \/ EnterCleanup(FlagsOf(t))
    BY <1>11 DEF UserBreaks, TestBreaks, tst_cvres
  <2> QED BY <2>1, <2>2 DEF EnterCleanup, FlagsOf
<1>12. ASSUME NEW k \in Kids, UserForks(k) PROVE TypeOK'
  BY <1>12 DEF UserForks, Fork
<1>13. ASSUME NEW k \in Kids, Reap(k) PROVE TypeOK'
  BY <1>13 DEF Reap, TestBreaks, EnterCleanup, FlagsOf, Flags
<1>14. ASSUME NEW k \in Kids, NEW how \in SUBSET (Flags \cup {"signal"}), KidEnds(k, how),
              spoke' \in BOOLEAN
       PROVE  TypeOK'
  BY <1>14 DEF KidEnds
<1>15. ASSUME NEW t PROVE FlagsOf(t) \in SUBSET (Flags \cup {"signal"})
  BY DEF FlagsOf
<1>16. ASSUME NEW k \in Kids, RunawayReturns(k) \/ KidExits(k) \/ KidCrashes(k)
       PROVE  TypeOK'
  BY <1>14, <1>15, <1>16 DEF RunawayReturns, KidVbrk, KidExits, KidCrashes, Speaks
<1>17. ASSUME NEW k \in Kids, KidDetaches(k) PROVE TypeOK'
  BY <1>17 DEF KidDetaches, Live
<1>18. ASSUME NEW k \in Kids, NEW t \in Types, KidReports(k, t) PROVE TypeOK'
  BY <1>18 DEF KidReports, Speaks
<1>19. ASSUME NEW k \in Kids, NEW t \in Types, KidBreaks(k, t) PROVE TypeOK'
  BY <1>14, <1>15, <1>19 DEF KidBreaks, KidVbrk, Speaks
<1>20. CASE UNCHANGED vars
  BY <1>20 DEF vars
<1> QED BY <1>1, <1>2, <1>3, <1>4, <1>5, <1>6, <1>7, <1>8, <1>9, <1>10, <1>11, <1>12,
           <1>13, <1>16, <1>17, <1>18, <1>19, <1>20 DEF Next
-----------------------------------------------------------------------------
(* The inductive invariant, in parts.                                      *)

Between == tpc \in {"none", "dead"}

\* Only while the library waits does anybody run who could report; and a child
\* of a test process that ended is an orphan.
NobodyLeft ==
  /\ lpc # "wait" => Between /\ Live = {}
  /\ Between => \A k \in Kids : kid[k] # "none" => k \in orphans

\* No case before setup() is done, no cleanup() before the cases are.
NotCleaned ==
  /\ tpc = "setup" => case = 0
  /\ tpc \in {"setup", "next", "body", "reap"} => cleanups = 0

\* The test process has reaped what is gone, and liked how it ended; after a case
\* there is no child it has yet to reap.
AfterCase == tpc = "next" /\ case > 0
AllCasesRun == tpc = "cleanup" /\ tstat = {}

ReapedWell ==
  /\ tpc \in {"setup", "next", "body", "reap"} \/ AllCasesRun =>
       \A k \in Kids \ orphans : kid[k] = "gone" => ValidChild(kstat[k])
  /\ AfterCase \/ AllCasesRun => Children = {}

\* Somebody reported something other than a warning ...
Reported == \E t \in Types \ {"TWARN"} : results[t] > 0

\* ... in every run that gets through its cases, and the comparison of the saved
\* counters with the present ones tells whether it was in this case.
ReportsSeen ==
  /\ \A t \in Types : saved[t] <= results[t]
  /\ tpc \in {"body", "reap"} /\ ~spoke => results_equal(saved, results)
  /\ AfterCase \/ AllCasesRun \/ (tpc = "dead" /\ tstat = {}) => Reported
  /\ silent => results["TBROK"] > 0

\* What the library has gathered, and what it makes of it.
Gathered ==
  /\ lpc \in {"exit", "done"} =>
       /\ ret = {} => Reported
       /\ ret \subseteq {"TCONF"} => variant = Variants
  /\ lpc = "done" => code = ExitStatus(ret, results)

IInv == TypeOK /\ NobodyLeft /\ NotCleaned /\ ReapedWell /\ ReportsSeen /\ Gathered
-----------------------------------------------------------------------------
(* What the steps have in common, by who takes them.                       *)

KidStep(k) ==
  \/ RunawayReturns(k) \/ KidExits(k) \/ KidCrashes(k) \/ KidDetaches(k)
  \/ \E t \in Types : KidReports(k, t) \/ KidBreaks(k, t)

Ending == CleanupReturns \/ UserCrashes \/ GroupKilled

\* The test process goes on.
GoingOn ==
  \/ SetupReturns \/ StartCase \/ BodyReturns \/ CheckReported \/ LastCaseDone
  \/ \E t \in Types : UserReports(t) \/ UserBreaks(t)
  \/ \E k \in Kids : UserForks(k) \/ Reap(k)

LEMMA Split ==
  Next <=> \/ StartVariant \/ Collect \/ DoExit
           \/ GoingOn \/ Ending \/ \E k \in Kids : KidStep(k)
BY DEF Next, GoingOn, Ending, KidStep

\* A child only reports, ends or detaches itself, and only while it runs.
LEMMA KidEffect ==
  ASSUME NEW k \in Kids, KidStep(k)
  PROVE  /\ k \in Live
         /\ UNCHANGED <<libVars, testVars, silent>>
         /\ \/ UNCHANGED <<kid, kstat>> /\ orphans \subseteq orphans'
            \/ /\ UNCHANGED orphans
               /\ kid' = [kid EXCEPT ![k] = IF k \in orphans THEN "gone" ELSE "zombie"]
               /\ \E how : kstat' = [kstat EXCEPT ![k] = how]
         /\ \/ UNCHANGED <<results, spoke>>
            \/ \E t \in Types : update_results(t) /\ Speaks(t)
<1> USE DEF libVars, testVars, kidVars
<1>1. CASE RunawayReturns(k)
  BY <1>1 DEF RunawayReturns, KidVbrk, KidEnds, Live, Types
<1>2. CASE KidExits(k) \/ KidCrashes(k)
  BY <1>2 DEF KidExits, KidCrashes, KidEnds
<1>3. CASE KidDetaches(k)
  BY <1>3 DEF KidDetaches
<1>4. ASSUME NEW t \in Types, KidReports(k, t)
      PROVE  /\ k \in Live
             /\ UNCHANGED <<libVars, testVars, silent, kid, kstat, orphans>>
             /\ update_results(t) /\ Speaks(t)
  BY <1>4 DEF KidReports
<1>5. ASSUME NEW t \in Types, KidBreaks(k, t)
      PROVE  /\ k \in Live
             /\ UNCHANGED <<libVars, testVars, silent, orphans>>
             /\ kid' = [kid EXCEPT ![k] = IF k \in orphans THEN "gone" ELSE "zombie"]
             /\ \E how : kstat' = [kstat EXCEPT ![k] = how]
             /\ update_results(t) /\ Speaks(t)
  BY <1>5 DEF KidBreaks, KidVbrk, KidEnds
<1> QED BY <1>1, <1>2, <1>3, <1>4, <1>5 DEF KidStep

\* The end of the test process makes orphans of its children.
LEMMA EndEffect ==
  ASSUME Ending, kid \in [Kids -> {"none", "live", "early", "zombie", "gone"}]
  PROVE  /\ ~Between /\ tpc' = "dead"
         /\ UNCHANGED <<libVars, results, case, saved, cleanups, spoke, silent>>
         /\ orphans' = orphans \cup {k \in Kids : kid[k] # "none"}
         /\ \A k \in Kids : kid'[k] # "none" => kid[k] # "none"
         /\ tstat' = {} => AllCasesRun
<1> USE DEF TestEnds, Orphaned, Between, AllCasesRun
<1>1. CASE CleanupReturns
  BY <1>1 DEF CleanupReturns
<1>2. CASE UserCrashes
  BY <1>2 DEF UserCrashes
<1>3. CASE GroupKilled
  <2>1. ~Between
    BY <1>3 DEF GroupKilled, TestAlive
  <2>2. \A k \in Kids : kid'[k] # "none" => kid[k] # "none"
    BY <1>3 DEF GroupKilled, Live
  <2> QED BY <1>3, <2>1, <2>2 DEF GroupKilled
<1> QED BY <1>1, <1>2, <1>3 DEF Ending

\* As long as it goes on it has children of its own only.
LEMMA GoOnEffect ==
  ASSUME GoingOn
  PROVE  ~Between /\ ~Between' /\ UNCHANGED <<libVars, orphans>>
<1> USE DEF Between, libVars, kidVars, EnterCleanup
<1>1. CASE SetupReturns \/ StartCase \/ BodyReturns \/ CheckReported \/ LastCaseDone
  BY <1>1 DEF SetupReturns, StartCase, BodyReturns, CheckReported, TestBreaks, LastCaseDone
<1>2. ASSUME NEW t \in Types, UserReports(t) \/ UserBreaks(t)
      PROVE  ~Between /\ ~Between' /\ UNCHANGED <<libVars, orphans>>
  BY <1>2 DEF UserReports, UserBreaks, TestBreaks, tst_cvres, testVars
<1>3. ASSUME NEW k \in Kids, UserForks(k) \/ Reap(k)
      PROVE  ~Between /\ ~Between' /\ UNCHANGED <<libVars, orphans>>
  BY <1>3 DEF UserForks, Fork, Reap, TestBreaks, testVars
<1> QED BY <1>1, <1>2, <1>3 DEF GoingOn

-----------------------------------------------------------------------------
LEMMA NobodyLeftStep == TypeOK /\ NobodyLeft /\ [Next]_vars => NobodyLeft'
<1> SUFFICES ASSUME TypeOK, NobodyLeft, [Next]_vars PROVE NobodyLeft'
  OBVIOUS
<1> USE DEF NobodyLeft, TypeOK
<1>1. CASE StartVariant
  BY <1>1 DEF StartVariant, Between
<1>2. CASE Collect
  BY <1>2 DEF Collect, KillLeftovers, Between, Live, testVars
<1>3. CASE DoExit
  BY <1>3 DEF DoExit, Between, Live, testVars, kidVars
<1>4. CASE GoingOn
  BY <1>4, GoOnEffect DEF libVars
<1>5. CASE Ending
  BY <1>5, EndEffect DEF libVars
<1>6. ASSUME NEW k \in Kids, KidStep(k) PROVE NobodyLeft'
  <2>1. k \in Live /\ UNCHANGED <<lpc, tpc>> /\ orphans \subseteq orphans'
    BY <1>6, KidEffect DEF libVars, testVars
  <2>2. \A j \in Kids : kid'[j] # "none" => kid[j] # "none"
    BY <1>6, KidEffect DEF Live
  <2> QED BY <2>1, <2>2 DEF Between
<1>7. CASE UNCHANGED vars
  BY <1>7 DEF vars, libVars, testVars, kidVars, Between, Live
<1> QED BY <1>1, <1>2, <1>3, <1>4, <1>5, <1>6, <1>7, Split

LEMMA NotCleanedStep ==
  TypeOK /\ NotCleaned /\ CleanupOnce /\ [Next]_vars => NotCleaned' /\ CleanupOnce'
<1> SUFFICES ASSUME TypeOK, NotCleaned, CleanupOnce, [Next]_vars
             PROVE  NotCleaned' /\ CleanupOnce'
  OBVIOUS
<1> USE DEF NotCleaned, CleanupOnce, TypeOK
<1>same. CASE UNCHANGED testVars
  BY <1>same DEF testVars
<1>1. CASE StartVariant
  BY <1>1 DEF StartVariant
<1>2. CASE Collect \/ DoExit
  BY <1>same, <1>2 DEF Collect, DoExit
<1>3. ASSUME NEW flags, tpc \in {"setup", "next", "body", "reap"}, EnterCleanup(flags)
      PROVE  NotCleaned' /\ CleanupOnce'
  BY <1>3 DEF EnterCleanup
<1>4. CASE SetupReturns \/ StartCase \/ BodyReturns
  BY <1>4 DEF SetupReturns, StartCase, BodyReturns
<1>5. CASE CheckReported \/ LastCaseDone
  BY <1>3, <1>5 DEF CheckReported, TestBreaks, LastCaseDone
<1>6. ASSUME NEW t \in Types, UserReports(t) \/ UserBreaks(t)
      PROVE  NotCleaned' /\ CleanupOnce'
  BY <1>3, <1>6, <1>same DEF UserReports, UserBreaks, TestBreaks, tst_cvres
<1>7. ASSUME NEW k \in Kids, UserForks(k) \/ Reap(k)
      PROVE  NotCleaned' /\ CleanupOnce'
  BY <1>3, <1>7, <1>same DEF UserForks, Fork, Reap, TestBreaks
<1>8. CASE Ending
  BY <1>8, EndEffect
<1>9. ASSUME NEW k \in Kids, KidStep(k) PROVE NotCleaned' /\ CleanupOnce'
  BY <1>9, <1>same, KidEffect
<1>10. CASE UNCHANGED vars
  BY <1>10, <1>same DEF vars
<1> QED BY <1>1, <1>2, <1>4, <1>5, <1>6, <1>7, <1>8, <1>9, <1>10, Split DEF GoingOn

LEMMA ReapedWellStep ==
  TypeOK /\ NobodyLeft /\ NotCleaned /\ ReapedWell /\ [Next]_vars => ReapedWell'
<1> SUFFICES ASSUME TypeOK, NobodyLeft, NotCleaned, ReapedWell, [Next]_vars
             PROVE  ReapedWell'
  OBVIOUS
<1> USE DEF ReapedWell, AfterCase, AllCasesRun, Children, TypeOK
<1>same. CASE UNCHANGED <<testVars, kidVars>>
  BY <1>same DEF testVars, kidVars
<1>1. CASE StartVariant
  <2>1. \A k \in Kids \ orphans : kid[k] = "none"
    BY <1>1 DEF StartVariant, NobodyLeft
  <2>2. tpc' = "setup" /\ UNCHANGED kidVars
    BY <1>1 DEF StartVariant
  <2> QED BY <2>1, <2>2 DEF kidVars
<1>2. CASE Collect
  <2>1. tpc' = "dead"
    BY <1>2 DEF Collect, testVars
  <2> QED BY <2>1
<1>3. CASE DoExit
  BY <1>same, <1>3 DEF DoExit
<1>4. CASE SetupReturns \/ StartCase \/ BodyReturns
  <2>1. /\ tpc \in {"setup", "next", "body"} /\ tpc' \in {"next", "body", "reap"}
        /\ UNCHANGED kidVars
        /\ tpc' = "next" => tpc = "setup" /\ UNCHANGED case
    BY <1>4 DEF SetupReturns, StartCase, BodyReturns
  <2> QED BY <2>1 DEF kidVars, NotCleaned
<1>5. CASE CheckReported
  <2>1. /\ tpc = "reap" /\ Children = {} /\ UNCHANGED kidVars
        /\ tpc' = "next" \/ (tpc' = "cleanup" /\ tstat' = FlagsOf("TBROK"))
    BY <1>5 DEF CheckReported, NoChildLeft, TestBreaks, EnterCleanup
  <2> QED BY <2>1 DEF kidVars
<1>6. CASE LastCaseDone
  <2>1. tpc = "next" /\ tpc' = "cleanup" /\ UNCHANGED kidVars
    BY <1>6 DEF LastCaseDone, EnterCleanup
  <2>2. case > 0
    BY <1>6, TestRunAssumption DEF LastCaseDone, CasesLeft
  <2> QED BY <2>1, <2>2 DEF kidVars
<1>7. ASSUME NEW t \in Types, UserReports(t) \/ UserBreaks(t) PROVE ReapedWell'
  <2>1. CASE UNCHANGED testVars
    BY <1>7, <1>same, <2>1 DEF UserReports, UserBreaks
  <2>2. CASE TestBreaks(t) /\ t \in {"TBROK", "TCONF", "TFAIL"}
    BY <2>2 DEF TestBreaks, EnterCleanup, FlagsOf, Flags, Types
  <2> QED BY <1>7, <2>1, <2>2 DEF UserReports, UserBreaks, tst_cvres
<1>8. ASSUME NEW k \in Kids, UserForks(k) PROVE ReapedWell'
  <2>1. /\ tpc \in {"setup", "body"} /\ UNCHANGED <<tpc, tstat, kstat, orphans>>
        /\ \E kind \in {"early", "live"} : kid' = [kid EXCEPT ![k] = kind]
    BY <1>8 DEF UserForks, Fork, testVars
  <2> QED BY <2>1
<1>9. ASSUME NEW k \in Kids, Reap(k) PROVE ReapedWell'
  <2>1. /\ tpc = "reap" /\ UNCHANGED <<kstat, orphans>> /\ kid' = [kid EXCEPT ![k] = "gone"]
    BY <1>9 DEF Reap
  <2>2. CASE ValidChild(kstat[k])
    <3>1. UNCHANGED testVars
      BY <1>9, <2>2 DEF Reap
    <3> QED BY <2>1, <2>2, <3>1 DEF testVars
  <2>3. CASE ~ValidChild(kstat[k])
    <3>1. tpc' = "cleanup" /\ tstat' = FlagsOf("TBROK")
      BY <1>9, <2>3 DEF Reap, TestBreaks, EnterCleanup
    <3> QED BY <3>1 DEF FlagsOf, Flags, Types
  <2> QED BY <2>2, <2>3
<1>10. CASE Ending
  BY <1>10, EndEffect
<1>11. ASSUME NEW k \in Kids, KidStep(k) PROVE ReapedWell'
  <2>1. k \in Live /\ UNCHANGED testVars
    BY <1>11, KidEffect
  <2>2. CASE UNCHANGED <<kid, kstat>> /\ orphans \subseteq orphans'
    BY <2>1, <2>2 DEF testVars
  <2>3. ASSUME NEW how,
               UNCHANGED orphans, kstat' = [kstat EXCEPT ![k] = how],
               kid' = [kid EXCEPT ![k] = IF k \in orphans THEN "gone" ELSE "zombie"]
        PROVE  ReapedWell'
    <3>1. k \notin orphans => kid'[k] = "zombie"
      BY <2>3
    <3>2. \A j \in Kids \ {k} : kid'[j] = kid[j] /\ kstat'[j] = kstat[j]
      BY <2>3
    <3>3. \A j \in Children' : j \in Children
      BY <2>1, <2>3, <3>2 DEF Live
    <3> QED BY <2>1, <2>3, <3>1, <3>2, <3>3 DEF testVars
  <2> QED BY <1>11, <2>2, <2>3, KidEffect
<1>12. CASE UNCHANGED vars
  BY <1>12, <1>same DEF vars
<1> QED BY <1>1, <1>2, <1>3, <1>4, <1>5, <1>6, <1>7, <1>8, <1>9, <1>10, <1>11, <1>12, Split
        DEF GoingOn

\* A report that only warns leaves the comparison as it was; another one shows.
LEMMA SpeakingShows ==
  ASSUME TypeOK, NEW t \in Types, update_results(t), Speaks(t), ~spoke',
         results_equal(saved, results)
  PROVE  results_equal(saved, results')
<1>1. t = "TWARN"
  BY DEF Speaks
<1> QED BY <1>1, Update DEF results_equal, TypeOK

LEMMA ReportsSeenStep ==
  TypeOK /\ NotCleaned /\ ReportsSeen /\ [Next]_vars => ReportsSeen'
<1> SUFFICES ASSUME TypeOK, NotCleaned, ReportsSeen, [Next]_vars PROVE ReportsSeen'
  OBVIOUS
<1> USE DEF AfterCase, AllCasesRun
<1>grow. \A t \in Types : results'[t] >= results[t] /\ results'[t] \in Nat
  BY CountersGrow DEF TypeOK
<1>rep. Reported => Reported'
  BY <1>grow DEF Reported, TypeOK
<1>sil. silent => results'["TBROK"] > 0
  BY <1>grow DEF ReportsSeen, TypeOK, Types
<1>below. UNCHANGED saved => \A t \in Types : saved'[t] <= results'[t]
  BY <1>grow DEF ReportsSeen, TypeOK
\* Steps that neither change the comparison nor finish the cases.
<1>keep. ASSUME UNCHANGED <<saved, silent>>,
                tpc' \in {"body", "reap"} /\ ~spoke' => results_equal(saved, results'),
                AfterCase' \/ AllCasesRun' \/ (tpc' = "dead" /\ tstat' = {}) => Reported
         PROVE  ReportsSeen'
  BY <1>below, <1>rep, <1>sil, <1>keep DEF ReportsSeen
<1>same. ASSUME UNCHANGED <<testVars, silent>>,
                UNCHANGED <<results, spoke>> \/ \E t \in Types : update_results(t) /\ Speaks(t)
         PROVE  ReportsSeen'
  <2>1. tpc' \in {"body", "reap"} /\ ~spoke' => results_equal(saved, results')
    BY <1>same, SpeakingShows DEF ReportsSeen, testVars, Speaks
  <2> QED BY <1>keep, <1>same, <2>1 DEF ReportsSeen, testVars
<1>breaks. ASSUME NEW t, t \in Flags, TestBreaks(t), UNCHANGED silent PROVE ReportsSeen'
  <2>1. tpc' = "cleanup" /\ tstat' # {} /\ UNCHANGED saved
    BY <1>breaks DEF TestBreaks, EnterCleanup, FlagsOf
  <2> QED BY <1>keep, <1>breaks, <2>1
<1>1. CASE StartVariant
  BY <1>1, <1>keep DEF StartVariant
<1>2. CASE Collect
  BY <1>2, <1>keep DEF Collect, testVars, ReportsSeen
<1>3. CASE DoExit
  BY <1>3, <1>same DEF DoExit
<1>4. CASE SetupReturns
  BY <1>4, <1>keep DEF SetupReturns, ReportsSeen, NotCleaned
<1>5. CASE StartCase
  <2>1. saved' = results /\ results' = results /\ tpc' = "body" /\ UNCHANGED silent
    BY <1>5 DEF StartCase
  <2> QED BY <1>sil, <2>1 DEF ReportsSeen, results_equal, TypeOK
<1>6. CASE BodyReturns
  BY <1>6, <1>keep DEF BodyReturns, ReportsSeen
<1>7. CASE CheckReported
  <2>1. CASE results_equal(saved, results)
    <3>1. TestBreaks("TBROK") /\ UNCHANGED saved
      BY <1>7, <2>1 DEF CheckReported, TestBreaks, EnterCleanup
    <3>2. results'["TBROK"] > 0
      BY <3>1, Update DEF TestBreaks, Types, TypeOK
    <3>3. tpc' = "cleanup" /\ tstat' # {}
      BY <3>1 DEF TestBreaks, EnterCleanup, FlagsOf, Flags, Types
    <3> QED BY <1>below, <3>1, <3>2, <3>3 DEF ReportsSeen
  <2>2. CASE ~results_equal(saved, results)
    <3>1. tpc = "reap" /\ tpc' = "next" /\ UNCHANGED <<results, saved>>
      BY <1>7, <2>2 DEF CheckReported
    <3>2. spoke /\ (silent' <=> silent)
      BY <1>7, <2>2, <3>1 DEF CheckReported, ReportsSeen
    <3>3. PICK t \in Types \ {"TWARN"} : saved[t] # results[t]
      BY <2>2 DEF results_equal
    <3>4. Reported
      BY <3>3 DEF Reported, ReportsSeen, TypeOK
    <3> QED BY <1>below, <1>rep, <1>sil, <3>1, <3>2, <3>4 DEF ReportsSeen
  <2> QED BY <2>1, <2>2
<1>8. CASE LastCaseDone
  <2>1. AfterCase
    BY <1>8, TestRunAssumption DEF LastCaseDone, CasesLeft, TypeOK
  <2>2. Reported /\ UNCHANGED <<results, saved, silent>> /\ tpc' = "cleanup"
    BY <1>8, <2>1 DEF LastCaseDone, EnterCleanup, ReportsSeen
  <2> QED BY <1>keep, <2>2
<1>9. ASSUME NEW t \in Types, UserReports(t) PROVE ReportsSeen'
  BY <1>9, <1>same DEF UserReports
<1>10. ASSUME NEW t \in Types, UserBreaks(t) PROVE ReportsSeen'
  <2>1. CASE TestBreaks(t)
    BY <1>10, <1>breaks, <2>1 DEF UserBreaks, Flags, Types
  <2>2. CASE tpc = "cleanup" /\ UNCHANGED testVars
    BY <1>10, <1>keep, <2>2 DEF UserBreaks, testVars, ReportsSeen
  <2> QED BY <1>10, <2>1, <2>2 DEF UserBreaks, tst_cvres
<1>11. ASSUME NEW k \in Kids, UserForks(k) PROVE ReportsSeen'
  BY <1>11, <1>same DEF UserForks, Fork
<1>12. ASSUME NEW k \in Kids, Reap(k) PROVE ReportsSeen'
  BY <1>12, <1>same, <1>breaks DEF Reap, Flags, Types
<1>13. CASE Ending
  BY <1>13, <1>keep, EndEffect DEF ReportsSeen, TypeOK
<1>14. ASSUME NEW k \in Kids, KidStep(k) PROVE ReportsSeen'
  BY <1>14, <1>same, KidEffect
<1>15. CASE UNCHANGED vars
  BY <1>15, <1>same DEF vars
<1> QED BY <1>1, <1>2, <1>3, <1>4, <1>5, <1>6, <1>7, <1>8, <1>9, <1>10, <1>11, <1>12,
           <1>13, <1>14, <1>15, Split DEF GoingOn

LEMMA GatheredStep ==
  TypeOK /\ NobodyLeft /\ ReportsSeen /\ Gathered /\ [Next]_vars => Gathered'
<1> SUFFICES ASSUME TypeOK, NobodyLeft, ReportsSeen, Gathered, [Next]_vars PROVE Gathered'
  OBVIOUS
<1> USE DEF Gathered
<1>rep. Reported => Reported'
  BY CountersGrow DEF Reported, TypeOK
<1>wait. CASE lpc = "wait" /\ UNCHANGED lpc
  BY <1>wait
<1>1. CASE StartVariant
  BY <1>1 DEF StartVariant
<1>2. CASE Collect
  <2>1. CASE tstat \subseteq Flags
    <3>1. /\ tpc = "dead" /\ ret' = ret \cup tstat
          /\ lpc' = "fork" \/ (lpc' = "exit" /\ UNCHANGED variant
                               /\ ~(ret' \subseteq {"TCONF"} /\ variant < Variants))
      BY <1>2, <2>1 DEF Collect
    <3>2. ret' = {} => Reported'
      BY <1>rep, <3>1 DEF ReportsSeen
    <3>3. lpc' = "exit" /\ ret' \subseteq {"TCONF"} => variant' = Variants
      BY <3>1, TestRunAssumption DEF TypeOK
    <3> QED BY <3>1, <3>2, <3>3
  <2>2. CASE ~(tstat \subseteq Flags)
    BY <1>2, <2>2 DEF Collect
  <2> QED BY <2>1, <2>2
<1>3. CASE DoExit
  BY <1>3 DEF DoExit, Reported
<1>4. CASE GoingOn
  BY <1>4, <1>wait, GoOnEffect DEF NobodyLeft, libVars
<1>5. CASE Ending
  BY <1>5, <1>wait, EndEffect DEF NobodyLeft, libVars, TypeOK
<1>6. ASSUME NEW k \in Kids, KidStep(k) PROVE Gathered'
  BY <1>6, <1>wait, KidEffect DEF NobodyLeft, libVars
<1>7. CASE UNCHANGED vars
  BY <1>7 DEF vars, libVars, Reported
<1> QED BY <1>1, <1>2, <1>3, <1>4, <1>5, <1>6, <1>7, Split

-----------------------------------------------------------------------------
LEMMA Invariant == Spec => [](IInv /\ CleanupOnce)
<1>1. Init => IInv /\ CleanupOnce
  <2> SUFFICES ASSUME Init PROVE IInv /\ CleanupOnce
    OBVIOUS
  <2>1. TypeOK
    <3>1. results \in [Types -> Nat] /\ saved \in [Types -> Nat]
      BY DEF Init
    <3>2. variant \in 1 .. Variants /\ case \in 0 .. Cases
      BY TestRunAssumption DEF Init
    <3> QED BY <3>1, <3>2 DEF Init, TypeOK
  <2>2. NobodyLeft /\ NotCleaned /\ ReapedWell /\ Gathered /\ CleanupOnce
    BY DEF Init, NobodyLeft, Between, Live, NotCleaned, ReapedWell, AfterCase, AllCasesRun,
           Gathered, CleanupOnce
  <2>3. ReportsSeen
    BY DEF Init, ReportsSeen, AfterCase, AllCasesRun, Types
  <2> QED BY <2>1, <2>2, <2>3 DEF IInv
<1>2. IInv /\ CleanupOnce /\ [Next]_vars => (IInv /\ CleanupOnce)'
  BY TypeStep, NobodyLeftStep, NotCleanedStep, ReapedWellStep, ReportsSeenStep, GatheredStep
  DEF IInv
<1> QED BY <1>1, <1>2, PTL DEF Spec

\* For any number of variants, cases and children: every failure, breakage and
\* warning is in the exit status, status 0 means that something passed in a run
\* through all variants, and a case in which nobody reported anything breaks it.
THEOREM StatusTold == Spec => []StatusHonest
<1>1. IInv => StatusHonest
  <2> SUFFICES ASSUME IInv, lpc = "done"
               PROVE  /\ \A t \in {"TFAIL", "TBROK", "TWARN"} : results[t] > 0 => t \in code
                      /\ code = {} => results["TPASS"] > 0 /\ variant = Variants
                      /\ silent => "TBROK" \in code
    BY DEF StatusHonest, StatusIsComplete, PassMeansPassed, SilentCaseBreaks
  <2> USE DEF IInv
  <2>1. code = ExitStatus(ret, results)
    BY DEF Gathered
  <2>2. \A t \in {"TFAIL", "TBROK", "TWARN"} : results[t] > 0 => t \in code
    BY <2>1 DEF ExitStatus
  <2>3. silent => "TBROK" \in code
    BY <2>2 DEF ReportsSeen
  <2>4. ASSUME code = {} PROVE results["TPASS"] > 0 /\ variant = Variants
    <3>1. ret \subseteq {"TCONF"}
      BY <2>1, <2>4 DEF ExitStatus
    <3>2. results["TCONF"] > 0 => results["TPASS"] > 0
      BY <2>1, <2>4 DEF ExitStatus, TypeOK, Types
    <3>3. ret # {} => results["TPASS"] > 0
      BY <2>1, <2>4 DEF ExitStatus
    <3>4. Reported => results["TPASS"] > 0
      BY <2>2, <2>4, <3>2 DEF Reported, Types
    <3> QED BY <3>1, <3>3, <3>4 DEF Gathered
  <2> QED BY <2>2, <2>3, <2>4
<1> QED BY <1>1, Invariant, PTL

\* For any number of children: a test process gets through its cases only if each
\* child it kept was reaped and ended as a child may, and cleanup() is entered at
\* most once.
THEOREM ProcessesTold == Spec => []ProcessesAccounted
<1>1. IInv => TypeOK /\ EveryChildAccounted
  <2> SUFFICES ASSUME IInv, AllCasesRun, NEW k \in Kids \ orphans, kid[k] # "none"
               PROVE  kid[k] = "gone" /\ kstat[k] \cap {"signal", "TFAIL", "TWARN"} = {}
    BY DEF IInv, EveryChildAccounted, AllCasesRun
  <2>1. kid[k] = "gone"
    BY DEF IInv, ReapedWell, Children, TypeOK
  <2>2. ValidChild(kstat[k])
    BY <2>1 DEF IInv, ReapedWell
  <2> QED BY <2>1, <2>2 DEF ValidChild
<1>2. IInv /\ CleanupOnce => ProcessesAccounted
  BY <1>1 DEF ProcessesAccounted
<1> QED BY <1>2, Invariant, PTL

-----------------------------------------------------------------------------
(* The command line and the rounds.                                        *)

LoLetters == Letters(OwnOptions) \cup {"unknown", "leftover"} \cup UNION {Letters(t.options) : t \in LoTests}
LoOptions == [c : LoLetters, text : Texts \cup {NoText}, missing : BOOLEAN]
LoGoing == {"options", "timeout", "starting", "running", "ended"}

LoTyped ==
    /\ lo_test \in LoTests /\ lo_line \in Seq(LoOptions)
    /\ lo_pc \in LoGoing \cup {"setup", "broken", "helped", "aborted"}
    /\ lo_iterations \in Nat /\ lo_duration \in Nat /\ lo_stop \in Nat
    /\ lo_i \in Nat /\ lo_rounds \in Nat /\ lo_began \in Nat /\ lo_clock \in Nat \ {0}

LEMMA KnownLetters ==
  /\ Letters(OwnOptions) \subseteq LoLetters /\ {"unknown", "leftover"} \subseteq LoLetters
  /\ \A t \in LoTests : Letters(t.options) \subseteq LoLetters
<1> DEFINE own == Letters(OwnOptions)
           others == {Letters(t.options) : t \in LoTests}
<1>1. \A t \in LoTests : Letters(t.options) \in others
  OBVIOUS
<1>2. LoLetters = own \cup {"unknown", "leftover"} \cup UNION others
  BY DEF LoLetters
<1> HIDE DEF own, others
<1>3. \A X \in others : X \subseteq UNION others
  BY Zenon
<1>4. own \subseteq LoLetters /\ {"unknown", "leftover"} \subseteq LoLetters /\ UNION others \subseteq LoLetters
  BY <1>2, Zenon
<1>5. \A t \in LoTests : Letters(t.options) \subseteq LoLetters
  BY <1>1, <1>3, <1>4, Zenon
<1> QED
  BY <1>4, <1>5, Zenon DEF own

\* There is a last place, which LoLast chooses.
LastPlace(line, c) ==
    LET places == {k \in DOMAIN line : line[k].c = c} IN
    places # {} => \E k \in places : \A j \in places : j <= k

LoFits(o) ==
    /\ ~o.missing /\ o.c # "h" /\ Known(o.c)
    /\ o.c \in {"i", "I"} => o.text.digits /\ o.text.n >= 1

\* What was parsed is what the line says; nothing is multiplied before the timeout.
LoParsed ==
    /\ \A c \in {"i", "I"} : LastPlace(lo_line, c)
    /\ lo_pc \in {"setup", "options", "timeout"} => lo_mul = 0
    /\ lo_pc = "setup" => lo_line = <<>>
    /\ lo_pc \in LoGoing =>
         /\ assert_test_fn /\ "sample" \notin lo_test.fns
         /\ \A k \in DOMAIN lo_line : LoFits(lo_line[k])
    /\ lo_pc \in LoGoing \cup {"setup"} =>
         /\ lo_iterations = LoLast("i", 1)
         /\ ~lo_test.max_runtime => lo_duration = LoLast("I", 0)
    /\ lo_pc \in {"starting", "running", "ended"} =>
         /\ ~lo_test.max_runtime
         /\ lo_env # NoText => lo_env.digits /\ lo_env.rest = ""

\* Rounds are counted up to the iterations, then only begun in time.
LoCounted ==
    /\ lo_pc \in {"setup", "options", "timeout", "starting"} => lo_rounds = 0 /\ lo_i = 0
    /\ lo_pc \in {"running", "ended"} =>
         /\ lo_duration > 0 <=> lo_stop > 0
         /\ lo_rounds <= lo_iterations => lo_i = lo_rounds
         /\ lo_rounds > lo_iterations => lo_i = lo_iterations /\ lo_stop > 0 /\ lo_began < lo_stop
    /\ lo_pc = "ended" => ~Counted(lo_i) /\ ~TimeLeft

LoIInv == LoTyped /\ LoParsed /\ LoCounted

\* LoLast of a line that has one more option.
LastOf(line, c, default) ==
    LET places == {k \in DOMAIN line : line[k].c = c} IN
    IF places = {} THEN default ELSE line[CHOOSE k \in places : \A j \in places : j <= k].text.n

LEMMA LastAppended ==
  ASSUME NEW line \in Seq(LoOptions), NEW o \in LoOptions, NEW c, NEW default, LastPlace(line, c)
  PROVE  /\ LastPlace(Append(line, o), c)
         /\ o.c = c => LastOf(Append(line, o), c, default) = o.text.n
         /\ o.c # c => LastOf(Append(line, o), c, default) = LastOf(line, c, default)
<1> DEFINE more == Append(line, o)
           n == Len(line)
           before == {k \in DOMAIN line : line[k].c = c}
           after == {k \in DOMAIN more : more[k].c = c}
<1>1. /\ n \in Nat /\ DOMAIN line = 1 .. n /\ DOMAIN more = 1 .. n + 1
      /\ more[n + 1] = o /\ \A k \in 1 .. n : more[k] = line[k]
  OBVIOUS
<1> HIDE DEF more, n
<1>2. CASE o.c = c
  <2>1. n + 1 \in after /\ \A j \in after : j <= n + 1
    BY <1>1, <1>2
  <2>2. (CHOOSE k \in after : \A j \in after : j <= k) = n + 1
    <3> DEFINE P(k) == k \in after /\ \A j \in after : j <= k
    <3>1. \A k : P(k) => k = n + 1
      BY <1>1, <2>1
    <3> QED
      BY <2>1, <3>1
  <2>3. LastPlace(more, c)
    BY <2>1 DEF LastPlace
  <2>4. LastOf(more, c, default) = more[n + 1].text.n
    BY <2>1, <2>2 DEF LastOf
  <2> QED
    BY <1>1, <1>2, <2>3, <2>4 DEF more
<1>3. CASE o.c # c
  <2>1. after = before
    BY <1>1, <1>3
  <2>2. before # {} => (CHOOSE k \in before : \A j \in before : j <= k) \in 1 .. n
    BY <1>1 DEF LastPlace
  <2>3. LastPlace(more, c)
    BY <2>1 DEF LastPlace
  <2>4. LastOf(more, c, default) = LastOf(line, c, default)
    <3>1. before = {} => LastOf(more, c, default) = default /\ LastOf(line, c, default) = default
      BY <2>1 DEF LastOf
    <3>2. ASSUME before # {} PROVE LastOf(more, c, default) = LastOf(line, c, default)
      <4> DEFINE last == CHOOSE k \in before : \A j \in before : j <= k
      <4>1. last \in 1 .. n
        BY <2>2, <3>2
      <4>2. LastOf(line, c, default) = line[last].text.n
        BY <3>2 DEF LastOf
      <4>3. LastOf(more, c, default) = more[last].text.n
        BY <2>1, <3>2 DEF LastOf
      <4> QED
        BY <1>1, <4>1, <4>2, <4>3
    <3> QED
      BY <3>1, <3>2
  <2> QED
    BY <1>3, <2>3, <2>4 DEF more
<1> QED
  BY <1>2, <1>3

\* One more option on the line of a test, and what the last ones then say.
LEMMA LineAppended ==
  ASSUME LoTyped, LoParsed, NEW o \in LoOptions, lo_line' = Append(lo_line, o)
  PROVE  /\ lo_line' \in Seq(LoOptions)
         /\ \A c \in {"i", "I"} : LastPlace(lo_line, c)'
         /\ \A c \in {"i", "I"} : \A default \in Nat :
              LoLast(c, default)' = IF o.c = c THEN o.text.n ELSE LoLast(c, default)
         /\ \A k \in DOMAIN lo_line' :
              lo_line'[k] = o \/ (k \in DOMAIN lo_line /\ lo_line'[k] = lo_line[k])
<1>1. lo_line' \in Seq(LoOptions)
  BY DEF LoTyped
<1>2. \A k \in DOMAIN lo_line' :
        lo_line'[k] = o \/ (k \in DOMAIN lo_line /\ lo_line'[k] = lo_line[k])
  BY DEF LoTyped
<1>3. ASSUME NEW c \in {"i", "I"}, NEW default \in Nat
      PROVE  /\ LastPlace(lo_line, c)'
             /\ LoLast(c, default)' = IF o.c = c THEN o.text.n ELSE LoLast(c, default)
  <2>1. /\ LastPlace(Append(lo_line, o), c)
        /\ o.c = c => LastOf(Append(lo_line, o), c, default) = o.text.n
        /\ o.c # c => LastOf(Append(lo_line, o), c, default) = LastOf(lo_line, c, default)
    <3>1. LastPlace(lo_line, c) /\ lo_line \in Seq(LoOptions)
      BY DEF LoTyped, LoParsed
    <3> QED
      <4>1. LastPlace(Append(lo_line, o), c)
        BY <3>1, LastAppended
      <4>2. o.c = c => LastOf(Append(lo_line, o), c, default) = o.text.n
        BY <3>1, LastAppended
      <4>3. o.c # c => LastOf(Append(lo_line, o), c, default) = LastOf(lo_line, c, default)
        BY <3>1, LastAppended
      <4> QED
        BY <4>1, <4>2, <4>3
  <2>2. LastPlace(lo_line, c)'
    BY <2>1 DEF LastPlace
  <2>3. LoLast(c, default)' = LastOf(lo_line', c, default) /\ LoLast(c, default) = LastOf(lo_line, c, default)
    BY DEF LoLast, LastOf
  <2> QED
    BY <2>1, <2>2, <2>3
<1> QED
  BY <1>1, <1>2, <1>3

LEMMA LoInitial == LoInit => LoIInv
<1> SUFFICES ASSUME LoInit PROVE LoIInv
  OBVIOUS
<1>1. LoTyped
  BY DEF LoInit, LoTyped, LoGoing, LoOptions
<1>2. DOMAIN lo_line = {}
  BY DEF LoInit
<1>3. LoLast("i", 1) = 1 /\ LoLast("I", 0) = 0 /\ \A c \in {"i", "I"} : LastPlace(lo_line, c)
  BY <1>2 DEF LoLast, LastPlace
<1> QED
  BY <1>1, <1>2, <1>3 DEF LoInit, LoIInv, LoParsed, LoCounted, LoGoing

LoStopped == {"broken", "helped", "aborted"}

\* What one option does: it ends the parsing, or is noted.
LEMMA OptionTakes ==
  ASSUME LoTyped, lo_mul = 0, NEW c, NEW text \in LoTexts, NEW missing \in BOOLEAN, LoOption(c, text, missing)
  PROVE  /\ lo_pc = "options" /\ lo_line' = Append(lo_line, [c |-> c, text |-> text, missing |-> missing])
         /\ UNCHANGED <<lo_test, lo_stop, lo_i, lo_rounds, lo_began, lo_clock>>
         /\ lo_iterations' \in Nat /\ lo_duration' \in Nat
         /\ lo_pc' \in LoStopped \cup {"options"}
         /\ lo_pc' = "options" =>
              /\ lo_mul' = 0 /\ ~missing /\ c # "h" /\ Known(c)
              /\ c \in {"i", "I"} => text.digits /\ text.n >= 1
              /\ lo_iterations' = IF c = "i" THEN text.n ELSE lo_iterations
              /\ ~lo_test.max_runtime => lo_duration' = IF c = "I" THEN text.n ELSE lo_duration
<1>1. /\ lo_pc = "options" /\ lo_line' = Append(lo_line, [c |-> c, text |-> text, missing |-> missing])
      /\ UNCHANGED <<lo_test, lo_stop, lo_i, lo_rounds, lo_began, lo_clock>>
  BY DEF LoOption, loRun
<1>2. lo_iterations \in Nat /\ lo_duration \in Nat
  BY DEF LoTyped
<1>3. SafeNumber(text, 1, LoIntMax) => text.digits /\ text.n \in Nat /\ text.n >= 1
  <2>1. text \in Texts /\ LoIntMax \in Nat
    BY LoAssumption
  <2>2. SafeNumber(text, 1, LoIntMax) => text.digits /\ text.n \in 1 .. LoIntMax
    BY Zenon DEF SafeNumber
  <2> QED
    BY <2>1, <2>2
<1>4. ASSUME NEW next \in {"broken", "helped"}, print_help(next) PROVE lo_pc' \in LoStopped
  BY <1>4 DEF print_help, parse_mul, LoStopped
<1>5. CASE (~Known(c) \/ missing) /\ print_help("broken") /\ UNCHANGED <<lo_iterations, lo_duration, lo_args>>
  BY <1>1, <1>2, <1>4, <1>5 DEF LoStopped
<1>6. CASE Known(c) /\ ~missing /\ c = "h" /\ print_help("helped") /\ UNCHANGED <<lo_iterations, lo_duration, lo_args>>
  BY <1>1, <1>2, <1>4, <1>6 DEF LoStopped
<1>7. CASE /\ Known(c) /\ ~missing /\ c = "i"
           /\ IF SafeNumber(text, 1, LoIntMax) THEN lo_iterations' = text.n /\ UNCHANGED lo_pc
              ELSE lo_pc' = "broken" /\ UNCHANGED lo_iterations
           /\ UNCHANGED <<lo_mul, lo_duration, lo_args>>
  BY <1>1, <1>2, <1>3, <1>7 DEF LoStopped
<1>8. CASE /\ Known(c) /\ ~missing /\ c = "I"
           /\ IF ~SafeNumber(text, 1, LoIntMax) THEN lo_pc' = "broken" /\ UNCHANGED lo_duration
              ELSE /\ lo_duration' = IF lo_test.max_runtime THEN lo_duration ELSE text.n
                   /\ UNCHANGED lo_pc
           /\ UNCHANGED <<lo_mul, lo_iterations, lo_args>>
  BY <1>1, <1>2, <1>3, <1>8 DEF LoStopped
<1>9. CASE /\ Known(c) /\ ~missing /\ c \notin {"h", "i", "I"}
           /\ UNCHANGED <<lo_mul, lo_iterations, lo_duration, lo_pc>>
  BY <1>1, <1>2, <1>9 DEF LoStopped
<1> QED
  BY <1>5, <1>6, <1>7, <1>8, <1>9 DEF LoOption

LEMMA OptionKeeps ==
  ASSUME LoIInv, NEW c \in Letters(OwnOptions) \cup Letters(lo_test.options) \cup {"unknown"},
         NEW text \in LoTexts, NEW missing \in BOOLEAN, LoOption(c, text, missing)
  PROVE  LoIInv'
<1> DEFINE o == [c |-> c, text |-> text, missing |-> missing]
<1>1. o \in LoOptions
  <2>1. c \in LoLetters
    <3>1. lo_test \in LoTests
      BY DEF LoIInv, LoTyped
    <3> QED
      BY <3>1, KnownLetters
  <2> QED
    BY <2>1, LoAssumption DEF LoOptions
<1>2. /\ lo_pc = "options" /\ lo_line' = Append(lo_line, o)
      /\ UNCHANGED <<lo_test, lo_stop, lo_i, lo_rounds, lo_began, lo_clock>>
      /\ lo_iterations' \in Nat /\ lo_duration' \in Nat
      /\ lo_pc' \in LoStopped \cup {"options"}
      /\ lo_pc' = "options" =>
           /\ lo_mul' = 0 /\ ~missing /\ c # "h" /\ Known(c)
           /\ c \in {"i", "I"} => text.digits /\ text.n >= 1
           /\ lo_iterations' = IF c = "i" THEN text.n ELSE lo_iterations
           /\ ~lo_test.max_runtime => lo_duration' = IF c = "I" THEN text.n ELSE lo_duration
  <2>1. LoTyped /\ lo_mul = 0
    BY DEF LoIInv, LoParsed, LoOption
  <2> QED
    BY <2>1, OptionTakes
<1>3. o.c = c /\ o.text = text /\ o.missing = missing
  OBVIOUS
<1> HIDE DEF o
<1>4. /\ lo_line' \in Seq(LoOptions)
      /\ \A d \in {"i", "I"} : LastPlace(lo_line, d)'
      /\ \A d \in {"i", "I"} : \A default \in Nat :
           LoLast(d, default)' = IF c = d THEN text.n ELSE LoLast(d, default)
      /\ \A k \in DOMAIN lo_line' : lo_line'[k] = o \/ (k \in DOMAIN lo_line /\ lo_line'[k] = lo_line[k])
  BY <1>1, <1>2, <1>3, LineAppended DEF LoIInv
<1>5. LoTyped' /\ LoCounted'
  BY <1>2, <1>4 DEF LoIInv, LoTyped, LoCounted, LoGoing, LoStopped
<1>6. CASE lo_pc' # "options"
  BY <1>2, <1>4, <1>5, <1>6 DEF LoIInv, LoParsed, LoGoing, LoStopped
<1>7. CASE lo_pc' = "options"
  <2>1. lo_iterations = LoLast("i", 1) /\ (~lo_test.max_runtime => lo_duration = LoLast("I", 0))
    BY <1>2, Zenon DEF LoIInv, LoParsed, LoGoing
  <2>2. lo_iterations' = LoLast("i", 1)' /\ (~lo_test.max_runtime => lo_duration' = LoLast("I", 0)')
    BY <1>2, <1>4, <1>7, <2>1
  <2>3. assert_test_fn /\ \A k \in DOMAIN lo_line : LoFits(lo_line[k])
    BY <1>2 DEF LoIInv, LoParsed, LoGoing
  <2>4. assert_test_fn'
    BY <1>2, <2>3 DEF assert_test_fn
  <2>5. ASSUME NEW k \in DOMAIN lo_line' PROVE LoFits(lo_line[k])'
    <3>1. LoFits(o)
      BY <1>2, <1>3, <1>7, Zenon DEF LoFits
    <3>2. PICK p \in LoOptions : LoFits(p) /\ lo_line'[k] = p
      <4>1. CASE lo_line'[k] = o
        BY <1>1, <3>1, <4>1, Zenon
      <4>2. CASE k \in DOMAIN lo_line /\ lo_line'[k] = lo_line[k]
        <5>1. lo_line[k] \in LoOptions
          BY <4>2 DEF LoIInv, LoTyped
        <5> QED
          BY <2>3, <4>2, <5>1, Zenon
      <4> QED
        BY <1>4, <4>1, <4>2, Zenon
    <3>3. lo_test' = lo_test
      BY <1>2
    <3> QED
      BY <3>2, <3>3, Zenon DEF LoFits, Known
  <2> QED
    BY <1>2, <1>4, <1>5, <1>7, <2>2, <2>4, <2>5 DEF LoIInv, LoParsed, LoGoing
<1> QED
  BY <1>6, <1>7

\* The steps that leave the line alone, or end its parsing.
LEMMA RestKeeps ==
  ASSUME LoIInv, UNCHANGED lo_line, LoTyped', LoCounted',
         lo_pc' \in LoGoing => lo_pc \in LoGoing,
         lo_pc' = "setup" => lo_pc = "setup",
         lo_pc' \in LoGoing \cup {"setup"} => UNCHANGED <<lo_test, lo_iterations, lo_duration>>,
         lo_pc' \in {"setup", "options", "timeout"} => lo_mul' = 0,
         lo_pc' \in {"starting", "running", "ended"} =>
           ~lo_test.max_runtime /\ (lo_env' # NoText => lo_env'.digits /\ lo_env'.rest = "")
  PROVE  LoIInv'
<1>1. /\ \A c \in {"i", "I"} : LastPlace(lo_line, c)'
      /\ LoLast("i", 1)' = LoLast("i", 1) /\ LoLast("I", 0)' = LoLast("I", 0)
  <2>1. \A c \in {"i", "I"} : LastPlace(lo_line, c)
    BY DEF LoIInv, LoParsed
  <2>2. \A c \in {"i", "I"} : LastPlace(lo_line, c)'
    BY <2>1, Zenon DEF LastPlace
  <2>3. LoLast("i", 1)' = LoLast("i", 1) /\ LoLast("I", 0)' = LoLast("I", 0)
    <3>1. \A c \in {"i", "I"}, n \in {0, 1} :
            LoLast(c, n) = LastOf(lo_line, c, n) /\ LoLast(c, n)' = LastOf(lo_line', c, n)
      BY Zenon DEF LoLast, LastOf
    <3> QED
      BY <3>1
  <2> QED
    BY <2>2, <2>3
<1>2. CASE lo_pc' \in LoGoing
  <2>1. assert_test_fn' /\ \A k \in DOMAIN lo_line : LoFits(lo_line[k])'
    BY <1>2 DEF LoIInv, LoParsed, assert_test_fn, LoFits, Known
  <2> QED
    BY <1>1, <1>2, <2>1 DEF LoIInv, LoParsed, LoGoing
<1>3. CASE lo_pc' \notin LoGoing
  BY <1>1, <1>3 DEF LoIInv, LoParsed, LoGoing
<1> QED
  BY <1>2, <1>3

LEMMA LoInvariant == LoSpec => []LoIInv
<1>1. LoIInv /\ [LoNext]_lovars => LoIInv'
  <2> SUFFICES ASSUME LoIInv, [LoNext]_lovars PROVE LoIInv'
    OBVIOUS
  <2>1. CASE LoSetup
    BY <2>1 DEF LoSetup, loParsed, loRun, LoIInv, LoTyped, LoParsed, LoCounted, LoGoing, LastPlace, LoLast, assert_test_fn
  <2>2. CASE LoTimeout
    <3>1. LoTyped' /\ LoCounted'
      BY <2>2 DEF LoTimeout, loParsed, loRun, parse_mul, LoIInv, LoTyped, LoCounted, LoGoing
    <3>2. lo_pc' = "starting" => ~lo_test.max_runtime /\ (lo_env' # NoText => lo_env'.digits /\ lo_env'.rest = "")
      <4>1. lo_pc = "timeout" /\ lo_mul = 0
        BY <2>2 DEF LoTimeout, LoIInv, LoParsed
      <4>2. lo_pc' = "starting" => ~lo_test.max_runtime /\ (lo_env = NoText \/ tst_parse_float(lo_env, 1, 10000))
        BY <2>2, <4>1 DEF LoTimeout, parse_mul
      <4>3. lo_env' = lo_env
        BY <2>2 DEF LoTimeout
      <4> QED
        <5> DEFINE most == 10000
        <5>1. lo_pc' = "starting" /\ lo_env' # NoText => tst_parse_float(lo_env', 1, most)
          BY <4>2, <4>3
        <5> HIDE DEF most
        <5>2. lo_pc' = "starting" /\ lo_env' # NoText => lo_env'.digits /\ lo_env'.rest = ""
          BY <5>1, Zenon DEF tst_parse_float
        <5>3. lo_pc' = "starting" => ~lo_test.max_runtime
          BY <4>2
        <5> QED
          BY <5>2, <5>3, Zenon
    <3>3. lo_pc' \in {"starting", "broken", "aborted"} /\ UNCHANGED <<lo_line, lo_test, lo_iterations, lo_duration>>
      BY <2>2 DEF LoTimeout, loParsed, parse_mul
    <3> QED
      BY <2>2, <3>1, <3>2, <3>3, RestKeeps DEF LoTimeout, LoGoing
  <2>3. CASE LoStart
    <3>1. LoTyped' /\ LoCounted'
      BY <2>3 DEF LoStart, loParsed, LoIInv, LoTyped, LoCounted, LoGoing
    <3> QED
      BY <2>3, <3>1, RestKeeps DEF LoStart, loParsed, LoGoing, LoIInv, LoParsed
  <2>4. CASE LoRound
    <3>1. LoTyped'
      BY <2>4 DEF LoRound, loParsed, LoIInv, LoTyped
    <3>2. LoCounted'
      BY <2>4 DEF LoRound, loParsed, LoIInv, LoTyped, LoCounted, Counted, TimeLeft
    <3> QED
      BY <2>4, <3>1, <3>2, RestKeeps DEF LoRound, loParsed, LoGoing, LoIInv, LoParsed
  <2>5. CASE LoFinish
    <3>1. LoTyped' /\ LoCounted'
      BY <2>5 DEF LoFinish, loParsed, loRun, LoIInv, LoTyped, LoCounted, LoGoing, Counted, TimeLeft
    <3> QED
      BY <2>5, <3>1, RestKeeps DEF LoFinish, loParsed, LoGoing, LoIInv, LoParsed
  <2>6. CASE LoTick
    <3>1. LoTyped' /\ LoCounted'
      BY <2>6 DEF LoTick, loParsed, loRun, LoIInv, LoTyped, LoCounted, LoGoing
    <3> QED
      BY <2>6, <3>1, RestKeeps DEF LoTick, loParsed, LoGoing, LoIInv, LoParsed
  <2>7. ASSUME NEW c \in Letters(OwnOptions) \cup Letters(lo_test.options) \cup {"unknown"},
               NEW text \in LoTexts, NEW missing \in BOOLEAN, LoOption(c, text, missing)
        PROVE  LoIInv'
    BY <2>7, OptionKeeps
  <2>8. ASSUME NEW leftover \in BOOLEAN, LoOptionsEnd(leftover) PROVE LoIInv'
    <3>1. CASE leftover
      <4>1. /\ lo_line' = Append(lo_line, Leftover) /\ Leftover \in LoOptions /\ lo_pc' = "broken"
        <5>1. Leftover \in LoOptions
          <6>1. "leftover" \in LoLetters /\ NoText \in Texts \cup {NoText}
            BY KnownLetters
          <6> QED
            BY <6>1 DEF Leftover, LoOptions
        <5>2. lo_line' = Append(lo_line, Leftover) /\ lo_pc' = "broken"
          BY <2>8, <3>1 DEF LoOptionsEnd, Unexpected
        <5> QED
          BY <5>1, <5>2
      <4>2. lo_line' \in Seq(LoOptions) /\ \A c \in {"i", "I"} : LastPlace(lo_line, c)'
        BY <4>1, LineAppended DEF LoIInv
      <4> QED
        BY <2>8, <4>1, <4>2 DEF LoOptionsEnd, loRun, LoIInv, LoTyped, LoParsed, LoCounted, LoGoing
    <3>2. CASE ~leftover
      <4>1. LoTyped' /\ LoCounted'
        BY <2>8, <3>2 DEF LoOptionsEnd, Unexpected, loRun, LoIInv, LoTyped, LoCounted, LoGoing
      <4> QED
        BY <2>8, <3>2, <4>1, RestKeeps DEF LoOptionsEnd, Unexpected, LoGoing, LoIInv, LoParsed
    <3> QED
      BY <3>1, <3>2
  <2>9. CASE UNCHANGED lovars
    <3>1. LoTyped' /\ LoCounted'
      BY <2>9 DEF lovars, loParsed, loRun, LoIInv, LoTyped, LoCounted, Counted, TimeLeft
    <3>2. UNCHANGED <<lo_test, lo_env, lo_mul, lo_iterations, lo_duration, lo_line, lo_pc>>
      BY <2>9 DEF lovars, loParsed
    <3> QED
      BY <3>1, <3>2, RestKeeps DEF LoIInv, LoParsed
  <2> QED
    BY <2>1, <2>2, <2>3, <2>4, <2>5, <2>6, <2>7, <2>8, <2>9 DEF LoNext
<1> QED
  BY LoInitial, <1>1, PTL DEF LoSpec

(***************************************************************************)
(* For every test, every environment and every command line: the test runs *)
(* as often and as long as the last -i and the last -I say, and never on a *)
(* line it cannot do (430-451, 1514-1561, 3082-3101).                      *)
(***************************************************************************)
THEOREM RunsAsAsked == LoSpec => []LoAsAsked
<1>1. LoIInv => LoRunsAsAsked
  <2> SUFFICES ASSUME LoIInv, lo_pc \in {"running", "ended"}
               PROVE  /\ lo_pc = "ended" => /\ lo_rounds >= LoLast("i", 1)
                                            /\ LoLast("I", 0) > 0 => lo_clock >= lo_stop
                      /\ lo_rounds > LoLast("i", 1) => LoLast("I", 0) > 0 /\ lo_began < lo_stop
    BY DEF LoRunsAsAsked
  <2>1. lo_iterations = LoLast("i", 1) /\ lo_duration = LoLast("I", 0)
    BY DEF LoIInv, LoParsed, LoGoing
  <2> QED
    BY <2>1 DEF LoIInv, LoTyped, LoCounted, Counted, TimeLeft
<1>2. LoIInv => LoNeverMisread
  BY DEF LoIInv, LoParsed, LoGoing, LoFits, LoNeverMisread
<1> QED
  BY <1>1, <1>2, LoInvariant, PTL DEF LoAsAsked

-----------------------------------------------------------------------------
(* The inductive invariant, in parts, by the place the library is at.      *)

InTmpdir == {"mkdtemp", "strdup", "chown", "chdir"}             \* tst_tmpdir
InSetup  == {"start", "path", "open", "chmod", "mmap", "unlink", "close", "tmpdir",
             "late", "run"} \cup InTmpdir
InCleanup == {"rmdir", "fdclose", "fileunlink", "unmap", "done"}

\* setup_ipc has mapped the results; tst_tmpdir may run before and after that.
AfterIpc == pc \in {"tmpdir", "late", "run"} \/ (pc \in InTmpdir /\ back = "late")

DirAcquired ==
  /\ pc \in InTmpdir => back \in {"path", "late"}
  /\ pc \in {"mkdtemp", "strdup"} => ~TESTDIR
  /\ pc \in {"chown", "chdir"} => TESTDIR
  /\ pc \in {"strdup", "chown", "chdir"} => dir
  /\ TESTDIR /\ pc \in InSetup \ InTmpdir => dir /\ inDir
  /\ pc \in {"late", "run"} /\ needs_tmpdir => TESTDIR

IpcAcquired ==
  /\ pc \in {"chmod", "mmap", "unlink"} => shm = "ours"
  /\ pc \in {"unlink", "close"} \/ AfterIpc => mapped
  /\ (pc = "close" \/ AfterIpc) /\ conf.needs_checkpoints => shm = "ours"

\* A failure leaves the setup at once, and its type is part of the status.
FailureKept ==
  /\ pc \in InSetup => ~setupFailed
  /\ setupFailed => lc_ret # {}
  /\ pc \in InCleanup => lc_ret \subseteq lc_code

\* What each step of the cleanup has given back.
DirReturned ==
  /\ dir /\ ~TESTDIR => pc \in {"strdup", "killed"} \/ lost
  /\ pc \in InCleanup \ {"rmdir"} => ~dir \/ stuck \/ lost

IpcReturned ==
  /\ pc \in {"fileunlink", "unmap", "done"} => ipc_fd # "open"
  /\ pc \in {"unmap", "done"} => shm_path = "" \/ shm = "none" \/ stuck
  /\ pc = "done" => ~mapped

LcIInv == LcTypeOK /\ DirAcquired /\ IpcAcquired /\ FailureKept /\ DirReturned /\ IpcReturned

-----------------------------------------------------------------------------
\* Every step assigns every variable directly: the actions are expanded throughout.
USE DEF LcNext, lcvars, resources, counters, history,
        CheckRequirements, ChoosePath, OpenFile, SizeFile, MapResults, UnlinkFile, CloseFile,
        EnterTmpdir, CheckConsistency, MakeDir, NameDir, OwnDir, ChangeDir, ChdirFails,
        RunTests, LcDoExit, RemoveDir, CloseAgain, RemoveFile, Unmap, Killed, NextRun,
        Goes, CallFails, Break, Fault, Cleans, Warns

LEMMA LcTypeStep == LcTypeOK /\ [LcNext]_lcvars => LcTypeOK'
<1> SUFFICES ASSUME LcTypeOK, [LcNext]_lcvars PROVE LcTypeOK'
  OBVIOUS
<1>1. conf' = conf
  OBVIOUS
<1>2. UNCHANGED run \/ (run < MaxRuns /\ run' = run + 1)
  OBVIOUS
<1>3. UNCHANGED faults \/ faults' = 0 \/ (faults < MaxFaults /\ faults' = faults + 1)
  OBVIOUS
<1>4. TESTDIR' \in BOOLEAN /\ mapped' \in BOOLEAN
  BY DEF LcTypeOK, NewProcess
<1>12. dir' \in BOOLEAN /\ inDir' \in BOOLEAN
  BY DEF LcTypeOK, NewProcess
<1>5. passed' \in BOOLEAN
  BY DEF LcTypeOK
<1>15. warned' \in BOOLEAN
  BY DEF LcTypeOK
<1>16. broken' \in BOOLEAN
  BY DEF LcTypeOK
<1>17. setupFailed' \in BOOLEAN /\ lost' \in BOOLEAN /\ stuck' \in BOOLEAN
  BY DEF LcTypeOK
<1>6. shm_path' \in {"", "shm", "tmp"} /\ ipc_fd' \in {"none", "open", "closed"}
  BY DEF LcTypeOK, NewProcess
<1>7. shm' \in {"none", "ours", "stale"}
  BY DEF LcTypeOK, FileAfterMap
<1>8. back' \in {"path", "open", "late"}
  BY DEF LcTypeOK
<1>9. pc' \in {"start", "path", "open", "chmod", "mmap", "unlink", "close", "tmpdir",
               "late", "mkdtemp", "strdup", "chown", "chdir", "run", "exit", "rmdir",
               "fdclose", "fileunlink", "unmap", "done", "killed"}
  BY DEF LcTypeOK
<1>10. lc_ret' \subseteq {"TBROK", "TCONF"}
  BY DEF LcTypeOK, TTYPE_RESULT
<1>11. lc_code' \subseteq {"TBROK", "TCONF", "TWARN"}
  BY DEF LcTypeOK, StatusOf
<1>13. conf' \in [devshm : BOOLEAN, needs_tmpdir : BOOLEAN, needs_checkpoints : BOOLEAN]
  BY <1>1, Zenon DEF LcTypeOK
<1>14. run' \in 1 .. MaxRuns /\ faults' \in 0 .. MaxFaults
  <2>1. run \in 1 .. MaxRuns /\ faults \in 0 .. MaxFaults
    BY DEF LcTypeOK
  <2> HIDE DEF LcNext
  <2> QED BY <1>2, <1>3, <2>1, LifecycleAssumption
<1> QED
  BY <1>4, <1>5, <1>6, <1>7, <1>8, <1>9, <1>10, <1>11, <1>12, <1>13, <1>14, <1>15,
     <1>16, <1>17, Zenon DEF LcTypeOK

LEMMA DirAcquiredStep == LcTypeOK /\ DirAcquired /\ [LcNext]_lcvars => DirAcquired'
<1> SUFFICES ASSUME LcTypeOK, DirAcquired, [LcNext]_lcvars PROVE DirAcquired'
  OBVIOUS
<1> USE DEF DirAcquired, InTmpdir, InSetup, needs_tmpdir, NewProcess
<1>1. pc' \in InTmpdir => back' \in {"path", "late"}
  OBVIOUS
<1>2. pc' \in {"mkdtemp", "strdup"} => ~TESTDIR'
  OBVIOUS
<1>3. pc' \in {"chown", "chdir"} => TESTDIR'
  OBVIOUS
<1>4. pc' \in {"strdup", "chown", "chdir"} => dir'
  OBVIOUS
<1>5. TESTDIR' /\ pc' \in InSetup \ InTmpdir => dir' /\ inDir'
  BY ZenonT(60)
<1>6. pc' \in {"late", "run"} /\ needs_tmpdir' => TESTDIR'
  OBVIOUS
<1> QED BY <1>1, <1>2, <1>3, <1>4, <1>5, <1>6

LEMMA IpcAcquiredStep ==
  LcTypeOK /\ DirAcquired /\ IpcAcquired /\ [LcNext]_lcvars => IpcAcquired'
<1> SUFFICES ASSUME LcTypeOK, DirAcquired, IpcAcquired, [LcNext]_lcvars PROVE IpcAcquired'
  OBVIOUS
<1> USE DEF IpcAcquired, AfterIpc, InTmpdir
<1>1. pc' \in {"chmod", "mmap", "unlink"} => shm' = "ours"
  BY DEF DirAcquired
<1>2. pc' \in {"unlink", "close"} \/ AfterIpc' => mapped'
  BY DEF DirAcquired
<1>3. (pc' = "close" \/ AfterIpc') /\ conf'.needs_checkpoints => shm' = "ours"
  BY DEF DirAcquired, FileAfterMap
<1> QED BY <1>1, <1>2, <1>3

LEMMA FailureKeptStep == LcTypeOK /\ DirAcquired /\ FailureKept /\ [LcNext]_lcvars => FailureKept'
<1> SUFFICES ASSUME LcTypeOK, DirAcquired, FailureKept, [LcNext]_lcvars PROVE FailureKept'
  OBVIOUS
<1> USE DEF FailureKept, InSetup, InTmpdir, InCleanup
<1>1. pc' \in InSetup => ~setupFailed'
  BY DEF DirAcquired
<1>2. setupFailed' => lc_ret' # {}
  BY DEF TTYPE_RESULT
<1>3. pc' \in InCleanup => lc_ret' \subseteq lc_code'
  BY DEF StatusOf, DirAcquired
<1> QED BY <1>1, <1>2, <1>3

LEMMA DirReturnedStep ==
  LcTypeOK /\ DirAcquired /\ DirReturned /\ [LcNext]_lcvars => DirReturned'
<1> SUFFICES ASSUME LcTypeOK, DirAcquired, DirReturned, [LcNext]_lcvars PROVE DirReturned'
  OBVIOUS
<1> USE DEF DirReturned, InCleanup, DirAcquired, InTmpdir
<1>1. dir' /\ ~TESTDIR' => pc' \in {"strdup", "killed"} \/ lost'
  OBVIOUS
<1>2. pc' \in InCleanup \ {"rmdir"} => ~dir' \/ stuck' \/ lost'
  OBVIOUS
<1> QED BY <1>1, <1>2

LEMMA IpcReturnedStep ==
  LcTypeOK /\ DirAcquired /\ IpcReturned /\ [LcNext]_lcvars => IpcReturned'
<1> SUFFICES ASSUME LcTypeOK, DirAcquired, IpcReturned, [LcNext]_lcvars PROVE IpcReturned'
  OBVIOUS
<1> USE DEF IpcReturned, DirAcquired, InTmpdir
<1>1. pc' \in {"fileunlink", "unmap", "done"} => ipc_fd' # "open"
  OBVIOUS
<1>2. pc' \in {"unmap", "done"} => shm_path' = "" \/ shm' = "none" \/ stuck'
  BY DEF UnlinksAtExit
<1>3. pc' = "done" => ~mapped'
  OBVIOUS
<1> QED BY <1>1, <1>2, <1>3

HIDE DEF LcNext, lcvars

-----------------------------------------------------------------------------
LEMMA LcInvariant == LcSpec => []LcIInv
<1>1. LcInit => LcIInv
  <2> SUFFICES ASSUME LcInit PROVE LcIInv
    OBVIOUS
  <2> USE DEF LcInit, NewProcess
  <2>1. LcTypeOK
    <3>1. run \in 1 .. MaxRuns /\ faults \in 0 .. MaxFaults
      <4>1. run = 1 /\ faults = 0
        OBVIOUS
      <4> HIDE DEF LcInit
      <4> QED BY <4>1, LifecycleAssumption
    <3>2. TESTDIR \in BOOLEAN /\ inDir \in BOOLEAN /\ mapped \in BOOLEAN
      OBVIOUS
    <3>3. shm_path \in {"", "shm", "tmp"} /\ ipc_fd \in {"none", "open", "closed"}
      OBVIOUS
    <3> QED BY <3>1, <3>2, <3>3, Zenon DEF LcTypeOK
  <2>2. DirAcquired /\ IpcAcquired /\ FailureKept /\ DirReturned /\ IpcReturned
    BY DEF DirAcquired, IpcAcquired, AfterIpc, FailureKept, DirReturned, IpcReturned, InTmpdir,
           InCleanup
  <2> QED BY <2>1, <2>2 DEF LcIInv
<1>2. LcIInv /\ [LcNext]_lcvars => LcIInv'
  BY LcTypeStep, DirAcquiredStep, IpcAcquiredStep, FailureKeptStep, DirReturnedStep,
     IpcReturnedStep DEF LcIInv
<1> QED BY <1>1, <1>2, PTL DEF LcSpec

\* Whatever fails in however many runs: at the end of one there is no directory, no
\* file at the path the library used, no mapping and no open descriptor, unless a
\* removal failed itself or the directory's name was lost.
THEOREM NothingIsLeft == LcSpec => []NothingLeft
<1>1. LcIInv => NothingLeft
  BY DEF LcIInv, NothingLeft, DirReturned, IpcReturned, InCleanup
<1> QED BY <1>1, LcInvariant, PTL

\* Whatever fails: the library's exit status shows it, and tests that start have the
\* results mapped, the directory they asked for and the file they exec with.
THEOREM SetupIsHonest == LcSpec => []SetupHonest
<1>1. LcIInv => SetupFailureReported
  BY DEF LcIInv, LcTypeOK, FailureKept, InCleanup, SetupFailureReported
<1>2. LcIInv => RunHasWhatItNeeds
  BY DEF LcIInv, DirAcquired, IpcAcquired, AfterIpc, InSetup, InTmpdir, RunHasWhatItNeeds
<1>3. LcIInv => SetupHonest
  BY <1>1, <1>2 DEF LcIInv, SetupHonest
<1> QED BY <1>3, LcInvariant, PTL
===============================================================================
