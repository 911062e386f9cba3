----------------------------- MODULE CygwinTest -----------------------------
(***************************************************************************)
(* The old LTP library as the Cygwin tests use it (cygwin.h): options and  *)
(* their environment variables, the loop of a test, and the reporting of   *)
(* results, which buffers and merges them unless TOUTPUT says VERBOSE.     *)
(*                                                                         *)
(* Test numbers come from Tst_count, which tst_res and the tests both      *)
(* increment and which every round of a test's loop sets back to 0.  No    *)
(* test names a file to append (File stays NULL) and none changes          *)
(* Tst_range, so what handles them is left out; of the special hooks only  *)
(* the ones that abort are there.  Each of the copies that -c asks for is  *)
(* a program of its own.  Times are not compared: whether a duration is    *)
(* over is left open.                                                      *)
(***************************************************************************)
EXTENDS Integers, Sequences, FiniteSets

CONSTANTS
    CyOptions,      \* command lines: sequences of <<letter, value>>
    CyEnvs,         \* environments: functions from names of variables to values
    CyModes,        \* values of TOUTPUT
    CyTotals,       \* TST_TOTAL
    CyMaxLoops,     \* bound on iterations where none is asked for
    CyMaxResults    \* bound on the cases of a round

\* USC_ITERATIONS is <<>> unless it is set to a number; a negative duration is as good as none.
CyEnvironments ==
    {env \in [USC_ITERATIONS : Seq(Int), USC_LOOP_WALLTIME : Int, USC_DURATION : Int,
              USC_TP_SBRK : Int] : Len(env.USC_ITERATIONS) <= 1}

ASSUME CyAssumption ==
    /\ CyOptions \subseteq Seq(STRING \X Int) /\ CyEnvs \subseteq CyEnvironments
    /\ CyModes \subseteq {"VERBOSE", "CONDENSE", "NOPASS", "DISCARD"} /\ CyTotals \subseteq Int

VARIABLES
    cy_pc,          \* "options", "setup", "paused", "prepare" (the rest of setup()), "loop",
                    \* "body", "cleanup", "broken" (cleanup() after an error) or "ended"
    cy_args,        \* options still to parse
    cy_env,
    cy_total,       \* TST_TOTAL
    cy_mode,        \* TOUTPUT, read by check_env
    cy_given,       \* the options bits of parse_opts
    cy_std,         \* STD_LOOP_COUNT, STD_LOOP_DURATION, STD_INFINITE, STD_PAUSE, STD_TP_sbrk,
                    \* STD_ERRNO_LOG
    cy_lc,          \* the test's loop counter
    cy_res,         \* T_exitval, Tst_count, Last_* and the lines printed
    cy_ending,      \* "none", "exit" or "abort"
    cy_exit,        \* the result types in the exit status
    \* seen only by the properties
    cy_calls,       \* results that the program reported: <<number, type, message>>
    cy_again        \* a second round of the loop began

cyvars == <<cy_pc, cy_args, cy_env, cy_total, cy_mode, cy_given, cy_std, cy_lc, cy_res,
            cy_ending, cy_exit, cy_calls, cy_again>>
cyOut == <<cy_res, cy_calls, cy_again>>

None == [num |-> 0, type |-> "none", message |-> "none"]

CyInit ==
    /\ cy_pc = "options" /\ cy_args \in CyOptions /\ cy_env \in CyEnvs
    /\ cy_total \in CyTotals /\ cy_mode \in CyModes /\ cy_given = {}
    /\ cy_std = [count |-> 1, duration |-> 0, infinite |-> FALSE, pause |-> FALSE,
                 sbrk |-> FALSE, errlog |-> FALSE]
    /\ cy_lc = 0
    /\ cy_res = [exitval |-> {}, count |-> 0, last |-> None, printed |-> <<>>]
    /\ cy_ending = "none" /\ cy_exit = {} /\ cy_calls = {} /\ cy_again = FALSE

----------------------------------------------------------------------------
\* Results.  res is [exitval, count, last, printed].
Failures == {"FAIL", "BROK", "WARN"}

\* A line; a range that is not above 1 is not printed.
Line(num, range, type, message) ==
    [from |-> num, to |-> IF range > 1 THEN num + range - 1 ELSE num,
     type |-> type, message |-> message]

tst_print(res, num, range, type, message) ==
    [res EXCEPT !.exitval = @ \cup {type},
                !.printed = IF cy_mode = "DISCARD" \/ (cy_mode = "NOPASS" /\ type \notin Failures)
                            THEN @ ELSE Append(@, Line(num, range, type, message))]

\* A result like the buffered one is merged with it; another has it printed.
tst_condense(res, num, type, message) ==
    IF res.last # None /\ res.last.type = type /\ res.last.message = message THEN res
    ELSE [(IF res.last = None THEN res
           ELSE tst_print(res, res.last.num, num - res.last.num, res.last.type,
                          res.last.message))
          EXCEPT !.last = [num |-> num, type |-> type, message |-> message]]

tst_res(res, range, type, message) ==
    LET first == [res EXCEPT !.exitval = @ \cup {type}]
        counted(r) == [r EXCEPT !.count = @ + range]
        lines(r) == [r EXCEPT !.printed =                                     \* VERBOSE
                       @ \o [i \in 1..range |-> Line(res.count + i, 1, type, message)]]
    IN CASE type \in {"WARN", "INFO"} -> tst_print(first, 0, 1, type, message)
         [] type \notin {"WARN", "INFO"} /\ cy_mode = "DISCARD" -> counted(first)
         [] type \notin {"WARN", "INFO"} /\ cy_mode \in {"CONDENSE", "NOPASS"} ->
              counted(tst_condense(first, res.count + 1, type, message))
         [] OTHER -> counted(IF type = "PASS" THEN first ELSE lines(first))

\* tst_brk: the result, and one for all that remain; nothing if none remains.
Remaining(type) == IF type \in {"CONF", "RETR"} THEN type ELSE "BROK"
tst_brk(res, type, message) ==
    LET first == IF res.count < cy_total THEN tst_res(res, 1, type, message) ELSE res
        range == cy_total - first.count
    IN IF range > 0 THEN tst_res(first, range, Remaining(type), "remaining") ELSE first
BrkCalls(type, message) ==
    IF cy_res.count >= cy_total THEN {}
    ELSE {<<cy_res.count + 1, type, message>>}
           \cup {<<i, Remaining(type), "remaining">> : i \in cy_res.count + 2 .. cy_total}

\* tst_exit.
NeverBuffered(res) == FALSE     \* mutant
Buffered(res) == res.last # None
tst_flush(res) ==
    IF Buffered(res)
    THEN tst_print(res, res.last.num, res.count - res.last.num + 1, res.last.type,
                   res.last.message)
    ELSE res
tst_exit(res) ==
    /\ cy_pc' = "ended" /\ cy_ending' = "exit" /\ cy_res' = tst_flush(res)
    /\ cy_exit' = tst_flush(res).exitval \cap Failures

Brk(type, message) ==
    /\ cy_calls' = cy_calls \cup BrkCalls(type, message)
    /\ cy_res' = tst_brk(cy_res, type, message)

----------------------------------------------------------------------------
\* parse_opts.
CyOption ==
    /\ cy_pc = "options" /\ cy_args # <<>> /\ cy_args' = Tail(cy_args)
    /\ LET letter == Head(cy_args)[1] value == Head(cy_args)[2] IN
       /\ \/ letter = "i" /\ cy_given' = cy_given \cup {"iteration"}
               /\ cy_std' = [cy_std EXCEPT !.count = value, !.infinite = @ \/ value = 0]
          \/ letter = "I" /\ cy_given' = cy_given \cup {"duration"}
               /\ cy_std' = [cy_std EXCEPT !.duration = value, !.infinite = @ \/ value = 0]
          \/ letter = "p" /\ cy_std' = [cy_std EXCEPT !.pause = TRUE] /\ UNCHANGED cy_given
          \/ letter = "e" /\ cy_std' = [cy_std EXCEPT !.errlog = TRUE] /\ UNCHANGED cy_given
          \/ letter = "t" /\ UNCHANGED <<cy_given, cy_std>>     \* and c, f, P
       /\ UNCHANGED <<cy_pc, cyOut, cy_ending, cy_exit>>
    /\ UNCHANGED <<cy_env, cy_total, cy_mode, cy_lc>>

CyHelp ==
    /\ cy_pc = "options" /\ cy_args # <<>> /\ Head(cy_args)[1] = "h"
    /\ cy_pc' = "ended" /\ cy_ending' = "exit" /\ cy_exit' = {}
    /\ UNCHANGED <<cy_args, cy_env, cy_total, cy_mode, cy_given, cy_std, cy_lc, cyOut>>

\* An option error: main calls tst_brkm(TBROK, ...) and then tst_exit, or cleanup.
CyBadOption ==
    /\ cy_pc = "options" /\ cy_args # <<>> /\ Head(cy_args)[1] = "?"
    /\ cy_pc' = "broken" /\ Brk("BROK", "options")
    /\ UNCHANGED <<cy_args, cy_env, cy_total, cy_mode, cy_given, cy_std, cy_lc, cy_again,
                   cy_ending, cy_exit>>

\* The environment, where there was no option.
EnvInfinite ==
    \/ "iteration" \notin cy_given /\ cy_env.USC_ITERATIONS = <<0>>
    \/ "duration" \notin cy_given /\ (cy_env.USC_LOOP_WALLTIME = 0 \/ cy_env.USC_DURATION = 0)
CyEnvironment ==
    /\ cy_pc = "options" /\ cy_args = <<>> /\ cy_pc' = "setup"
    /\ cy_std' =
         [count |-> IF "iteration" \in cy_given \/ cy_env.USC_ITERATIONS \in {<<>>, <<0>>}
                    THEN cy_std.count ELSE cy_env.USC_ITERATIONS[1],
          duration |-> IF "duration" \in cy_given THEN cy_std.duration
                       ELSE IF cy_env.USC_DURATION >= 0 THEN cy_env.USC_DURATION
                       ELSE IF cy_env.USC_LOOP_WALLTIME >= 0 THEN cy_env.USC_LOOP_WALLTIME
                       ELSE cy_std.duration,
          infinite |-> cy_std.infinite \/ EnvInfinite,
          pause |-> cy_std.pause, sbrk |-> cy_env.USC_TP_SBRK > 0, errlog |-> cy_std.errlog]
    /\ UNCHANGED <<cy_args, cy_env, cy_total, cy_mode, cy_given, cy_lc, cyOut, cy_ending, cy_exit>>

----------------------------------------------------------------------------
\* A test: setup(), which calls usc_global_setup_hook and then makes files, the loop, cleanup().
CySetup ==
    /\ \/ cy_pc = "setup" /\ cy_std.pause /\ cy_pc' = "paused" /\ UNCHANGED cy_ending
       \/ /\ cy_pc = "paused" \/ (cy_pc = "setup" /\ ~cy_std.pause)     \* SIGUSR1 came, or no pause
          /\ IF cy_std.sbrk THEN cy_pc' = "ended" /\ cy_ending' = "abort"
             ELSE cy_pc' = "prepare" /\ UNCHANGED cy_ending
    /\ UNCHANGED <<cy_args, cy_env, cy_total, cy_mode, cy_given, cy_std, cy_lc, cyOut, cy_exit>>

CyPrepared ==
    /\ cy_pc = "prepare" /\ cy_pc' = "loop"
    /\ UNCHANGED <<cy_args, cy_env, cy_total, cy_mode, cy_given, cy_std, cy_lc, cyOut, cy_ending,
                   cy_exit>>

\* An assertion on the temporary directory or on a file in it fails.
CyAborts ==
    /\ cy_pc \in {"setup", "prepare", "cleanup", "broken"}
    /\ cy_pc' = "ended" /\ cy_ending' = "abort"
    /\ UNCHANGED <<cy_args, cy_env, cy_total, cy_mode, cy_given, cy_std, cy_lc, cyOut, cy_exit>>

\* usc_test_looping: until all that was asked for is done.
usc_test_looping(inTime) ==
    \/ cy_std.infinite
    \/ cy_std.count # 0 /\ cy_lc < cy_std.count
    \/ cy_std.duration # 0 /\ inTime
CyLoop ==
    /\ cy_pc = "loop"
    /\ \E inTime \in BOOLEAN :
        /\ inTime => cy_lc < CyMaxLoops
        /\ cy_std.infinite => cy_lc < CyMaxLoops
        /\ IF usc_test_looping(inTime)
           THEN /\ cy_pc' = "body" /\ cy_again' = (cy_lc > 0)
                /\ cy_res' = [cy_res EXCEPT !.count = 0]
           ELSE cy_pc' = "cleanup" /\ UNCHANGED <<cy_again, cy_res>>
    /\ UNCHANGED <<cy_args, cy_env, cy_total, cy_mode, cy_given, cy_std, cy_lc, cy_calls, cy_ending,
                   cy_exit>>

\* tst_resm: setup() warns that it cannot close its file, a body reports, and cleanup() tells
\* how often each errno came.  A round has TST_TOTAL cases at most; a remark is made once.
CyMoreCases == cy_res.count < cy_total /\ cy_res.count < CyMaxResults
Remarks == {"WARN", "INFO"}
tst_resm(type, message) ==
    /\ \/ cy_pc = "prepare" /\ type = "WARN"
       \/ cy_pc = "body" /\ type \in {"PASS", "FAIL", "INFO"}
       \/ cy_pc = "cleanup" /\ type = "INFO" /\ cy_std.errlog /\ cy_lc > 0
    /\ cy_res' = tst_res(cy_res, 1, type, message)
    /\ LET call == <<IF type \in Remarks THEN 0 ELSE cy_res.count + 1, type, message>> IN
       /\ IF type \in Remarks THEN call \notin cy_calls ELSE CyMoreCases
       /\ cy_calls' = cy_calls \cup {call}
    /\ UNCHANGED <<cy_pc, cy_args, cy_env, cy_total, cy_mode, cy_given, cy_std, cy_lc, cy_again,
                   cy_ending, cy_exit>>

\* Without functional testing (-f) a case may be counted and not reported.
CyCounts ==
    /\ cy_pc = "body" /\ CyMoreCases
    /\ cy_res' = [cy_res EXCEPT !.count = @ + 1]
    /\ UNCHANGED <<cy_pc, cy_args, cy_env, cy_total, cy_mode, cy_given, cy_std, cy_lc, cy_calls,
                   cy_again, cy_ending, cy_exit>>

\* The end of a round; some tests count it.
CyIterated ==
    /\ cy_pc = "body" /\ cy_pc' = "loop" /\ cy_lc' = cy_lc + 1
    /\ \E more \in {0, 1} : cy_res' = [cy_res EXCEPT !.count = @ + more]
    /\ UNCHANGED <<cy_args, cy_env, cy_total, cy_mode, cy_given, cy_std, cy_calls, cy_again,
                   cy_ending, cy_exit>>

\* tst_brkm: setup() fails, and goes to cleanup(), or a call in cleanup() does, which goes on.
CyBreaks ==
    /\ \/ cy_pc = "prepare" /\ cy_pc' = "broken" /\ Brk("BROK", "m")
       \/ cy_pc \in {"cleanup", "broken"} /\ cy_pc' = cy_pc /\ Brk("FAIL", "m")
    /\ UNCHANGED <<cy_args, cy_env, cy_total, cy_mode, cy_given, cy_std, cy_lc, cy_again, cy_ending,
                   cy_exit>>

CyCleanup ==
    /\ cy_pc \in {"cleanup", "broken"} /\ tst_exit(cy_res)
    /\ UNCHANGED <<cy_args, cy_env, cy_total, cy_mode, cy_given, cy_std, cy_lc, cy_calls, cy_again>>

CyNext == \/ CyOption \/ CyHelp \/ CyBadOption \/ CyEnvironment \/ CySetup \/ CyPrepared \/ CyAborts
          \/ CyLoop \/ CyCounts \/ CyIterated \/ CyBreaks \/ CyCleanup
          \/ \E type \in {"PASS", "FAIL"}, message \in {"m", "n"} : tst_resm(type, message)
          \/ \E type \in Remarks : tst_resm(type, "m")

CySpec == CyInit /\ [][CyNext]_cyvars

----------------------------------------------------------------------------
(***************************************************************************)
(* What is reported reaches its reader, merged or not.  At any moment each *)
(* result that the mode shows has a line with its type and text or waits   *)
(* in the buffer, and each line begins with the number of a result of its  *)
(* type and text.  When the program exits nothing waits, the exit status   *)
(* tells the types of failure, and unless a second round used the numbers  *)
(* again, each result is in the range of a line of its type and in none of *)
(* another type.  (A tst_brk with all numbers used up reports nothing.)    *)
(***************************************************************************)
Shown(type) == CASE cy_mode = "DISCARD" -> FALSE
                 [] cy_mode = "NOPASS" -> type \in Failures
                 [] cy_mode = "VERBOSE" -> type # "PASS"
                 [] OTHER -> TRUE
Covers(line, num) == line.from <= num /\ num <= line.to
Matches(line, call) == line.type = call[2] /\ line.message = call[3]

CyTold ==
    /\ \A call \in cy_calls : Shown(call[2]) =>
          \/ \E k \in DOMAIN cy_res.printed : Matches(cy_res.printed[k], call)
          \/ cy_ending # "exit" /\ cy_res.last # None /\ Matches(cy_res.last, call)
    /\ \A k \in DOMAIN cy_res.printed :
          LET line == cy_res.printed[k] IN <<line.from, line.type, line.message>> \in cy_calls

CyNumbered ==
    /\ \A call \in cy_calls : Shown(call[2]) =>
          \E k \in DOMAIN cy_res.printed :
              cy_res.printed[k].type = call[2] /\ Covers(cy_res.printed[k], call[1])
    /\ \A call \in cy_calls, k \in DOMAIN cy_res.printed :
          call[1] > 0 /\ Covers(cy_res.printed[k], call[1]) => cy_res.printed[k].type = call[2]

CyReported ==
    /\ CyTold
    /\ cy_ending = "exit" =>
         /\ ~cy_again => CyNumbered
         /\ cy_exit = {call[2] : call \in cy_calls} \cap Failures

(***************************************************************************)
(* A test that is not broken off runs as often as it was asked to: by -i   *)
(* or else USC_ITERATIONS, exactly so often unless it also was given a     *)
(* duration, and not at all for a negative number; a program asked for     *)
(* neither 0 iterations nor a duration of 0 does not loop for ever.        *)
(***************************************************************************)
CyLoopsAsAsked ==
    cy_pc = "cleanup" =>
        /\ cy_lc >= cy_std.count /\ ~cy_std.infinite
        /\ cy_std.duration = 0 => cy_lc = IF cy_std.count < 0 THEN 0 ELSE cy_std.count
        /\ "iteration" \notin cy_given =>
             cy_env.USC_ITERATIONS \in {<<>>, <<cy_std.count>>}
        /\ "duration" \notin cy_given =>
             cy_env.USC_LOOP_WALLTIME # 0 /\ cy_env.USC_DURATION # 0

\* The program does what its command line and environment ask, and tells of all of it
\* (usc_test_looping, tst_res).
CyAsAsked == CyReported /\ CyLoopsAsAsked
=============================================================================
