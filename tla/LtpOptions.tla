----------------------------- MODULE LtpOptions -----------------------------
(***************************************************************************)
(* What the command line and the environment ask of an LTP test, and how   *)
(* often testrun() then calls run_tests() (linux-test-project.h).  A text  *)
(* on the command line is what strtol finds in it.  One clock step is one  *)
(* second.                                                                 *)
(***************************************************************************)
EXTENDS Integers, Sequences, FiniteSets, SequencesExt

CONSTANTS
    LoTests,        \* descriptions of tests: see TestDescriptions
    LoTexts,        \* arguments: records [digits, n, rest]
    LoIntMax,       \* INT_MAX
    LoMaxOptions, LoMaxClock, LoMaxRounds     \* bounds

\* fns: the functions given; options: the test's own, in order.
TestDescriptions ==
    [fns : SUBSET {"test", "test_all", "sample"}, tcnt : Nat, max_runtime : BOOLEAN,
     options : Seq([c : STRING, arg : BOOLEAN])]
Texts == [digits : BOOLEAN, n : Int, rest : {"", "newline", "more"}]

ASSUME LoAssumption == LoTests \subseteq TestDescriptions /\ LoTexts \subseteq Texts /\ LoIntMax \in Nat

VARIABLES
    lo_test,        \* struct tst_test
    lo_env,         \* LTP_TIMEOUT_MUL: a text, NoText when it is not set
    lo_mul,         \* timeout_mul, 0 for unset
    lo_iterations, lo_duration,     \* duration is 0 when it is not set
    lo_args,        \* the values of the test's own options, by their place
    lo_line,        \* options parsed so far
    lo_pc,          \* "setup", "options", "timeout", "starting", "running", "ended", "broken", "helped", "aborted"
    lo_stop,        \* stop_time, 0 for none
    lo_i, lo_rounds,    \* testrun's i, calls of run_tests()
    lo_began,       \* when the last of them was
    lo_clock

loParsed == <<lo_iterations, lo_duration, lo_args, lo_line>>
loRun == <<lo_stop, lo_i, lo_rounds, lo_began>>
lovars == <<lo_test, lo_env, lo_mul, loParsed, lo_pc, loRun, lo_clock>>

NoText == [digits |-> FALSE, n |-> 0, rest |-> "unset"]

LoInit ==
    /\ lo_test \in LoTests /\ lo_env \in LoTexts \cup {NoText} /\ lo_mul = 0
    /\ lo_iterations = 1 /\ lo_duration = 0 /\ lo_args = {} /\ lo_line = <<>>
    /\ lo_pc = "setup" /\ lo_clock = 1 /\ lo_stop = 0 /\ lo_i = 0 /\ lo_rounds = 0 /\ lo_began = 0

----------------------------------------------------------------------------
assert_test_fn ==
    /\ Cardinality(lo_test.fns) = 1
    /\ ("test" \in lo_test.fns) <=> (lo_test.tcnt > 0)

\* options[]: the library's own, and which of them take an argument.
OwnOptions == <<[c |-> "h", arg |-> FALSE], [c |-> "i", arg |-> TRUE],
                [c |-> "I", arg |-> TRUE], [c |-> "C", arg |-> TRUE]>>
Letters(options) == {options[k].c : k \in DOMAIN options}
check_option_collision == Letters(OwnOptions) \cap Letters(lo_test.options) = {}

LoSetup ==
    /\ lo_pc = "setup"
    /\ lo_pc' = IF ~assert_test_fn THEN "broken"
                ELSE IF "sample" \in lo_test.fns THEN "aborted"       \* an assertion
                ELSE IF check_option_collision THEN "options" ELSE "broken"
    /\ UNCHANGED <<lo_test, lo_env, lo_mul, loParsed, loRun, lo_clock>>

\* safe_strtol and safe_strtof: a number, alone or before a newline.
SafeNumber(text, min, max) ==
    text.digits /\ text.rest # "more" /\ text.n \in min .. max
\* tst_parse_float takes no newline.
tst_parse_float(text, min, max) == text.digits /\ text.rest = "" /\ text.n \in min .. max

\* parse_mul reads the environment once; without a value the multiplier is 1.
parse_mul(next) ==
    IF lo_mul > 0 THEN lo_pc' = next /\ UNCHANGED lo_mul
    ELSE IF lo_env = NoText THEN lo_pc' = next /\ lo_mul' = 1
    ELSE IF tst_parse_float(lo_env, 1, 10000) THEN lo_pc' = next /\ lo_mul' = lo_env.n
    ELSE lo_pc' = "broken" /\ UNCHANGED lo_mul

\* Its assertion fails for a test with max_runtime; it multiplies a timeout.
print_help(next) ==
    IF lo_test.max_runtime THEN lo_pc' = "aborted" /\ UNCHANGED lo_mul
    ELSE parse_mul(next)

Known(c) == c \in Letters(OwnOptions) \cup Letters(lo_test.options)
TakesArg(c) == [c |-> c, arg |-> TRUE] \in Range(OwnOptions) \cup Range(lo_test.options)

\* A second time there is a warning, which counts nowhere: the shared results
\* are not there yet.
parse_topt(c) == lo_args \cup {c}

\* What getopt returns for one option; "missing": its argument is not there.
LoOption(c, text, missing) ==
    /\ lo_pc = "options" /\ Len(lo_line) < LoMaxOptions
    /\ missing => TakesArg(c)
    /\ lo_line' = Append(lo_line, [c |-> c, text |-> text, missing |-> missing])
    /\ \/ (~Known(c) \/ missing) /\ print_help("broken")
          /\ UNCHANGED <<lo_iterations, lo_duration, lo_args>>
       \/ Known(c) /\ ~missing /\ c = "h" /\ print_help("helped")
          /\ UNCHANGED <<lo_iterations, lo_duration, lo_args>>
       \/ /\ Known(c) /\ ~missing /\ c = "i"
          /\ IF SafeNumber(text, 1, LoIntMax) THEN lo_iterations' = text.n /\ UNCHANGED lo_pc
             ELSE lo_pc' = "broken" /\ UNCHANGED lo_iterations
          /\ UNCHANGED <<lo_mul, lo_duration, lo_args>>
       \/ /\ Known(c) /\ ~missing /\ c = "I"
          /\ IF ~SafeNumber(text, 1, LoIntMax) THEN lo_pc' = "broken" /\ UNCHANGED lo_duration
             ELSE /\ lo_duration' = IF lo_test.max_runtime THEN lo_duration ELSE text.n
                  /\ UNCHANGED lo_pc
          /\ UNCHANGED <<lo_mul, lo_iterations, lo_args>>
       \/ /\ Known(c) /\ ~missing /\ c \notin {"h", "i", "I"}
          /\ lo_args' = IF c = "C" THEN lo_args ELSE parse_topt(c)
          /\ UNCHANGED <<lo_mul, lo_iterations, lo_duration, lo_pc>>
    /\ UNCHANGED <<lo_test, lo_env, loRun, lo_clock>>

\* getopt has moved what is no option to the end.
Leftover == [c |-> "leftover", text |-> NoText, missing |-> FALSE]
Unexpected(leftover) == leftover
LoOptionsEnd(leftover) ==
    /\ lo_pc = "options"
    /\ lo_pc' = IF Unexpected(leftover) THEN "broken" ELSE "timeout"
    /\ lo_line' = IF leftover THEN Append(lo_line, Leftover) ELSE lo_line
    /\ UNCHANGED <<lo_test, lo_env, lo_mul, lo_iterations, lo_duration, lo_args, loRun, lo_clock>>

\* tst_run_tcases: the same assertion, then set_timeout.
LoTimeout ==
    /\ lo_pc = "timeout"
    /\ IF lo_test.max_runtime THEN lo_pc' = "aborted" /\ UNCHANGED lo_mul
       ELSE parse_mul("starting")
    /\ UNCHANGED <<lo_test, lo_env, loParsed, loRun, lo_clock>>

LoStart ==
    /\ lo_pc = "starting" /\ lo_pc' = "running"
    /\ lo_stop' = IF lo_duration > 0 THEN lo_clock + lo_duration ELSE 0
    /\ UNCHANGED <<lo_test, lo_env, lo_mul, loParsed, lo_i, lo_rounds, lo_began, lo_clock>>

----------------------------------------------------------------------------
OneMore(i) == i <= lo_iterations                                   \* mutant
Counted(i) == i < lo_iterations
TimeLeft == lo_stop > 0 /\ lo_clock < lo_stop

LoRound ==
    /\ lo_pc = "running" /\ (Counted(lo_i) \/ TimeLeft) /\ lo_rounds < LoMaxRounds
    /\ lo_i' = IF Counted(lo_i) THEN lo_i + 1 ELSE lo_i
    /\ lo_rounds' = lo_rounds + 1 /\ lo_began' = lo_clock
    /\ UNCHANGED <<lo_test, lo_env, lo_mul, loParsed, lo_pc, lo_stop, lo_clock>>

LoFinish ==
    /\ lo_pc = "running" /\ ~Counted(lo_i) /\ ~TimeLeft /\ lo_pc' = "ended"
    /\ UNCHANGED <<lo_test, lo_env, lo_mul, loParsed, loRun, lo_clock>>

LoTick ==
    /\ lo_pc = "running" /\ lo_clock < LoMaxClock /\ lo_clock' = lo_clock + 1
    /\ UNCHANGED <<lo_test, lo_env, lo_mul, loParsed, lo_pc, loRun>>

LoNext ==
    \/ LoSetup \/ LoTimeout \/ LoStart \/ LoRound \/ LoFinish \/ LoTick
    \/ \E c \in Letters(OwnOptions) \cup Letters(lo_test.options) \cup {"unknown"},
          text \in LoTexts, missing \in BOOLEAN : LoOption(c, text, missing)
    \/ \E leftover \in BOOLEAN : LoOptionsEnd(leftover)

LoSpec == LoInit /\ [][LoNext]_lovars

----------------------------------------------------------------------------
LoLast(c, default) ==
    LET places == {k \in DOMAIN lo_line : lo_line[k].c = c} IN
    IF places = {} THEN default ELSE lo_line[CHOOSE k \in places : \A j \in places : j <= k].text.n

(***************************************************************************)
(* The test runs as often and as long as the last -i and the last -I say,  *)
(* the count first and then only before the time is up                     *)
(* (linux-test-project.h:1540-1547, 3082-3101).                            *)
(***************************************************************************)
LoRunsAsAsked ==
    LET n == LoLast("i", 1) seconds == LoLast("I", 0) IN
    /\ lo_pc = "ended" => lo_rounds >= n /\ (seconds > 0 => lo_clock >= lo_stop)
    /\ lo_pc \in {"running", "ended"} /\ lo_rounds > n => seconds > 0 /\ lo_began < lo_stop

(***************************************************************************)
(* A command line that the test cannot do as it says never runs it: an     *)
(* option that is not known or lacks its argument, a number out of range,  *)
(* -h, arguments left over or a malformed description end the program      *)
(* first (430-451, 1514-1561).                                             *)
(***************************************************************************)
LoNeverMisread ==
    lo_pc = "running" =>
        /\ assert_test_fn /\ "sample" \notin lo_test.fns
        /\ \A k \in DOMAIN lo_line :
             LET o == lo_line[k] IN
             /\ ~o.missing /\ o.c # "h" /\ Known(o.c)
             /\ o.c \in {"i", "I"} => o.text.digits /\ o.text.n >= 1
        /\ lo_env # NoText => lo_env.digits /\ lo_env.rest = ""

(***************************************************************************)
(* What runs is what the command line asked for.                           *)
(***************************************************************************)
LoAsAsked == LoRunsAsAsked /\ LoNeverMisread
=============================================================================
