----------------------------- MODULE AtfProgram -----------------------------
(***************************************************************************)
(* A test program of ATF (atf.h): atf_tp_main and everything it calls.     *)
(* The program reads its options into params, finds its source directory,  *)
(* hands the configuration through three maps (params, test program, test  *)
(* case), registers the cases, and then - unlike ATF itself - runs them    *)
(* all in one process, each in a temporary directory of its own.           *)
(*                                                                         *)
(* Allocations can fail (up to MaxFaults of them).  mem holds the blocks   *)
(* that are allocated, by name, and what was freed without being so.       *)
(* An error object is "on flight" from its creation to its release; ATF    *)
(* asserts that there is one at most.                                      *)
(*                                                                         *)
(* No function of the header sets an expectation (expect stays             *)
(* EXPECT_PASS), so that half of the checks on it cannot be reached and    *)
(* is left out.                                                            *)
(***************************************************************************)
EXTENDS AtfMap, AtfPath, Naturals, FiniteSets

CONSTANTS
    Cases,          \* the registered test cases, in order
    HasCleanup,     \* those declared ATF_TC_WITH_CLEANUP
    Heads,          \* what the heads may set: sequences of <<variable, value>>
    CommandLines,   \* sets of [argv0, cwd, options, args]
    MaxFaults,      \* bound on failing allocations
    MaxChecks       \* bound on failing checks in a body

ASSUME AtfAssumption ==
    /\ MaxFaults \in Nat /\ MaxChecks \in Nat \ {0}
    /\ \A i, j \in DOMAIN Cases : Cases[i] = Cases[j] => i = j
    /\ HasCleanup \subseteq Range(Cases)
    /\ Cases \in Seq(STRING)
    \* "none" stands for no name
    /\ \A l \in CommandLines : Len(l.options) \in Nat /\ (l.args # <<>> => l.args[1].ident # "none")
    \* argv[0] names a file, by a string: a slash between any two names, and none at its end;
    \* a directory may be any string, also an empty one
    /\ \A l \in CommandLines :
         /\ l.argv0 \in Seq(STRING) \ {<<>>} /\ l.argv0[Len(l.argv0)] # Slash
         /\ \A i \in 1 .. Len(l.argv0) - 1 : Slash \in {l.argv0[i], l.argv0[i + 1]}
         /\ l.cwd \in Seq(STRING) \ {<<>>}
         /\ DOMAIN l.options = 1 .. Len(l.options)
         /\ \A i \in DOMAIN l.options : l.options[i][1] = "s" => l.options[i][2] \in Seq(STRING)

VARIABLES
    pc,             \* where atf_tp_main is
    line,           \* the command line and the working directory
    optind,         \* getopt's position: options already handled
    params,         \* struct params, without its map
    pconfig,        \* params.m_config
    tconfig,        \* the test program's m_config
    tcs,            \* the registered cases: sequence of [ident, config, vars]
    at,             \* the case that runs
    fail_count,     \* Current.fail_count
    tmpdir,         \* the case's temporary directory: none, empty or with files
    exitcode,
    err,            \* the error that is being handed up, "none" if none
    on_flight,      \* error_on_flight
    mem,            \* [live, bad]: allocated blocks, blocks freed wrongly
    faults,         \* failed allocations so far
    ending,         \* how the process ended: "none", "exit", "abort", "signal"
    \* seen only by the properties
    results,        \* the results written
    failed,         \* cases in which a check or a requirement failed
    ran,            \* cases whose body returned
    head_error,     \* a head lost an error of atf_tc_set_md_var
    clash           \* an error was raised while another was on flight

vars == <<pc, line, optind, params, pconfig, tconfig, tcs, at, fail_count, tmpdir, exitcode, err,
          on_flight, mem, faults, ending, results, failed, ran, head_error, clash>>
observed == <<results, failed, ran, head_error, clash>>

----------------------------------------------------------------------------
\* Memory.
Lost == <<"lost">>      \* a block that nothing points to any more
Malloc(m, blocks) == [m EXCEPT !.live = @ \cup blocks]
Free(m, blocks) == [live |-> m.live \ blocks, bad |-> m.bad \cup (blocks \ m.live)]
Fault == faults < MaxFaults /\ faults' = faults + 1

\* struct params.
Path(param, value) == <<param, value>>
ParamsMap == <<"params", "">>
TcName(p) == IF p.tcname = "none" THEN {} ELSE {<<"tcname">>}
ParamsBlocks == {Path("srcdir", params.srcdir), Path("resfile", params.resfile)}
                  \cup MapBlocks(ParamsMap, pconfig) \cup TcName(params)

TpMap == <<"tp", "">>
TcMap(c, map) == <<map, c>>
Pimpl(c) == <<"tc", c>>
TpBlocks == {<<"tp">>, <<"tcs">>} \cup {<<"tcs", tcs[i].ident>> : i \in DOMAIN tcs}
              \cup MapBlocks(TpMap, tconfig)

\* atf_tc_fini frees the variables and the case, and not its configuration.
TcFini(t) == {Pimpl(t.ident)} \cup MapBlocks(TcMap(t.ident, "vars"), t.vars)
KeptConfig(t) == MapBlocks(TcMap(t.ident, "config"), t.config)

----------------------------------------------------------------------------
Init ==
    /\ pc = "params" /\ line \in CommandLines /\ optind = 0
    /\ params = [list |-> FALSE, srcdir |-> argv0_to_dir(line.argv0),
                 resfile |-> <<"/", "dev", "/", "stdout">>, tcname |-> "none", part |-> "body"]
    /\ pconfig = <<>> /\ tconfig = <<>> /\ tcs = <<>>
    /\ at = 0 /\ fail_count = 0 /\ tmpdir = "none"
    /\ exitcode = 1
    /\ err = "none" /\ on_flight = FALSE
    /\ mem = [live |-> {}, bad |-> {}]
    /\ faults = 0 /\ ending = "none"
    /\ results = <<>> /\ failed = {} /\ ran = {} /\ head_error = FALSE /\ clash = FALSE

EndsBy(how) == pc' = "ended" /\ ending' = how

\* atf_error_new and atf_no_memory_error: PRE(!error_on_flight).
Raise(kind, next) ==
    IF on_flight
    THEN /\ EndsBy("abort") /\ clash' = TRUE
         /\ UNCHANGED <<err, on_flight>>
    ELSE /\ err' = kind /\ on_flight' = TRUE /\ pc' = next
         /\ UNCHANGED <<ending, clash>>

NoError(next) == pc' = next /\ UNCHANGED <<err, on_flight, ending, clash>>

----------------------------------------------------------------------------
\* process_params: params_init, then the options, then the arguments.
ParamsInit ==
    /\ pc = "params"
    /\ \/ /\ mem' = Malloc(mem, ParamsBlocks)
          /\ NoError("options") /\ UNCHANGED faults
       \/ /\ Fault /\ \E lost \in SUBSET {Lost} : mem' = Malloc(mem, lost)
          /\ Raise("no_memory", "out")
    /\ UNCHANGED <<line, optind, params, pconfig, tconfig, tcs, at, fail_count, tmpdir, exitcode,
                   results, failed, ran, head_error>>

\* replace_path_param: the old path is freed only when the new one is there.
ReplacePath(param, value) ==
    \/ /\ value # <<>>
       /\ params' = [params EXCEPT ![param] = normalize(value)]
       /\ mem' = Malloc(Free(mem, {Path(param, params[param])}), {Path(param, normalize(value))})
       /\ NoError("options") /\ UNCHANGED faults
    \/ /\ value = <<>> /\ EndsBy("abort")                  \* PRE(strlen(p) > 0)
       /\ UNCHANGED <<params, mem, err, on_flight, clash, faults>>
    \/ /\ Fault /\ Raise("no_memory", "params_fini")
       /\ \E lost \in SUBSET {Lost} : mem' = Malloc(mem, lost)
       /\ UNCHANGED params

\* parse_vflag: the value stays in argv.
InsertOption(key, value) ==
    \/ /\ pconfig' = atf_map_insert(pconfig, key, value, FALSE)
       /\ mem' = Malloc(Free(mem, Displaced(ParamsMap, pconfig, key)),
                        Inserted(ParamsMap, pconfig, key, value, FALSE))
       /\ NoError("options") /\ UNCHANGED faults
    \/ /\ Fault /\ atf_map_find(pconfig, key) = {}
       /\ Raise("no_memory", "params_fini")
       /\ \E lost \in SUBSET {Lost} : mem' = Malloc(mem, lost)
       /\ UNCHANGED pconfig

Option ==
    /\ pc = "options" /\ optind < Len(line.options)
    /\ optind' = optind + 1
    /\ LET o == line.options[optind'] IN
        CASE o[1] = "l" -> /\ params' = [params EXCEPT !.list = TRUE]
                           /\ NoError("options") /\ UNCHANGED <<pconfig, mem, faults>>
          [] o[1] = "r" -> ReplacePath("resfile", o[2]) /\ UNCHANGED pconfig
          [] o[1] = "s" -> ReplacePath("srcdir", o[2]) /\ UNCHANGED pconfig
          [] o[1] = "v" -> InsertOption(o[2], o[3]) /\ UNCHANGED params
          \* -v without "=", an option without its argument, an unknown one
          [] OTHER -> Raise("usage", "params_fini") /\ UNCHANGED <<params, pconfig, mem, faults>>
    /\ UNCHANGED <<line, tconfig, tcs, at, fail_count, tmpdir, exitcode, results, failed, ran,
                   head_error>>

\* A name is copied before its part is looked at.
handle_tcarg(name) ==
    \/ /\ params' = [params EXCEPT !.tcname = name.ident,
                         !.part = IF name.part = "cleanup" THEN "cleanup" ELSE @]
       /\ mem' = Malloc(mem, {<<"tcname">>})
       /\ IF name.part \in {"none", "body", "cleanup"}
          THEN NoError("srcdir") ELSE Raise("usage", "params_fini")
       /\ UNCHANGED faults
    \/ Fault /\ Raise("no_memory", "params_fini") /\ UNCHANGED <<params, mem>>

Arguments ==
    /\ pc = "options" /\ optind = Len(line.options)
    /\ \/ /\ line.args = <<>>
          /\ NoError("srcdir") /\ UNCHANGED <<params, mem, faults>>
       \/ /\ Len(line.args) = 1 /\ ~params.list
          /\ handle_tcarg(line.args[1])
       \/ /\ Len(line.args) > (IF params.list THEN 0 ELSE 1)
          /\ Raise("usage", "params_fini") /\ UNCHANGED <<params, mem, faults>>
    /\ UNCHANGED <<line, optind, pconfig, tconfig, tcs, at, fail_count, tmpdir, exitcode, results,
                   failed, ran, head_error>>

(***************************************************************************)
(* handle_srcdir: makes the directory absolute, drops a ".libs", looks for *)
(* the program in it, and puts it into the configuration.  All its paths   *)
(* are released at the end, but not the copy of the directory when the     *)
(* ".libs" could not be dropped.                                           *)
(***************************************************************************)

\* atf_fs_exists releases the error of lstat's ENOENT before user_error makes another.
NotFound == Raise("user", "params_fini")

Absolute(p) == IF is_absolute(p) THEN p ELSE to_absolute(p, line.cwd)
Found == srcdir_strip_libtool(Absolute(params.srcdir))

Srcdir ==
    /\ pc = "srcdir"
    /\ \/ \E value \in {Found, NULL} :   \* strdup is not checked
            /\ IF value = NULL THEN Fault ELSE UNCHANGED faults
            /\ pconfig' = atf_map_insert(pconfig, "srcdir", value, TRUE)
            /\ mem' = Malloc(Free(mem, Displaced(ParamsMap, pconfig, "srcdir")),
                             Inserted(ParamsMap, pconfig, "srcdir", value, TRUE))
            /\ NoError("tp_init")
       \/ /\ Fault /\ \E lost \in SUBSET {Lost} : mem' = Malloc(mem, lost)
          /\ Raise("no_memory", "params_fini") /\ UNCHANGED pconfig
       \/ NotFound /\ UNCHANGED <<pconfig, mem, faults>>
       \* lstat or getcwd fail
       \/ Raise("libc", "params_fini") /\ UNCHANGED <<pconfig, mem, faults>>
    /\ UNCHANGED <<line, optind, params, tconfig, tcs, at, fail_count, tmpdir, exitcode, results, failed,
                   ran, head_error>>

----------------------------------------------------------------------------
\* atf_map_to_charpp of the options' map and atf_tp_init.
TpInit ==
    /\ pc = "tp_init"
    /\ \/ /\ CopyCrashes(pconfig) /\ EndsBy("signal")
          /\ UNCHANGED <<tconfig, mem, err, on_flight, clash, faults>>
       \/ /\ ~CopyCrashes(pconfig)
          /\ \/ /\ tconfig' = atf_map_init_charpp(atf_map_to_charpp(pconfig))
                /\ mem' = Malloc(mem, {<<"tp">>, <<"tcs">>} \cup MapBlocks(TpMap, tconfig'))
                /\ NoError("add_tcs") /\ UNCHANGED faults
             \/ \E i \in DOMAIN pconfig :                  \* a value's strdup fails
                  /\ Fault
                  /\ tconfig' = [atf_map_init_charpp(atf_map_to_charpp(pconfig))
                                   EXCEPT ![i].value = NULL]
                  /\ mem' = Malloc(mem, {<<"tp">>, <<"tcs">>} \cup MapBlocks(TpMap, tconfig'))
                  /\ NoError("add_tcs")
             \/ /\ Fault /\ Raise("no_memory", "params_fini")
                /\ \E lost \in SUBSET {Lost} : mem' = Malloc(mem, lost)
                /\ UNCHANGED tconfig
    /\ UNCHANGED <<line, optind, params, pconfig, tcs, at, fail_count, tmpdir, exitcode, results, failed,
                   ran, head_error>>

(***************************************************************************)
(* atf_tc_init: its configuration, its variables ident and has.cleanup,    *)
(* then what its head sets.                                                *)
(***************************************************************************)
SetVars(c, pairs) ==
    FoldLeft(LAMBDA m, pair : atf_map_insert(m, pair[1], pair[2], TRUE),
             atf_map_insert(<<>>, "ident", <<c>>, TRUE), pairs)

HeadPairs(c, head) == (IF c \in HasCleanup THEN <<<<"has.cleanup", <<"true">>>>>> ELSE <<>>) \o head
NewCase(c, pairs) == [ident |-> c, vars |-> SetVars(c, pairs),
                      config |-> atf_map_init_charpp(atf_map_to_charpp(tconfig))]
IdentKept(t) == \A i \in atf_map_find(t.vars, "ident") : t.vars[i].value = <<t.ident>>

atf_tp_add_tc(t) ==
    /\ tcs' = Append(tcs, t)
    /\ mem' = Malloc(mem, {<<"tcs", t.ident>>} \cup TcFini(t) \cup KeptConfig(t))

\* ATF_TP_ADD_TC for the next case: atf_tp_get_config, atf_tc_init_pack, atf_tp_add_tc.
AddTc ==
    /\ pc = "add_tcs" /\ Len(tcs) < Len(Cases)
    /\ LET c == Cases[Len(tcs) + 1] IN
        \/ /\ CopyCrashes(tconfig) /\ EndsBy("signal")
           /\ UNCHANGED <<tcs, mem, err, on_flight, clash, faults, head_error>>
        \/ \E head \in Heads :
             LET t == NewCase(c, HeadPairs(c, head)) IN
             /\ ~CopyCrashes(tconfig)
             /\ IF IdentKept(t) THEN NoError("add_tcs") /\ atf_tp_add_tc(t)
                ELSE /\ EndsBy("abort")                     \* report_fatal_error
                     /\ UNCHANGED <<tcs, mem, err, on_flight, clash>>
             /\ UNCHANGED <<faults, head_error>>
        \* atf_tc_set_md_var fails in the head, which does not look at its result
        \/ \E head \in Heads : \E i \in DOMAIN head :
             LET t == NewCase(c, HeadPairs(c, RemoveAt(head, i))) IN
             /\ ~CopyCrashes(tconfig) /\ IdentKept(t) /\ Fault
             /\ IF on_flight THEN EndsBy("abort") /\ clash' = TRUE /\ UNCHANGED <<on_flight, tcs, mem>>
                ELSE /\ on_flight' = TRUE /\ pc' = "add_tcs" /\ atf_tp_add_tc(t)
                     /\ UNCHANGED <<ending, clash>>
             /\ head_error' = TRUE /\ UNCHANGED err
        \* the strdup of a configuration value fails, which nobody notices
        \/ \E head \in Heads, i \in DOMAIN tconfig :
             LET t == [NewCase(c, HeadPairs(c, head)) EXCEPT !.config[i].value = NULL] IN
             /\ ~CopyCrashes(tconfig) /\ IdentKept(t) /\ Fault
             /\ atf_tp_add_tc(t) /\ NoError("add_tcs") /\ UNCHANGED head_error
        \* anything before that fails: the maps are released, the case is lost
        \/ /\ ~CopyCrashes(tconfig) /\ Fault /\ Raise("no_memory", "tp_fini")
           /\ \E lost \in SUBSET {Lost} : mem' = Malloc(mem, lost)
           /\ UNCHANGED <<tcs, head_error>>
        \* atf_tp_add_tc fails: its POST does not hold
        \/ /\ ~CopyCrashes(tconfig) /\ Fault /\ EndsBy("abort")
           /\ UNCHANGED <<tcs, mem, err, on_flight, clash, head_error>>
    /\ UNCHANGED <<line, optind, params, pconfig, tconfig, at, fail_count, tmpdir, exitcode, results, failed, ran>>

----------------------------------------------------------------------------
\* list_tcs: out of memory is an INV.
List ==
    /\ pc = "add_tcs" /\ Len(tcs) = Len(Cases) /\ params.list
    /\ \/ exitcode' = 0 /\ NoError("tp_fini") /\ UNCHANGED faults
       \/ Fault /\ EndsBy("abort") /\ UNCHANGED <<exitcode, err, on_flight, clash>>
    /\ UNCHANGED <<line, optind, params, pconfig, tconfig, tcs, at, fail_count, tmpdir, mem, results, failed,
                   ran, head_error>>

(***************************************************************************)
(* The loop of controlled_main: a temporary directory, run_tc, and the     *)
(* directory is removed, which asserts that it is empty.  The name on the  *)
(* command line is not looked at, nor is the results file.                 *)
(***************************************************************************)
Running == pc = "add_tcs" /\ Len(tcs) = Len(Cases) /\ ~params.list

context_init(i) == {<<"expect_reason", i>>}

StartCase ==
    /\ Running /\ at < Len(tcs)
    /\ at' = at + 1 /\ fail_count' = 0 /\ tmpdir' = "empty"
    /\ \/ mem' = Malloc(mem, context_init(at')) /\ NoError("body") /\ UNCHANGED faults
       \/ Fault /\ EndsBy("abort") /\ UNCHANGED <<mem, err, on_flight, clash>>
    /\ UNCHANGED <<line, optind, params, pconfig, tconfig, tcs, exitcode, results, failed, ran,
                   head_error>>

\* Writing a result; an error is fatal.
create_resfile(result) ==
    \/ /\ EndsBy("exit") /\ results' = Append(results, <<result, at>>)
       /\ clash' = clash
    \/ /\ EndsBy("abort") /\ clash' = (clash \/ on_flight)
       /\ UNCHANGED results

\* With expect = EXPECT_PASS.
fail_requirement ==
    /\ create_resfile("failed")
    /\ exitcode' = IF ending' = "exit" THEN 1 ELSE exitcode

InBody == /\ pc = "body"
          /\ UNCHANGED <<line, optind, params, pconfig, tconfig, tcs, at, mem, err, on_flight, ran,
                         head_error>>

fail_check ==
    /\ InBody /\ fail_count < MaxChecks
    /\ fail_count' = fail_count + 1 /\ failed' = failed \cup {at}
    /\ UNCHANGED <<pc, ending, exitcode, tmpdir, results, clash, faults>>

atf_tc_fail_requirement ==
    /\ InBody /\ fail_requirement /\ failed' = failed \cup {at}
    /\ UNCHANGED <<fail_count, tmpdir, faults>>

\* The reason of a failure cannot be formatted: check_fatal_error aborts.
format_reason_ap ==
    /\ InBody /\ Fault /\ EndsBy("abort") /\ failed' = failed \cup {at}
    /\ UNCHANGED <<fail_count, exitcode, tmpdir, results, clash>>

TestCreatesFile ==
    /\ InBody /\ tmpdir' = "files"
    /\ UNCHANGED <<pc, ending, exitcode, fail_count, results, clash, faults, failed>>

TestCrashes ==
    /\ InBody /\ EndsBy("signal")
    /\ UNCHANGED <<exitcode, fail_count, tmpdir, results, clash, faults, failed>>

\* The body returns: atf_tc_run counts the failed checks.
ChecksForgotten == FALSE   \* mutant
ChecksFailed == fail_count > 0

\* pass: back to the loop, which removes the directory.
pass ==
    /\ exitcode' = 0 /\ UNCHANGED results
    /\ IF tmpdir = "empty" THEN tmpdir' = "none" /\ NoError("add_tcs")
       ELSE EndsBy("abort") /\ UNCHANGED <<tmpdir, err, on_flight, clash>>

BodyReturns ==
    /\ pc = "body" /\ ran' = ran \cup {at}
    /\ \/ ChecksFailed /\ fail_requirement /\ UNCHANGED <<tmpdir, err, on_flight>>
       \/ ~ChecksFailed /\ pass
    /\ UNCHANGED <<line, optind, params, pconfig, tconfig, tcs, at, fail_count, mem, faults, failed,
                   head_error>>

AllRan ==
    /\ Running /\ at = Len(tcs) /\ NoError("tp_fini")
    /\ UNCHANGED <<line, optind, params, pconfig, tconfig, tcs, at, fail_count, tmpdir, exitcode, mem, faults,
                   results, failed, ran, head_error>>

----------------------------------------------------------------------------
\* The labels out_tp, out_p and out of controlled_main.
OutTp ==
    /\ pc = "tp_fini"
    /\ mem' = Free(mem, TpBlocks \cup UNION {TcFini(tcs[i]) : i \in DOMAIN tcs})
    /\ NoError("params_fini")
    /\ UNCHANGED <<line, optind, params, pconfig, tconfig, tcs, at, fail_count, tmpdir, exitcode, faults,
                   results, failed, ran, head_error>>

\* params_fini is called by process_params when it fails, else at out_p: never twice.
OutP ==
    /\ pc = "params_fini"
    /\ mem' = Free(mem, ParamsBlocks)
    /\ NoError("out")
    /\ UNCHANGED <<line, optind, params, pconfig, tconfig, tcs, at, fail_count, tmpdir, exitcode, faults,
                   results, failed, ran, head_error>>

\* atf_tp_main: prints the error, releases it, and returns.
ExitCode == IF err # "none" THEN 1 ELSE exitcode

Out ==
    /\ pc = "out" /\ EndsBy("exit")
    /\ exitcode' = ExitCode
    /\ on_flight' = (on_flight /\ err = "none")
    /\ UNCHANGED <<line, optind, params, pconfig, tconfig, tcs, at, fail_count, tmpdir, err, mem, faults>>
    /\ UNCHANGED observed

Ended == pc = "ended" /\ UNCHANGED vars

Next == \/ ParamsInit \/ Option \/ Arguments \/ Srcdir \/ TpInit \/ AddTc \/ List
        \/ StartCase \/ fail_check \/ atf_tc_fail_requirement \/ format_reason_ap
        \/ TestCreatesFile \/ TestCrashes \/ BodyReturns \/ AllRan \/ OutTp \/ OutP \/ Out \/ Ended
Spec == Init /\ [][Next]_vars

----------------------------------------------------------------------------
TypeOK ==
    /\ pc \in {"params", "options", "srcdir", "tp_init", "add_tcs", "body", "tp_fini",
              "params_fini", "out", "ended"}
    /\ optind \in 0..Len(line.options) /\ at \in 0..Len(tcs) /\ Len(tcs) <= Len(Cases)
    /\ fail_count \in 0..MaxChecks /\ tmpdir \in {"none", "empty", "files"}
    /\ err \in {"none", "no_memory", "usage", "user", "libc"} /\ on_flight \in BOOLEAN
    /\ exitcode \in {0, 1} /\ ending \in {"none", "exit", "abort", "signal"}
    /\ (pc = "ended") <=> (ending # "none")

(***************************************************************************)
(* Nothing is freed that is not allocated, whichever allocation fails and  *)
(* whichever of the labels is jumped to; and when atf_tp_main returns,     *)
(* only what the code is known to keep is left: blocks lost on the way out *)
(* of a failure, each case's configuration (atf_tc_fini) and each run's    *)
(* reason (context_init).                                                  *)
(***************************************************************************)
MainReturned == ending = "exit" /\ results = <<>>
KnownLeaks == (IF faults > 0 THEN {Lost} ELSE {})
                \cup {<<"expect_reason", i>> : i \in DOMAIN tcs}
                \cup UNION {KeptConfig(tcs[i]) : i \in DOMAIN tcs}

MemorySafe ==
    /\ mem.bad = {}
    /\ MainReturned => mem.live \subseteq KnownLeaks

(***************************************************************************)
(* Every case is configured with the last -v of each variable and with the *)
(* source directory, also when a -v names "srcdir", through three copies.  *)
(* That directory is, name by name, the -s or the program's directory,     *)
(* below the working directory if relative, and without its ".libs".       *)
(***************************************************************************)
Options(kind) == {i \in DOMAIN line.options : line.options[i][1] = kind}
VOptions(key) == {i \in Options("v") : line.options[i][2] = key}
Keys == {line.options[i][2] : i \in Options("v")} \cup {"srcdir"}

DirGiven == IF Options("s") # {} THEN line.options[Max(Options("s"))][2]
            ELSE IF Slash \in Range(line.argv0) THEN Front(line.argv0) ELSE <<".">>
SrcdirNames ==
    LET names == (IF DirGiven[1] = Slash THEN <<>> ELSE Names(line.cwd)) \o Names(DirGiven)
    IN IF names # <<>> /\ names[Len(names)] = ".libs" THEN Front(names) ELSE names

Right(entry) ==
    \/ faults > 0 /\ entry.value = NULL
    \/ entry.key = "srcdir" /\ Names(entry.value) = SrcdirNames
    \/ entry.key # "srcdir" /\ entry.value = line.options[Max(VOptions(entry.key))][3]

ConfigReachesTests ==
    \A i \in DOMAIN tcs : LET config == tcs[i].config IN
        /\ {config[j].key : j \in DOMAIN config} = Keys
        /\ Len(config) = Cardinality(Keys)
        /\ \A j \in DOMAIN config : Right(config[j])

(***************************************************************************)
(* The exit status is 0 exactly when the program was asked for its list,   *)
(* or has cases, all of which returned with no check or requirement        *)
(* failed; then no temporary directory is left.  A "failed" is written for *)
(* the first failing case only, and nothing runs after it.                 *)
(***************************************************************************)
VerdictHonest ==
    /\ ending = "exit" =>
        (exitcode = 0 <=> /\ err = "none" /\ failed = {}
                          /\ params.list \/ (Cases # <<>> /\ ran = DOMAIN Cases))
    /\ ending = "exit" /\ exitcode = 0 => tmpdir = "none"
    /\ failed # {} => failed = {at}
    /\ results # <<>> => exitcode = 1 /\ failed = {at} /\ results = <<<<"failed", at>>>>

(***************************************************************************)
(* One error at a time: PRE(!error_on_flight) fails only after a test      *)
(* case's head has thrown an error away, and no other error is lost.       *)
(***************************************************************************)
OneErrorOnFlight ==
    /\ clash => head_error
    /\ ending = "none" => (on_flight <=> (err # "none" \/ head_error))

(***************************************************************************)
(* A failure anywhere - an allocation, an option, a test - is contained:   *)
(* no memory is touched wrongly and no error meets another.                *)
(***************************************************************************)
FailuresContained == TypeOK /\ MemorySafe /\ OneErrorOnFlight
=============================================================================
