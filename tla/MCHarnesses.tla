----------------------------- MODULE MCHarnesses -----------------------------
(***************************************************************************)
(* The harnesses that run a test's parts in one process: one of them, the  *)
(* chosen one, at a time.  The others stay in one of their initial states. *)
(***************************************************************************)
EXTENDS Cmocka, CygwinTest, GvisorFiles, Cosmopolitan, Z88dk, AtfProgram

VARIABLE chosen

-----------------------------------------------------------------------------

MCGroups ==
  LET Test(setup, teardown) == [setup |-> setup, teardown |-> teardown]
      Group(both, tests) == [setup |-> both, teardown |-> both, tests |-> tests]
  IN {Group(both, <<Test(TRUE, TRUE), Test(FALSE, FALSE)>>) : both \in BOOLEAN} \cup
     {Group(FALSE, <<Test(FALSE, FALSE), Test(FALSE, TRUE), Test(TRUE, FALSE)>>)}

MCOutputs == {{}, {"TAP", "SUBUNIT"}, {"XML", "STANDARD"}, {"junk"}}

MCOptions == {<<>>, <<<<"i", 2>>, <<"e", 0>>, <<"p", 0>>>>, <<<<"I", 1>>, <<"t", 0>>>>, <<<<"i", -1>>>>,
              <<<<"?", 0>>>>, <<<<"h", 0>>>>, <<<<"i", 0>>, <<"i", 2>>>>}

MCEnvs ==
  LET Env(iterations, walltime, duration, sbrk) ==
        [USC_ITERATIONS |-> iterations, USC_LOOP_WALLTIME |-> walltime,
         USC_DURATION |-> duration, USC_TP_SBRK |-> sbrk]
  IN {Env(<<>>, -1, -1, 0), Env(<<2>>, -1, -1, 0), Env(<<-1>>, 1, 0, 0), Env(<<0>>, 0, 1, 1)}

\* Two tests whose parts make no, one or two assertions.
MCSuites ==
  LET Tests2 == [setup : {<<>>, <<TRUE>>, <<FALSE>>}, test : {<<TRUE>>, <<TRUE, FALSE>>},
                 teardown : {<<>>, <<TRUE>>, <<FALSE>>, <<TRUE, FALSE>>}]
  IN {<<>>} \cup {<<a, b>> : a, b \in Tests2}

\* ATF: two cases, and command lines that meet every branch of process_params.
MCCases == <<"c1", "c2">>
MCHeads == {<<>>, <<<<"descr", <<"a">>>>>>, <<<<"descr", <<"a">>>>, <<"descr", <<"b">>>>>>,
            <<<<"ident", <<"x">>>>>>}

V(key, value) == <<"v", key, <<value>>>>
S(path) == <<"s", path>>
Src == <<"/", "src">>
Libs == <<"d", "/", "/", ".libs", "/">>
OptionLists == {<<>>, <<<<"l">>>>, <<<<"r", <<"file">>>>>>, <<S(Src)>>, <<S(<<>>)>>, <<S(Libs)>>,
                <<<<"usage">>>>, <<V("k", "x"), V("k", "y")>>, <<V("srcdir", "x")>>,
                <<V("k", "x"), S(Libs), V("srcdir", "y"), S(Src)>>,
                <<V("k", "x"), <<"usage">>>>}

Arg(ident, part) == [ident |-> ident, part |-> part]
ArgLists == {<<>>, <<Arg("c1", "none")>>, <<Arg("c1", "cleanup")>>, <<Arg("c1", "other")>>,
             <<Arg("c1", "none"), Arg("c2", "none")>>}

Lines(argv0s, cwds, args) == [argv0 : argv0s, cwd : cwds, options : OptionLists, args : args]
MCCommandLines ==
    Lines({<<"prog">>}, {<<"/", "w">>}, ArgLists)
        \cup Lines({<<"prog">>, <<"/", "prog">>, <<"/", "b", "/", ".libs", "/", "lt-prog">>},
                  {<<"/", "w">>, <<"/">>}, {<<>>})

-----------------------------------------------------------------------------

Unless(c, var, set) == chosen = c \/ var = CHOOSE x \in set : TRUE

MCInit ==
  /\ chosen \in {"cmocka", "cygwin", "gvisor", "cosmopolitan", "z88dk", "atf"}
  /\ Unless("cmocka", cm_group, MCGroups) /\ Unless("cmocka", cm_abort, BOOLEAN)
  /\ Unless("cmocka", cm_env, MCOutputs) /\ CmInit
  /\ Unless("cygwin", cy_args, MCOptions) /\ Unless("cygwin", cy_env, MCEnvs)
  /\ Unless("cygwin", cy_total, CyTotals) /\ Unless("cygwin", cy_mode, CyModes) /\ CyInit
  /\ GvInit
  /\ Unless("cosmopolitan", co_errno, CoErrnos) /\ CoInit
  /\ Unless("z88dk", zk_suite, MCSuites) /\ ZkInit
  /\ Unless("atf", line, MCCommandLines) /\ Init

Cm == chosen = "cmocka" /\ CmNext /\ UNCHANGED <<chosen, cyvars, gvvars, covars, zkvars, vars>>
Cy == chosen = "cygwin" /\ CyNext /\ UNCHANGED <<chosen, cmvars, gvvars, covars, zkvars, vars>>
Gv == chosen = "gvisor" /\ GvNext /\ UNCHANGED <<chosen, cmvars, cyvars, covars, zkvars, vars>>
Co == chosen = "cosmopolitan" /\ CoNext
      /\ UNCHANGED <<chosen, cmvars, cyvars, gvvars, zkvars, vars>>
Zk == chosen = "z88dk" /\ ZkNext /\ UNCHANGED <<chosen, cmvars, cyvars, gvvars, covars, vars>>
Atf == chosen = "atf" /\ Next /\ UNCHANGED <<chosen, cmvars, cyvars, gvvars, covars, zkvars>>

MCNext == Cm \/ Cy \/ Gv \/ Co \/ Zk \/ Atf

\* Where the chosen one may stop, or loops for ever beyond the bound.
MCEnded ==
  \/ cm_ending # "none"
  \/ cy_ending # "none" \/ (cy_std.infinite /\ cy_lc = CyMaxLoops)
  \/ gv_pc \in {"ended", "aborted"} \/ co_pc \in {"ended", "aborted"}
  \/ zk.pc = "ended"

mcvars == <<chosen, cmvars, cyvars, gvvars, covars, zkvars, vars>>

MCSpec == MCInit /\ [][MCNext \/ (MCEnded /\ UNCHANGED mcvars)]_mcvars
=============================================================================
