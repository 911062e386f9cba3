------------------------------- MODULE MCLtp -------------------------------
(***************************************************************************)
(* Three parts of the LTP library, the chosen one at a time: a run of a    *)
(* test and its results, what the library sets up and removes again, and   *)
(* the command line.  The others stay in one of their initial states.      *)
(***************************************************************************)
EXTENDS LtpTestRun, LtpLifecycle, LtpOptions

VARIABLE chosen

MCTexts ==
  LET Text(digits, n, rest) == [digits |-> digits, n |-> n, rest |-> rest]
  IN {Text(TRUE, 1, ""), Text(TRUE, 2, "newline"), Text(TRUE, 0, ""),
      Text(FALSE, 0, "more"), Text(TRUE, 3, "more")}

\* Well formed descriptions and one of each malformation.
MCTests ==
  LET Test(fns, tcnt, max_runtime, options) ==
        [fns |-> fns, tcnt |-> tcnt, max_runtime |-> max_runtime, options |-> options]
      Own(c, arg) == [c |-> c, arg |-> arg]
  IN {Test({"test"}, 2, FALSE, <<Own("a", TRUE), Own("b", FALSE)>>),
      Test({"test_all"}, 0, FALSE, <<>>), Test({"test_all"}, 0, TRUE, <<>>),
      Test({"test"}, 0, FALSE, <<>>), Test({"test_all"}, 1, FALSE, <<>>),
      Test({}, 0, FALSE, <<>>), Test({"sample"}, 0, FALSE, <<>>),
      Test({"test", "test_all"}, 2, FALSE, <<>>),
      Test({"test_all"}, 0, FALSE, <<Own("i", TRUE)>>)}

Unless(c, var, set) == chosen = c \/ var = CHOOSE x \in set : TRUE

MCInit ==
  /\ chosen \in {"run", "lifecycle", "options"}
  /\ Init
  /\ Unless("lifecycle", conf, [devshm : {TRUE}, needs_tmpdir : {TRUE}, needs_checkpoints : {TRUE}])
  /\ LcInit
  /\ Unless("options", lo_test, MCTests) /\ Unless("options", lo_env, {NoText}) /\ LoInit

MCNext ==
  \/ chosen = "run" /\ Next /\ UNCHANGED <<lcvars, lovars>>
  \/ chosen = "lifecycle" /\ LcNext /\ UNCHANGED <<vars, lovars>>
  \/ chosen = "options" /\ LoNext /\ UNCHANGED <<vars, lcvars>>

\* Where the chosen one may stop.
MCEnded ==
  \/ lpc = "done" \/ pc \in {"done", "killed"}
  \/ lo_pc \in {"ended", "broken", "helped", "aborted"}

mcvars == <<vars, lcvars, lovars, chosen>>

MCSpec ==
  MCInit /\ [][(MCNext /\ UNCHANGED chosen) \/ (MCEnded /\ UNCHANGED mcvars)]_mcvars
=============================================================================
