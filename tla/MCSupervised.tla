---------------------------- MODULE MCSupervised ----------------------------
(***************************************************************************)
(* The two harnesses whose parent process watches a test and its time:     *)
(* glibc's wrapper and the kernel's test_harness, the chosen one at a      *)
(* time.  The other stays in one of its initial states.                    *)
(***************************************************************************)
EXTENDS GlibcTest, KernelHarness

VARIABLE chosen

-----------------------------------------------------------------------------

\* Run in the wrapper itself; with a cleanup handler; expected to exit with 3, or to crash.
MCConfigs ==
  LET Config(status, signal, cleanup, direct) ==
        [status |-> status, signal |-> signal, cleanup |-> cleanup, direct |-> direct]
  IN {Config(0, 0, FALSE, TRUE), Config(0, 0, TRUE, FALSE),
      Config(3, 0, FALSE, FALSE), Config(0, 11, FALSE, FALSE)}

MCScripts == {<<"err", "err", "out">>}

\* Tests that capture output have one temporary file in each process.
MCFewFiles == gl_sub = "none" \/ \A file \in gl_files : file[2] = 1

-----------------------------------------------------------------------------

Unless(c, var, set) == chosen = c \/ var = CHOOSE x \in set : TRUE

MCInit ==
  /\ chosen \in {"glibc", "kernel"}
  /\ Unless("glibc", gl_config, MCConfigs) /\ GlInit
  /\ Unless("kernel", kh_stubborn, BOOLEAN) /\ KhInit

Gl(step) == chosen = "glibc" /\ step /\ MCFewFiles' /\ UNCHANGED <<chosen, khvars>>
Kh(step) == chosen = "kernel" /\ step /\ UNCHANGED <<chosen, glvars>>

MCNext == Gl(GlNext) \/ Kh(KhNext)

\* Where the chosen one stops.
MCEnded == gl_pc = "ended" \/ kh_pc = "returned"

mcvars == <<chosen, glvars, khvars>>

\* GlFairness and KhFairness, of the one that is chosen.
MCSpec ==
  /\ MCInit /\ [][MCNext \/ (MCEnded /\ UNCHANGED mcvars)]_mcvars
  /\ WF_mcvars(Gl(GlWrapper)) /\ WF_mcvars(Gl(Alarm)) /\ WF_mcvars(Gl(GlDies))
  /\ WF_mcvars(Kh(KhStep)) /\ WF_mcvars(Kh(KhAlarm))

\* A kernel test that hangs, and one that ignores SIGTERM, comes to an end
\* (timeout_handler and run_test, linux-kernel.h).
KernelTestEnds == chosen = "kernel" => KhEnds
=============================================================================
