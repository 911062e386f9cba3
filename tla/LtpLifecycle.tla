---------------------------- MODULE LtpLifecycle ----------------------------
(***************************************************************************)
(* What the LTP library process acquires before the tests run and gives    *)
(* back when it exits (linux-test-project.h: do_setup, setup_ipc,          *)
(* tst_tmpdir, do_exit, do_cleanup): the shared memory that holds the      *)
(* results, the file behind it, and the temporary directory.  Every system *)
(* call may fail, the library may be killed at any point, and a later run  *)
(* may get the pid, hence the file name, of one that was killed.           *)
(***************************************************************************)
EXTENDS Naturals

CONSTANTS MaxFaults,   \* bound: system calls that fail in one run
          MaxRuns      \* bound: runs with the same pid

ASSUME LifecycleAssumption == MaxFaults \in Nat /\ MaxRuns \in Nat \ {0}

VARIABLES
  pc, back,    \* the next call; where tst_tmpdir returns to
  conf,        \* what this machine has and this test asks for
  TESTDIR,     \* is the pointer set?
  dir,         \* does the directory exist?
  inDir,       \* is it the working directory?
  shm_path,    \* "", "shm" (/dev/shm/...) or "tmp" (in the directory)
  shm,         \* who made the file at shm_path: "none", "ours", "stale"
  ipc_fd,      \* none (-1, or 0 at first), "open", or a "closed" one's number
  mapped,      \* results # NULL
  passed, warned, broken,   \* its counters, as far as they differ from 0
  lc_ret, lc_code, \* what do_exit is called with; the exit status
  run, faults, \* bound counters
  setupFailed, lost, stuck   \* what went wrong (history)

resources == <<TESTDIR, dir, inDir, shm_path, shm, ipc_fd, mapped>>
counters  == <<passed, warned, broken>>
history   == <<setupFailed, lost, stuck>>
lcvars == <<pc, back, conf, resources, counters, lc_ret, lc_code, run, faults, history>>

NewProcess ==
  [TESTDIR |-> FALSE, inDir |-> FALSE, shm_path |-> "", ipc_fd |-> "none", mapped |-> FALSE]

LcInit ==
  /\ pc = "start" /\ back = "open"
  /\ conf \in [devshm : BOOLEAN, needs_tmpdir : BOOLEAN, needs_checkpoints : BOOLEAN]
  /\ TESTDIR = NewProcess.TESTDIR /\ inDir = NewProcess.inDir
  /\ shm_path = NewProcess.shm_path /\ ipc_fd = NewProcess.ipc_fd
  /\ mapped = NewProcess.mapped
  /\ dir = FALSE /\ shm = "none"
  /\ passed = FALSE /\ warned = FALSE /\ broken = FALSE
  /\ lc_ret = {} /\ lc_code = {}
  /\ run = 1 /\ faults = 0
  /\ setupFailed = FALSE /\ lost = FALSE /\ stuck = FALSE

needs_tmpdir == conf.needs_tmpdir \/ conf.needs_checkpoints

-----------------------------------------------------------------------------
(* Recording, breaking, failing calls.  update_results does nothing while  *)
(* results is NULL.                                                        *)

Fault == faults < MaxFaults /\ faults' = faults + 1

\* TTYPE_RESULT: what is left of a type once TERRNO and the like are masked.
TTYPE_RESULT(type) == {type}

\* tst_brk(type) in the library: record it, and do_exit(type).
Break(type) ==
  /\ pc' = "exit"
  /\ lc_ret' = TTYPE_RESULT(type)
  /\ broken' = (broken \/ (mapped /\ type = "TBROK"))
  /\ setupFailed' = TRUE
  /\ UNCHANGED <<back, conf, passed, warned, lc_code, run, stuck>>

Goes(next) ==
  /\ pc' = next
  /\ UNCHANGED <<back, conf, counters, lc_ret, lc_code, run, faults, history>>

CallFails == Fault /\ Break("TBROK") /\ UNCHANGED <<resources, lost>>

-----------------------------------------------------------------------------
(* do_setup and setup_ipc.                                                 *)

CheckRequirements ==           \* tconf_msg, assert_test_fn, needs_root
  /\ pc = "start"
  /\ UNCHANGED resources
  /\ \/ \E type \in {"TCONF", "TBROK"} : Break(type) /\ UNCHANGED <<faults, lost>>
     \/ Goes("path")

ChoosePath ==
  /\ pc = "path"
  /\ \/ /\ conf.devshm
        /\ shm_path' = "shm"
        /\ Goes("open")
        /\ UNCHANGED <<TESTDIR, dir, inDir, shm, ipc_fd, mapped>>
     \/ /\ ~conf.devshm /\ ~TESTDIR
        /\ pc' = "mkdtemp" /\ back' = "path"
        /\ UNCHANGED <<conf, resources, counters, lc_ret, lc_code, run, faults, history>>
     \/ /\ ~conf.devshm /\ TESTDIR
        /\ \/ /\ shm_path' = "tmp"
              /\ Goes("open")
              /\ UNCHANGED <<TESTDIR, dir, inDir, shm, ipc_fd, mapped>>
           \/ CallFails                                  \* tst_get_tmpdir

OpenFile ==                                              \* O_CREAT | O_EXCL
  /\ pc = "open"
  /\ \/ /\ shm = "none"
        /\ shm' = "ours" /\ ipc_fd' = "open"
        /\ Goes("chmod")
        /\ UNCHANGED <<TESTDIR, dir, inDir, shm_path, mapped>>
     \/ shm # "none" /\ Break("TBROK") /\ UNCHANGED <<resources, faults, lost>>
     \/ CallFails

SizeFile ==                                              \* chmod and ftruncate
  /\ pc = "chmod"
  /\ \/ Goes("mmap") /\ UNCHANGED resources
     \/ CallFails

MapResults ==
  /\ pc = "mmap"
  /\ \/ /\ mapped' = TRUE
        /\ Goes("unlink")
        /\ UNCHANGED <<TESTDIR, dir, inDir, shm_path, shm, ipc_fd>>
     \/ CallFails

FileAfterMap == IF conf.needs_checkpoints THEN shm ELSE "none"

UnlinkFile ==
  /\ pc = "unlink"
  /\ \/ /\ shm' = FileAfterMap
        /\ Goes("close")
        /\ UNCHANGED <<TESTDIR, dir, inDir, shm_path, ipc_fd, mapped>>
     \/ ~conf.needs_checkpoints /\ CallFails

CloseFile ==             \* SAFE_CLOSE: a failing close() keeps the number
  /\ pc = "close"
  /\ UNCHANGED <<TESTDIR, dir, inDir, shm_path, shm, mapped>>
  /\ \/ ipc_fd' = "none" /\ Goes("tmpdir")
     \/ ipc_fd' = "closed" /\ Fault /\ Break("TBROK") /\ UNCHANGED lost

EnterTmpdir ==
  /\ pc = "tmpdir"
  /\ pc' = IF needs_tmpdir /\ ~TESTDIR THEN "mkdtemp" ELSE "late"
  /\ back' = "late"
  /\ UNCHANGED <<conf, resources, counters, lc_ret, lc_code, run, faults, history>>

\* The requirements checked last: a test that asks for the impossible.
CheckConsistency ==
  /\ pc = "late"
  /\ UNCHANGED resources
  /\ \/ Break("TBROK") /\ UNCHANGED <<faults, lost>>
     \/ Goes("run")

-----------------------------------------------------------------------------
(* tst_tmpdir.                                                             *)

MakeDir ==
  /\ pc = "mkdtemp"
  /\ \/ /\ dir' = TRUE
        /\ Goes("strdup")
        /\ UNCHANGED <<TESTDIR, inDir, shm_path, shm, ipc_fd, mapped>>
     \/ CallFails

NameDir ==
  /\ pc = "strdup"
  /\ \/ /\ TESTDIR' = TRUE
        /\ Goes("chown")
        /\ UNCHANGED <<dir, inDir, shm_path, shm, ipc_fd, mapped>>
     \/ Fault /\ Break("TBROK") /\ lost' = TRUE /\ UNCHANGED resources

OwnDir ==                                                \* chown and chmod
  /\ pc = "chown"
  /\ \/ Goes("chdir") /\ UNCHANGED resources
     \/ CallFails

\* chdir() fails: tst_resm(TERRNO, ...), whose result type is 0, TPASS; try to
\* remove the directory; tst_exit, which under tst_test is tst_brk(TBROK).
ChdirFails ==
  /\ Fault
  /\ pc' = "exit" /\ lc_ret' = {"TBROK"}
  /\ setupFailed' = TRUE
  /\ passed' = mapped
  /\ broken' = mapped
  /\ \/ /\ dir' = FALSE
        /\ shm' = IF shm_path = "tmp" THEN "none" ELSE shm
        /\ UNCHANGED <<warned, stuck>>
     \/ /\ warned' = mapped /\ stuck' = TRUE
        /\ UNCHANGED <<dir, shm>>
  /\ UNCHANGED <<back, conf, TESTDIR, inDir, shm_path, ipc_fd, mapped, lc_code, run, lost>>

ChangeDir ==
  /\ pc = "chdir"
  /\ \/ /\ inDir' = TRUE
        /\ Goes(back)
        /\ UNCHANGED <<TESTDIR, dir, shm_path, shm, ipc_fd, mapped>>
     \/ ChdirFails

-----------------------------------------------------------------------------
(* The variants run (LtpTestRun says how); then do_exit and do_cleanup.    *)

RunTests ==
  /\ pc = "run"
  /\ pc' = "exit"
  /\ \/ lc_ret' = {} /\ passed' = TRUE /\ UNCHANGED broken
     \/ lc_ret' = {"TBROK"} /\ broken' = TRUE /\ passed' \in BOOLEAN
  /\ UNCHANGED <<back, conf, resources, warned, lc_code, run, faults, history>>

\* The status do_exit computes; the counters count only while they exist.
CountersOnly(r) == {f \in {"TBROK"} : mapped /\ broken}
                     \cup {f \in {"TWARN"} : mapped /\ warned}     \* mutant

StatusOf(r) == r \cup {f \in {"TBROK"} : mapped /\ broken}
                 \cup {f \in {"TWARN"} : mapped /\ warned}

LcDoExit ==
  /\ pc = "exit"
  /\ pc' = "rmdir"
  /\ lc_code' = StatusOf(lc_ret)
  /\ UNCHANGED <<back, conf, resources, counters, lc_ret, run, faults, history>>

\* A step of the cleanup that fails warns, too late for the status, and goes on.
Warns == Fault /\ warned' = (warned \/ mapped) /\ stuck' = TRUE

Cleans(here, next) ==
  /\ pc = here
  /\ pc' = next
  /\ UNCHANGED <<back, conf, TESTDIR, inDir, shm_path, passed, broken, lc_ret, lc_code, run,
                 setupFailed, lost>>

\* tst_rmdir: with it goes the file, if it is in there.  A directory that is
\* already gone is a warning too.
RemoveDir ==
  /\ Cleans("rmdir", "fdclose")
  /\ UNCHANGED <<ipc_fd, mapped>>
  /\ \/ ~TESTDIR /\ UNCHANGED <<dir, shm, warned, stuck, faults>>
     \/ /\ TESTDIR /\ dir
        /\ dir' = FALSE
        /\ shm' = IF shm_path = "tmp" THEN "none" ELSE shm
        /\ UNCHANGED <<warned, stuck, faults>>
     \/ TESTDIR /\ dir /\ Warns /\ UNCHANGED <<dir, shm>>
     \/ /\ TESTDIR /\ ~dir
        /\ warned' = (warned \/ mapped)
        /\ UNCHANGED <<dir, shm, stuck, faults>>

CloseAgain ==
  /\ Cleans("fdclose", "fileunlink")
  /\ UNCHANGED <<dir, shm, mapped, stuck, faults>>
  /\ ipc_fd' = IF ipc_fd = "open" THEN "closed" ELSE ipc_fd
  /\ warned' = (warned \/ (ipc_fd = "closed" /\ mapped))

\* cleanup_ipc unlinks whatever is at shm_path, whoever made it.
OnlyIfMapped == mapped                                            \* mutant

UnlinksAtExit == shm_path # "" /\ shm # "none"

RemoveFile ==
  /\ Cleans("fileunlink", "unmap")
  /\ UNCHANGED <<dir, ipc_fd, mapped>>
  /\ IF UnlinksAtExit
     THEN \/ shm' = "none" /\ UNCHANGED <<warned, stuck, faults>>
          \/ Warns /\ UNCHANGED shm
     ELSE UNCHANGED <<shm, warned, stuck, faults>>

Unmap ==
  /\ Cleans("unmap", "done")
  /\ mapped' = FALSE
  /\ UNCHANGED <<dir, shm, ipc_fd, warned, stuck, faults>>

-----------------------------------------------------------------------------
(* SIGKILL, or SIGINT before fork_testrun handles it; and the next process *)
(* with the same pid.  Its directory is a new one.                         *)

Killed ==
  /\ pc \notin {"done", "killed"}
  /\ pc' = "killed"
  /\ UNCHANGED <<back, conf, resources, counters, lc_ret, lc_code, run, faults, history>>

NextRun ==
  /\ pc \in {"done", "killed"}
  /\ run < MaxRuns
  /\ run' = run + 1
  /\ pc' = "start" /\ back' = "open"
  /\ TESTDIR' = NewProcess.TESTDIR /\ inDir' = NewProcess.inDir
  /\ shm_path' = NewProcess.shm_path /\ ipc_fd' = NewProcess.ipc_fd
  /\ mapped' = NewProcess.mapped
  /\ dir' = FALSE
  /\ shm' = IF shm_path = "shm" /\ shm # "none" THEN "stale" ELSE "none"
  /\ passed' = FALSE /\ warned' = FALSE /\ broken' = FALSE
  /\ lc_ret' = {} /\ lc_code' = {} /\ faults' = 0
  /\ setupFailed' = FALSE /\ lost' = FALSE /\ stuck' = FALSE
  /\ UNCHANGED conf

LcNext ==
  \/ CheckRequirements \/ ChoosePath \/ OpenFile \/ SizeFile \/ MapResults
  \/ UnlinkFile \/ CloseFile \/ EnterTmpdir \/ CheckConsistency
  \/ MakeDir \/ NameDir \/ OwnDir \/ ChangeDir
  \/ RunTests \/ LcDoExit \/ RemoveDir \/ CloseAgain \/ RemoveFile \/ Unmap
  \/ Killed \/ NextRun

LcSpec == LcInit /\ [][LcNext]_lcvars

-----------------------------------------------------------------------------
LcTypeOK ==
  /\ pc \in {"start", "path", "open", "chmod", "mmap", "unlink", "close", "tmpdir",
             "late", "mkdtemp", "strdup", "chown", "chdir", "run", "exit", "rmdir",
             "fdclose", "fileunlink", "unmap", "done", "killed"}
  /\ back \in {"path", "open", "late"}
  /\ conf \in [devshm : BOOLEAN, needs_tmpdir : BOOLEAN, needs_checkpoints : BOOLEAN]
  /\ TESTDIR \in BOOLEAN /\ dir \in BOOLEAN /\ inDir \in BOOLEAN /\ mapped \in BOOLEAN
  /\ passed \in BOOLEAN /\ warned \in BOOLEAN /\ broken \in BOOLEAN
  /\ setupFailed \in BOOLEAN /\ lost \in BOOLEAN /\ stuck \in BOOLEAN
  /\ shm_path \in {"", "shm", "tmp"}
  /\ shm \in {"none", "ours", "stale"}
  /\ ipc_fd \in {"none", "open", "closed"}
  /\ lc_ret \subseteq {"TBROK", "TCONF"} /\ lc_code \subseteq {"TBROK", "TCONF", "TWARN"}
  /\ run \in 1 .. MaxRuns /\ faults \in 0 .. MaxFaults

\* Whatever call failed and wherever the setup stopped, a library that exits
\* leaves neither its file nor its directory nor its mapping - nor the file of a
\* killed run that stood in its way - unless a removal itself failed or there
\* was no memory for the directory's name (1832-1837, 3276-3324).
NothingLeft ==
  pc = "done" /\ ~stuck /\ ~lost =>
    ~dir /\ (shm_path # "" => shm = "none") /\ ~mapped /\ ipc_fd # "open"

\* A setup that failed is never reported as a success, whether or not the
\* shared counters exist yet (1360-1407, 2997, 3326-3359).
SetupFailureReported == pc = "done" /\ setupFailed => lc_code \cap {"TBROK", "TCONF"} # {}

\* The tests run only with the shared results mapped, in the temporary directory
\* they asked for, and with the file still there for what they exec
\* (2087-2138).
RunHasWhatItNeeds ==
  pc = "run" =>
    /\ mapped
    /\ needs_tmpdir => dir /\ inDir
    /\ conf.needs_checkpoints => shm = "ours"

\* A setup either gives the tests what they asked for or is reported as failed
\* (do_setup).
SetupHonest == LcTypeOK /\ SetupFailureReported /\ RunHasWhatItNeeds
=============================================================================
