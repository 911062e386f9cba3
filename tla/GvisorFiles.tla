---------------------------- MODULE GvisorFiles -----------------------------
(***************************************************************************)
(* The files of the tests taken from gVisor (test-deps/gvisor.h, with      *)
(* TEST_F of googletest.h): one directory under /tmp for the program, a    *)
(* file for each fixture, paths numbered by one counter, and transfers     *)
(* that go on until all is read or written.  A path is the sequence of the *)
(* numbers in the names from that directory on; what a test checks is      *)
(* whether it fails.                                                       *)
(***************************************************************************)
EXTENDS Integers, Sequences, FiniteSets, SequencesExt

CONSTANTS GvMaxFiles, GvMaxTests, GvMaxCount    \* bounds

ASSUME GvAssumption == GvMaxCount \in Nat

VARIABLES
    gv_dir,         \* the directory: "template", "made", "removed"
    gv_number,      \* global_temp_file_number
    gv_files,       \* paths that exist
    gv_dirs,        \* those that are directories
    gv_reopened,    \* an O_CREAT open found something there
    gv_self,        \* test_file_name_, and whether test_file_fd_ is open
    gv_pc,          \* "between" tests, "test", "ended", "aborted"
    gv_tests,       \* tests begun
    gv_io           \* the transfer under way

gvFiles == <<gv_dir, gv_number, gv_files, gv_dirs, gv_reopened>>
gvvars == <<gvFiles, gv_self, gv_pc, gv_tests, gv_io>>

NoFixture == [name |-> <<>>, open |-> FALSE]
\* want: count; done: completed; moved: what really was; ret: the result.
NoTransfer == [pc |-> "none", want |-> 0, done |-> 0, moved |-> 0, eof |-> FALSE, ret |-> 0]

GvInit ==
    /\ gv_dir = "template" /\ gv_number = 0 /\ gv_files = {} /\ gv_dirs = {}
    /\ gv_reopened = FALSE /\ gv_self = NoFixture /\ gv_pc = "between" /\ gv_tests = 0
    /\ gv_io = NoTransfer

----------------------------------------------------------------------------
\* NextTempBasename, and the number after it.
NextTempBasename == gv_number + 1
JoinPath(dir, name) == Append(dir, name)
NewTempAbsPathInDir(dir) == JoinPath(dir, gv_number)

\* open with O_CREAT, mkdir, symlink.
GvMake(path, isDir) ==
    /\ gv_number < GvMaxFiles
    /\ gv_number' = NextTempBasename
    /\ gv_files' = gv_files \cup {path}
    /\ gv_dirs' = IF isDir THEN gv_dirs \cup {path} ELSE gv_dirs
    /\ gv_reopened' = (gv_reopened \/ path \in gv_files)

\* TEST_F: SetUp makes the directory at the first call of GetAbsoluteTestTmpdir.
GvSetUp ==
    /\ gv_pc = "between" /\ gv_tests < GvMaxTests /\ gv_tests' = gv_tests + 1
    /\ LET name == NewTempAbsPathInDir(<<>>) IN
       GvMake(name, FALSE) /\ gv_self' = [name |-> name, open |-> TRUE]
    /\ gv_dir' = "made" /\ gv_pc' = "test" /\ UNCHANGED gv_io

\* TempPath_CreateFileIn, TempPath_CreateDirIn, TempPath_CreateSymlinkTo.
TempPath_CreateIn(parent, isDir) ==
    /\ gv_pc = "test" /\ gv_io.pc # "calling" /\ GvMake(NewTempAbsPathInDir(parent), isDir)
    /\ UNCHANGED <<gv_dir, gv_self, gv_pc, gv_tests, gv_io>>

\* remove(3) takes an empty directory, or anything else.
Removable(path) == \A f \in gv_files : f # path => ~IsPrefix(path, f)
Removed(path) == Removable(path)
TempPath_RemoveAndFreePath(path) ==
    /\ gv_pc = "test" /\ gv_io.pc # "calling" /\ path # gv_self.name
    /\ IF Removed(path)
       THEN /\ gv_files' = gv_files \ {path} /\ gv_dirs' = gv_dirs \ {path}
            /\ UNCHANGED gv_pc
       ELSE gv_pc' = "aborted" /\ UNCHANGED <<gv_files, gv_dirs>>
    /\ UNCHANGED <<gv_dir, gv_number, gv_reopened, gv_self, gv_tests, gv_io>>

\* FileTest_UnlinkFile in the test itself, and FileTest_CloseFile.
FileTest_UnlinkFile ==
    /\ gv_pc = "test" /\ gv_io.pc # "calling" /\ gv_self.name # <<>>
    /\ gv_files' = gv_files \ {gv_self.name} /\ gv_self' = [gv_self EXCEPT !.name = <<>>]
    /\ UNCHANGED <<gv_dir, gv_number, gv_dirs, gv_reopened, gv_pc, gv_tests, gv_io>>

\* The test returns, or is skipped: TearDown closes and unlinks.
FileTest_TearDown ==
    /\ gv_pc = "test" /\ gv_io.pc # "calling"
    /\ gv_files' = gv_files \ {gv_self.name}
    /\ gv_self' = NoFixture /\ gv_io' = NoTransfer /\ gv_pc' = "between"
    /\ UNCHANGED <<gv_dir, gv_number, gv_dirs, gv_reopened, gv_tests>>

\* An assertion of the test.
GvTestFails ==
    /\ gv_pc = "test" /\ gv_pc' = "aborted"
    /\ UNCHANGED <<gvFiles, gv_self, gv_tests, gv_io>>

\* GVISOR_MAKE_MAIN: GetAbsoluteTestTmpdir_remove_dir after the tests.
GvMainEnds ==
    /\ gv_pc = "between"
    /\ IF gv_dir = "template" THEN gv_pc' = "ended" /\ UNCHANGED gv_dir
       ELSE IF Removed(<<>>) THEN gv_pc' = "ended" /\ gv_dir' = "removed"
       ELSE gv_pc' = "aborted" /\ UNCHANGED gv_dir
    /\ UNCHANGED <<gv_number, gv_files, gv_dirs, gv_reopened, gv_self, gv_tests, gv_io>>

----------------------------------------------------------------------------
\* ReadFd, WriteFd: internal_ApplyFileIoSyscall.
GvTransfer(count) ==
    /\ gv_pc = "test" /\ gv_io.pc = "none"
    /\ gv_io' = [NoTransfer EXCEPT !.pc = "calling", !.want = count]
    /\ UNCHANGED <<gvFiles, gv_self, gv_pc, gv_tests>>

\* RetryEINTR calls again if the result is 1, which no interrupted call returns.
Retries(cur, eintr) == cur = 1 /\ eintr
OnlyLast(done, cur) == cur                                         \* mutant
Completed(done, cur) == done + cur

GvCall(cur, eintr) ==
    /\ gv_pc = "test" /\ gv_io.pc = "calling" /\ (eintr => cur = -1)
    /\ cur \in -1 .. gv_io.want - gv_io.done /\ ~Retries(cur, eintr)
    /\ LET done == Completed(gv_io.done, cur)
           after == [gv_io EXCEPT !.moved = @ + (IF cur > 0 THEN cur ELSE 0),
                                  !.done = IF cur > 0 THEN done ELSE @, !.eof = (cur = 0)]
       IN gv_io' = IF cur < 0 THEN [after EXCEPT !.pc = "returned", !.ret = -1]
                   ELSE IF cur = 0 \/ done >= gv_io.want
                        THEN [after EXCEPT !.pc = "returned", !.ret = after.done]
                   ELSE after
    /\ UNCHANGED <<gvFiles, gv_self, gv_pc, gv_tests>>

GvNext ==
    \/ GvSetUp \/ FileTest_UnlinkFile \/ FileTest_TearDown \/ GvTestFails \/ GvMainEnds
    \/ \E parent \in gv_dirs \cup {<<>>}, isDir \in BOOLEAN : TempPath_CreateIn(parent, isDir)
    \/ \E path \in gv_files : TempPath_RemoveAndFreePath(path)
    \/ \E count \in 0 .. GvMaxCount : GvTransfer(count)
    \/ \E cur \in -1 .. GvMaxCount, eintr \in BOOLEAN : GvCall(cur, eintr)

GvSpec == GvInit /\ [][GvNext]_gvvars

----------------------------------------------------------------------------
(***************************************************************************)
(* A program that ends well leaves nothing under /tmp: what a test forgets *)
(* to remove makes the removal of the directory fail (gvisor.h:39-43); and *)
(* no path is handed out while something is there, in whatever order the   *)
(* tests make and remove files (45-61).                                    *)
(***************************************************************************)
GvNothingLeft ==
    /\ gv_pc = "ended" => gv_files = {} /\ gv_dir # "made" /\ ~gv_self.open
    /\ ~gv_reopened

(***************************************************************************)
(* A transfer that reports a count has moved exactly so much, and less     *)
(* than asked only at the end of the file, however the kernel splits it;   *)
(* one that reports an error may have moved something too (301-323).       *)
(***************************************************************************)
GvCountExact ==
    gv_io.pc = "returned" /\ gv_io.ret >= 0 =>
        gv_io.ret = gv_io.moved /\ gv_io.moved <= gv_io.want
        /\ (gv_io.moved < gv_io.want => gv_io.eof)

\* The helpers of gvisor.h keep their word: files go, and counts are true.
GvHelpersHold == GvNothingLeft /\ GvCountExact
=============================================================================
