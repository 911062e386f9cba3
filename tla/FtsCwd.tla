------------------------------- MODULE FtsCwd -------------------------------
(***************************************************************************)
(* The working directory of fts_read while others move directories about   *)
(* (fts_read.h, fts-common.h, fts_open.h, fts_close.h): the process's own  *)
(* one (with fchdir) or, with FTS_CWDFD, a descriptor and a ring of those  *)
(* of the directories above it.  Between two steps of the walk any         *)
(* directory may be renamed; the walk's steps are the single resolutions   *)
(* of a name.  What is walked, and how cycles are found, is FtsWalk's.     *)
(*                                                                         *)
(* Physical walks of one root; the inode number of a directory is not      *)
(* given to another one.  The ring is the bounded stack that IRing         *)
(* implements.                                                             *)
(***************************************************************************)
EXTENDS Naturals, Sequences, FiniteSets, SequencesExt

CONSTANTS
    FcDirs,         \* directories
    FcName,         \* their names: a function on FcDirs
    FcRoot,         \* the name given to fts_open
    FcTrees,        \* functions from FcDirs to what each is in at first
    I_RING_SIZE,
    FcMaxMoves      \* bound on renames

Start == "start"            \* the initial working directory
Elsewhere == "elsewhere"    \* a directory the walk does not come to

ASSUME FcAssumption ==
    /\ FcTrees \subseteq [FcDirs -> FcDirs \cup {Start, Elsewhere}]
    /\ {Start, Elsewhere} \cap FcDirs = {} /\ I_RING_SIZE \in Nat \ {0} /\ FcMaxMoves \in Nat

VARIABLES
    fc_up,          \* ".." of every directory
    fc_moved,       \* directories moved while the walk was in them
    fc_moves,       \* renames so far
    fc_cwdfd, fc_tight,     \* FTS_CWDFD, FTS_TIGHT_CYCLE_CHECK
    fc_path,        \* the nodes from the roots' parent down
    fc_pc,          \* "entries", "directory" (pre-order), "opened", "done", "stopped", "closed", "aborted"
    fc_cwd,         \* the working directory, real or virtual; Start with FTS_CWDFD is AT_FDCWD
    fc_ring,        \* fts_fd_ring: directories that descriptors are open on, Start for AT_FDCWD
    fc_fds          \* how many descriptors the walk has open

fcTree == <<fc_up, fc_moved, fc_moves>>
fcOptions == <<fc_cwdfd, fc_tight>>
fcDescriptors == <<fc_cwd, fc_ring, fc_fds>>
fcvars == <<fcTree, fcOptions, fc_path, fc_pc, fcDescriptors>>

Nowhere == "nowhere"

\* statp: what stat found; dir: what was opened; left: entries read and not visited.
FcNode(name, statp, dir, left) == [name |-> name, statp |-> statp, dir |-> dir, left |-> left]
Top == Last(fc_path)
Above == fc_path[Len(fc_path) - 1]
AtRoot == Len(fc_path) = 2          \* FTS_ROOTLEVEL

DotDot(d) == IF d \in FcDirs THEN fc_up[d] ELSE Elsewhere
Lookup(d, name) == {x \in FcDirs : fc_up[x] = d /\ FcName[x] = name}

\* fts_open, and fts_read on its dummy node.
FcInit ==
    /\ fc_up \in FcTrees /\ fc_moved = {} /\ fc_moves = 0
    /\ fc_cwdfd \in BOOLEAN /\ fc_tight \in BOOLEAN
    /\ fc_path = <<FcNode(Nowhere, Nowhere, Start, {FcRoot})>> /\ fc_pc = "entries"
    /\ fc_cwd = Start /\ fc_ring = <<>> /\ fc_fds = IF fc_cwdfd THEN 0 ELSE 1

----------------------------------------------------------------------------
\* rename(2) by another process.
Ancestor(d) ==
    LET up[n \in Nat] == IF n = 0 THEN d ELSE DotDot(up[n - 1])
    IN {up[n] : n \in 0 .. Cardinality(FcDirs)}
FcMove(x, d) ==
    /\ fc_moves < FcMaxMoves /\ fc_pc \notin {"done", "stopped", "closed", "aborted"}
    /\ d # fc_up[x] /\ x \notin Ancestor(d) /\ (d = Elsewhere \/ Lookup(d, FcName[x]) = {})
    /\ fc_up' = [fc_up EXCEPT ![x] = d] /\ fc_moves' = fc_moves + 1
    /\ fc_moved' = fc_moved \cup ({x} \cap {fc_path[i].dir : i \in DOMAIN fc_path})
    /\ UNCHANGED <<fcOptions, fc_path, fc_pc, fcDescriptors>>

----------------------------------------------------------------------------
\* Descriptors in a list of directories: AT_FDCWD is none.
Fds(dirs) == Cardinality({i \in DOMAIN dirs : dirs[i] # Start})
CwdFd == IF fc_cwdfd THEN Fds(<<fc_cwd>>) ELSE 0

\* cwd_advance_fd, down: the old descriptor goes onto the ring, and what that
\* displaces is closed.
Pushed == Append(IF Len(fc_ring) = I_RING_SIZE THEN Tail(fc_ring) ELSE fc_ring, fc_cwd)
NothingDisplaced == 0                                              \* mutant
Displaced == IF Len(fc_ring) = I_RING_SIZE THEN Fds(<<Head(fc_ring)>>) ELSE 0

\* fd_ring_check: as far as the ring goes, each descriptor is open on the
\* parent of the one after it.
RingMatches(dir, ring) ==
    \A i \in DOMAIN ring :
        ring[i] \in {Start, DotDot(IF i = Len(ring) THEN dir ELSE ring[i + 1])}

\* LEAVE_DIR of the top node, from the working directory and ring the walk has then.
LeaveDir(cwd, ring) ==
    IF RingMatches(cwd, ring) THEN fc_pc' = "entries" /\ fc_path' = Front(fc_path)
    ELSE fc_pc' = "aborted" /\ UNCHANGED fc_path

----------------------------------------------------------------------------
\* fts_read: the next entry is stated; what is no directory, or is gone, is passed.
FcVisit(name) ==
    /\ fc_pc = "entries" /\ name \in Top.left
    /\ LET passed == [fc_path EXCEPT ![Len(fc_path)].left = @ \ {name}]
           found == Lookup(fc_cwd, name) IN
       \/ found = {} /\ fc_path' = passed /\ UNCHANGED fc_pc
       \/ \E x \in found :
            fc_path' = Append(passed, FcNode(name, x, Nowhere, {})) /\ fc_pc' = "directory"
    /\ UNCHANGED <<fcTree, fcOptions, fcDescriptors>>

\* FTS_SKIP, or the directory cannot be opened or changed into.
FcSkip ==
    /\ fc_pc = "directory" /\ LeaveDir(fc_cwd, fc_ring)
    /\ UNCHANGED <<fcTree, fcOptions, fcDescriptors>>

\* fts_build: the directory is opened and, if need be, stated again.
Restated(x) == IF fc_tight THEN x ELSE Top.statp
LeavesFirst == fc_tight

\* ... and changed into: the descriptor of the directory stream for fchdir, a
\* copy of it with FTS_CWDFD.
FcOpen ==
    /\ fc_pc = "directory"
    /\ \E x \in Lookup(fc_cwd, Top.name) :
         IF LeavesFirst /\ ~RingMatches(fc_cwd, fc_ring)
         THEN fc_pc' = "aborted" /\ UNCHANGED <<fc_path, fcDescriptors>>
         ELSE /\ fc_path' = [fc_path EXCEPT ![Len(fc_path)].statp = Restated(x),
                                            ![Len(fc_path)].dir = x]
              /\ fc_pc' = "opened" /\ fc_cwd' = x
              /\ IF fc_cwdfd THEN fc_ring' = Pushed /\ fc_fds' = fc_fds + 2 - Displaced
                 ELSE fc_fds' = fc_fds + 1 /\ UNCHANGED fc_ring
    /\ UNCHANGED <<fcTree, fcOptions>>

\* restore_initial_cwd: everything on the ring is closed, and the descriptor
\* that was pushed onto it.
RestoreInitial(closed) ==
    /\ fc_cwd' = Start /\ fc_ring' = <<>>
    /\ fc_fds' = fc_fds - closed - (IF fc_cwdfd THEN CwdFd + Fds(fc_ring) ELSE 0)

\* fts_safe_changedir to "..": a descriptor from the ring, or what ".." is now
\* if that is what stat found the parent to be.
FromRing == fc_cwdfd /\ fc_ring # <<>> /\ Fds(<<Last(fc_ring)>>) = 1
AnyDotDot(d) == TRUE                                               \* mutant
IsParent(d) == d = Above.statp
ChangeUp(closed) ==
    IF FromRing
    THEN fc_cwd' = Last(fc_ring) /\ fc_ring' = Front(fc_ring) /\ fc_fds' = fc_fds - closed - 1
    ELSE /\ IsParent(DotDot(fc_cwd))
         /\ fc_cwd' = DotDot(fc_cwd) /\ fc_fds' = fc_fds - closed /\ UNCHANGED fc_ring

GoUp(closed) ==
    /\ IF AtRoot THEN RestoreInitial(closed) ELSE ChangeUp(closed)
    /\ LeaveDir(fc_cwd', fc_ring')

\* FTS_STOP: ".." is another directory, or cannot be opened or changed to.
CannotGoUp(closed) ==
    /\ ~(fc_cwdfd /\ (AtRoot \/ FromRing))
    /\ fc_pc' = "stopped" /\ fc_fds' = fc_fds - closed
    /\ UNCHANGED <<fc_path, fc_cwd, fc_ring>>

\* fts_build: the directory is read to its end and closed; from an empty one
\* the way leads back at once.
FcRead ==
    /\ fc_pc = "opened"
    /\ LET names == {FcName[x] : x \in {y \in FcDirs : fc_up[y] = Top.dir}} IN
       IF names # {}
       THEN /\ fc_path' = [fc_path EXCEPT ![Len(fc_path)].left = names] /\ fc_pc' = "entries"
            /\ fc_fds' = fc_fds - 1 /\ UNCHANGED <<fc_cwd, fc_ring>>
       ELSE GoUp(1) \/ CannotGoUp(1)
    /\ UNCHANGED <<fcTree, fcOptions>>

\* cd_dot_dot
FcAscend ==
    /\ fc_pc = "entries" /\ Top.left = {}
    /\ IF Len(fc_path) = 1 THEN fc_pc' = "done" /\ UNCHANGED <<fc_path, fcDescriptors>>
       ELSE GoUp(0) \/ CannotGoUp(0)
    /\ UNCHANGED <<fcTree, fcOptions>>

RingCleared == Fds(fc_ring)
fts_close ==
    /\ fc_pc \in {"entries", "directory", "done", "stopped"} /\ fc_pc' = "closed"
    /\ fc_cwd' = Start /\ fc_ring' = <<>>
    /\ fc_fds' = fc_fds - (IF fc_cwdfd THEN CwdFd ELSE 1) - RingCleared
    /\ UNCHANGED <<fcTree, fcOptions, fc_path>>

FcStep == FcSkip \/ FcOpen \/ FcRead \/ FcAscend \/ \E name \in {FcName[x] : x \in FcDirs} : FcVisit(name)
FcNext ==
    \/ FcStep \/ fts_close
    \/ \E x \in FcDirs, d \in FcDirs \cup {Start, Elsewhere} : FcMove(x, d)

FcSpec == FcInit /\ [][FcNext]_fcvars

----------------------------------------------------------------------------
(***************************************************************************)
(* Names are looked up in the directory they were read from: whatever is   *)
(* renamed meanwhile, the walk comes back to it or stops (fts_read.h:      *)
(* 213-224).  Where no descriptor was kept on the way down, it may come    *)
(* back to the directory that stat found before another one was opened,    *)
(* unless FTS_TIGHT_CYCLE_CHECK made it look again.                        *)
(***************************************************************************)
CwdIsListed ==
    LET node == IF fc_pc = "directory" THEN Above ELSE Top IN
    fc_pc \in {"entries", "directory"} =>
        fc_cwd = node.dir \/ (~fc_tight /\ fc_cwd = node.statp)

(***************************************************************************)
(* The assertion of fd_ring_check fails only when a directory that the     *)
(* walk is in was moved: pushes, pops and displacements never get the ring *)
(* out of step with the path (fts_read.h:93-134).                          *)
(***************************************************************************)
AbortsWhenMoved ==
    fc_pc = "aborted" => \E i \in DOMAIN fc_path : fc_path[i].dir \in fc_moved

(***************************************************************************)
(* A walk of any depth holds a bounded number of descriptors, and          *)
(* fts_close, at any point of it, closes every one (I_ring.h, fts_read.h:  *)
(* 184-211, fts_close.h:83-105).                                           *)
(***************************************************************************)
DescriptorsBounded ==
    /\ fc_fds <= I_RING_SIZE + 2
    /\ fc_pc = "closed" => fc_fds = 0

(***************************************************************************)
(* The ring of descriptors stays in step with the path and keeps none too  *)
(* many (fts_read.h:93-211).                                               *)
(***************************************************************************)
CwdRingSound == AbortsWhenMoved /\ DescriptorsBounded
=============================================================================
