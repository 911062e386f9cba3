------------------------------- MODULE FtsWalk -------------------------------
(***************************************************************************)
(* The walk of fts_read over a graph of directories (fts_read.h, fts_set.h, *)
(* fts_open.h, fts-common.h): a node per level, the entries of a directory *)
(* read in batches, and the detection of cycles - the lazy way of          *)
(* CycleCheck or a table of active directories.  Each action is a call of  *)
(* fts_read or fts_set; a call's outcomes are the set of streams it may    *)
(* leave.  Entries that are no directories, symbolic links and the change  *)
(* of the working directory are left out.                                  *)
(***************************************************************************)
EXTENDS Naturals, Sequences, SequencesExt, FiniteSetsExt

CONSTANTS Dirs, Roots,
          FileSystems,     \* functions from Dirs to the directories in each
          Setups,          \* see Setup
          MaxTrouble       \* bound of the model: faults and instructions

AllFaults == {"open", "chdir", "read", "stat", "fstat", "mount", "up"}

\* How the walk detects cycles - lazily, with a table, or with one and a second
\* stat of what it opens -, FTS_MAX_READDIR_ENTRIES, what may go wrong (see
\* Fails), and the fts_info of the nodes that the caller gives instructions on.
Setup == [mode : {"lazy", "logical", "tight"}, max_entries : Nat \ {0},
          faults : SUBSET AllFaults, set_on : SUBSET {"D", "DP"}]

ASSUME FtsAssumption ==
  /\ Roots \subseteq Dirs /\ Roots # {}
  /\ FileSystems \subseteq [Dirs -> SUBSET Dirs]
  /\ \A f \in FileSystems : \A d \in Dirs : IsFiniteSet(f[d])
  /\ Setups \subseteq Setup /\ MaxTrouble \in Nat

VARIABLES
  fs,        \* the file system; it does not change
  opt,       \* the setup, which does not change either
  sp         \* FTS

fixed == <<fs, opt>>
vars == <<fixed, sp>>

HasTable == opt.mode # "lazy"

Infos == {"INIT", "D", "DC", "DP", "DNR", "ERR", "NS"}

\* link: the siblings yet to come; unread: what readdir has yet to give.
Node(d, info, link) ==
  [dir |-> d, info |-> info, errno |-> FALSE, link |-> link,
   dirp |-> FALSE, unread |-> {}, instr |-> "NOINSTR"]

Cur(s) == Last(s.path)
Parent(s) == s.path[Len(s.path) - 1]

With(s, node) == [s EXCEPT !.path[Len(s.path)] = node]
Informed(s, info) == With(s, [Cur(s) EXCEPT !.info = info])
Failed(s, info) == With(s, [Cur(s) EXCEPT !.info = info, !.errno = TRUE])

\* The directories entered and not left, from the root down.
Entered(s) ==
  LET dirs == [i \in DOMAIN s.path |-> s.path[i].dir]
  IN IF Cur(s).info = "D" THEN dirs ELSE Front(dirs)

\* A walk does not count to 2^64: its counter never wraps around (EnterLazily).
CC == INSTANCE CycleCheck WITH
        CounterLimit <- 2 ^ 64, MaxDepth <- 0, chdir_counter <- sp.counter,
        dev_ino <- sp.record, path <- Entered(sp), asked <- Cur(sp).dir,
        answer <- IF Cur(sp).info = "DC" THEN "cycle" ELSE "none", wrapped <- FALSE

-----------------------------------------------------------------------------
(* enter_dir and leave_dir, on the current node.                           *)

EnterTable(s, d) ==
  IF d \in s.active THEN Informed(s, "DC") ELSE [s EXCEPT !.active = @ \cup {d}]

EnterLazily(s, d) ==
  LET c == s.counter + 1
  IN IF CC!IsRecorded(s.counter, s.record, d) THEN Informed(s, "DC")
     ELSE [s EXCEPT !.counter = c, !.record = CC!RecordAfter(c, s.record, d)]

enter_dir(s) == IF HasTable THEN EnterTable(s, Cur(s).dir) ELSE EnterLazily(s, Cur(s).dir)

Abort(s) == [s EXCEPT !.status = "aborted"]

LeaveTable(s, d) == IF d \in s.active THEN [s EXCEPT !.active = @ \ {d}] ELSE Abort(s)

NeverReflected(s, d) == s                                         \* mutant

LeaveLazily(s, d) ==
  IF Len(s.path) = 1 THEN s
  ELSE IF s.counter = 0 THEN Abort(s)
  ELSE [s EXCEPT !.record = CC!RecordUp(@, Parent(s).dir, d)]

leave_dir(s) == IF HasTable THEN LeaveTable(s, Cur(s).dir) ELSE LeaveLazily(s, Cur(s).dir)

\* free_dir and setup_dir: malloc leaves the record undetermined.
SetUp(s) == {[s EXCEPT !.active = {}, !.counter = 0, !.record = d] : d \in Dirs}

-----------------------------------------------------------------------------
(* Parts of fts_read and fts_build, as sets of outcomes.                   *)

Fails(s, fault) ==
  IF fault \in opt.faults /\ s.trouble < MaxTrouble THEN {[s EXCEPT !.trouble = @ + 1]} ELSE {}

\* check_for_dir: stat and enter the node moved to.
Visit(s) ==
  {enter_dir(Informed(s, "D"))} \cup {Failed(t, "NS") : t \in Fails(s, "stat")}

Moved(s, entries) ==
  UNION {Visit(With(s, Node(d, "NSOK", entries \ {d}))) : d \in entries}

Down(s, entries) == Moved([s EXCEPT !.path = Append(@, Node(Cur(s).dir, "NSOK", {}))], entries)

Popped(s) == [s EXCEPT !.path = Front(@)]

OneBatch(s) ==                                                    \* mutant
  LET n == Cur(s)
      size == Min({opt.max_entries, Cardinality(n.unread)})
  IN {[stream |-> With(s, [n EXCEPT !.unread = {}, !.dirp = FALSE,
                                    !.info = IF batch = {} THEN "DP" ELSE @]),
       entries |-> batch] : batch \in kSubset(size, n.unread)}

\* What readdir gives in one fts_build: all, or opt.max_entries with the directory
\* left open.
Read(s) ==
  LET n == Cur(s)
      size == Min({opt.max_entries, Cardinality(n.unread)})
  IN {[stream |-> With(s, [n EXCEPT !.unread = @ \ batch, !.dirp = size = opt.max_entries,
                                    !.info = IF batch = {} THEN "DP" ELSE @]),
       entries |-> batch] : batch \in kSubset(size, n.unread)}

\* readdir fails: what it gave before stays.
ReadFails(s) ==
  LET n == Cur(s)
  IN {[stream |-> With(t, [n EXCEPT !.unread = {}, !.dirp = FALSE, !.errno = TRUE,
                                    !.info = IF n.dirp \/ batch # {} THEN "ERR" ELSE "DNR"]),
       entries |-> batch] :
        t \in Fails(s, "read"), batch \in {b \in SUBSET n.unread : Cardinality(b) < opt.max_entries}}

LeavesTwice(s) ==                                                 \* mutant
  leave_dir(leave_dir(Informed(s, IF Cur(s).errno /\ Cur(s).info # "DNR" THEN "ERR" ELSE Cur(s).info)))

\* Nothing to go down to: post-order at once.
Childless(s) ==
  leave_dir(Informed(s, IF Cur(s).errno /\ Cur(s).info # "DNR" THEN "ERR" ELSE Cur(s).info))

\* FTS_STOP: the way back to where the walk has been fails.
Lost(s) == {[t EXCEPT !.status = "stopped"] : t \in Fails(s, "up")}

DownOrBack(r) ==
  IF r.entries = {} THEN {Childless(r.stream)} \cup Lost(Informed(r.stream, "ERR"))
  ELSE Down(r.stream, r.entries)

\* The current directory opened.  FTS_TIGHT_CYCLE_CHECK leaves it, stats it
\* again - opening may have mounted another one on it - and enters that.
Reopened(s) ==
  IF opt.mode # "tight" THEN {s}
  ELSE {enter_dir(leave_dir(s))}
         \cup {enter_dir(With(leave_dir(t), [Cur(t) EXCEPT !.dir = d])) :
                 t \in Fails(s, "mount"), d \in Dirs}

RestatFails(s) ==
  IF opt.mode # "tight" THEN {}
  ELSE {Childless(Failed(leave_dir(t), "NS")) : t \in Fails(s, "fstat")}

\* All its entries are still to be read.
Opened(s) ==
  {With([t EXCEPT !.visited = @ \cup {Cur(t).dir}], [Cur(t) EXCEPT !.unread = fs[Cur(t).dir]]) :
     t \in Reopened(s)}

ChdirFails(s) == UNION {{Childless(Failed(u, "DP")) : u \in Fails(t, "chdir")} : t \in Reopened(s)}

\* cd_dot_dot, in the parent.  A cycle's node keeps its mark and stays entered.
GoneUp(s) ==
  IF Cur(s).info = "DC" THEN s
  ELSE IF Cur(s).errno THEN Informed(s, "ERR")
  ELSE leave_dir(Informed(s, "DP"))

Up(s) ==
  {GoneUp(s)} \cup Lost(Failed(s, IF Cur(s).info = "DC" THEN "DC" ELSE "ERR"))

DownOrUp(r) == IF r.entries = {} THEN Up(r.stream) ELSE Down(r.stream, r.entries)

-----------------------------------------------------------------------------
\* fts_open: the dummy node before the roots.
Init ==
  /\ fs \in FileSystems /\ opt \in Setups
  /\ sp \in SetUp([path |-> <<Node(CHOOSE d \in Dirs : TRUE, "INIT", Roots)>>,
                   status |-> "walking", active |-> {}, counter |-> 0, record |-> 0,
                   visited |-> {}, trouble |-> 0])

\* The caller's instruction for the node it got last.
fts_set(instr) ==
  /\ sp.status = "walking" /\ Cur(sp).instr = "NOINSTR" /\ Cur(sp).info \in opt.set_on
  /\ sp.trouble < MaxTrouble
  /\ sp' = With([sp EXCEPT !.trouble = @ + 1], [Cur(sp) EXCEPT !.instr = instr])
  /\ UNCHANGED fixed

NotZeroed == sp                                                   \* mutant

\* The stream with the instruction read and zeroed.
Heard == With(sp, [Cur(sp) EXCEPT !.instr = "NOINSTR"])

Becomes(outcomes) ==
  /\ sp.status = "walking"
  /\ sp' \in outcomes
  /\ UNCHANGED fixed

ReadAgain ==
  /\ Cur(sp).instr = "AGAIN"
  /\ Becomes({Informed(Heard, "D")} \cup {Failed(t, "NS") : t \in Fails(Heard, "stat")})

ReadSkipped ==
  /\ Cur(sp).instr = "SKIP" /\ Cur(sp).info = "D"
  /\ Becomes({leave_dir(Informed(Heard, "DP"))})

ReadInto ==
  /\ Cur(sp).instr = "NOINSTR" /\ Cur(sp).info = "D"
  /\ Becomes({Childless(Failed(t, "DNR")) : t \in Fails(sp, "open")}
               \cup RestatFails(sp) \cup ChdirFails(sp)
               \cup UNION {DownOrBack(r) : r \in UNION {Read(s) \cup ReadFails(s) : s \in Opened(sp)}})

MovesOn == Cur(sp).instr # "AGAIN" /\ Cur(sp).info # "D"
LastOfBatch == MovesOn /\ Cur(sp).link = {} /\ Len(sp.path) > 1

ReadSibling ==
  /\ MovesOn /\ Cur(sp).link # {} /\ Len(sp.path) > 1
  /\ Becomes(Moved(sp, Cur(sp).link))

\* Every root starts with new cycle-detection state.
ReadRoot ==
  /\ MovesOn /\ Cur(sp).link # {} /\ Len(sp.path) = 1
  /\ Becomes(Lost(sp) \cup UNION {Moved(s, Cur(s).link) : s \in SetUp(sp)})

ReadBatch ==
  /\ LastOfBatch /\ Parent(sp).dirp
  /\ Becomes(UNION {DownOrUp(r) : r \in Read(Popped(sp)) \cup ReadFails(Popped(sp))})

ReadUp ==
  /\ LastOfBatch /\ ~Parent(sp).dirp
  /\ Becomes(Up(Popped(sp)))

ReadEnd ==
  /\ MovesOn /\ Cur(sp).link = {} /\ Len(sp.path) = 1
  /\ Becomes({[sp EXCEPT !.status = "done"]})

fts_read == ReadAgain \/ ReadSkipped \/ ReadInto \/ ReadSibling \/ ReadRoot \/ ReadBatch
              \/ ReadUp \/ ReadEnd

Next == fts_read \/ \E instr \in {"AGAIN", "SKIP"} : fts_set(instr)

Spec == Init /\ [][Next]_vars

\* The caller goes on calling fts_read.
FairSpec == Spec /\ WF_vars(fts_read)

-----------------------------------------------------------------------------
TypeOK ==
  /\ fs \in FileSystems /\ opt \in Setups
  /\ sp.path \in Seq([dir : Dirs, info : Infos, errno : BOOLEAN, link : SUBSET Dirs,
                      dirp : BOOLEAN, unread : SUBSET Dirs,
                      instr : {"NOINSTR", "AGAIN", "SKIP"}])
  /\ sp.path # <<>>
  /\ sp.status \in {"walking", "done", "stopped", "aborted"}
  /\ sp.active \subseteq Dirs /\ sp.visited \subseteq Dirs
  /\ sp.counter \in Nat /\ sp.record \in Dirs /\ sp.trouble \in 0 .. MaxTrouble

\* leave_dir's and the macro's abort() are out of reach: a directory is left
\* once for each time it was entered (fts_read.h:155-177).
NeverAborts == sp.status # "aborted"

\* A node reported as a cycle is one of its own ancestors, even when the same
\* directory can be reached along several ways (fts_read.h:342-389).
CyclesAreReal ==
  sp.status = "walking" /\ Cur(sp).info = "DC" => Cur(sp).dir \in ToSet(Entered(sp))

\* The walk keeps the protocol of the lazy detection: checks on the way down,
\* reflects on the way up, and starts anew at every root, so that the record is
\* a recent ancestor (fts_read.h:170-176, 1184, 1224, 1271, 1374).
RecordIsRecent == ~HasTable /\ sp.status = "walking" => CC!RecordIsRecent

\* "a directory is recorded here IFF we have visited it once, but we have not
\* yet completed processing of all its entries" (FTS.h:154-158).
ActiveExact == HasTable /\ sp.status = "walking" => sp.active = ToSet(Entered(sp))

\* Every directory is left as often as it was entered; in between the table has
\* it, or the lazy detection a recent ancestor (enter_dir, leave_dir).
LeftAsEntered == TypeOK /\ NeverAborts /\ ActiveExact /\ RecordIsRecent

\* What every set has that has the roots and, with a directory, its entries.
Closed(dirs) == Roots \subseteq dirs /\ \A d \in dirs : fs[d] \subseteq dirs
Reachable == {d \in Dirs : \A dirs \in SUBSET Dirs : Closed(dirs) => d \in dirs}

\* Not descending into cycles, and reading in batches, loses nothing: without
\* faults every directory that can be reached has been read (fts_read.h:1229-1290).
NothingMissed == sp.status = "done" /\ sp.trouble = 0 => sp.visited = Reachable

\* Whatever cycles the graph has, the walk comes to an end (cycle_check.h:37-43).
WalkEnds == <>(sp.status # "walking")
=============================================================================
