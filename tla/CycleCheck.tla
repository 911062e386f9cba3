----------------------------- MODULE CycleCheck -----------------------------
(***************************************************************************)
(* gnulib's lazy detection of directory cycles (cycle_check_init.h,        *)
(* cycle_check.h, CYCLE_CHECK_REFLECT_CHDIR_UP.h) and the protocol its     *)
(* user keeps: the check is called on every way down, the macro on every   *)
(* way up to a directory that has been checked, and every starting         *)
(* directory gets a new state.  A directory is its device and inode.       *)
(***************************************************************************)
EXTENDS Naturals, Sequences

CONSTANTS Dirs,
          CounterLimit,   \* 2^64: where chdir_counter wraps around
          MaxDepth        \* bound of the model: directories on the path

ASSUME CycleAssumption ==
  /\ Dirs # {}
  /\ CounterLimit \in Nat \ {0, 1}
  /\ MaxDepth \in Nat

VARIABLES
  chdir_counter, dev_ino,   \* struct cycle_check_state
  path,                     \* the directories entered and not yet left
  answer,                   \* the last answer of cycle_check, or "abort"
  asked,                    \* the directory the last call was about
  wrapped                   \* has this walk's counter wrapped around? (history)

vars == <<chdir_counter, dev_ino, path, answer, asked, wrapped>>

\* (i & (i - 1)) == 0: there is no odd divisor but 1.
is_zero_or_power_of_two(i) == \A k \in 2 .. i : i % k = 0 => k % 2 = 0

NextCounter(i) == (i + 1) % CounterLimit

\* "You must call cycle_check at least once": a counter of 0 is no record.
AnyRecord(counter, recorded, d) == d = recorded                   \* mutant

IsRecorded(counter, recorded, d) == counter # 0 /\ d = recorded

RecordAfter(counter, recorded, d) ==
  IF is_zero_or_power_of_two(counter) /\ counter # 0 THEN d ELSE recorded

RecordUp(recorded, dir, subdir) == IF recorded = subdir THEN dir ELSE recorded

-----------------------------------------------------------------------------
\* The state is malloc'ed: what dev_ino holds is not determined.
Init ==
  /\ chdir_counter = 0 /\ dev_ino \in Dirs
  /\ path = <<>> /\ answer = "none" /\ asked \in Dirs /\ wrapped = FALSE

Fresh ==
  /\ chdir_counter' = 0
  /\ dev_ino' \in Dirs
  /\ answer' = "none"
  /\ wrapped' = FALSE
  /\ UNCHANGED <<path, asked>>

cycle_check_init == path = <<>> /\ answer # "abort" /\ Fresh

\* cycle_check on a way down, from a state that holds counter and recorded.
CheckFrom(counter, recorded, d) ==
  LET c == NextCounter(counter)
      found == IsRecorded(counter, recorded, d)
  IN /\ asked' = d
     /\ answer' = IF found \/ c = 0 THEN "cycle" ELSE "no cycle"
     /\ chdir_counter' = IF found THEN counter ELSE c
     /\ dev_ino' = IF found THEN recorded ELSE RecordAfter(c, recorded, d)
     /\ path' = IF found \/ c = 0 THEN path ELSE Append(path, d)

cycle_check(d) ==
  /\ path # <<>> /\ answer # "abort"
  /\ Len(path) < MaxDepth
  /\ CheckFrom(chdir_counter, dev_ino, d)
  /\ wrapped' = (wrapped \/ chdir_counter' = 0)

\* A starting directory: a new state, then the check.
Start(d) ==
  /\ path = <<>> /\ answer # "abort"
  /\ \E indeterminate \in Dirs : CheckFrom(0, indeterminate, d)
  /\ wrapped' = FALSE

LastOf(s) == s[Len(s)]

\* Up to a directory that has been checked; the macro aborts on a counter of 0.
CYCLE_CHECK_REFLECT_CHDIR_UP ==
  /\ Len(path) > 1 /\ answer # "abort"
  /\ IF chdir_counter = 0
     THEN answer' = "abort" /\ UNCHANGED dev_ino
     ELSE /\ dev_ino' = RecordUp(dev_ino, path[Len(path) - 1], LastOf(path))
          /\ answer' = "none"
  /\ path' = SubSeq(path, 1, Len(path) - 1)
  /\ UNCHANGED <<chdir_counter, asked, wrapped>>

\* Out of the starting directory: nothing is reflected.
Finish ==
  /\ Len(path) = 1 /\ answer # "abort"
  /\ path' = <<>> /\ answer' = "none"
  /\ UNCHANGED <<chdir_counter, dev_ino, asked, wrapped>>

Next ==
  \/ cycle_check_init
  \/ CYCLE_CHECK_REFLECT_CHDIR_UP
  \/ Finish
  \/ \E d \in Dirs : Start(d) \/ cycle_check(d)

Spec == Init /\ [][Next]_vars

-----------------------------------------------------------------------------
OnPath(d) == \E i \in 1 .. Len(path) : path[i] = d

TypeOK ==
  /\ chdir_counter \in 0 .. CounterLimit - 1
  /\ dev_ino \in Dirs /\ asked \in Dirs
  /\ path \in Seq(Dirs)
  /\ answer \in {"none", "no cycle", "cycle", "abort"}
  /\ wrapped \in BOOLEAN

\* The record is a directory the walk is in, and fewer than half of all the
\* checks were made below it: going up moves it along, and it is renewed in
\* time, so that a walk round a cycle meets it before long (cycle_check.h:53-70,
\* CYCLE_CHECK_REFLECT_CHDIR_UP.h:32-36).
RecordIsRecent ==
  chdir_counter # 0 /\ path # <<>> =>
    \E i \in 1 .. Len(path) :
      path[i] = dev_ino /\ 2 * (Len(path) - i) < chdir_counter

\* A directory said to close a cycle is one that the walk is in, whatever an
\* earlier walk or the allocator left in the state - unless this very call
\* wrapped the counter around (cycle_check.h:46-73).
NoFalseAlarm == answer = "cycle" => OnPath(asked) \/ (chdir_counter = 0 /\ wrapped)

\* The macro's abort() is out of reach until a counter wraps around: whoever
\* goes up has called cycle_check (CYCLE_CHECK_REFLECT_CHDIR_UP.h:29-31).
NeverAborts == answer = "abort" => wrapped
=============================================================================
