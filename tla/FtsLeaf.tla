------------------------------- MODULE FtsLeaf -------------------------------
(***************************************************************************)
(* How fts_build reads a directory and what fts_read makes of its entries  *)
(* (fts_read.h, fts-common.h): batches, sorting on inode numbers, entries  *)
(* that need no stat, directories whose link count says that they have no  *)
(* subdirectories, and the buffer of the file name, which realloc moves.   *)
(* The roots are directories; the caller skips every directory in them.    *)
(* FTS_SEEDOT, FTS_NOCHDIR and the instructions of fts_set are left out.   *)
(***************************************************************************)
EXTENDS Naturals, Sequences, SequencesExt, FiniteSets

CONSTANTS FlSetups,       \* see FlSetup
          FlMaxEntries,   \* FTS_MAX_READDIR_ENTRIES
          FlThreshold,    \* FTS_INODE_SORT_DIR_ENTRIES_THRESHOLD
          FlMaxTrouble    \* bound of the model: failures and changes of the files

\* The file systems that are told apart; 0 of filesystem_type is "unknown".
FlTypes == {"unknown", "afs", "cifs", "nfs", "proc", "tmpfs", "other"}

\* What an entry is: a link leads to a directory, to a file or nowhere.
FlKinds == {"file", "dir", "to_dir", "to_file", "broken"}

\* The options of fts_open, whether readdir knows types, the roots - each the inode
\* numbers of its entries in the order of readdir -, the entries whose names do not
\* fit in the buffer, and what the entries and the devices are at first.
FlSetup == [logical : BOOLEAN, nostat : BOOLEAN, cwdfd : BOOLEAN,
            compar : {"none", "stat", "defer"}, d_type : BOOLEAN,
            roots : Seq([dev : Nat, entries : Seq(Nat)]), long : SUBSET Nat,
            kinds : Seq(FlKinds), types : Seq(FlTypes \ {"unknown"})]

ASSUME FlAssumption ==
  /\ FlMaxEntries \in Nat \ {0} /\ FlSetups \subseteq FlSetup
  /\ \A setup \in FlSetups :
       /\ setup.roots # <<>>
       /\ \A i \in DOMAIN setup.roots :
            /\ setup.roots[i].dev \in DOMAIN setup.types
            /\ Range(setup.roots[i].entries) \subseteq DOMAIN setup.kinds

VARIABLES
  fl_opt,      \* the setup
  fl_files,    \* what entries and devices are now, and which entries changed
  fl           \* FTS, with the place in fts_read

flvars == <<fl_opt, fl_files, fl>>

FlHere(s) == Head(s.nodes).root

FlCounted == Cardinality({n \in Range(FlHere(fl).entries) : fl_files.kinds[n] = "dir"})

\* What fstat says: file systems that do not count subdirectories say 2.
FlLinks == IF fl_files.types[FlHere(fl).dev] \in {"afs", "cifs", "nfs", "proc"}
           THEN 2 ELSE 2 + FlCounted

\* A failure, or a change of the files, within the bound of the model.
FlTrouble(s) == IF s.trouble < FlMaxTrouble THEN {[s EXCEPT !.trouble = @ + 1]} ELSE {}

\* A logical walk does not change directory: fts_open clears FTS_CWDFD for it.
FlCwdfd == fl_opt.cwdfd /\ ~fl_opt.logical

\* The return to the initial directory can only fail when it is an fchdir.
restore_initial_cwd(s) == IF fl_opt.logical \/ fl_opt.cwdfd THEN {} ELSE FlTrouble(s)

-----------------------------------------------------------------------------
(* The type of the file system, and what it decides.                       *)

\* filesystem_type: the type and the stream after; the table keeps what fstatfs said.
filesystem_type(s) ==
  LET dev == FlHere(s).dev
      type == fl_files.types[dev]
  IN IF ~FlCwdfd THEN {<<"unknown", s>>}
     ELSE IF dev \in DOMAIN s.ht THEN {<<s.ht[dev], s>>}
     ELSE {<<type, [s EXCEPT !.ht = [d \in DOMAIN @ \cup {dev} |-> IF d = dev THEN type ELSE @[d]]]>>}
          \cup {<<known, t>> : known \in {type, "unknown"}, t \in FlTrouble(s)}

dirent_inode_sort_may_be_useful(type) == type \notin {"cifs", "nfs", "tmpfs"}

TrustsProc(type) == type \notin {"unknown", "afs", "cifs", "nfs"}      \* mutant

leaf_optimization(type) == type \notin {"unknown", "afs", "cifs", "nfs", "proc"}

\* May the directory have subdirectories?  The answer and the stream after.
Descends(s) ==
  IF fl_opt.nostat /\ ~fl_opt.logical /\ FlLinks = 2
  THEN {<<~leaf_optimization(r[1]), r[2]>> : r \in filesystem_type(s)}
  ELSE {<<TRUE, s>>}

-----------------------------------------------------------------------------
(* The entries.                                                            *)

\* fts_stat, of what the entry is now.
fts_stat(n) ==
  CASE fl_files.kinds[n] = "dir" -> "D"
    [] fl_files.kinds[n] = "file" -> "F"
    [] fl_files.kinds[n] = "to_dir" -> IF fl_opt.logical THEN "D" ELSE "SL"
    [] fl_files.kinds[n] = "to_file" -> IF fl_opt.logical THEN "F" ELSE "SL"
    [] fl_files.kinds[n] = "broken" -> IF fl_opt.logical THEN "SLNONE" ELSE "SL"

IsLink(n) == fl_files.kinds[n] \in {"to_dir", "to_file", "broken"}

\* skip_stat: readdir tells that the entry is no directory for this walk.
skip_stat(n) ==
  /\ fl_opt.nostat /\ fl_opt.d_type
  /\ fl_files.kinds[n] # "dir"
  /\ ~fl_opt.logical \/ ~IsLink(n)

\* fts_alloc and the fields that fts_build sets.
FlNode(s, n) ==
  IF fl_opt.compar = "stat" THEN [ino |-> n, info |-> fts_stat(n), required |-> FALSE, path |-> s.path]
  ELSE [ino |-> n, info |-> "NSOK", required |-> ~skip_stat(n), path |-> s.path]

\* fts_sort, on inode numbers, in any order where they are equal; without memory for
\* its array the list stays.
Orders(list) ==
  {p \in Bijection(DOMAIN list, DOMAIN list) : \A i, j \in DOMAIN list : i < j => list[p[i]].ino <= list[p[j]].ino}
fts_sort(s) == {[s EXCEPT !.list = [i \in DOMAIN @ |-> @[p[i]]]] : p \in Orders(s.list)} \cup {s}

ChildrenOnly(s) ==                                                     \* mutant
  [s EXCEPT !.list = [i \in DOMAIN @ |-> [@[i] EXCEPT !.path = s.path]],
            !.nodes[1].path = s.path, !.moved = FALSE]

\* fts_padjust: the list, then the directory, its later siblings and its ancestors.
fts_padjust(s) ==
  [s EXCEPT !.list = [i \in DOMAIN @ |-> [@[i] EXCEPT !.path = s.path]],
            !.nodes = [i \in DOMAIN @ |-> [@[i] EXCEPT !.path = s.path]], !.moved = FALSE]

-----------------------------------------------------------------------------
(* fts_build.                                                              *)

FlStop(s) == [s EXCEPT !.pc = "stopped", !.info = "ERR", !.list = <<>>, !.dirp = FALSE]

\* The post-order visit: what failed is told.
FlPost(s) ==
  [s EXCEPT !.pc = "post", !.info = IF s.errno /\ @ # "DNR" THEN "ERR" ELSE IF @ = "DNR" THEN @ ELSE "DP"]

\* Opening fails, or the change into the directory does: then it is not read.
FlOpen ==
  /\ fl.pc = "build" /\ UNCHANGED <<fl_opt, fl_files>>
  /\ \/ fl' \in {FlPost([t EXCEPT !.info = "DNR", !.errno = TRUE]) : t \in FlTrouble(fl)}
     \/ \E r \in Descends(fl) :
          \/ fl' = [r[2] EXCEPT !.pc = "read", !.dirp = TRUE, !.unread = FlHere(fl).entries]
          \/ ~fl_opt.logical /\ fl' \in {FlPost([t EXCEPT !.errno = r[1]]) : t \in FlTrouble(r[2])}

\* readdir ends or fails; after some entries the directory is not unreadable.
FlReaddirEnds ==
  /\ fl.pc = "read" /\ UNCHANGED <<fl_opt, fl_files>>
  /\ \/ fl.unread = <<>> /\ fl' = [fl EXCEPT !.pc = "built", !.dirp = FALSE]
     \/ fl' \in {[t EXCEPT !.pc = "built", !.dirp = FALSE, !.errno = TRUE,
                           !.info = IF t.resumed \/ t.list # <<>> THEN "ERR" ELSE "DNR"] : t \in FlTrouble(fl)}

\* fts_palloc for a name that does not fit: realloc may move the buffer.
fts_palloc(s, n) ==
  IF n \notin fl_opt.long THEN {s} ELSE {s, [s EXCEPT !.path = @ + 1, !.moved = TRUE]}

\* Is the list going to be sorted?  Asked once, at the threshold.
WillSort(s) ==
  IF Len(s.list) = FlThreshold /\ s.compar = "none"
  THEN {[r[2] EXCEPT !.sort = dirent_inode_sort_may_be_useful(r[1])] : r \in filesystem_type(s)}
  ELSE {s}

\* The next entry joins the list; no memory for it, or for its name, ends the walk.
FlReaddir ==
  /\ fl.pc = "read" /\ fl.unread # <<>> /\ UNCHANGED <<fl_opt, fl_files>>
  /\ \/ fl' \in {FlStop(t) : t \in FlTrouble(fl)}
     \/ \E s \in fts_palloc(fl, Head(fl.unread)) : \E t \in WillSort(s) :
          LET list == Append(t.list, FlNode(t, Head(t.unread)))
          IN fl' = [t EXCEPT !.list = list, !.unread = Tail(@),
                             !.pc = IF t.compar = "none" /\ FlMaxEntries <= Len(list) THEN "built" ELSE @]

\* fts_compar is the comparison of inode numbers only for the time of the sort.
SortedByInode(s) == {[t EXCEPT !.sort = FALSE] : t \in fts_sort(s)}

\* The end of fts_build; back to the parent from a directory with nothing in it.
FlBuilt ==
  /\ fl.pc = "built" /\ UNCHANGED <<fl_opt, fl_files>>
  /\ LET s == IF fl.moved THEN fts_padjust(fl) ELSE fl
     IN IF s.list = <<>>
        THEN fl' \in {FlPost(s)} \cup {FlStop(t) : t \in restore_initial_cwd(s)}
        ELSE \E t \in IF s.sort THEN SortedByInode(s) ELSE {s} :
               \E u \in IF t.compar = "none" THEN {t} ELSE fts_sort(t) : fl' = [u EXCEPT !.pc = "entry"]

-----------------------------------------------------------------------------
(* fts_read, on the entries.                                               *)

\* check_for_dir: an entry is returned to the caller, after a stat if it needs one.
FlEntry ==
  /\ fl.pc = "entry" /\ UNCHANGED <<fl_opt, fl_files>>
  /\ LET n == Head(fl.list)
         Given(s, info) == [s EXCEPT !.pc = "given", !.seen = Append(@, [ino |-> n.ino, info |-> info])]
     IN IF n.info = "NSOK" /\ n.required
        THEN fl' \in {Given(fl, fts_stat(n.ino))} \cup {Given(t, "NS") : t \in FlTrouble(fl)}
        ELSE fl' = Given(fl, n.info)

\* The next call: the next entry, the next batch, or back to the parent.
FlNext ==
  /\ fl.pc = "given" /\ UNCHANGED <<fl_opt, fl_files>>
  /\ LET s == [fl EXCEPT !.list = Tail(@)]
     IN \/ s.list # <<>> /\ fl' = [s EXCEPT !.pc = "entry"]
        \/ /\ s.list = <<>> /\ s.dirp
           /\ fl' \in {[s EXCEPT !.pc = "read", !.resumed = TRUE]} \cup
                      {FlPost([t EXCEPT !.dirp = FALSE, !.errno = TRUE]) : t \in FlTrouble(s)}
        \/ /\ s.list = <<>> /\ ~s.dirp
           /\ fl' \in {FlPost(s)} \cup {FlStop(t) : t \in restore_initial_cwd(s)}

\* fts_load: the stream stands at the next root.
fts_load(s) ==
  [s EXCEPT !.pc = "build", !.info = "D", !.errno = FALSE, !.resumed = FALSE, !.seen = <<>>]

\* The next root, by way of the initial working directory; or the end of the walk.
FlNextRoot ==
  /\ fl.pc = "post" /\ UNCHANGED <<fl_opt, fl_files>>
  /\ LET s == [fl EXCEPT !.nodes = Tail(@)]
     IN IF s.nodes = <<>> THEN fl' = [s EXCEPT !.pc = "ended"]
        ELSE fl' \in {fts_load(s)} \cup {FlStop(t) : t \in restore_initial_cwd(s)}

-----------------------------------------------------------------------------
(* Others: an entry is replaced; a device number is given to another file  *)
(* system, mounted before a root is entered.                               *)

FlReplace ==
  /\ fl.pc \in {"read", "entry", "given"} /\ fl.trouble < FlMaxTrouble
  /\ \E n \in Range(FlHere(fl).entries), k \in FlKinds \ {"broken"} :
       /\ fl_files.kinds[n] # k
       /\ fl_files' = [fl_files EXCEPT !.kinds[n] = k, !.changed = @ \cup {n}]
  /\ fl' = [fl EXCEPT !.trouble = @ + 1] /\ UNCHANGED fl_opt

FlRemount ==
  /\ fl.pc = "build" /\ fl.trouble < FlMaxTrouble
  /\ \E dev \in DOMAIN fl_files.types, type \in {"proc", "other"} :
       fl_files.types[dev] # type /\ fl_files' = [fl_files EXCEPT !.types[dev] = type]
  /\ fl' = [fl EXCEPT !.trouble = @ + 1] /\ UNCHANGED fl_opt

FlInit ==
  /\ fl_opt \in FlSetups
  /\ fl_files = [kinds |-> fl_opt.kinds, types |-> fl_opt.types, changed |-> {}]
  /\ fl = [pc |-> "build", nodes |-> [i \in DOMAIN fl_opt.roots |-> [root |-> fl_opt.roots[i], path |-> 0]],
           info |-> "D", errno |-> FALSE, dirp |-> FALSE, unread |-> <<>>, list |-> <<>>, resumed |-> FALSE,
           path |-> 0, moved |-> FALSE, sort |-> FALSE, seen |-> <<>>, ht |-> <<>>, trouble |-> 0,
           compar |-> IF fl_opt.compar = "none" THEN "none" ELSE "caller"]

FlNextStep ==
  FlOpen \/ FlReaddir \/ FlReaddirEnds \/ FlBuilt \/ FlEntry \/ FlNext \/ FlNextRoot \/ FlReplace \/ FlRemount

FlSpec == FlInit /\ [][FlNextStep]_flvars

-----------------------------------------------------------------------------

FlStale(dev) == dev \in DOMAIN fl.ht /\ fl.ht[dev] # fl_files.types[dev]

\* A directory in post-order without an error has given every entry, once, over all
\* its batches; or nothing, because it could not be entered and has no subdirectory -
\* unless its device number stands for another file system than when it was asked
\* (fts_build's descend and filesystem_type's table, fts_read.h).
FlNothingSkipped ==
  fl.pc = "post" /\ fl.info = "DP" =>
    LET entries == FlHere(fl).entries
    IN \/ Len(fl.seen) = Len(entries) /\ {e.ino : e \in Range(fl.seen)} = Range(entries)
       \/ /\ fl.seen = <<>>
          /\ \/ FlStale(FlHere(fl).dev)
             \/ \A n \in Range(entries) \ fl_files.changed : fl_files.kinds[n] # "dir"

\* An entry that was a directory from when it was read on - in a logical walk, or a
\* link to one - is returned as a directory, if it can be stat'ed at all: skipping the
\* stat of what readdir knows hides none (skip_stat in fts_build, fts_read.h).
FlDirsEntered ==
  \A e \in Range(fl.seen) :
    e.ino \notin fl_files.changed /\ fts_stat(e.ino) = "D" => e.info \in {"D", "NS"}

\* Nothing of a directory is skipped, and nothing taken for less than a directory,
\* for the sake of speed (fts_build).
FlAllFound == FlNothingSkipped /\ FlDirsEntered

\* Whenever the caller has control, every node it can reach points into the buffer
\* of the file name as it is now, and a walk without a comparison function of the
\* caller's keeps no more than a batch of entries (fts_padjust and the sort of
\* fts_build, fts_read.h).
FlListSound ==
  /\ fl.pc \in {"entry", "given", "post"} =>
       \A node \in Range(fl.list) \cup Range(fl.nodes) : node.path = fl.path
  /\ fl_opt.compar = "none" => Len(fl.list) <= FlMaxEntries
=============================================================================
