------------------------------ MODULE Tempname ------------------------------
(***************************************************************************)
(* tmpnam and the functions beneath it (gnulib's path_search and           *)
(* try_tempname_len), run by several tests at once, and what the two tests *)
(* that call tmpnam do with the name: tests/stat/dietlibc.c creates the    *)
(* file with O_EXCL, tests/printf/gcc-2.c opens it with freopen.           *)
(*                                                                         *)
(* A name is a directory and the digits that replace the Xs.  Digits come  *)
(* from random values, TnPower at a time, and what is left over goes into  *)
(* the next name.  A random value is any value, as it may be a clock's;    *)
(* that getrandom's values are redrawn when they would bias the digits     *)
(* shows in frequencies only.  lstat's EOVERFLOW counts as "exists".       *)
(***************************************************************************)
EXTENDS Integers, Sequences, FiniteSets

CONSTANTS
    TnTests,        \* processes
    TnDigits,       \* the letters of a name
    TnLength,       \* x_suffix_len
    TnPower,        \* BASE_62_DIGITS: digits in a random value
    TnAttempts,     \* attempts
    TnDirs          \* the sets of directories that may exist, of "P_tmpdir" and "/tmp"

ASSUME TnAssumption == TnAttempts \in Nat \ {0}

VARIABLES
    tn_dirs,        \* the directories that exist
    tn_files,       \* names that exist
    tn_pc,          \* per test: "search", "draw", "try", "named", "open" or "ended"
    tn_kind,        \* "FILE", "DIR" or "NOCREATE"
    tn_excl,        \* NOCREATE: the test creates the file with O_EXCL
    tn_tmpl,        \* the template: a directory and digits
    tn_vdigbuf,     \* digits left of the random value
    tn_count,
    tn_errno,       \* "none" where errno is what it was before the call
    \* seen only by the properties
    tn_met,         \* the names that the test met in use
    tn_made         \* per test: the name that it created, or <<>>

tnvars == <<tn_dirs, tn_files, tn_pc, tn_kind, tn_excl, tn_tmpl, tn_vdigbuf, tn_count, tn_errno,
            tn_met, tn_made>>
tnCaller == <<tn_dirs, tn_kind, tn_excl>>

TnInit ==
    /\ tn_dirs \in TnDirs /\ tn_files = {}
    /\ tn_pc = [t \in TnTests |-> "search"]
    /\ tn_kind \in [TnTests -> {"FILE", "DIR", "NOCREATE"}] /\ tn_excl \in [TnTests -> BOOLEAN]
    /\ tn_tmpl = [t \in TnTests |-> <<>>] /\ tn_vdigbuf = [t \in TnTests |-> <<>>]
    /\ tn_count = [t \in TnTests |-> 0] /\ tn_errno = [t \in TnTests |-> "none"]
    /\ tn_met = [t \in TnTests |-> {}] /\ tn_made = [t \in TnTests |-> <<>>]

Fails(t, errno) ==
    tn_pc' = [tn_pc EXCEPT ![t] = "ended"] /\ tn_errno' = [tn_errno EXCEPT ![t] = errno]

\* path_search(tmpl, L_tmpnam, NULL, NULL, 0).
path_search(t) ==
    /\ tn_pc[t] = "search"
    /\ \/ /\ tn_dirs = {} /\ Fails(t, "ENOENT") /\ UNCHANGED tn_tmpl
       \/ /\ tn_dirs # {} /\ UNCHANGED tn_errno /\ tn_pc' = [tn_pc EXCEPT ![t] = "draw"]
          /\ tn_tmpl' = [tn_tmpl EXCEPT ![t] =
               <<IF "P_tmpdir" \in tn_dirs THEN "P_tmpdir" ELSE "/tmp">>]
    /\ UNCHANGED <<tn_files, tnCaller, tn_vdigbuf, tn_count, tn_met, tn_made>>

----------------------------------------------------------------------------
\* try_tempname_len: an attempt's digits, from as many random values as it takes.
random_bits == [1 .. TnPower -> TnDigits]
Draws == IF TnLength <= TnPower THEN 1 ELSE 1 + TnLength \div TnPower
Draw(t) ==
    /\ tn_pc[t] = "draw" /\ tn_count[t] < TnAttempts
    /\ \E v \in [1 .. Draws -> random_bits] :
        LET have == Len(tn_vdigbuf[t])
            need == IF have >= TnLength THEN 0
                    ELSE (TnLength - have + TnPower - 1) \div TnPower
            all == [i \in 1 .. have + need * TnPower |->
                      IF i <= have THEN tn_vdigbuf[t][i]
                      ELSE v[(i - have - 1) \div TnPower + 1][((i - have - 1) % TnPower) + 1]]
        IN /\ tn_tmpl' = [tn_tmpl EXCEPT ![t] = <<@[1], SubSeq(all, 1, TnLength)>>]
           /\ tn_vdigbuf' = [tn_vdigbuf EXCEPT ![t] = SubSeq(all, TnLength + 1, Len(all))]
    /\ tn_pc' = [tn_pc EXCEPT ![t] = "try"]
    /\ UNCHANGED <<tn_files, tnCaller, tn_count, tn_errno, tn_met, tn_made>>

OutOfAttempts(t) ==
    /\ tn_pc[t] = "draw" /\ tn_count[t] = TnAttempts /\ Fails(t, "EEXIST")
    /\ UNCHANGED <<tn_files, tnCaller, tn_tmpl, tn_vdigbuf, tn_count, tn_met, tn_made>>

\* try_file and try_dir create what does not exist; try_nocreate only looks.
Creates(t) == tn_made' = [tn_made EXCEPT ![t] = tn_tmpl[t]]
               /\ tn_files' = tn_files \cup {tn_tmpl[t]}
IgnoresOthers(t) == FALSE       \* mutant
Exists(t) == tn_tmpl[t] \in tn_files
Tryfunc(t) ==
    /\ tn_pc[t] = "try"
    /\ \/ /\ Exists(t)
          /\ tn_pc' = [tn_pc EXCEPT ![t] = "draw"] /\ tn_count' = [tn_count EXCEPT ![t] = @ + 1]
          /\ tn_met' = [tn_met EXCEPT ![t] = @ \cup {tn_tmpl[t]}]
          /\ UNCHANGED <<tn_files, tn_made, tn_errno>>
       \/ /\ ~Exists(t) /\ tn_kind[t] # "NOCREATE" /\ Creates(t)
          /\ tn_pc' = [tn_pc EXCEPT ![t] = "open"] /\ UNCHANGED <<tn_count, tn_met, tn_errno>>
       \/ /\ ~Exists(t) /\ tn_kind[t] = "NOCREATE"
          /\ tn_pc' = [tn_pc EXCEPT ![t] = "named"]
          /\ UNCHANGED <<tn_count, tn_met, tn_files, tn_made, tn_errno>>
       \/ /\ ~Exists(t) /\ Fails(t, "other") /\ UNCHANGED <<tn_count, tn_met, tn_files, tn_made>>
    /\ UNCHANGED <<tnCaller, tn_tmpl, tn_vdigbuf>>

----------------------------------------------------------------------------
\* The caller opens the name that tmpnam returned.
TestOpens(t) ==
    /\ tn_pc[t] = "named"
    /\ \/ tn_tmpl[t] \notin tn_files /\ Creates(t)
            /\ tn_pc' = [tn_pc EXCEPT ![t] = "open"] /\ UNCHANGED tn_errno
       \/ tn_tmpl[t] \in tn_files /\ tn_excl[t] /\ Fails(t, "EEXIST") /\ UNCHANGED <<tn_made, tn_files>>
       \/ tn_tmpl[t] \in tn_files /\ ~tn_excl[t]
            /\ tn_pc' = [tn_pc EXCEPT ![t] = "open"] /\ UNCHANGED <<tn_made, tn_files, tn_errno>>
    /\ UNCHANGED <<tnCaller, tn_tmpl, tn_vdigbuf, tn_count, tn_met>>

\* ... and removes it in the end.
TestRemoves(t) ==
    /\ tn_pc[t] = "open" /\ tn_pc' = [tn_pc EXCEPT ![t] = "ended"]
    /\ tn_files' = tn_files \ {tn_tmpl[t]}
    /\ UNCHANGED <<tnCaller, tn_tmpl, tn_vdigbuf, tn_count, tn_errno, tn_met, tn_made>>

TnNext == \E t \in TnTests : path_search(t) \/ Draw(t) \/ OutOfAttempts(t) \/ Tryfunc(t)
                             \/ TestOpens(t) \/ TestRemoves(t)

TnSpec == TnInit /\ [][TnNext]_tnvars

----------------------------------------------------------------------------
(***************************************************************************)
(* No two tests use one file, whatever they interleave, as long as each    *)
(* has its file created for it or creates it with O_EXCL: a test's file    *)
(* exists until the test removes it.  And a test is only told EEXIST by    *)
(* try_tempname_len when every one of its attempts met a name in use.      *)
(***************************************************************************)
Careful == \A t \in TnTests : tn_kind[t] # "NOCREATE" \/ tn_excl[t]
TnExclusive ==
    /\ Careful =>
         /\ \A t, u \in TnTests :
              tn_pc[t] = "open" /\ tn_pc[u] = "open" /\ t # u => tn_tmpl[t] # tn_tmpl[u]
         /\ \A t \in TnTests : tn_pc[t] = "open" => tn_made[t] = tn_tmpl[t] /\ tn_made[t] \in tn_files
    /\ \A t \in TnTests :
         tn_errno[t] = "EEXIST" /\ tn_made[t] = <<>> /\ tn_kind[t] # "NOCREATE" =>
           tn_count[t] = TnAttempts /\ tn_met[t] # {}
=============================================================================
