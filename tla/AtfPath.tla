------------------------------ MODULE AtfPath ------------------------------
(***************************************************************************)
(* ATF's paths (atf_fs_path in atf.h, on top of atf_dynstr).  A string is  *)
(* a sequence of tokens here: slashes, and the names between them.         *)
(***************************************************************************)
EXTENDS Integers, Sequences, SequencesExt

Slash == "/"

\* What strtok_r finds between the slashes, one after the other.
Names(p) ==
    LET upTo[i \in 0 .. Len(p)] ==
          IF i = 0 THEN <<>> ELSE IF p[i] = Slash THEN upTo[i - 1] ELSE Append(upTo[i - 1], p[i])
    IN upTo[Len(p)]

\* normalize: the names joined by single slashes, after a leading one if there
\* was one.  It asserts that the string is not empty.
Joined(names) ==
    [j \in 1 .. 2 * Len(names) - 1 |-> IF j % 2 = 0 THEN Slash ELSE names[(j + 1) \div 2]]
normalize(p) == (IF p[1] = Slash THEN <<Slash>> ELSE <<>>) \o Joined(Names(p))

\* atf_dynstr_rfind_ch: the last slash, 0 for atf_dynstr_npos.
rfind_ch(p) == LET slashes == {i \in DOMAIN p : p[i] = Slash}
               IN IF slashes = {} THEN 0 ELSE Max(slashes)

\* atf_dynstr_init_substr: what is outside the string is cut off.
init_substr(p, beg, end) == SubSeq(p, beg, IF end > Len(p) THEN Len(p) ELSE end)

branch_path(p) ==
    LET pos == rfind_ch(p) IN
    CASE pos = 0 -> <<".">>
      [] pos = 1 -> <<Slash>>
      [] OTHER -> init_substr(p, 1, pos - 1)

leaf_name(p) == init_substr(p, rfind_ch(p) + 1, Len(p))

is_absolute(p) == p[1] = Slash

\* atf_fs_path_append_path: a slash in between even if p ends in one.
append_path(p, q) ==
    p \o (IF is_absolute(q) THEN <<>> ELSE <<Slash>>) \o normalize(q)

\* atf_fs_path_to_absolute.
to_absolute(p, cwd) == append_path(normalize(cwd), p)

argv0_to_dir(argv0) == branch_path(normalize(argv0))

srcdir_strip_libtool(p) == IF leaf_name(p) = <<".libs">> THEN branch_path(p) ELSE p
=============================================================================
