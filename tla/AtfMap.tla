------------------------------- MODULE AtfMap -------------------------------
(***************************************************************************)
(* ATF's maps (atf.h): a list of entries in the order of their insertion,  *)
(* each with a copy of its key and a value that the map owns ("managed":   *)
(* it frees it) or only points to.  A map is a sequence of entries here,   *)
(* and the memory behind it a set of named blocks, so that what an         *)
(* operation allocates and frees can be compared with what is allocated.   *)
(*                                                                         *)
(* Maps are handed on as "charpp" arrays: key, value, ..., NULL.           *)
(***************************************************************************)
EXTENDS Naturals, Sequences, SequencesExt

NULL == <<"NULL">>      \* what a strdup() that failed returns; strings are sequences of tokens

Entry(key, value, managed) == [key |-> key, value |-> value, managed |-> managed]

\* What the iterators go through, from begin to end.
Positions(m) == DOMAIN m

\* The positions of a key: at most one, since an insertion replaces.
atf_map_find(m, key) == {i \in Positions(m) : m[i].key = key}

(***************************************************************************)
(* Blocks, named by the map's owner o: its two sentinel cells, the cell,   *)
(* entry and key of each key, and the values the map owns.                 *)
(***************************************************************************)
Ends(o) == <<"ends", o>>
Cell(o, key) == <<"cell", o, key>>
Value(o, key, value) == <<"value", o, key, value>>

Owned(o, e) == IF e.managed /\ e.value # NULL THEN {Value(o, e.key, e.value)} ELSE {}

\* What atf_map_fini frees: for each entry its value if managed, its key, the
\* entry and its list cell; then the sentinels.
MapBlocks(o, m) ==
    {Ends(o)} \cup UNION {{Cell(o, m[i].key)} \cup Owned(o, m[i]) : i \in Positions(m)}

(***************************************************************************)
(* atf_map_insert: a new key is appended, a known one gets the new value   *)
(* and the old value is freed if the map owned it.                         *)
(***************************************************************************)
Replaced(m, i, value, managed) ==
    [m EXCEPT ![i] = Entry(m[i].key, value, managed)]

FirstWins(m, key, value, managed) ==   \* mutant
    IF atf_map_find(m, key) = {} THEN Append(m, Entry(key, value, managed)) ELSE m

atf_map_insert(m, key, value, managed) ==
    IF atf_map_find(m, key) = {}
    THEN Append(m, Entry(key, value, managed))
    ELSE Replaced(m, CHOOSE i \in atf_map_find(m, key) : TRUE, value, managed)

FreesAnyValue(o, m, key) ==   \* mutant
    {Value(o, key, m[i].value) : i \in atf_map_find(m, key)}

\* What an insertion frees.
Displaced(o, m, key) == UNION {Owned(o, m[i]) : i \in atf_map_find(m, key)}

\* What it allocates, the managed value that the caller made for it included.
Inserted(o, m, key, value, managed) ==
    (IF atf_map_find(m, key) = {} THEN {Cell(o, key)} ELSE {})
        \cup Owned(o, Entry(key, value, managed))

(***************************************************************************)
(* atf_map_to_charpp and atf_map_init_charpp: copies of the keys and       *)
(* values, and a map that owns the values it is made of.                   *)
(***************************************************************************)
atf_map_to_charpp(m) == [i \in Positions(m) |-> <<m[i].key, m[i].value>>]

atf_map_init_charpp(array) ==
    LET upTo[i \in 0 .. Len(array)] ==
          IF i = 0 THEN <<>> ELSE atf_map_insert(upTo[i - 1], array[i][1], array[i][2], TRUE)
    IN upTo[Len(array)]

\* atf_map_to_charpp hands a value to strdup without a test for NULL.
CopyCrashes(m) == \E i \in Positions(m) : m[i].value = NULL
=============================================================================
