------------------------------- MODULE Getopt -------------------------------
(***************************************************************************)
(* getopt and getopt_long (gnulib's getopt-common.h): what successive      *)
(* calls return, and how they permute the arguments.                       *)
(*                                                                         *)
(* An argument is a sequence of characters; go_argv holds numbers of       *)
(* arguments, so that a permutation can be told.  optind counts from 1, as *)
(* in C, where argv[0] is the program.  An option string is a record: its  *)
(* prefix ("-", "+" or ""), whether a colon comes first, and the kind of   *)
(* each letter ("no", "required", "optional", or "W" for "W;").  Messages  *)
(* and the set of candidates that one of them lists are left out.          *)
(***************************************************************************)
EXTENDS Integers, Sequences, SequencesExt, FiniteSetsExt

CONSTANTS
    GoArgvs,        \* argument vectors
    GoSpecs,        \* [prefix, posix, colon, short, longs, long, longOnly]
    GoMaxScans      \* bound on how often the caller scans the arguments

ASSUME GoAssumption ==
    /\ GoArgvs \subseteq Seq(Seq(STRING))
    \* -1, which getopt returns at the end and process_long_option where the argument is no
    \* long option ("short" below), is no option's value
    /\ \A spec \in GoSpecs :
         /\ "-1" \notin DOMAIN spec.short
         /\ DOMAIN spec.long \subseteq Nat
         /\ \A i \in DOMAIN spec.long : spec.long[i].val \notin {"-1", "short"}

VARIABLES
    go_data,        \* what a call is given: the arguments as they were at first (words), the
                    \* caller's option string and long options (spec), the arguments' numbers in
                    \* their present order (argv), and struct _getopt_data: optind, nextchar,
                    \* first_nonopt, last_nonopt, ordering, initialized
    go_done,        \* getopt returned -1
    go_results,     \* what this scan's calls returned
    go_first        \* the results of the scans before

govars == <<go_data, go_done, go_results, go_first>>

go_words == go_data.words
go_argv == go_data.argv

argc(d) == Len(d.words) + 1
Word(d, i) == d.words[d.argv[i]]

GoInit ==
    /\ \E words \in GoArgvs, spec \in GoSpecs :
         go_data = [words |-> words, spec |-> spec, argv |-> [i \in DOMAIN words |-> i],
                    optind |-> 1, nextchar |-> <<>>, first |-> 0, last |-> 0,
                    ordering |-> "PERMUTE", initialized |-> FALSE]
    /\ go_done = FALSE /\ go_results = <<>> /\ go_first = <<>>

----------------------------------------------------------------------------
Ordering(spec) == CASE spec.prefix = "-" -> "RETURN_IN_ORDER"
                    [] spec.prefix = "+" -> "REQUIRE_ORDER"
                    [] OTHER -> IF spec.posix THEN "REQUIRE_ORDER" ELSE "PERMUTE"

getopt_initialize(d) ==
    LET start == IF d.optind = 0 THEN 1 ELSE d.optind IN
    [d EXCEPT !.optind = start, !.first = start, !.last = start, !.nextchar = <<>>,
              !.initialized = TRUE, !.ordering = Ordering(d.spec)]

\* The swaps of exchange(): the shorter segment goes to the far end of the longer.
Swap(argv, p, q, len) ==
    [i \in DOMAIN argv |-> IF i \in p .. p + len - 1 THEN argv[i - p + q]
                           ELSE IF i \in q .. q + len - 1 THEN argv[i - q + p] ELSE argv[i]]
Pass(s, middle) ==
    LET low == middle - s.bottom high == s.top - middle IN
    IF high <= 0 \/ low <= 0 THEN s
    ELSE IF high > low
    THEN [s EXCEPT !.argv = Swap(@, s.bottom, s.top - low, low), !.top = @ - low]
    ELSE [s EXCEPT !.argv = Swap(@, s.bottom, middle, high), !.bottom = @ + high]
Swaps(argv, bottom, middle, top) ==
    LET after[k \in 0 .. top - bottom] ==
          IF k = 0 THEN [argv |-> argv, bottom |-> bottom, top |-> top]
          ELSE Pass(after[k - 1], middle)
    IN after[top - bottom].argv      \* a pass moves bottom or top, or there is nothing left

Unmoved(d) == [d EXCEPT !.argv = Swaps(d.argv, d.first, d.last, d.optind), !.last = d.optind] \* mutant
exchange(d) == [d EXCEPT !.argv = Swaps(d.argv, d.first, d.last, d.optind),
                         !.first = @ + (d.optind - d.last), !.last = d.optind]

\* For a caller that moved optind back.
Rational(d) == [d EXCEPT !.last = IF @ > d.optind THEN d.optind ELSE @,
                         !.first = IF @ > d.optind THEN d.optind ELSE @]

NONOPTION_P(word) == Len(word) < 2 \/ word[1] # "-"
\* Options that came after non-options go before them; non-options are skipped.
Gathered(d) ==
    CASE d.first # d.last /\ d.last # d.optind -> exchange(d)
      [] d.first = d.last /\ d.last # d.optind -> [d EXCEPT !.first = d.optind]
      [] OTHER -> d
Permuted(d) ==
    LET e == Gathered(d)
        next == Min({argc(d)} \cup {i \in e.optind .. argc(d) - 1 : ~NONOPTION_P(Word(e, i))})
    IN IF d.ordering # "PERMUTE" THEN d ELSE [e EXCEPT !.optind = next, !.last = next]

\* "--": the rest are non-options.
EndOfOptions(d) ==
    LET e == [d EXCEPT !.optind = @ + 1]
        f == CASE e.first # e.last /\ e.last # e.optind -> exchange(e)
               [] e.first = e.last -> [e EXCEPT !.first = e.optind]
               [] OTHER -> e
    IN IF d.optind # argc(d) /\ Word(d, d.optind) = <<"-", "-">>
       THEN [f EXCEPT !.last = argc(d), !.optind = argc(d)] ELSE d

----------------------------------------------------------------------------
\* What a call leaves and returns.
Null == <<>>
Returns(d, code, arg) == [data |-> d, code |-> code, arg |-> arg]
Missing(d) == IF d.spec.colon THEN ":" ELSE "?"

\* The long options that nextchar may mean.
NameOf(text) == LET k == SelectInSeq(text, LAMBDA c : c = "=") IN
                IF k = 0 THEN text ELSE SubSeq(text, 1, k - 1)
Exact(d, name) == {i \in DOMAIN d.spec.long : d.spec.long[i].name = name}
Partial(d, name) == {i \in DOMAIN d.spec.long : IsPrefix(name, d.spec.long[i].name)}
Candidates(d, name) == IF Exact(d, name) # {} THEN {Min(Exact(d, name))} ELSE Partial(d, name)
Same(p, q) == p.has_arg = q.has_arg /\ p.flag = q.flag /\ p.val = q.val
Ambiguous(d, options, long_only) ==
    \E i \in options : i # Min(options)
        /\ (long_only \/ ~Same(d.spec.long[Min(options)], d.spec.long[i]))

Refused(d) == Returns([d EXCEPT !.nextchar = Null, !.optind = @ + 1], "?", Null)

\* The code "short" stands for -1: not a long option after all.
process_long_option(d, text, long_only) ==
    LET name == NameOf(text)
        found == Candidates(d, name)
        value == SubSeq(text, Len(name) + 2, Len(text))
        option == d.spec.long[Min(found)]
        e == [d EXCEPT !.optind = @ + 1, !.nextchar = Null]
        code == IF option.flag THEN "0" ELSE option.val
    IN CASE found # {} /\ Ambiguous(d, found, long_only) -> Refused(d)
         [] found = {} /\ long_only /\ Word(d, d.optind)[2] # "-"
              /\ text[1] \in DOMAIN d.spec.short -> Returns(d, "short", Null)
         [] found = {} /\ ~(long_only /\ Word(d, d.optind)[2] # "-"
              /\ text[1] \in DOMAIN d.spec.short) -> Refused(d)
         [] OTHER ->
              IF name # text
              THEN IF option.has_arg = "no" THEN Returns(e, "?", Null) ELSE Returns(e, code, value)
              ELSE IF option.has_arg # "required" THEN Returns(e, code, Null)
              ELSE IF e.optind = argc(d) THEN Returns(e, Missing(d), Null)
              ELSE Returns([e EXCEPT !.optind = @ + 1], code, Word(e, e.optind))

\* The next letter.
ShortOption(d, text) ==
    LET c == text[1] rest == Tail(text)
        e == [d EXCEPT !.nextchar = rest, !.optind = IF rest = <<>> THEN @ + 1 ELSE @]
        taken == [e EXCEPT !.nextchar = Null, !.optind = @ + 1]
        kind == IF d.spec.short[c] = "W" /\ ~d.spec.longs THEN "no" ELSE d.spec.short[c]
    IN CASE c \notin DOMAIN d.spec.short -> Returns(e, "?", Null)
         [] c \in DOMAIN d.spec.short /\ kind \in {"required", "W"}
              /\ rest = <<>> /\ e.optind = argc(d) -> Returns([e EXCEPT !.nextchar = Null], Missing(d), Null)
         [] OTHER ->
              IF kind = "W"
              THEN process_long_option(e, IF rest = <<>> THEN Word(e, e.optind) ELSE rest, FALSE)
              ELSE IF kind \in {"required", "optional"} /\ rest # <<>> THEN Returns(taken, c, rest)
              ELSE IF kind = "required" THEN Returns(taken, c, Word(e, e.optind))
              ELSE Returns(e, c, Null)

NewWord(d) ==
    LET word == Word(d, d.optind) text == Tail(word)
        asLong == process_long_option(d, text, TRUE)
    IN CASE d.optind = argc(d) ->
              Returns([d EXCEPT !.optind = IF d.first # d.last THEN d.first ELSE @], "-1", Null)
         [] d.optind # argc(d) /\ NONOPTION_P(word) ->
              IF d.ordering = "REQUIRE_ORDER" THEN Returns(d, "-1", Null)
              ELSE Returns([d EXCEPT !.optind = @ + 1], "1", word)
         [] OTHER ->
              IF ~d.spec.longs THEN ShortOption(d, text)
              ELSE IF text[1] = "-" THEN process_long_option(d, Tail(text), d.spec.longOnly)
              ELSE IF d.spec.longOnly /\ (Len(word) > 2 \/ text[1] \notin DOMAIN d.spec.short)
                      /\ asLong.code # "short" THEN asLong
              ELSE ShortOption(d, text)

getopt_internal_r(d) ==
    LET e == IF d.optind = 0 \/ ~d.initialized THEN getopt_initialize(d) ELSE d
    IN IF e.nextchar # <<>> THEN ShortOption(e, e.nextchar)
       ELSE NewWord(EndOfOptions(Permuted(Rational(e))))

----------------------------------------------------------------------------
getopt ==
    LET r == getopt_internal_r(go_data) IN
    /\ ~go_done
    /\ go_data' = r.data
    /\ go_done' = (r.code = "-1")
    /\ go_results' = Append(go_results, <<r.code, r.arg>>)
    /\ UNCHANGED go_first

\* The caller sets optind to scan again: to 0, which initialises anew, or to 1.
Rewind ==
    /\ go_done /\ Len(go_first) + 1 < GoMaxScans
    /\ \E start \in {0, 1} : go_data' = [go_data EXCEPT !.optind = start]
    /\ go_done' = FALSE /\ go_results' = <<>> /\ go_first' = Append(go_first, go_results)

GoNext == getopt \/ Rewind
GoSpec == GoInit /\ [][GoNext]_govars

----------------------------------------------------------------------------
(***************************************************************************)
(* When getopt has returned -1, argv holds the arguments it was given, and *)
(* from optind on exactly what was passed over: in the original order, as  *)
(* is what precedes it, and with nothing that looks like an option unless  *)
(* "--" or, where the order counts, a non-option came before.  (The        *)
(* comment at getopt-common.h:411 promises it.)  A second scan is left out *)
(* if the first met an option that lacks its argument: permuted, it takes  *)
(* a non-option for it.                                                    *)
(***************************************************************************)
Lacked(results) == \E k \in DOMAIN results : results[k][1] \in {"?", ":"}
Rescannable == go_first = <<>> \/ ~Lacked(go_first[1])
Increasing(s) == \A i, j \in DOMAIN s : i < j => s[i] < s[j]
Escaped(n) ==
    \E m \in 1 .. n - 1 :
        \/ go_words[m] = <<"-", "-">>
        \/ go_data.ordering = "REQUIRE_ORDER" /\ NONOPTION_P(go_words[m])
GoSorted ==
    go_done /\ Rescannable =>
        /\ {go_argv[i] : i \in DOMAIN go_argv} = DOMAIN go_words
        /\ go_data.optind \in 1 .. argc(go_data)
        /\ Increasing(SubSeq(go_argv, 1, go_data.optind - 1))
        /\ Increasing(SubSeq(go_argv, go_data.optind, argc(go_data) - 1))
        /\ \A i \in go_data.optind .. argc(go_data) - 1 :
             NONOPTION_P(go_words[go_argv[i]]) \/ Escaped(go_argv[i])

(***************************************************************************)
(* A second scan of the arguments, which are permuted by now, returns what *)
(* the first one did, whether optind was set to 0 or to 1: the options do  *)
(* not depend on where the non-options stand, and nothing of the first     *)
(* scan stays behind.                                                      *)
(***************************************************************************)
GoRescan == go_done /\ go_first # <<>> /\ Rescannable => go_results = go_first[1]

\* What a scan leaves behind: arguments in order, and a second scan like the first
\* (_getopt_internal_r).
GoSound == GoSorted /\ GoRescan
=============================================================================
