------------------------------ MODULE MCGnulib ------------------------------
(***************************************************************************)
(* The parts of gnulib that a test can use by themselves, one of them, the *)
(* chosen one, at a time.  The others stay in one of their initial states. *)
(***************************************************************************)
EXTENDS CycleCheck, IRing, Getopt, Tempname, FtsLeaf

CONSTANTS f1, f2, f3

VARIABLE chosen

MCValues == {f1, f2, f3}

\* Short options a, b: and o::, W;, the long ones fg:, fh and f::, all kinds of words.
MCArgvs ==
  LET Words == {<<"x">>, <<"-">>, <<"-", "-">>, <<"-", "a">>, <<"-", "a", "b">>, <<"-", "b", "v">>,
                <<"-", "b">>, <<"-", "o">>, <<"-", "W">>, <<"-", "-", "f">>,
                <<"-", "-", "f", "g", "=", "v">>, <<"-", "z">>, <<"-", "f", "g">>}
  IN UNION {[1 .. n -> Words] : n \in 0 .. 3}

MCSpecs ==
  LET Long(name, arg, flag, val) == [name |-> name, has_arg |-> arg, flag |-> flag, val |-> val]
  IN {[prefix |-> prefix, posix |-> posix, colon |-> FALSE,
       short |-> [a |-> "no", b |-> "required", o |-> "optional", W |-> "W"], longs |-> TRUE,
       long |-> <<Long(<<"f", "g">>, "required", FALSE, "G"), Long(<<"f", "h">>, "no", TRUE, "H"),
                  Long(<<"f">>, "optional", FALSE, "F")>>,
       longOnly |-> only] : prefix \in {"", "-"}, posix, only \in BOOLEAN}

MCTnDirs == {{}, {"/tmp"}, {"P_tmpdir", "/tmp"}}

\* Walks over two directories of one device, whatever its type, and over three of
\* two devices.
MCSetups ==
  LET Root(dev, entries) == [dev |-> dev, entries |-> entries]
      With(logical, nostat, cwdfd, compar, d_type, roots, long, types) ==
        [logical |-> logical, nostat |-> nostat, cwdfd |-> cwdfd, compar |-> compar,
         d_type |-> d_type, roots |-> roots, long |-> long, types |-> types,
         kinds |-> <<"file", "dir", "to_dir", "file", "dir", "broken">>]
  IN {With(mode = "logical", TRUE, mode = "cwdfd", by[1], d_type,
           <<Root(1, <<3, 1, 2>>), Root(1, <<4>>)>>, {2}, <<by[2]>>) :
        mode \in {"logical", "fchdir", "cwdfd"}, d_type \in BOOLEAN,
        by \in ({"none"} \X {"proc", "tmpfs", "other"}) \cup ({"stat", "defer"} \X {"other"})}
     \cup {With(FALSE, nostat, TRUE, "none", TRUE,
                <<Root(1, <<4>>), Root(2, <<5, 1>>), Root(1, <<6, 3, 2>>)>>, {6}, <<"other", "proc">>) :
             nostat \in BOOLEAN}

Unless(c, var, set) == chosen = c \/ var = CHOOSE x \in set : TRUE

MCFirstArgv == CHOOSE argv \in MCArgvs : TRUE
MCFirstSpec == CHOOSE spec \in MCSpecs : TRUE

MCInit ==
  /\ chosen \in {"cycle_check", "i_ring", "getopt", "tempname", "fts_build"}
  /\ GoInit /\ (chosen = "getopt" \/ <<go_words, go_data.spec>> = <<MCFirstArgv, MCFirstSpec>>)
  /\ Unless("cycle_check", dev_ino, Dirs) /\ Unless("cycle_check", asked, Dirs) /\ Init
  /\ IRingInit
  /\ Unless("tempname", tn_dirs, MCTnDirs) /\ Unless("tempname", tn_excl, [TnTests -> BOOLEAN])
  /\ Unless("tempname", tn_kind, [TnTests -> {"FILE", "DIR", "NOCREATE"}]) /\ TnInit
  /\ Unless("fts_build", fl_opt, MCSetups) /\ FlInit

MCNext ==
  \/ chosen = "cycle_check" /\ Next /\ UNCHANGED <<ringvars, govars, tnvars, flvars>>
  \/ chosen = "i_ring" /\ IRingNext /\ UNCHANGED <<vars, govars, tnvars, flvars>>
  \/ chosen = "getopt" /\ GoNext /\ UNCHANGED <<vars, ringvars, tnvars, flvars>>
  \/ chosen = "tempname" /\ TnNext /\ UNCHANGED <<vars, ringvars, govars, flvars>>
  \/ chosen = "fts_build" /\ FlNextStep /\ UNCHANGED <<vars, ringvars, govars, tnvars>>

\* Where the chosen one may stop.
MCEnded ==
  \/ answer = "abort" \/ aborted \/ go_done
  \/ \A t \in TnTests : tn_pc[t] = "ended"
  \/ fl.pc \in {"ended", "stopped"}

mcvars == <<vars, ringvars, govars, tnvars, flvars, chosen>>

MCSpec ==
  MCInit /\ [][(MCNext /\ UNCHANGED chosen) \/ (MCEnded /\ UNCHANGED mcvars)]_mcvars
=============================================================================
