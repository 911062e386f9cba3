------------------------------ MODULE MCFtsCwd ------------------------------
(* Two trees of five directories, deeper than a ring of two reaches.  In the *)
(* second one a directory with the root's name waits to replace it.        *)
EXTENDS FtsCwd
MCDirs == {"r", "a", "b", "c", "e"}
MCName == [d \in MCDirs |-> CASE d \in {"r", "a"} -> "r" [] d = "b" -> "x" [] d = "c" -> "y" [] d = "e" -> "z"]
MCTrees == {[r |-> "start", a |-> "r", b |-> "a", c |-> "b", e |-> "c"],
            [r |-> "start", a |-> "elsewhere", b |-> "a", c |-> "b", e |-> "c"]}
MCSpec == FcInit /\ [][FcNext \/ (fc_pc \in {"closed", "aborted"} /\ UNCHANGED fcvars)]_fcvars
=============================================================================
