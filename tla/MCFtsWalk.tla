------------------------------ MODULE MCFtsWalk ------------------------------
(* FtsWalk over every graph of a few directories with up to three edges.    *)
EXTENDS FtsWalk

Edges(g) == {<<d, e>> \in Dirs \X Dirs : e \in g[d]}
SmallGraphs == {g \in [Dirs -> SUBSET Dirs] : Cardinality(Edges(g)) <= 3}

Way(mode, max_entries, faults, set_on) ==
  [mode |-> mode, max_entries |-> max_entries, faults |-> faults, set_on |-> set_on]

UsualFaults == {"open", "chdir", "stat", "up"}

\* The three ways of detecting cycles.  Batches of two entries are full and
\* refilled; with "mount", see the README, only a batch that is never full.
AllWays ==
  {Way("lazy", 2, UsualFaults, {"D"}), Way("logical", 2, UsualFaults, {"D"}),
   Way("tight", 4, UsualFaults \cup {"mount"}, {"D"})}

\* FTS_AGAIN and FTS_SKIP on directories in post-order.
PostOrderSet == {Way("logical", 2, {}, {"DP"})}

\* readdir may fail.
ReadErrors == {Way("logical", 2, {"read"}, {})}
=============================================================================
