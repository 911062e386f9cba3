------------------------------- MODULE KeySet -------------------------------
(***************************************************************************)
(* What gnulib's hash table promises its callers: it is a set.  An         *)
(* insertion may fail for want of memory, and then nothing changed.        *)
(***************************************************************************)
CONSTANT Keys

VARIABLES members, ret, freed

setvars == <<members, ret, freed>>

KeySetInit == members = {} /\ ret = "none" /\ freed = {}

Insert(k) ==
  /\ IF k \in members
     THEN members' = members /\ ret' = "present"
     ELSE \/ members' = members \cup {k} /\ ret' = "inserted"
          \/ members' = members /\ ret' = "failed"
  /\ UNCHANGED freed

Remove(k) ==
  /\ members' = members \ {k}
  /\ ret' = IF k \in members THEN "removed" ELSE "absent"
  /\ UNCHANGED freed

Lookup(k) ==
  /\ ret' = IF k \in members THEN "found" ELSE "missing"
  /\ UNCHANGED <<members, freed>>

\* data_freer is called for every member.
Free == freed' = members /\ members' = {} /\ ret' = "freed"

KeySetNext == Free \/ \E k \in Keys : Insert(k) \/ Remove(k) \/ Lookup(k)

KeySetSpec == KeySetInit /\ [][KeySetNext]_setvars
=============================================================================
