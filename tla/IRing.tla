------------------------------- MODULE IRing -------------------------------
(***************************************************************************)
(* The fixed-size ring of gnulib (I_ring.h, i_ring_init.h, i_ring_push.h,  *)
(* i_ring_pop.h): an array, the indices of its newest and oldest value and *)
(* a flag that tells an empty ring from a ring of one value, since both    *)
(* have front = back.                                                      *)
(***************************************************************************)
EXTENDS Naturals, Sequences

CONSTANTS I_RING_SIZE,  \* slots of the array
          Values,       \* the values callers push
          Default       \* ir_default_val

ASSUME SizeAssumption == I_RING_SIZE \in Nat \ {0}

VARIABLES ir_data, ir_front, ir_back, ir_empty,
          ret,          \* the return value of the last call
          aborted       \* a pop of an empty ring called abort()

ringvars == <<ir_data, ir_front, ir_back, ir_empty, ret, aborted>>

Index == 0 .. I_RING_SIZE - 1

IRingInit ==
  /\ ir_data = [i \in Index |-> Default]
  /\ ir_front = 0
  /\ ir_back = 0
  /\ ir_empty = TRUE
  /\ ret = Default
  /\ aborted = FALSE

\* C's !ir->ir_empty used as a number.
NotEmpty == IF ir_empty THEN 0 ELSE 1

\* i_ring_push: the slot written, and where the back index goes when that slot
\* was the oldest value's.
DestIdx == (ir_front + NotEmpty) % I_RING_SIZE

BackNeverMoves(dest_idx) == ir_back                               \* mutant

NextBack(dest_idx) ==
  IF dest_idx = ir_back THEN (ir_back + NotEmpty) % I_RING_SIZE ELSE ir_back

IRingPush(val) ==
  LET dest_idx == DestIdx
  IN /\ ~aborted
     /\ ret' = ir_data[dest_idx]
     /\ ir_data' = [ir_data EXCEPT ![dest_idx] = val]
     /\ ir_front' = dest_idx
     /\ ir_back' = NextBack(dest_idx)
     /\ ir_empty' = FALSE
     /\ UNCHANGED aborted

\* i_ring_pop: the index before the front, and what is left in the popped slot.
PrevIndex == (ir_front + I_RING_SIZE - 1) % I_RING_SIZE

ClearedData == [ir_data EXCEPT ![ir_front] = Default]

IRingPop ==
  /\ ~aborted
  /\ ~ir_empty
  /\ ret' = ir_data[ir_front]
  /\ ir_data' = ClearedData
  /\ ir_empty' = (ir_front = ir_back)
  /\ ir_front' = IF ir_front = ir_back
                 THEN ir_front
                 ELSE PrevIndex
  /\ UNCHANGED <<ir_back, aborted>>

IRingPopEmpty ==
  /\ ~aborted
  /\ ir_empty
  /\ aborted' = TRUE
  /\ UNCHANGED <<ir_data, ir_front, ir_back, ir_empty, ret>>

IRingNext == (\E val \in Values : IRingPush(val)) \/ IRingPop \/ IRingPopEmpty

IRingSpec == IRingInit /\ [][IRingNext]_ringvars

-----------------------------------------------------------------------------
IRingTypeOK ==
  /\ ir_data \in [Index -> Values \cup {Default}]
  /\ ir_front \in Index
  /\ ir_back \in Index
  /\ ir_empty \in BOOLEAN
  /\ ret \in Values \cup {Default}
  /\ aborted \in BOOLEAN

\* How many values the ring holds: the length of back..front modulo the size.
Count ==
  IF ir_empty THEN 0
  ELSE (IF ir_back <= ir_front THEN ir_front - ir_back
        ELSE ir_front + I_RING_SIZE - ir_back) + 1

\* The slot of the i-th oldest value, i \in 1..Count.
Slot(i) == IF ir_back + i - 1 < I_RING_SIZE THEN ir_back + i - 1
           ELSE ir_back + i - 1 - I_RING_SIZE

Live == {Slot(i) : i \in 1 .. Count}

\* The header's invariant (I_ring.h:23-30): a slot outside back..front holds
\* the default value, and an empty ring has front = back.  A push relies on it:
\* the old contents of the slot it writes are reported as a displaced value,
\* which the caller closes.
UndefinedIsDefault ==
  /\ \A i \in Index \ Live : ir_data[i] = Default
  /\ ir_empty => ir_front = ir_back

\* The ring's contents as a sequence, oldest first.
Contents == [i \in 1 .. Count |-> ir_data[Slot(i)]]

Stack == INSTANCE BoundedStack WITH Capacity <- I_RING_SIZE, stack <- Contents

\* The ring is a bounded stack: a push displaces (and returns) a value only
\* when all I_RING_SIZE slots are in use, and then the oldest one; a pop
\* returns the newest.
ImplementsStack == Stack!StackSpec
=============================================================================
