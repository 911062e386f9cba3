---------------------------- MODULE BoundedStack ----------------------------
(***************************************************************************)
(* What a ring of file descriptors promises its user: a stack of at most   *)
(* Capacity values.  Pushing onto a full stack drops the oldest value and  *)
(* returns it; popping an empty stack aborts the program.                  *)
(***************************************************************************)
EXTENDS Naturals, Sequences

CONSTANTS Capacity,   \* the number of values the stack can hold
          Values,     \* the values that may be pushed
          Default     \* what a push returns when nothing was displaced

VARIABLES stack,      \* oldest value first
          ret,        \* the result of the last call
          aborted     \* the program called abort()

stackVars == <<stack, ret, aborted>>

StackInit ==
  /\ stack = <<>>
  /\ ret = Default
  /\ aborted = FALSE

Push(v) ==
  /\ ~aborted
  /\ \/ /\ Len(stack) < Capacity
        /\ stack' = Append(stack, v)
        /\ ret' = Default
     \/ /\ Len(stack) = Capacity
        /\ stack' = Append(Tail(stack), v)
        /\ ret' = Head(stack)
  /\ UNCHANGED aborted

Pop ==
  /\ ~aborted
  /\ stack # <<>>
  /\ ret' = stack[Len(stack)]
  /\ stack' = SubSeq(stack, 1, Len(stack) - 1)
  /\ UNCHANGED aborted

PopEmpty ==
  /\ ~aborted
  /\ stack = <<>>
  /\ aborted' = TRUE
  /\ UNCHANGED <<stack, ret>>

StackNext == (\E v \in Values : Push(v)) \/ Pop \/ PopEmpty

StackSpec == StackInit /\ [][StackNext]_stackVars
=============================================================================
