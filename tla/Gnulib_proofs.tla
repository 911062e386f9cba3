---------------------------- MODULE Gnulib_proofs -----------------------------
(***************************************************************************)
(* Four parts of gnulib.  The lazy detection of cycles raises no false    *)
(* alarm and never aborts before its counter wraps around, for every set of *)
(* directories and every width of the counter; the ring implements a bounded *)
(* stack, for every size; what tmpnam gives is exclusive, for any number of *)
(* tests that use it at once; and fts_build's list gives every entry once,  *)
(* for directories and batches of any size.                                *)
(***************************************************************************)
EXTENDS CycleCheck, IRing, Tempname, FtsLeaf, SequenceTheorems, FiniteSetTheorems, TLAPS

-------------------------------------------------------------------------------
(***************************************************************************)
(* The detection of cycles.                                                *)
(***************************************************************************)

\* What makes an alarm true: the record is a directory the walk is in.
RecordOnPath == chdir_counter # 0 /\ path # <<>> => OnPath(dev_ino)

\* Only a wrap-around puts the counter of a walk back to 0.
CountsSinceStart == path # <<>> /\ chdir_counter = 0 => wrapped

LEMMA CounterInRange ==
  ASSUME NEW i \in 0 .. CounterLimit - 1
  PROVE  NextCounter(i) \in 0 .. CounterLimit - 1
  BY CycleAssumption DEF NextCounter

LEMMA CounterStarts == NextCounter(0) = 1
  BY CycleAssumption DEF NextCounter

LEMMA RecordTyped ==
  ASSUME NEW c, NEW r \in Dirs, NEW d \in Dirs
  PROVE  RecordAfter(c, r, d) \in Dirs
  BY DEF RecordAfter

\* A check preserves the types, whatever state it starts from.
LEMMA CheckTyped ==
  ASSUME TypeOK, NEW counter \in 0 .. CounterLimit - 1, NEW r \in Dirs, NEW d \in Dirs,
         CheckFrom(counter, r, d), wrapped' \in BOOLEAN
  PROVE  TypeOK'
  <1>1. NextCounter(counter) \in 0 .. CounterLimit - 1
    BY CounterInRange
  <1>2. /\ chdir_counter' \in 0 .. CounterLimit - 1
        /\ asked' \in Dirs
        /\ answer' \in {"none", "no cycle", "cycle", "abort"}
    BY <1>1 DEF CheckFrom
  <1>3. dev_ino' \in Dirs
    BY RecordTyped DEF CheckFrom
  <1>4. path' \in Seq(Dirs)
    <2>1. path \in Seq(Dirs) /\ Append(path, d) \in Seq(Dirs)
      BY AppendProperties DEF TypeOK
    <2>2. path' = path \/ path' = Append(path, d)
      BY DEF CheckFrom
    <2>3. QED
      BY <2>1, <2>2
  <1>5. QED
    BY <1>2, <1>3, <1>4 DEF TypeOK

\* A type-correct step, action by action (cycle_check.h:45-73).
LEMMA TypeStep == TypeOK /\ [Next]_vars => TypeOK'
  <1> SUFFICES ASSUME TypeOK, [Next]_vars
               PROVE  TypeOK'
    OBVIOUS
  <1>1. CASE cycle_check_init
    <2>1. 0 \in 0 .. CounterLimit - 1
      BY CycleAssumption
    <2>2. QED
      BY <1>1, <2>1 DEF cycle_check_init, Fresh, TypeOK
  <1>2. CASE CYCLE_CHECK_REFLECT_CHDIR_UP
    <2>1. /\ path \in Seq(Dirs) /\ Len(path) \in Nat /\ Len(path) > 1
          /\ path[Len(path) - 1] \in Dirs
      <3>1. path \in Seq(Dirs) /\ Len(path) > 1
        BY <1>2 DEF CYCLE_CHECK_REFLECT_CHDIR_UP, TypeOK
      <3>2. Len(path) \in Nat
        BY <3>1, LenProperties
      <3>3. Len(path) - 1 \in 1 .. Len(path)
        BY <3>1, <3>2
      <3>4. QED
        BY <3>1, <3>2, <3>3, ElementOfSeq
    <2>2. path' \in Seq(Dirs)
      <3>1. path' = SubSeq(path, 1, Len(path) - 1)
        BY <1>2 DEF CYCLE_CHECK_REFLECT_CHDIR_UP
      <3>2. QED
        BY <2>1, <3>1
    <2>3. dev_ino' \in Dirs
      BY <1>2, <2>1 DEF CYCLE_CHECK_REFLECT_CHDIR_UP, RecordUp, TypeOK
    <2>4. QED
      BY <1>2, <2>2, <2>3 DEF CYCLE_CHECK_REFLECT_CHDIR_UP, TypeOK
  <1>3. CASE Finish
    <2>1. path' \in Seq(Dirs)
      BY <1>3, EmptySeq DEF Finish
    <2>2. QED
      BY <1>3, <2>1 DEF Finish, TypeOK
  <1>4. ASSUME NEW d \in Dirs, Start(d)
        PROVE  TypeOK'
    <2>1. PICK r \in Dirs : CheckFrom(0, r, d)
      BY <1>4 DEF Start
    <2>2. 0 \in 0 .. CounterLimit - 1
      BY CycleAssumption
    <2>3. wrapped' \in BOOLEAN
      BY <1>4 DEF Start
    <2>4. QED
      BY <2>1, <2>2, <2>3, CheckTyped
  <1>5. ASSUME NEW d \in Dirs, cycle_check(d)
        PROVE  TypeOK'
    <2>1. /\ chdir_counter \in 0 .. CounterLimit - 1 /\ dev_ino \in Dirs
          /\ wrapped' \in BOOLEAN
      BY <1>5 DEF cycle_check, TypeOK
    <2>2. CheckFrom(chdir_counter, dev_ino, d)
      BY <1>5 DEF cycle_check
    <2>3. QED
      BY <2>1, <2>2, CheckTyped
  <1>6. CASE UNCHANGED vars
    BY <1>6 DEF vars, TypeOK
  <1>7. QED
    BY <1>1, <1>2, <1>3, <1>4, <1>5, <1>6 DEF Next

LEMMA InitTyped == Init => TypeOK
  <1> SUFFICES ASSUME Init PROVE TypeOK
    OBVIOUS
  <1>1. chdir_counter \in 0 .. CounterLimit - 1
    BY CycleAssumption DEF Init
  <1>2. path \in Seq(Dirs)
    BY EmptySeq DEF Init
  <1>3. QED
    BY <1>1, <1>2 DEF Init, TypeOK

\* The state of a check and the protocol around it stay well typed: the counter
\* stays in its width (cycle_check_state.h:24-29, cycle_check.h:45-73).
THEOREM TypeCorrect == Spec => []TypeOK
  <1>1. QED
    BY InitTyped, TypeStep, PTL DEF Spec

-----------------------------------------------------------------------------
Inv == TypeOK /\ RecordOnPath /\ CountsSinceStart /\ NoFalseAlarm /\ NeverAborts

\* Entering d keeps what was on the path, and adds d.
LEMMA EnteredOnPath ==
  ASSUME NEW d \in Dirs, path \in Seq(Dirs), path' = Append(path, d)
  PROVE  /\ OnPath(d)'
         /\ \A e \in Dirs : OnPath(e) => (\E i \in 1 .. Len(path') : path'[i] = e)
  <1>1. /\ Len(path') = Len(path) + 1 /\ Len(path) \in Nat
        /\ path'[Len(path) + 1] = d
        /\ \A i \in 1 .. Len(path) : path'[i] = path[i]
    OBVIOUS
  <1>2. OnPath(d)'
    <2>1. Len(path) + 1 \in 1 .. Len(path')
      BY <1>1
    <2>2. QED
      BY <1>1, <2>1 DEF OnPath
  <1>3. \A e \in Dirs : OnPath(e) => (\E i \in 1 .. Len(path') : path'[i] = e)
    <2>1. \A i \in 1 .. Len(path) : i \in 1 .. Len(path')
      BY <1>1
    <2>2. QED
      BY <1>1, <2>1 DEF OnPath
  <1>4. QED
    BY <1>2, <1>3

\* A check leaves the record on the path, and an alarm is about a directory of
\* the path, if the record it starts from was on it.
LEMMA CheckSafe ==
  ASSUME TypeOK, NEW counter \in 0 .. CounterLimit - 1, NEW r \in Dirs, NEW d \in Dirs,
         counter # 0 => OnPath(r),
         NextCounter(counter) = 0 /\ ~IsRecorded(counter, r, d) => wrapped',
         CheckFrom(counter, r, d)
  PROVE  RecordOnPath' /\ NoFalseAlarm' /\ answer' # "abort"
  <1> DEFINE c == NextCounter(counter)
  <1>1. c \in 0 .. CounterLimit - 1 /\ c \in Nat
    BY CounterInRange, CycleAssumption
  <1>2. answer' # "abort"
    BY DEF CheckFrom
  <1>3. CASE IsRecorded(counter, r, d)
    <2>1. /\ counter # 0 /\ d = r /\ path' = path /\ asked' = d /\ dev_ino' = r
      BY <1>3 DEF CheckFrom, IsRecorded
    <2>2. OnPath(d)
      BY <2>1
    <2>3. OnPath(asked)' /\ OnPath(dev_ino)'
      BY <2>1, <2>2 DEF OnPath
    <2>4. QED
      BY <1>2, <2>3 DEF RecordOnPath, NoFalseAlarm
  <1>4. CASE ~IsRecorded(counter, r, d) /\ c = 0
    <2>1. chdir_counter' = 0 /\ wrapped'
      BY <1>4 DEF CheckFrom
    <2>2. QED
      BY <1>2, <2>1 DEF RecordOnPath, NoFalseAlarm
  <1>5. CASE ~IsRecorded(counter, r, d) /\ c # 0
    <2>1. /\ path' = Append(path, d) /\ answer' = "no cycle"
          /\ dev_ino' = RecordAfter(c, r, d) /\ chdir_counter' = c
      BY <1>5 DEF CheckFrom
    <2>2. /\ OnPath(d)'
          /\ \A e \in Dirs : OnPath(e) => (\E i \in 1 .. Len(path') : path'[i] = e)
      BY <2>1, EnteredOnPath DEF TypeOK
    <2>3. OnPath(dev_ino)'
      <3>1. CASE dev_ino' = d
        BY <3>1, <2>2 DEF OnPath
      <3>2. CASE dev_ino' # d
        <4>1. dev_ino' = r /\ ~(is_zero_or_power_of_two(c) /\ c # 0)
          BY <2>1, <3>2 DEF RecordAfter
        <4>2. counter # 0
          <5>1. SUFFICES ASSUME counter = 0 PROVE FALSE
            OBVIOUS
          <5>2. c = 1
            BY <5>1, CounterStarts
          <5>3. is_zero_or_power_of_two(1)
            BY DEF is_zero_or_power_of_two
          <5>4. QED
            BY <5>2, <5>3, <4>1
        <4>3. OnPath(r)
          BY <4>2
        <4>4. QED
          BY <4>1, <4>3, <2>2 DEF OnPath
      <3>3. QED
        BY <3>1, <3>2
    <2>4. QED
      BY <1>2, <2>1, <2>3 DEF RecordOnPath, NoFalseAlarm
  <1>6. QED
    BY <1>3, <1>4, <1>5

\* Going up: the record is moved along when the directory it names is left.
LEMMA UpSafe ==
  ASSUME Inv, CYCLE_CHECK_REFLECT_CHDIR_UP
  PROVE  RecordOnPath' /\ NoFalseAlarm' /\ NeverAborts' /\ CountsSinceStart'
  <1> DEFINE n == Len(path)
  <1>1. /\ path \in Seq(Dirs) /\ n \in Nat /\ n > 1
        /\ path' = SubSeq(path, 1, n - 1) /\ chdir_counter' = chdir_counter
        /\ wrapped' = wrapped /\ answer' \in {"none", "abort"}
    <2>1. path \in Seq(Dirs)
      BY DEF Inv, TypeOK
    <2>2. n \in Nat
      BY <2>1, LenProperties
    <2>3. QED
      BY <2>1, <2>2 DEF CYCLE_CHECK_REFLECT_CHDIR_UP
  <1>2. /\ Len(path') = n - 1
        /\ \A i \in 1 .. n - 1 : path'[i] = path[i]
    BY <1>1
  <1>3. path # <<>>
    BY <1>1
  <1>4. NeverAborts' /\ CountsSinceStart'
    <2>1. chdir_counter = 0 => wrapped
      BY <1>3 DEF Inv, CountsSinceStart
    <2>2. answer' = "abort" => chdir_counter = 0
      BY DEF CYCLE_CHECK_REFLECT_CHDIR_UP
    <2>3. QED
      BY <1>1, <2>1, <2>2 DEF NeverAborts, CountsSinceStart
  <1>5. RecordOnPath'
    <2>1. SUFFICES ASSUME chdir_counter # 0
                   PROVE  \E i \in 1 .. Len(path') : path'[i] = dev_ino'
      BY <1>1 DEF RecordOnPath, OnPath
    <2>2. dev_ino' = IF dev_ino = path[n] THEN path[n - 1] ELSE dev_ino
      BY <2>1 DEF CYCLE_CHECK_REFLECT_CHDIR_UP, RecordUp, LastOf
    <2>3. PICK i \in 1 .. n : path[i] = dev_ino
      BY <2>1, <1>3 DEF Inv, RecordOnPath, OnPath
    <2>4. CASE dev_ino = path[n]
      <3>1. n - 1 \in 1 .. Len(path') /\ path'[n - 1] = dev_ino'
        BY <1>1, <1>2, <2>2, <2>4
      <3>2. QED
        BY <3>1
    <2>5. CASE dev_ino # path[n]
      <3>1. i \in 1 .. n - 1
        BY <1>1, <2>3, <2>5
      <3>2. path'[i] = dev_ino'
        BY <1>2, <2>2, <2>3, <2>5, <3>1
      <3>3. QED
        BY <1>2, <3>1, <3>2
    <2>6. QED
      BY <2>4, <2>5
  <1>6. NoFalseAlarm'
    BY <1>1 DEF NoFalseAlarm
  <1>7. QED
    BY <1>4, <1>5, <1>6

LEMMA Inductive == Inv /\ [Next]_vars => Inv'
  <1> SUFFICES ASSUME Inv, [Next]_vars
               PROVE  Inv'
    OBVIOUS
  <1>0. TypeOK'
    BY TypeStep DEF Inv
  <1>1. CASE cycle_check_init
    <2>1. path' = <<>> /\ answer' = "none"
      BY <1>1 DEF cycle_check_init, Fresh
    <2>2. QED
      BY <1>0, <2>1 DEF Inv, RecordOnPath, CountsSinceStart, NoFalseAlarm, NeverAborts
  <1>2. CASE CYCLE_CHECK_REFLECT_CHDIR_UP
    BY <1>0, <1>2, UpSafe DEF Inv
  <1>3. CASE Finish
    <2>1. path' = <<>> /\ answer' = "none"
      BY <1>3 DEF Finish
    <2>2. QED
      BY <1>0, <2>1 DEF Inv, RecordOnPath, CountsSinceStart, NoFalseAlarm, NeverAborts
  <1>4. ASSUME NEW d \in Dirs, Start(d)
        PROVE  Inv'
    <2>1. PICK r \in Dirs : CheckFrom(0, r, d)
      BY <1>4 DEF Start
    <2>2. 0 \in 0 .. CounterLimit - 1
      BY CycleAssumption
    <2>3. RecordOnPath' /\ NoFalseAlarm' /\ answer' # "abort"
      BY <2>1, <2>2, CounterStarts, CheckSafe DEF Inv
    <2>4. chdir_counter' = 1
      BY <2>1, CounterStarts DEF CheckFrom, IsRecorded
    <2>5. QED
      BY <1>0, <2>3, <2>4 DEF Inv, CountsSinceStart, NeverAborts
  <1>5. ASSUME NEW d \in Dirs, cycle_check(d)
        PROVE  Inv'
    <2>1. /\ path # <<>> /\ CheckFrom(chdir_counter, dev_ino, d)
          /\ wrapped' = (wrapped \/ chdir_counter' = 0)
      BY <1>5 DEF cycle_check
    <2>2. /\ chdir_counter \in 0 .. CounterLimit - 1 /\ dev_ino \in Dirs
          /\ chdir_counter # 0 => OnPath(dev_ino)
      BY <2>1 DEF Inv, TypeOK, RecordOnPath
    <2>6. NextCounter(chdir_counter) = 0 /\ ~IsRecorded(chdir_counter, dev_ino, d) => wrapped'
      <3>1. NextCounter(chdir_counter) = 0 /\ ~IsRecorded(chdir_counter, dev_ino, d)
              => chdir_counter' = 0
        BY <2>1 DEF CheckFrom
      <3>2. QED
        BY <2>1, <3>1
    <2>3. RecordOnPath' /\ NoFalseAlarm' /\ answer' # "abort"
      BY <2>1, <2>2, <2>6, CheckSafe DEF Inv
    <2>4. CountsSinceStart'
      BY <2>1 DEF CountsSinceStart
    <2>5. QED
      BY <1>0, <2>3, <2>4 DEF Inv, NeverAborts
  <1>6. CASE UNCHANGED vars
    BY <1>6 DEF vars, Inv, TypeOK, RecordOnPath, CountsSinceStart, NoFalseAlarm, NeverAborts,
                OnPath
  <1>7. QED
    BY <1>1, <1>2, <1>3, <1>4, <1>5, <1>6 DEF Next

LEMMA InitInv == Init => Inv
  <1> SUFFICES ASSUME Init PROVE Inv
    OBVIOUS
  <1>1. TypeOK
    BY InitTyped
  <1>2. path = <<>> /\ answer = "none"
    BY DEF Init
  <1>3. QED
    BY <1>1, <1>2 DEF Inv, RecordOnPath, CountsSinceStart, NoFalseAlarm, NeverAborts

\* For every set of directories: a directory said to close a cycle is one the
\* walk is in, unless this call wrapped the counter (cycle_check.h:46-73).
THEOREM AlarmsAreTrue == Spec => []NoFalseAlarm
  <1>1. Inv => NoFalseAlarm
    BY DEF Inv
  <1>2. QED
    BY <1>1, InitInv, Inductive, PTL DEF Spec

\* For every set of directories: the macro's abort() is reached only after the
\* counter has wrapped (CYCLE_CHECK_REFLECT_CHDIR_UP.h:29-31).
THEOREM AbortUnreachable == Spec => []NeverAborts
  <1>1. Inv => NeverAborts
    BY DEF Inv
  <1>2. QED
    BY <1>1, InitInv, Inductive, PTL DEF Spec

-------------------------------------------------------------------------------
(***************************************************************************)
(* The ring.                                                               *)
(***************************************************************************)

\* A modulus leaves an index of the array alone, and one wrap subtracts the
\* size: all the arithmetic on ir_front and ir_back is one of the two.
LEMMA ModSmall ==
  ASSUME NEW n \in Nat \ {0}, NEW a \in 0 .. n - 1
  PROVE  a % n = a
BY SMT

LEMMA ModWrap ==
  ASSUME NEW n \in Nat \ {0}, NEW a \in n .. 2 * n - 1
  PROVE  a % n = a - n
BY SMT

\* The slot a push writes, without a modulus.
LEMMA DestIdxValue ==
  ASSUME IRingTypeOK
  PROVE  DestIdx = IF ir_empty THEN ir_front
                   ELSE IF ir_front = I_RING_SIZE - 1 THEN 0 ELSE ir_front + 1
<1>1. CASE ir_empty
  BY <1>1, SizeAssumption, ModSmall DEF DestIdx, NotEmpty, IRingTypeOK, Index
<1>2. CASE ~ir_empty /\ ir_front = I_RING_SIZE - 1
  BY <1>2, SizeAssumption, ModWrap DEF DestIdx, NotEmpty, IRingTypeOK, Index
<1>3. CASE ~ir_empty /\ ir_front # I_RING_SIZE - 1
  BY <1>3, SizeAssumption, ModSmall DEF DestIdx, NotEmpty, IRingTypeOK, Index
<1> QED BY <1>1, <1>2, <1>3

\* Where the oldest value is after a push, without a modulus.
LEMMA NextBackValue ==
  ASSUME IRingTypeOK
  PROVE  NextBack(DestIdx) =
           IF DestIdx # ir_back \/ ir_empty THEN ir_back
           ELSE IF ir_back = I_RING_SIZE - 1 THEN 0 ELSE ir_back + 1
<1>1. CASE DestIdx # ir_back
  BY <1>1 DEF NextBack
<1>2. CASE DestIdx = ir_back /\ ir_empty
  BY <1>2, SizeAssumption, ModSmall DEF NextBack, NotEmpty, IRingTypeOK, Index
<1>3. CASE DestIdx = ir_back /\ ~ir_empty /\ ir_back = I_RING_SIZE - 1
  BY <1>3, SizeAssumption, ModWrap DEF NextBack, NotEmpty, IRingTypeOK, Index
<1>4. CASE DestIdx = ir_back /\ ~ir_empty /\ ir_back # I_RING_SIZE - 1
  BY <1>4, SizeAssumption, ModSmall DEF NextBack, NotEmpty, IRingTypeOK, Index
<1> QED BY <1>1, <1>2, <1>3, <1>4

\* The index before ir_front, without a modulus.
LEMMA PrevIndexValue ==
  ASSUME IRingTypeOK
  PROVE  PrevIndex =
           IF ir_front = 0 THEN I_RING_SIZE - 1 ELSE ir_front - 1
<1>1. CASE ir_front = 0
  BY <1>1, SizeAssumption, ModSmall DEF PrevIndex, IRingTypeOK, Index
<1>2. CASE ir_front # 0
  <2>1. ir_front + I_RING_SIZE - 1 \in I_RING_SIZE .. 2 * I_RING_SIZE - 1
    BY <1>2, SizeAssumption DEF IRingTypeOK, Index
  <2> QED BY <1>2, <2>1, SizeAssumption, ModWrap DEF PrevIndex, IRingTypeOK, Index
<1> QED BY <1>1, <1>2

-----------------------------------------------------------------------------
\* The initial state and each step keep the types.
LEMMA TypeInit == IRingInit => IRingTypeOK
<1> SUFFICES ASSUME IRingInit PROVE IRingTypeOK
  OBVIOUS
<1>1. 0 \in Index
  BY SizeAssumption DEF Index
<1>2. ir_data \in [Index -> Values \cup {Default}]
  BY DEF IRingInit
<1> QED BY <1>1, <1>2 DEF IRingInit, IRingTypeOK

LEMMA TypePush ==
  ASSUME IRingTypeOK, NEW val \in Values, IRingPush(val)
  PROVE  IRingTypeOK'
<1>1. DestIdx \in Index
  BY SizeAssumption, DestIdxValue DEF IRingTypeOK, Index
<1>2. NextBack(DestIdx) \in Index
  BY SizeAssumption, NextBackValue DEF IRingTypeOK, Index
<1>3. ir_data' \in [Index -> Values \cup {Default}]
  BY <1>1 DEF IRingTypeOK, IRingPush
<1>4. ir_front' \in Index /\ ir_back' \in Index
  BY <1>1, <1>2 DEF IRingPush
<1>5. ret' \in Values \cup {Default}
  BY <1>1 DEF IRingTypeOK, IRingPush
<1> QED BY <1>3, <1>4, <1>5 DEF IRingTypeOK, IRingPush, Index

LEMMA TypePop == IRingTypeOK /\ IRingPop => IRingTypeOK'
<1> SUFFICES ASSUME IRingTypeOK, IRingPop PROVE IRingTypeOK'
  OBVIOUS
<1>1. ir_front' \in Index
  <2>1. PrevIndex \in Index
    BY SizeAssumption, PrevIndexValue DEF IRingTypeOK, Index
  <2> QED BY <2>1 DEF IRingTypeOK, IRingPop
<1>2. ir_data' \in [Index -> Values \cup {Default}]
  BY DEF IRingTypeOK, IRingPop, ClearedData
<1> QED BY <1>1, <1>2 DEF IRingTypeOK, IRingPop, Index

LEMMA RingTypeStep == IRingTypeOK /\ [IRingNext]_ringvars => IRingTypeOK'
<1> SUFFICES ASSUME IRingTypeOK, [IRingNext]_ringvars PROVE IRingTypeOK'
  OBVIOUS
<1>1. CASE IRingPopEmpty
  BY <1>1 DEF IRingTypeOK, IRingPopEmpty, Index
<1>2. CASE UNCHANGED ringvars
  BY <1>2 DEF IRingTypeOK, ringvars, Index
<1> QED BY <1>1, <1>2, TypePush, TypePop DEF IRingNext

\* The type invariant, for every ring size.
THEOREM RingTypeCorrect == IRingSpec => []IRingTypeOK
BY TypeInit, RingTypeStep, PTL DEF IRingSpec

-----------------------------------------------------------------------------
\* back..front, without the detour over Slot.
LiveIsRange ==
  Live = IF ir_empty THEN {}
         ELSE IF ir_back <= ir_front THEN ir_back .. ir_front
         ELSE 0 .. ir_front \cup ir_back .. I_RING_SIZE - 1

LEMMA LiveValue == IRingTypeOK => LiveIsRange
<1> SUFFICES ASSUME IRingTypeOK PROVE LiveIsRange
  OBVIOUS
<1> USE SizeAssumption DEF IRingTypeOK, Index, LiveIsRange
<1>1. CASE ir_empty
  BY <1>1 DEF Live, Count
<1>2. CASE ~ir_empty /\ ir_back <= ir_front
  <2>1. Count = ir_front - ir_back + 1
    BY <1>2 DEF Count
  <2>2. \A j \in ir_back .. ir_front :
          j - ir_back + 1 \in 1 .. Count /\ Slot(j - ir_back + 1) = j
    BY <1>2, <2>1 DEF Slot
  <2>3. \A i \in 1 .. Count : Slot(i) \in ir_back .. ir_front
    BY <1>2, <2>1 DEF Slot
  <2> QED BY <1>2, <2>2, <2>3 DEF Live
<1>3. CASE ~ir_empty /\ ir_back > ir_front
  <2>1. Count = ir_front + I_RING_SIZE - ir_back + 1
    BY <1>3 DEF Count
  <2>2. \A j \in ir_back .. I_RING_SIZE - 1 :
          j - ir_back + 1 \in 1 .. Count /\ Slot(j - ir_back + 1) = j
    BY <1>3, <2>1 DEF Slot
  <2>3. \A j \in 0 .. ir_front :
          /\ j + I_RING_SIZE - ir_back + 1 \in 1 .. Count
          /\ Slot(j + I_RING_SIZE - ir_back + 1) = j
    BY <1>3, <2>1 DEF Slot
  <2>4. \A i \in 1 .. Count :
          Slot(i) \in 0 .. ir_front \cup ir_back .. I_RING_SIZE - 1
    BY <1>3, <2>1 DEF Slot
  <2> QED BY <1>3, <2>2, <2>3, <2>4 DEF Live
<1> QED BY <1>1, <1>2, <1>3

LEMMA LiveValuePrimed == IRingTypeOK' => LiveIsRange'
BY LiveValue, PTL

\* A push adds the slot it writes to back..front and drops none but that one.
LEMMA LivePush ==
  ASSUME IRingTypeOK, NEW val \in Values, IRingPush(val)
  PROVE  Live \cup {DestIdx} \subseteq Live'
<1> USE SizeAssumption DEF IRingTypeOK, Index
<1>1. IRingTypeOK'
  BY TypePush
<1>2. /\ ir_front' = DestIdx
      /\ ir_back' = NextBack(DestIdx)
      /\ ir_empty' = FALSE
  BY DEF IRingPush
<1> HIDE DEF IRingTypeOK
<1>3. LiveIsRange /\ LiveIsRange'
  BY <1>1, LiveValue, LiveValuePrimed
<1>4. CASE ir_empty
  BY <1>1, <1>2, <1>3, <1>4, DestIdxValue, NextBackValue DEF LiveIsRange, IRingTypeOK
<1>5. CASE ~ir_empty /\ DestIdx = ir_back
  BY <1>1, <1>2, <1>3, <1>5, DestIdxValue, NextBackValue DEF LiveIsRange, IRingTypeOK
<1>6. CASE ~ir_empty /\ DestIdx # ir_back
  BY <1>1, <1>2, <1>3, <1>6, DestIdxValue, NextBackValue DEF LiveIsRange, IRingTypeOK
<1> QED BY <1>4, <1>5, <1>6

\* A pop removes exactly the slot it clears.
LEMMA LivePop ==
  ASSUME IRingTypeOK, IRingPop
  PROVE  Live' = Live \ {ir_front}
<1> USE SizeAssumption DEF Index
<1>1. IRingTypeOK'
  BY TypePop
<1>2. LiveIsRange /\ LiveIsRange'
  BY <1>1, LiveValue, LiveValuePrimed
<1>3. CASE ir_front = ir_back
  <2>1. ~ir_empty /\ ir_empty'
    BY <1>3 DEF IRingPop
  <2>2. Live' = {}
    BY <1>2, <2>1 DEF LiveIsRange
  <2>3. Live = ir_front .. ir_front
    BY <1>2, <1>3, <2>1 DEF LiveIsRange, IRingTypeOK
  <2> QED BY <2>2, <2>3 DEF IRingTypeOK
<1>4. CASE ir_front # ir_back
  BY <1>1, <1>2, <1>4, PrevIndexValue DEF LiveIsRange, IRingTypeOK, IRingPop
<1> QED BY <1>3, <1>4

\* The header's invariant is inductive once the indices are in range.
IInv == IRingTypeOK /\ UndefinedIsDefault

LEMMA SlotsStep == IInv /\ [IRingNext]_ringvars => UndefinedIsDefault'
<1> SUFFICES ASSUME IInv, [IRingNext]_ringvars PROVE UndefinedIsDefault'
  OBVIOUS
<1>1. ASSUME NEW val \in Values, IRingPush(val) PROVE UndefinedIsDefault'
  <2>1. IRingTypeOK
    BY DEF IInv
  <2>2. ir_data' = [ir_data EXCEPT ![DestIdx] = val] /\ ~ir_empty'
    BY <1>1 DEF IRingPush
  <2>3. Live \cup {DestIdx} \subseteq Live'
    BY <1>1, <2>1, LivePush
  <2>4. \A i \in Index' \ Live' : ir_data'[i] = Default
    BY <2>1, <2>2, <2>3 DEF IInv, UndefinedIsDefault, IRingTypeOK, Index
  <2> QED BY <2>2, <2>4 DEF UndefinedIsDefault
<1>2. CASE IRingPop
  <2>1. IRingTypeOK
    BY DEF IInv
  <2>2. Live' = Live \ {ir_front}
    BY <1>2, <2>1, LivePop
  <2>3. \A i \in Index' \ Live' : ir_data'[i] = Default
    BY <1>2, <2>1, <2>2
    DEF IInv, UndefinedIsDefault, IRingPop, ClearedData, IRingTypeOK, Index
  <2>4. ir_empty' => ir_front' = ir_back'
    BY <1>2 DEF IRingPop
  <2> QED BY <2>3, <2>4 DEF UndefinedIsDefault
<1>3. CASE IRingPopEmpty
  BY <1>3 DEF IInv, UndefinedIsDefault, IRingPopEmpty, Live, Slot, Count, Index
<1>4. CASE UNCHANGED ringvars
  BY <1>4 DEF IInv, UndefinedIsDefault, ringvars, Live, Slot, Count, Index
<1> QED BY <1>1, <1>2, <1>3, <1>4 DEF IRingNext

\* The header comment of I_ring.h, for every ring size.
THEOREM SlotsCorrect == IRingSpec => []UndefinedIsDefault
<1>1. IRingInit => IInv
  <2> SUFFICES ASSUME IRingInit PROVE UndefinedIsDefault
    BY TypeInit DEF IInv
  <2> QED BY DEF IRingInit, UndefinedIsDefault
<1>2. IInv /\ [IRingNext]_ringvars => IInv'
  BY RingTypeStep, SlotsStep DEF IInv
<1>3. IInv => UndefinedIsDefault
  BY DEF IInv
<1> QED BY <1>1, <1>2, <1>3, PTL DEF IRingSpec

-----------------------------------------------------------------------------
\* The refinement.  Elem is what the contents are made of.
Elem == Values \cup {Default}

LEMMA CountRange ==
  ASSUME IRingTypeOK
  PROVE  /\ Count \in 0 .. I_RING_SIZE
         /\ Count = 0 <=> ir_empty
         /\ \A i \in 1 .. Count : Slot(i) \in Index
<1> USE SizeAssumption DEF IRingTypeOK, Index
<1>1. Count \in 0 .. I_RING_SIZE /\ (Count = 0 <=> ir_empty)
  BY DEF Count
<1>2. \A i \in 1 .. I_RING_SIZE : Slot(i) \in Index
  BY DEF Slot
<1> QED BY <1>1, <1>2

ContentsIsSeq ==
  /\ Contents \in Seq(Elem)
  /\ Len(Contents) = Count
  /\ \A i \in 1 .. Count : Contents[i] = ir_data[Slot(i)]

LEMMA ContentsType == IRingTypeOK => ContentsIsSeq
<1> SUFFICES ASSUME IRingTypeOK PROVE ContentsIsSeq
  OBVIOUS
<1>1. \A i \in 1 .. Count : ir_data[Slot(i)] \in Elem
  BY CountRange DEF IRingTypeOK, Elem
<1>2. Count \in Nat
  BY CountRange, SizeAssumption
<1> QED BY <1>1, <1>2 DEF Contents, ContentsIsSeq

LEMMA ContentsTypePrimed == IRingTypeOK' => ContentsIsSeq'
BY ContentsType, PTL

\* A push that finds a free slot grows the contents by the pushed value.
LEMMA PushFree ==
  ASSUME IInv, NEW val \in Values, IRingPush(val), Count < I_RING_SIZE
  PROVE  Contents' = Append(Contents, val) /\ ret' = Default
<1> USE SizeAssumption DEF Index
<1>1. IRingTypeOK /\ IRingTypeOK'
  BY TypePush DEF IInv
<1>2. /\ ir_front' = DestIdx
      /\ ~ir_empty'
      /\ ir_data' = [ir_data EXCEPT ![DestIdx] = val]
  BY DEF IRingPush
<1>3. ~ir_empty => DestIdx # ir_back
  BY <1>1, DestIdxValue DEF Count, IRingTypeOK
<1>4. ir_back' = ir_back
  BY <1>1, <1>3, NextBackValue DEF IRingPush
<1>5. Count' = Count + 1
  <2>1. CASE ir_empty
    BY <1>1, <1>2, <1>4, <2>1, DestIdxValue DEF Count, IRingTypeOK, IInv, UndefinedIsDefault
  <2>2. CASE ~ir_empty
    BY <1>1, <1>2, <1>3, <1>4, <2>2, DestIdxValue DEF Count, IRingTypeOK
  <2> QED BY <2>1, <2>2
<1>6. \A i \in 1 .. Count : Slot(i)' = Slot(i) /\ Slot(i) # DestIdx
  <2>1. CASE ir_empty
    BY <2>1 DEF Count
  <2>2. CASE ~ir_empty
    BY <1>1, <1>3, <1>4, <2>2, DestIdxValue DEF Slot, Count, IRingTypeOK
  <2> QED BY <2>1, <2>2
<1>7. \A i \in 1 .. Count + 1 : i = Count + 1 => Slot(i)' = DestIdx
  BY <1>1, <1>4, DestIdxValue DEF Slot, Count, IRingTypeOK, IInv, UndefinedIsDefault
<1>8. DestIdx \in Index \ Live
  BY <1>1, <1>6, DestIdxValue DEF Live, IRingTypeOK
<1>9. ret' = Default
  BY <1>8 DEF IRingPush, IInv, UndefinedIsDefault
<1>10. Contents' = Append(Contents, val)
  <2>1. ContentsIsSeq /\ ContentsIsSeq'
    BY <1>1, ContentsType, ContentsTypePrimed
  <2>2. ASSUME NEW i \in 1 .. Count PROVE Contents'[i] = Contents[i]
    <3>1. Slot(i) \in Index /\ i \in 1 .. Count'
      BY <1>1, <1>5, CountRange
    <3>2. Contents'[i] = ir_data'[Slot(i)']
      BY <2>1, <3>1 DEF ContentsIsSeq
    <3> QED BY <1>1, <1>2, <1>6, <2>1, <3>1, <3>2 DEF ContentsIsSeq, IRingTypeOK
  <2>3. Contents'[Count + 1] = val
    BY <1>1, <1>2, <1>5, <1>7, <1>8, <2>1, CountRange DEF ContentsIsSeq, IRingTypeOK
  <2> QED BY <1>5, <2>1, <2>2, <2>3, CountRange DEF ContentsIsSeq, Elem
<1> QED BY <1>9, <1>10

\* A push on a full ring drops the oldest value and returns it.
LEMMA PushFull ==
  ASSUME IInv, NEW val \in Values, IRingPush(val), Count = I_RING_SIZE
  PROVE  Contents' = Append(Tail(Contents), val) /\ ret' = Head(Contents)
<1> USE SizeAssumption DEF Index
<1>1. IRingTypeOK /\ IRingTypeOK'
  BY TypePush DEF IInv
<1>2. /\ ir_front' = DestIdx
      /\ ~ir_empty'
      /\ ir_data' = [ir_data EXCEPT ![DestIdx] = val]
  BY DEF IRingPush
<1>3. ~ir_empty /\ DestIdx = ir_back
  BY <1>1, DestIdxValue DEF Count, IRingTypeOK
<1>4. ir_back' = IF ir_back = I_RING_SIZE - 1 THEN 0 ELSE ir_back + 1
  BY <1>1, <1>3, NextBackValue DEF IRingPush
<1>5. Count' = Count
  BY <1>1, <1>2, <1>3, <1>4, DestIdxValue DEF Count, IRingTypeOK
<1>6. \A i \in 1 .. Count - 1 : Slot(i)' = Slot(i + 1) /\ Slot(i + 1) # DestIdx
  BY <1>1, <1>3, <1>4 DEF Slot, IRingTypeOK
<1>7. \A i \in 1 .. Count : i = Count => Slot(i)' = DestIdx
  BY <1>1, <1>3, <1>4 DEF Slot, IRingTypeOK
<1>8. ContentsIsSeq /\ ContentsIsSeq' /\ DestIdx \in Index /\ Contents # <<>>
  BY <1>1, <1>3, ContentsType, ContentsTypePrimed, CountRange
  DEF ContentsIsSeq, IRingTypeOK
<1>9. ret' = Head(Contents)
  <2>1. Slot(1) = DestIdx
    BY <1>1, <1>3 DEF Slot, IRingTypeOK
  <2>2. Contents[1] = ir_data[DestIdx]
    BY <1>8, <2>1 DEF ContentsIsSeq
  <2> QED BY <1>8, <2>2 DEF IRingPush, ContentsIsSeq
<1>10. ASSUME NEW i \in 1 .. Count - 1 PROVE Contents'[i] = Contents[i + 1]
  <2>1. Slot(i + 1) \in Index /\ i \in 1 .. Count' /\ i + 1 \in 1 .. Count
    BY <1>1, <1>5, CountRange
  <2>2. Contents'[i] = ir_data'[Slot(i)']
    BY <1>8, <2>1 DEF ContentsIsSeq
  <2>3. Contents[i + 1] = ir_data[Slot(i + 1)]
    BY <1>8, <2>1 DEF ContentsIsSeq
  <2> QED BY <1>1, <1>2, <1>6, <2>1, <2>2, <2>3 DEF IRingTypeOK
<1>11. Contents'[Count] = val
  <2>1. Count \in 1 .. Count'
    BY <1>5
  <2>2. PICK i \in 1 .. Count : i = Count
    BY <1>5
  <2>3. Contents'[i] = ir_data'[Slot(i)']
    BY <1>8, <2>1, <2>2 DEF ContentsIsSeq
  <2> QED BY <1>1, <1>2, <1>7, <1>8, <2>2, <2>3 DEF IRingTypeOK
<1>12. Contents' = Append(Tail(Contents), val)
  BY <1>5, <1>8, <1>10, <1>11 DEF ContentsIsSeq, Elem
<1> QED BY <1>9, <1>12

\* A pop removes the newest value and returns it.
LEMMA PopNewest ==
  ASSUME IInv, IRingPop
  PROVE  /\ Contents # <<>>
         /\ ret' = Contents[Len(Contents)]
         /\ Contents' = SubSeq(Contents, 1, Len(Contents) - 1)
<1> USE SizeAssumption DEF Index
<1>1. IRingTypeOK /\ IRingTypeOK'
  BY TypePop DEF IInv
<1>2. /\ ~ir_empty
      /\ ir_back' = ir_back
      /\ ir_empty' = (ir_front = ir_back)
      /\ ir_data' = [ir_data EXCEPT ![ir_front] = Default]
      /\ ret' = ir_data[ir_front]
  BY DEF IRingPop, ClearedData
<1>3. ir_front # ir_back =>
        ir_front' = IF ir_front = 0 THEN I_RING_SIZE - 1 ELSE ir_front - 1
  BY <1>1, PrevIndexValue DEF IRingPop
<1>4. Count' = Count - 1
  <2>1. CASE ir_front = ir_back
    <3>1. ir_empty'
      BY <1>2, <2>1
    <3>2. Count' = 0
      BY <3>1 DEF Count
    <3> QED BY <1>1, <1>2, <2>1, <3>2 DEF Count, IRingTypeOK
  <2>2. CASE ir_front # ir_back
    <3>1. ir_front \in 0 .. I_RING_SIZE - 1 /\ ir_back \in 0 .. I_RING_SIZE - 1
      BY <1>1 DEF IRingTypeOK
    <3>2. Count = (IF ir_back <= ir_front THEN ir_front - ir_back
                   ELSE ir_front + I_RING_SIZE - ir_back) + 1
      BY <1>2 DEF Count
    <3>3. Count' = (IF ir_back <= ir_front' THEN ir_front' - ir_back
                    ELSE ir_front' + I_RING_SIZE - ir_back) + 1
      BY <1>2, <2>2 DEF Count
    <3> QED BY <1>3, <2>2, <3>1, <3>2, <3>3
  <2> QED BY <2>1, <2>2
<1>5. \A i \in 1 .. Count - 1 : Slot(i)' = Slot(i) /\ Slot(i) # ir_front
  BY <1>1, <1>2, SMTT(30) DEF Slot, Count, IRingTypeOK
<1>6. \A i \in 1 .. Count : i = Count => Slot(i) = ir_front
  BY <1>1, <1>2 DEF Slot, Count, IRingTypeOK
<1>7. ContentsIsSeq /\ ContentsIsSeq' /\ Count \in Nat \ {0}
  BY <1>1, <1>2, ContentsType, ContentsTypePrimed, CountRange
<1>8. Contents # <<>> /\ ret' = Contents[Count]
  BY <1>2, <1>6, <1>7 DEF ContentsIsSeq
<1>9. ASSUME NEW i \in 1 .. Count - 1 PROVE Contents'[i] = Contents[i]
  <2>1. Slot(i) \in Index /\ i \in 1 .. Count' /\ i \in 1 .. Count
    BY <1>1, <1>4, <1>7, CountRange
  <2>2. Contents'[i] = ir_data'[Slot(i)']
    BY <1>7, <2>1 DEF ContentsIsSeq
  <2>3. Contents[i] = ir_data[Slot(i)]
    BY <1>7, <2>1 DEF ContentsIsSeq
  <2> QED BY <1>1, <1>2, <1>5, <2>1, <2>2, <2>3 DEF IRingTypeOK
<1>10. Contents' = SubSeq(Contents, 1, Count - 1)
  BY <1>4, <1>7, <1>9 DEF ContentsIsSeq
<1> QED BY <1>7, <1>8, <1>10 DEF ContentsIsSeq

\* Every step of the ring is a step of the stack or leaves it alone.
LEMMA StackStep == IInv /\ [IRingNext]_ringvars => [Stack!StackNext]_(Stack!stackVars)
<1> SUFFICES ASSUME IInv, [IRingNext]_ringvars
             PROVE  [Stack!StackNext]_(Stack!stackVars)
  OBVIOUS
<1> USE DEF Stack!StackNext, Stack!stackVars
<1>1. IRingTypeOK /\ ContentsIsSeq /\ Count \in 0 .. I_RING_SIZE
  BY ContentsType, CountRange DEF IInv
<1>2. ASSUME NEW val \in Values, IRingPush(val) PROVE Stack!Push(val)
  <2>1. CASE Count < I_RING_SIZE
    BY <1>1, <1>2, <2>1, PushFree DEF Stack!Push, ContentsIsSeq, IRingPush
  <2>2. CASE Count = I_RING_SIZE
    BY <1>1, <1>2, <2>2, PushFull DEF Stack!Push, ContentsIsSeq, IRingPush
  <2> QED BY <1>1, <2>1, <2>2, SizeAssumption
<1>3. CASE IRingPop
  BY <1>3, PopNewest DEF Stack!Pop, IRingPop
<1>4. CASE IRingPopEmpty
  <2>1. Contents = <<>>
    BY <1>1, <1>4, CountRange DEF IRingPopEmpty, ContentsIsSeq
  <2> QED BY <1>4, <2>1 DEF Stack!PopEmpty, IRingPopEmpty, Contents, Count, Slot
<1>5. CASE UNCHANGED ringvars
  BY <1>5 DEF ringvars, Contents, Count, Slot
<1> QED BY <1>2, <1>3, <1>4, <1>5 DEF IRingNext

\* The ring is a bounded stack, for every ring size.
THEOREM RingImplementsStack == IRingSpec => ImplementsStack
<1>1. IRingInit => IInv /\ Stack!StackInit
  <2> SUFFICES ASSUME IRingInit PROVE IInv /\ Stack!StackInit
    OBVIOUS
  <2>1. UndefinedIsDefault
    BY DEF IRingInit, UndefinedIsDefault
  <2>2. IRingTypeOK
    BY TypeInit
  <2>3. Contents = <<>>
    BY <2>2, ContentsType, CountRange DEF IRingInit, ContentsIsSeq
  <2> QED BY <2>1, <2>2, <2>3 DEF IRingInit, Stack!StackInit, IInv
<1>2. IInv /\ [IRingNext]_ringvars => IInv'
  BY RingTypeStep, SlotsStep DEF IInv
<1> QED BY <1>1, <1>2, StackStep, PTL DEF IRingSpec, ImplementsStack, Stack!StackSpec

----------------------------------------------------------------------------
(***************************************************************************)
(* tmpnam.  A test that has its file open made it, and no other test has   *)
(* the same name open: whoever comes second finds it in use.  That a name  *)
(* comes from NOCREATE is what brings O_EXCL into play.                    *)
(***************************************************************************)
TnDomains ==
    /\ DOMAIN tn_pc = TnTests /\ DOMAIN tn_tmpl = TnTests /\ DOMAIN tn_made = TnTests
    /\ DOMAIN tn_met = TnTests /\ DOMAIN tn_errno = TnTests
    /\ tn_count \in [TnTests -> Nat]

TnOpen(t) == tn_pc[t] = "open"
TnHeld ==
    Careful =>
      /\ \A t \in TnTests : TnOpen(t) => tn_made[t] = tn_tmpl[t] /\ tn_made[t] \in tn_files
      /\ \A t, u \in TnTests : TnOpen(t) /\ TnOpen(u) /\ t # u => tn_tmpl[t] # tn_tmpl[u]
TnNamed == \A t \in TnTests : tn_pc[t] = "named" => tn_kind[t] = "NOCREATE"
TnTold ==
    \A t \in TnTests :
      /\ tn_count[t] > 0 => tn_met[t] # {}
      /\ tn_errno[t] = "EEXIST" /\ tn_kind[t] # "NOCREATE" => tn_count[t] = TnAttempts
      /\ tn_errno[t] = "EEXIST" => tn_pc[t] = "ended"
TnIInv == TnDomains /\ TnHeld /\ TnNamed /\ TnTold

\* What a step of one test leaves alone.
LEMMA TnOthers ==
  ASSUME TnDomains, NEW t \in TnTests,
         path_search(t) \/ Draw(t) \/ OutOfAttempts(t) \/ Tryfunc(t) \/ TestOpens(t) \/ TestRemoves(t)
  PROVE  /\ TnDomains' /\ UNCHANGED <<tn_kind, tn_excl>>
         /\ \A u \in TnTests \ {t} :
              /\ tn_pc'[u] = tn_pc[u] /\ tn_tmpl'[u] = tn_tmpl[u] /\ tn_made'[u] = tn_made[u]
              /\ tn_met'[u] = tn_met[u] /\ tn_errno'[u] = tn_errno[u] /\ tn_count'[u] = tn_count[u]
<1> USE DEF TnDomains, Fails, tnCaller, Creates
<1>1. CASE path_search(t)
  BY <1>1 DEF path_search
<1>2. CASE Draw(t)
  BY <1>2 DEF Draw
<1>3. CASE OutOfAttempts(t)
  BY <1>3 DEF OutOfAttempts
<1>4. CASE Tryfunc(t)
  BY <1>4 DEF Tryfunc
<1>5. CASE TestOpens(t)
  BY <1>5 DEF TestOpens
<1>6. CASE TestRemoves(t)
  BY <1>6 DEF TestRemoves
<1> QED
  BY <1>1, <1>2, <1>3, <1>4, <1>5, <1>6

\* Where the test of a step does not have its file open afterwards, and takes away none but
\* its own, the others still hold theirs.
LEMMA TnStillHeld ==
  ASSUME TnIInv, NEW t \in TnTests, ~TnOpen(t)',
         UNCHANGED <<tn_kind, tn_excl>>,
         \A u \in TnTests \ {t} :
            tn_pc'[u] = tn_pc[u] /\ tn_tmpl'[u] = tn_tmpl[u] /\ tn_made'[u] = tn_made[u],
         tn_files' = tn_files \/ (TnOpen(t) /\ tn_files' = tn_files \ {tn_tmpl[t]})
  PROVE  TnHeld'
<1>1. Careful' = Careful
  BY DEF Careful
<1>2. \A u \in TnTests : TnOpen(u)' => u # t /\ TnOpen(u)
  BY DEF TnOpen
<1> QED
  BY <1>1, <1>2 DEF TnIInv, TnHeld

\* A test that creates a name gets one that nobody else has open.
LEMMA TnCreatedIsHeld ==
  ASSUME TnIInv, NEW t \in TnTests, Creates(t), tn_tmpl[t] \notin tn_files,
         UNCHANGED <<tn_kind, tn_excl, tn_tmpl>>,
         \A u \in TnTests \ {t} : tn_pc'[u] = tn_pc[u] /\ tn_made'[u] = tn_made[u]
  PROVE  TnHeld'
<1>1. Careful' = Careful
  BY DEF Careful
<1>2. tn_made'[t] = tn_tmpl[t] /\ tn_files' = tn_files \cup {tn_tmpl[t]}
  BY DEF Creates, TnIInv, TnDomains
<1> QED
  BY <1>1, <1>2 DEF TnIInv, TnHeld, TnOpen

LEMMA TnStepHeld ==
  ASSUME TnIInv, NEW t \in TnTests,
         path_search(t) \/ Draw(t) \/ OutOfAttempts(t) \/ Tryfunc(t) \/ TestOpens(t) \/ TestRemoves(t)
  PROVE  TnHeld'
<1>0. /\ UNCHANGED <<tn_kind, tn_excl>>
      /\ \A u \in TnTests \ {t} :
           tn_pc'[u] = tn_pc[u] /\ tn_tmpl'[u] = tn_tmpl[u] /\ tn_made'[u] = tn_made[u]
  BY TnOthers DEF TnIInv
<1>1. CASE path_search(t) \/ Draw(t) \/ OutOfAttempts(t)
  <2>1. tn_pc'[t] # "open" /\ tn_files' = tn_files
    BY <1>1 DEF path_search, Draw, OutOfAttempts, Fails, TnIInv, TnDomains
  <2> QED
    BY <1>0, <2>1, TnStillHeld DEF TnOpen
<1>2. CASE Tryfunc(t)
  <2>1. CASE ~Exists(t) /\ tn_kind[t] # "NOCREATE" /\ Creates(t)
    <3>1. UNCHANGED tn_tmpl
      BY <1>2 DEF Tryfunc
    <3> QED
      BY <1>0, <2>1, <3>1, TnCreatedIsHeld DEF Exists
  <2>2. CASE ~(~Exists(t) /\ tn_kind[t] # "NOCREATE" /\ Creates(t))
    <3>1. tn_pc'[t] # "open" /\ tn_files' = tn_files
      BY <1>2, <2>2 DEF Tryfunc, Fails, TnIInv, TnDomains
    <3> QED
      BY <1>0, <3>1, TnStillHeld DEF TnOpen
  <2> QED
    BY <2>1, <2>2
<1>3. CASE TestOpens(t)
  <2>1. UNCHANGED tn_tmpl
    BY <1>3 DEF TestOpens
  <2>2. CASE tn_tmpl[t] \notin tn_files
    BY <1>0, <1>3, <2>1, <2>2, TnCreatedIsHeld DEF TestOpens
  <2>3. CASE tn_tmpl[t] \in tn_files /\ tn_excl[t]
    <3>1. tn_pc'[t] = "ended" /\ tn_files' = tn_files
      BY <1>3, <2>3 DEF TestOpens, Fails, TnIInv, TnDomains
    <3> QED
      BY <1>0, <3>1, TnStillHeld DEF TnOpen
  <2>4. CASE tn_tmpl[t] \in tn_files /\ ~tn_excl[t]
    BY <1>0, <1>3, <2>4 DEF TestOpens, TnHeld, TnIInv, TnNamed, Careful
  <2> QED
    BY <2>2, <2>3, <2>4
<1>4. CASE TestRemoves(t)
  <2>1. tn_pc'[t] = "ended" /\ TnOpen(t) /\ tn_files' = tn_files \ {tn_tmpl[t]}
    BY <1>4 DEF TestRemoves, TnOpen, TnIInv, TnDomains
  <2> QED
    BY <1>0, <2>1, TnStillHeld DEF TnOpen
<1> QED
  BY <1>1, <1>2, <1>3, <1>4

LEMMA TnStepTold ==
  ASSUME TnIInv, NEW t \in TnTests,
         path_search(t) \/ Draw(t) \/ OutOfAttempts(t) \/ Tryfunc(t) \/ TestOpens(t) \/ TestRemoves(t)
  PROVE  TnNamed' /\ TnTold'
<1> USE DEF TnIInv, TnDomains, Fails, tnCaller, Creates, TnNamed, TnTold
<1>1. CASE path_search(t)
  BY <1>1 DEF path_search
<1>2. CASE Draw(t)
  BY <1>2 DEF Draw
<1>3. CASE OutOfAttempts(t)
  BY <1>3 DEF OutOfAttempts
<1>4. CASE Tryfunc(t)
  BY <1>4 DEF Tryfunc
<1>5. CASE TestOpens(t)
  BY <1>5 DEF TestOpens
<1>6. CASE TestRemoves(t)
  BY <1>6 DEF TestRemoves
<1> QED
  BY <1>1, <1>2, <1>3, <1>4, <1>5, <1>6

\* No two careful tests ever use one file, and only a test all of whose attempts met a name in
\* use is told EEXIST: for any number of tests, names and attempts (try_tempname_len,
\* tests/stat/dietlibc.c, tests/printf/gcc-2.c).
THEOREM TnIsExclusive == TnSpec => []TnExclusive
<1>1. TnInit => TnIInv
  BY DEF TnInit, TnIInv, TnDomains, TnHeld, TnOpen, TnNamed, TnTold
<1>2. TnIInv /\ [TnNext]_tnvars => TnIInv'
  <2> SUFFICES ASSUME TnIInv, [TnNext]_tnvars PROVE TnIInv'
    OBVIOUS
  <2>1. ASSUME NEW t \in TnTests,
               path_search(t) \/ Draw(t) \/ OutOfAttempts(t) \/ Tryfunc(t) \/ TestOpens(t)
               \/ TestRemoves(t)
        PROVE  TnIInv'
    <3>1. TnDomains'
      BY <2>1, TnOthers DEF TnIInv
    <3> QED
      BY <2>1, <3>1, TnStepHeld, TnStepTold DEF TnIInv
  <2>2. CASE UNCHANGED tnvars
    BY <2>2 DEF tnvars, tnCaller, TnIInv, TnDomains, TnHeld, TnOpen, TnNamed, TnTold, Careful
  <2> QED
    BY <2>1, <2>2 DEF TnNext
<1>3. TnIInv => TnExclusive
  BY TnAssumption DEF TnAssumption, TnIInv, TnDomains, TnHeld, TnOpen, TnTold, TnExclusive
<1> QED
  BY <1>1, <1>2, <1>3, PTL DEF TnSpec

-------------------------------------------------------------------------------
(***************************************************************************)
(* The list of entries of a directory.  While nothing fails, each entry was *)
(* given, is in the list or is still to be read; a sort moves the entries  *)
(* of the list and loses none.                                             *)
(***************************************************************************)

FlInfos == {"D", "F", "SL", "SLNONE", "NSOK", "NS"}
FlRoots == [dev : Nat, entries : Seq(Nat)]
FlNodes == [ino : Nat, info : FlInfos, required : BOOLEAN, path : Nat]
FlPcs == {"build", "read", "built", "entry", "given", "post", "stopped", "ended"}
FlTables == UNION {[devs -> FlTypes] : devs \in SUBSET Nat}
FlStreams ==
    [pc : FlPcs, nodes : Seq([root : FlRoots, path : Nat]), info : {"D", "DNR", "ERR", "DP"}, errno : BOOLEAN,
     dirp : BOOLEAN, unread : Seq(Nat), list : Seq(FlNodes), resumed : BOOLEAN, path : Nat, moved : BOOLEAN,
     sort : BOOLEAN, seen : Seq([ino : Nat, info : FlInfos]), ht : FlTables, trouble : Nat,
     compar : {"none", "caller"}]

FlTyped ==
    /\ fl_opt \in FlSetups /\ fl \in FlStreams
    /\ fl_files \in [kinds : Seq(FlKinds), types : Seq(FlTypes \ {"unknown"}), changed : SUBSET Nat]
    /\ DOMAIN fl_files.kinds = DOMAIN fl_opt.kinds /\ DOMAIN fl_files.types = DOMAIN fl_opt.types

\* Every root is one of the setup's, and there is one until the end.
FlRooted(s) ==
    /\ \A i \in DOMAIN s.nodes : /\ s.nodes[i].root.dev \in DOMAIN fl_opt.types
                                 /\ Range(s.nodes[i].root.entries) \subseteq DOMAIN fl_opt.kinds
    /\ s.pc \notin {"stopped", "ended"} => s.nodes # <<>>

\* A pointer is stale only after a move that fts_padjust has not seen to.
FlPaths(s) ==
    /\ ~s.moved => /\ \A i \in DOMAIN s.list : s.list[i].path = s.path
                   /\ \A i \in DOMAIN s.nodes : s.nodes[i].path = s.path
    /\ s.pc \notin {"read", "built", "stopped"} => ~s.moved

\* How long the list is where, and what a directory begins with.
FlBatches(s) ==
    /\ s.compar = "none" <=> fl_opt.compar = "none"
    /\ fl_opt.compar = "none" => Len(s.list) <= FlMaxEntries
    /\ fl_opt.compar = "none" /\ s.pc = "read" => Len(s.list) < FlMaxEntries
    /\ s.pc \in {"build", "post"} => s.list = <<>>
    /\ s.pc \in {"entry", "given"} => s.list # <<>>
    /\ s.pc = "build" => s.seen = <<>> /\ ~s.errno /\ s.info = "D"

\* While nothing fails each entry was given, is in the list, or is still to be read.
FlInos(q) == {q[i].ino : i \in DOMAIN q}
FlAccounted(s, held) ==
    /\ Len(s.seen) + Len(held) + Len(s.unread) = Len(FlHere(s).entries)
    /\ FlInos(s.seen) \cup FlInos(held) \cup Range(s.unread) = Range(FlHere(s).entries)
FlCounts(s) ==
    /\ ~s.errno /\ s.pc \in {"read", "built", "entry"} => FlAccounted(s, s.list)
    /\ ~s.errno /\ s.pc = "given" => FlAccounted(s, Tail(s.list))
    /\ ~s.errno /\ s.pc \in {"built", "entry", "given"} /\ ~s.dirp => s.unread = <<>>
    /\ s.pc = "read" => s.dirp
    /\ s.pc = "built" /\ s.list = <<>> => ~s.dirp

\* What a directory is known as before and after it is given.
FlStill(n) == n \notin fl_files.changed /\ fts_stat(n) = "D"
FlSees(s) ==
    /\ \A i \in DOMAIN s.unread : s.unread[i] \in DOMAIN fl_opt.kinds
    /\ \A i \in DOMAIN s.list :
         /\ s.list[i].ino \in DOMAIN fl_opt.kinds
         /\ FlStill(s.list[i].ino) => s.list[i].info = "D" \/ (s.list[i].info = "NSOK" /\ s.list[i].required)
    /\ \A i \in DOMAIN s.seen :
         s.seen[i].ino \in DOMAIN fl_opt.kinds /\ (FlStill(s.seen[i].ino) => s.seen[i].info \in {"D", "NS"})

FlGood(s) == FlRooted(s) /\ FlPaths(s) /\ FlBatches(s) /\ FlCounts(s) /\ FlSees(s)
FlIInv == FlTyped /\ FlGood(fl) /\ FlNothingSkipped

\* What the invariant says of a stream, but for the table of file systems.
FlLike(t, s) ==
    /\ t \in FlStreams /\ t.pc = s.pc /\ t.nodes = s.nodes /\ t.info = s.info /\ t.errno = s.errno
    /\ t.dirp = s.dirp /\ t.unread = s.unread /\ t.list = s.list /\ t.resumed = s.resumed /\ t.path = s.path
    /\ t.moved = s.moved /\ t.seen = s.seen /\ t.compar = s.compar

\* FlNothingSkipped, of any stream.
FlSkips(s) ==
    s.pc = "post" /\ s.info = "DP" =>
      LET entries == FlHere(s).entries
      IN \/ Len(s.seen) = Len(entries) /\ FlInos(s.seen) = Range(entries)
         \/ /\ s.seen = <<>>
            /\ \/ FlHere(s).dev \in DOMAIN s.ht /\ s.ht[FlHere(s).dev] # fl_files.types[FlHere(s).dev]
               \/ \A n \in Range(entries) \ fl_files.changed : fl_files.kinds[n] # "dir"

LEMMA FlInosAre ==
  ASSUME NEW q \in Seq([ino : Nat, info : FlInfos])
  PROVE  FlInos(q) = {e.ino : e \in Range(q)}
BY DEF FlInos, Range

\* Where nothing else changed, it is enough to look at the stream.
LEMMA FlLeft ==
  ASSUME FlTyped, fl_opt' = fl_opt, fl_files' = fl_files, fl' \in FlStreams, FlGood(fl'), FlSkips(fl')
  PROVE  FlIInv'
<1>1. FlTyped'
  BY DEF FlTyped
<1>2. FlGood(fl)'
  <2>1. \A n : FlStill(n)' <=> FlStill(n)
    BY DEF FlStill, fts_stat
  <2>2. FlSees(fl)'
    BY <2>1 DEF FlGood, FlSees
  <2>3. FlRooted(fl)' /\ FlPaths(fl)' /\ FlBatches(fl)' /\ FlCounts(fl)'
    BY DEF FlGood, FlRooted, FlPaths, FlBatches, FlCounts, FlAccounted, FlHere, FlInos
  <2> QED
    BY <2>2, <2>3 DEF FlGood
<1>3. FlNothingSkipped'
  <2>1. fl'.seen \in Seq([ino : Nat, info : FlInfos])
    BY DEF FlStreams
  <2>2. FlInos(fl'.seen) = {e.ino : e \in Range(fl'.seen)}
    BY <2>1, FlInosAre
  <2> QED
    BY <2>2 DEF FlSkips, FlNothingSkipped, FlHere, FlStale
<1> QED
  BY <1>1, <1>2, <1>3 DEF FlIInv

LEMMA FlTroubleIs ==
  ASSUME NEW s \in FlStreams, NEW t \in FlTrouble(s)
  PROVE  FlLike(t, s) /\ t.ht = s.ht
<1>1. t = [s EXCEPT !.trouble = s.trouble + 1]
  BY DEF FlTrouble
<1>2. s.trouble + 1 \in Nat
  BY DEF FlStreams
<1> QED
  BY <1>1, <1>2 DEF FlLike, FlStreams

LEMMA FlRestoreIs ==
  ASSUME NEW s \in FlStreams, NEW t \in restore_initial_cwd(s)
  PROVE  FlLike(t, s)
BY FlTroubleIs DEF restore_initial_cwd

LEMMA FlSetupIs ==
  ASSUME FlTyped
  PROVE  /\ fl_opt.logical \in BOOLEAN /\ fl_opt.nostat \in BOOLEAN /\ fl_opt.d_type \in BOOLEAN
         /\ fl_opt.compar \in {"none", "stat", "defer"}
         /\ \A i \in DOMAIN fl_opt.roots : /\ fl_opt.roots[i] \in FlRoots
                                           /\ fl_opt.roots[i].dev \in DOMAIN fl_opt.types
                                           /\ Range(fl_opt.roots[i].entries) \subseteq DOMAIN fl_opt.kinds
         /\ fl_opt.kinds \in Seq(FlKinds) /\ fl_opt.types \in Seq(FlTypes \ {"unknown"})
         /\ fl_opt.roots \in Seq(FlRoots)
         /\ FlMaxEntries \in Nat \ {0}
<1>1. fl_opt \in FlSetup /\ fl_opt \in FlSetups
  BY FlAssumption DEF FlTyped
<1>2. fl_opt.roots \in Seq(FlRoots)
  BY <1>1 DEF FlSetup, FlRoots
<1>3. \A i \in DOMAIN fl_opt.roots : fl_opt.roots[i] \in FlRoots
  BY <1>2
<1> QED
  BY <1>1, <1>2, <1>3, FlAssumption DEF FlSetup

LEMMA FlFilesAre ==
  ASSUME FlTyped
  PROVE  /\ \A n \in DOMAIN fl_opt.kinds : n \in Nat /\ fl_files.kinds[n] \in FlKinds
         /\ \A d \in DOMAIN fl_opt.types : d \in Nat /\ fl_files.types[d] \in FlTypes \ {"unknown"}
         /\ fl_files.changed \in SUBSET Nat
BY DEF FlTyped

\* The root a stream is in.
LEMMA FlHereIs ==
  ASSUME FlTyped, NEW s \in FlStreams, FlRooted(s), s.nodes # <<>>
  PROVE  /\ FlHere(s) = s.nodes[1].root /\ 1 \in DOMAIN s.nodes
         /\ FlHere(s).dev \in DOMAIN fl_opt.types
         /\ FlHere(s).entries \in Seq(Nat) /\ Range(FlHere(s).entries) \subseteq DOMAIN fl_opt.kinds
<1>1. s.nodes \in Seq([root : FlRoots, path : Nat]) /\ Len(s.nodes) \in Nat \ {0}
  BY DEF FlStreams
<1>2. 1 \in DOMAIN s.nodes /\ Head(s.nodes) = s.nodes[1] /\ s.nodes[1] \in [root : FlRoots, path : Nat]
  <2> DEFINE T == [root : FlRoots, path : Nat]
  <2> HIDE DEF T
  <2>1. s.nodes \in Seq(T) /\ s.nodes # <<>>
    BY <1>1 DEF T
  <2>2. 1 \in DOMAIN s.nodes /\ Head(s.nodes) = s.nodes[1] /\ s.nodes[1] \in T
    BY <1>1, <2>1
  <2> QED
    BY <2>2 DEF T
<1>3. s.nodes[1].root \in FlRoots
  BY <1>2
<1> QED
  BY <1>2, <1>3 DEF FlHere, FlRooted, FlRoots

LEMMA FlSystemIs ==
  ASSUME FlTyped, NEW s \in FlStreams, FlRooted(s), s.nodes # <<>>, NEW r \in filesystem_type(s)
  PROVE  /\ FlLike(r[2], s)
         /\ \/ r[1] \in {fl_files.types[FlHere(s).dev], "unknown"}
            \/ FlHere(s).dev \in DOMAIN r[2].ht /\ r[1] = r[2].ht[FlHere(s).dev]
<1> DEFINE dev == FlHere(s).dev
           type == fl_files.types[dev]
           ht == [d \in DOMAIN s.ht \cup {dev} |-> IF d = dev THEN type ELSE s.ht[d]]
<1>1. dev \in Nat /\ type \in FlTypes
  BY FlHereIs, FlFilesAre
<1>2. FlLike(s, s)
  BY DEF FlLike
<1>3. CASE r = <<"unknown", s>>
  BY <1>2, <1>3
<1>4. CASE dev \in DOMAIN s.ht /\ r = <<s.ht[dev], s>>
  BY <1>2, <1>4
<1>5. CASE r = <<type, [s EXCEPT !.ht = ht]>>
  <2>1. PICK devs \in SUBSET Nat : s.ht \in [devs -> FlTypes]
    BY DEF FlStreams, FlTables
  <2>2. ht \in [devs \cup {dev} -> FlTypes] /\ devs \cup {dev} \in SUBSET Nat
    BY <1>1, <2>1
  <2>3. ht \in FlTables
    BY <2>2 DEF FlTables
  <2> HIDE DEF ht
  <2>4. FlLike([s EXCEPT !.ht = ht], s)
    BY <2>3 DEF FlLike, FlStreams
  <2> QED
    BY <1>5, <2>4
<1>6. CASE \E known \in {type, "unknown"}, t \in FlTrouble(s) : r = <<known, t>>
  BY <1>6, FlTroubleIs
<1>7. \/ r = <<"unknown", s>>
      \/ dev \in DOMAIN s.ht /\ r = <<s.ht[dev], s>>
      \/ r = <<type, [s EXCEPT !.ht = ht]>>
      \/ \E known \in {type, "unknown"}, t \in FlTrouble(s) : r = <<known, t>>
  BY DEF filesystem_type
<1> QED
  BY <1>3, <1>4, <1>5, <1>6, <1>7

\* With two links a directory of a type that counts them has no subdirectories.
LEMMA FlDescendsIs ==
  ASSUME FlTyped, FlGood(fl), fl.pc = "build", NEW r \in Descends(fl)
  PROVE  /\ FlLike(r[2], fl) /\ r[1] \in BOOLEAN
         /\ ~r[1] => \/ FlHere(fl).dev \in DOMAIN r[2].ht
                        /\ r[2].ht[FlHere(fl).dev] # fl_files.types[FlHere(fl).dev]
                     \/ \A n \in Range(FlHere(fl).entries) : fl_files.kinds[n] # "dir"
<1> DEFINE entries == FlHere(fl).entries
           dev == FlHere(fl).dev
           dirs == {n \in Range(entries) : fl_files.kinds[n] = "dir"}
<1>1. fl \in FlStreams /\ FlRooted(fl) /\ fl.nodes # <<>> /\ FlLike(fl, fl)
  BY DEF FlTyped, FlGood, FlRooted, FlLike
<1>2. IsFiniteSet(dirs) /\ Cardinality(dirs) \in Nat /\ (Cardinality(dirs) = 0 => dirs = {})
  <2>1. dirs \subseteq DOMAIN fl_opt.kinds
    BY <1>1, FlHereIs
  <2>2. fl_opt.kinds \in Seq(FlKinds)
    BY FlSetupIs
  <2>3. DOMAIN fl_opt.kinds = 1 .. Len(fl_opt.kinds) /\ Len(fl_opt.kinds) \in Nat
    BY <2>2
  <2>4. IsFiniteSet(DOMAIN fl_opt.kinds)
    BY <2>3, FS_Interval
  <2>5. IsFiniteSet(dirs)
    BY <2>1, <2>4, FS_Subset
  <2> QED
    BY <2>5, FS_EmptySet, FS_CardinalityType
<1>3. CASE r = <<TRUE, fl>>
  BY <1>1, <1>3
<1>4. CASE FlLinks = 2 /\ \E q \in filesystem_type(fl) : r = <<~leaf_optimization(q[1]), q[2]>>
  <2>1. PICK q \in filesystem_type(fl) : r = <<~leaf_optimization(q[1]), q[2]>>
    BY <1>4
  <2>2. /\ FlLike(q[2], fl)
        /\ \/ q[1] \in {fl_files.types[dev], "unknown"}
           \/ dev \in DOMAIN q[2].ht /\ q[1] = q[2].ht[dev]
    BY <1>1, FlSystemIs
  <2>3. leaf_optimization(q[1]) \in BOOLEAN
    BY DEF leaf_optimization
  <2>4. leaf_optimization(q[1]) /\ q[1] = fl_files.types[dev] => dirs = {}
    <3> SUFFICES ASSUME leaf_optimization(q[1]), q[1] = fl_files.types[dev]
                 PROVE  dirs = {}
      OBVIOUS
    <3>1. FlLinks = 2 + Cardinality(dirs)
      BY DEF FlLinks, FlCounted, leaf_optimization
    <3> HIDE DEF dirs
    <3> QED
      BY <1>2, <1>4, <3>1
  <2>5. leaf_optimization(q[1]) => q[1] # "unknown"
    BY DEF leaf_optimization
  <2> QED
    BY <2>1, <2>2, <2>3, <2>4, <2>5
<1> QED
  BY <1>3, <1>4 DEF Descends

\* Where the walk stops, nothing is left to be said.
FlNear(t, s) ==
    /\ t \in FlStreams /\ t.nodes = s.nodes /\ t.unread = s.unread /\ t.seen = s.seen /\ t.path = s.path
    /\ t.moved = s.moved /\ t.compar = s.compar

LEMMA FlLikeIsNear ==
  ASSUME NEW s, NEW t, FlLike(t, s)
  PROVE  FlNear(t, s)
BY DEF FlLike, FlNear

LEMMA FlStopGood ==
  ASSUME FlTyped, NEW s, FlGood(s), NEW t, FlNear(t, s)
  PROVE  FlStop(t) \in FlStreams /\ FlGood(FlStop(t)) /\ FlSkips(FlStop(t))
<1> DEFINE f == FlStop(t)
<1>1. /\ f \in FlStreams /\ f.pc = "stopped" /\ f.list = <<>> /\ f.nodes = s.nodes /\ f.unread = s.unread
      /\ f.seen = s.seen /\ f.path = s.path /\ f.moved = s.moved /\ f.compar = s.compar
  <2>1. <<>> \in Seq(FlNodes) /\ "stopped" \in FlPcs
    BY DEF FlPcs
  <2> QED
    BY <2>1 DEF FlStop, FlNear, FlStreams
<1> HIDE DEF f
<1>2. DOMAIN f.list = {} /\ Len(f.list) = 0
  BY <1>1
<1>3. FlRooted(f) /\ FlPaths(f) /\ FlCounts(f) /\ FlSees(f)
  BY <1>1, <1>2 DEF FlGood, FlRooted, FlPaths, FlCounts, FlSees
<1>4. FlBatches(f)
  BY <1>1, <1>2, FlAssumption DEF FlGood, FlBatches
<1>5. FlSkips(f)
  BY <1>1 DEF FlSkips
<1> QED
  BY <1>1, <1>3, <1>4, <1>5 DEF FlGood, f

\* The post-order visit of a root.
LEMMA FlPostGood ==
  ASSUME FlTyped, NEW s \in FlStreams, FlRooted(s), FlPaths(s), FlSees(s), s.nodes # <<>>, ~s.moved,
         s.list = <<>>, s.compar = "none" <=> fl_opt.compar = "none"
  PROVE  /\ FlPost(s) \in FlStreams /\ FlGood(FlPost(s)) /\ FlPost(s).seen = s.seen
         /\ FlPost(s).nodes = s.nodes /\ FlPost(s).ht = s.ht
         /\ FlPost(s).info = "DP" => ~s.errno
<1> DEFINE f == FlPost(s)
<1>1. /\ f \in FlStreams /\ f.pc = "post" /\ f.list = <<>> /\ f.nodes = s.nodes /\ f.unread = s.unread
      /\ f.seen = s.seen /\ f.path = s.path /\ f.moved = s.moved /\ f.compar = s.compar /\ f.ht = s.ht
      /\ f.info = "DP" => ~s.errno
  <2> DEFINE info == IF s.errno /\ s.info # "DNR" THEN "ERR" ELSE IF s.info = "DNR" THEN s.info ELSE "DP"
  <2>1. info \in {"D", "DNR", "ERR", "DP"} /\ (info = "DP" => ~s.errno)
    OBVIOUS
  <2>2. f = [s EXCEPT !.pc = "post", !.info = info]
    BY DEF FlPost
  <2>3. "post" \in FlPcs
    BY DEF FlPcs
  <2> HIDE DEF info, f
  <2> QED
    BY <2>1, <2>2, <2>3 DEF FlStreams
<1> HIDE DEF f
<1>2. DOMAIN f.list = {} /\ Len(f.list) = 0
  BY <1>1
<1>3. FlRooted(f) /\ FlPaths(f) /\ FlCounts(f) /\ FlSees(f)
  BY <1>1, <1>2 DEF FlRooted, FlPaths, FlCounts, FlSees
<1>4. FlBatches(f)
  BY <1>1, <1>2, FlAssumption DEF FlBatches
<1> QED
  BY <1>1, <1>3, <1>4 DEF FlGood, f

\* A directory that was not entered because it has no subdirectories, or not opened.
LEMMA FlOpenKeeps ==
  ASSUME FlIInv, FlOpen
  PROVE  FlIInv'
<1>1. /\ fl_opt' = fl_opt /\ fl_files' = fl_files /\ FlTyped /\ FlGood(fl) /\ fl.pc = "build"
      /\ fl \in FlStreams /\ fl.list = <<>> /\ fl.seen = <<>> /\ fl.nodes # <<>> /\ ~fl.moved /\ ~fl.errno
      /\ fl.compar = "none" <=> fl_opt.compar = "none"
  BY DEF FlOpen, FlIInv, FlTyped, FlGood, FlBatches, FlPaths, FlRooted
<1> SUFFICES fl' \in FlStreams /\ FlGood(fl') /\ FlSkips(fl')
  BY <1>1, FlLeft
<1>2. ASSUME NEW t \in FlTrouble(fl), fl' = FlPost([t EXCEPT !.info = "DNR", !.errno = TRUE])
      PROVE  fl' \in FlStreams /\ FlGood(fl') /\ FlSkips(fl')
  <2> DEFINE u == [t EXCEPT !.info = "DNR", !.errno = TRUE]
  <2>1. FlLike(t, fl)
    BY <1>1, <1>2, FlTroubleIs
  <2>2. /\ u \in FlStreams /\ u.pc = fl.pc /\ u.errno = TRUE /\ u.nodes = fl.nodes /\ u.list = fl.list
        /\ u.unread = fl.unread /\ u.seen = fl.seen /\ u.path = fl.path /\ u.moved = fl.moved
        /\ u.compar = fl.compar
    BY <2>1 DEF FlLike, FlStreams
  <2> HIDE DEF u
  <2>3. FlRooted(u) /\ FlPaths(u) /\ FlSees(u)
    BY <1>1, <2>2 DEF FlGood, FlRooted, FlPaths, FlSees
  <2>4. fl' \in FlStreams /\ FlGood(fl') /\ fl'.info # "DP"
    BY <1>1, <1>2, <2>2, <2>3, FlPostGood DEF u
  <2> QED
    BY <2>4 DEF FlSkips
<1>3. ASSUME NEW r \in Descends(fl),
             fl' = [r[2] EXCEPT !.pc = "read", !.dirp = TRUE, !.unread = FlHere(fl).entries]
      PROVE  fl' \in FlStreams /\ FlGood(fl') /\ FlSkips(fl')
  <2>1. FlLike(r[2], fl)
    BY <1>1, <1>3, FlDescendsIs
  <2>2. /\ FlHere(fl).entries \in Seq(Nat) /\ Range(FlHere(fl).entries) \subseteq DOMAIN fl_opt.kinds
    BY <1>1, FlHereIs DEF FlGood
  <2>3. /\ fl' \in FlStreams /\ fl'.pc = "read" /\ fl'.nodes = fl.nodes /\ fl'.list = <<>> /\ fl'.seen = <<>>
        /\ fl'.unread = FlHere(fl).entries /\ fl'.path = fl.path /\ fl'.moved = fl.moved
        /\ fl'.compar = fl.compar /\ fl'.dirp = TRUE
    <3> DEFINE e == FlHere(fl).entries
    <3> HIDE DEF e
    <3>1. e \in Seq(Nat) /\ "read" \in FlPcs /\ fl' = [r[2] EXCEPT !.pc = "read", !.dirp = TRUE, !.unread = e]
      BY <1>3, <2>2 DEF FlPcs, e
    <3>2. fl'.unread = e /\ fl' \in FlStreams /\ fl'.pc = "read" /\ fl'.nodes = r[2].nodes /\ fl'.list = r[2].list
          /\ fl'.seen = r[2].seen /\ fl'.path = r[2].path /\ fl'.moved = r[2].moved /\ fl'.compar = r[2].compar
          /\ fl'.dirp = TRUE
      BY <2>1, <3>1 DEF FlLike, FlStreams
    <3> QED
      BY <1>1, <2>1, <3>2 DEF FlLike, e
  <2>4. FlHere(fl') = FlHere(fl) /\ Len(fl'.list) = 0 /\ Len(fl'.seen) = 0 /\ DOMAIN fl'.list = {} /\ DOMAIN fl'.seen = {}
    BY <2>3 DEF FlHere
  <2>5. FlRooted(fl') /\ FlPaths(fl')
    BY <1>1, <2>3 DEF FlGood, FlRooted, FlPaths
  <2>6. FlBatches(fl')
    BY <1>1, <2>3, <2>4, FlAssumption DEF FlBatches
  <2>7. FlCounts(fl')
    <3>1. Len(FlHere(fl).entries) \in Nat
      BY <2>2
    <3>2. FlAccounted(fl', fl'.list)
      BY <2>3, <2>4, <3>1 DEF FlAccounted, FlInos
    <3> QED
      BY <2>3, <3>2 DEF FlCounts
  <2>8. FlSees(fl')
    <3>1. \A i \in DOMAIN FlHere(fl).entries : FlHere(fl).entries[i] \in DOMAIN fl_opt.kinds
      BY <2>2 DEF Range
    <3> QED
      BY <2>3, <2>4, <3>1 DEF FlSees
  <2>9. FlSkips(fl')
    BY <2>3 DEF FlSkips
  <2> QED
    BY <2>3, <2>5, <2>6, <2>7, <2>8, <2>9 DEF FlGood
<1>4. ASSUME NEW r \in Descends(fl), NEW t \in FlTrouble(r[2]), fl' = FlPost([t EXCEPT !.errno = r[1]])
      PROVE  fl' \in FlStreams /\ FlGood(fl') /\ FlSkips(fl')
  <2> DEFINE u == [t EXCEPT !.errno = r[1]]
  <2>1. /\ FlLike(r[2], fl) /\ r[1] \in BOOLEAN
        /\ ~r[1] => \/ FlHere(fl).dev \in DOMAIN r[2].ht
                       /\ r[2].ht[FlHere(fl).dev] # fl_files.types[FlHere(fl).dev]
                    \/ \A n \in Range(FlHere(fl).entries) : fl_files.kinds[n] # "dir"
    BY <1>1, <1>4, FlDescendsIs
  <2>2. FlLike(t, fl) /\ t.ht = r[2].ht
    BY <1>4, <2>1, FlTroubleIs DEF FlLike
  <2>3. /\ u \in FlStreams /\ u.pc = fl.pc /\ u.errno = r[1] /\ u.nodes = fl.nodes /\ u.list = fl.list
        /\ u.unread = fl.unread /\ u.seen = fl.seen /\ u.path = fl.path /\ u.moved = fl.moved
        /\ u.compar = fl.compar /\ u.ht = r[2].ht
    BY <2>1, <2>2 DEF FlLike, FlStreams
  <2> HIDE DEF u
  <2>4. FlRooted(u) /\ FlPaths(u) /\ FlSees(u)
    BY <1>1, <2>3 DEF FlGood, FlRooted, FlPaths, FlSees
  <2>5. /\ fl' \in FlStreams /\ FlGood(fl') /\ fl'.seen = <<>> /\ fl'.nodes = fl.nodes /\ fl'.ht = r[2].ht
        /\ fl'.info = "DP" => ~r[1]
    BY <1>1, <1>4, <2>3, <2>4, FlPostGood DEF u
  <2>6. FlHere(fl') = FlHere(fl)
    BY <2>5 DEF FlHere
  <2> QED
    BY <2>1, <2>5, <2>6 DEF FlSkips
<1> QED
  BY <1>2, <1>3, <1>4 DEF FlOpen

\* What is in a list, and in what is left of it.
LEMMA FlAppendIs ==
  ASSUME NEW S, NEW q \in Seq(S), NEW e \in S
  PROVE  /\ Append(q, e) \in Seq(S) /\ Len(q) \in Nat /\ Len(Append(q, e)) = Len(q) + 1 /\ Append(q, e) # <<>>
         /\ DOMAIN q = 1 .. Len(q) /\ DOMAIN Append(q, e) = 1 .. Len(q) + 1
         /\ \A i \in DOMAIN q : Append(q, e)[i] = q[i]
         /\ Append(q, e)[Len(q) + 1] = e
         /\ FlInos(Append(q, e)) = FlInos(q) \cup {e.ino}
<1>1. /\ Append(q, e) \in Seq(S) /\ Len(q) \in Nat /\ Len(Append(q, e)) = Len(q) + 1 /\ Append(q, e) # <<>>
      /\ DOMAIN q = 1 .. Len(q) /\ DOMAIN Append(q, e) = 1 .. Len(q) + 1
      /\ \A i \in DOMAIN q : Append(q, e)[i] = q[i]
      /\ Append(q, e)[Len(q) + 1] = e
  BY AppendProperties
<1>2. \A i \in DOMAIN Append(q, e) : i \in DOMAIN q \/ i = Len(q) + 1
  BY <1>1
<1>3. FlInos(Append(q, e)) = FlInos(q) \cup {e.ino}
  <2> DEFINE a == Append(q, e)
  <2> HIDE DEF a
  <2>1. DOMAIN q \subseteq DOMAIN a /\ Len(q) + 1 \in DOMAIN a
    BY <1>1 DEF a
  <2>2. \A i \in DOMAIN a : a[i].ino \in FlInos(q) \cup {e.ino}
    BY <1>1, <1>2 DEF a, FlInos
  <2>3. \A i \in DOMAIN q : q[i].ino = a[i].ino
    BY <1>1 DEF a
  <2>4. a[Len(q) + 1].ino = e.ino
    BY <1>1 DEF a
  <2> QED
    BY <2>1, <2>2, <2>3, <2>4 DEF FlInos, a
<1> QED
  BY <1>1, <1>3

LEMMA FlTailIs ==
  ASSUME NEW S, NEW q \in Seq(S), q # <<>>
  PROVE  /\ Head(q) = q[1] /\ Head(q) \in S /\ Tail(q) \in Seq(S) /\ Len(q) \in Nat \ {0} /\ Len(Tail(q)) = Len(q) - 1
         /\ DOMAIN q = 1 .. Len(q) /\ 1 \in DOMAIN q /\ DOMAIN Tail(q) = 1 .. Len(q) - 1
         /\ \A i \in DOMAIN Tail(q) : i + 1 \in DOMAIN q /\ Tail(q)[i] = q[i + 1]
         /\ FlInos(q) = {Head(q).ino} \cup FlInos(Tail(q))
         /\ Range(q) = {Head(q)} \cup Range(Tail(q))
<1>1. /\ Head(q) = q[1] /\ Head(q) \in S /\ Tail(q) \in Seq(S) /\ Len(q) \in Nat \ {0} /\ Len(Tail(q)) = Len(q) - 1
      /\ DOMAIN q = 1 .. Len(q) /\ 1 \in DOMAIN q /\ DOMAIN Tail(q) = 1 .. Len(q) - 1
  BY HeadTailProperties
<1>2. \A i \in DOMAIN Tail(q) : i + 1 \in DOMAIN q /\ Tail(q)[i] = q[i + 1]
  BY <1>1, HeadTailProperties
<1>3. \A i \in DOMAIN q : i = 1 \/ (i - 1 \in DOMAIN Tail(q) /\ q[i] = Tail(q)[i - 1])
  BY <1>1, <1>2
<1> DEFINE t == Tail(q)
           h == Head(q)
<1> HIDE DEF t, h
<1>4. FlInos(q) = {h.ino} \cup FlInos(t)
  <2>1. \A i \in DOMAIN q : q[i].ino \in {h.ino} \cup FlInos(t)
    BY <1>1, <1>3 DEF t, h, FlInos
  <2>2. h.ino \in FlInos(q)
    BY <1>1 DEF h, FlInos
  <2>3. \A i \in DOMAIN t : t[i].ino \in FlInos(q)
    BY <1>2 DEF t, FlInos
  <2> QED
    BY <2>1, <2>2, <2>3 DEF FlInos
<1>5. Range(q) = {h} \cup Range(t)
  <2>1. \A i \in DOMAIN q : q[i] \in {h} \cup Range(t)
    BY <1>1, <1>3 DEF t, h, Range
  <2>2. h \in Range(q)
    BY <1>1 DEF h, Range
  <2>3. \A i \in DOMAIN t : t[i] \in Range(q)
    BY <1>2 DEF t, Range
  <2> QED
    BY <2>1, <2>2, <2>3 DEF Range
<1> QED
  BY <1>1, <1>2, <1>4, <1>5 DEF t, h

LEMMA FlReaddirEndsKeeps ==
  ASSUME FlIInv, FlReaddirEnds
  PROVE  FlIInv'
<1>1. /\ fl_opt' = fl_opt /\ fl_files' = fl_files /\ FlTyped /\ FlGood(fl) /\ fl.pc = "read" /\ fl \in FlStreams
  BY DEF FlReaddirEnds, FlIInv, FlTyped
<1> SUFFICES fl' \in FlStreams /\ FlGood(fl') /\ FlSkips(fl')
  BY <1>1, FlLeft
<1>2. /\ fl' \in FlStreams /\ fl'.pc = "built" /\ ~fl'.dirp /\ fl'.nodes = fl.nodes /\ fl'.list = fl.list
      /\ fl'.unread = fl.unread /\ fl'.seen = fl.seen /\ fl'.path = fl.path /\ fl'.moved = fl.moved
      /\ fl'.compar = fl.compar /\ (fl'.errno \/ (fl'.errno = fl.errno /\ fl.unread = <<>>))
  <2>1. "built" \in FlPcs
    BY DEF FlPcs
  <2>2. CASE fl.unread = <<>> /\ fl' = [fl EXCEPT !.pc = "built", !.dirp = FALSE]
    BY <1>1, <2>1, <2>2 DEF FlStreams
  <2>3. ASSUME NEW t \in FlTrouble(fl),
               fl' = [t EXCEPT !.pc = "built", !.dirp = FALSE, !.errno = TRUE,
                               !.info = IF t.resumed \/ t.list # <<>> THEN "ERR" ELSE "DNR"]
        PROVE  /\ fl' \in FlStreams /\ fl'.pc = "built" /\ ~fl'.dirp /\ fl'.nodes = fl.nodes /\ fl'.list = fl.list
               /\ fl'.unread = fl.unread /\ fl'.seen = fl.seen /\ fl'.path = fl.path /\ fl'.moved = fl.moved
               /\ fl'.compar = fl.compar /\ fl'.errno
    <3>1. FlLike(t, fl)
      BY <1>1, <2>3, FlTroubleIs
    <3> QED
      BY <2>1, <2>3, <3>1 DEF FlLike, FlStreams
  <2> QED
    BY <2>2, <2>3 DEF FlReaddirEnds
<1>3. FlRooted(fl') /\ FlPaths(fl') /\ FlSees(fl') /\ FlBatches(fl')
  BY <1>1, <1>2 DEF FlGood, FlRooted, FlPaths, FlSees, FlBatches
<1>4. FlCounts(fl')
  BY <1>1, <1>2 DEF FlGood, FlCounts, FlAccounted, FlHere
<1>5. FlSkips(fl')
  BY <1>2 DEF FlSkips
<1> QED
  BY <1>2, <1>3, <1>4, <1>5 DEF FlGood

\* What an entry is known as when it joins the list.
LEMMA FlNodeIs ==
  ASSUME FlTyped, NEW s \in FlStreams, NEW n \in DOMAIN fl_opt.kinds
  PROVE  /\ FlNode(s, n) \in FlNodes /\ FlNode(s, n).ino = n /\ FlNode(s, n).path = s.path
         /\ FlStill(n) => FlNode(s, n).info = "D" \/ (FlNode(s, n).info = "NSOK" /\ FlNode(s, n).required)
         /\ fts_stat(n) \in FlInfos
<1>1. n \in Nat /\ fl_files.kinds[n] \in FlKinds
  BY FlFilesAre
<1>2. fts_stat(n) \in FlInfos
  BY <1>1 DEF fts_stat, FlKinds, FlInfos
<1>3. skip_stat(n) \in BOOLEAN /\ (skip_stat(n) => fts_stat(n) # "D")
  BY <1>1 DEF skip_stat, fts_stat, FlKinds, IsLink
<1>4. s.path \in Nat
  BY DEF FlStreams
<1>5. CASE fl_opt.compar = "stat"
  <2> DEFINE info == fts_stat(n)
  <2> HIDE DEF info
  <2>1. FlNode(s, n) = [ino |-> n, info |-> info, required |-> FALSE, path |-> s.path]
    BY <1>5 DEF FlNode, info
  <2>2. info \in FlInfos
    BY <1>2 DEF info
  <2>3. FlNode(s, n) \in FlNodes /\ FlNode(s, n).ino = n /\ FlNode(s, n).path = s.path /\ FlNode(s, n).info = info
    BY <1>1, <1>4, <2>1, <2>2 DEF FlNodes
  <2>4. FlStill(n) => info = "D"
    BY DEF FlStill, info
  <2> QED
    BY <1>2, <2>3, <2>4
<1>6. CASE fl_opt.compar # "stat"
  <2> DEFINE required == ~skip_stat(n)
  <2> HIDE DEF required
  <2>1. FlNode(s, n) = [ino |-> n, info |-> "NSOK", required |-> required, path |-> s.path]
    BY <1>6 DEF FlNode, required
  <2>2. required \in BOOLEAN /\ "NSOK" \in FlInfos /\ (fts_stat(n) = "D" => required)
    BY <1>3 DEF required, FlInfos
  <2>3. FlNode(s, n) \in FlNodes /\ FlNode(s, n).ino = n /\ FlNode(s, n).path = s.path
        /\ FlNode(s, n).info = "NSOK" /\ FlNode(s, n).required = required
    BY <1>1, <1>4, <2>1, <2>2 DEF FlNodes
  <2> QED
    BY <1>2, <2>2, <2>3 DEF FlStill
<1> QED
  BY <1>5, <1>6

LEMMA FlReaddirKeeps ==
  ASSUME FlIInv, FlReaddir
  PROVE  FlIInv'
<1>1. /\ fl_opt' = fl_opt /\ fl_files' = fl_files /\ FlTyped /\ FlGood(fl) /\ fl.pc = "read" /\ fl \in FlStreams
      /\ fl.unread # <<>> /\ FlRooted(fl) /\ fl.nodes # <<>>
  BY DEF FlReaddir, FlIInv, FlTyped, FlGood, FlRooted
<1> SUFFICES fl' \in FlStreams /\ FlGood(fl') /\ FlSkips(fl')
  BY <1>1, FlLeft
<1>2. CASE \E t \in FlTrouble(fl) : fl' = FlStop(t)
  BY <1>1, <1>2, FlTroubleIs, FlLikeIsNear, FlStopGood
<1>3. ASSUME NEW s \in fts_palloc(fl, Head(fl.unread)), NEW t \in WillSort(s),
             fl' = [t EXCEPT !.list = Append(t.list, FlNode(t, Head(t.unread))), !.unread = Tail(@),
                             !.pc = IF t.compar = "none" /\ FlMaxEntries <= Len(Append(t.list, FlNode(t, Head(t.unread))))
                                    THEN "built" ELSE @]
      PROVE  fl' \in FlStreams /\ FlGood(fl') /\ FlSkips(fl')
  <2>1. /\ s \in FlStreams /\ s.pc = fl.pc /\ s.nodes = fl.nodes /\ s.errno = fl.errno /\ s.dirp = fl.dirp
        /\ s.unread = fl.unread /\ s.list = fl.list /\ s.seen = fl.seen /\ s.compar = fl.compar
        /\ (s.moved \/ (s.moved = fl.moved /\ s.path = fl.path))
    <3>1. fl.path + 1 \in Nat
      BY <1>1 DEF FlStreams
    <3>2. CASE s = fl
      BY <1>1, <3>2
    <3>3. CASE s = [fl EXCEPT !.path = fl.path + 1, !.moved = TRUE]
      BY <1>1, <3>1, <3>3 DEF FlStreams
    <3> QED
      BY <3>2, <3>3 DEF fts_palloc
  <2>2. FlRooted(s) /\ s.nodes # <<>>
    BY <1>1, <2>1 DEF FlRooted
  <2>3. FlLike(t, s)
    <3>1. CASE t = s
      BY <2>1, <3>1 DEF FlLike
    <3>2. ASSUME NEW r \in filesystem_type(s), t = [r[2] EXCEPT !.sort = dirent_inode_sort_may_be_useful(r[1])]
          PROVE  FlLike(t, s)
      <4>1. FlLike(r[2], s)
        BY <1>1, <2>1, <2>2, FlSystemIs
      <4>2. dirent_inode_sort_may_be_useful(r[1]) \in BOOLEAN
        BY DEF dirent_inode_sort_may_be_useful
      <4> QED
        BY <3>2, <4>1, <4>2 DEF FlLike, FlStreams
    <3> QED
      BY <3>1, <3>2 DEF WillSort
  <2>4. /\ t \in FlStreams /\ t.pc = "read" /\ t.nodes = fl.nodes /\ t.errno = fl.errno /\ t.dirp = fl.dirp
        /\ t.unread = fl.unread /\ t.list = fl.list /\ t.seen = fl.seen /\ t.compar = fl.compar
        /\ (t.moved \/ (t.moved = fl.moved /\ t.path = fl.path))
    BY <1>1, <2>1, <2>3 DEF FlLike
  <2> DEFINE n == Head(fl.unread)
             node == FlNode(t, n)
             list == Append(fl.list, node)
             rest == Tail(fl.unread)
             pc == IF fl.compar = "none" /\ FlMaxEntries <= Len(list) THEN "built" ELSE "read"
  <2>5. fl.unread \in Seq(Nat) /\ fl.list \in Seq(FlNodes) /\ fl.seen \in Seq([ino : Nat, info : FlInfos])
    BY <1>1 DEF FlStreams
  <2>6. /\ n \in Nat /\ rest \in Seq(Nat) /\ Len(fl.unread) \in Nat /\ Len(rest) = Len(fl.unread) - 1
        /\ \A i \in DOMAIN rest : i + 1 \in DOMAIN fl.unread /\ rest[i] = fl.unread[i + 1]
        /\ Range(fl.unread) = {n} \cup Range(rest) /\ 1 \in DOMAIN fl.unread /\ n = fl.unread[1]
    BY <1>1, <2>5, FlTailIs
  <2>7. n \in DOMAIN fl_opt.kinds
    BY <1>1, <2>6 DEF FlGood, FlSees
  <2>8. /\ node \in FlNodes /\ node.ino = n /\ node.path = t.path
        /\ FlStill(n) => node.info = "D" \/ (node.info = "NSOK" /\ node.required)
    BY <1>1, <2>4, <2>7, FlNodeIs
  <2> HIDE DEF node
  <2>9. /\ list \in Seq(FlNodes) /\ Len(fl.list) \in Nat /\ Len(list) = Len(fl.list) + 1 /\ list # <<>>
        /\ DOMAIN fl.list = 1 .. Len(fl.list) /\ DOMAIN list = 1 .. Len(fl.list) + 1
        /\ \A i \in DOMAIN fl.list : list[i] = fl.list[i]
        /\ list[Len(fl.list) + 1] = node /\ FlInos(list) = FlInos(fl.list) \cup {n}
    BY <2>5, <2>8, FlAppendIs
  <2>10. \A i \in DOMAIN list : list[i] = node \/ (i \in DOMAIN fl.list /\ list[i] = fl.list[i])
    BY <2>9
  <2>11. pc \in {"read", "built"}
    OBVIOUS
  <2>12. fl' = [t EXCEPT !.list = list, !.unread = rest, !.pc = pc]
    BY <1>3, <2>4 DEF node
  <2> HIDE DEF n, list, rest
  <2>13. pc = "read" /\ fl_opt.compar = "none" => Len(list) < FlMaxEntries
    <3>1. fl.compar = "none" <=> fl_opt.compar = "none"
      BY <1>1 DEF FlGood, FlBatches
    <3>2. FlMaxEntries \in Nat /\ Len(list) \in Nat
      BY <2>9, FlAssumption
    <3> QED
      BY <3>1, <3>2
  <2> HIDE DEF pc
  <2>14. /\ fl' \in FlStreams /\ fl'.pc = pc /\ fl'.list = list /\ fl'.unread = rest /\ fl'.nodes = fl.nodes
         /\ fl'.errno = fl.errno /\ fl'.dirp = fl.dirp /\ fl'.seen = fl.seen /\ fl'.compar = fl.compar
         /\ fl'.moved = t.moved /\ fl'.path = t.path
    <3>1. pc \in FlPcs
      BY <2>11 DEF FlPcs
    <3> QED
      BY <2>4, <2>6, <2>9, <2>12, <3>1 DEF FlStreams
  <2>15. FlRooted(fl')
    BY <1>1, <2>14 DEF FlRooted
  <2>16. FlPaths(fl')
    <3>1. ASSUME ~fl'.moved
          PROVE  /\ \A i \in DOMAIN list : list[i].path = t.path
                 /\ \A i \in DOMAIN fl.nodes : fl.nodes[i].path = t.path
      BY <1>1, <2>4, <2>8, <2>10, <2>14, <3>1 DEF FlGood, FlPaths
    <3> QED
      BY <2>11, <2>14, <3>1 DEF FlPaths
  <2>17. FlBatches(fl')
    <3>1. /\ fl.compar = "none" <=> fl_opt.compar = "none"
          /\ fl_opt.compar = "none" => Len(fl.list) < FlMaxEntries
      BY <1>1 DEF FlGood, FlBatches
    <3>2. fl_opt.compar = "none" => Len(list) <= FlMaxEntries
      BY <2>9, <3>1, FlAssumption
    <3> QED
      BY <2>9, <2>11, <2>13, <2>14, <3>1, <3>2 DEF FlBatches
  <2>18. FlCounts(fl')
    <3>1. fl.dirp /\ (~fl.errno => FlAccounted(fl, fl.list))
      BY <1>1 DEF FlGood, FlCounts
    <3>2. FlHere(fl') = FlHere(fl)
      BY <2>14 DEF FlHere
    <3>3. ~fl.errno => FlAccounted(fl', list)
      <4>1. Len(fl.seen) \in Nat
        BY <2>5
      <4>2. Len(fl.seen) + Len(list) + Len(rest) = Len(fl.seen) + Len(fl.list) + Len(fl.unread)
        <5>1. Len(rest) = Len(fl.unread) - 1 /\ Len(fl.unread) \in Nat
          BY <2>6
        <5>2. Len(list) = Len(fl.list) + 1 /\ Len(fl.list) \in Nat
          BY <2>9
        <5>3. \A a, b, c \in Nat : a + (b + 1) + (c - 1) = a + b + c
          OBVIOUS
        <5>4. Len(fl.seen) + (Len(fl.list) + 1) + (Len(fl.unread) - 1) = Len(fl.seen) + Len(fl.list) + Len(fl.unread)
          BY <4>1, <5>1, <5>2, <5>3, Zenon
        <5> QED
          BY <5>1, <5>2, <5>4, Zenon
      <4>3. FlInos(fl.seen) \cup FlInos(list) \cup Range(rest) = FlInos(fl.seen) \cup FlInos(fl.list) \cup Range(fl.unread)
        BY <2>6, <2>9
      <4> QED
        BY <2>14, <3>1, <3>2, <4>2, <4>3 DEF FlAccounted
    <3> QED
      BY <2>9, <2>11, <2>14, <3>1, <3>3 DEF FlCounts
  <2>19. FlSees(fl')
    <3>1. \A i \in DOMAIN rest : rest[i] \in DOMAIN fl_opt.kinds
      BY <1>1, <2>6 DEF FlGood, FlSees
    <3>2. \A i \in DOMAIN list :
            /\ list[i].ino \in DOMAIN fl_opt.kinds
            /\ FlStill(list[i].ino) => list[i].info = "D" \/ (list[i].info = "NSOK" /\ list[i].required)
      BY <1>1, <2>7, <2>8, <2>10 DEF FlGood, FlSees
    <3> QED
      BY <1>1, <2>14, <3>1, <3>2 DEF FlGood, FlSees
  <2>20. FlSkips(fl')
    BY <2>11, <2>14 DEF FlSkips
  <2> QED
    BY <2>14, <2>15, <2>16, <2>17, <2>18, <2>19, <2>20 DEF FlGood
<1> QED
  BY <1>2, <1>3 DEF FlReaddir

\* The same entries, in whatever order.
FlSameNode(a, b) == a.ino = b.ino /\ a.info = b.info /\ a.required = b.required
FlRearranged(t, s) ==
    /\ t \in FlStreams /\ t.pc = s.pc /\ t.info = s.info /\ t.errno = s.errno /\ t.dirp = s.dirp /\ t.unread = s.unread
    /\ t.seen = s.seen /\ t.compar = s.compar /\ t.ht = s.ht /\ Len(t.nodes) = Len(s.nodes)
    /\ \A i \in DOMAIN s.nodes : i \in DOMAIN t.nodes /\ t.nodes[i].root = s.nodes[i].root
    /\ DOMAIN t.nodes = DOMAIN s.nodes /\ Len(t.list) = Len(s.list)
    /\ \A i \in DOMAIN t.list : \E j \in DOMAIN s.list : FlSameNode(t.list[i], s.list[j])
    /\ \A j \in DOMAIN s.list : \E i \in DOMAIN t.list : FlSameNode(t.list[i], s.list[j])

LEMMA FlRearrangedGood ==
  ASSUME FlTyped, NEW s \in FlStreams, FlGood(s), s.pc = "built", NEW t, FlRearranged(t, s)
  PROVE  /\ FlRooted(t) /\ FlBatches(t) /\ FlCounts(t) /\ FlSees(t) /\ t.nodes # <<>>
         /\ t.list = <<>> <=> s.list = <<>>
<1>1. /\ s.list \in Seq(FlNodes) /\ t.list \in Seq(FlNodes) /\ s.nodes \in Seq([root : FlRoots, path : Nat])
      /\ t.nodes \in Seq([root : FlRoots, path : Nat])
  BY DEF FlStreams, FlRearranged
<1>2. /\ t.list = <<>> <=> Len(t.list) = 0
      /\ s.list = <<>> <=> Len(s.list) = 0
  BY <1>1, EmptySeq
<1>3. t.list = <<>> <=> s.list = <<>>
  BY <1>2 DEF FlRearranged
<1>4. t.nodes # <<>> /\ s.nodes # <<>>
  <2>1. s.nodes # <<>>
    BY DEF FlGood, FlRooted
  <2>2. Len(s.nodes) # 0
    BY <1>1, <2>1, EmptySeq
  <2> QED
    BY <1>1, <2>1, <2>2, EmptySeq DEF FlRearranged
<1>5. FlRooted(t)
  BY <1>4 DEF FlGood, FlRooted, FlRearranged
<1>6. FlHere(t) = FlHere(s)
  <2>1. 1 \in DOMAIN s.nodes /\ FlHere(s) = s.nodes[1].root
    BY <1>4, FlHereIs DEF FlGood
  <2>2. FlHere(t) = t.nodes[1].root
    BY <1>4, <1>5, FlHereIs DEF FlRearranged
  <2> QED
    BY <2>1, <2>2 DEF FlRearranged
<1>7. FlBatches(t)
  BY <1>3 DEF FlGood, FlBatches, FlRearranged
<1>0. /\ \A i \in DOMAIN t.list : \E j \in DOMAIN s.list : FlSameNode(t.list[i], s.list[j])
      /\ \A j \in DOMAIN s.list : \E i \in DOMAIN t.list : FlSameNode(t.list[i], s.list[j])
  BY DEF FlRearranged
<1>8. FlInos(t.list) = FlInos(s.list)
  <2>1. \A i \in DOMAIN t.list : t.list[i].ino \in FlInos(s.list)
    BY <1>0 DEF FlSameNode, FlInos
  <2>2. \A j \in DOMAIN s.list : s.list[j].ino \in FlInos(t.list)
    <3>1. \A i \in DOMAIN t.list : t.list[i].ino \in FlInos(t.list)
      BY DEF FlInos
    <3> QED
      BY <1>0, <3>1 DEF FlSameNode
  <2>3. \A n : n \in FlInos(t.list) => n \in FlInos(s.list)
    BY <2>1 DEF FlInos
  <2>4. \A n : n \in FlInos(s.list) => n \in FlInos(t.list)
    BY <2>2 DEF FlInos
  <2> QED
    BY <2>3, <2>4
<1>9. FlCounts(t)
  BY <1>3, <1>6, <1>8 DEF FlGood, FlCounts, FlAccounted, FlRearranged
<1>10. FlSees(t)
  <2>1. ASSUME NEW i \in DOMAIN t.list
        PROVE  /\ t.list[i].ino \in DOMAIN fl_opt.kinds
               /\ FlStill(t.list[i].ino) => t.list[i].info = "D" \/ (t.list[i].info = "NSOK" /\ t.list[i].required)
    <3>1. PICK j \in DOMAIN s.list : FlSameNode(t.list[i], s.list[j])
      BY <1>0
    <3> QED
      BY <3>1, Zenon DEF FlGood, FlSees, FlSameNode
  <2>2. t.unread = s.unread /\ t.seen = s.seen
    BY DEF FlRearranged
  <2> QED
    BY <2>1, <2>2 DEF FlGood, FlSees
<1> QED
  BY <1>3, <1>4, <1>5, <1>7, <1>9, <1>10

\* fts_padjust leaves no stale pointer.
LEMMA FlPadIs ==
  ASSUME FlTyped, NEW s \in FlStreams, FlGood(s), s.pc = "built"
  PROVE  /\ fts_padjust(s) \in FlStreams /\ FlGood(fts_padjust(s))
         /\ fts_padjust(s).pc = "built" /\ ~fts_padjust(s).moved
<1> DEFINE T == [root : FlRoots, path : Nat]
           list == [i \in DOMAIN s.list |-> [s.list[i] EXCEPT !.path = s.path]]
           nodes == [i \in DOMAIN s.nodes |-> [s.nodes[i] EXCEPT !.path = s.path]]
           t == fts_padjust(s)
<1>1. s.list \in Seq(FlNodes) /\ s.nodes \in Seq(T) /\ s.path \in Nat
  BY DEF FlStreams
<1>2. \A n \in FlNodes : LET m == [n EXCEPT !.path = s.path]
                         IN m \in FlNodes /\ m.path = s.path /\ FlSameNode(m, n)
  BY <1>1 DEF FlNodes, FlSameNode
<1>3. \A n \in T : LET m == [n EXCEPT !.path = s.path]
                    IN m \in T /\ m.path = s.path /\ m.root = n.root
  BY <1>1
<1>4. DOMAIN s.list = 1 .. Len(s.list) /\ Len(s.list) \in Nat /\ \A i \in DOMAIN s.list : s.list[i] \in FlNodes
  BY <1>1
<1>5. DOMAIN s.nodes = 1 .. Len(s.nodes) /\ Len(s.nodes) \in Nat /\ \A i \in DOMAIN s.nodes : s.nodes[i] \in T
  <2> HIDE DEF T
  <2> QED
    BY <1>1
<1> HIDE DEF T
<1>6. /\ list \in [1 .. Len(s.list) -> FlNodes]
      /\ \A i \in DOMAIN s.list : list[i].path = s.path /\ FlSameNode(list[i], s.list[i])
  BY <1>2, <1>4
<1>7. /\ nodes \in [1 .. Len(s.nodes) -> T]
      /\ \A i \in DOMAIN s.nodes : nodes[i].path = s.path /\ nodes[i].root = s.nodes[i].root
  BY <1>3, <1>5
<1>8. t = [s EXCEPT !.list = list, !.nodes = nodes, !.moved = FALSE]
  BY DEF fts_padjust
<1> HIDE DEF list, nodes, t
<1>9. list \in Seq(FlNodes) /\ Len(list) = Len(s.list) /\ DOMAIN list = DOMAIN s.list
  BY <1>4, <1>6
<1>10. nodes \in Seq(T) /\ Len(nodes) = Len(s.nodes) /\ DOMAIN nodes = DOMAIN s.nodes
  BY <1>5, <1>7
<1>11. /\ t \in FlStreams /\ t.pc = s.pc /\ t.info = s.info /\ t.errno = s.errno /\ t.dirp = s.dirp
       /\ t.unread = s.unread /\ t.seen = s.seen /\ t.compar = s.compar /\ t.ht = s.ht /\ t.list = list
       /\ t.nodes = nodes /\ ~t.moved /\ t.path = s.path
  BY <1>8, <1>9, <1>10 DEF FlStreams, T
<1>12. FlRearranged(t, s)
  BY <1>6, <1>7, <1>9, <1>10, <1>11 DEF FlRearranged
<1>13. FlPaths(t)
  BY <1>6, <1>7, <1>9, <1>10, <1>11 DEF FlPaths
<1> QED
  BY <1>11, <1>12, <1>13, FlRearrangedGood DEF FlGood, t

LEMMA FlSortIs ==
  ASSUME FlTyped, NEW s \in FlStreams, FlGood(s), s.pc = "built", ~s.moved, NEW t \in fts_sort(s)
  PROVE  t \in FlStreams /\ FlGood(t) /\ t.pc = "built" /\ ~t.moved /\ (t.list = <<>> <=> s.list = <<>>)
<1>1. CASE t = s
  BY <1>1
<1>2. ASSUME NEW p \in Orders(s.list), t = [s EXCEPT !.list = [i \in DOMAIN s.list |-> s.list[p[i]]]]
      PROVE  t \in FlStreams /\ FlGood(t) /\ t.pc = "built" /\ ~t.moved /\ (t.list = <<>> <=> s.list = <<>>)
  <2> DEFINE places == DOMAIN s.list
             list == [i \in places |-> s.list[p[i]]]
  <2>1. s.list \in Seq(FlNodes) /\ Len(s.list) \in Nat /\ places = 1 .. Len(s.list)
    BY DEF FlStreams
  <2>2. p \in [places -> places] /\ \A j \in places : \E i \in places : p[i] = j
    BY DEF Orders, Bijection, Injection, Surjection
  <2>9. \A i \in places : s.list[i] \in FlNodes
    BY <2>1
  <2> HIDE DEF places
  <2>3. /\ list \in [places -> FlNodes] /\ DOMAIN list = places
        /\ \A i \in places : \E j \in places : list[i] = s.list[j]
        /\ \A j \in places : \E i \in places : list[i] = s.list[j]
    BY <2>2, <2>9
  <2>4. t = [s EXCEPT !.list = list] /\ DOMAIN s.list = places
    BY <1>2 DEF places
  <2> HIDE DEF list
  <2>5. list \in Seq(FlNodes) /\ Len(list) = Len(s.list)
    <3>1. list \in [1 .. Len(s.list) -> FlNodes]
      BY <2>1, <2>3
    <3> QED
      BY <2>1, <3>1
  <2>6. /\ t \in FlStreams /\ t.pc = s.pc /\ t.info = s.info /\ t.errno = s.errno /\ t.dirp = s.dirp
        /\ t.unread = s.unread /\ t.seen = s.seen /\ t.compar = s.compar /\ t.ht = s.ht /\ t.list = list
        /\ t.nodes = s.nodes /\ t.moved = s.moved /\ t.path = s.path
    BY <2>4, <2>5 DEF FlStreams
  <2>7. FlRearranged(t, s)
    <3>1. /\ \A i \in places : \E j \in places : FlSameNode(list[i], s.list[j])
          /\ \A j \in places : \E i \in places : FlSameNode(list[i], s.list[j])
      BY <2>3, Zenon DEF FlSameNode
    <3> QED
      BY <2>3, <2>4, <2>5, <2>6, <3>1 DEF FlRearranged
  <2>8. FlPaths(t)
    <3>1. \A j \in places : s.list[j].path = s.path
      BY <2>4 DEF FlPaths, FlGood
    <3>2. \A i \in places : list[i].path = s.path
      BY <2>3, <3>1
    <3> QED
      BY <2>3, <2>6, <3>2 DEF FlPaths, FlGood
  <2> QED
    BY <2>6, <2>7, <2>8, FlRearrangedGood DEF FlGood
<1> QED
  BY <1>1, <1>2 DEF fts_sort

\* With nothing left in the list and nothing to read, all is given.
LEMMA FlAllGiven ==
  ASSUME NEW s, s.seen \in Seq([ino : Nat, info : FlInfos]), s.unread = <<>>, FlAccounted(s, <<>>)
  PROVE  Len(s.seen) = Len(FlHere(s).entries) /\ FlInos(s.seen) = Range(FlHere(s).entries)
<1>1. Len(s.seen) \in Nat /\ FlInos(<<>>) = {} /\ Range(<<>>) = {} /\ Len(<<>>) = 0
  BY DEF FlInos, Range
<1>2. /\ Len(s.seen) + Len(<<>>) + Len(<<>>) = Len(FlHere(s).entries)
      /\ FlInos(s.seen) \cup FlInos(<<>>) \cup Range(<<>>) = Range(FlHere(s).entries)
  BY Zenon DEF FlAccounted
<1>3. \A n \in Nat : n + 0 + 0 = n
  OBVIOUS
<1>4. Len(s.seen) + Len(<<>>) + Len(<<>>) = Len(s.seen)
  BY <1>1, <1>3, Zenon
<1> QED
  BY <1>1, <1>2, <1>4

LEMMA FlBuiltKeeps ==
  ASSUME FlIInv, FlBuilt
  PROVE  FlIInv'
<1>1. /\ fl_opt' = fl_opt /\ fl_files' = fl_files /\ FlTyped /\ FlGood(fl) /\ fl.pc = "built" /\ fl \in FlStreams
  BY DEF FlBuilt, FlIInv, FlTyped
<1> SUFFICES fl' \in FlStreams /\ FlGood(fl') /\ FlSkips(fl')
  BY <1>1, FlLeft
<1> DEFINE s == IF fl.moved THEN fts_padjust(fl) ELSE fl
<1>2. s \in FlStreams /\ FlGood(s) /\ s.pc = "built" /\ ~s.moved
  BY <1>1, FlPadIs
<1> HIDE DEF s
<1>3. CASE s.list = <<>> /\ fl' = FlPost(s)
  <2>1. /\ FlRooted(s) /\ FlPaths(s) /\ FlSees(s) /\ s.nodes # <<>>
        /\ s.compar = "none" <=> fl_opt.compar = "none"
    BY <1>2 DEF FlGood, FlRooted, FlBatches
  <2>2. /\ fl' \in FlStreams /\ FlGood(fl') /\ fl'.seen = s.seen /\ fl'.nodes = s.nodes
        /\ fl'.info = "DP" => ~s.errno
    BY <1>1, <1>2, <1>3, <2>1, FlPostGood
  <2>3. ~s.errno => s.unread = <<>> /\ FlAccounted(s, <<>>)
    BY <1>2, <1>3 DEF FlGood, FlCounts
  <2>4. s.seen \in Seq([ino : Nat, info : FlInfos])
    BY <1>2 DEF FlStreams
  <2> QED
    BY <2>2, <2>3, <2>4, FlAllGiven DEF FlSkips, FlHere
<1>4. ASSUME s.list = <<>>, NEW t \in restore_initial_cwd(s), fl' = FlStop(t)
      PROVE  fl' \in FlStreams /\ FlGood(fl') /\ FlSkips(fl')
  BY <1>1, <1>2, <1>4, FlRestoreIs, FlLikeIsNear, FlStopGood
<1>5. ASSUME s.list # <<>>, NEW t \in IF s.sort THEN SortedByInode(s) ELSE {s},
             NEW u \in IF t.compar = "none" THEN {t} ELSE fts_sort(t), fl' = [u EXCEPT !.pc = "entry"]
      PROVE  fl' \in FlStreams /\ FlGood(fl') /\ FlSkips(fl')
  <2>1. t \in FlStreams /\ FlGood(t) /\ t.pc = "built" /\ ~t.moved /\ t.list # <<>>
    <3>1. CASE t = s
      BY <1>2, <1>5, <3>1
    <3>2. ASSUME NEW v \in fts_sort(s), t = [v EXCEPT !.sort = FALSE]
          PROVE  t \in FlStreams /\ FlGood(t) /\ t.pc = "built" /\ ~t.moved /\ t.list # <<>>
      <4>1. v \in FlStreams /\ FlGood(v) /\ v.pc = "built" /\ ~v.moved /\ v.list # <<>>
        BY <1>1, <1>2, <1>5, FlSortIs
      <4>2. /\ t \in FlStreams /\ t.pc = v.pc /\ t.info = v.info /\ t.errno = v.errno /\ t.dirp = v.dirp
            /\ t.unread = v.unread /\ t.seen = v.seen /\ t.compar = v.compar /\ t.list = v.list
            /\ t.nodes = v.nodes /\ t.moved = v.moved /\ t.path = v.path
        BY <3>2, <4>1 DEF FlStreams
      <4> QED
        <5>1. FlRooted(t) /\ FlPaths(t) /\ FlBatches(t) /\ FlSees(t)
          BY <4>1, <4>2 DEF FlGood, FlRooted, FlPaths, FlBatches, FlSees
        <5>2. FlCounts(t)
          BY <4>1, <4>2 DEF FlGood, FlCounts, FlAccounted, FlHere
        <5> QED
          BY <4>1, <4>2, <5>1, <5>2 DEF FlGood
    <3> QED
      BY <1>5, <3>1, <3>2 DEF SortedByInode
  <2>2. u \in FlStreams /\ FlGood(u) /\ u.pc = "built" /\ ~u.moved /\ u.list # <<>>
    BY <1>1, <1>5, <2>1, FlSortIs
  <2>3. /\ fl' \in FlStreams /\ fl'.pc = "entry" /\ fl'.errno = u.errno /\ fl'.dirp = u.dirp
        /\ fl'.unread = u.unread /\ fl'.seen = u.seen /\ fl'.compar = u.compar /\ fl'.list = u.list
        /\ fl'.nodes = u.nodes /\ fl'.moved = u.moved /\ fl'.path = u.path
    <3>1. "entry" \in FlPcs
      BY DEF FlPcs
    <3> QED
      BY <1>5, <2>2, <3>1 DEF FlStreams
  <2>4. FlRooted(fl') /\ FlPaths(fl') /\ FlBatches(fl') /\ FlSees(fl')
    BY <2>2, <2>3 DEF FlGood, FlRooted, FlPaths, FlBatches, FlSees
  <2>5. FlCounts(fl')
    BY <2>2, <2>3 DEF FlGood, FlCounts, FlAccounted, FlHere
  <2> QED
    BY <2>3, <2>4, <2>5 DEF FlGood, FlSkips
<1> QED
  BY <1>3, <1>4, <1>5 DEF FlBuilt, s

LEMMA FlEntryKeeps ==
  ASSUME FlIInv, FlEntry
  PROVE  FlIInv'
<1>1. /\ fl_opt' = fl_opt /\ fl_files' = fl_files /\ FlTyped /\ FlGood(fl) /\ fl.pc = "entry" /\ fl \in FlStreams
      /\ fl.list # <<>>
  BY DEF FlEntry, FlIInv, FlTyped, FlGood, FlBatches
<1> SUFFICES fl' \in FlStreams /\ FlGood(fl') /\ FlSkips(fl')
  BY <1>1, FlLeft
<1> DEFINE n == Head(fl.list)
           Row == [ino : Nat, info : FlInfos]
<1>2. fl.list \in Seq(FlNodes) /\ fl.seen \in Seq(Row) /\ fl.unread \in Seq(Nat)
  BY <1>1 DEF FlStreams
<1>3. /\ n = fl.list[1] /\ n \in FlNodes /\ 1 \in DOMAIN fl.list /\ Len(Tail(fl.list)) = Len(fl.list) - 1
      /\ Len(fl.list) \in Nat \ {0} /\ FlInos(fl.list) = {n.ino} \cup FlInos(Tail(fl.list))
  BY <1>1, <1>2, FlTailIs
<1>4. /\ n.ino \in DOMAIN fl_opt.kinds
      /\ FlStill(n.ino) => n.info = "D" \/ (n.info = "NSOK" /\ n.required)
  BY <1>1, <1>3 DEF FlGood, FlSees
<1>5. n.ino \in Nat /\ n.info \in FlInfos
  BY <1>3 DEF FlNodes
<1> HIDE DEF n
<1>6. ASSUME NEW t, FlLike(t, fl), NEW info \in FlInfos, FlStill(n.ino) => info \in {"D", "NS"},
             fl' = [t EXCEPT !.pc = "given", !.seen = Append(@, [ino |-> n.ino, info |-> info])]
      PROVE  fl' \in FlStreams /\ FlGood(fl') /\ FlSkips(fl')
  <2> DEFINE e == [ino |-> n.ino, info |-> info]
             seen == Append(fl.seen, e)
  <2>1. e \in Row /\ e.ino = n.ino /\ e.info = info
    BY <1>5
  <2> HIDE DEF e, Row
  <2>2. /\ seen \in Seq(Row) /\ Len(fl.seen) \in Nat /\ Len(seen) = Len(fl.seen) + 1
        /\ DOMAIN fl.seen = 1 .. Len(fl.seen) /\ DOMAIN seen = 1 .. Len(fl.seen) + 1
        /\ \A i \in DOMAIN fl.seen : seen[i] = fl.seen[i]
        /\ seen[Len(fl.seen) + 1] = e /\ FlInos(seen) = FlInos(fl.seen) \cup {n.ino}
    BY <1>2, <2>1, FlAppendIs
  <2>3. \A i \in DOMAIN seen : seen[i] = e \/ (i \in DOMAIN fl.seen /\ seen[i] = fl.seen[i])
    BY <2>2
  <2>4. t.seen = fl.seen /\ fl' = [t EXCEPT !.pc = "given", !.seen = seen]
    BY <1>6 DEF FlLike, e
  <2> HIDE DEF seen
  <2>5. /\ fl' \in FlStreams /\ fl'.pc = "given" /\ fl'.errno = fl.errno /\ fl'.dirp = fl.dirp
        /\ fl'.unread = fl.unread /\ fl'.seen = seen /\ fl'.compar = fl.compar /\ fl'.list = fl.list
        /\ fl'.nodes = fl.nodes /\ fl'.moved = fl.moved /\ fl'.path = fl.path
    <3>1. "given" \in FlPcs
      BY DEF FlPcs
    <3> QED
      BY <1>6, <2>2, <2>4, <3>1 DEF FlLike, FlStreams, Row
  <2>6. FlRooted(fl') /\ FlPaths(fl') /\ FlBatches(fl')
    BY <1>1, <2>5 DEF FlGood, FlRooted, FlPaths, FlBatches
  <2>7. FlSees(fl')
    <3>1. \A i \in DOMAIN seen :
            seen[i].ino \in DOMAIN fl_opt.kinds /\ (FlStill(seen[i].ino) => seen[i].info \in {"D", "NS"})
      BY <1>1, <1>4, <1>6, <2>1, <2>3 DEF FlGood, FlSees
    <3> QED
      BY <1>1, <2>5, <3>1 DEF FlGood, FlSees
  <2>8. FlCounts(fl')
    <3>1. ASSUME ~fl.errno
          PROVE  FlAccounted(fl', Tail(fl.list))
      <4>1. FlAccounted(fl, fl.list) /\ FlHere(fl') = FlHere(fl)
        BY <1>1, <2>5, <3>1 DEF FlGood, FlCounts, FlHere
      <4>2. \A a, c \in Nat, b \in Nat \ {0} : (a + 1) + (b - 1) + c = a + b + c
        OBVIOUS
      <4>3. Len(fl.unread) \in Nat
        BY <1>2
      <4>4. (Len(fl.seen) + 1) + (Len(fl.list) - 1) + Len(fl.unread) = Len(fl.seen) + Len(fl.list) + Len(fl.unread)
        BY <1>3, <2>2, <4>2, <4>3, Zenon
      <4>5. Len(seen) + Len(Tail(fl.list)) + Len(fl.unread) = Len(fl.seen) + Len(fl.list) + Len(fl.unread)
        BY <1>3, <2>2, <4>4, Zenon
      <4>6. FlInos(seen) \cup FlInos(Tail(fl.list)) = FlInos(fl.seen) \cup FlInos(fl.list)
        BY <1>3, <2>2
      <4> QED
        BY <2>5, <4>1, <4>5, <4>6 DEF FlAccounted
    <3> QED
      BY <1>1, <2>5, <3>1 DEF FlGood, FlCounts
  <2> QED
    BY <2>5, <2>6, <2>7, <2>8 DEF FlGood, FlSkips
<1>7. CASE n.info = "NSOK" /\ n.required
  <2>1. fts_stat(n.ino) \in FlInfos /\ "NS" \in FlInfos
    BY <1>1, <1>4, FlNodeIs DEF FlInfos
  <2>2. CASE fl' = [fl EXCEPT !.pc = "given", !.seen = Append(@, [ino |-> n.ino, info |-> fts_stat(n.ino)])]
    <3>1. FlLike(fl, fl) /\ (FlStill(n.ino) => fts_stat(n.ino) \in {"D", "NS"})
      BY <1>1 DEF FlLike, FlStill
    <3> QED
      BY <1>6, <2>1, <2>2, <3>1
  <2>3. ASSUME NEW t \in FlTrouble(fl), fl' = [t EXCEPT !.pc = "given", !.seen = Append(@, [ino |-> n.ino, info |-> "NS"])]
        PROVE  fl' \in FlStreams /\ FlGood(fl') /\ FlSkips(fl')
    BY <1>1, <1>6, <2>1, <2>3, FlTroubleIs
  <2> QED
    BY <1>7, <2>2, <2>3 DEF FlEntry, n
<1>8. CASE ~(n.info = "NSOK" /\ n.required)
  <2>1. fl' = [fl EXCEPT !.pc = "given", !.seen = Append(@, [ino |-> n.ino, info |-> n.info])]
    BY <1>8 DEF FlEntry, n
  <2>2. FlLike(fl, fl) /\ (FlStill(n.ino) => n.info \in {"D", "NS"})
    BY <1>1, <1>4, <1>8 DEF FlLike
  <2> QED
    BY <1>5, <1>6, <2>1, <2>2
<1> QED
  BY <1>7, <1>8

LEMMA FlNextKeeps ==
  ASSUME FlIInv, FlNext
  PROVE  FlIInv'
<1>1. /\ fl_opt' = fl_opt /\ fl_files' = fl_files /\ FlTyped /\ FlGood(fl) /\ fl.pc = "given" /\ fl \in FlStreams
      /\ fl.list # <<>> /\ fl.nodes # <<>> /\ ~fl.moved
      /\ fl.compar = "none" <=> fl_opt.compar = "none"
  BY DEF FlNext, FlIInv, FlTyped, FlGood, FlBatches, FlRooted, FlPaths
<1> SUFFICES fl' \in FlStreams /\ FlGood(fl') /\ FlSkips(fl')
  BY <1>1, FlLeft
<1> DEFINE list == Tail(fl.list)
           s == [fl EXCEPT !.list = list]
<1>2. fl.list \in Seq(FlNodes) /\ fl.seen \in Seq([ino : Nat, info : FlInfos]) /\ fl.unread \in Seq(Nat)
  BY <1>1 DEF FlStreams
<1>3. /\ list \in Seq(FlNodes) /\ Len(fl.list) \in Nat \ {0} /\ Len(list) = Len(fl.list) - 1
      /\ \A i \in DOMAIN list : i + 1 \in DOMAIN fl.list /\ list[i] = fl.list[i + 1]
  BY <1>1, <1>2, FlTailIs
<1> HIDE DEF list
<1>4. /\ s \in FlStreams /\ s.pc = "given" /\ s.errno = fl.errno /\ s.dirp = fl.dirp /\ s.info = fl.info
      /\ s.unread = fl.unread /\ s.seen = fl.seen /\ s.compar = fl.compar /\ s.list = list
      /\ s.nodes = fl.nodes /\ s.moved = fl.moved /\ s.path = fl.path
  BY <1>1, <1>3 DEF FlStreams
<1> HIDE DEF s
<1>5. FlRooted(s) /\ FlPaths(s)
  BY <1>1, <1>3, <1>4 DEF FlGood, FlRooted, FlPaths
<1>6. FlSees(s)
  BY <1>1, <1>3, <1>4 DEF FlGood, FlSees
<1>7. fl_opt.compar = "none" => Len(list) <= FlMaxEntries
  BY <1>1, <1>3, FlAssumption DEF FlGood, FlBatches
<1>8. /\ ~fl.errno => FlAccounted(s, list)
      /\ ~fl.errno /\ ~fl.dirp => fl.unread = <<>>
  BY <1>1, <1>4 DEF FlGood, FlCounts, FlAccounted, FlHere, list
<1>9. CASE list # <<>> /\ fl' = [s EXCEPT !.pc = "entry"]
  <2>1. /\ fl' \in FlStreams /\ fl'.pc = "entry" /\ fl'.errno = s.errno /\ fl'.dirp = s.dirp
        /\ fl'.unread = s.unread /\ fl'.seen = s.seen /\ fl'.compar = s.compar /\ fl'.list = list
        /\ fl'.nodes = s.nodes /\ fl'.moved = s.moved /\ fl'.path = s.path
    <3>1. "entry" \in FlPcs
      BY DEF FlPcs
    <3> QED
      BY <1>4, <1>9, <3>1 DEF FlStreams
  <2>2. FlRooted(fl') /\ FlPaths(fl') /\ FlSees(fl')
    BY <1>4, <1>5, <1>6, <2>1 DEF FlRooted, FlPaths, FlSees
  <2>3. FlBatches(fl')
    BY <1>1, <1>4, <1>7, <1>9, <2>1 DEF FlBatches
  <2>4. FlCounts(fl')
    BY <1>4, <1>8, <1>9, <2>1 DEF FlCounts, FlAccounted, FlHere
  <2> QED
    BY <2>1, <2>2, <2>3, <2>4 DEF FlGood, FlSkips
<1>10. CASE list = <<>> /\ s.dirp /\ fl' = [s EXCEPT !.pc = "read", !.resumed = TRUE]
  <2>1. /\ fl' \in FlStreams /\ fl'.pc = "read" /\ fl'.errno = s.errno /\ fl'.dirp
        /\ fl'.unread = s.unread /\ fl'.seen = s.seen /\ fl'.compar = s.compar /\ fl'.list = list
        /\ fl'.nodes = s.nodes /\ fl'.moved = s.moved /\ fl'.path = s.path
    <3>1. "read" \in FlPcs
      BY DEF FlPcs
    <3> QED
      BY <1>4, <1>10, <3>1 DEF FlStreams
  <2>2. FlRooted(fl') /\ FlPaths(fl') /\ FlSees(fl')
    BY <1>4, <1>5, <1>6, <2>1 DEF FlRooted, FlPaths, FlSees
  <2>3. FlBatches(fl')
    <3>1. Len(list) = 0
      BY <1>10
    <3> QED
      BY <1>1, <1>4, <2>1, <3>1, FlAssumption DEF FlBatches
  <2>4. FlCounts(fl')
    BY <1>4, <1>8, <2>1 DEF FlCounts, FlAccounted, FlHere
  <2> QED
    BY <2>1, <2>2, <2>3, <2>4 DEF FlGood, FlSkips
<1>11. ASSUME list = <<>>, NEW t \in FlTrouble(s), fl' = FlPost([t EXCEPT !.dirp = FALSE, !.errno = TRUE])
       PROVE  fl' \in FlStreams /\ FlGood(fl') /\ FlSkips(fl')
  <2> DEFINE u == [t EXCEPT !.dirp = FALSE, !.errno = TRUE]
  <2>1. FlLike(t, s)
    BY <1>4, <1>11, FlTroubleIs
  <2>2. /\ u \in FlStreams /\ u.pc = "given" /\ u.errno = TRUE /\ u.nodes = s.nodes /\ u.list = list
        /\ u.unread = s.unread /\ u.seen = s.seen /\ u.path = s.path /\ u.moved = s.moved
        /\ u.compar = s.compar
    BY <1>4, <2>1 DEF FlLike, FlStreams
  <2> HIDE DEF u
  <2>3. FlRooted(u) /\ FlPaths(u) /\ FlSees(u)
    BY <1>4, <1>5, <1>6, <2>2 DEF FlRooted, FlPaths, FlSees
  <2>4. fl' \in FlStreams /\ FlGood(fl') /\ fl'.info # "DP"
    BY <1>1, <1>4, <1>11, <2>2, <2>3, FlPostGood DEF u
  <2> QED
    BY <2>4 DEF FlSkips
<1>12. CASE list = <<>> /\ ~s.dirp /\ fl' = FlPost(s)
  <2>1. /\ fl' \in FlStreams /\ FlGood(fl') /\ fl'.seen = s.seen /\ fl'.nodes = s.nodes
        /\ fl'.info = "DP" => ~s.errno
    BY <1>1, <1>4, <1>5, <1>6, <1>12, FlPostGood
  <2>2. ~s.errno => s.unread = <<>> /\ FlAccounted(s, <<>>)
    BY <1>4, <1>8, <1>12
  <2>3. s.seen \in Seq([ino : Nat, info : FlInfos])
    BY <1>4 DEF FlStreams
  <2> QED
    BY <2>1, <2>2, <2>3, FlAllGiven DEF FlSkips, FlHere
<1>13. ASSUME NEW t \in restore_initial_cwd(s), fl' = FlStop(t)
       PROVE  fl' \in FlStreams /\ FlGood(fl') /\ FlSkips(fl')
  <2>1. FlLike(t, s)
    BY <1>4, <1>13, FlRestoreIs
  <2>2. FlNear(t, fl)
    BY <1>4, <2>1 DEF FlLike, FlNear
  <2> QED
    BY <1>1, <1>13, <2>2, FlStopGood
<1> QED
  BY <1>4, <1>9, <1>10, <1>11, <1>12, <1>13 DEF FlNext, s, list

LEMMA FlNextRootKeeps ==
  ASSUME FlIInv, FlNextRoot
  PROVE  FlIInv'
<1>1. /\ fl_opt' = fl_opt /\ fl_files' = fl_files /\ FlTyped /\ FlGood(fl) /\ fl.pc = "post" /\ fl \in FlStreams
      /\ fl.list = <<>> /\ fl.nodes # <<>> /\ ~fl.moved
      /\ fl.compar = "none" <=> fl_opt.compar = "none"
  BY DEF FlNextRoot, FlIInv, FlTyped, FlGood, FlBatches, FlRooted, FlPaths
<1> SUFFICES fl' \in FlStreams /\ FlGood(fl') /\ FlSkips(fl')
  BY <1>1, FlLeft
<1> DEFINE nodes == Tail(fl.nodes)
           s == [fl EXCEPT !.nodes = nodes]
           Nodes == [root : FlRoots, path : Nat]
<1> HIDE DEF Nodes
<1>2. fl.nodes \in Seq(Nodes)
  BY <1>1 DEF FlStreams, Nodes
<1>3. /\ nodes \in Seq(Nodes)
      /\ \A i \in DOMAIN nodes : i + 1 \in DOMAIN fl.nodes /\ nodes[i] = fl.nodes[i + 1]
  BY <1>1, <1>2, FlTailIs
<1> HIDE DEF nodes
<1>4. /\ s \in FlStreams /\ s.pc = "post" /\ s.list = <<>> /\ s.nodes = nodes /\ s.moved = fl.moved
      /\ s.path = fl.path /\ s.seen = fl.seen /\ s.unread = fl.unread /\ s.compar = fl.compar
  BY <1>1, <1>3 DEF FlStreams, Nodes
<1> HIDE DEF s
<1>5. DOMAIN <<>> = {} /\ Len(<<>>) = 0
  OBVIOUS
\* What is true of every stream that has the nodes after the first.
<1>6. ASSUME NEW t, t \in FlStreams, t.nodes = nodes, t.list = <<>>, t.moved = fl.moved, t.path = fl.path,
             t.compar = fl.compar, t.pc \in {"build", "ended", "stopped"},
             t.pc = "build" => nodes # <<>> /\ t.seen = <<>> /\ ~t.errno /\ t.info = "D",
             t.seen = <<>> \/ t.seen = fl.seen, t.unread = fl.unread
      PROVE  FlGood(t) /\ FlSkips(t)
  <2>1. FlRooted(t) /\ FlPaths(t)
    BY <1>1, <1>3, <1>5, <1>6 DEF FlGood, FlRooted, FlPaths
  <2>2. FlBatches(t)
    BY <1>1, <1>5, <1>6, FlAssumption DEF FlBatches
  <2>3. FlCounts(t) /\ FlSkips(t)
    BY <1>6 DEF FlCounts, FlSkips
  <2>4. FlSees(t)
    BY <1>1, <1>5, <1>6 DEF FlGood, FlSees
  <2> QED
    BY <2>1, <2>2, <2>3, <2>4 DEF FlGood
<1>7. CASE nodes = <<>> /\ fl' = [s EXCEPT !.pc = "ended"]
  <2>1. "ended" \in FlPcs
    BY DEF FlPcs
  <2>2. /\ fl' \in FlStreams /\ fl'.pc = "ended" /\ fl'.nodes = nodes /\ fl'.list = <<>> /\ fl'.moved = fl.moved
        /\ fl'.path = fl.path /\ fl'.compar = fl.compar /\ fl'.seen = fl.seen /\ fl'.unread = fl.unread
    BY <1>4, <1>7, <2>1 DEF FlStreams
  <2> QED
    BY <1>6, <2>2
<1>8. CASE nodes # <<>> /\ fl' = fts_load(s)
  <2>1. "build" \in FlPcs /\ <<>> \in Seq([ino : Nat, info : FlInfos])
    BY DEF FlPcs
  <2>2. /\ fl' \in FlStreams /\ fl'.pc = "build" /\ fl'.nodes = nodes /\ fl'.list = <<>> /\ fl'.moved = fl.moved
        /\ fl'.path = fl.path /\ fl'.compar = fl.compar /\ fl'.seen = <<>> /\ fl'.unread = fl.unread
        /\ ~fl'.errno /\ fl'.info = "D"
    BY <1>4, <1>8, <2>1 DEF fts_load, FlStreams
  <2> QED
    BY <1>6, <1>8, <2>2
<1>9. ASSUME NEW t \in restore_initial_cwd(s), fl' = FlStop(t)
      PROVE  fl' \in FlStreams /\ FlGood(fl') /\ FlSkips(fl')
  <2>1. FlLike(t, s)
    BY <1>4, <1>9, FlRestoreIs
  <2>2. "stopped" \in FlPcs /\ <<>> \in Seq(FlNodes)
    BY DEF FlPcs
  <2>3. /\ fl' \in FlStreams /\ fl'.pc = "stopped" /\ fl'.nodes = nodes /\ fl'.list = <<>> /\ fl'.moved = fl.moved
        /\ fl'.path = fl.path /\ fl'.compar = fl.compar /\ fl'.seen = fl.seen /\ fl'.unread = fl.unread
    BY <1>4, <1>9, <2>1, <2>2 DEF FlLike, FlStop, FlStreams
  <2> QED
    BY <1>6, <2>3
<1> QED
  BY <1>4, <1>7, <1>8, <1>9 DEF FlNextRoot, s, nodes

\* An entry that is replaced has changed; what is known of the others stays true.
LEMMA FlReplaceKeeps ==
  ASSUME FlIInv, FlReplace
  PROVE  FlIInv'
<1>1. /\ FlTyped /\ FlGood(fl) /\ FlNothingSkipped /\ fl \in FlStreams /\ fl.nodes # <<>> /\ fl_opt' = fl_opt
      /\ fl.pc \in {"read", "entry", "given"} /\ fl' = [fl EXCEPT !.trouble = fl.trouble + 1]
  BY DEF FlIInv, FlReplace, FlTyped, FlGood, FlRooted
<1>2. PICK n \in Range(FlHere(fl).entries), k \in FlKinds \ {"broken"} :
        fl_files' = [fl_files EXCEPT !.kinds[n] = k, !.changed = fl_files.changed \cup {n}]
  BY DEF FlReplace
<1>3. n \in DOMAIN fl_opt.kinds
  BY <1>1, FlHereIs DEF FlGood
<1>4. n \in Nat
  BY <1>1, <1>3, FlFilesAre
<1>5. /\ fl' \in FlStreams /\ fl'.pc = fl.pc /\ fl'.nodes = fl.nodes /\ fl'.errno = fl.errno /\ fl'.dirp = fl.dirp
      /\ fl'.unread = fl.unread /\ fl'.list = fl.list /\ fl'.path = fl.path /\ fl'.moved = fl.moved
      /\ fl'.seen = fl.seen /\ fl'.compar = fl.compar /\ fl'.info = fl.info
  <2>1. fl.trouble + 1 \in Nat
    BY <1>1 DEF FlStreams
  <2> QED
    BY <1>1, <2>1 DEF FlStreams
<1>6. /\ fl_files'.kinds = [fl_files.kinds EXCEPT ![n] = k] /\ fl_files'.changed = fl_files.changed \cup {n}
      /\ fl_files'.types = fl_files.types
      /\ fl_files' \in [kinds : Seq(FlKinds), types : Seq(FlTypes \ {"unknown"}), changed : SUBSET Nat]
      /\ DOMAIN fl_files'.kinds = DOMAIN fl_files.kinds
  <2>1. fl_files.kinds \in Seq(FlKinds) /\ k \in FlKinds /\ n \in DOMAIN fl_files.kinds
    BY <1>1, <1>3 DEF FlTyped
  <2>2. [fl_files.kinds EXCEPT ![n] = k] \in Seq(FlKinds)
    BY <2>1
  <2>3. fl_files \in [kinds : Seq(FlKinds), types : Seq(FlTypes \ {"unknown"}), changed : SUBSET Nat]
    BY <1>1 DEF FlTyped
  <2>4. DOMAIN [fl_files.kinds EXCEPT ![n] = k] = DOMAIN fl_files.kinds
    OBVIOUS
  <2> QED
    BY <1>2, <1>4, <2>2, <2>3, <2>4
<1>7. FlTyped'
  BY <1>1, <1>5, <1>6 DEF FlTyped
<1>8. ASSUME NEW m \in DOMAIN fl_opt.kinds, FlStill(m)'
      PROVE  FlStill(m)
  <2>1. m # n /\ m \notin fl_files.changed /\ fl_files'.kinds[m] = fl_files.kinds[m]
    BY <1>1, <1>6, <1>8 DEF FlStill, FlTyped
  <2> QED
    BY <1>1, <1>8, <2>1 DEF FlStill, fts_stat
<1>9. FlSees(fl)'
  BY <1>1, <1>5, <1>8 DEF FlGood, FlSees
<1>10. (FlRooted(fl) /\ FlPaths(fl) /\ FlBatches(fl) /\ FlCounts(fl))'
  <2>1. (FlRooted(fl) /\ FlPaths(fl))'
    BY <1>1, <1>5 DEF FlGood, FlRooted, FlPaths
  <2>2. FlBatches(fl)'
    BY <1>1, <1>5 DEF FlGood, FlBatches
  <2>3. FlCounts(fl)'
    <3>1. FlCounts(fl)' <=> FlCounts(fl')
      BY DEF FlCounts, FlAccounted, FlHere, FlInos
    <3>2. FlCounts(fl)
      BY <1>1 DEF FlGood
    <3>3. FlAccounted(fl', fl.list) <=> FlAccounted(fl, fl.list)
      BY <1>5 DEF FlAccounted, FlHere
    <3>4. FlAccounted(fl', Tail(fl.list)) <=> FlAccounted(fl, Tail(fl.list))
      BY <1>5 DEF FlAccounted, FlHere
    <3> QED
      BY <1>5, <3>1, <3>2, <3>3, <3>4 DEF FlCounts
  <2> QED
    BY <2>1, <2>2, <2>3
<1>11. FlNothingSkipped'
  BY <1>1, <1>5 DEF FlNothingSkipped
<1> QED
  BY <1>7, <1>9, <1>10, <1>11 DEF FlIInv, FlGood

LEMMA FlRemountKeeps ==
  ASSUME FlIInv, FlRemount
  PROVE  FlIInv'
<1>1. /\ FlTyped /\ FlGood(fl) /\ fl \in FlStreams /\ fl_opt' = fl_opt
      /\ fl.pc = "build" /\ fl' = [fl EXCEPT !.trouble = fl.trouble + 1]
  BY DEF FlIInv, FlRemount, FlTyped
<1>2. PICK dev \in DOMAIN fl_files.types, type \in {"proc", "other"} :
        fl_files' = [fl_files EXCEPT !.types[dev] = type]
  BY DEF FlRemount
<1>3. /\ fl' \in FlStreams /\ fl'.pc = fl.pc /\ fl'.nodes = fl.nodes /\ fl'.errno = fl.errno /\ fl'.dirp = fl.dirp
      /\ fl'.unread = fl.unread /\ fl'.list = fl.list /\ fl'.path = fl.path /\ fl'.moved = fl.moved
      /\ fl'.seen = fl.seen /\ fl'.compar = fl.compar /\ fl'.info = fl.info
  <2>1. fl.trouble + 1 \in Nat
    BY <1>1 DEF FlStreams
  <2> QED
    BY <1>1, <2>1 DEF FlStreams
<1>4. /\ fl_files'.kinds = fl_files.kinds /\ fl_files'.changed = fl_files.changed
      /\ fl_files' \in [kinds : Seq(FlKinds), types : Seq(FlTypes \ {"unknown"}), changed : SUBSET Nat]
      /\ DOMAIN fl_files'.types = DOMAIN fl_files.types
  <2>1. fl_files.types \in Seq(FlTypes \ {"unknown"}) /\ type \in FlTypes \ {"unknown"}
    BY <1>1 DEF FlTyped, FlTypes
  <2>2. [fl_files.types EXCEPT ![dev] = type] \in Seq(FlTypes \ {"unknown"})
    BY <2>1
  <2>3. fl_files \in [kinds : Seq(FlKinds), types : Seq(FlTypes \ {"unknown"}), changed : SUBSET Nat]
    BY <1>1 DEF FlTyped
  <2>4. DOMAIN [fl_files.types EXCEPT ![dev] = type] = DOMAIN fl_files.types
    OBVIOUS
  <2> QED
    BY <1>2, <2>2, <2>3, <2>4
<1>5. FlTyped'
  BY <1>1, <1>3, <1>4 DEF FlTyped
<1>6. \A m : FlStill(m)' => FlStill(m)
  BY <1>1, <1>4 DEF FlStill, fts_stat
<1>7. FlSees(fl)'
  BY <1>1, <1>3, <1>6 DEF FlGood, FlSees
<1>8. (FlRooted(fl) /\ FlPaths(fl) /\ FlBatches(fl) /\ FlCounts(fl))'
  BY <1>1, <1>3 DEF FlGood, FlRooted, FlPaths, FlBatches, FlCounts, FlAccounted, FlHere, FlInos
<1>9. FlNothingSkipped'
  BY <1>1, <1>3 DEF FlNothingSkipped
<1> QED
  BY <1>5, <1>7, <1>8, <1>9 DEF FlIInv, FlGood

LEMMA FlStarts ==
  FlInit => FlIInv
<1> SUFFICES ASSUME FlInit PROVE FlIInv
  OBVIOUS
<1> DEFINE nodes == [i \in DOMAIN fl_opt.roots |-> [root |-> fl_opt.roots[i], path |-> 0]]
<1> USE DEF FlInit
<1>1. fl_opt \in FlSetups /\ fl_opt \in FlSetup
  BY FlAssumption
<1>2. fl_opt.kinds \in Seq(FlKinds) /\ fl_opt.types \in Seq(FlTypes \ {"unknown"}) /\ fl_opt.roots \in Seq(FlRoots)
  BY <1>1 DEF FlSetup, FlRoots
<1>3. /\ fl.pc = "build" /\ fl.nodes = nodes /\ fl.info = "D" /\ fl.errno = FALSE /\ fl.dirp = FALSE
      /\ fl.unread = <<>> /\ fl.list = <<>> /\ fl.path = 0 /\ fl.moved = FALSE /\ fl.seen = <<>>
      /\ fl.compar = "none" <=> fl_opt.compar = "none"
  OBVIOUS
<1>4. nodes \in Seq([root : FlRoots, path : Nat]) /\ DOMAIN nodes = DOMAIN fl_opt.roots
  <2>1. \A i \in DOMAIN fl_opt.roots : [root |-> fl_opt.roots[i], path |-> 0] \in [root : FlRoots, path : Nat]
    BY <1>2
  <2>2. DOMAIN fl_opt.roots = 1 .. Len(fl_opt.roots) /\ Len(fl_opt.roots) \in Nat
    BY <1>2
  <2> QED
    BY <2>1, <2>2
<1>5. fl \in FlStreams
  <2>1. <<>> \in FlTables
    <3>1. <<>> \in [{} -> FlTypes]
      OBVIOUS
    <3> QED
      BY <3>1 DEF FlTables
  <2>2. "build" \in FlPcs
    BY DEF FlPcs
  <2> HIDE DEF nodes
  <2>3. \E compar \in {"none", "caller"} :
          fl = [pc |-> "build", nodes |-> nodes,
           info |-> "D", errno |-> FALSE, dirp |-> FALSE, unread |-> <<>>, list |-> <<>>, resumed |-> FALSE,
           path |-> 0, moved |-> FALSE, sort |-> FALSE, seen |-> <<>>, ht |-> <<>>, trouble |-> 0,
           compar |-> compar]
    BY DEF nodes
  <2> QED
    BY <1>4, <2>1, <2>2, <2>3 DEF FlStreams
<1>6. FlTyped
  <2>1. fl_files = [kinds |-> fl_opt.kinds, types |-> fl_opt.types, changed |-> {}]
    OBVIOUS
  <2> QED
    BY <1>1, <1>2, <1>5, <2>1 DEF FlTyped
<1>7. DOMAIN <<>> = {} /\ Len(<<>>) = 0
  OBVIOUS
<1>8. FlPaths(fl) /\ FlSees(fl)
  BY <1>3, <1>4, <1>7 DEF FlPaths, FlSees
<1>9. FlRooted(fl)
  <2>1. \A i \in DOMAIN nodes : nodes[i].root = fl_opt.roots[i]
    BY <1>4
  <2>2. nodes # <<>>
    <3>1. fl_opt.roots # <<>> /\ DOMAIN fl_opt.roots # {}
      BY <1>1, <1>2, FlAssumption
    <3> QED
      BY <1>4, <1>7, <3>1
  <2> QED
    BY <1>1, <1>3, <1>4, <2>1, <2>2, FlAssumption DEF FlRooted
<1>10. FlBatches(fl) /\ FlCounts(fl)
  BY <1>3, <1>7, FlAssumption DEF FlBatches, FlCounts
<1>11. FlNothingSkipped
  BY <1>3 DEF FlNothingSkipped
<1> QED
  BY <1>6, <1>8, <1>9, <1>10, <1>11 DEF FlIInv, FlGood

\* Of a walk over any directories, options, batches and troubles: its state is well
\* typed and every stream is FlGood (fts_build and fts_read).
THEOREM FlInvariant ==
  FlSpec => []FlIInv
<1>1. FlInit => FlIInv
  BY FlStarts
<1>2. FlIInv /\ [FlNextStep]_flvars => FlIInv'
  <2> SUFFICES ASSUME FlIInv, [FlNextStep]_flvars PROVE FlIInv'
    OBVIOUS
  <2>1. CASE UNCHANGED flvars
    <3>1. FlTyped' /\ FlNothingSkipped'
      BY <2>1 DEF flvars, FlIInv, FlTyped, FlNothingSkipped, FlHere, FlStale
    <3>2. \A n : FlStill(n)' <=> FlStill(n)
      BY <2>1 DEF flvars, FlStill, fts_stat
    <3>3. FlSees(fl)'
      BY <2>1, <3>2 DEF flvars, FlIInv, FlGood, FlSees
    <3>4. (FlRooted(fl) /\ FlPaths(fl) /\ FlBatches(fl) /\ FlCounts(fl))'
      BY <2>1 DEF flvars, FlIInv, FlGood, FlRooted, FlPaths, FlBatches, FlCounts, FlAccounted, FlHere, FlInos
    <3> QED
      BY <3>1, <3>3, <3>4 DEF FlIInv, FlGood
  <2>2. CASE FlNextStep
    BY <2>2, FlOpenKeeps, FlReaddirKeeps, FlReaddirEndsKeeps, FlBuiltKeeps, FlEntryKeeps, FlNextKeeps, FlNextRootKeeps,
       FlReplaceKeeps, FlRemountKeeps DEF FlNextStep
  <2> QED
    BY <2>1, <2>2
<1> QED
  BY <1>1, <1>2, PTL DEF FlSpec

\* Of a walk over any directories and any number of failures and changes: a directory
\* that ends without an error has given each entry once, over all its batches, or was
\* skipped for a link count that rules subdirectories out; and no entry that stays a
\* directory is given as less (fts_build's descend and skip_stat).
THEOREM FlNothingIsMissed ==
  FlSpec => []FlAllFound
<1>1. FlIInv => FlAllFound
  <2> SUFFICES ASSUME FlIInv PROVE FlDirsEntered
    BY DEF FlAllFound, FlIInv
  <2>1. fl.seen \in Seq([ino : Nat, info : FlInfos]) /\ FlSees(fl)
    BY DEF FlIInv, FlTyped, FlStreams, FlGood
  <2>2. \A e \in Range(fl.seen) : \E i \in DOMAIN fl.seen : e = fl.seen[i]
    BY DEF Range
  <2> QED
    BY <2>1, <2>2 DEF FlDirsEntered, FlSees, FlStill
<1> QED
  BY <1>1, FlInvariant, PTL

\* Of any walk, however often realloc moves the buffer of the name: no node that the
\* caller can reach points into an old one, and batches keep their bound (fts_padjust).
THEOREM FlListIsSound ==
  FlSpec => []FlListSound
<1>1. FlIInv => FlListSound
  BY DEF FlIInv, FlGood, FlPaths, FlBatches, FlListSound, Range
<1> QED
  BY <1>1, FlInvariant, PTL
=============================================================================
