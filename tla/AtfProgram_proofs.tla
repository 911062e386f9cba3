------------------------- MODULE AtfProgram_proofs -------------------------
(***************************************************************************)
(* Proofs about AtfProgram, for any cases, heads and command lines and any *)
(* number of failing allocations and checks: a failure anywhere frees      *)
(* nothing wrongly, loses nothing that is not known to be lost and meets   *)
(* no other error, the exit status is the truth about the cases, and the   *)
(* configuration that the command line gives reaches every case.           *)
(***************************************************************************)
EXTENDS AtfProgram, SequenceTheorems, FiniteSetTheorems, TLAPS

IsSeq(m) == m \in Seq(Range(m))
KeysUnique(m) == \A i, j \in DOMAIN m : m[i].key = m[j].key => i = j

(***************************************************************************)
(* Where the program is, and what that says of its cases and its errors.   *)
(***************************************************************************)
AtfTyped ==
    /\ TypeOK
    /\ line \in CommandLines /\ IsSeq(pconfig) /\ IsSeq(tcs) /\ KeysUnique(pconfig)
    /\ params = [list |-> params.list, srcdir |-> params.srcdir, resfile |-> params.resfile,
                 tcname |-> params.tcname, part |-> params.part]
    /\ params.list \in BOOLEAN /\ head_error \in BOOLEAN /\ clash \in BOOLEAN

Early == {"params", "options", "srcdir", "tp_init"}
Late == {"tp_fini", "params_fini", "out"}

AtfStage ==
    /\ pc \in Early => tcs = <<>> /\ err = "none" /\ ~head_error
    /\ pc \in {"add_tcs", "body"} => err = "none"
    /\ at > 0 => Len(tcs) = Len(Cases) /\ ~params.list /\ err = "none"
    /\ pc = "body" => at > 0 /\ tmpdir # "none" /\ (fail_count = 0 <=> failed = {})
    /\ ending = "none" => /\ pc # "body" => failed = {} /\ tmpdir = "none"
                          /\ ran = 1 .. (IF pc = "body" THEN at - 1 ELSE at)
                          /\ results = <<>>
    /\ pc \in Early \cup {"add_tcs"} => (exitcode = 0 <=> at > 0)
    /\ pc = "body" => (exitcode = 0 <=> at > 1)
    /\ pc \in Late => (exitcode = 0 <=> err = "none" /\ (params.list \/ (at > 0 /\ at = Len(Cases))))

AtfControl == AtfTyped /\ AtfStage /\ VerdictHonest /\ OneErrorOnFlight

LEMMA AppendKeeps ==
  ASSUME NEW m, IsSeq(m), NEW e
  PROVE  /\ IsSeq(Append(m, e)) /\ Len(m) \in Nat /\ DOMAIN m = 1 .. Len(m)
         /\ Len(Append(m, e)) = Len(m) + 1 /\ DOMAIN Append(m, e) = 1 .. Len(m) + 1
         /\ \A i \in DOMAIN m : Append(m, e)[i] = m[i]
         /\ Append(m, e)[Len(m) + 1] = e
<1>1. m \in Seq(Range(m) \cup {e}) /\ m \in Seq(Range(m))
  BY SeqMonotonic DEF IsSeq
<1> DEFINE n == Append(m, e)
<1>2. /\ n \in Seq(Range(m) \cup {e}) /\ Len(m) \in Nat /\ DOMAIN m = 1 .. Len(m)
      /\ Len(n) = Len(m) + 1 /\ DOMAIN n = 1 .. Len(m) + 1
      /\ \A i \in DOMAIN m : n[i] = m[i]
      /\ n[Len(m) + 1] = e
  BY <1>1, AppendProperties, LenProperties
<1>3. n \in Seq(Range(n))
  BY <1>2, RangeOfSeq, SeqOfRange
<1> QED
  BY <1>2, <1>3 DEF IsSeq

LEMMA InsertKeeps ==
  ASSUME NEW m, IsSeq(m), KeysUnique(m), NEW key, NEW value, NEW managed
  PROVE  IsSeq(atf_map_insert(m, key, value, managed)) /\ KeysUnique(atf_map_insert(m, key, value, managed))
<1> DEFINE e == Entry(key, value, managed)
<1>1. CASE atf_map_find(m, key) = {}
  <2> DEFINE n == Append(m, e)
  <2>1. /\ IsSeq(n) /\ Len(m) \in Nat /\ DOMAIN m = 1 .. Len(m)
        /\ DOMAIN n = 1 .. Len(m) + 1
        /\ \A i \in DOMAIN m : n[i] = m[i]
        /\ n[Len(m) + 1] = e
    BY AppendKeeps
  <2>2. \A i \in DOMAIN m : m[i].key # key
    BY <1>1 DEF atf_map_find, Positions
  <2>3. e.key = key
    BY DEF Entry
  <2> HIDE DEF n, e
  <2>4. KeysUnique(n)
    BY <2>1, <2>2, <2>3 DEF KeysUnique
  <2> QED
    BY <1>1, <2>1, <2>4 DEF atf_map_insert, n, e
<1>2. CASE atf_map_find(m, key) # {}
  <2>1. PICK i \in DOMAIN m : /\ m[i].key = key
                              /\ atf_map_insert(m, key, value, managed) = Replaced(m, i, value, managed)
    BY <1>2 DEF atf_map_insert, atf_map_find, Positions
  <2> DEFINE n == Replaced(m, i, value, managed)
             S == Range(m) \cup {Entry(m[i].key, value, managed)}
  <2>2. m \in Seq(S) /\ i \in 1 .. Len(m) /\ m \in Seq(Range(m))
    BY SeqMonotonic, LenProperties DEF IsSeq
  <2>3. n \in Seq(S) /\ DOMAIN n = DOMAIN m
        /\ \A j \in DOMAIN m : n[j] = IF j = i THEN Entry(m[i].key, value, managed) ELSE m[j]
    BY <2>2, ExceptSeq DEF Replaced
  <2>4. n \in Seq(Range(n))
    BY <2>3, SeqOfRange
  <2>5. \A j \in DOMAIN m : n[j].key = m[j].key
    BY <2>3 DEF Entry
  <2> HIDE DEF n, S
  <2>6. KeysUnique(n)
    BY <2>3, <2>5 DEF KeysUnique
  <2> QED
    BY <2>1, <2>4, <2>6 DEF IsSeq, n
<1> QED
  BY <1>1, <1>2
\* What the steps before the first case do to errors and to where the program is.
GoesOn(targets) == pc' \in targets /\ UNCHANGED <<err, on_flight, ending, clash>>
Fails == /\ err' \in {"no_memory", "usage", "user", "libc"} /\ on_flight' = TRUE /\ pc' \in Late
         /\ UNCHANGED <<ending, clash>>
Stops == pc' = "ended" /\ ending' \in {"abort", "signal"} /\ UNCHANGED <<err, on_flight, clash>>
SameCases == UNCHANGED <<tcs, at, fail_count, tmpdir, exitcode, results, failed, ran, head_error>>

LEMMA EarlyStep ==
  ASSUME AtfControl, pc \in Early, SameCases, GoesOn(Early \cup {"add_tcs"}) \/ Fails \/ Stops
  PROVE  AtfStage' /\ VerdictHonest' /\ OneErrorOnFlight'
<1>1. /\ tcs' = <<>> /\ ~head_error' /\ at' = 0 /\ ending = "none" /\ ~on_flight /\ ~clash
      /\ failed' = {} /\ tmpdir' = "none" /\ ran' = 1 .. 0 /\ results' = <<>> /\ exitcode' = 1 /\ err = "none"
  BY DEF AtfControl, AtfTyped, AtfStage, OneErrorOnFlight, TypeOK, SameCases, Early
<1>2. CASE GoesOn(Early \cup {"add_tcs"})
  BY <1>1, <1>2 DEF GoesOn, AtfStage, VerdictHonest, OneErrorOnFlight, Early, Late
<1>3. CASE Fails
  BY <1>1, <1>3 DEF Fails, AtfStage, VerdictHonest, OneErrorOnFlight, Early, Late
<1>4. CASE Stops
  BY <1>1, <1>4 DEF Stops, AtfStage, VerdictHonest, OneErrorOnFlight, Early, Late
<1> QED
  BY <1>2, <1>3, <1>4

LEMMA RaiseEarly ==
  ASSUME AtfControl, pc \in Early, NEW kind \in {"no_memory", "usage", "user", "libc"}, NEW next \in Late, Raise(kind, next)
  PROVE  Fails
BY DEF AtfControl, AtfStage, AtfTyped, TypeOK, OneErrorOnFlight, Early, Late, Raise, Fails

\* The options, the arguments and the source directory.
LEMMA ParamsControl ==
  ASSUME AtfControl, ParamsInit \/ Option \/ Arguments \/ Srcdir \/ TpInit
  PROVE  AtfControl'
<1>0. AtfTyped
  BY DEF AtfControl
<1>1. pc \in Early /\ ending = "none"
  BY DEF ParamsInit, Option, Arguments, Srcdir, TpInit, Early, AtfControl, AtfTyped, AtfStage, TypeOK
<1>2. CASE ParamsInit
  <2>1. SameCases /\ UNCHANGED <<line, optind, params, pconfig, tconfig>>
    BY <1>2 DEF ParamsInit, SameCases
  <2>2. GoesOn({"options"}) \/ Fails
    BY <1>1, <1>2, RaiseEarly DEF ParamsInit, NoError, GoesOn, Late
  <2>3. AtfTyped'
    BY <1>0, <1>1, <2>1, <2>2 DEF AtfTyped, TypeOK, SameCases, GoesOn, Fails, Stops, Early, Late
  <2> QED
    BY <1>1, <2>1, <2>2, <2>3, EarlyStep DEF AtfControl, GoesOn, Early
<1>3. CASE Option
  <2> DEFINE o == line.options[optind']
  <2>1. SameCases /\ UNCHANGED <<line, tconfig>> /\ optind < Len(line.options) /\ optind' = optind + 1
    BY <1>3 DEF Option, SameCases
  <2>2. \/ params' = [params EXCEPT !.list = TRUE] /\ NoError("options") /\ UNCHANGED pconfig
        \/ ReplacePath("resfile", o[2]) /\ UNCHANGED pconfig
        \/ ReplacePath("srcdir", o[2]) /\ UNCHANGED pconfig
        \/ InsertOption(o[2], o[3]) /\ UNCHANGED params
        \/ Raise("usage", "params_fini") /\ UNCHANGED <<params, pconfig>>
    BY <1>3 DEF Option
  <2> HIDE DEF o
  <2>3. GoesOn({"options"}) \/ Fails \/ Stops
    BY <1>1, <2>2, RaiseEarly DEF ReplacePath, InsertOption, NoError, EndsBy, GoesOn, Stops, Late
  <2>4. IsSeq(pconfig') /\ KeysUnique(pconfig')
    BY <2>2, InsertKeeps DEF ReplacePath, InsertOption, AtfControl, AtfTyped
  <2>5. /\ params' = [list |-> params.list', srcdir |-> params.srcdir', resfile |-> params.resfile',
                      tcname |-> params.tcname', part |-> params.part']
        /\ params.list' \in BOOLEAN
    BY <2>2 DEF ReplacePath, InsertOption, AtfControl, AtfTyped
  <2>6. optind' \in 0 .. Len(line.options)
    BY <2>1, AtfAssumption DEF AtfControl, AtfTyped, TypeOK
  <2>7. AtfTyped'
    BY <1>0, <1>1, <2>1, <2>3, <2>4, <2>5, <2>6 DEF AtfTyped, TypeOK, SameCases, GoesOn, Fails, Stops, Early, Late
  <2> QED
    BY <1>1, <2>1, <2>3, <2>4, <2>5, <2>6, <2>7, EarlyStep DEF AtfControl, GoesOn, Early
<1>4. CASE Arguments
  <2>1. SameCases /\ UNCHANGED <<line, optind, pconfig, tconfig>>
    BY <1>4 DEF Arguments, SameCases
  <2>2. GoesOn({"srcdir"}) \/ Fails
    BY <1>1, <1>4, RaiseEarly DEF Arguments, handle_tcarg, NoError, GoesOn, Late
  <2>3. /\ params' = [list |-> params.list', srcdir |-> params.srcdir', resfile |-> params.resfile',
                      tcname |-> params.tcname', part |-> params.part']
        /\ params.list' \in BOOLEAN
    BY <1>4 DEF Arguments, handle_tcarg, AtfControl, AtfTyped
  <2>4. AtfTyped'
    BY <1>0, <1>1, <2>1, <2>2, <2>3 DEF AtfTyped, TypeOK, SameCases, GoesOn, Fails, Stops, Early, Late
  <2> QED
    BY <1>1, <2>1, <2>2, <2>3, <2>4, EarlyStep DEF AtfControl, GoesOn, Early
<1>5. CASE Srcdir
  <2>1. SameCases /\ UNCHANGED <<line, optind, params, tconfig>>
    BY <1>5 DEF Srcdir, SameCases
  <2>2. GoesOn({"tp_init"}) \/ Fails
    BY <1>1, <1>5, RaiseEarly DEF Srcdir, NotFound, NoError, GoesOn, Late
  <2>3. IsSeq(pconfig') /\ KeysUnique(pconfig')
    BY <1>5, InsertKeeps DEF Srcdir, AtfControl, AtfTyped
  <2>4. AtfTyped'
    BY <1>0, <1>1, <2>1, <2>2, <2>3 DEF AtfTyped, TypeOK, SameCases, GoesOn, Fails, Stops, Early, Late
  <2> QED
    BY <1>1, <2>1, <2>2, <2>3, <2>4, EarlyStep DEF AtfControl, GoesOn, Early
<1>6. CASE TpInit
  <2>1. SameCases /\ UNCHANGED <<line, optind, params, pconfig>>
    BY <1>6 DEF TpInit, SameCases
  <2>2. GoesOn({"add_tcs"}) \/ Fails \/ Stops
    BY <1>1, <1>6, RaiseEarly DEF TpInit, NoError, EndsBy, GoesOn, Stops, Late
  <2>3. AtfTyped'
    BY <1>0, <1>1, <2>1, <2>2, ZenonT(60) DEF AtfTyped, TypeOK, SameCases, GoesOn, Fails, Stops, Early, Late
  <2> QED
    BY <1>1, <2>1, <2>2, <2>3, EarlyStep DEF AtfControl, GoesOn, Early
<1> QED
  BY <1>2, <1>3, <1>4, <1>5, <1>6

\* The cases: one is added, the program fails or stops, or a head loses an error.
AddsCase == \E t : tcs' = Append(tcs, t)
AddControls ==
    \/ GoesOn({"add_tcs"}) /\ AddsCase /\ UNCHANGED head_error
    \/ Stops /\ UNCHANGED <<tcs, head_error>>
    \/ Raise("no_memory", "tp_fini") /\ UNCHANGED <<tcs, head_error>>
    \/ /\ head_error' = TRUE /\ UNCHANGED err
       /\ \/ on_flight /\ EndsBy("abort") /\ clash' = TRUE /\ UNCHANGED <<on_flight, tcs>>
          \/ on_flight' = TRUE /\ pc' = "add_tcs" /\ AddsCase /\ UNCHANGED <<ending, clash>>

LEMMA AddTcControl ==
  ASSUME AtfControl, AddTc
  PROVE  AtfControl'
<1>1. /\ pc = "add_tcs" /\ Len(tcs) < Len(Cases)
      /\ UNCHANGED <<line, optind, params, pconfig, at, fail_count, tmpdir, exitcode, results, failed, ran>>
  BY DEF AddTc
<1>2. AddControls
  BY ZenonT(60) DEF AddTc, AddControls, AddsCase, atf_tp_add_tc, GoesOn, NoError, EndsBy, Stops
<1>3. /\ at = 0 /\ err = "none" /\ ending = "none" /\ failed = {} /\ tmpdir = "none" /\ ran = 1 .. 0
      /\ results = <<>> /\ exitcode = 1 /\ (on_flight <=> head_error) /\ (clash => head_error)
  BY <1>1, AtfAssumption, LenProperties
     DEF AtfControl, AtfTyped, AtfStage, TypeOK, OneErrorOnFlight, IsSeq
<1>4. IsSeq(tcs') /\ Len(tcs') \in Nat /\ Len(tcs') <= Len(Cases)
  <2>1. Len(Cases) \in Nat /\ Len(tcs) \in Nat /\ IsSeq(tcs)
    BY AtfAssumption, LenProperties DEF AtfControl, AtfTyped, IsSeq
  <2>2. CASE tcs' = tcs
    BY <1>1, <2>1, <2>2
  <2>3. CASE AddsCase
    BY <1>1, <2>1, <2>3, AppendKeeps DEF AddsCase
  <2> QED
    BY <1>2, <2>2, <2>3 DEF AddControls
<1>5. /\ pc' \in {"add_tcs", "tp_fini", "ended"} /\ ending' \in {"none", "abort", "signal"} /\ (pc' = "ended" <=> ending' # "none")
      /\ err' \in {"none", "no_memory"} /\ on_flight' \in BOOLEAN /\ head_error' \in BOOLEAN /\ clash' \in BOOLEAN
      /\ (clash' => head_error') /\ (ending' = "none" => (on_flight' <=> (err' # "none" \/ head_error')))
      /\ (pc' = "add_tcs" => err' = "none") /\ (pc' = "tp_fini" => err' # "none")
  <2>1. CASE GoesOn({"add_tcs"}) /\ UNCHANGED head_error
    BY <1>1, <1>3, <2>1 DEF GoesOn, AtfControl, AtfTyped, TypeOK
  <2>2. CASE Stops /\ UNCHANGED head_error
    BY <1>1, <1>3, <2>2 DEF Stops, AtfControl, AtfTyped, TypeOK
  <2>3. CASE Raise("no_memory", "tp_fini") /\ UNCHANGED head_error
    BY <1>1, <1>3, <2>3 DEF Raise, EndsBy, AtfControl, AtfTyped, TypeOK
  <2>4. CASE /\ head_error' = TRUE /\ UNCHANGED err
             /\ \/ on_flight /\ EndsBy("abort") /\ clash' = TRUE /\ UNCHANGED on_flight
                \/ on_flight' = TRUE /\ pc' = "add_tcs" /\ UNCHANGED <<ending, clash>>
    BY <1>1, <1>3, <2>4 DEF EndsBy, AtfControl, AtfTyped, TypeOK
  <2> QED
    BY <1>2, <2>1, <2>2, <2>3, <2>4 DEF AddControls
<1>6. AtfTyped' /\ OneErrorOnFlight'
  BY <1>1, <1>3, <1>4, <1>5 DEF AtfControl, AtfTyped, TypeOK, OneErrorOnFlight
<1>7. AtfStage' /\ VerdictHonest'
  BY <1>1, <1>3, <1>5 DEF AtfStage, VerdictHonest, Early, Late
<1> QED
  BY <1>6, <1>7 DEF AtfControl

LEMMA AppendToEmpty == \A x : Append(<<>>, x) = <<x>> /\ <<x>> # <<>>
<1> SUFFICES ASSUME NEW x PROVE Append(<<>>, x) = <<x>> /\ <<x>> # <<>>
  OBVIOUS
<1>1. <<>> \in Seq({x}) /\ <<x>> \in Seq({x}) /\ Len(<<x>>) = 1 /\ <<x>>[1] = x
  OBVIOUS
<1>2. Append(<<>>, x) \in Seq({x}) /\ Len(Append(<<>>, x)) = 1 /\ Append(<<>>, x)[1] = x
  BY <1>1, AppendProperties
<1> QED
  BY <1>1, <1>2, SeqEqual

\* A failed requirement, or the end of a body with failed checks, ends the program.
LEMMA RequirementFails ==
  ASSUME AtfControl, pc = "body", fail_requirement, failed' = {at}, UNCHANGED <<at, tcs, params, err>>
  PROVE  AtfStage' /\ VerdictHonest'
<1>1. results = <<>> /\ exitcode \in {0, 1}
  BY DEF AtfControl, AtfTyped, TypeOK, AtfStage
<1>2. /\ pc' = "ended" /\ exitcode' \in {0, 1}
      /\ \/ ending' = "exit" /\ results' = <<<<"failed", at>>>> /\ exitcode' = 1
         \/ ending' = "abort" /\ results' = <<>>
  BY <1>1, AppendToEmpty DEF fail_requirement, create_resfile, EndsBy
<1>3. AtfStage'
  BY <1>2 DEF AtfControl, AtfStage, Early, Late
<1>4. VerdictHonest'
  BY <1>2 DEF VerdictHonest
<1> QED
  BY <1>3, <1>4

\* The cases run, and the labels on the way out.
LEMMA RunControl ==
  ASSUME AtfControl, [Next]_vars,
         ~(ParamsInit \/ Option \/ Arguments \/ Srcdir \/ TpInit \/ AddTc)
  PROVE  AtfControl'
<1> USE DEF NoError, EndsBy, observed
<1>0. Len(Cases) \in Nat /\ Len(tcs) \in Nat /\ (Cases = <<>> <=> Len(Cases) = 0) /\ DOMAIN Cases = 1 .. Len(Cases)
  BY AtfAssumption, LenProperties, EmptySeq DEF AtfControl, AtfTyped, IsSeq
<1>1. CASE List
  <2>1. AtfTyped'
    BY <1>0, <1>1, AtfAssumption DEF List, Fault, AtfControl, AtfTyped, TypeOK, AtfStage
  <2>2. OneErrorOnFlight'
    BY <1>0, <1>1 DEF List, AtfControl, AtfTyped, TypeOK, AtfStage, OneErrorOnFlight, Early, Late
  <2>3. AtfStage' /\ VerdictHonest'
    BY <1>0, <1>1 DEF List, AtfControl, AtfTyped, TypeOK, AtfStage, VerdictHonest, Early, Late
  <2> QED
    BY <2>1, <2>2, <2>3 DEF AtfControl
<1>2. CASE StartCase
  <2>1. AtfTyped'
    BY <1>0, <1>2, AtfAssumption DEF StartCase, Running, Fault, AtfControl, AtfTyped, TypeOK, AtfStage
  <2>2. OneErrorOnFlight'
    BY <1>0, <1>2 DEF StartCase, Running, AtfControl, AtfTyped, TypeOK, AtfStage, OneErrorOnFlight, Early, Late
  <2>3. AtfStage' /\ VerdictHonest'
    BY <1>0, <1>2 DEF StartCase, Running, AtfControl, AtfTyped, TypeOK, AtfStage, VerdictHonest, Early, Late
  <2> QED
    BY <2>1, <2>2, <2>3 DEF AtfControl
<1>3. CASE fail_check
  <2>1. AtfTyped'
    BY <1>0, <1>3, AtfAssumption DEF fail_check, InBody, Fault, AtfControl, AtfTyped, TypeOK, AtfStage
  <2>2. OneErrorOnFlight'
    BY <1>0, <1>3 DEF fail_check, InBody, AtfControl, AtfTyped, TypeOK, AtfStage, OneErrorOnFlight, Early, Late
  <2>3. AtfStage' /\ VerdictHonest'
    BY <1>0, <1>3 DEF fail_check, InBody, AtfControl, AtfTyped, TypeOK, AtfStage, VerdictHonest, Early, Late
  <2> QED
    BY <2>1, <2>2, <2>3 DEF AtfControl
<1>4. CASE atf_tc_fail_requirement
  <2>1. AtfTyped'
    BY <1>0, <1>4, AtfAssumption DEF atf_tc_fail_requirement, InBody, fail_requirement, create_resfile, Fault,
       AtfControl, AtfTyped, TypeOK, AtfStage
  <2>2. OneErrorOnFlight'
    BY <1>0, <1>4 DEF atf_tc_fail_requirement, InBody, fail_requirement, create_resfile, AtfControl, AtfTyped,
       TypeOK, AtfStage, OneErrorOnFlight, Early, Late
  <2>3. AtfStage' /\ VerdictHonest'
    BY <1>4, RequirementFails DEF atf_tc_fail_requirement, InBody, AtfControl, AtfStage, VerdictHonest
  <2> QED
    BY <2>1, <2>2, <2>3 DEF AtfControl
<1>5. CASE format_reason_ap
  <2>1. AtfTyped'
    BY <1>0, <1>5, AtfAssumption DEF format_reason_ap, InBody, Fault, AtfControl, AtfTyped, TypeOK, AtfStage
  <2>2. OneErrorOnFlight'
    BY <1>0, <1>5 DEF format_reason_ap, InBody, AtfControl, AtfTyped, TypeOK, AtfStage, OneErrorOnFlight, Early, Late
  <2>3. AtfStage' /\ VerdictHonest'
    BY <1>0, <1>5 DEF format_reason_ap, InBody, AtfControl, AtfTyped, TypeOK, AtfStage, VerdictHonest, Early, Late
  <2> QED
    BY <2>1, <2>2, <2>3 DEF AtfControl
<1>6. CASE TestCreatesFile
  <2>1. AtfTyped'
    BY <1>0, <1>6, AtfAssumption DEF TestCreatesFile, InBody, Fault, AtfControl, AtfTyped, TypeOK, AtfStage
  <2>2. OneErrorOnFlight'
    BY <1>0, <1>6 DEF TestCreatesFile, InBody, AtfControl, AtfTyped, TypeOK, AtfStage, OneErrorOnFlight, Early, Late
  <2>3. AtfStage' /\ VerdictHonest'
    BY <1>0, <1>6 DEF TestCreatesFile, InBody, AtfControl, AtfTyped, TypeOK, AtfStage, VerdictHonest, Early, Late
  <2> QED
    BY <2>1, <2>2, <2>3 DEF AtfControl
<1>7. CASE TestCrashes
  <2>1. AtfTyped'
    BY <1>0, <1>7, AtfAssumption DEF TestCrashes, InBody, Fault, AtfControl, AtfTyped, TypeOK, AtfStage
  <2>2. OneErrorOnFlight'
    BY <1>0, <1>7 DEF TestCrashes, InBody, AtfControl, AtfTyped, TypeOK, AtfStage, OneErrorOnFlight, Early, Late
  <2>3. AtfStage' /\ VerdictHonest'
    BY <1>0, <1>7 DEF TestCrashes, InBody, AtfControl, AtfTyped, TypeOK, AtfStage, VerdictHonest, Early, Late
  <2> QED
    BY <2>1, <2>2, <2>3 DEF AtfControl
<1>8. CASE BodyReturns
  <2>1. AtfTyped'
    BY <1>0, <1>8, AtfAssumption DEF BodyReturns, fail_requirement, create_resfile, pass, ChecksFailed, Fault,
       AtfControl, AtfTyped, TypeOK, AtfStage
  <2>2. OneErrorOnFlight'
    BY <1>0, <1>8 DEF BodyReturns, fail_requirement, create_resfile, pass, ChecksFailed, AtfControl, AtfTyped,
       TypeOK, AtfStage, OneErrorOnFlight, Early, Late
  <2>3. AtfStage' /\ VerdictHonest'
    <3>1. CASE ChecksFailed
      BY <1>8, <3>1, RequirementFails DEF BodyReturns, ChecksFailed, AtfControl, AtfTyped, TypeOK, AtfStage,
         VerdictHonest
    <3>2. CASE ~ChecksFailed
      BY <1>0, <1>8, <3>2 DEF BodyReturns, pass, ChecksFailed, AtfControl, AtfTyped, TypeOK, AtfStage,
         VerdictHonest, Early, Late
    <3> QED
      BY <3>1, <3>2
  <2> QED
    BY <2>1, <2>2, <2>3 DEF AtfControl
<1>9. CASE AllRan
  <2>1. AtfTyped'
    BY <1>0, <1>9, AtfAssumption DEF AllRan, Running, Fault, AtfControl, AtfTyped, TypeOK, AtfStage
  <2>2. OneErrorOnFlight'
    BY <1>0, <1>9 DEF AllRan, Running, AtfControl, AtfTyped, TypeOK, AtfStage, OneErrorOnFlight, Early, Late
  <2>3. AtfStage' /\ VerdictHonest'
    BY <1>0, <1>9 DEF AllRan, Running, AtfControl, AtfTyped, TypeOK, AtfStage, VerdictHonest, Early, Late
  <2> QED
    BY <2>1, <2>2, <2>3 DEF AtfControl
<1>10. CASE OutTp
  <2>1. AtfTyped'
    BY <1>0, <1>10, AtfAssumption DEF OutTp, Fault, AtfControl, AtfTyped, TypeOK, AtfStage
  <2>2. OneErrorOnFlight'
    BY <1>0, <1>10 DEF OutTp, AtfControl, AtfTyped, TypeOK, AtfStage, OneErrorOnFlight, Early, Late
  <2>3. AtfStage' /\ VerdictHonest'
    BY <1>0, <1>10 DEF OutTp, AtfControl, AtfTyped, TypeOK, AtfStage, VerdictHonest, Early, Late
  <2> QED
    BY <2>1, <2>2, <2>3 DEF AtfControl
<1>11. CASE OutP
  <2>1. AtfTyped'
    BY <1>0, <1>11, AtfAssumption DEF OutP, Fault, AtfControl, AtfTyped, TypeOK, AtfStage
  <2>2. OneErrorOnFlight'
    BY <1>0, <1>11 DEF OutP, AtfControl, AtfTyped, TypeOK, AtfStage, OneErrorOnFlight, Early, Late
  <2>3. AtfStage' /\ VerdictHonest'
    BY <1>0, <1>11 DEF OutP, AtfControl, AtfTyped, TypeOK, AtfStage, VerdictHonest, Early, Late
  <2> QED
    BY <2>1, <2>2, <2>3 DEF AtfControl
<1>12. CASE Out
  <2>1. AtfTyped'
    BY <1>0, <1>12, AtfAssumption DEF Out, ExitCode, Fault, AtfControl, AtfTyped, TypeOK, AtfStage
  <2>2. OneErrorOnFlight'
    BY <1>0, <1>12 DEF Out, ExitCode, AtfControl, AtfTyped, TypeOK, AtfStage, OneErrorOnFlight, Early, Late
  <2>3. AtfStage' /\ VerdictHonest'
    BY <1>0, <1>12 DEF Out, ExitCode, AtfControl, AtfTyped, TypeOK, AtfStage, VerdictHonest, Early, Late
  <2> QED
    BY <2>1, <2>2, <2>3 DEF AtfControl
<1>13. CASE UNCHANGED vars
  BY <1>13 DEF vars, AtfControl, AtfTyped, TypeOK, AtfStage, VerdictHonest, OneErrorOnFlight
<1> QED
  BY <1>1, <1>2, <1>3, <1>4, <1>5, <1>6, <1>7, <1>8, <1>9, <1>10, <1>11, <1>12, <1>13 DEF Next, Ended

(***************************************************************************)
(* The memory: what is allocated, from below and from above.               *)
(***************************************************************************)
HasParams == pc \notin {"params", "out", "ended"}
HasProgram == pc \in {"add_tcs", "body", "tp_fini"}
ProgramBlocks == TpBlocks \cup UNION {TcFini(tcs[i]) : i \in DOMAIN tcs}

AtfMemory ==
    /\ mem = [live |-> mem.live, bad |-> {}] /\ faults \in Nat
    /\ HasParams => ParamsBlocks \subseteq mem.live
    /\ HasProgram => ProgramBlocks \subseteq mem.live
    /\ ending = "none" => mem.live \subseteq KnownLeaks
                                       \cup (IF HasParams THEN ParamsBlocks ELSE {})
                                       \cup (IF HasProgram THEN ProgramBlocks ELSE {})
    /\ MainReturned => mem.live \subseteq KnownLeaks

\* Whose a block is: the maps' blocks are named by the map.
LEMMA BlockNames ==
  ASSUME NEW o, NEW m, NEW b \in MapBlocks(o, m)
  PROVE  b[1] \in {"ends", "cell", "value"} /\ b[2] = o
<1>1. CASE b = Ends(o)
  BY <1>1 DEF Ends
<1>2. CASE \E i \in Positions(m) : b = Cell(o, m[i].key)
  BY <1>2 DEF Cell
<1>3. CASE \E i \in Positions(m) : b \in Owned(o, m[i])
  BY <1>3 DEF Owned, Value
<1> QED
  BY <1>1, <1>2, <1>3 DEF MapBlocks

\* What the program and its cases own is not what the command line owns.
LEMMA OwnersDiffer == ParamsBlocks \cap ProgramBlocks = {}
<1> SUFFICES ASSUME NEW b, b \in ParamsBlocks, b \in ProgramBlocks PROVE FALSE
  OBVIOUS
<1>1. \/ b[1] \in {"srcdir", "resfile", "tcname"}
      \/ b[1] \in {"ends", "cell", "value"} /\ b[2] = ParamsMap
  BY BlockNames DEF ParamsBlocks, Path, TcName
<1>2. \/ b[1] \in {"tp", "tcs", "tc"}
      \/ b[1] \in {"ends", "cell", "value"} /\ (b[2] = TpMap \/ \E c : b[2] = TcMap(c, "vars"))
  <2>1. CASE b \in TpBlocks
    BY <2>1, BlockNames DEF TpBlocks
  <2>2. CASE \E i \in DOMAIN tcs : b \in TcFini(tcs[i])
    BY <2>2, BlockNames DEF TcFini, Pimpl
  <2> QED
    BY <2>1, <2>2 DEF ProgramBlocks
<1>3. ParamsMap # TpMap /\ \A c : ParamsMap # TcMap(c, "vars")
  BY DEF ParamsMap, TpMap, TcMap
<1> QED
  BY <1>1, <1>2, <1>3

\* An insertion frees what the map gives up, and allocates what it takes.
LEMMA InsertBlocks ==
  ASSUME NEW o, NEW m, IsSeq(m), KeysUnique(m), NEW key, NEW value, NEW managed
  PROVE  /\ Displaced(o, m, key) \subseteq MapBlocks(o, m)
         /\ MapBlocks(o, atf_map_insert(m, key, value, managed))
              = (MapBlocks(o, m) \ Displaced(o, m, key)) \cup Inserted(o, m, key, value, managed)
<1> DEFINE e == Entry(key, value, managed)
           n == atf_map_insert(m, key, value, managed)
<1>1. e.key = key
  BY DEF Entry
<1>2. Displaced(o, m, key) \subseteq MapBlocks(o, m)
  BY DEF Displaced, MapBlocks, atf_map_find
<1>3. CASE atf_map_find(m, key) = {}
  <2>1. Displaced(o, m, key) = {}
    BY <1>3 DEF Displaced
  <2>2. n = Append(m, e) /\ Inserted(o, m, key, value, managed) = {Cell(o, key)} \cup Owned(o, e)
    BY <1>3 DEF atf_map_insert, Inserted
  <2>3. /\ DOMAIN n = DOMAIN m \cup {Len(m) + 1}
        /\ \A i \in DOMAIN m : n[i] = m[i]
        /\ n[Len(m) + 1] = e
    BY <2>2, AppendKeeps
  <2> HIDE DEF n, e
  <2>4. MapBlocks(o, n) = MapBlocks(o, m) \cup {Cell(o, key)} \cup Owned(o, e)
    BY <1>1, <2>3 DEF MapBlocks, Positions
  <2> QED
    BY <1>2, <2>1, <2>2, <2>4 DEF n
<1>4. CASE atf_map_find(m, key) # {}
  <2>1. PICK i \in DOMAIN m : m[i].key = key /\ n = Replaced(m, i, value, managed)
    BY <1>4 DEF atf_map_insert, atf_map_find, Positions
  <2>2. atf_map_find(m, key) = {i}
    BY <2>1 DEF atf_map_find, Positions, KeysUnique
  <2>3. Displaced(o, m, key) = Owned(o, m[i]) /\ Inserted(o, m, key, value, managed) = Owned(o, e)
    BY <2>2 DEF Displaced, Inserted
  <2>4. /\ DOMAIN n = DOMAIN m /\ n[i] = e
        /\ \A j \in DOMAIN m \ {i} : n[j] = m[j] /\ m[j].key # key
    BY <2>1 DEF Replaced, KeysUnique
  <2> DEFINE Others == {Ends(o)} \cup UNION {{Cell(o, m[j].key)} \cup Owned(o, m[j]) : j \in DOMAIN m \ {i}}
  <2> HIDE DEF n, e
  <2>5. MapBlocks(o, m) = Others \cup {Cell(o, key)} \cup Owned(o, m[i])
    BY <2>1 DEF MapBlocks, Positions
  <2>6. MapBlocks(o, n) = Others \cup {Cell(o, key)} \cup Owned(o, e)
    BY <1>1, <2>1, <2>4 DEF MapBlocks, Positions
  <2>7. Owned(o, m[i]) \cap (Others \cup {Cell(o, key)}) = {}
    BY <2>1, <2>4 DEF Owned, Value, Cell, Ends
  <2> HIDE DEF Others
  <2> QED
    BY <1>2, <2>3, <2>5, <2>6, <2>7 DEF n
<1> QED
  BY <1>3, <1>4

LEMMA FaultsGrow == ASSUME faults \in Nat, [Next]_vars PROVE faults' \in Nat /\ faults' >= faults
<1>1. faults' \in {faults, faults + 1}
  <2> USE DEF Fault
  <2>1. ParamsInit \/ Option \/ Arguments \/ Srcdir => faults' \in {faults, faults + 1}
    BY DEF ParamsInit, Option, ReplacePath, InsertOption, Arguments, handle_tcarg, Srcdir
  <2>2. TpInit \/ AddTc \/ List \/ StartCase \/ AllRan \/ OutTp \/ OutP \/ Out => faults' \in {faults, faults + 1}
    BY DEF TpInit, AddTc, List, StartCase, AllRan, OutTp, OutP, Out
  <2>3. fail_check \/ atf_tc_fail_requirement \/ format_reason_ap \/ TestCreatesFile \/ TestCrashes \/ BodyReturns
          => faults' \in {faults, faults + 1}
    BY DEF fail_check, atf_tc_fail_requirement, format_reason_ap, TestCreatesFile, TestCrashes, BodyReturns
  <2> QED
    BY <2>1, <2>2, <2>3 DEF Next, Ended, vars
<1> QED
  BY <1>1

\* No step frees what is not allocated.
MemoryIs(live) == mem' = [live |-> live, bad |-> {}] /\ mem'.live = live

LEMMA MallocStep ==
  ASSUME mem = [live |-> mem.live, bad |-> {}], NEW new, mem' = Malloc(mem, new)
  PROVE  MemoryIs(mem.live \cup new)
<1>1. mem' = [[live |-> mem.live, bad |-> {}] EXCEPT !.live = @ \cup new]
  BY DEF Malloc
<1> QED
  BY <1>1 DEF MemoryIs

LEMMA FreeStep ==
  ASSUME mem = [live |-> mem.live, bad |-> {}], NEW old, old \subseteq mem.live,
         NEW new, mem' = Malloc(Free(mem, old), new) \/ (mem' = Free(mem, old) /\ new = {})
  PROVE  MemoryIs((mem.live \ old) \cup new)
<1>1. mem.bad = {} /\ old \ mem.live = {}
  OBVIOUS
<1>2. Free(mem, old) = [live |-> mem.live \ old, bad |-> {}]
  BY <1>1 DEF Free
<1>3. CASE mem' = Malloc(Free(mem, old), new)
  <2>1. mem' = [[live |-> mem.live \ old, bad |-> {}] EXCEPT !.live = @ \cup new]
    BY <1>2, <1>3 DEF Malloc
  <2> QED
    BY <2>1 DEF MemoryIs
<1>4. CASE mem' = Free(mem, old) /\ new = {}
  BY <1>2, <1>4 DEF MemoryIs
<1> QED
  BY <1>3, <1>4

\* The same with a prime is proved the same way: both states have no case.
LEMMA NoCases ==
  /\ tcs = <<>> => KnownLeaks = (IF faults > 0 THEN {Lost} ELSE {}) /\ ProgramBlocks = TpBlocks
  /\ tcs' = <<>> => KnownLeaks' = (IF faults' > 0 THEN {Lost} ELSE {}) /\ ProgramBlocks' = TpBlocks'
<1> DEFINE none == <<>>
<1>1. DOMAIN none = {}
  OBVIOUS
<1>2. ASSUME tcs = none PROVE KnownLeaks = (IF faults > 0 THEN {Lost} ELSE {}) /\ ProgramBlocks = TpBlocks
  <2>1. DOMAIN tcs = {}
    BY <1>1, <1>2
  <2>2. KnownLeaks = (IF faults > 0 THEN {Lost} ELSE {})
    BY <2>1 DEF KnownLeaks
  <2>3. ProgramBlocks = TpBlocks
    BY <2>1 DEF ProgramBlocks
  <2> QED
    BY <2>2, <2>3
<1>3. ASSUME tcs' = none PROVE KnownLeaks' = (IF faults' > 0 THEN {Lost} ELSE {}) /\ ProgramBlocks' = TpBlocks'
  <2>1. DOMAIN tcs' = {}
    BY <1>1, <1>3
  <2>2. KnownLeaks' = (IF faults' > 0 THEN {Lost} ELSE {})
    BY <2>1 DEF KnownLeaks
  <2>3. ProgramBlocks' = TpBlocks'
    BY <2>1 DEF ProgramBlocks
  <2> QED
    BY <2>2, <2>3
<1> QED
  BY <1>2, <1>3

\* While the command line is read: some of the parameters are exchanged, and a
\* failure may lose a block.
LEMMA Exchanged ==
  ASSUME AtfMemory, faults' \in Nat, faults' >= faults, tcs = <<>>, tcs' = <<>>,
         HasParams, ~HasProgram, ending = "none",
         NEW old \in SUBSET ParamsBlocks, NEW new, NEW lost \in SUBSET {Lost}, lost # {} => faults' > 0,
         mem' = Malloc(Free(mem, old), new \cup lost),
         ParamsBlocks' = (ParamsBlocks \ old) \cup new,
         ending' # "exit", HasParams' \/ ending' # "none", ~HasProgram'
  PROVE  AtfMemory'
<1> DEFINE Known(n) == IF n > 0 THEN {Lost} ELSE {}
<1>1. KnownLeaks = Known(faults) /\ KnownLeaks' = Known(faults')
  BY NoCases
<1>2. MemoryIs((mem.live \ old) \cup (new \cup lost))
  <2>1. mem = [live |-> mem.live, bad |-> {}] /\ old \subseteq mem.live
    BY DEF AtfMemory
  <2> QED
    BY <2>1, FreeStep
<1>3. mem.live \subseteq Known(faults) \cup ParamsBlocks /\ ParamsBlocks \subseteq mem.live
  BY <1>1 DEF AtfMemory
<1>4. Known(faults) \cup lost \subseteq Known(faults')
  BY DEF AtfMemory
<1>5. mem.live' \subseteq Known(faults') \cup ParamsBlocks' /\ ParamsBlocks' \subseteq mem.live'
  <2>1. \A live, owned, kept, kept2 :
          live \subseteq kept \cup owned /\ owned \subseteq live /\ kept \cup lost \subseteq kept2
          => /\ (live \ old) \cup new \cup lost \subseteq kept2 \cup (owned \ old) \cup new
             /\ (owned \ old) \cup new \subseteq (live \ old) \cup new \cup lost
    OBVIOUS
  <2>2. mem.live' = (mem.live \ old) \cup new \cup lost
    BY <1>2 DEF MemoryIs
  <2> HIDE DEF Known
  <2> QED
    BY <1>3, <1>4, <2>1, <2>2
<1> QED
  <2>1. mem.live' \subseteq KnownLeaks' \cup ParamsBlocks'
    BY <1>1, <1>5
  <2> QED
    BY <1>2, <1>5, <2>1 DEF AtfMemory, MemoryIs, MainReturned

\* The steps that leave the memory and what is owned alone.
LEMMA SameMemory ==
  ASSUME AtfMemory, UNCHANGED <<mem, params, pconfig, tconfig, tcs>>, faults' \in Nat, faults' >= faults,
         HasParams' => HasParams, HasProgram' => HasProgram,
         ending' = "none" => ending = "none" /\ (HasParams => HasParams') /\ (HasProgram => HasProgram'),
         MainReturned' => MainReturned \/ (ending = "none" /\ pc = "out")
  PROVE  AtfMemory'
<1>1. ParamsBlocks' = ParamsBlocks /\ ProgramBlocks' = ProgramBlocks
  BY DEF ParamsBlocks, ProgramBlocks, TpBlocks
<1>2. KnownLeaks \subseteq KnownLeaks'
  BY DEF KnownLeaks, AtfMemory
<1> QED
  BY <1>1, <1>2 DEF AtfMemory, HasParams, HasProgram


LEMMA EarlyMemory ==
  ASSUME AtfControl, AtfControl', AtfMemory, faults' \in Nat, faults' >= faults,
         ParamsInit \/ Option \/ Arguments \/ Srcdir
  PROVE  AtfMemory'
<1>1. /\ ending = "none" /\ tcs = <<>> /\ tcs' = <<>> /\ IsSeq(pconfig) /\ KeysUnique(pconfig) /\ err = "none" /\ ~on_flight
      /\ params = [list |-> params.list, srcdir |-> params.srcdir, resfile |-> params.resfile,
                   tcname |-> params.tcname, part |-> params.part]
      /\ mem = [live |-> mem.live, bad |-> {}] /\ faults \in Nat
  BY DEF ParamsInit, Option, Arguments, Srcdir, Early, AtfControl, AtfTyped, AtfStage, TypeOK,
     OneErrorOnFlight, AtfMemory
<1> DEFINE Known(n) == IF n > 0 THEN {Lost} ELSE {}
<1>2. KnownLeaks = Known(faults) /\ KnownLeaks' = Known(faults')
  BY <1>1, NoCases
<1>3. CASE ParamsInit
  <2>1. mem.live \subseteq Known(faults) /\ ParamsBlocks' = ParamsBlocks /\ pc = "params"
    BY <1>1, <1>2, <1>3 DEF AtfMemory, ParamsInit, HasParams, HasProgram, ParamsBlocks
  <2>2. CASE mem' = Malloc(mem, ParamsBlocks) /\ NoError("options")
    <3>1. MemoryIs(mem.live \cup ParamsBlocks)
      BY <1>1, <2>2, MallocStep
    <3>2. mem.live' \subseteq KnownLeaks' \cup ParamsBlocks' /\ ParamsBlocks' \subseteq mem.live'
      BY <1>1, <1>2, <2>1, <3>1 DEF MemoryIs
    <3> QED
      BY <1>1, <2>2, <3>1, <3>2 DEF AtfMemory, MemoryIs, NoError, HasParams, HasProgram, MainReturned
  <2>3. ASSUME NEW lost \in SUBSET {Lost}, Fault, mem' = Malloc(mem, lost), Raise("no_memory", "out") PROVE AtfMemory'
    <3>1. MemoryIs(mem.live \cup lost)
      BY <1>1, <2>3, MallocStep
    <3>2. mem.live' \subseteq KnownLeaks'
      BY <1>1, <1>2, <2>1, <2>3, <3>1 DEF MemoryIs, Fault
    <3>3. pc' = "out"
      BY <1>1, <2>3 DEF Raise
    <3> QED
      BY <3>1, <3>2, <3>3 DEF AtfMemory, MemoryIs, HasParams, HasProgram
  <2> QED
    BY <1>3, <2>2, <2>3 DEF ParamsInit
<1> HIDE DEF Known
<1>4. ASSUME Option \/ Arguments \/ Srcdir
      PROVE  /\ HasParams /\ ~HasProgram /\ ~HasProgram' /\ ending' # "exit" /\ (HasParams' \/ ending' # "none")
  BY <1>1, <1>4 DEF Option, ReplacePath, InsertOption, Arguments, handle_tcarg, Srcdir, NotFound, Raise,
     NoError, EndsBy,
                    HasParams, HasProgram
<1>5. ASSUME NEW old \in SUBSET ParamsBlocks, NEW new, NEW lost \in SUBSET {Lost}, lost # {} => Fault,
             mem' = Malloc(Free(mem, old), new \cup lost), ParamsBlocks' = (ParamsBlocks \ old) \cup new,
             Option \/ Arguments \/ Srcdir
      PROVE  AtfMemory'
  <2>1. lost # {} => faults' > 0
    BY <1>1, <1>5 DEF Fault
  <2> QED
    BY <1>1, <1>4, <1>5, <2>1, Exchanged
<1>5a. ASSUME NEW old \in SUBSET ParamsBlocks, NEW new,
              mem' = Malloc(Free(mem, old), new), ParamsBlocks' = (ParamsBlocks \ old) \cup new,
              Option \/ Arguments \/ Srcdir
       PROVE  AtfMemory'
  <2>1. new \cup {} = new
    OBVIOUS
  <2>2. mem' = Malloc(Free(mem, old), new \cup {})
    BY <1>5a, <2>1
  <2> DEFINE lost == {}
  <2>3. lost \in SUBSET {Lost} /\ (lost # {} => Fault) /\ mem' = Malloc(Free(mem, old), new \cup lost)
    BY <2>2
  <2> HIDE DEF lost
  <2> QED
    BY <1>5, <1>5a, <2>3
<1>6. ASSUME UNCHANGED <<params, pconfig>>, Option \/ Arguments \/ Srcdir,
             UNCHANGED mem \/ (Fault /\ \E lost \in SUBSET {Lost} : mem' = Malloc(mem, lost))
      PROVE  AtfMemory'
  <2>1. ParamsBlocks' = (ParamsBlocks \ {}) \cup {}
    BY <1>6 DEF ParamsBlocks
  <2>2. PICK lost \in SUBSET {Lost} : (lost # {} => Fault) /\ mem' = Malloc(mem, lost)
    <3>1. CASE UNCHANGED mem
      <4>1. Malloc(mem, {}) = mem
        BY <1>1 DEF Malloc
      <4> QED
        BY <3>1, <4>1
    <3> QED
      BY <1>6, <3>1
  <2>3. Free(mem, {}) = mem
    BY <1>1 DEF Free
  <2>4. mem' = Malloc(Free(mem, {}), {} \cup lost)
    BY <2>2, <2>3
  <2> QED
    BY <1>5, <1>6, <2>1, <2>2, <2>4
<1>7. ASSUME NEW param \in {"srcdir", "resfile"}, NEW value, Option, ReplacePath(param, value), UNCHANGED pconfig
      PROVE  AtfMemory'
  <2>1. CASE /\ params' = [params EXCEPT ![param] = normalize(value)]
             /\ mem' = Malloc(Free(mem, {Path(param, params[param])}), {Path(param, normalize(value))})
    <3>1. {Path(param, params[param])} \subseteq ParamsBlocks
      BY DEF ParamsBlocks
    <3>2. ParamsBlocks' = (ParamsBlocks \ {Path(param, params[param])}) \cup {Path(param, normalize(value))}
      <4> DEFINE Other == MapBlocks(ParamsMap, pconfig) \cup TcName(params)
      <4>1. \A b \in Other : b[1] \notin {"srcdir", "resfile"}
        BY BlockNames DEF TcName
      <4>2. UNCHANGED Other
        BY <1>1, <1>7, <2>1 DEF TcName
      <4>3. \A v : Path(param, v)[1] = param
        BY DEF Path
      <4>4. /\ ParamsBlocks = {Path("srcdir", params.srcdir), Path("resfile", params.resfile)} \cup Other
            /\ ParamsBlocks' = {Path("srcdir", params.srcdir'), Path("resfile", params.resfile')} \cup Other'
        BY DEF ParamsBlocks
      <4>5. \A v, w : Path("srcdir", v) # Path("resfile", w)
        BY DEF Path
      <4> HIDE DEF Other
      <4>6. /\ param = "srcdir" => params.srcdir' = normalize(value) /\ params.resfile' = params.resfile
            /\ param = "resfile" => params.resfile' = normalize(value) /\ params.srcdir' = params.srcdir
        BY <1>1, <2>1
      <4> QED
        BY <4>1, <4>2, <4>3, <4>4, <4>5, <4>6
    <3> QED
      BY <1>5a, <1>7, <2>1, <3>1, <3>2
  <2>2. CASE UNCHANGED <<params, mem>>
    BY <1>6, <1>7, <2>2
  <2>3. CASE Fault /\ UNCHANGED params /\ \E lost \in SUBSET {Lost} : mem' = Malloc(mem, lost)
    BY <1>6, <1>7, <2>3
  <2> QED
    BY <1>7, <2>1, <2>2, <2>3 DEF ReplacePath
<1>8. ASSUME NEW key, NEW value, NEW managed \in BOOLEAN, Option \/ Srcdir, UNCHANGED params,
             pconfig' = atf_map_insert(pconfig, key, value, managed),
             mem' = Malloc(Free(mem, Displaced(ParamsMap, pconfig, key)), Inserted(ParamsMap, pconfig, key, value, managed))
      PROVE  AtfMemory'
  <2> DEFINE old == Displaced(ParamsMap, pconfig, key)
             new == Inserted(ParamsMap, pconfig, key, value, managed)
             Other == {Path("srcdir", params.srcdir), Path("resfile", params.resfile)} \cup TcName(params)
  <2>1. old \subseteq MapBlocks(ParamsMap, pconfig)
        /\ MapBlocks(ParamsMap, pconfig') = (MapBlocks(ParamsMap, pconfig) \ old) \cup new
    BY <1>1, <1>8, InsertBlocks
  <2>2. \A b \in Other : b[1] \notin {"ends", "cell", "value"}
    BY DEF Path, TcName
  <2>3. \A b \in MapBlocks(ParamsMap, pconfig) : b[1] \in {"ends", "cell", "value"}
    BY BlockNames
  <2>4. /\ ParamsBlocks = Other \cup MapBlocks(ParamsMap, pconfig)
        /\ ParamsBlocks' = Other \cup MapBlocks(ParamsMap, pconfig')
    BY <1>8 DEF ParamsBlocks
  <2>5. mem' = Malloc(Free(mem, old), new)
    BY <1>8
  <2> HIDE DEF old, new, Other
  <2>6. old \subseteq ParamsBlocks /\ ParamsBlocks' = (ParamsBlocks \ old) \cup new
    BY <2>1, <2>2, <2>3, <2>4
  <2> QED
    BY <1>5a, <1>8, <2>5, <2>6
<1>9. CASE Option
  <2> DEFINE o == line.options[optind']
  <2>1. \/ params' = [params EXCEPT !.list = TRUE] /\ UNCHANGED <<pconfig, mem>>
        \/ ReplacePath("resfile", o[2]) /\ UNCHANGED pconfig
        \/ ReplacePath("srcdir", o[2]) /\ UNCHANGED pconfig
        \/ InsertOption(o[2], o[3]) /\ UNCHANGED params
        \/ UNCHANGED <<params, pconfig, mem>>
    BY <1>9 DEF Option
  <2> HIDE DEF o
  <2>2. CASE params' = [params EXCEPT !.list = TRUE] /\ UNCHANGED <<pconfig, mem>>
    <3>1. ParamsBlocks' = (ParamsBlocks \ {}) \cup {}
      BY <1>1, <2>2 DEF ParamsBlocks, TcName
    <3>2. Free(mem, {}) = mem /\ Malloc(mem, {}) = mem
      BY <1>1 DEF Free, Malloc
    <3> QED
      BY <1>5a, <1>9, <2>2, <3>1, <3>2
  <2>3. CASE InsertOption(o[2], o[3]) /\ UNCHANGED params
    <3>1. CASE UNCHANGED pconfig /\ Fault /\ \E lost \in SUBSET {Lost} : mem' = Malloc(mem, lost)
      BY <1>6, <1>9, <2>3, <3>1
    <3>2. CASE /\ pconfig' = atf_map_insert(pconfig, o[2], o[3], FALSE)
               /\ mem' = Malloc(Free(mem, Displaced(ParamsMap, pconfig, o[2])),
                                Inserted(ParamsMap, pconfig, o[2], o[3], FALSE))
      BY <1>8, <1>9, <2>3, <3>2
    <3> QED
      BY <2>3, <3>1, <3>2 DEF InsertOption
  <2> QED
    BY <1>6, <1>7, <1>9, <2>1, <2>2, <2>3
<1>10. CASE Arguments
  <2>2. CASE \E name : /\ params' = [params EXCEPT !.tcname = name.ident,
                                         !.part = IF name.part = "cleanup" THEN "cleanup" ELSE @]
                       /\ name.ident # "none" /\ mem' = Malloc(mem, {<<"tcname">>})
    <3>1. PICK name : /\ params' = [params EXCEPT !.tcname = name.ident,
                                         !.part = IF name.part = "cleanup" THEN "cleanup" ELSE @]
                      /\ name.ident # "none" /\ mem' = Malloc(mem, {<<"tcname">>})
      BY <2>2
    <3>2. TcName(params') = {<<"tcname">>} /\ TcName(params) \subseteq {<<"tcname">>}
          /\ params.srcdir' = params.srcdir /\ params.resfile' = params.resfile
      BY <1>1, <3>1 DEF TcName
    <3>3. ParamsBlocks' = (ParamsBlocks \ {}) \cup {<<"tcname">>}
      BY <1>10, <3>2 DEF ParamsBlocks, Arguments
    <3>4. Free(mem, {}) = mem
      BY <1>1 DEF Free
    <3>5. mem' = Malloc(Free(mem, {}), {<<"tcname">>})
      BY <3>1, <3>4
    <3> QED
      BY <1>5a, <1>10, <3>3, <3>5
  <2>3. Len(line.args) = 1 => line.args[1].ident # "none"
    <3>1. line \in CommandLines
      BY DEF AtfControl, AtfTyped
    <3> QED
      BY <3>1, AtfAssumption
  <2>4. CASE UNCHANGED <<params, mem>>
    BY <1>6, <1>10, <2>4 DEF Arguments
  <2>5. CASE Len(line.args) = 1 /\ handle_tcarg(line.args[1])
    BY <2>2, <2>3, <2>4, <2>5 DEF handle_tcarg
  <2> QED
    BY <1>10, <2>4, <2>5 DEF Arguments
<1>11. CASE Srcdir
  <2>1. CASE UNCHANGED <<pconfig, mem>>
    BY <1>6, <1>11, <2>1 DEF Srcdir
  <2>2. CASE UNCHANGED pconfig /\ Fault /\ \E lost \in SUBSET {Lost} : mem' = Malloc(mem, lost)
    BY <1>6, <1>11, <2>2 DEF Srcdir
  <2>3. ASSUME NEW value, pconfig' = atf_map_insert(pconfig, "srcdir", value, TRUE),
               mem' = Malloc(Free(mem, Displaced(ParamsMap, pconfig, "srcdir")),
                             Inserted(ParamsMap, pconfig, "srcdir", value, TRUE))
        PROVE  AtfMemory'
    BY <1>8, <1>11, <2>3 DEF Srcdir
  <2> QED
    BY <1>11, <2>1, <2>2, <2>3 DEF Srcdir
<1> QED
  BY <1>3, <1>9, <1>10, <1>11

\* A failure may lose a block on its way out.
LEMMA LosesMemory ==
  ASSUME AtfMemory, UNCHANGED <<params, pconfig, tconfig, tcs>>, Fault,
         NEW lost \in SUBSET {Lost}, mem' = Malloc(mem, lost),
         ending' # "exit", ending' = "none" => ending = "none",
         ending' = "none" => (HasParams' <=> HasParams) /\ (HasProgram' <=> HasProgram),
         ending' # "none" => pc' = "ended"
  PROVE  AtfMemory'
<1>1. ParamsBlocks' = ParamsBlocks /\ ProgramBlocks' = ProgramBlocks
  BY DEF ParamsBlocks, ProgramBlocks, TpBlocks
<1>2. KnownLeaks \cup lost \subseteq KnownLeaks' /\ faults' \in Nat
  BY DEF KnownLeaks, AtfMemory, Fault
<1>3. MemoryIs(mem.live \cup lost)
  BY MallocStep DEF AtfMemory
<1>4. /\ HasParams' => ParamsBlocks' \subseteq mem.live'
      /\ HasProgram' => ProgramBlocks' \subseteq mem.live'
  BY <1>1, <1>3 DEF AtfMemory, MemoryIs, HasParams, HasProgram
<1>5. ASSUME ending' = "none"
      PROVE  mem.live' \subseteq KnownLeaks' \cup (IF HasParams' THEN ParamsBlocks' ELSE {})
                                     \cup (IF HasProgram' THEN ProgramBlocks' ELSE {})
  <2>1. mem.live \subseteq KnownLeaks \cup (IF HasParams' THEN ParamsBlocks' ELSE {})
                                     \cup (IF HasProgram' THEN ProgramBlocks' ELSE {})
    BY <1>1, <1>5 DEF AtfMemory
  <2>2. mem.live' = mem.live \cup lost
    BY <1>3 DEF MemoryIs
  <2> QED
    BY <1>2, <2>1, <2>2
<1> QED
  BY <1>2, <1>3, <1>4, <1>5 DEF AtfMemory, MemoryIs, MainReturned

\* The test program is made.
LEMMA ProgramMade ==
  ASSUME AtfControl, AtfMemory, pc = "tp_init", UNCHANGED <<params, pconfig, tcs, ending, faults>> \/ (Fault /\ UNCHANGED <<params, pconfig, tcs, ending>>),
         pc' = "add_tcs", mem' = Malloc(mem, {<<"tp">>, <<"tcs">>} \cup MapBlocks(TpMap, tconfig'))
  PROVE  AtfMemory'
<1>1. ending = "none" /\ ending' = "none" /\ tcs = <<>> /\ tcs' = <<>> /\ ParamsBlocks' = ParamsBlocks
  BY DEF AtfControl, AtfTyped, TypeOK, AtfStage, Early, ParamsBlocks
<1>2. faults' \in Nat /\ KnownLeaks \subseteq KnownLeaks'
  BY <1>1, NoCases DEF AtfMemory, Fault
<1>3. ProgramBlocks' = {<<"tp">>, <<"tcs">>} \cup MapBlocks(TpMap, tconfig')
  <2>1. DOMAIN tcs' = {}
    BY <1>1
  <2>2. TpBlocks' = {<<"tp">>, <<"tcs">>} \cup MapBlocks(TpMap, tconfig')
    BY <2>1 DEF TpBlocks
  <2> QED
    BY <1>1, <2>2, NoCases
<1>4. MemoryIs(mem.live \cup ProgramBlocks')
  BY <1>3, MallocStep DEF AtfMemory
<1>5. mem.live \subseteq KnownLeaks \cup ParamsBlocks /\ ParamsBlocks \subseteq mem.live
  BY <1>1 DEF AtfMemory, HasParams, HasProgram
<1> QED
  BY <1>1, <1>2, <1>4, <1>5 DEF AtfMemory, MemoryIs, HasParams, HasProgram, MainReturned

\* A case is added.
LEMMA CaseAdded ==
  ASSUME AtfControl, AtfMemory, pc = "add_tcs", NEW t, atf_tp_add_tc(t),
         UNCHANGED <<params, pconfig, tconfig, ending>>, faults' \in Nat, faults' >= faults, pc' = "add_tcs"
  PROVE  AtfMemory'
<1>1. ending = "none" /\ ending' = "none" /\ ParamsBlocks' = ParamsBlocks /\ faults \in Nat
  BY DEF AtfControl, AtfTyped, TypeOK, ParamsBlocks, AtfMemory
<1>2. /\ DOMAIN tcs' = DOMAIN tcs \cup {Len(tcs) + 1} /\ tcs'[Len(tcs) + 1] = t
      /\ \A i \in DOMAIN tcs : tcs'[i] = tcs[i]
  BY AppendKeeps DEF atf_tp_add_tc, AtfControl, AtfTyped
<1>3. ProgramBlocks' = ProgramBlocks \cup {<<"tcs", t.ident>>} \cup TcFini(t)
  BY <1>2 DEF ProgramBlocks, TpBlocks
<1>4. KnownLeaks \cup KeptConfig(t) \subseteq KnownLeaks'
  BY <1>1, <1>2 DEF KnownLeaks
<1>5. MemoryIs(mem.live \cup ({<<"tcs", t.ident>>} \cup TcFini(t) \cup KeptConfig(t)))
  BY MallocStep DEF AtfMemory, atf_tp_add_tc
<1>6. mem.live \subseteq KnownLeaks \cup ParamsBlocks \cup ProgramBlocks /\ ParamsBlocks \subseteq mem.live
      /\ ProgramBlocks \subseteq mem.live
  BY <1>1 DEF AtfMemory, HasParams, HasProgram
<1>7. /\ mem.live' \subseteq KnownLeaks' \cup ParamsBlocks' \cup ProgramBlocks' /\ ParamsBlocks' \subseteq mem.live'
      /\ ProgramBlocks' \subseteq mem.live'
  BY <1>1, <1>3, <1>4, <1>5, <1>6 DEF MemoryIs
<1> QED
  BY <1>1, <1>5, <1>7 DEF AtfMemory, MemoryIs, HasParams, HasProgram, MainReturned

LEMMA MemoryStep ==
  ASSUME AtfControl, AtfControl', AtfMemory, [Next]_vars
  PROVE  AtfMemory'
<1>0. faults \in Nat /\ faults' \in Nat /\ faults' >= faults /\ mem = [live |-> mem.live, bad |-> {}]
  BY FaultsGrow DEF AtfMemory
<1>1. CASE ParamsInit \/ Option \/ Arguments \/ Srcdir
  BY <1>0, <1>1, EarlyMemory
<1>2. CASE TpInit
  <2>1. pc = "tp_init" /\ ending = "none" /\ UNCHANGED <<params, pconfig, tcs>>
    BY <1>2 DEF TpInit, AtfControl, AtfTyped, TypeOK
  <2>2. CASE EndsBy("signal") /\ UNCHANGED <<tconfig, mem, faults>>
    BY <1>0, <2>1, <2>2, SameMemory DEF EndsBy, HasParams, HasProgram, MainReturned
  <2>3. CASE mem' = Malloc(mem, {<<"tp">>, <<"tcs">>} \cup MapBlocks(TpMap, tconfig')) /\ NoError("add_tcs")
    BY <1>2, <2>1, <2>3, ProgramMade DEF TpInit, NoError
  <2>4. CASE /\ Fault /\ Raise("no_memory", "params_fini") /\ UNCHANGED tconfig
             /\ \E lost \in SUBSET {Lost} : mem' = Malloc(mem, lost)
    BY <2>1, <2>4, LosesMemory DEF Raise, EndsBy, HasParams, HasProgram
  <2> QED
    BY <1>2, <2>2, <2>3, <2>4 DEF TpInit
<1>3. CASE AddTc
  <2>1. pc = "add_tcs" /\ ending = "none" /\ UNCHANGED <<params, pconfig, tconfig>>
    BY <1>3 DEF AddTc, AtfControl, AtfTyped, TypeOK
  <2>2. \/ pc' = "ended" /\ ending' \in {"abort", "signal"} /\ UNCHANGED <<tcs, mem>>
        \/ pc' = "add_tcs" /\ UNCHANGED ending /\ \E t : atf_tp_add_tc(t)
        \/ /\ Fault /\ Raise("no_memory", "tp_fini") /\ UNCHANGED tcs
           /\ \E lost \in SUBSET {Lost} : mem' = Malloc(mem, lost)
    BY <1>3 DEF AddTc, EndsBy, NoError
  <2>3. CASE pc' = "ended" /\ ending' \in {"abort", "signal"} /\ UNCHANGED <<tcs, mem>>
    BY <1>0, <2>1, <2>3, SameMemory DEF HasParams, HasProgram, MainReturned
  <2>4. CASE pc' = "add_tcs" /\ UNCHANGED ending /\ \E t : atf_tp_add_tc(t)
    BY <1>0, <2>1, <2>4, CaseAdded
  <2>5. CASE /\ Fault /\ Raise("no_memory", "tp_fini") /\ UNCHANGED tcs
             /\ \E lost \in SUBSET {Lost} : mem' = Malloc(mem, lost)
    BY <2>1, <2>5, LosesMemory DEF Raise, EndsBy, HasParams, HasProgram
  <2> QED
    BY <2>2, <2>3, <2>4, <2>5
<1>4. CASE StartCase
  <2>1. /\ pc = "add_tcs" /\ ending = "none" /\ at < Len(tcs) /\ at' = at + 1
        /\ UNCHANGED <<params, pconfig, tconfig, tcs>>
    BY <1>4 DEF StartCase, Running, AtfControl, AtfTyped, TypeOK
  <2>2. CASE EndsBy("abort") /\ UNCHANGED mem
    BY <1>0, <2>1, <2>2, SameMemory DEF EndsBy, HasParams, HasProgram, MainReturned
  <2>3. CASE mem' = Malloc(mem, context_init(at')) /\ NoError("body")
    <3>1. ParamsBlocks' = ParamsBlocks /\ ProgramBlocks' = ProgramBlocks
      BY <2>1 DEF ParamsBlocks, ProgramBlocks, TpBlocks
    <3>2. at' \in DOMAIN tcs
      BY <2>1, AppendKeeps DEF AtfControl, AtfTyped, TypeOK
    <3>3. KnownLeaks \cup context_init(at') \subseteq KnownLeaks'
      BY <1>0, <2>1, <3>2 DEF KnownLeaks, context_init
    <3>4. MemoryIs(mem.live \cup context_init(at'))
      BY <1>0, <2>3, MallocStep
    <3>5. mem.live \subseteq KnownLeaks \cup ParamsBlocks \cup ProgramBlocks /\ ParamsBlocks \subseteq mem.live
          /\ ProgramBlocks \subseteq mem.live
      BY <2>1 DEF AtfMemory, HasParams, HasProgram
    <3>6. mem.live' \subseteq KnownLeaks' \cup ParamsBlocks' \cup ProgramBlocks' /\ ParamsBlocks' \subseteq mem.live'
          /\ ProgramBlocks' \subseteq mem.live'
      BY <3>1, <3>3, <3>4, <3>5 DEF MemoryIs
    <3> QED
      BY <1>0, <2>1, <2>3, <3>4, <3>6 DEF NoError, AtfMemory, MemoryIs, HasParams, HasProgram, MainReturned
  <2> QED
    BY <1>4, <2>2, <2>3 DEF StartCase
<1>5. CASE \/ List \/ AllRan \/ fail_check \/ atf_tc_fail_requirement \/ format_reason_ap
           \/ TestCreatesFile \/ TestCrashes \/ BodyReturns
  <2>1. /\ pc \in {"add_tcs", "body"} /\ UNCHANGED <<mem, params, pconfig, tconfig, tcs>>
        /\ \/ pc' \in {"add_tcs", "body", "tp_fini"} /\ UNCHANGED ending
           \/ pc' = "ended" /\ ending' \in {"abort", "signal"}
           \/ pc' = "ended" /\ ending' = "exit" /\ results' = Append(results, <<"failed", at>>)
    BY <1>5 DEF List, AllRan, Running, fail_check, atf_tc_fail_requirement, format_reason_ap, TestCreatesFile,
       TestCrashes,
                BodyReturns, InBody, fail_requirement, create_resfile, pass, NoError, EndsBy
  <2>2. ending = "none" /\ results = <<>>
    BY <2>1 DEF AtfControl, AtfTyped, TypeOK, AtfStage
  <2>3. ~MainReturned'
    BY <2>1, <2>2, AppendToEmpty DEF MainReturned
  <2> QED
    BY <1>0, <2>1, <2>2, <2>3, SameMemory DEF HasParams, HasProgram
<1>6. CASE OutTp
  <2>1. /\ pc = "tp_fini" /\ pc' = "params_fini" /\ ending = "none" /\ ending' = "none"
        /\ UNCHANGED <<params, pconfig, tconfig, tcs, faults>> /\ mem' = Free(mem, ProgramBlocks)
    BY <1>6 DEF OutTp, NoError, ProgramBlocks, AtfControl, AtfTyped, TypeOK
  <2>2. /\ mem.live \subseteq KnownLeaks \cup ParamsBlocks \cup ProgramBlocks
        /\ ParamsBlocks \subseteq mem.live /\ ProgramBlocks \subseteq mem.live
    BY <2>1 DEF AtfMemory, HasParams, HasProgram
  <2>3. MemoryIs((mem.live \ ProgramBlocks) \cup {})
    BY <1>0, <2>1, <2>2, FreeStep
  <2>4. ParamsBlocks' = ParamsBlocks /\ KnownLeaks' = KnownLeaks
    BY <2>1 DEF ParamsBlocks, KnownLeaks
  <2>5. mem.live' \subseteq KnownLeaks' \cup ParamsBlocks' /\ ParamsBlocks' \subseteq mem.live'
    BY <2>2, <2>3, <2>4, OwnersDiffer DEF MemoryIs
  <2> QED
    BY <1>0, <2>1, <2>3, <2>5 DEF AtfMemory, MemoryIs, HasParams, HasProgram, MainReturned
<1>7. CASE OutP
  <2>1. /\ pc = "params_fini" /\ pc' = "out" /\ ending = "none" /\ ending' = "none"
        /\ UNCHANGED <<params, pconfig, tconfig, tcs, faults>> /\ mem' = Free(mem, ParamsBlocks)
    BY <1>7 DEF OutP, NoError, AtfControl, AtfTyped, TypeOK
  <2>2. mem.live \subseteq KnownLeaks \cup ParamsBlocks /\ ParamsBlocks \subseteq mem.live
    BY <2>1 DEF AtfMemory, HasParams, HasProgram
  <2>3. MemoryIs((mem.live \ ParamsBlocks) \cup {})
    BY <1>0, <2>1, <2>2, FreeStep
  <2>4. KnownLeaks' = KnownLeaks
    BY <2>1 DEF KnownLeaks
  <2>5. mem.live' \subseteq KnownLeaks'
    BY <2>2, <2>3, <2>4 DEF MemoryIs
  <2> QED
    BY <1>0, <2>1, <2>3, <2>5 DEF AtfMemory, MemoryIs, HasParams, HasProgram, MainReturned
<1>8. CASE Out
  <2>1. pc = "out" /\ ending = "none" /\ pc' = "ended" /\ ending' = "exit" /\ UNCHANGED <<mem, params, pconfig, tconfig, tcs>>
    BY <1>8 DEF Out, EndsBy, AtfControl, AtfTyped, TypeOK
  <2> QED
    BY <1>0, <2>1, SameMemory DEF HasParams, HasProgram
<1>9. CASE UNCHANGED vars
  BY <1>0, <1>9, SameMemory DEF vars, HasParams, HasProgram, MainReturned
<1> QED
  BY <1>1, <1>2, <1>3, <1>4, <1>5, <1>6, <1>7, <1>8, <1>9 DEF Next, Ended

(***************************************************************************)
(* The invariant holds of every state of every program.                    *)
(***************************************************************************)
LEMMA AtfInvariant == Spec => [](AtfControl /\ AtfMemory)
<1>1. Init => AtfControl /\ AtfMemory
  <2> SUFFICES ASSUME Init PROVE AtfControl /\ AtfMemory
    OBVIOUS
  <2>1. IsSeq(pconfig) /\ IsSeq(tcs) /\ KeysUnique(pconfig) /\ Len(tcs) = 0
    BY EmptySeq DEF Init, IsSeq, KeysUnique
  <2>2. line \in CommandLines /\ optind \in 0 .. Len(line.options) /\ 0 <= Len(Cases)
    BY AtfAssumption, LenProperties DEF Init
  <2>3. AtfTyped
    <3>1. TypeOK
      <4>1. at \in 0 .. Len(tcs) /\ Len(tcs) <= Len(Cases)
        BY <2>1, <2>2 DEF Init
      <4>2. fail_count \in 0 .. MaxChecks
        BY AtfAssumption DEF Init
      <4> QED
        BY <2>2, <4>1, <4>2 DEF Init, TypeOK
    <3>2. params = [list |-> params.list, srcdir |-> params.srcdir, resfile |-> params.resfile,
                    tcname |-> params.tcname, part |-> params.part]
          /\ params.list \in BOOLEAN
      <4>1. PICK dir, file : params = [list |-> FALSE, srcdir |-> dir, resfile |-> file, tcname |-> "none", part |-> "body"]
        BY DEF Init
      <4> QED
        BY <4>1
    <3> QED
      BY <2>1, <2>2, <3>1, <3>2 DEF Init, AtfTyped
  <2>4. AtfStage /\ VerdictHonest /\ OneErrorOnFlight
    BY DEF Init, AtfStage, VerdictHonest, OneErrorOnFlight, Early, Late
  <2>5. AtfMemory
    BY DEF Init, AtfMemory, HasParams, HasProgram, MainReturned
  <2> QED
    BY <2>3, <2>4, <2>5 DEF AtfControl
<1>2. AtfControl /\ AtfMemory /\ [Next]_vars => (AtfControl /\ AtfMemory)'
  <2> SUFFICES ASSUME AtfControl, AtfMemory, [Next]_vars PROVE AtfControl' /\ AtfMemory'
    OBVIOUS
  <2>1. AtfControl'
    BY ParamsControl, AddTcControl, RunControl
  <2> QED
    BY <2>1, MemoryStep
<1> QED
  BY <1>1, <1>2, PTL DEF Spec

(***************************************************************************)
(* Whichever allocation fails, whatever is on the command line and         *)
(* wherever the program jumps out (atf.h, controlled_main and              *)
(* process_params): nothing is freed that is not allocated, nothing is     *)
(* lost that is not known to be, and no error is raised while another is   *)
(* on flight, save after a head that dropped one.                          *)
(***************************************************************************)
THEOREM FailuresAreContained == Spec => []FailuresContained
<1>1. AtfControl /\ AtfMemory => FailuresContained
  BY DEF AtfControl, AtfTyped, AtfMemory, FailuresContained, MemorySafe
<1> QED
  BY <1>1, AtfInvariant, PTL

(***************************************************************************)
(* The exit status of a program is 0 exactly when all its cases returned   *)
(* and no check of theirs failed, or its list was asked for.               *)
(***************************************************************************)
THEOREM VerdictIsHonest == Spec => []VerdictHonest
<1>1. AtfControl => VerdictHonest
  BY DEF AtfControl
<1> QED
  BY <1>1, AtfInvariant, PTL

----------------------------------------------------------------------------
(***************************************************************************)
(* The paths of atf.h.  Names is a recursive function, and what holds of   *)
(* it for every string is proved by induction on the number of tokens      *)
(* seen: the numbers it holds for contain 0 and, with every n, n + 1.      *)
(***************************************************************************)
LEMMA SetInduction ==
  ASSUME NEW S, 0 \in S, \A n \in Nat : n \in S => n + 1 \in S
  PROVE  Nat \subseteq S
<1> DEFINE T == {n \in Nat : n \notin S}
<1> SUFFICES ASSUME T # {} PROVE FALSE
  OBVIOUS
<1> DEFINE R == OpToRel(<, Nat)
<1>1. IsWellFoundedOn(R, Nat)
  BY NatLessThanWellFounded, Zenon
<1> HIDE DEF R
<1>2. PICK n \in T : \A m \in T : ~(<<m, n>> \in R)
  <2>1. T \subseteq Nat
    OBVIOUS
  <2> HIDE DEF T
  <2> QED
   BY <1>1, <2>1, WFMin
<1>3. \A m \in T : ~(m < n)
  BY <1>2, Zenon DEF R, OpToRel
<1>4. n # 0 /\ n - 1 \in Nat /\ n - 1 < n /\ (n - 1) + 1 = n
  OBVIOUS
<1>5. n - 1 \in S
  BY <1>3, <1>4
<1> QED
  BY <1>4, <1>5

NamesUpTo(p, f) ==
  f = [i \in 0 .. Len(p) |->
         IF i = 0 THEN <<>> ELSE IF p[i] = Slash THEN f[i - 1] ELSE Append(f[i - 1], p[i])]

LEMMA NamesAgree ==
  ASSUME NEW S, NEW p \in Seq(S), NEW q \in Seq(S), NEW f, NEW g, NamesUpTo(p, f), NamesUpTo(q, g),
         NEW n \in Nat, n <= Len(p), n <= Len(q), \A i \in 1 .. n : p[i] = q[i]
  PROVE  f[n] = g[n]
<1> DEFINE I == {i \in Nat : i <= n => f[i] = g[i]}
<1>0. Len(p) \in Nat /\ Len(q) \in Nat
  OBVIOUS
<1>1. 0 \in I
  BY <1>0 DEF NamesUpTo
<1>2. ASSUME NEW i \in Nat, i \in I PROVE i + 1 \in I
  <2> SUFFICES ASSUME i + 1 <= n PROVE f[i + 1] = g[i + 1]
    OBVIOUS
  <2>1. f[i] = g[i] /\ i + 1 \in 1 .. n /\ (i + 1) - 1 = i /\ i + 1 # 0
    BY <1>2
  <2>2. i + 1 \in 0 .. Len(p) /\ i + 1 \in 0 .. Len(q)
    BY <1>0, <2>1
  <2>3. f[i + 1] = IF p[i + 1] = Slash THEN f[i] ELSE Append(f[i], p[i + 1])
    BY <2>1, <2>2 DEF NamesUpTo
  <2>4. g[i + 1] = IF q[i + 1] = Slash THEN g[i] ELSE Append(g[i], q[i + 1])
    BY <2>1, <2>2 DEF NamesUpTo
  <2>5. p[i + 1] = q[i + 1]
    BY <2>1
  <2> QED
    BY <2>1, <2>3, <2>4, <2>5
<1> HIDE DEF I
<1>3. n \in I
  BY <1>1, <1>2, SetInduction
<1> QED
  BY <1>3 DEF I

LEMMA NamesExist ==
  ASSUME NEW S, NEW p \in Seq(S)
  PROVE  \E f \in [0 .. Len(p) -> Seq(S)] : NamesUpTo(p, f)
<1> DEFINE I == {n \in Nat : \A q \in Seq(S) : Len(q) = n => \E f \in [0 .. n -> Seq(S)] : NamesUpTo(q, f)}
<1>1. 0 \in I
  <2> SUFFICES ASSUME NEW q \in Seq(S), Len(q) = 0 PROVE \E f \in [0 .. 0 -> Seq(S)] : NamesUpTo(q, f)
    OBVIOUS
  <2> DEFINE f == [i \in 0 .. 0 |-> <<>>]
  <2>1. f \in [0 .. 0 -> Seq(S)]
    OBVIOUS
  <2>2. NamesUpTo(q, f)
    BY DEF NamesUpTo
  <2> QED
    BY <2>1, <2>2
<1>2. ASSUME NEW n \in Nat, n \in I PROVE n + 1 \in I
  <2> SUFFICES ASSUME NEW q \in Seq(S), Len(q) = n + 1
               PROVE \E f \in [0 .. n + 1 -> Seq(S)] : NamesUpTo(q, f)
    OBVIOUS
  <2> DEFINE r == SubSeq(q, 1, n)
             t == q[n + 1]
  <2>1. r \in Seq(S) /\ Len(r) = n /\ t \in S /\ \A i \in 1 .. n : r[i] = q[i]
    OBVIOUS
  <2> HIDE DEF r
  <2>2. PICK g \in [0 .. n -> Seq(S)] : NamesUpTo(r, g)
    BY <1>2, <2>1
  <2> DEFINE last == IF t = Slash THEN g[n] ELSE Append(g[n], t)
             f == [i \in 0 .. n + 1 |-> IF i = n + 1 THEN last ELSE g[i]]
  <2>3. last \in Seq(S)
    BY <2>1, <2>2
  <2> HIDE DEF t
  <2>4. f \in [0 .. n + 1 -> Seq(S)]
    BY <2>2, <2>3
  <2>5. ASSUME NEW i \in 0 .. n + 1
        PROVE f[i] = IF i = 0 THEN <<>> ELSE IF q[i] = Slash THEN f[i - 1] ELSE Append(f[i - 1], q[i])
    <3>1. CASE i = n + 1
      <4>1. i # 0 /\ i - 1 = n /\ f[n] = g[n] /\ f[i] = last /\ q[i] = t
        BY <3>1 DEF t
      <4> QED
        BY <4>1
    <3>2. CASE i # n + 1
      <4>1. i \in 0 .. n /\ f[i] = g[i] /\ (i # 0 => i - 1 \in 0 .. n /\ f[i - 1] = g[i - 1] /\ r[i] = q[i])
        BY <2>1, <3>2
      <4>2. g[i] = IF i = 0 THEN <<>> ELSE IF r[i] = Slash THEN g[i - 1] ELSE Append(g[i - 1], r[i])
        BY <2>1, <2>2, <4>1 DEF NamesUpTo
      <4> QED
        BY <4>1, <4>2
    <3> QED
      BY <3>1, <3>2
  <2> HIDE DEF last
  <2>6. f = [i \in 0 .. Len(q) |-> IF i = 0 THEN <<>> ELSE IF q[i] = Slash THEN f[i - 1] ELSE Append(f[i - 1], q[i])]
    BY <2>5
  <2> HIDE DEF f
  <2> QED
    BY <2>4, <2>6 DEF NamesUpTo
<1> HIDE DEF I
<1>3. Len(p) \in I
  BY <1>1, <1>2, SetInduction
<1> QED
  BY <1>3 DEF I

LEMMA NamesIs ==
  ASSUME NEW S, NEW p \in Seq(S)
  PROVE  Names(p) \in Seq(S) /\ \E f : NamesUpTo(p, f) /\ Names(p) = f[Len(p)]
<1>1. PICK f \in [0 .. Len(p) -> Seq(S)] : NamesUpTo(p, f)
  BY NamesExist
<1> DEFINE g == CHOOSE h : NamesUpTo(p, h)
<1>2. NamesUpTo(p, g)
  BY <1>1
<1>3. Names(p) = g[Len(p)]
  BY DEF Names, NamesUpTo
<1> HIDE DEF g
<1>4. Len(p) \in Nat /\ Len(p) <= Len(p) /\ Len(p) \in 0 .. Len(p)
  OBVIOUS
<1>5. f[Len(p)] = g[Len(p)]
  BY <1>1, <1>2, <1>4, NamesAgree
<1> QED
  BY <1>1, <1>2, <1>3, <1>4, <1>5

LEMMA NamesEmpty == Names(<<>>) = <<>>
<1>1. <<>> \in Seq({}) /\ Len(<<>>) = 0
  OBVIOUS
<1>2. PICK f : NamesUpTo(<<>>, f) /\ Names(<<>>) = f[0]
  BY <1>1, NamesIs
<1> QED
  BY <1>1, <1>2 DEF NamesUpTo

LEMMA NamesAppend ==
  ASSUME NEW S, NEW p \in Seq(S), NEW t \in S
  PROVE  Names(Append(p, t)) = IF t = Slash THEN Names(p) ELSE Append(Names(p), t)
<1> DEFINE q == Append(p, t)
           n == Len(p)
<1>1. q \in Seq(S) /\ Len(q) = n + 1 /\ n \in Nat /\ q[n + 1] = t /\ \A i \in 1 .. n : p[i] = q[i]
  OBVIOUS
<1> HIDE DEF q
<1>2. PICK f : NamesUpTo(p, f) /\ Names(p) = f[n]
  BY NamesIs
<1>3. PICK g : NamesUpTo(q, g) /\ Names(q) = g[n + 1]
  BY <1>1, NamesIs
<1>4. n <= Len(p) /\ n <= Len(q) /\ n + 1 # 0 /\ (n + 1) - 1 = n /\ n + 1 \in 0 .. Len(q)
  BY <1>1
<1>5. f[n] = g[n]
  BY <1>1, <1>2, <1>3, <1>4, NamesAgree
<1>6. g[n + 1] = IF q[n + 1] = Slash THEN g[n] ELSE Append(g[n], q[n + 1])
  BY <1>3, <1>4 DEF NamesUpTo
<1> QED
  BY <1>1, <1>2, <1>3, <1>5, <1>6 DEF q

(***************************************************************************)
(* The names of two strings, one after the other; and of names joined.     *)
(***************************************************************************)
LEMMA NamesTyped ==
  ASSUME NEW S, NEW p \in Seq(S)
  PROVE  Names(p) \in Seq(S \ {Slash})
<1> DEFINE I == {n \in Nat : \A q \in Seq(S) : Len(q) = n => Names(q) \in Seq(S \ {Slash})}
<1>1. 0 \in I
  <2> SUFFICES ASSUME NEW q \in Seq(S), Len(q) = 0 PROVE Names(q) \in Seq(S \ {Slash})
    OBVIOUS
  <2>1. q = <<>> /\ <<>> \in Seq(S \ {Slash})
    OBVIOUS
  <2> QED
    BY <2>1, NamesEmpty
<1>2. ASSUME NEW n \in Nat, n \in I PROVE n + 1 \in I
  <2> SUFFICES ASSUME NEW q \in Seq(S), Len(q) = n + 1 PROVE Names(q) \in Seq(S \ {Slash})
    OBVIOUS
  <2> DEFINE r == SubSeq(q, 1, n)
             t == q[n + 1]
  <2>1. r \in Seq(S) /\ Len(r) = n /\ t \in S /\ q = Append(r, t)
    OBVIOUS
  <2> HIDE DEF r, t
  <2>2. Names(r) \in Seq(S \ {Slash})
    BY <1>2, <2>1
  <2>3. Names(q) = IF t = Slash THEN Names(r) ELSE Append(Names(r), t)
    BY <2>1, NamesAppend
  <2> QED
    BY <2>1, <2>2, <2>3
<1> HIDE DEF I
<1>3. Len(p) \in I
  BY <1>1, <1>2, SetInduction
<1> QED
  BY <1>3 DEF I

LEMMA ConcatStep ==
  ASSUME NEW S, NEW p \in Seq(S), NEW r \in Seq(S), NEW t \in S, Names(p \o r) = Names(p) \o Names(r)
  PROVE  Names(p \o Append(r, t)) = Names(p) \o Names(Append(r, t))
<1>1. ASSUME NEW q \in Seq(S) PROVE Names(q \o <<t>>) = IF t = Slash THEN Names(q) ELSE Names(q) \o <<t>>
  <2>1. Names(Append(q, t)) = IF t = Slash THEN Names(q) ELSE Append(Names(q), t)
    BY NamesAppend
  <2>2. Names(q) \in Seq(S) /\ Append(q, t) = q \o <<t>>
    BY NamesIs, AppendIsConcat
  <2>3. Append(Names(q), t) = Names(q) \o <<t>>
    BY <2>2, AppendIsConcat
  <2> QED
    BY <2>1, <2>2, <2>3
<1>2. <<t>> \in Seq(S) /\ Append(r, t) = r \o <<t>> /\ p \o r \in Seq(S)
  BY AppendIsConcat
<1>3. p \o Append(r, t) = (p \o r) \o <<t>>
  BY <1>2, ConcatAssociative
<1>4. Names(p \o Append(r, t)) = IF t = Slash THEN Names(p \o r) ELSE Names(p \o r) \o <<t>>
  BY <1>1, <1>2, <1>3
<1>5. Names(Append(r, t)) = IF t = Slash THEN Names(r) ELSE Names(r) \o <<t>>
  BY <1>1, <1>2
<1>6. Names(p) \in Seq(S) /\ Names(r) \in Seq(S)
  BY NamesIs
<1>7. (Names(p) \o Names(r)) \o <<t>> = Names(p) \o (Names(r) \o <<t>>)
  BY <1>2, <1>6, ConcatAssociative
<1>8. CASE t = Slash
  BY <1>4, <1>5, <1>8
<1>9. CASE t # Slash
  BY <1>4, <1>5, <1>7, <1>9
<1> QED
  BY <1>8, <1>9

LEMMA NamesConcat ==
  ASSUME NEW S, NEW p \in Seq(S), NEW q \in Seq(S)
  PROVE  Names(p \o q) = Names(p) \o Names(q)
<1> DEFINE I == {n \in Nat : \A s \in Seq(S) : Len(s) = n => Names(p \o s) = Names(p) \o Names(s)}
<1>0. Names(p) \in Seq(S)
  BY NamesIs
<1>1. 0 \in I
  <2> SUFFICES ASSUME NEW s \in Seq(S), Len(s) = 0 PROVE Names(p \o s) = Names(p) \o Names(s)
    OBVIOUS
  <2>1. s = <<>> /\ p \o s = p
    OBVIOUS
  <2> QED
    BY <1>0, <2>1, NamesEmpty
<1>2. ASSUME NEW n \in Nat, n \in I PROVE n + 1 \in I
  <2> SUFFICES ASSUME NEW s \in Seq(S), Len(s) = n + 1 PROVE Names(p \o s) = Names(p) \o Names(s)
    OBVIOUS
  <2> DEFINE r == SubSeq(s, 1, n)
             t == s[n + 1]
  <2>1. r \in Seq(S) /\ Len(r) = n /\ t \in S /\ s = Append(r, t)
    OBVIOUS
  <2> HIDE DEF r, t
  <2>2. Names(p \o r) = Names(p) \o Names(r)
    BY <1>2, <2>1
  <2> QED
    BY <2>1, <2>2, ConcatStep
<1> HIDE DEF I
<1>3. Len(q) \in I
  BY <1>1, <1>2, SetInduction
<1> QED
  BY <1>3 DEF I

\* What a normalized path is put together from.
LEMMA JoinedAppend ==
  ASSUME NEW S, Slash \in S, NEW ns \in Seq(S), NEW t \in S
  PROVE  /\ Joined(ns) \in Seq(S) /\ Joined(<<>>) = <<>>
         /\ Joined(Append(ns, t)) = IF ns = <<>> THEN <<t>> ELSE Joined(ns) \o <<Slash, t>>
<1> DEFINE n == Len(ns)
           more == Append(ns, t)
<1>0. n \in Nat /\ more \in Seq(S) /\ Len(more) = n + 1 /\ more[n + 1] = t /\ \A i \in 1 .. n : more[i] = ns[i] /\ ns[i] \in S
  OBVIOUS
<1>00. ns = <<>> <=> n = 0
  OBVIOUS
<1> HIDE DEF more, n
<1>9. n \in Nat
  BY <1>0
<1>1. ASSUME NEW j \in 1 .. 2 * n - 1, j % 2 # 0 PROVE (j + 1) \div 2 \in 1 .. n
  BY <1>0
<1>2. Joined(ns) = [j \in 1 .. 2 * n - 1 |-> IF j % 2 = 0 THEN Slash ELSE ns[(j + 1) \div 2]]
  BY DEF Joined, n
<1>3. \A j \in 1 .. 2 * n - 1 : Joined(ns)[j] \in S
  BY <1>0, <1>1, <1>2
<1>4. Joined(ns) \in Seq(S) /\ (n # 0 => Len(Joined(ns)) = 2 * n - 1)
  BY <1>0, <1>2, <1>3
<1>5. Joined(<<>>) = <<>>
  BY DEF Joined
<1>6. Joined(more) = [j \in 1 .. 2 * n + 1 |-> IF j % 2 = 0 THEN Slash ELSE more[(j + 1) \div 2]]
  <2>1. 2 * (n + 1) - 1 = 2 * n + 1
    BY <1>0
  <2> QED
    BY <1>0, <2>1 DEF Joined
<1>7. CASE n = 0
  <2>1. Joined(more) = [j \in 1 .. 1 |-> t]
    BY <1>0, <1>6, <1>7
  <2> QED
    BY <1>00, <1>4, <1>5, <1>7, <2>1 DEF more
<1>8. CASE n # 0
  <2> DEFINE long == Joined(ns) \o <<Slash, t>>
             J == Joined(ns)
  <2>1. J \in Seq(S) /\ Len(J) = 2 * n - 1
    BY <1>4, <1>8
  <2> HIDE DEF J
  <2> DEFINE lon == J \o <<Slash, t>>
  <2>2. Len(lon) = 2 * n + 1 /\ lon \in Seq(S)
    BY <1>0, <2>1
  <2>3. ASSUME NEW j \in 1 .. 2 * n + 1
        PROVE lon[j] = IF j % 2 = 0 THEN Slash ELSE more[(j + 1) \div 2]
    <3>1. CASE j <= 2 * n - 1
      <4>1. lon[j] = J[j] /\ j \in 1 .. 2 * n - 1
        BY <1>0, <2>1, <3>1
      <4> QED
        BY <1>0, <1>1, <1>2, <4>1 DEF J
    <3>2. CASE j = 2 * n
      <4>1. lon[j] = Slash /\ j % 2 = 0
        BY <1>0, <2>1, <3>2
      <4> QED
        BY <4>1
    <3>3. CASE j = 2 * n + 1
      <4>1. lon[j] = t
        BY <1>0, <2>1, <3>3
      <4>2. j % 2 # 0 /\ (j + 1) \div 2 = n + 1
        BY <1>0, <3>3
      <4> QED
        BY <1>0, <4>1, <4>2
    <3>4. j <= 2 * n - 1 \/ j = 2 * n \/ j = 2 * n + 1
      BY <1>9
    <3> QED
      BY <3>1, <3>2, <3>3, <3>4
  <2>4. lon = [j \in 1 .. 2 * n + 1 |-> lon[j]]
    BY <2>2
  <2> HIDE DEF lon
  <2>5. Joined(more) = lon
    BY <1>6, <2>3, <2>4
  <2> QED
    BY <1>00, <1>4, <1>5, <1>8, <2>5 DEF more, J, lon
<1> QED
  BY <1>7, <1>8

LEMMA NamesJoined ==
  ASSUME NEW S, NEW ns \in Seq(S \ {Slash})
  PROVE  Names(Joined(ns)) = ns
<1> DEFINE T == S \cup {Slash}
           I == {n \in Nat : \A s \in Seq(S \ {Slash}) : Len(s) = n => Names(Joined(s)) = s}
<1>1. 0 \in I
  <2> SUFFICES ASSUME NEW s \in Seq(S \ {Slash}), Len(s) = 0 PROVE Names(Joined(s)) = s
    OBVIOUS
  <2>1. s = <<>> /\ s \in Seq(T)
    OBVIOUS
  <2> QED
    BY <2>1, NamesEmpty, JoinedAppend
<1>2. ASSUME NEW n \in Nat, n \in I PROVE n + 1 \in I
  <2> SUFFICES ASSUME NEW s \in Seq(S \ {Slash}), Len(s) = n + 1 PROVE Names(Joined(s)) = s
    OBVIOUS
  <2> DEFINE r == SubSeq(s, 1, n)
             t == s[n + 1]
  <2>1. r \in Seq(S \ {Slash}) /\ Len(r) = n /\ t \in S /\ t # Slash /\ s = Append(r, t) /\ r \in Seq(T) /\ t \in T
        /\ Slash \in T
    OBVIOUS
  <2> HIDE DEF r, t, T
  <2>2. Names(Joined(r)) = r
    BY <1>2, <2>1
  <2>3. Joined(r) \in Seq(T) /\ Joined(s) = IF r = <<>> THEN <<t>> ELSE Joined(r) \o <<Slash, t>>
    BY <2>1, JoinedAppend
  <2>4. CASE r = <<>>
    <3>1. Joined(s) = Append(<<>>, t) /\ <<>> \in Seq(T)
      BY <2>3, <2>4
    <3> QED
      BY <2>1, <2>4, <3>1, NamesAppend, NamesEmpty
  <2>5. CASE r # <<>>
    <3>1. Joined(s) = Append(Append(Joined(r), Slash), t) /\ Append(Joined(r), Slash) \in Seq(T)
      BY <2>1, <2>3, <2>5
    <3>2. Names(Append(Joined(r), Slash)) = r
      BY <2>1, <2>2, <2>3, NamesAppend
    <3>3. Names(Joined(s)) = Append(r, t)
      BY <2>1, <3>1, <3>2, NamesAppend
    <3> QED
      BY <2>1, <3>3
  <2> QED
    BY <2>4, <2>5
<1> HIDE DEF I
<1>3. Len(ns) \in I
  BY <1>1, <1>2, SetInduction
<1> QED
  BY <1>3 DEF I

(***************************************************************************)
(* Every path the program makes is normal: one slash in front or none, then *)
(* its names with a single slash between them.                             *)
(***************************************************************************)
Normal(absolute, ns) == (IF absolute THEN <<Slash>> ELSE <<>>) \o Joined(ns)

LEMMA LastOf ==
  ASSUME NEW S, NEW s \in Seq(S), s # <<>>
  PROVE  /\ Len(s) \in Nat \ {0} /\ Front(s) \in Seq(S) /\ Len(Front(s)) = Len(s) - 1 /\ s[Len(s)] \in S
         /\ s = Append(Front(s), s[Len(s)]) /\ (Front(s) # <<>> => Front(s)[1] = s[1])
         /\ (Len(s) = 1 <=> Front(s) = <<>>)
<1>1. Len(s) \in Nat \ {0}
  OBVIOUS
<1>2. /\ SubSeq(s, 1, Len(s) - 1) \in Seq(S) /\ Len(SubSeq(s, 1, Len(s) - 1)) = Len(s) - 1
      /\ \A i \in 1 .. Len(s) - 1 : SubSeq(s, 1, Len(s) - 1)[i] = s[i]
  <2>1. 1 \in 1 .. Len(s) + 1 /\ Len(s) - 1 \in 1 - 1 .. Len(s) /\ (Len(s) - 1) - 1 + 1 = Len(s) - 1
    BY <1>1
  <2>2. SubSeq(s, 1, Len(s) - 1) \in Seq(S) /\ Len(SubSeq(s, 1, Len(s) - 1)) = Len(s) - 1
    BY <1>1, <2>1
  <2> QED
    BY <1>1, <2>1, <2>2
<1>3. s[Len(s)] \in S
  BY <1>1
<1> DEFINE f == SubSeq(s, 1, Len(s) - 1)
<1>4. s = Append(f, s[Len(s)])
  BY <1>1, <1>2, <1>3
<1>5. f = <<>> <=> Len(s) = 1
  <2>1. f = <<>> <=> Len(f) = 0
    BY <1>2, EmptySeq
  <2> HIDE DEF f
  <2> QED
    BY <1>1, <1>2, <2>1 DEF f
<1>6. f # <<>> => f[1] = s[1]
  BY <1>1, <1>2, <1>5
<1> QED
  BY <1>1, <1>2, <1>3, <1>4, <1>5, <1>6 DEF Front

LEMMA NamesEnds ==
  ASSUME NEW S, NEW p \in Seq(S), p # <<>>
  PROVE  /\ p[1] # Slash => Names(p) # <<>>
         /\ p[Len(p)] # Slash => Names(p) = Append(Names(Front(p)), p[Len(p)])
<1>1. Names(p) = IF p[Len(p)] = Slash THEN Names(Front(p)) ELSE Append(Names(Front(p)), p[Len(p)])
  <2>1. Front(p) \in Seq(S) /\ p[Len(p)] \in S /\ p = Append(Front(p), p[Len(p)])
    BY LastOf
  <2> HIDE DEF Front
  <2>2. Names(Append(Front(p), p[Len(p)])) =
          IF p[Len(p)] = Slash THEN Names(Front(p)) ELSE Append(Names(Front(p)), p[Len(p)])
    BY <2>1, NamesAppend
  <2> QED
    BY <2>1, <2>2
<1>2. ASSUME p[1] # Slash PROVE Names(p) # <<>>
  <2> DEFINE a == <<p[1]>>
  <2>1. a \in Seq(S) /\ Tail(p) \in Seq(S) /\ p = a \o Tail(p) /\ p[1] \in S
    OBVIOUS
  <2>2. a = Append(<<>>, p[1]) /\ <<>> \in Seq(S)
    OBVIOUS
  <2>3. Names(a) = Append(<<>>, p[1])
    BY <1>2, <2>1, <2>2, NamesAppend, NamesEmpty
  <2>4. Names(a) = <<p[1]>>
    BY <2>3
  <2> HIDE DEF a
  <2>5. Names(p) = Names(a) \o Names(Tail(p))
    BY <2>1, NamesConcat
  <2>6. Names(a) \in Seq(S) /\ Names(Tail(p)) \in Seq(S)
    BY <2>1, NamesIs
  <2>7. Names(a) # <<>>
    BY <2>4
  <2> QED
    BY <2>5, <2>6, <2>7, ConcatEqualIffEmpty
<1> QED
  BY <1>1, <1>2

LEMMA NormalIs ==
  ASSUME NEW S, Slash \in S, NEW absolute \in BOOLEAN, NEW ns \in Seq(S \ {Slash}), absolute \/ ns # <<>>
  PROVE  LET p == Normal(absolute, ns) IN
         p \in Seq(S) /\ p # <<>> /\ (p[1] = Slash <=> absolute) /\ Names(p) = ns
<1> DEFINE J == Joined(ns)
           L == IF absolute THEN <<Slash>> ELSE <<>>
           p == L \o J
<1>1. ns \in Seq(S)
  BY SeqMonotonic
<1>2. J \in Seq(S)
  BY <1>1, JoinedAppend
<1>3. L \in Seq(S)
  OBVIOUS
<1>4. p \in Seq(S)
  BY <1>2, <1>3
<1>5. Names(L) = <<>>
  <2>1. <<Slash>> = Append(<<>>, Slash) /\ <<>> \in Seq(S)
    OBVIOUS
  <2> QED
    BY <2>1, NamesEmpty, NamesAppend
<1>6. Names(J) = ns
  BY NamesJoined
<1> HIDE DEF J, L
<1>7. Names(p) = <<>> \o ns
  BY <1>2, <1>3, <1>5, <1>6, NamesConcat
<1>8. Names(p) = ns
  BY <1>1, <1>7
<1>9. CASE absolute
  <2>1. p = <<Slash>> \o J
    BY <1>9 DEF L
  <2> HIDE DEF p
  <2>2. p # <<>> /\ p[1] = Slash
    BY <1>2, <2>1
  <2> QED
    BY <1>4, <1>8, <1>9, <2>2 DEF Normal, p, L, J
<1>10. CASE ~absolute
  <2>1. p = J
    BY <1>2, <1>10 DEF L
  <2>2. Len(ns) \in Nat \ {0} /\ ns[1] # Slash
    BY <1>10
  <2>3. 1 \in 1 .. 2 * Len(ns) - 1 /\ 1 % 2 # 0 /\ (1 + 1) \div 2 = 1
    BY <2>2
  <2>4. DOMAIN J = 1 .. 2 * Len(ns) - 1 /\ J[1] = ns[1]
    BY <2>3 DEF Joined, J
  <2>5. J # <<>>
    BY <2>3, <2>4
  <2> HIDE DEF p
  <2> QED
    BY <1>4, <1>8, <1>10, <2>1, <2>2, <2>4, <2>5 DEF Normal, p, L, J
<1> QED
  BY <1>9, <1>10

LEMMA MaxIs ==
  ASSUME NEW S \in SUBSET Nat, NEW m \in S, \A i \in S : i <= m
  PROVE  Max(S) = m
<1>1. m \in S /\ \A y \in S : m >= y
  OBVIOUS
<1>2. \A x \in S : (\A y \in S : x >= y) => x = m
  OBVIOUS
<1> QED
  BY <1>1, <1>2 DEF Max

LEMMA LastSlash ==
  ASSUME NEW S, Slash \in S, NEW p \in Seq(S), p # <<>>
  PROVE  LET n == Len(p) IN
         /\ p[n] = Slash => leaf_name(p) = <<>>
         /\ p[n] # Slash /\ n > 1 /\ p[n - 1] = Slash =>
              leaf_name(p) = <<p[n]>> /\ branch_path(p) = IF n = 2 THEN <<Slash>> ELSE SubSeq(p, 1, n - 2)
         /\ p[n] # Slash /\ n = 1 => branch_path(p) = <<".">>
<1> DEFINE n == Len(p)
           slashes == {i \in DOMAIN p : p[i] = Slash}
<1>0. n \in Nat \ {0} /\ DOMAIN p = 1 .. n
  OBVIOUS
<1> HIDE DEF n
<1>1. slashes \in SUBSET Nat /\ \A i \in slashes : i <= n
  BY <1>0
<1>2. rfind_ch(p) = IF slashes = {} THEN 0 ELSE Max(slashes)
  BY DEF rfind_ch
<1>3. leaf_name(p) = SubSeq(p, rfind_ch(p) + 1, n)
  BY <1>0 DEF leaf_name, init_substr, n
<1>4. CASE p[n] = Slash
  <2>1. n \in slashes
    BY <1>0, <1>4
  <2> HIDE DEF slashes
  <2>2. rfind_ch(p) = n
    BY <1>1, <1>2, <2>1, MaxIs
  <2>3. SubSeq(p, n + 1, n) = <<>>
    BY <1>0, SubSeqEmpty
  <2> QED
    BY <1>3, <1>4, <2>2, <2>3 DEF n
<1>5. CASE p[n] # Slash /\ n > 1 /\ p[n - 1] = Slash
  <2>1. n - 1 \in slashes /\ \A i \in slashes : i <= n - 1
    BY <1>0, <1>5
  <2> HIDE DEF slashes
  <2>2. rfind_ch(p) = n - 1
    BY <1>1, <1>2, <2>1, MaxIs
  <2>3. leaf_name(p) = <<p[n]>>
    <3>1. n \in 1 .. Len(p) /\ n \in n .. Len(p) /\ (n - 1) + 1 = n
      BY <1>0 DEF n
    <3>2. SubSeq(p, n, n) = <<p[n]>> \o SubSeq(p, n + 1, n)
      BY <3>1, SubSeqRecursiveFirst
    <3>3. SubSeq(p, n + 1, n) = <<>>
      BY <1>0, SubSeqEmpty
    <3>4. <<p[n]>> \o <<>> = <<p[n]>>
      OBVIOUS
    <3> QED
      BY <1>3, <2>2, <3>1, <3>2, <3>3, <3>4
  <2>4. branch_path(p) = IF n = 2 THEN <<Slash>> ELSE SubSeq(p, 1, n - 2)
    <3>1. CASE n = 2
      BY <2>2, <3>1 DEF branch_path
    <3>2. CASE n # 2
      <4>1. n - 1 # 0 /\ n - 1 # 1 /\ (n - 1) - 1 = n - 2 /\ ~(n - 2 > n)
        BY <1>0, <1>5, <3>2
      <4>2. branch_path(p) = init_substr(p, 1, n - 2)
        BY <2>2, <4>1 DEF branch_path
      <4> QED
        BY <3>2, <4>1, <4>2 DEF init_substr, n
    <3> QED
      BY <3>1, <3>2
  <2> QED
    BY <1>5, <2>3, <2>4 DEF n
<1>6. CASE p[n] # Slash /\ n = 1
  <2>1. slashes = {}
    BY <1>0, <1>6
  <2> QED
    BY <1>2, <1>6, <2>1 DEF branch_path, n
<1> QED
  BY <1>4, <1>5, <1>6 DEF n

\* The same for a path that is put together.
LEMMA LastName ==
  ASSUME NEW S, Slash \in S, NEW w \in Seq(S), NEW t \in S \ {Slash},
         NEW p, NEW ends, ends = <<Slash, t>>, p = w \o ends
  PROVE  leaf_name(p) = <<t>> /\ branch_path(p) = IF w = <<>> THEN <<Slash>> ELSE w
<1> DEFINE n == Len(p)
<1>1. /\ p \in Seq(S) /\ p # <<>> /\ Len(p) = Len(w) + 2 /\ Len(w) \in Nat /\ p[Len(w) + 2] = t /\ p[Len(w) + 1] = Slash
      /\ (Len(w) = 0 <=> w = <<>>)
  OBVIOUS
<1>2. SubSeq(p, 1, Len(w)) = w
  OBVIOUS
<1>3. n = Len(w) + 2 /\ n > 1 /\ n - 1 = Len(w) + 1 /\ n - 2 = Len(w) /\ (n = 2 <=> w = <<>>) /\ t # Slash
  BY <1>1
<1>4. leaf_name(p) = <<p[n]>> /\ branch_path(p) = IF n = 2 THEN <<Slash>> ELSE SubSeq(p, 1, n - 2)
  <2> HIDE DEF n
  <2>1. p[n] # Slash /\ n > 1 /\ p[n - 1] = Slash
    BY <1>1, <1>3
  <2> QED
    BY <1>1, <2>1, LastSlash DEF n
<1> HIDE DEF n
<1> QED
  BY <1>1, <1>2, <1>3, <1>4

LEMMA NamesOne ==
  ASSUME NEW S, NEW t \in S
  PROVE  Names(<<t>>) = IF t = Slash THEN <<>> ELSE <<t>>
<1> DEFINE e == <<>>
<1>1. e \in Seq(S) /\ Names(e) = e /\ Append(e, t) = <<t>>
  BY NamesEmpty
<1> HIDE DEF e
<1>2. Names(Append(e, t)) = IF t = Slash THEN e ELSE Append(e, t)
  BY <1>1, NamesAppend
<1> QED
  BY <1>1, <1>2 DEF e

(***************************************************************************)
(* What is left of a path when a last ".libs" is stripped: its last name,  *)
(* and nothing else, is cut off.  The pieces it is made of are kept        *)
(* opaque.                                                                 *)
(***************************************************************************)
One(t) == <<t>>
SlashAnd(t) == <<Slash, t>>
EndsIn(ns, ms, t) == ns = ms \o One(t)
SplitAt(p, w, r, ms, t) == p = w \o SlashAnd(t) /\ Names(w) = Names(r) \o ms
NameSeqs(S) == Seq(S \ {Slash})
WithoutLibs(names) == IF names # <<>> /\ names[Len(names)] = ".libs" THEN Front(names) ELSE names

LEMMA Pieces ==
  ASSUME NEW S, Slash \in S, NEW t \in S
  PROVE  /\ One(t) \in Seq(S) /\ One(t) # <<>> /\ SlashAnd(t) \in Seq(S) /\ One(Slash) \in Seq(S)
         /\ SlashAnd(t) = One(Slash) \o One(t)
         /\ Names(One(Slash)) = <<>>
         /\ t # Slash => Names(One(t)) = One(t) /\ Names(SlashAnd(t)) = One(t)
<1>1. One(t) \in Seq(S) /\ SlashAnd(t) \in Seq(S) /\ One(t) # <<>> /\ One(Slash) \in Seq(S) /\ SlashAnd(t) = One(Slash) \o One(t)
  BY DEF One, SlashAnd
<1>2. Names(One(t)) = (IF t = Slash THEN <<>> ELSE One(t)) /\ Names(One(Slash)) = <<>>
  BY NamesOne DEF One
<1>3. Names(One(Slash) \o One(t)) = Names(One(Slash)) \o Names(One(t))
  BY <1>1, NamesConcat
<1>4. t # Slash => <<>> \o One(t) = One(t)
  BY <1>1, ConcatEmptySeq
<1> QED
  BY <1>1, <1>2, <1>3, <1>4

LEMMA Associative ==
  ASSUME NEW S, NEW a, NEW b, NEW c, a \in Seq(S), b \in Seq(S), c \in Seq(S)
  PROVE  (a \o b) \o c = a \o (b \o c) /\ a \o b \in Seq(S) /\ b \o c \in Seq(S)
BY ConcatAssociative

LEMMA LastStep ==
  ASSUME NEW S, Slash \in S, NEW w, w \in Seq(S), NEW t, t \in S, t # Slash
  PROVE  /\ leaf_name(w \o SlashAnd(t)) = One(t)
         /\ branch_path(w \o SlashAnd(t)) = IF w = <<>> THEN One(Slash) ELSE w
         /\ Names(w \o SlashAnd(t)) = Names(w) \o One(t)
<1>1. /\ leaf_name(w \o SlashAnd(t)) = One(t)
      /\ branch_path(w \o SlashAnd(t)) = IF w = <<>> THEN One(Slash) ELSE w
  <2>1. PICK ends : ends = <<Slash, t>>
    OBVIOUS
  <2>2. PICK p : p = w \o ends
    OBVIOUS
  <2>3. leaf_name(p) = <<t>> /\ branch_path(p) = IF w = <<>> THEN <<Slash>> ELSE w
    BY <2>1, <2>2, LastName
  <2> QED
    BY <2>1, <2>2, <2>3 DEF One, SlashAnd
<1>2. Names(w \o SlashAnd(t)) = Names(w) \o One(t)
  <2>1. SlashAnd(t) \in Seq(S) /\ Names(SlashAnd(t)) = One(t)
    BY Pieces
  <2> QED
    BY <2>1, NamesConcat
<1> QED
  BY <1>1, <1>2

LEMMA JoinedStep ==
  ASSUME NEW S, Slash \in S, NEW ms, ms \in Seq(S), NEW t, t \in S
  PROVE  /\ Joined(ms) \in Seq(S) /\ Joined(<<>>) = <<>>
         /\ Joined(ms \o One(t)) = IF ms = <<>> THEN One(t) ELSE Joined(ms) \o SlashAnd(t)
<1>1. Append(ms, t) = ms \o One(t)
  BY AppendIsConcat DEF One
<1> QED
  BY <1>1, JoinedAppend DEF One, SlashAnd

LEMMA LastPart ==
  ASSUME NEW S, NEW o \in Seq(S), NEW t \in S
  PROVE  o \o One(t) # <<>> /\ Front(o \o One(t)) = o /\ (o \o One(t))[Len(o \o One(t))] = t
<1>1. /\ o \o <<t>> # <<>> /\ Len(o \o <<t>>) = Len(o) + 1 /\ (Len(o) + 1) - 1 = Len(o)
      /\ (o \o <<t>>)[Len(o) + 1] = t /\ SubSeq(o \o <<t>>, 1, Len(o)) = o
  OBVIOUS
<1> QED
  BY <1>1 DEF Front, One

LEMMA FrontLast ==
  ASSUME NEW S, NEW s, s \in Seq(S), s # <<>>
  PROVE  \E f \in Seq(S), t \in S : /\ s = f \o One(t) /\ f = Front(s) /\ t = s[Len(s)]
<1>1. Front(s) \in Seq(S) /\ s[Len(s)] \in S /\ s = Append(Front(s), s[Len(s)])
  BY LastOf
<1>2. Append(Front(s), s[Len(s)]) = Front(s) \o One(s[Len(s)])
  BY <1>1, AppendIsConcat DEF One
<1> QED
  BY <1>1, <1>2

LEMMA NormalSplit ==
  ASSUME NEW S, Slash \in S, NEW r, r \in Seq(S), NEW ms, ms \in Seq(S), NEW t, t \in S, t # Slash, Names(Joined(ms)) = ms
  PROVE  \E w \in Seq(S) : SplitAt((r \o One(Slash)) \o Joined(ms \o One(t)), w, r, ms, t)
<1> DEFINE lead == r \o One(Slash)
           J == Joined(ms)
<1>1. One(t) \in Seq(S) /\ SlashAnd(t) \in Seq(S) /\ One(Slash) \in Seq(S) /\ SlashAnd(t) = One(Slash) \o One(t)
  BY Pieces
<1>2. J \in Seq(S) /\ Joined(ms \o One(t)) = IF ms = <<>> THEN One(t) ELSE J \o SlashAnd(t)
  BY JoinedStep
<1>3. lead \in Seq(S) /\ Names(r) \in Seq(S)
  BY <1>1, NamesIs
<1>4. Names(lead) = Names(r)
  <2>1. Names(lead) = Names(r) \o Names(One(Slash))
    BY <1>1, NamesConcat
  <2>2. Names(One(Slash)) = <<>>
    BY Pieces
  <2>3. Names(r) \o <<>> = Names(r)
    BY <1>3, ConcatEmptySeq
  <2> QED
    BY <2>1, <2>2, <2>3
<1>5. CASE ms = <<>>
  <2>1. lead \o One(t) = r \o SlashAnd(t)
    BY <1>1, Associative
  <2>3. Names(r) \o <<>> = Names(r)
    BY <1>3, ConcatEmptySeq
  <2> QED
    BY <1>2, <1>5, <2>1, <2>3 DEF SplitAt
<1>6. CASE ms # <<>>
  <2> DEFINE w == lead \o J
  <2> HIDE DEF lead, J
  <2>1. w \in Seq(S) /\ lead \o (J \o SlashAnd(t)) = w \o SlashAnd(t)
    <3>1. lead \in Seq(S) /\ J \in Seq(S) /\ SlashAnd(t) \in Seq(S)
      BY <1>1, <1>2, <1>3
    <3>2. (lead \o J) \o SlashAnd(t) = lead \o (J \o SlashAnd(t)) /\ lead \o J \in Seq(S)
      BY ONLY <3>1, Associative
    <3> QED
      BY <3>2
  <2>2. Names(J) = ms
    BY DEF J
  <2>3. Names(w) = Names(r) \o ms
    BY <1>2, <1>3, <1>4, <2>2, NamesConcat
  <2> HIDE DEF w
  <2>4. lead \o Joined(ms \o One(t)) = w \o SlashAnd(t)
    BY <1>2, <1>6, <2>1
  <2> QED
    BY <2>1, <2>3, <2>4 DEF lead, SplitAt
<1> QED
  BY <1>5, <1>6

LEMMA NameSeqsAre ==
  ASSUME NEW S, Slash \in S, NEW ns, ns \in NameSeqs(S)
  PROVE  /\ ns \in Seq(S) /\ Names(Joined(ns)) = ns
         /\ ns # <<>> => \E ms, t : ms \in NameSeqs(S) /\ t \in S /\ t # Slash /\ EndsIn(ns, ms, t)
<1>1. ns \in Seq(S) /\ Names(Joined(ns)) = ns
  BY SeqMonotonic, NamesJoined DEF NameSeqs
<1>2. ASSUME ns # <<>> PROVE \E ms, t : ms \in NameSeqs(S) /\ t \in S /\ t # Slash /\ EndsIn(ns, ms, t)
  <2>1. PICK T : T = S \ {Slash}
    OBVIOUS
  <2>2. ns \in Seq(T)
    BY <2>1 DEF NameSeqs
  <2>3. \E f \in Seq(T), t \in T : ns = f \o One(t)
    BY ONLY <1>2, <2>2, FrontLast
  <2> QED
    BY <2>1, <2>3 DEF NameSeqs, EndsIn
<1> QED
  BY <1>1, <1>2

\* A path of directories r, a slash and names that are joined: without its last ".libs".
LEMMA StripNames ==
  ASSUME NEW S, Slash \in S, NEW r \in Seq(S), NEW ns \in NameSeqs(S), ns # <<>> \/ Names(r) = <<>>
  PROVE  Names(srcdir_strip_libtool((r \o One(Slash)) \o Joined(ns))) = WithoutLibs(Names(r) \o ns)
<1> DEFINE lead == r \o One(Slash)
           p == lead \o Joined(ns)
<1>1. Names(r) \in Seq(S) /\ One(Slash) \in Seq(S) /\ Names(One(Slash)) = <<>> /\ lead \in Seq(S)
  BY NamesIs, Pieces
<1>2. CASE ns = <<>>
  <2>1. Joined(ns) = <<>>
    BY <1>2, JoinedStep
  <2>2. p = lead
    BY <1>1, <2>1, ConcatEmptySeq
  <2>3. leaf_name(lead) = <<>>
    <3>1. lead # <<>> /\ lead[Len(lead)] = Slash
      BY <1>1, LastPart
    <3> HIDE DEF lead
    <3> QED
      BY <1>1, <3>1, LastSlash
  <2>4. srcdir_strip_libtool(p) = lead
    BY <2>2, <2>3 DEF srcdir_strip_libtool
  <2>5. Names(r) \o ns = <<>> /\ Names(r) \o Names(One(Slash)) = <<>>
    BY <1>1, <1>2, ConcatEmptySeq
  <2>6. Names(lead) = Names(r) \o Names(One(Slash))
    BY <1>1, NamesConcat
  <2> QED
    BY <2>4, <2>5, <2>6 DEF WithoutLibs
<1>3. CASE ns # <<>>
  <2>1. PICK ms, t : ms \in NameSeqs(S) /\ t \in S /\ t # Slash /\ EndsIn(ns, ms, t)
    BY <1>3, NameSeqsAre
  <2>2. ms \in Seq(S) /\ t \in S /\ t # Slash /\ Names(Joined(ms)) = ms
    BY <2>1, NameSeqsAre
  <2>20. ns = ms \o One(t)
    BY <2>1 DEF EndsIn
  <2>3. PICK w \in Seq(S) : SplitAt(p, w, r, ms, t)
    BY <2>2, <2>20, NormalSplit
  <2>30. p = w \o SlashAnd(t) /\ Names(w) = Names(r) \o ms
    BY <2>3 DEF SplitAt
  <2> HIDE DEF p
  <2>4. PICK o \in Seq(S) : o = Names(w)
    BY NamesIs
  <2>5. leaf_name(p) = One(t) /\ branch_path(p) = (IF w = <<>> THEN One(Slash) ELSE w) /\ Names(p) = o \o One(t)
    <3>1. /\ leaf_name(w \o SlashAnd(t)) = One(t)
          /\ branch_path(w \o SlashAnd(t)) = IF w = <<>> THEN One(Slash) ELSE w
          /\ Names(w \o SlashAnd(t)) = Names(w) \o One(t)
      BY <2>2, LastStep
    <3> QED
      BY <2>30, <2>4, <3>1
  <2>6. Names(branch_path(p)) = o
    BY <1>1, <2>4, <2>5, NamesEmpty
  <2>7. Names(r) \o ns = o \o One(t)
    <3>1. Names(r) \in Seq(S) /\ ms \in Seq(S) /\ One(t) \in Seq(S)
      BY <1>1, <2>2, Pieces
    <3>2. (Names(r) \o ms) \o One(t) = Names(r) \o (ms \o One(t))
      BY ONLY <3>1, Associative
    <3> QED
      BY <2>20, <2>30, <2>4, <3>2
  <2> DEFINE names == o \o One(t)
  <2>8. names # <<>> /\ Front(names) = o /\ names[Len(names)] = t
    BY <2>2, LastPart
  <2> HIDE DEF names
  <2>9. WithoutLibs(names) = IF t = ".libs" THEN o ELSE names
    BY <2>8 DEF WithoutLibs
  <2>10. srcdir_strip_libtool(p) = IF t = ".libs" THEN branch_path(p) ELSE p
    BY <2>5 DEF srcdir_strip_libtool, One
  <2> QED
    BY <2>5, <2>6, <2>7, <2>9, <2>10 DEF names, p
<1> QED
  BY <1>2, <1>3

(***************************************************************************)
(* The directory of the program's own name (argv0_to_dir).                 *)
(***************************************************************************)
DirGivenBy(a) == IF Slash \in Range(a) THEN Front(a) ELSE <<".">>

LEMMA BranchOfLast ==
  ASSUME NEW S, Slash \in S, NEW p, NEW w, w \in Seq(S), NEW t, t \in S, t # Slash, p = w \o SlashAnd(t)
  PROVE  branch_path(p) = IF w = <<>> THEN One(Slash) ELSE w
BY LastStep

LEMMA Lead ==
  ASSUME NEW S, Slash \in S, NEW absolute \in BOOLEAN, NEW ms, ms \in Seq(S)
  PROVE  /\ Normal(absolute, ms) = IF absolute THEN One(Slash) \o Joined(ms) ELSE Joined(ms)
         /\ Normal(absolute, ms) \in Seq(S)
<1>1. Joined(ms) \in Seq(S)
  BY JoinedStep
<1>2. <<>> \o Joined(ms) = Joined(ms)
  BY <1>1, ConcatEmptySeq
<1>3. One(Slash) \in Seq(S)
  BY Pieces
<1> QED
  BY <1>1, <1>2, <1>3 DEF Normal, One

\* A path of several names without its last one, and of one name below the root.
LEMMA NormalBranch ==
  ASSUME NEW S, Slash \in S, NEW absolute \in BOOLEAN, NEW ms, ms \in NameSeqs(S), NEW t, t \in S, t # Slash,
         absolute \/ ms # <<>>
  PROVE  branch_path(Normal(absolute, ms \o One(t))) = Normal(absolute, ms)
<1>1. ms \in Seq(S) /\ Names(Joined(ms)) = ms
  BY NameSeqsAre
<1>2. /\ One(t) \in Seq(S) /\ SlashAnd(t) \in Seq(S) /\ One(Slash) \in Seq(S)
      /\ SlashAnd(t) = One(Slash) \o One(t) /\ ms \o One(t) \in Seq(S)
  <2>1. /\ One(t) \in Seq(S) /\ SlashAnd(t) \in Seq(S) /\ One(Slash) \in Seq(S)
        /\ SlashAnd(t) = One(Slash) \o One(t)
    BY Pieces
  <2> QED
    BY <1>1, <2>1, Associative
<1>3. Joined(ms) \in Seq(S) /\ Joined(<<>>) = <<>> /\ Joined(ms \o One(t)) = IF ms = <<>> THEN One(t) ELSE Joined(ms) \o SlashAnd(t)
  BY <1>1, JoinedStep
<1>4. Normal(absolute, ms \o One(t)) = IF absolute THEN One(Slash) \o Joined(ms \o One(t)) ELSE Joined(ms \o One(t))
  BY <1>2, Lead
<1>5. Normal(absolute, ms) = (IF absolute THEN One(Slash) \o Joined(ms) ELSE Joined(ms)) /\ Normal(absolute, ms) \in Seq(S)
  BY <1>1, Lead
<1>6. CASE ms = <<>>
  <2>1. Normal(absolute, ms \o One(t)) = SlashAnd(t)
    BY <1>2, <1>3, <1>4, <1>6
  <2>2. PICK e : e = <<>>
    OBVIOUS
  <2>3. e \in Seq(S) /\ SlashAnd(t) = e \o SlashAnd(t)
    BY <1>2, <2>2, ConcatEmptySeq
  <2>4. branch_path(SlashAnd(t)) = IF e = <<>> THEN One(Slash) ELSE e
    <3>1. Slash \in S
      OBVIOUS
    <3>2. t \in S /\ t # Slash
      OBVIOUS
    <3> QED
      BY ONLY <2>3, <3>1, <3>2, BranchOfLast
  <2>5. Normal(absolute, ms) = One(Slash)
    BY <1>2, <1>3, <1>5, <1>6, ConcatEmptySeq
  <2> QED
    BY <2>1, <2>2, <2>4, <2>5
<1>7. CASE ms # <<>>
  <2>1. Normal(absolute, ms \o One(t)) = Normal(absolute, ms) \o SlashAnd(t)
    <3>1. (One(Slash) \o Joined(ms)) \o SlashAnd(t) = One(Slash) \o (Joined(ms) \o SlashAnd(t))
      <4>1. One(Slash) \in Seq(S) /\ Joined(ms) \in Seq(S) /\ SlashAnd(t) \in Seq(S)
        BY <1>2, <1>3
      <4> QED
        BY ONLY <4>1, Associative
    <3> QED
      BY <1>3, <1>4, <1>5, <1>7, <3>1
  <2>2. Normal(absolute, ms) # <<>>
    <3>1. PICK T : T = S \ {Slash}
      OBVIOUS
    <3>2. ms \in Seq(S \ {Slash})
      BY DEF NameSeqs
    <3> QED
      BY <1>7, <3>2, NormalIs
  <2>3. branch_path(Normal(absolute, ms) \o SlashAnd(t)) = IF Normal(absolute, ms) = <<>> THEN One(Slash) ELSE Normal(absolute, ms)
    BY <1>5, LastStep
  <2> QED
    BY <2>1, <2>2, <2>3
<1> QED
  BY <1>6, <1>7

LEMMA ArgvDir ==
  ASSUME NEW S, Slash \in S, "." \in S, NEW a \in Seq(S), a # <<>>, a[Len(a)] # Slash,
         \A i \in 1 .. Len(a) - 1 : Slash \in {a[i], a[i + 1]}
  PROVE  /\ DirGivenBy(a) \in Seq(S) /\ DirGivenBy(a) # <<>>
         /\ argv0_to_dir(a) = Normal(DirGivenBy(a)[1] = Slash, Names(DirGivenBy(a)))
<1> DEFINE g == DirGivenBy(a)
           t == a[Len(a)]
           absolute == a[1] = Slash
           f == Front(a)
           ms == Names(f)
<1>1. /\ Len(a) \in Nat \ {0} /\ f \in Seq(S) /\ t \in S /\ t # Slash /\ a = Append(f, t)
      /\ (f # <<>> => f[1] = a[1]) /\ (Len(a) = 1 <=> f = <<>>)
  BY LastOf
<1>2. Names(a) = ms \o One(t) /\ ms \in NameSeqs(S)
  <2>1. Names(a) = Append(ms, t)
    BY <1>1, NamesEnds
  <2>2. ms \in Seq(S)
    BY <1>1, NamesIs
  <2>3. ms \in NameSeqs(S)
    BY <1>1, NamesTyped DEF NameSeqs
  <2>4. Append(ms, t) = ms \o One(t)
    BY <1>1, <2>2, AppendIsConcat DEF One
  <2> QED
    BY <2>1, <2>3, <2>4
<1>3. Slash \in Range(a) <=> \E i \in 1 .. Len(a) : a[i] = Slash
  BY <1>1 DEF Range
<1>4. normalize(a) = Normal(absolute, ms \o One(t))
  BY <1>2 DEF normalize, Normal
<1>5. absolute \in BOOLEAN /\ t \in S /\ t # Slash /\ (ms # <<>> => f # <<>>)
  BY <1>1, NamesEmpty
<1>6. CASE absolute \/ ms # <<>>
  <2>1. f # <<>> /\ Slash \in Range(a)
    <3>1. CASE absolute
      BY <1>1, <1>3, <3>1
    <3>2. CASE ms # <<>>
      <4>1. f # <<>> /\ Len(a) - 1 \in Nat /\ 1 \in 1 .. Len(a) - 1 /\ 1 \in 1 .. Len(a) /\ 1 + 1 \in 1 .. Len(a)
        BY <1>1, <1>5, <3>2
      <4> QED
        BY <1>3, <4>1
    <3> QED
      BY <1>6, <3>1, <3>2
  <2>2. g = f /\ g[1] = a[1]
    BY <1>1, <2>1 DEF DirGivenBy
  <2>3. branch_path(Normal(absolute, ms \o One(t))) = Normal(absolute, ms)
    <3>1. Slash \in S /\ absolute \in BOOLEAN /\ ms \in NameSeqs(S) /\ t \in S /\ t # Slash
      BY <1>2, <1>5
    <3> HIDE DEF t, absolute, ms, f
    <3> QED
      BY ONLY <1>6, <3>1, NormalBranch
  <2> QED
    BY <1>1, <1>4, <2>1, <2>2, <2>3 DEF argv0_to_dir
<1>7. CASE ~absolute /\ ms = <<>>
  <2>1. f = <<>>
    BY <1>1, <1>7, NamesEnds
  <2>2. Len(a) = 1 /\ a[1] = t
    BY <1>1, <2>1
  <2>3. ~(Slash \in Range(a))
    BY <1>1, <1>3, <2>2
  <2>4. g = <<".">> /\ g \in Seq(S) /\ g # <<>> /\ g[1] # Slash
    BY <2>3 DEF Slash, DirGivenBy
  <2>5. normalize(a) = One(t)
    <3>1. ms \in Seq(S) /\ ms \o One(t) = One(t) /\ One(t) \in Seq(S)
      <4>1. One(t) \in Seq(S)
        BY <1>5, Pieces
      <4>2. <<>> \o One(t) = One(t) /\ <<>> \in Seq(S)
        BY <4>1, ConcatEmptySeq
      <4> QED
        BY <1>7, <4>1, <4>2
    <3>2. Joined(ms \o One(t)) = One(t)
      BY <1>5, <1>7, <3>1, JoinedStep
    <3> QED
      BY <1>4, <1>7, <3>1, <3>2, Lead
  <2>6. argv0_to_dir(a) = <<".">>
    <3>1. One(t) \in Seq(S) /\ One(t) # <<>> /\ Len(One(t)) = 1 /\ One(t)[1] # Slash
      BY <1>1 DEF One
    <3>2. branch_path(One(t)) = <<".">>
      BY <3>1, LastSlash
    <3> QED
      BY <2>5, <3>2 DEF argv0_to_dir
  <2>7. <<".">> = Append(<<>>, ".") /\ <<>> \in Seq(S) /\ "." # Slash
    BY DEF Slash
  <2>8. Names(g) = <<".">>
    BY <2>4, <2>7, NamesOne
  <2>9. Joined(<<".">>) = <<".">>
    BY <2>7, JoinedAppend
  <2>10. Normal(g[1] = Slash, Names(g)) = <<".">>
    BY <2>4, <2>8, <2>9 DEF Normal
  <2> QED
    BY <2>4, <2>6, <2>10
<1> QED
  BY <1>6, <1>7

(***************************************************************************)
(* handle_srcdir finds the directory that was given: absolute or below the *)
(* working directory, and without its ".libs".                             *)
(***************************************************************************)
LEMMA FoundNames ==
  ASSUME NEW S, Slash \in S, NEW cwd \in Seq(S), cwd # <<>>, NEW g \in Seq(S), g # <<>>,
         NEW d, d = Normal(g[1] = Slash, Names(g))
  PROVE  Names(srcdir_strip_libtool(IF is_absolute(d) THEN d ELSE to_absolute(d, cwd)))
           = WithoutLibs((IF g[1] = Slash THEN <<>> ELSE Names(cwd)) \o Names(g))
<1> DEFINE absolute == g[1] = Slash
           ns == Names(g)
<1>1. ns \in NameSeqs(S) /\ ns \in Seq(S) /\ absolute \in BOOLEAN /\ (absolute \/ ns # <<>>)
  BY NamesTyped, NamesIs, NamesEnds DEF NameSeqs
<1>2. d \in Seq(S) /\ d # <<>> /\ (d[1] = Slash <=> absolute) /\ Names(d) = ns
  <2>1. ns \in Seq(S \ {Slash})
    BY <1>1 DEF NameSeqs
  <2> HIDE DEF ns
  <2> QED
    BY <1>1, <2>1, NormalIs DEF ns
<1>3. d = IF absolute THEN One(Slash) \o Joined(ns) ELSE Joined(ns)
  BY <1>1, Lead
<1>4. is_absolute(d) <=> absolute
  BY <1>2 DEF is_absolute
<1>5. One(Slash) \in Seq(S)
  BY Pieces
<1>6. CASE absolute
  <2>0. <<>> \in Seq(S)
    OBVIOUS
  <2>1. PICK r \in Seq(S) : r = <<>>
    BY <2>0
  <2>2. r \o One(Slash) = One(Slash) /\ Names(r) = <<>>
    BY <1>5, <2>1, ConcatEmptySeq, NamesEmpty
  <2>3. d = (r \o One(Slash)) \o Joined(ns)
    BY <1>3, <1>6, <2>2
  <2>4. Names(srcdir_strip_libtool((r \o One(Slash)) \o Joined(ns))) = WithoutLibs(Names(r) \o ns)
    BY <1>1, <2>2, StripNames
  <2> QED
    BY <1>4, <1>6, <2>2, <2>3, <2>4
<1>7. CASE ~absolute
  <2>1. ns # <<>>
    BY <1>1, <1>7
  <2>2. normalize(d) = Joined(ns)
    <3>1. normalize(d) = Normal(FALSE, ns)
      BY <1>2, <1>7 DEF normalize, Normal
    <3> QED
      BY <1>1, <3>1, Lead
  <2>3. PICK r \in Seq(S) : r = normalize(cwd) /\ Names(r) = Names(cwd)
    <3>1. normalize(cwd) = Normal(cwd[1] = Slash, Names(cwd))
      BY DEF normalize, Normal
    <3>2. Names(cwd) \in Seq(S \ {Slash}) /\ (cwd[1] = Slash \/ Names(cwd) # <<>>) /\ (cwd[1] = Slash) \in BOOLEAN
      BY NamesTyped, NamesEnds
    <3> QED
      BY <3>1, <3>2, NormalIs
  <2>4. to_absolute(d, cwd) = (r \o One(Slash)) \o Joined(ns)
    BY <1>4, <1>7, <2>2, <2>3 DEF to_absolute, append_path, One
  <2>5. Names(srcdir_strip_libtool((r \o One(Slash)) \o Joined(ns))) = WithoutLibs(Names(r) \o ns)
    BY <1>1, <2>1, StripNames
  <2> QED
    BY <1>4, <1>7, <2>3, <2>4, <2>5
<1> QED
  BY <1>6, <1>7

----------------------------------------------------------------------------
(***************************************************************************)
(* Maps: what a copy through an array holds, and what an insertion changes. *)
(***************************************************************************)
CopyOf(m) == [i \in DOMAIN m |-> Entry(m[i].key, m[i].value, TRUE)]
InsertedUpTo(array, f) ==
  f = [i \in 0 .. Len(array) |->
         IF i = 0 THEN <<>> ELSE atf_map_insert(f[i - 1], array[i][1], array[i][2], TRUE)]

LEMMA CopyIs ==
  ASSUME NEW m, IsSeq(m), KeysUnique(m)
  PROVE  atf_map_init_charpp(atf_map_to_charpp(m)) = CopyOf(m)
<1> DEFINE n == Len(m)
           array == atf_map_to_charpp(m)
           C(i) == [j \in 1 .. i |-> Entry(m[j].key, m[j].value, TRUE)]
           g == [i \in 0 .. n |-> C(i)]
<1>1. n \in Nat /\ DOMAIN m = 1 .. n
  BY LenProperties DEF IsSeq
<1>2. Len(array) = n /\ \A i \in 1 .. n : array[i][1] = m[i].key /\ array[i][2] = m[i].value
  BY <1>1 DEF atf_map_to_charpp, Positions
<1> HIDE DEF n, array
<1>3. ASSUME NEW i \in 1 .. n PROVE C(i) = atf_map_insert(C(i - 1), array[i][1], array[i][2], TRUE)
  <2> DEFINE b == C(i - 1)
             e == Entry(m[i].key, m[i].value, TRUE)
  <2>1. i - 1 \in Nat /\ \A j \in 1 .. i - 1 : j \in 1 .. n /\ j # i
    BY <1>1
  <2>2. \A j \in 1 .. i - 1 : m[j].key # m[i].key
    BY <1>1, <2>1 DEF KeysUnique
  <2>3. \A j \in 1 .. i - 1 : b[j].key = m[j].key
    BY DEF Entry
  <2>4. DOMAIN b = 1 .. i - 1
    OBVIOUS
  <2>5. atf_map_find(b, m[i].key) = {}
    BY <2>2, <2>3, <2>4 DEF atf_map_find, Positions
  <2>6. atf_map_insert(b, m[i].key, m[i].value, TRUE) = Append(b, e)
    BY <2>5 DEF atf_map_insert
  <2> DEFINE T == {Entry(m[j].key, m[j].value, TRUE) : j \in 1 .. n}
  <2>7. b \in Seq(T) /\ Len(b) = i - 1 /\ e \in T
    <3>1. e \in T
      OBVIOUS
    <3>2. \A j \in 1 .. i - 1 : Entry(m[j].key, m[j].value, TRUE) \in T
      BY <2>1
    <3> HIDE DEF T
    <3>3. b = [j \in 1 .. i - 1 |-> b[j]] /\ \A j \in 1 .. i - 1 : b[j] \in T
      BY <3>2
    <3> HIDE DEF b
    <3>4. b \in [1 .. i - 1 -> T]
      BY <3>3
    <3> QED
      <4>1. b \in Seq(T)
        BY ONLY <2>1, <3>4
      <4>2. Len(b) = i - 1
        BY <2>1, <2>4, <4>1, LenProperties
      <4> QED
        BY <3>1, <4>1, <4>2
  <2>8. Append(b, e) = C(i)
    <3> HIDE DEF b, e, T
    <3>1. Append(b, e) \in Seq(T) /\ Len(Append(b, e)) = i
      BY <2>1, <2>7
    <3>2. \A j \in 1 .. i : Append(b, e)[j] = IF j = i THEN e ELSE b[j]
      BY <2>1, <2>7
    <3>3. \A j \in 1 .. i : Append(b, e)[j] = Entry(m[j].key, m[j].value, TRUE)
      <4>1. \A j \in 1 .. i : j # i => j \in 1 .. i - 1
        BY <1>1
      <4> QED
        BY <3>2, <4>1 DEF b, e
    <3> DEFINE a == Append(b, e)
    <3>4. a \in Seq(T) /\ Len(a) = i /\ \A j \in 1 .. i : a[j] = Entry(m[j].key, m[j].value, TRUE)
      BY <3>1, <3>3
    <3> HIDE DEF a
    <3>5. a = [j \in DOMAIN a |-> a[j]] /\ DOMAIN a = 1 .. i
      BY <3>4
    <3>6. a = C(i)
      BY <3>4, <3>5
    <3> QED
      BY <3>6 DEF a
  <2> QED
    BY <1>2, <2>6, <2>8
<1>4. InsertedUpTo(array, g)
  <2>1. \A i \in 0 .. n : i # 0 => i \in 1 .. n /\ i - 1 \in 0 .. n /\ g[i] = C(i) /\ g[i - 1] = C(i - 1)
    BY <1>1
  <2>2. g[0] = <<>>
    BY <1>1
  <2>3. \A i \in 0 .. n : g[i] = IF i = 0 THEN <<>> ELSE atf_map_insert(g[i - 1], array[i][1], array[i][2], TRUE)
    BY <1>3, <2>1, <2>2
  <2> QED
    BY <1>2, <2>3 DEF InsertedUpTo
<1> DEFINE f == CHOOSE h : InsertedUpTo(array, h)
<1>5. InsertedUpTo(array, f)
  BY <1>4
<1>6. atf_map_init_charpp(array) = f[Len(array)]
  BY DEF atf_map_init_charpp, InsertedUpTo
<1> HIDE DEF f
<1> DEFINE I == {i \in Nat : i <= n => f[i] = C(i)}
<1>7. 0 \in I
  BY <1>1, <1>2, <1>5 DEF InsertedUpTo
<1>8. ASSUME NEW i \in Nat, i \in I PROVE i + 1 \in I
  <2> SUFFICES ASSUME i + 1 <= n PROVE f[i + 1] = C(i + 1)
    OBVIOUS
  <2>1. f[i] = C(i) /\ i + 1 \in 1 .. n /\ i + 1 \in 0 .. n /\ (i + 1) - 1 = i /\ i + 1 # 0
    BY <1>1, <1>8
  <2> HIDE DEF C
  <2>2. f[i + 1] = atf_map_insert(f[i], array[i + 1][1], array[i + 1][2], TRUE)
    BY <1>2, <1>5, <2>1 DEF InsertedUpTo
  <2> QED
    BY <1>3, <2>1, <2>2
<1>9. f[n] = C(n)
  <2> HIDE DEF I
  <2>1. n \in I
    BY <1>1, <1>7, <1>8, SetInduction
  <2>2. n <= n
    BY <1>1
  <2> HIDE DEF C
  <2> QED
    BY <2>1, <2>2 DEF I
<1> QED
  BY <1>1, <1>2, <1>6, <1>9 DEF CopyOf, array

LEMMA InsertIs ==
  ASSUME NEW m, IsSeq(m), KeysUnique(m), NEW key, NEW value, NEW managed,
         NEW n, n = atf_map_insert(m, key, value, managed)
  PROVE  /\ \A j \in DOMAIN n : \/ n[j].key = key /\ n[j].value = value
                                \/ n[j].key # key /\ \E k \in DOMAIN m : m[k].key = n[j].key /\ m[k].value = n[j].value
         /\ \A k \in DOMAIN m : \E j \in DOMAIN n : n[j].key = m[k].key
         /\ \E j \in DOMAIN n : n[j].key = key
<1> DEFINE e == Entry(key, value, managed)
<1>1. CASE atf_map_find(m, key) = {}
  <2>0. n = Append(m, e)
    BY <1>1 DEF atf_map_insert
  <2>1. /\ Len(m) \in Nat /\ DOMAIN m = 1 .. Len(m)
        /\ DOMAIN n = 1 .. Len(m) + 1
        /\ \A i \in DOMAIN m : n[i] = m[i]
        /\ n[Len(m) + 1] = e
    BY <2>0, AppendKeeps
  <2>2. \A i \in DOMAIN m : m[i].key # key
    BY <1>1 DEF atf_map_find, Positions
  <2>3. e.key = key /\ e.value = value
    BY DEF Entry
  <2> HIDE DEF e
  <2>5. \A j \in DOMAIN n : j = Len(m) + 1 \/ j \in DOMAIN m
    BY <2>1
  <2>6. Len(m) + 1 \in DOMAIN n /\ \A k \in DOMAIN m : k \in DOMAIN n
    BY <2>1
  <2> QED
    BY <2>1, <2>2, <2>3, <2>5, <2>6
<1>2. CASE atf_map_find(m, key) # {}
  <2>1. PICK i \in DOMAIN m : /\ m[i].key = key
                              /\ n = Replaced(m, i, value, managed)
    BY <1>2 DEF atf_map_insert, atf_map_find, Positions
  <2>2. DOMAIN n = DOMAIN m /\ \A j \in DOMAIN m : n[j] = IF j = i THEN Entry(m[i].key, value, managed) ELSE m[j]
    BY <2>1 DEF Replaced
  <2>3. n[i].key = key /\ n[i].value = value
    BY <2>1, <2>2 DEF Entry
  <2>4. \A j \in DOMAIN m : j # i => n[j] = m[j] /\ m[j].key # key
    BY <2>1, <2>2 DEF KeysUnique
  <2> QED
    BY <2>1, <2>2, <2>3, <2>4
<1> QED
  BY <1>1, <1>2

(***************************************************************************)
(* What the options up to the n-th say, for any command line l: the last   *)
(* value of each variable and the source directory; and when a             *)
(* configuration is that.                                                  *)
(***************************************************************************)
OptionsOf(l, n, kind) == {i \in 1 .. n : l.options[i][1] = kind}
KeyOptions(l, n, key) == {i \in OptionsOf(l, n, "v") : l.options[i][2] = key}
KeysOf(l, n) == {l.options[i][2] : i \in OptionsOf(l, n, "v")}
LastValue(l, n, key) == l.options[Max(KeyOptions(l, n, key))][3]
GivenUpTo(l, n) == IF OptionsOf(l, n, "s") # {} THEN l.options[Max(OptionsOf(l, n, "s"))][2]
                   ELSE DirGivenBy(l.argv0)
NamesFrom(l, g) == WithoutLibs((IF g[1] = Slash THEN <<>> ELSE Names(l.cwd)) \o Names(g))
NormalOf(g) == Normal(g[1] = Slash, Names(g))

GatheredConfig(l, n, m) == /\ {m[j].key : j \in DOMAIN m} = KeysOf(l, n)
                           /\ \A j \in DOMAIN m : m[j].value = LastValue(l, n, m[j].key)
Tokens == STRING \cup {Slash, "."}
GatheredDir(l, n, d) == LET g == GivenUpTo(l, n) IN g \in Seq(Tokens) /\ g # <<>> /\ d = NormalOf(g)

RightEntry(l, faulty, e) ==
    \/ faulty /\ e.value = NULL
    \/ e.key = "srcdir" /\ Names(e.value) = NamesFrom(l, GivenUpTo(l, Len(l.options)))
    \/ e.key # "srcdir" /\ e.value = LastValue(l, Len(l.options), e.key)
RightConfig(l, faulty, m) ==
    /\ IsSeq(m) /\ KeysUnique(m)
    /\ {m[j].key : j \in DOMAIN m} = KeysOf(l, Len(l.options)) \cup {"srcdir"}
    /\ \A j \in DOMAIN m : RightEntry(l, faulty, m[j])

LEMMA NextOption ==
  ASSUME NEW l, NEW n \in Nat, n < Len(l.options), NEW kind
  PROVE  OptionsOf(l, n + 1, kind) = IF l.options[n + 1][1] = kind THEN OptionsOf(l, n, kind) \cup {n + 1}
                                     ELSE OptionsOf(l, n, kind)
<1>1. 1 .. n + 1 = (1 .. n) \cup {n + 1}
  OBVIOUS
<1> QED
  BY <1>1 DEF OptionsOf

LEMMA LastIsMax ==
  ASSUME NEW n \in Nat, NEW S, S \subseteq 1 .. n
  PROVE  Max(S \cup {n + 1}) = n + 1
<1>1. S \cup {n + 1} \in SUBSET Nat /\ n + 1 \in S \cup {n + 1} /\ \A i \in S \cup {n + 1} : i <= n + 1
  OBVIOUS
<1> QED
  BY ONLY <1>1, MaxIs

LEMMA VOption ==
  ASSUME NEW l, NEW n \in Nat, n < Len(l.options), l.options[n + 1][1] = "v"
  PROVE  LET o == l.options[n + 1] IN
         /\ KeysOf(l, n + 1) = KeysOf(l, n) \cup {o[2]}
         /\ LastValue(l, n + 1, o[2]) = o[3]
         /\ \A key : key # o[2] => LastValue(l, n + 1, key) = LastValue(l, n, key)
         /\ GivenUpTo(l, n + 1) = GivenUpTo(l, n)
<1> DEFINE o == l.options[n + 1]
<1>1. OptionsOf(l, n + 1, "v") = OptionsOf(l, n, "v") \cup {n + 1} /\ OptionsOf(l, n + 1, "s") = OptionsOf(l, n, "s")
  BY NextOption
<1>2. KeysOf(l, n + 1) = KeysOf(l, n) \cup {o[2]}
  BY <1>1 DEF KeysOf
<1>3. KeyOptions(l, n + 1, o[2]) = KeyOptions(l, n, o[2]) \cup {n + 1}
  BY <1>1 DEF KeyOptions
<1>4. KeyOptions(l, n, o[2]) \subseteq 1 .. n
  BY DEF KeyOptions, OptionsOf
<1>5. LastValue(l, n + 1, o[2]) = o[3]
  <2>1. Max(KeyOptions(l, n + 1, o[2])) = n + 1
    BY <1>3, <1>4, LastIsMax
  <2> QED
    BY <2>1 DEF LastValue
<1>6. ASSUME NEW key, key # o[2] PROVE LastValue(l, n + 1, key) = LastValue(l, n, key)
  <2>1. KeyOptions(l, n + 1, key) = KeyOptions(l, n, key)
    BY <1>1, <1>6 DEF KeyOptions
  <2> QED
    BY <2>1 DEF LastValue
<1>7. GivenUpTo(l, n + 1) = GivenUpTo(l, n)
  BY <1>1 DEF GivenUpTo
<1> QED
  BY <1>2, <1>5, <1>6, <1>7

LEMMA SOption ==
  ASSUME NEW l, NEW n \in Nat, n < Len(l.options), l.options[n + 1][1] = "s"
  PROVE  /\ KeysOf(l, n + 1) = KeysOf(l, n)
         /\ \A key : LastValue(l, n + 1, key) = LastValue(l, n, key)
         /\ GivenUpTo(l, n + 1) = l.options[n + 1][2]
<1>1. OptionsOf(l, n + 1, "v") = OptionsOf(l, n, "v") /\ OptionsOf(l, n + 1, "s") = OptionsOf(l, n, "s") \cup {n + 1}
  BY NextOption
<1>2. Max(OptionsOf(l, n + 1, "s")) = n + 1
  <2>1. OptionsOf(l, n, "s") \subseteq 1 .. n
    BY DEF OptionsOf
  <2> QED
    BY <1>1, <2>1, LastIsMax
<1>3. GivenUpTo(l, n + 1) = l.options[n + 1][2]
  <2>1. OptionsOf(l, n + 1, "s") # {}
    BY <1>1
  <2> QED
    BY <1>2, <2>1 DEF GivenUpTo
<1>4. \A key : KeyOptions(l, n + 1, key) = KeyOptions(l, n, key)
  BY <1>1 DEF KeyOptions
<1> QED
  BY <1>1, <1>3, <1>4 DEF KeysOf, LastValue

LEMMA OtherOption ==
  ASSUME NEW l, NEW n \in Nat, n < Len(l.options), l.options[n + 1][1] \notin {"s", "v"}
  PROVE  /\ KeysOf(l, n + 1) = KeysOf(l, n)
         /\ \A key : LastValue(l, n + 1, key) = LastValue(l, n, key)
         /\ GivenUpTo(l, n + 1) = GivenUpTo(l, n)
<1>1. OptionsOf(l, n + 1, "v") = OptionsOf(l, n, "v") /\ OptionsOf(l, n + 1, "s") = OptionsOf(l, n, "s")
  BY NextOption
<1>2. \A key : KeyOptions(l, n + 1, key) = KeyOptions(l, n, key)
  BY <1>1 DEF KeyOptions
<1> QED
  BY <1>1, <1>2 DEF KeysOf, LastValue, GivenUpTo

LEMMA CountKeys ==
  ASSUME NEW m, IsSeq(m), KeysUnique(m)
  PROVE  Len(m) = Cardinality({m[j].key : j \in DOMAIN m})
<1> DEFINE S == {m[j].key : j \in DOMAIN m}
           f == [j \in 1 .. Len(m) |-> m[j].key]
<1>1. Len(m) \in Nat /\ DOMAIN m = 1 .. Len(m)
  BY LenProperties DEF IsSeq
<1>2. f \in Bijection(1 .. Len(m), S)
  <2>1. f \in [1 .. Len(m) -> S]
    BY <1>1
  <2>2. \A i, j \in 1 .. Len(m) : f[i] = f[j] => i = j
    BY <1>1 DEF KeysUnique
  <2>3. \A s \in S : \E j \in 1 .. Len(m) : f[j] = s
    BY <1>1
  <2> HIDE DEF f, S
  <2> QED
    BY <2>1, <2>2, <2>3 DEF Bijection, Injection, Surjection, IsInjective, Range
<1>3. ExistsBijection(1 .. Len(m), S)
  BY <1>2 DEF ExistsBijection
<1> HIDE DEF S
<1> QED
  BY <1>1, <1>3, FS_CountingElements DEF S

LEMMA InsertGathers ==
  ASSUME NEW l, NEW n, NEW k, NEW m, IsSeq(m), KeysUnique(m), GatheredConfig(l, n, m), NEW key, NEW value,
         KeysOf(l, k) = KeysOf(l, n) \cup {key}, LastValue(l, k, key) = value,
         \A other : other # key => LastValue(l, k, other) = LastValue(l, n, other),
         NEW managed, NEW p, p = atf_map_insert(m, key, value, managed)
  PROVE  GatheredConfig(l, k, p)
<1>1. /\ \A j \in DOMAIN p : \/ p[j].key = key /\ p[j].value = value
                             \/ p[j].key # key /\ \E i \in DOMAIN m : m[i].key = p[j].key /\ m[i].value = p[j].value
      /\ \A i \in DOMAIN m : \E j \in DOMAIN p : p[j].key = m[i].key
      /\ \E j \in DOMAIN p : p[j].key = key
  BY InsertIs
<1>2. {m[j].key : j \in DOMAIN m} = KeysOf(l, n) /\ \A j \in DOMAIN m : m[j].value = LastValue(l, n, m[j].key)
  BY DEF GatheredConfig
<1>3. {p[j].key : j \in DOMAIN p} = KeysOf(l, k)
  <2>1. \A j \in DOMAIN p : p[j].key \in KeysOf(l, k)
    BY <1>1, <1>2
  <2>2. \A x \in KeysOf(l, k) : \E j \in DOMAIN p : p[j].key = x
    BY <1>1, <1>2
  <2> QED
    BY <2>1, <2>2
<1>4. \A j \in DOMAIN p : p[j].value = LastValue(l, k, p[j].key)
  BY <1>1, <1>2
<1> QED
  BY <1>3, <1>4 DEF GatheredConfig

LEMMA SrcdirRight ==
  ASSUME NEW l, NEW m, IsSeq(m), KeysUnique(m), GatheredConfig(l, Len(l.options), m), NEW value, NEW faulty \in BOOLEAN,
         (faulty /\ value = NULL) \/ Names(value) = NamesFrom(l, GivenUpTo(l, Len(l.options))),
         NEW managed, NEW p, p = atf_map_insert(m, "srcdir", value, managed)
  PROVE  RightConfig(l, faulty, p)
<1> DEFINE n == Len(l.options)
<1>0. IsSeq(p) /\ KeysUnique(p)
  BY InsertKeeps
<1>1. /\ \A j \in DOMAIN p : \/ p[j].key = "srcdir" /\ p[j].value = value
                             \/ p[j].key # "srcdir" /\ \E i \in DOMAIN m : m[i].key = p[j].key /\ m[i].value = p[j].value
      /\ \A i \in DOMAIN m : \E j \in DOMAIN p : p[j].key = m[i].key
      /\ \E j \in DOMAIN p : p[j].key = "srcdir"
  BY InsertIs
<1>2. {m[j].key : j \in DOMAIN m} = KeysOf(l, n) /\ \A j \in DOMAIN m : m[j].value = LastValue(l, n, m[j].key)
  BY DEF GatheredConfig
<1> HIDE DEF n
<1>3. {p[j].key : j \in DOMAIN p} = KeysOf(l, n) \cup {"srcdir"}
  <2>1. \A j \in DOMAIN p : p[j].key \in KeysOf(l, n) \cup {"srcdir"}
    BY <1>1, <1>2
  <2>2. \A x \in KeysOf(l, n) \cup {"srcdir"} : \E j \in DOMAIN p : p[j].key = x
    BY <1>1, <1>2
  <2> QED
    BY <2>1, <2>2
<1>4. \A j \in DOMAIN p : RightEntry(l, faulty, p[j])
  BY <1>1, <1>2 DEF RightEntry, n
<1> QED
  BY <1>0, <1>3, <1>4 DEF RightConfig, n

LEMMA StillRight ==
  ASSUME NEW l, NEW m, NEW a \in BOOLEAN, NEW b \in BOOLEAN, a => b, RightConfig(l, a, m)
  PROVE  RightConfig(l, b, m)
BY DEF RightConfig, RightEntry

NulledCopy(m, i) == [CopyOf(m) EXCEPT ![i].value = NULL]

LEMMA CopyRight ==
  ASSUME NEW l, NEW m, NEW faulty \in BOOLEAN, RightConfig(l, faulty, m)
  PROVE  /\ RightConfig(l, faulty, CopyOf(m)) /\ DOMAIN CopyOf(m) = DOMAIN m
         /\ \A i \in DOMAIN m : RightConfig(l, TRUE, NulledCopy(m, i))
<1>0. IsSeq(m) /\ KeysUnique(m) /\ Len(m) \in Nat /\ DOMAIN m = 1 .. Len(m)
  BY LenProperties DEF RightConfig, IsSeq
<1>1. ASSUME NEW p, DOMAIN p = DOMAIN m, NEW b \in BOOLEAN, faulty => b, p \in Seq(Range(p)),
             \A j \in DOMAIN m : p[j].key = m[j].key /\ (p[j].value = m[j].value \/ (b /\ p[j].value = NULL))
      PROVE  RightConfig(l, b, p)
  <2>1. {p[j].key : j \in DOMAIN p} = {m[j].key : j \in DOMAIN m}
    BY <1>1
  <2>2. IsSeq(p) /\ KeysUnique(p)
    BY <1>0, <1>1 DEF IsSeq, KeysUnique
  <2>3. \A j \in DOMAIN p : RightEntry(l, b, p[j])
    BY <1>1 DEF RightConfig, RightEntry
  <2> QED
    BY <2>1, <2>2, <2>3 DEF RightConfig
<1>2. DOMAIN CopyOf(m) = DOMAIN m /\ \A j \in DOMAIN m : CopyOf(m)[j] = Entry(m[j].key, m[j].value, TRUE)
  BY DEF CopyOf
<1>3. ASSUME NEW p, DOMAIN p = DOMAIN m, p = [j \in DOMAIN p |-> p[j]] PROVE p \in Seq(Range(p))
  <2>1. p \in [1 .. Len(m) -> Range(p)]
    BY <1>0, <1>3 DEF Range
  <2> QED
    BY ONLY <1>0, <2>1
<1>4. RightConfig(l, faulty, CopyOf(m))
  <2>1. CopyOf(m) \in Seq(Range(CopyOf(m)))
    <3>1. CopyOf(m) = [j \in DOMAIN CopyOf(m) |-> CopyOf(m)[j]]
      BY DEF CopyOf
    <3> QED
      BY <1>2, <1>3, <3>1
  <2>2. \A j \in DOMAIN m : CopyOf(m)[j].key = m[j].key /\ CopyOf(m)[j].value = m[j].value
    BY <1>2 DEF Entry
  <2> QED
    BY <1>1, <1>2, <2>1, <2>2
<1>5. ASSUME NEW i \in DOMAIN m PROVE RightConfig(l, TRUE, NulledCopy(m, i))
  <2> DEFINE p == NulledCopy(m, i)
  <2>1. DOMAIN p = DOMAIN m /\ p = [j \in DOMAIN p |-> p[j]]
    BY <1>2 DEF NulledCopy
  <2>2. \A j \in DOMAIN m : p[j] = IF j = i THEN [CopyOf(m)[i] EXCEPT !.value = NULL] ELSE CopyOf(m)[j]
    BY <1>2 DEF NulledCopy
  <2>3. ASSUME NEW j \in DOMAIN m
        PROVE  p[j].key = m[j].key /\ (p[j].value = m[j].value \/ (TRUE /\ p[j].value = NULL))
    <3> HIDE DEF p
    <3>1. CASE j = i
      <4>1. p[i] = [CopyOf(m)[i] EXCEPT !.value = NULL] /\ CopyOf(m)[i] = Entry(m[i].key, m[i].value, TRUE)
        BY <1>2, <2>2
      <4>2. p[i] = [Entry(m[i].key, m[i].value, TRUE) EXCEPT !.value = NULL]
        BY ONLY <4>1
      <4>3. p[i].key = m[i].key /\ p[i].value = NULL
        BY <4>2 DEF Entry
      <4> QED
        BY <3>1, <4>3
    <3>2. CASE j # i
      <4>1. p[j] = Entry(m[j].key, m[j].value, TRUE)
        BY <1>2, <2>2, <3>2
      <4> QED
        BY <4>1 DEF Entry
    <3> QED
      BY <3>1, <3>2
  <2>4. p \in Seq(Range(p))
    BY <1>3, <2>1
  <2> HIDE DEF p
  <2> QED
    BY <1>1, <2>1, <2>3, <2>4 DEF p
<1> QED
  BY <1>2, <1>4, <1>5

(***************************************************************************)
(* The invariant: while the options are read, the map and the directory    *)
(* are those of the options read so far; from handle_srcdir on, each of    *)
(* the three maps is right, but for a value that could not be copied.      *)
(***************************************************************************)
Reading == {"params", "options", "srcdir"}
AtfConfig ==
    /\ pc \in Reading => GatheredConfig(line, optind, pconfig) /\ GatheredDir(line, optind, params.srcdir)
    /\ pc = "srcdir" => optind = Len(line.options)
    /\ pc = "tp_init" => RightConfig(line, faults > 0, pconfig)
    /\ pc \in {"add_tcs", "body"} => RightConfig(line, faults > 0, tconfig)
    /\ \A i \in DOMAIN tcs : RightConfig(line, faults > 0, tcs[i].config)

LEMMA TokensAre == Slash \in Tokens /\ "." \in Tokens /\ Seq(STRING) \subseteq Seq(Tokens)
BY SeqMonotonic DEF Tokens

LEMMA DirNormal ==
  ASSUME NEW p, p \in Seq(Tokens), p # <<>>
  PROVE  normalize(p) = NormalOf(p)
BY DEF normalize, NormalOf, Normal

LEMMA SrcdirFound ==
  ASSUME NEW l, l \in CommandLines, NEW n, NEW d, GatheredDir(l, n, d), NEW value,
         value = srcdir_strip_libtool(IF is_absolute(d) THEN d ELSE to_absolute(d, l.cwd))
  PROVE  Names(value) = NamesFrom(l, GivenUpTo(l, n))
<1> DEFINE g == GivenUpTo(l, n)
<1>1. g \in Seq(Tokens) /\ g # <<>> /\ d = Normal(g[1] = Slash, Names(g))
  BY DEF GatheredDir, NormalOf
<1>2. l.cwd \in Seq(Tokens) /\ l.cwd # <<>> /\ Slash \in Tokens
  BY AtfAssumption, TokensAre
<1> HIDE DEF g
<1>3. Names(value) = WithoutLibs((IF g[1] = Slash THEN <<>> ELSE Names(l.cwd)) \o Names(g))
  BY <1>1, <1>2, FoundNames
<1> QED
  BY <1>3 DEF NamesFrom, g

LEMMA InitConfig == ASSUME Init PROVE AtfConfig
<1>1. DOMAIN pconfig = {} /\ DOMAIN tcs = {}
  BY EmptySeq DEF Init
<1>2. OptionsOf(line, 0, "v") = {} /\ OptionsOf(line, 0, "s") = {}
  BY DEF OptionsOf
<1>3. GatheredConfig(line, 0, pconfig)
  BY <1>1, <1>2 DEF GatheredConfig, KeysOf
<1>4. GatheredDir(line, 0, params.srcdir)
  <2> DEFINE a == line.argv0
  <2>1. /\ a \in Seq(Tokens) /\ a # <<>> /\ a[Len(a)] # Slash
        /\ \A i \in 1 .. Len(a) - 1 : Slash \in {a[i], a[i + 1]}
    BY AtfAssumption, TokensAre DEF Init
  <2>2. params.srcdir = argv0_to_dir(a)
    BY DEF Init
  <2> HIDE DEF a
  <2>3. DirGivenBy(a) \in Seq(Tokens) /\ DirGivenBy(a) # <<>> /\ params.srcdir = NormalOf(DirGivenBy(a))
    BY <2>1, <2>2, TokensAre, ArgvDir DEF NormalOf
  <2>4. GivenUpTo(line, 0) = DirGivenBy(a)
    BY <1>2 DEF GivenUpTo, a
  <2> QED
    BY <2>3, <2>4 DEF GatheredDir
<1> QED
  BY <1>1, <1>3, <1>4 DEF Init, AtfConfig, Reading

LEMMA OptionConfig ==
  ASSUME AtfControl, AtfConfig, Option
  PROVE  pc' = "options" => /\ GatheredConfig(line, optind + 1, pconfig')
                            /\ GatheredDir(line, optind + 1, params'.srcdir)
<1> DEFINE o == line.options[optind + 1]
           n == optind
<1>1. /\ pc = "options" /\ n < Len(line.options) /\ n \in Nat /\ line \in CommandLines
      /\ IsSeq(pconfig) /\ KeysUnique(pconfig)
      /\ GatheredConfig(line, n, pconfig) /\ GatheredDir(line, n, params.srcdir)
  BY AtfAssumption DEF Option, AtfControl, AtfTyped, TypeOK, AtfConfig, Reading
<1>2. ASSUME o[1] = "v", pc' = "options", InsertOption(o[2], o[3]), UNCHANGED params
      PROVE  GatheredConfig(line, n + 1, pconfig') /\ GatheredDir(line, n + 1, params'.srcdir)
  <2>1. \E managed : pconfig' = atf_map_insert(pconfig, o[2], o[3], managed)
    BY <1>1, <1>2 DEF InsertOption, Raise, EndsBy
  <2>2. PICK managed : pconfig' = atf_map_insert(pconfig, o[2], o[3], managed)
    BY <2>1
  <2>3. /\ KeysOf(line, n + 1) = KeysOf(line, n) \cup {o[2]} /\ LastValue(line, n + 1, o[2]) = o[3]
        /\ \A key : key # o[2] => LastValue(line, n + 1, key) = LastValue(line, n, key)
        /\ GivenUpTo(line, n + 1) = GivenUpTo(line, n)
    BY <1>1, <1>2, VOption
  <2> HIDE DEF o, n
  <2>4. GatheredConfig(line, n + 1, pconfig')
    BY <1>1, <2>2, <2>3, InsertGathers
  <2>5. GatheredDir(line, n + 1, params'.srcdir)
    BY <1>1, <1>2, <2>3 DEF GatheredDir
  <2> QED
    BY <2>4, <2>5
<1>3. ASSUME o[1] = "s", pc' = "options", ReplacePath("srcdir", o[2]), UNCHANGED pconfig
      PROVE  GatheredConfig(line, n + 1, pconfig') /\ GatheredDir(line, n + 1, params'.srcdir)
  <2>1. o[2] # <<>> /\ params'.srcdir = normalize(o[2])
    BY <1>1, <1>3 DEF ReplacePath, Raise, EndsBy, AtfControl, AtfTyped
  <2>2. o[2] \in Seq(Tokens)
    BY <1>1, <1>3, AtfAssumption, TokensAre
  <2>3. GivenUpTo(line, n + 1) = o[2] /\ KeysOf(line, n + 1) = KeysOf(line, n)
        /\ \A key : LastValue(line, n + 1, key) = LastValue(line, n, key)
    BY <1>1, <1>3, SOption
  <2> HIDE DEF o, n
  <2>4. GatheredConfig(line, n + 1, pconfig')
    BY <1>1, <1>3, <2>3 DEF GatheredConfig
  <2>5. GatheredDir(line, n + 1, params'.srcdir)
    BY <2>1, <2>2, <2>3, DirNormal DEF GatheredDir
  <2> QED
    BY <2>4, <2>5
<1>4. ASSUME o[1] \notin {"s", "v"}, UNCHANGED pconfig, params'.srcdir = params.srcdir
      PROVE  GatheredConfig(line, n + 1, pconfig') /\ GatheredDir(line, n + 1, params'.srcdir)
  <2>1. GivenUpTo(line, n + 1) = GivenUpTo(line, n) /\ KeysOf(line, n + 1) = KeysOf(line, n)
        /\ \A key : LastValue(line, n + 1, key) = LastValue(line, n, key)
    BY <1>1, <1>4, OtherOption
  <2> HIDE DEF o, n
  <2>2. GatheredConfig(line, n + 1, pconfig')
    BY <1>1, <1>4, <2>1 DEF GatheredConfig
  <2>3. GatheredDir(line, n + 1, params'.srcdir)
    BY <1>1, <1>4, <2>1 DEF GatheredDir
  <2> QED
    BY <2>2, <2>3
<1>5. optind' = n + 1
  BY DEF Option
<1>6. \/ o[1] = "v" /\ InsertOption(o[2], o[3]) /\ UNCHANGED params
      \/ o[1] = "s" /\ ReplacePath("srcdir", o[2]) /\ UNCHANGED pconfig
      \/ o[1] = "r" /\ ReplacePath("resfile", o[2]) /\ UNCHANGED pconfig
      \/ o[1] = "l" /\ params' = [params EXCEPT !.list = TRUE] /\ UNCHANGED pconfig
      \/ o[1] \notin {"s", "v", "r", "l"} /\ Raise("usage", "params_fini")
  BY <1>5 DEF Option
<1>7. ReplacePath("resfile", o[2]) => params'.srcdir = params.srcdir
  BY DEF ReplacePath, AtfControl, AtfTyped
<1>8. params' = [params EXCEPT !.list = TRUE] => params'.srcdir = params.srcdir
  BY DEF AtfControl, AtfTyped
<1>9. Raise("usage", "params_fini") => pc' # "options"
  BY DEF Raise, EndsBy
<1> HIDE DEF o
<1> QED
  BY <1>2, <1>3, <1>4, <1>6, <1>7, <1>8, <1>9

LEMMA AddedCase ==
  ASSUME AtfControl, AtfConfig, AddTc, faults \in Nat, faults' \in Nat, faults' >= faults
  PROVE  tcs' = tcs \/ \E t : tcs' = Append(tcs, t) /\ RightConfig(line, faults' > 0, t.config)
<1>1. pc = "add_tcs" /\ RightConfig(line, faults > 0, tconfig) /\ IsSeq(tconfig) /\ KeysUnique(tconfig)
      /\ (faults > 0) \in BOOLEAN /\ (faults' > 0) \in BOOLEAN /\ ((faults > 0) => (faults' > 0))
  BY DEF AddTc, AtfConfig, RightConfig
<1>2. atf_map_init_charpp(atf_map_to_charpp(tconfig)) = CopyOf(tconfig)
  BY <1>1, CopyIs
<1>3. /\ RightConfig(line, faults > 0, CopyOf(tconfig))
      /\ \A i \in DOMAIN tconfig : RightConfig(line, TRUE, NulledCopy(tconfig, i))
  BY <1>1, CopyRight
<1>4. RightConfig(line, faults' > 0, CopyOf(tconfig))
  BY <1>1, <1>3, StillRight
<1>5. \A c, pairs : NewCase(c, pairs) = [ident |-> c, vars |-> SetVars(c, pairs), config |-> CopyOf(tconfig)]
  BY <1>2 DEF NewCase
<1>6. \A c, pairs : NewCase(c, pairs).config = CopyOf(tconfig)
  BY <1>5
<1>8. \/ tcs' = tcs
      \/ \E c, pairs : tcs' = Append(tcs, NewCase(c, pairs))
      \/ \E c, pairs : \E i \in DOMAIN tconfig :
           tcs' = Append(tcs, [NewCase(c, pairs) EXCEPT !.config[i].value = NULL]) /\ Fault
  BY ZenonT(60) DEF AddTc, atf_tp_add_tc
<1>9. Fault => faults' > 0
  BY DEF Fault
<1>10. CASE \E c, pairs : tcs' = Append(tcs, NewCase(c, pairs))
  BY <1>4, <1>6, <1>10
<1>11. CASE \E c, pairs : \E i \in DOMAIN tconfig :
           tcs' = Append(tcs, [NewCase(c, pairs) EXCEPT !.config[i].value = NULL]) /\ Fault
  <2>1. PICK c, pairs : \E i \in DOMAIN tconfig :
           tcs' = Append(tcs, [NewCase(c, pairs) EXCEPT !.config[i].value = NULL]) /\ Fault
    BY <1>11
  <2>2. PICK i \in DOMAIN tconfig : tcs' = Append(tcs, [NewCase(c, pairs) EXCEPT !.config[i].value = NULL]) /\ Fault
    BY <2>1
  <2> DEFINE t == [NewCase(c, pairs) EXCEPT !.config[i].value = NULL]
  <2>3. t.config = NulledCopy(tconfig, i)
    BY <1>5 DEF NulledCopy
  <2>4. tcs' = Append(tcs, t) /\ Fault
    BY <2>2
  <2> HIDE DEF t
  <2>5. RightConfig(line, faults' > 0, t.config)
    <3>1. (faults' > 0) = TRUE
      BY <1>9, <2>4
    <3>2. RightConfig(line, TRUE, t.config)
      BY <1>3, <2>3
    <3> QED
      BY <3>1, <3>2
  <2> QED
    BY <2>4, <2>5
<1> QED
  BY <1>8, <1>10, <1>11

LEMMA ConfigStep ==
  ASSUME AtfControl, AtfConfig, faults \in Nat, [Next]_vars
  PROVE  AtfConfig'
<1>0. faults' \in Nat /\ faults' >= faults /\ ((faults > 0) => (faults' > 0))
  BY FaultsGrow
<1>1. line' = line /\ line \in CommandLines /\ IsSeq(tcs) /\ IsSeq(pconfig) /\ KeysUnique(pconfig)
      /\ (faults > 0) \in BOOLEAN /\ (faults' > 0) \in BOOLEAN
  <2>1. line' = line
    BY DEF Next, Ended, vars, ParamsInit, Option, Arguments, Srcdir, TpInit, AddTc, List, StartCase, fail_check,
       atf_tc_fail_requirement, format_reason_ap, TestCreatesFile, TestCrashes, InBody, BodyReturns, AllRan, OutTp, OutP, Out
  <2> QED
    BY <2>1 DEF AtfControl, AtfTyped
<1>2. \A i \in DOMAIN tcs : RightConfig(line, faults' > 0, tcs[i].config)
  BY <1>0, <1>1, StillRight DEF AtfConfig
<1>3. ASSUME tcs' = tcs PROVE \A i \in DOMAIN tcs' : RightConfig(line', faults' > 0, tcs'[i].config)
  BY <1>1, <1>2, <1>3
<1>4. CASE ParamsInit
  <2>1. UNCHANGED <<optind, params, pconfig, tcs>> /\ pc' \in {"options", "out", "ended"} /\ pc = "params"
    BY <1>4 DEF ParamsInit, NoError, Raise, EndsBy
  <2> QED
    BY <1>1, <1>3, <2>1 DEF AtfConfig, Reading
<1>5. CASE Option
  <2>1. tcs' = tcs /\ optind' = optind + 1 /\ pc = "options" /\ pc' \in {"options", "params_fini", "ended"}
    BY <1>5 DEF Option, ReplacePath, InsertOption, NoError, Raise, EndsBy
  <2> QED
    BY <1>1, <1>3, <1>5, <2>1, OptionConfig DEF AtfConfig, Reading
<1>6. CASE Arguments
  <2>1. /\ UNCHANGED <<optind, pconfig, tcs>> /\ optind = Len(line.options) /\ pc = "options"
        /\ pc' \in {"srcdir", "params_fini", "ended"}
    BY <1>6 DEF Arguments, handle_tcarg, NoError, Raise, EndsBy
  <2>2. params'.srcdir = params.srcdir
    BY <1>6 DEF Arguments, handle_tcarg, AtfControl, AtfTyped
  <2> QED
    BY <1>1, <1>3, <2>1, <2>2 DEF AtfConfig, Reading
<1>7. CASE Srcdir
  <2>1. tcs' = tcs /\ pc = "srcdir" /\ pc' \in {"tp_init", "params_fini", "ended"}
    BY <1>7 DEF Srcdir, NotFound, NoError, Raise, EndsBy
  <2>2. optind = Len(line.options) /\ GatheredConfig(line, optind, pconfig) /\ GatheredDir(line, optind, params.srcdir)
    BY <2>1 DEF AtfConfig, Reading
  <2>3. ASSUME pc' = "tp_init" PROVE RightConfig(line, faults' > 0, pconfig')
    <3>1. \E value, managed : /\ value = Found \/ (value = NULL /\ faults' > 0)
                              /\ pconfig' = atf_map_insert(pconfig, "srcdir", value, managed)
      <4>1. \E value, managed : /\ value = Found \/ (value = NULL /\ Fault)
                                /\ pconfig' = atf_map_insert(pconfig, "srcdir", value, managed)
        BY <1>7, <2>3 DEF Srcdir, NotFound, NoError, Raise, EndsBy
      <4>2. Fault => faults' > 0
        BY <1>0 DEF Fault
      <4> QED
        BY <4>1, <4>2
    <3>2. Names(Found) = NamesFrom(line, GivenUpTo(line, Len(line.options)))
      BY <1>1, <2>2, SrcdirFound DEF Found, Absolute
    <3>3. PICK value, managed : /\ value = Found \/ (value = NULL /\ faults' > 0)
                                /\ pconfig' = atf_map_insert(pconfig, "srcdir", value, managed)
      BY <3>1
    <3>4. (faults' > 0 /\ value = NULL) \/ Names(value) = NamesFrom(line, GivenUpTo(line, Len(line.options)))
      BY <3>2, <3>3
    <3> QED
      BY <1>1, <2>2, <3>3, <3>4, SrcdirRight
  <2> QED
    BY <1>1, <1>3, <2>1, <2>3 DEF AtfConfig, Reading
<1>8. CASE TpInit
  <2>1. tcs' = tcs /\ pc = "tp_init" /\ pc' \in {"add_tcs", "params_fini", "ended"}
    BY <1>8 DEF TpInit, NoError, Raise, EndsBy
  <2>2. RightConfig(line, faults > 0, pconfig)
    BY <2>1 DEF AtfConfig
  <2>3. ASSUME pc' = "add_tcs" PROVE RightConfig(line, faults' > 0, tconfig')
    <3>1. atf_map_init_charpp(atf_map_to_charpp(pconfig)) = CopyOf(pconfig)
      BY <1>1, CopyIs
    <3>2. \/ tconfig' = CopyOf(pconfig)
          \/ \E i \in DOMAIN pconfig : tconfig' = NulledCopy(pconfig, i) /\ Fault
      BY <1>8, <2>3, <3>1 DEF TpInit, NoError, Raise, EndsBy, NulledCopy
    <3>3. /\ RightConfig(line, faults > 0, CopyOf(pconfig))
          /\ \A i \in DOMAIN pconfig : RightConfig(line, TRUE, NulledCopy(pconfig, i))
      BY <1>1, <2>2, CopyRight
    <3>4. RightConfig(line, faults' > 0, CopyOf(pconfig))
      BY <1>0, <1>1, <3>3, StillRight
    <3>5. Fault => faults' > 0
      BY <1>0 DEF Fault
    <3> QED
      BY <3>2, <3>3, <3>4, <3>5
  <2> QED
    BY <1>1, <1>3, <2>1, <2>3 DEF AtfConfig, Reading
<1>9. CASE AddTc
  <2>1. tconfig' = tconfig /\ pc = "add_tcs" /\ pc' \in {"add_tcs", "tp_fini", "ended"}
    BY <1>9 DEF AddTc, NoError, Raise, EndsBy
  <2>2. RightConfig(line, faults' > 0, tconfig)
    BY <1>0, <1>1, <2>1, StillRight DEF AtfConfig
  <2>3. \A i \in DOMAIN tcs' : RightConfig(line, faults' > 0, tcs'[i].config)
    <3>1. CASE tcs' = tcs
      BY <1>2, <3>1
    <3>2. ASSUME NEW t, tcs' = Append(tcs, t), RightConfig(line, faults' > 0, t.config)
          PROVE  \A i \in DOMAIN tcs' : RightConfig(line, faults' > 0, tcs'[i].config)
      <4>1. /\ DOMAIN tcs = 1 .. Len(tcs) /\ Len(tcs) \in Nat /\ DOMAIN tcs' = 1 .. Len(tcs) + 1
            /\ \A i \in DOMAIN tcs : tcs'[i] = tcs[i]
            /\ tcs'[Len(tcs) + 1] = t
        BY <1>1, <3>2, AppendKeeps
      <4>2. \A i \in DOMAIN tcs' : i \in DOMAIN tcs \/ i = Len(tcs) + 1
        BY <4>1
      <4> QED
        BY <1>2, <3>2, <4>1, <4>2
    <3> QED
      BY <1>0, <1>9, <3>1, <3>2, AddedCase
  <2> QED
    BY <1>1, <2>1, <2>2, <2>3 DEF AtfConfig, Reading
<1>10. CASE ~(ParamsInit \/ Option \/ Arguments \/ Srcdir \/ TpInit \/ AddTc)
  <2>1. UNCHANGED <<optind, params, pconfig, tconfig, tcs>>
    BY <1>10 DEF Next, Ended, vars, List, StartCase, fail_check, atf_tc_fail_requirement, format_reason_ap,
       TestCreatesFile, TestCrashes, InBody, BodyReturns, AllRan, OutTp, OutP, Out
  <2>2. \/ pc' = pc
        \/ pc \in {"add_tcs", "body"} /\ pc' \in {"add_tcs", "body", "tp_fini", "ended"}
        \/ pc' \in {"params_fini", "out", "ended"}
    <3> USE DEF NoError, EndsBy
    <3>1. List \/ StartCase \/ AllRan \/ OutTp \/ OutP \/ Out \/ Ended =>
            \/ pc' = pc
            \/ pc \in {"add_tcs", "body"} /\ pc' \in {"add_tcs", "body", "tp_fini", "ended"}
            \/ pc' \in {"params_fini", "out", "ended"}
      BY DEF List, StartCase, Running, AllRan, OutTp, OutP, Out, Ended, vars
    <3>2. fail_check \/ TestCreatesFile \/ TestCrashes \/ format_reason_ap \/ atf_tc_fail_requirement \/ BodyReturns =>
            pc' = pc \/ (pc = "body" /\ pc' \in {"add_tcs", "ended"})
      BY DEF fail_check, TestCreatesFile, TestCrashes, format_reason_ap, atf_tc_fail_requirement, BodyReturns,
         fail_requirement, create_resfile, pass, InBody
    <3> QED
      BY <1>10, <3>1, <3>2 DEF Next, vars
  <2>3. pc \in {"add_tcs", "body"} => RightConfig(line, faults' > 0, tconfig)
    BY <1>0, <1>1, StillRight DEF AtfConfig
  <2>4. pc = "tp_init" => RightConfig(line, faults' > 0, pconfig)
    BY <1>0, <1>1, StillRight DEF AtfConfig
  <2> QED
    BY <1>1, <1>3, <2>1, <2>2, <2>3, <2>4 DEF AtfConfig, Reading
<1> QED
  BY <1>4, <1>5, <1>6, <1>7, <1>8, <1>9, <1>10

LEMMA ConfigIsRight ==
  ASSUME AtfControl, AtfConfig
  PROVE  ConfigReachesTests
<1> DEFINE n == Len(line.options)
<1>0. line \in CommandLines /\ DOMAIN line.options = 1 .. n
  BY AtfAssumption DEF AtfControl, AtfTyped
<1> HIDE DEF n
<1>1. \A kind : Options(kind) = OptionsOf(line, n, kind)
  BY <1>0 DEF Options, OptionsOf
<1>2. Keys = KeysOf(line, n) \cup {"srcdir"} /\ \A key : VOptions(key) = KeyOptions(line, n, key)
  BY <1>1 DEF Keys, KeysOf, VOptions, KeyOptions
<1>3. DirGiven = GivenUpTo(line, n)
  BY <1>1 DEF DirGiven, GivenUpTo, DirGivenBy
<1>4. SrcdirNames = NamesFrom(line, GivenUpTo(line, n))
  BY <1>3 DEF SrcdirNames, NamesFrom, WithoutLibs
<1>5. ASSUME NEW e, RightEntry(line, faults > 0, e) PROVE Right(e)
  BY <1>2, <1>4, <1>5 DEF Right, RightEntry, LastValue, n
<1>6. ASSUME NEW i \in DOMAIN tcs
      PROVE  LET config == tcs[i].config IN
             /\ {config[j].key : j \in DOMAIN config} = Keys
             /\ Len(config) = Cardinality(Keys)
             /\ \A j \in DOMAIN config : Right(config[j])
  <2> DEFINE config == tcs[i].config
  <2>1. RightConfig(line, faults > 0, config)
    BY DEF AtfConfig
  <2> HIDE DEF config
  <2>2. IsSeq(config) /\ KeysUnique(config) /\ {config[j].key : j \in DOMAIN config} = Keys
    BY <1>2, <2>1 DEF RightConfig, n
  <2>3. Len(config) = Cardinality(Keys)
    BY <2>2, CountKeys
  <2>4. \A j \in DOMAIN config : Right(config[j])
    BY <1>5, <2>1 DEF RightConfig
  <2> QED
    BY <2>2, <2>3, <2>4 DEF config
<1> QED
  BY <1>6 DEF ConfigReachesTests

(***************************************************************************)
(* Every case has exactly one value for each variable of the command line  *)
(* and for "srcdir" (atf.h, process_params, handle_srcdir, atf_tp_init and *)
(* atf_tc_init): the last that was given and the source directory, unless  *)
(* the memory for a copy was lacking.                                      *)
(***************************************************************************)
THEOREM ConfigReachesCases == Spec => []ConfigReachesTests
<1>1. Init => AtfConfig
  BY InitConfig
<1>2. AtfControl /\ AtfMemory /\ AtfConfig /\ [Next]_vars => AtfConfig'
  BY ConfigStep DEF AtfMemory
<1>3. AtfControl /\ AtfConfig => ConfigReachesTests
  BY ConfigIsRight
<1> QED
  BY <1>1, <1>2, <1>3, AtfInvariant, PTL DEF Spec
=============================================================================
