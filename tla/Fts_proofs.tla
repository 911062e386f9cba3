------------------------------ MODULE Fts_proofs ------------------------------
(***************************************************************************)
(* Two sides of FTS.  The walk, with a table of active directories         *)
(* (FTS_LOGICAL, FTS_TIGHT_CYCLE_CHECK) or lazily, reports real cycles     *)
(* only and leaves every directory as often as it entered it: for every    *)
(* file system, whatever its graph and however many its directories, every *)
(* set of roots, every size of the batches and every sequence of faults    *)
(* and instructions that Tidy allows.  A walk in any setup that meets none *)
(* misses nothing.                                                         *)
(*                                                                         *)
(* The working directory of fts_read is where the entries come from that   *)
(* are looked up in it, and the ring of descriptors stays in step with the *)
(* path: for every set of directories and names, every size of the ring    *)
(* and every sequence of renames.                                          *)
(***************************************************************************)
EXTENDS FtsWalk, FtsCwd, FiniteSetTheorems, FunctionTheorems, SequenceTheorems, TLAPS

----------------------------------------------------------------------------
(***************************************************************************)
(* Streams, also between the steps of a call: a node is NSOK until it has  *)
(* been stated.                                                            *)
(***************************************************************************)
Nodes == [dir : Dirs, info : Infos \cup {"NSOK"}, errno : BOOLEAN, link : SUBSET Dirs,
          dirp : BOOLEAN, unread : SUBSET Dirs, instr : {"NOINSTR", "AGAIN", "SKIP"}]
Streams == [path : Seq(Nodes) \ {<<>>}, status : {"walking", "done", "stopped", "aborted"},
            active : SUBSET Dirs, counter : Nat, record : Dirs, visited : SUBSET Dirs,
            trouble : 0 .. MaxTrouble]

(***************************************************************************)
(* Lazy detection: the record is one of the n directories entered, and     *)
(* fewer checks were made since it was taken than up to then, which was at *)
(* a power of two.                                                         *)
(***************************************************************************)
Recent(s, n) ==
    n = 0 \/ \E p \in 1 .. s.counter :
      /\ CC!is_zero_or_power_of_two(p) /\ s.counter < 2 * p
      /\ \E i \in 1 .. n : s.path[i].dir = s.record /\ n - i <= s.counter - p

(***************************************************************************)
(* The directories above the current one have been entered - once each, if *)
(* a table has them - and the current one has just when that is to be      *)
(* visited (FTS_D).                                                        *)
(***************************************************************************)
InnerDirs(s) == {s.path[i].dir : i \in 1 .. Len(s.path) - 1}
Inner(s) ==
    /\ \A i \in 1 .. Len(s.path) - 1 :
         s.path[i].info = "D" /\ ~s.path[i].errno /\ s.path[i].instr = "NOINSTR"
    /\ HasTable => \A i, j \in 1 .. Len(s.path) - 1 : s.path[i].dir = s.path[j].dir => i = j
Outside(s) ==
    Inner(s) /\ IF HasTable THEN s.active = InnerDirs(s) ELSE Recent(s, Len(s.path) - 1)
Inside(s) ==
    Inner(s) /\ IF HasTable THEN /\ Cur(s).dir \notin InnerDirs(s)
                                /\ s.active = InnerDirs(s) \cup {Cur(s).dir}
                ELSE Recent(s, Len(s.path))

\* What makes the current directory a cycle.
Closes(s) ==
    IF HasTable THEN Cur(s).dir \in s.active ELSE Len(s.path) > 1 /\ Cur(s).dir = s.record

\* A root is checked with a new state.
Anew(s) == ~HasTable /\ Len(s.path) = 1 => s.counter = 0

Good(s) ==
    /\ s \in Streams /\ Inner(s) /\ Cur(s).info # "NSOK" /\ s.status # "aborted"
    /\ s.status = "walking" =>
         IF Cur(s).info = "D"
         THEN Inside(s) /\ ~Cur(s).errno /\ (Cur(s).instr # "NOINSTR" => opt.set_on # {} /\ s.trouble # 0)
         ELSE Outside(s) /\ Cur(s).instr = "NOINSTR" /\ (Cur(s).info = "DC" => Closes(s))

----------------------------------------------------------------------------
\* A stream with another current node, or with another counter of troubles.
Beside(t, s) ==
    /\ t \in Streams /\ Len(t.path) = Len(s.path)
    /\ \A i \in 1 .. Len(s.path) - 1 : t.path[i] = s.path[i]
    /\ t.active = s.active /\ t.status = s.status /\ t.counter = s.counter /\ t.record = s.record

LEMMA CurTyped ==
  ASSUME NEW s \in Streams
  PROVE  /\ Len(s.path) \in Nat \ {0} /\ s.path \in Seq(Nodes) /\ Cur(s) = s.path[Len(s.path)]
         /\ Cur(s) \in Nodes
<1>1. s.path \in Seq(Nodes) /\ s.path # <<>>
  BY DEF Streams
<1>2. Len(s.path) \in Nat \ {0}
  BY <1>1
<1> QED
  BY <1>1, <1>2 DEF Cur, Last

LEMMA BesideKeeps ==
  ASSUME NEW s \in Streams, NEW t, Beside(t, s)
  PROVE  /\ Inner(s) => Inner(t)
         /\ Outside(s) => Outside(t)
         /\ Inside(s) /\ Cur(t).dir = Cur(s).dir => Inside(t)
<1>1. InnerDirs(t) = InnerDirs(s)
  BY DEF Beside, InnerDirs
<1>2. Inner(s) => Inner(t)
  BY DEF Beside, Inner
<1>3. t.counter = s.counter /\ t.record = s.record /\ t.active = s.active /\ Len(t.path) = Len(s.path)
  BY DEF Beside
<1> DEFINE n == Len(s.path)
<1>4. /\ n \in Nat \ {0} /\ Cur(s) = s.path[n] /\ Cur(t) = t.path[n]
      /\ \A i \in 1 .. n - 1 : t.path[i] = s.path[i]
  BY CurTyped DEF Beside
<1> HIDE DEF n
<1>5. Recent(s, n - 1) => Recent(t, n - 1)
  BY <1>3, <1>4 DEF Recent
<1>6. ASSUME Cur(t).dir = Cur(s).dir PROVE Recent(s, n) => Recent(t, n)
  <2>1. \A i \in 1 .. n : t.path[i].dir = s.path[i].dir
    <3>1. \A i \in 1 .. n : i = n \/ i \in 1 .. n - 1
      BY <1>4
    <3> QED
      BY <1>4, <1>6, <3>1
  <2> QED
    BY <1>3, <2>1 DEF Recent
<1>7. Outside(s) => Outside(t)
  BY <1>1, <1>2, <1>3, <1>5 DEF Outside, n
<1>8. Inside(s) /\ Cur(t).dir = Cur(s).dir => Inside(t)
  BY <1>1, <1>2, <1>3, <1>6 DEF Inside, n
<1> QED
  BY <1>2, <1>7, <1>8

LEMMA WithBeside ==
  ASSUME NEW s \in Streams, NEW node \in Nodes
  PROVE  Beside(With(s, node), s) /\ Cur(With(s, node)) = node
<1> DEFINE path == [s.path EXCEPT ![Len(s.path)] = node]
<1>1. Len(s.path) \in Nat \ {0} /\ s.path \in Seq(Nodes)
  BY CurTyped
<1>2. /\ path \in Seq(Nodes) /\ path # <<>> /\ Len(path) = Len(s.path) /\ path[Len(path)] = node
      /\ \A i \in 1 .. Len(s.path) - 1 : path[i] = s.path[i]
  BY <1>1
<1>3. With(s, node) = [s EXCEPT !.path = path]
  BY DEF With, Streams
<1> HIDE DEF path
<1>4. /\ With(s, node) \in Streams /\ With(s, node).path = path
      /\ With(s, node).active = s.active /\ With(s, node).status = s.status
      /\ With(s, node).counter = s.counter /\ With(s, node).record = s.record
  BY <1>2, <1>3 DEF Streams
<1> QED
  BY <1>2, <1>4 DEF Beside, Cur, Last

LEMMA InformedBeside ==
  ASSUME NEW s \in Streams, NEW info \in Infos \cup {"NSOK"}
  PROVE  /\ Beside(Informed(s, info), s) /\ Cur(Informed(s, info)).info = info
         /\ Cur(Informed(s, info)).dir = Cur(s).dir /\ Cur(Informed(s, info)).errno = Cur(s).errno
         /\ Cur(Informed(s, info)).instr = Cur(s).instr
<1> DEFINE node == [Cur(s) EXCEPT !.info = info]
<1>1. node \in Nodes /\ node.info = info /\ node.dir = Cur(s).dir /\ node.errno = Cur(s).errno
      /\ node.instr = Cur(s).instr
  BY CurTyped DEF Nodes
<1>2. Informed(s, info) = With(s, node)
  BY DEF Informed
<1> QED
  BY <1>1, <1>2, WithBeside

LEMMA FailedBeside ==
  ASSUME NEW s \in Streams, NEW info \in Infos
  PROVE  /\ Beside(Failed(s, info), s) /\ Cur(Failed(s, info)).info = info
         /\ Cur(Failed(s, info)).dir = Cur(s).dir /\ Cur(Failed(s, info)).errno
         /\ Cur(Failed(s, info)).instr = Cur(s).instr
<1> DEFINE cur == Cur(s)
           node == [cur EXCEPT !.info = info, !.errno = TRUE]
<1>1. cur \in Nodes
  BY CurTyped
<1>2. Failed(s, info) = With(s, node)
  BY DEF Failed
<1>3. node = [cur EXCEPT !.info = info, !.errno = TRUE]
  OBVIOUS
<1> HIDE DEF cur, node
<1>4. node = [dir |-> cur.dir, info |-> info, errno |-> TRUE, link |-> cur.link, dirp |-> cur.dirp,
              unread |-> cur.unread, instr |-> cur.instr]
  BY <1>1, <1>3 DEF Nodes
<1>5. node \in Nodes /\ node.info = info /\ node.dir = cur.dir /\ node.errno = TRUE
      /\ node.instr = cur.instr
  BY <1>1, <1>4 DEF Nodes
<1> QED
  BY <1>2, <1>5, WithBeside DEF cur

LEMMA FailsBeside ==
  ASSUME NEW s \in Streams, NEW fault, NEW t \in Fails(s, fault)
  PROVE  Beside(t, s) /\ Cur(t) = Cur(s) /\ t.path = s.path /\ fault \in opt.faults
<1>1. t = [s EXCEPT !.trouble = @ + 1] /\ s.trouble < MaxTrouble /\ fault \in opt.faults
  BY DEF Fails
<1>2. /\ t \in Streams /\ t.path = s.path /\ t.active = s.active /\ t.status = s.status
      /\ t.counter = s.counter /\ t.record = s.record
  BY <1>1, FtsAssumption DEF Streams
<1> QED
  BY <1>1, <1>2 DEF Beside, Cur

----------------------------------------------------------------------------
(***************************************************************************)
(* Powers of two.                                                          *)
(***************************************************************************)
LEMMA Quotient ==
  ASSUME NEW k \in Nat \ {0}, NEW b \in Nat, NEW q \in Nat, NEW r \in 0 .. k - 1, k * b = k * q + r
  PROVE  r = 0
<1>1. CASE b >= q + 1
  <2>1. k * b >= k * (q + 1)
    BY <1>1, SMT
  <2>2. k * (q + 1) = k * q + k
    BY SMT
  <2> QED
    BY <2>1, <2>2, SMT
<1>2. CASE b <= q
  <2>1. k * b <= k * q
    BY <1>2, SMT
  <2>2. k * b \in Nat /\ k * q \in Nat
    BY SMT
  <2> QED
    BY <2>1, <2>2, SMT
<1> QED
  BY <1>1, <1>2

LEMMA Divides ==
  ASSUME NEW k \in Nat \ {0}, NEW b \in Nat
  PROVE  (k * b) % k = 0
<1> DEFINE i == k * b
           q == i \div k
           r == i % k
<1>1. i \in Nat
  BY SMT
<1> HIDE DEF i
<1>2. q \in Nat /\ r \in 0 .. k - 1 /\ i = k * q + r
  BY <1>1, SMT
<1> HIDE DEF q, r
<1>3. r = 0
  BY <1>2, Quotient DEF i
<1> QED
  BY <1>3 DEF r, i

\* Twice a power of two is one: an odd divisor of it would divide the half.
LEMMA Doubles ==
  ASSUME NEW i \in Nat \ {0}, CC!is_zero_or_power_of_two(i)
  PROVE  CC!is_zero_or_power_of_two(2 * i)
<1> SUFFICES ASSUME NEW k \in 2 .. 2 * i, (2 * i) % k = 0, k % 2 # 0 PROVE FALSE
  BY DEF CC!is_zero_or_power_of_two
<1>1. PICK m \in Nat : 2 * i = k * m
  BY SMT
<1>2. PICK a \in Nat : k = 2 * a + 1
  BY SMT
<1>3. CASE m % 2 = 0
  <2>1. PICK b \in Nat : m = 2 * b
    BY <1>3, SMT
  <2>2. i = k * b
    BY <1>1, <2>1, SMT
  <2>3. i % k = 0
    <3>1. k \in Nat \ {0}
      OBVIOUS
    <3> QED
      BY <2>2, <3>1, Divides
  <2>4. k <= i
    BY <2>2, SMT
  <2> QED
    BY <2>3, <2>4 DEF CC!is_zero_or_power_of_two
<1>4. CASE m % 2 # 0
  <2>1. PICK b \in Nat : m = 2 * b + 1
    BY <1>4, SMT
  <2>2. k * m = 2 * (2 * (a * b) + a + b) + 1
    BY <1>2, <2>1, SMT
  <2>3. a * b \in Nat
    BY SMT
  <2> QED
    BY <1>1, <2>2, <2>3, SMT
<1> QED
  BY <1>3, <1>4

\* The directory of a node of the path.
LEMMA NodeDirs == ASSUME NEW s \in Streams, NEW i \in 1 .. Len(s.path) PROVE s.path[i].dir \in Dirs
<1> DEFINE p == s.path
<1>1. p \in Seq(Nodes)
  BY DEF Streams
<1>2. i \in 1 .. Len(p)
  OBVIOUS
<1> HIDE DEF p
<1>3. p[i] \in Nodes
  BY <1>1, <1>2
<1>4. p[i].dir \in Dirs
  BY <1>3 DEF Nodes
<1> QED
  BY <1>4 DEF p

----------------------------------------------------------------------------
(***************************************************************************)
(* The parts of a call.                                                    *)
(***************************************************************************)

\* A directory that is about to be entered.
Arriving(s) ==
    /\ s \in Streams /\ s.status = "walking" /\ Outside(s)
    /\ Cur(s).info = "D" /\ ~Cur(s).errno /\ Cur(s).instr = "NOINSTR" /\ Anew(s)

\* One that is left: what is known of it is no longer that it is to be visited.
Leaving(s) ==
    /\ s \in Streams /\ s.status = "walking" /\ Inside(s)
    /\ Cur(s).info \in Infos \ {"D", "DC"} /\ Cur(s).instr = "NOINSTR"

LEMMA EnterTableKeeps ==
  ASSUME NEW s, Arriving(s), HasTable
  PROVE  /\ Good(enter_dir(s)) /\ enter_dir(s).status = "walking"
         /\ Cur(s).dir \notin s.active =>
              Inside(enter_dir(s)) /\ enter_dir(s).path = s.path
<1>1. enter_dir(s) = EnterTable(s, Cur(s).dir) /\ s \in Streams /\ Cur(s).dir \in Dirs /\ Outside(s)
  BY CurTyped DEF enter_dir, Arriving, Nodes
<1>2. CASE Cur(s).dir \in s.active
  <2>1. enter_dir(s) = Informed(s, "DC")
    BY <1>1, <1>2 DEF EnterTable
  <2>2. /\ Beside(Informed(s, "DC"), s) /\ Cur(Informed(s, "DC")).info = "DC"
        /\ Cur(Informed(s, "DC")).dir = Cur(s).dir /\ Cur(Informed(s, "DC")).instr = "NOINSTR"
    BY <1>1, InformedBeside DEF Infos, Arriving
  <2>3. Outside(Informed(s, "DC"))
    BY <1>1, <2>2, BesideKeeps
  <2> QED
    BY <1>1, <1>2, <2>1, <2>2, <2>3 DEF Good, Closes, Beside, Outside, Arriving
<1>3. CASE Cur(s).dir \notin s.active
  <2> DEFINE t == [s EXCEPT !.active = @ \cup {Cur(s).dir}]
  <2>1. enter_dir(s) = t
    BY <1>1, <1>3 DEF EnterTable
  <2>2. /\ t \in Streams /\ t.path = s.path /\ t.active = s.active \cup {Cur(s).dir}
        /\ t.status = s.status
    BY <1>1 DEF Streams
  <2> HIDE DEF t
  <2>3. Cur(t) = Cur(s) /\ InnerDirs(t) = InnerDirs(s) /\ Inner(t) = Inner(s)
    BY <2>2 DEF Cur, InnerDirs, Inner
  <2>4. Inside(t)
    BY <1>1, <1>3, <2>2, <2>3 DEF Inside, Outside
  <2> QED
    BY <2>1, <2>2, <2>3, <2>4 DEF Good, Inside, Arriving
<1> QED
  BY <1>2, <1>3

\* A check: the record is taken at every power of two, so it is never older.
LEMMA CheckedRecent ==
  ASSUME NEW s \in Streams, NEW t, NEW n \in Nat, Recent(s, n), n = 0 => s.counter = 0, n + 1 = Len(s.path),
         t.path = s.path, t.counter = s.counter + 1,
         t.record = CC!RecordAfter(s.counter + 1, s.record, s.path[n + 1].dir)
  PROVE  Recent(t, n + 1)
<1> DEFINE c == s.counter
           d == s.path[n + 1].dir
<1>1. c \in Nat /\ t.counter = c + 1 /\ t.record = CC!RecordAfter(c + 1, s.record, d)
  BY DEF Streams
<1>2. CASE CC!is_zero_or_power_of_two(c + 1)
  <2>1. t.record = d
    BY <1>1, <1>2 DEF CC!RecordAfter
  <2>2. c + 1 \in 1 .. c + 1 /\ c + 1 < 2 * (c + 1) /\ n + 1 \in 1 .. n + 1 /\ (n + 1) - (n + 1) <= (c + 1) - (c + 1)
    BY <1>1
  <2> HIDE DEF c, d
  <2>3. t.path[n + 1].dir = t.record
    BY <2>1 DEF d
  <2> QED
    BY <1>1, <1>2, <2>2, <2>3 DEF Recent
<1>3. CASE ~CC!is_zero_or_power_of_two(c + 1)
  <2>1. t.record = s.record
    BY <1>1, <1>3 DEF CC!RecordAfter
  <2>2. n # 0
    <3>1. CC!is_zero_or_power_of_two(1)
      BY DEF CC!is_zero_or_power_of_two
    <3> QED
      BY <1>1, <1>3, <3>1
  <2>3. PICK p \in 1 .. c : /\ CC!is_zero_or_power_of_two(p) /\ c < 2 * p
                           /\ \E i \in 1 .. n : s.path[i].dir = s.record /\ n - i <= c - p
    BY <2>2 DEF Recent
  <2>4. PICK i \in 1 .. n : s.path[i].dir = s.record /\ n - i <= c - p
    BY <2>3
  <2> HIDE DEF c
  <2>5. c + 1 # 2 * p
    <3>1. CC!is_zero_or_power_of_two(2 * p)
      BY <2>3, Doubles
    <3> QED
      BY <1>3, <3>1
  <2>6. p \in 1 .. c + 1 /\ c + 1 < 2 * p /\ i \in 1 .. n + 1 /\ (n + 1) - i <= (c + 1) - p
    BY <1>1, <2>3, <2>4, <2>5
  <2> QED
    BY <1>1, <2>1, <2>3, <2>4, <2>6 DEF Recent
<1> QED
  BY <1>2, <1>3

LEMMA EnterLazilyKeeps ==
  ASSUME NEW s, Arriving(s), ~HasTable
  PROVE  Good(enter_dir(s)) /\ enter_dir(s).status = "walking"
<1> DEFINE d == Cur(s).dir
           n == Len(s.path) - 1
           r == CC!RecordAfter(s.counter + 1, s.record, d)
<1>1. enter_dir(s) = EnterLazily(s, d) /\ s \in Streams /\ d \in Dirs /\ Outside(s)
  BY CurTyped DEF enter_dir, Arriving, Nodes
<1>2. n \in Nat /\ n + 1 = Len(s.path) /\ Cur(s) = s.path[n + 1] /\ (n = 0 => s.counter = 0) /\ Recent(s, n)
  <2> DEFINE m == Len(s.path)
  <2>1. m \in Nat \ {0} /\ Cur(s) = s.path[m] /\ (m = 1 => s.counter = 0) /\ Recent(s, m - 1)
    BY <1>1, CurTyped DEF Arriving, Anew, Outside
  <2> HIDE DEF m
  <2>2. m - 1 \in Nat /\ (m - 1) + 1 = m /\ (m - 1 = 0 => m = 1)
    BY <2>1
  <2> QED
    BY <2>1, <2>2 DEF m
<1> HIDE DEF n
<1>3. CASE CC!IsRecorded(s.counter, s.record, d)
  <2>1. enter_dir(s) = Informed(s, "DC")
    BY <1>1, <1>3 DEF EnterLazily
  <2>2. /\ Beside(Informed(s, "DC"), s) /\ Cur(Informed(s, "DC")).info = "DC"
        /\ Cur(Informed(s, "DC")).dir = Cur(s).dir /\ Cur(Informed(s, "DC")).instr = "NOINSTR"
    BY <1>1, InformedBeside DEF Infos, Arriving
  <2>3. Outside(Informed(s, "DC"))
    BY <1>1, <2>2, BesideKeeps
  <2>4. s.counter # 0 /\ d = s.record
    BY <1>3 DEF CC!IsRecorded
  <2>5. Len(s.path) > 1
    BY <1>2, <2>4
  <2> QED
    BY <2>1, <2>2, <2>3, <2>4, <2>5 DEF Good, Closes, Beside, Outside, Arriving
<1>4. CASE ~CC!IsRecorded(s.counter, s.record, d)
  <2> DEFINE t == [s EXCEPT !.counter = s.counter + 1, !.record = r]
  <2>1. enter_dir(s) = t
    BY <1>1, <1>4 DEF EnterLazily
  <2>2. r \in Dirs
    BY <1>1 DEF CC!RecordAfter, Streams
  <2>3. s.counter + 1 \in Nat
    BY <1>1 DEF Streams
  <2> HIDE DEF r
  <2>7. /\ t \in Streams /\ t.path = s.path /\ t.counter = s.counter + 1 /\ t.record = r
        /\ t.status = s.status
    BY <1>1, <2>2, <2>3 DEF Streams
  <2> HIDE DEF t
  <2>4. Cur(t) = Cur(s) /\ Inner(t) = Inner(s)
    BY <2>7 DEF Cur, Inner
  <2>5. Recent(t, n + 1)
    BY <1>1, <1>2, <2>7, CheckedRecent DEF r
  <2>6. Inside(t)
    BY <1>1, <1>2, <2>7, <2>4, <2>5 DEF Inside, Outside
  <2> QED
    BY <2>1, <2>7, <2>4, <2>6 DEF Good, Inside, Arriving
<1> QED
  BY <1>3, <1>4

LEMMA EnterKeeps ==
  ASSUME NEW s, Arriving(s)
  PROVE  /\ Good(enter_dir(s)) /\ enter_dir(s).status = "walking"
         /\ HasTable /\ Cur(s).dir \notin s.active =>
              Inside(enter_dir(s)) /\ enter_dir(s).path = s.path
BY EnterTableKeeps, EnterLazilyKeeps

LEMMA LeaveTableKeeps ==
  ASSUME NEW s \in Streams, Inside(s), HasTable
  PROVE  /\ leave_dir(s) \in Streams /\ Outside(leave_dir(s))
         /\ leave_dir(s).path = s.path /\ leave_dir(s).status = s.status
         /\ Cur(leave_dir(s)) = Cur(s) /\ Cur(s).dir \notin leave_dir(s).active
<1> DEFINE t == [s EXCEPT !.active = @ \ {Cur(s).dir}]
<1>1. leave_dir(s) = t
  BY DEF leave_dir, LeaveTable, Inside
<1>2. t \in Streams /\ t.path = s.path /\ t.active = s.active \ {Cur(s).dir} /\ t.status = s.status
  BY DEF Streams
<1> HIDE DEF t
<1>3. Cur(t) = Cur(s) /\ InnerDirs(t) = InnerDirs(s) /\ Inner(t) = Inner(s)
  BY <1>2 DEF Cur, InnerDirs, Inner
<1>4. Outside(t)
  BY <1>2, <1>3 DEF Inside, Outside
<1> QED
  BY <1>1, <1>2, <1>3, <1>4 DEF t

LEMMA LeaveLazilyKeeps ==
  ASSUME NEW s \in Streams, Inside(s), ~HasTable
  PROVE  /\ leave_dir(s) \in Streams /\ Outside(leave_dir(s))
         /\ leave_dir(s).path = s.path /\ leave_dir(s).status = s.status
<1> DEFINE n == Len(s.path)
           t == leave_dir(s)
<1>1. n \in Nat \ {0} /\ Cur(s) = s.path[n] /\ Recent(s, n) /\ Inner(s) /\ s.counter \in Nat
  BY CurTyped DEF Inside, Streams
<1>2. CASE n = 1
  <2>1. t = s
    BY <1>2 DEF leave_dir, LeaveLazily
  <2>2. Recent(t, n - 1)
    BY <1>2 DEF Recent
  <2> QED
    BY <1>1, <2>1, <2>2 DEF Outside
<1>3. CASE n # 1
  <2> DEFINE c == s.counter
             r == CC!RecordUp(s.record, Parent(s).dir, Cur(s).dir)
             m == n - 1
  <2>1. PICK p \in 1 .. c : /\ CC!is_zero_or_power_of_two(p) /\ c < 2 * p
                           /\ \E i \in 1 .. n : s.path[i].dir = s.record /\ n - i <= c - p
    BY <1>1 DEF Recent
  <2>2. PICK i \in 1 .. n : s.path[i].dir = s.record /\ n - i <= c - p
    BY <2>1
  <2>3. c # 0 /\ Parent(s) = s.path[m]
    BY <1>1, <2>1 DEF Parent
  <2>4. t = [s EXCEPT !.record = r]
    <3>1. t = LeaveLazily(s, Cur(s).dir)
      BY DEF leave_dir
    <3>2. LeaveLazily(s, Cur(s).dir) = [s EXCEPT !.record = CC!RecordUp(@, Parent(s).dir, Cur(s).dir)]
      BY <1>3, <2>3 DEF LeaveLazily
    <3> QED
      BY <3>1, <3>2 DEF CC!RecordUp
  <2> HIDE DEF t, n, c, m
  <2>5. m = n - 1 /\ m \in Nat \ {0} /\ m \in 1 .. n
    BY <1>1, <1>3 DEF m
  <2>6. s.path[m].dir \in Dirs
    BY <2>5, NodeDirs DEF n
  <2>7. r \in Dirs
    BY <2>3, <2>6 DEF CC!RecordUp, Streams
  <2>8. \E j \in 1 .. m : s.path[j].dir = r /\ m - j <= c - p
    <3>1. CASE s.record = Cur(s).dir
      <4>1. r = s.path[m].dir
        BY <2>3, <3>1 DEF CC!RecordUp
      <4>2. m \in 1 .. m /\ m - m <= c - p
        BY <1>1, <2>1, <2>5 DEF c
      <4> QED
        BY <4>1, <4>2
    <3>2. CASE s.record # Cur(s).dir
      <4>1. r = s.record /\ i # n
        BY <1>1, <2>2, <3>2 DEF CC!RecordUp
      <4>2. i \in 1 .. m /\ m - i <= c - p
        BY <1>1, <2>1, <2>2, <2>5, <4>1 DEF c
      <4> QED
        BY <2>2, <4>1, <4>2
    <3> QED
      BY <3>1, <3>2
  <2> HIDE DEF r
  <2>9. /\ t \in Streams /\ t.path = s.path /\ t.record = r /\ t.counter = c /\ t.status = s.status
    BY <2>4, <2>7 DEF Streams, c
  <2>10. Recent(t, m)
    BY <2>1, <2>8, <2>9 DEF Recent
  <2>11. Inner(t)
    BY <1>1, <2>9 DEF Inner
  <2> QED
    BY <2>5, <2>9, <2>10, <2>11 DEF Outside, n, t
<1> QED
  BY <1>2, <1>3

LEMMA LeaveKeeps ==
  ASSUME NEW s \in Streams, Inside(s)
  PROVE  /\ leave_dir(s) \in Streams /\ Outside(leave_dir(s))
         /\ leave_dir(s).path = s.path /\ leave_dir(s).status = s.status
         /\ Cur(leave_dir(s)) = Cur(s)
         /\ HasTable => Cur(s).dir \notin leave_dir(s).active
<1>1. /\ leave_dir(s) \in Streams /\ Outside(leave_dir(s))
      /\ leave_dir(s).path = s.path /\ leave_dir(s).status = s.status
      /\ HasTable => Cur(s).dir \notin leave_dir(s).active
  BY LeaveTableKeeps, LeaveLazilyKeeps
<1> QED
  BY <1>1 DEF Cur

LEMMA LeavingGood ==
  ASSUME NEW s, Leaving(s)
  PROVE  Good(leave_dir(s))
BY LeaveKeeps DEF Leaving, Good, Outside, Infos

\* FTS_NS and the like, outside of the directory.
LEMMA FailedGood ==
  ASSUME NEW s \in Streams, s.status = "walking", Outside(s), Cur(s).instr = "NOINSTR",
         NEW info \in Infos \ {"D", "DC"}
  PROVE  Good(Failed(s, info))
<1>1. /\ Beside(Failed(s, info), s) /\ Cur(Failed(s, info)).info = info
      /\ Cur(Failed(s, info)).instr = "NOINSTR"
  BY FailedBeside
<1>2. Outside(Failed(s, info))
  BY <1>1, BesideKeeps
<1> QED
  BY <1>1, <1>2 DEF Good, Beside, Outside, Infos

LEMMA VisitGood ==
  ASSUME NEW s \in Streams, s.status = "walking", Outside(s), Cur(s).instr = "NOINSTR",
         ~Cur(s).errno, Anew(s), NEW t \in Visit(s)
  PROVE  Good(t)
<1>1. CASE t = enter_dir(Informed(s, "D"))
  <2> DEFINE u == Informed(s, "D")
  <2>1. Beside(u, s) /\ Cur(u).info = "D" /\ ~Cur(u).errno /\ Cur(u).instr = "NOINSTR"
    BY InformedBeside DEF Infos
  <2> HIDE DEF u
  <2>2. Anew(u)
    BY <2>1 DEF Anew, Beside
  <2>3. Arriving(u)
    BY <2>1, <2>2, BesideKeeps DEF Arriving, Beside
  <2> QED
    BY <1>1, <2>3, EnterKeeps DEF u
<1>2. ASSUME NEW u \in Fails(s, "stat"), t = Failed(u, "NS") PROVE Good(t)
  <2>1. Beside(u, s) /\ Cur(u) = Cur(s)
    BY FailsBeside
  <2>2. u \in Streams /\ u.status = "walking" /\ Outside(u) /\ Cur(u).instr = "NOINSTR"
    BY <2>1, BesideKeeps DEF Beside
  <2> QED
    BY <1>2, <2>2, FailedGood DEF Infos
<1> QED
  BY <1>1, <1>2 DEF Visit

LEMMA MovedGood ==
  ASSUME NEW s \in Streams, s.status = "walking", Outside(s), Anew(s),
         NEW entries \in SUBSET Dirs, NEW t \in Moved(s, entries)
  PROVE  Good(t)
<1>1. PICK d \in entries : t \in Visit(With(s, Node(d, "NSOK", entries \ {d})))
  BY DEF Moved
<1> DEFINE node == Node(d, "NSOK", entries \ {d})
           u == With(s, node)
<1>2. node \in Nodes /\ node.instr = "NOINSTR" /\ ~node.errno
  BY DEF Node, Nodes
<1> HIDE DEF node
<1>3. Beside(u, s) /\ Cur(u) = node
  BY <1>2, WithBeside
<1> HIDE DEF u
<1>4. u \in Streams /\ u.status = "walking" /\ Outside(u) /\ Anew(u)
  BY <1>3, BesideKeeps DEF Beside, Anew
<1> QED
  BY <1>1, <1>2, <1>3, <1>4, VisitGood DEF u, node

LEMMA DownGood ==
  ASSUME NEW s \in Streams, s.status = "walking", Inside(s),
         Cur(s).info = "D", ~Cur(s).errno, Cur(s).instr = "NOINSTR",
         NEW entries \in SUBSET Dirs, NEW t \in Down(s, entries)
  PROVE  Good(t)
<1> DEFINE node == Node(Cur(s).dir, "NSOK", {})
           u == [s EXCEPT !.path = Append(@, node)]
<1>1. node \in Nodes /\ Len(s.path) \in Nat \ {0} /\ s.path \in Seq(Nodes) /\ Cur(s) = s.path[Len(s.path)]
  BY CurTyped DEF Node, Nodes
<1> HIDE DEF node
<1>2. /\ u \in Streams /\ Len(u.path) = Len(s.path) + 1
      /\ \A i \in 1 .. Len(s.path) : u.path[i] = s.path[i]
      /\ u.active = s.active /\ u.status = s.status /\ u.counter = s.counter /\ u.record = s.record
  <2>1. Append(s.path, node) \in Seq(Nodes) \ {<<>>}
    BY <1>1
  <2>2. /\ u \in Streams /\ u.path = Append(s.path, node) /\ u.active = s.active /\ u.status = s.status
        /\ u.counter = s.counter /\ u.record = s.record
    BY <2>1 DEF Streams
  <2> QED
    BY <1>1, <2>2
<1>3. t \in Moved(u, entries)
  BY DEF Down, node
<1> HIDE DEF u
<1>4. InnerDirs(u) = InnerDirs(s) \cup {Cur(s).dir}
  BY <1>1, <1>2, SMTT(30) DEF InnerDirs
<1>5. Inner(u)
  <2>1. \A i \in 1 .. Len(u.path) - 1 :
          u.path[i].info = "D" /\ ~u.path[i].errno /\ u.path[i].instr = "NOINSTR"
    BY <1>1, <1>2 DEF Inside, Inner
  <2>2. ASSUME HasTable, NEW i \in 1 .. Len(u.path) - 1, NEW j \in 1 .. Len(u.path) - 1,
               u.path[i].dir = u.path[j].dir
        PROVE  i = j
    <3>1. i \in 1 .. Len(s.path) /\ j \in 1 .. Len(s.path) /\ s.path[i].dir = s.path[j].dir
      BY <1>1, <1>2, <2>2
    <3>2. \A k \in 1 .. Len(s.path) - 1 : s.path[k].dir # s.path[Len(s.path)].dir
      BY <1>1, <2>2 DEF Inside, InnerDirs
    <3>3. CASE i = Len(s.path) \/ j = Len(s.path)
      BY <1>1, <3>1, <3>2, <3>3
    <3>4. CASE i # Len(s.path) /\ j # Len(s.path)
      BY <1>1, <2>2, <3>1, <3>4 DEF Inside, Inner
    <3> QED
      BY <3>3, <3>4
  <2> QED
    BY <2>1, <2>2 DEF Inner
<1>6. Outside(u) /\ Anew(u)
  <2> DEFINE n == Len(s.path)
  <2>1. n \in Nat \ {0} /\ Len(u.path) = n + 1 /\ \A i \in 1 .. n : u.path[i] = s.path[i]
    BY <1>1, <1>2
  <2>2. ~HasTable => Recent(s, n)
    BY DEF Inside
  <2> HIDE DEF n
  <2>3. ~HasTable => Recent(u, n)
    BY <1>2, <2>1, <2>2 DEF Recent
  <2>4. Len(u.path) - 1 = n /\ Len(u.path) # 1
    BY <2>1
  <2> QED
    BY <1>2, <1>4, <1>5, <2>3, <2>4 DEF Outside, Inside, Anew
<1> QED
  BY <1>2, <1>3, <1>6, MovedGood

\* A directory entered and to be read.
Visiting(s) ==
    /\ s \in Streams /\ s.status = "walking" /\ Inside(s)
    /\ Cur(s).info = "D" /\ ~Cur(s).errno /\ Cur(s).instr = "NOINSTR"

LEMMA LostGood ==
  ASSUME NEW s \in Streams, Inner(s), Cur(s).info # "NSOK", NEW t \in Lost(s)
  PROVE  Good(t)
<1>1. PICK u \in Fails(s, "up") : t = [u EXCEPT !.status = "stopped"]
  BY DEF Lost
<1>2. u \in Streams /\ u.path = s.path
  BY FailsBeside DEF Beside
<1>3. t \in Streams /\ t.path = s.path /\ t.status = "stopped"
  BY <1>1, <1>2 DEF Streams
<1> QED
  BY <1>3 DEF Good, Inner, Cur

LEMMA ChildlessGood ==
  ASSUME NEW s, Leaving(s), Cur(s).info # "INIT"
  PROVE  Good(Childless(s))
<1> DEFINE info == IF Cur(s).errno /\ Cur(s).info # "DNR" THEN "ERR" ELSE Cur(s).info
           t == Informed(s, info)
<1>1. info \in Infos \ {"D", "DC"}
  BY DEF Leaving, Infos
<1>2. Childless(s) = leave_dir(t)
  BY DEF Childless
<1> HIDE DEF info
<1>3. /\ Beside(t, s) /\ Cur(t).info = info /\ Cur(t).dir = Cur(s).dir /\ Cur(t).instr = Cur(s).instr
  BY <1>1, InformedBeside DEF Leaving
<1> HIDE DEF t
<1>4. Leaving(t)
  BY <1>1, <1>3, BesideKeeps DEF Leaving, Beside
<1> QED
  BY <1>2, <1>4, LeavingGood

LEMMA ReadBeside ==
  ASSUME NEW s \in Streams, NEW r \in Read(s)
  PROVE  /\ Beside(r.stream, s) /\ r.entries \in SUBSET Dirs
         /\ Cur(r.stream).dir = Cur(s).dir /\ Cur(r.stream).errno = Cur(s).errno
         /\ Cur(r.stream).instr = Cur(s).instr
         /\ Cur(r.stream).info = IF r.entries = {} THEN "DP" ELSE Cur(s).info
<1> DEFINE cur == Cur(s)
           size == Min({opt.max_entries, Cardinality(cur.unread)})
<1>1. PICK batch \in kSubset(size, cur.unread) :
        r = [stream |-> With(s, [cur EXCEPT !.unread = @ \ batch, !.dirp = (size = opt.max_entries),
                                            !.info = IF batch = {} THEN "DP" ELSE @]),
             entries |-> batch]
  BY DEF Read
<1> DEFINE info == IF batch = {} THEN "DP" ELSE cur.info
           dirp == (size = opt.max_entries)
           node == [cur EXCEPT !.unread = @ \ batch, !.dirp = dirp, !.info = info]
<1>2. cur \in Nodes /\ batch \subseteq cur.unread /\ dirp \in BOOLEAN
  BY CurTyped DEF kSubset
<1>3. r = [stream |-> With(s, node), entries |-> batch]
  BY <1>1
<1>4. node = [cur EXCEPT !.unread = @ \ batch, !.dirp = dirp, !.info = info]
  OBVIOUS
<1>5. info \in Infos \cup {"NSOK"} /\ cur.unread \subseteq Dirs
  BY <1>2 DEF Nodes, Infos
<1> HIDE DEF cur, size, info, dirp, node
<1>6. node = [dir |-> cur.dir, info |-> info, errno |-> cur.errno, link |-> cur.link, dirp |-> dirp,
              unread |-> cur.unread \ batch, instr |-> cur.instr]
  BY <1>2, <1>4 DEF Nodes
<1>7. node \in Nodes /\ node.dir = cur.dir /\ node.info = info /\ node.errno = cur.errno
      /\ node.instr = cur.instr
  BY <1>2, <1>5, <1>6 DEF Nodes
<1>8. Beside(With(s, node), s) /\ Cur(With(s, node)) = node
  BY <1>7, WithBeside
<1>9. batch \in SUBSET Dirs
  BY <1>2, <1>5
<1> QED
  BY <1>3, <1>7, <1>8, <1>9 DEF cur, info

(***************************************************************************)
(* The faults and instructions that what is known of the path survives:    *)
(* those that the runs fts_read_error and fts_again, and the abstractions  *)
(* of FtsWalk, show it not to survive are left out.  A stat that fails     *)
(* when FTS_AGAIN asks for it - two troubles - leaves the directory        *)
(* entered as well.                                                        *)
(***************************************************************************)
Tidy(setup) ==
    /\ "read" \notin setup.faults
    /\ setup.mode = "tight" => {"fstat", "mount"} \cap setup.faults = {}
    /\ setup.set_on \subseteq {"D"}
    /\ "stat" \in setup.faults => setup.set_on = {} \/ MaxTrouble = 1

LEMMA DownOrBackGood ==
  ASSUME NEW s, Visiting(s), NEW r \in Read(s), NEW t \in DownOrBack(r)
  PROVE  Good(t)
<1>1. /\ Beside(r.stream, s) /\ r.entries \in SUBSET Dirs
      /\ Cur(r.stream).dir = Cur(s).dir /\ ~Cur(r.stream).errno /\ Cur(r.stream).instr = "NOINSTR"
      /\ Cur(r.stream).info = IF r.entries = {} THEN "DP" ELSE "D"
  BY ReadBeside DEF Visiting
<1>2. r.stream \in Streams /\ r.stream.status = "walking" /\ Inside(r.stream)
  BY <1>1, BesideKeeps DEF Visiting, Beside
<1>3. CASE r.entries = {} /\ t = Childless(r.stream)
  BY <1>1, <1>2, <1>3, ChildlessGood DEF Leaving, Infos
<1>4. CASE r.entries = {} /\ t \in Lost(Informed(r.stream, "ERR"))
  <2>1. Beside(Informed(r.stream, "ERR"), r.stream) /\ Cur(Informed(r.stream, "ERR")).info = "ERR"
    BY <1>2, InformedBeside DEF Infos
  <2>2. Informed(r.stream, "ERR") \in Streams /\ Inner(Informed(r.stream, "ERR"))
    BY <1>2, <2>1, BesideKeeps DEF Beside, Inside
  <2> QED
    BY <1>4, <2>1, <2>2, LostGood
<1>5. CASE r.entries # {} /\ t \in Down(r.stream, r.entries)
  BY <1>1, <1>2, <1>5, DownGood
<1> QED
  BY <1>3, <1>4, <1>5 DEF DownOrBack

LEMMA ReopenedVisiting ==
  ASSUME NEW s, Visiting(s), Tidy(opt), NEW t \in Reopened(s)
  PROVE  Visiting(t)
<1>1. CASE t = s
  BY <1>1
<1>2. CASE t # s
  <2>1. s \in Streams /\ Inside(s) /\ opt.mode = "tight" /\ HasTable
    BY <1>2 DEF Visiting, Reopened, HasTable
  <2>2. Fails(s, "mount") = {}
    BY <2>1 DEF Fails, Tidy
  <2>3. t = enter_dir(leave_dir(s))
    BY <1>2, <2>1, <2>2 DEF Reopened
  <2> DEFINE u == leave_dir(s)
  <2>4. /\ u \in Streams /\ Outside(u) /\ u.path = s.path /\ u.status = s.status /\ Cur(u) = Cur(s)
        /\ Cur(u).dir \notin u.active
    BY <2>1, LeaveKeeps
  <2> HIDE DEF u
  <2>5. Arriving(u)
    BY <2>1, <2>4 DEF Arriving, Visiting, Anew
  <2>6. Good(enter_dir(u)) /\ enter_dir(u).status = "walking" /\ Inside(enter_dir(u)) /\ enter_dir(u).path = u.path
    BY <2>1, <2>4, <2>5, EnterKeeps
  <2>7. Cur(enter_dir(u)) = Cur(s)
    BY <2>4, <2>6 DEF Cur
  <2> QED
    BY <2>3, <2>6, <2>7 DEF Visiting, Good, u
<1> QED
  BY <1>1, <1>2

LEMMA OpenedVisiting ==
  ASSUME NEW s, Visiting(s), Tidy(opt), fs \in FileSystems, NEW t \in Opened(s)
  PROVE  Visiting(t)
<1>1. PICK u \in Reopened(s) :
        t = With([u EXCEPT !.visited = @ \cup {Cur(u).dir}], [Cur(u) EXCEPT !.unread = fs[Cur(u).dir]])
  BY DEF Opened
<1>2. Visiting(u) /\ u \in Streams
  BY ReopenedVisiting DEF Visiting
<1> DEFINE v == [u EXCEPT !.visited = @ \cup {Cur(u).dir}]
           node == [Cur(u) EXCEPT !.unread = fs[Cur(u).dir]]
<1>3. Cur(u) \in Nodes /\ Cur(u).dir \in Dirs
  BY <1>2, CurTyped DEF Nodes
<1>4. /\ node \in Nodes /\ node.dir = Cur(u).dir /\ node.info = Cur(u).info
      /\ node.errno = Cur(u).errno /\ node.instr = Cur(u).instr
  BY <1>3, FtsAssumption DEF Nodes
<1>5. /\ v \in Streams /\ v.path = u.path /\ v.active = u.active /\ v.status = u.status
      /\ v.counter = u.counter /\ v.record = u.record
  BY <1>2, <1>3 DEF Streams
<1>6. t = With(v, node)
  BY <1>1
<1> HIDE DEF v, node
<1>7. Beside(v, u) /\ Cur(v) = Cur(u)
  BY <1>5 DEF Beside, Cur
<1>8. Inside(v)
  BY <1>2, <1>7, BesideKeeps DEF Visiting
<1>9. Beside(t, v) /\ Cur(t) = node
  BY <1>4, <1>5, <1>6, WithBeside
<1>10. Inside(t)
  BY <1>4, <1>5, <1>7, <1>8, <1>9, BesideKeeps
<1> QED
  BY <1>2, <1>4, <1>5, <1>9, <1>10 DEF Visiting, Beside

\* The directory could not be read: post-order at once.
LEMMA UnreadGood ==
  ASSUME NEW s, Visiting(s), NEW fault, NEW t \in Fails(s, fault), NEW info \in {"DNR", "DP"}
  PROVE  Good(Childless(Failed(t, info)))
<1>1. Beside(t, s) /\ Cur(t) = Cur(s) /\ s \in Streams /\ t \in Streams
  BY FailsBeside DEF Visiting, Beside
<1> DEFINE u == Failed(t, info)
<1>2. Beside(u, t) /\ Cur(u).info = info /\ Cur(u).dir = Cur(t).dir /\ Cur(u).instr = Cur(t).instr
  BY <1>1, FailedBeside DEF Infos
<1> HIDE DEF u
<1>3. Inside(t)
  BY <1>1, BesideKeeps DEF Visiting
<1>4. Inside(u)
  BY <1>1, <1>2, <1>3, BesideKeeps
<1>5. Leaving(u)
  BY <1>1, <1>2, <1>4 DEF Leaving, Visiting, Beside, Infos
<1> QED
  BY <1>2, <1>5, ChildlessGood DEF u

LEMMA UpGood ==
  ASSUME NEW s \in Streams, s.status = "walking", Inside(s),
         Cur(s).info \in {"D", "DP"}, ~Cur(s).errno, Cur(s).instr = "NOINSTR", NEW t \in Up(s)
  PROVE  Good(t)
<1>1. CASE t = GoneUp(s)
  <2> DEFINE u == Informed(s, "DP")
  <2>1. t = leave_dir(u)
    BY <1>1 DEF GoneUp
  <2>2. Beside(u, s) /\ Cur(u).info = "DP" /\ Cur(u).dir = Cur(s).dir /\ Cur(u).instr = "NOINSTR"
    BY InformedBeside DEF Infos
  <2> HIDE DEF u
  <2>3. Leaving(u)
    BY <2>2, BesideKeeps DEF Leaving, Beside, Infos
  <2> QED
    BY <2>1, <2>3, LeavingGood
<1>2. CASE t \in Lost(Failed(s, "ERR"))
  <2>1. Beside(Failed(s, "ERR"), s) /\ Cur(Failed(s, "ERR")).info = "ERR"
    BY FailedBeside DEF Infos
  <2>2. Failed(s, "ERR") \in Streams /\ Inner(Failed(s, "ERR"))
    BY <2>1, BesideKeeps DEF Beside, Inside
  <2> QED
    BY <1>2, <2>1, <2>2, LostGood
<1> QED
  BY <1>1, <1>2 DEF Up

LEMMA DownOrUpGood ==
  ASSUME NEW s, Visiting(s), NEW r \in Read(s), NEW t \in DownOrUp(r)
  PROVE  Good(t)
<1>1. /\ Beside(r.stream, s) /\ r.entries \in SUBSET Dirs
      /\ Cur(r.stream).dir = Cur(s).dir /\ ~Cur(r.stream).errno /\ Cur(r.stream).instr = "NOINSTR"
      /\ Cur(r.stream).info = IF r.entries = {} THEN "DP" ELSE "D"
  BY ReadBeside DEF Visiting
<1>2. r.stream \in Streams /\ r.stream.status = "walking" /\ Inside(r.stream)
  BY <1>1, BesideKeeps DEF Visiting, Beside
<1>3. CASE r.entries = {}
  BY <1>1, <1>2, <1>3, UpGood DEF DownOrUp
<1>4. CASE r.entries # {}
  BY <1>1, <1>2, <1>4, DownGood DEF DownOrUp
<1> QED
  BY <1>3, <1>4

\* Back in the parent, the walk is in a directory that it entered.
LEMMA PoppedVisiting ==
  ASSUME NEW s \in Streams, s.status = "walking", Outside(s), Len(s.path) > 1
  PROVE  Visiting(Popped(s))
<1> DEFINE n == Len(s.path) - 1
           path == Front(s.path)
<1>1. /\ Len(s.path) \in Nat /\ s.path \in Seq(Nodes) /\ n \in Nat \ {0} /\ n = Len(s.path) - 1
      /\ \A i \in 1 .. n : s.path[i] \in Nodes
  <2>1. Len(s.path) \in Nat /\ s.path \in Seq(Nodes)
    BY CurTyped
  <2>2. n \in Nat \ {0} /\ n = Len(s.path) - 1
    <3>1. Len(s.path) \in Nat /\ Len(s.path) > 1
      BY <2>1
    <3> DEFINE length == Len(s.path)
    <3> HIDE DEF length
    <3>2. length \in Nat /\ length > 1 => length - 1 \in Nat \ {0}
      OBVIOUS
    <3> QED
      BY <3>1, <3>2 DEF length
  <2>3. \A i \in 1 .. n : s.path[i] \in Nodes
    BY <2>1
  <2> QED
    BY <2>1, <2>2, <2>3
<1>2. path = SubSeq(s.path, 1, n)
  BY DEF Front
<1> HIDE DEF n, path
<1>3. path \in Seq(Nodes) /\ Len(path) = n /\ \A i \in 1 .. n : path[i] = s.path[i]
  BY <1>1, <1>2, SubSeqProperties
<1> DEFINE t == Popped(s)
<1>4. /\ t \in Streams /\ t.path = path /\ t.active = s.active /\ t.status = s.status
      /\ t.counter = s.counter /\ t.record = s.record
  BY <1>1, <1>3 DEF Popped, Streams, path
<1>5. Popped(s) = t
  OBVIOUS
<1> HIDE DEF t
<1>6. Cur(t) = s.path[n]
  BY <1>1, <1>3, <1>4, CurTyped
<1>7. n \in 1 .. Len(s.path) - 1 /\ \A i \in 1 .. Len(t.path) - 1 : i \in 1 .. Len(s.path) - 1 /\ t.path[i] = s.path[i] /\ i # n
  BY <1>1, <1>3, <1>4
<1>8. Inner(t)
  <2>1. \A i \in 1 .. Len(t.path) - 1 :
          t.path[i].info = "D" /\ ~t.path[i].errno /\ t.path[i].instr = "NOINSTR"
    BY <1>7 DEF Outside, Inner
  <2>2. HasTable => \A i, j \in 1 .. Len(t.path) - 1 : t.path[i].dir = t.path[j].dir => i = j
    BY <1>7 DEF Outside, Inner
  <2> QED
    BY <2>1, <2>2 DEF Inner
<1>9. HasTable => Cur(t).dir \notin InnerDirs(t)
  BY <1>6, <1>7, ZenonT(60) DEF InnerDirs, Outside, Inner
<1>10. InnerDirs(s) = InnerDirs(t) \cup {Cur(t).dir}
  <2>1. 1 .. Len(s.path) - 1 = (1 .. Len(t.path) - 1) \cup {n}
    BY <1>1, <1>3, <1>4
  <2> QED
    BY <1>6, <1>7, <2>1, ZenonT(60) DEF InnerDirs
<1>12. ~HasTable => Recent(t, Len(t.path))
  <2>1. ~HasTable => Recent(s, n)
    BY <1>1 DEF Outside
  <2>2. Len(t.path) = n /\ \A i \in 1 .. n : t.path[i] = s.path[i]
    BY <1>3, <1>4
  <2> QED
    BY <1>4, <2>1, <2>2 DEF Recent
<1>11. Inside(t)
  BY <1>4, <1>8, <1>9, <1>10, <1>12 DEF Inside, Outside
<1> QED
  BY <1>4, <1>5, <1>6, <1>7, <1>11 DEF Visiting, Outside, Inner

----------------------------------------------------------------------------
(***************************************************************************)
(* The inductive invariant, and that every call keeps it.                  *)
(***************************************************************************)
FtsIInv == fs \in FileSystems /\ opt \in Setups /\ Good(sp)

\* The current node is one of these, when the caller has the stream.
LEMMA Walking ==
  ASSUME FtsIInv, sp.status = "walking"
  PROVE  /\ sp \in Streams /\ Inner(sp) /\ Cur(sp) \in Nodes
         /\ Cur(sp).info = "D" => Inside(sp) /\ ~Cur(sp).errno
         /\ Cur(sp).info # "D" => Outside(sp) /\ Cur(sp).instr = "NOINSTR"
BY CurTyped DEF FtsIInv, Good

\* The caller's instruction, read and zeroed, or set.
LEMMA InstructedBeside ==
  ASSUME NEW s \in Streams, NEW instr \in {"NOINSTR", "AGAIN", "SKIP"}
  PROVE  LET t == With(s, [Cur(s) EXCEPT !.instr = instr])
         IN /\ Beside(t, s) /\ Cur(t).instr = instr /\ Cur(t).dir = Cur(s).dir
            /\ Cur(t).info = Cur(s).info /\ Cur(t).errno = Cur(s).errno
<1> DEFINE node == [Cur(s) EXCEPT !.instr = instr]
<1>1. /\ node \in Nodes /\ node.instr = instr /\ node.dir = Cur(s).dir
      /\ node.info = Cur(s).info /\ node.errno = Cur(s).errno
  BY CurTyped DEF Nodes
<1> HIDE DEF node
<1>2. Beside(With(s, node), s) /\ Cur(With(s, node)) = node
  BY <1>1, WithBeside
<1> QED
  BY <1>1, <1>2 DEF node

LEMMA HeardVisiting ==
  ASSUME FtsIInv, sp.status = "walking", Cur(sp).info = "D"
  PROVE  Visiting(Heard)
<1>1. sp \in Streams /\ Inside(sp) /\ ~Cur(sp).errno
  BY Walking
<1>2. /\ Beside(Heard, sp) /\ Cur(Heard).instr = "NOINSTR" /\ Cur(Heard).dir = Cur(sp).dir
      /\ Cur(Heard).info = "D" /\ ~Cur(Heard).errno
  BY <1>1, InstructedBeside DEF Heard
<1> QED
  BY <1>1, <1>2, BesideKeeps DEF Visiting, Beside

\* What is said of a stream does not depend on the state otherwise.
LEMMA FtsFixed ==
  ASSUME UNCHANGED fixed, fs \in FileSystems, opt \in Setups, Good(sp')
  PROVE  fs' \in FileSystems /\ opt' \in Setups /\ Good(sp)'
BY DEF fixed, Good, Closes, Inside, Outside, Inner, InnerDirs, Recent, HasTable, Cur, Streams, Nodes, Infos

LEMMA SetGood ==
  ASSUME FtsIInv, Tidy(opt), NEW instr \in {"AGAIN", "SKIP"}, fts_set(instr)
  PROVE  FtsIInv'
<1> DEFINE s == [sp EXCEPT !.trouble = @ + 1]
           t == With(s, [Cur(sp) EXCEPT !.instr = instr])
<1>1. /\ sp.status = "walking" /\ Cur(sp).info = "D" /\ sp.trouble < MaxTrouble /\ sp' = t /\ UNCHANGED fixed
      /\ opt.set_on # {}
  BY DEF fts_set, Tidy
<1>2. sp \in Streams /\ Inside(sp) /\ ~Cur(sp).errno
  BY <1>1, Walking
<1>3. /\ s \in Streams /\ s.path = sp.path /\ s.active = sp.active /\ s.status = sp.status
      /\ s.counter = sp.counter /\ s.record = sp.record
  BY <1>1, <1>2, FtsAssumption, SMTT(30) DEF Streams
<1>4. s.trouble # 0
  BY <1>2 DEF Streams
<1> HIDE DEF s
<1>5. Cur(s) = Cur(sp) /\ Beside(s, sp)
  BY <1>3 DEF Cur, Beside
<1>6. /\ Beside(t, s) /\ Cur(t).dir = Cur(sp).dir /\ Cur(t).info = "D" /\ ~Cur(t).errno
  BY <1>1, <1>2, <1>3, <1>5, InstructedBeside, ZenonT(60)
<1>7. t.trouble # 0
  BY <1>3, <1>4 DEF With, Streams
<1> HIDE DEF t
<1>8. Inside(t) /\ t \in Streams /\ t.status = "walking"
  BY <1>1, <1>2, <1>3, <1>5, <1>6, BesideKeeps DEF Beside
<1>9. Good(t)
  BY <1>1, <1>6, <1>7, <1>8 DEF Good, Inside
<1> QED
  BY <1>1, <1>9, FtsFixed DEF FtsIInv

\* Where reading a directory does not fail, no reading fails.
LEMMA NoReadFails ==
  ASSUME NEW s, Fails(s, "read") = {}
  PROVE  ReadFails(s) = {}
<1> DEFINE F == Fails(s, "read")
           B == {b \in SUBSET Cur(s).unread : Cardinality(b) < opt.max_entries}
           R(t, batch) == [stream |-> With(t, [Cur(s) EXCEPT !.unread = {}, !.dirp = FALSE, !.errno = TRUE,
                                    !.info = IF Cur(s).dirp \/ batch # {} THEN "ERR" ELSE "DNR"]),
               entries |-> batch]
<1>1. ReadFails(s) = {R(t, batch) : t \in F, batch \in B}
  BY SMT DEF ReadFails
<1>2. F = {}
  OBVIOUS
<1> HIDE DEF F, B, R
<1> QED
  BY <1>1, <1>2

LEMMA ReadGood ==
  ASSUME FtsIInv, Tidy(opt), fts_read
  PROVE  FtsIInv'
<1>1. sp.status = "walking" /\ UNCHANGED fixed
  BY DEF fts_read, ReadAgain, ReadSkipped, ReadInto, ReadSibling, ReadRoot, ReadBatch, ReadUp,
         ReadEnd, Becomes
<1>2. /\ sp \in Streams /\ Inner(sp) /\ Cur(sp) \in Nodes
      /\ Cur(sp).info = "D" =>
           Inside(sp) /\ ~Cur(sp).errno /\ (Cur(sp).instr # "NOINSTR" => opt.set_on # {})
      /\ Cur(sp).info # "D" => Outside(sp) /\ Cur(sp).instr = "NOINSTR"
      /\ Cur(sp).info # "NSOK" /\ fs \in FileSystems
  BY <1>1, Walking DEF FtsIInv, Good
<1> SUFFICES Good(sp')
  BY <1>1, FtsFixed DEF FtsIInv
<1>3. CASE ReadAgain
  <2>1. Cur(sp).info = "D" /\ Visiting(Heard)
    BY <1>1, <1>2, <1>3, HeardVisiting DEF ReadAgain
  <2>2. Fails(Heard, "stat") = {}
    <3>1. opt.set_on # {} /\ sp.trouble # 0 /\ sp.trouble \in 0 .. MaxTrouble
      BY <1>1, <1>2, <1>3, <2>1 DEF ReadAgain, FtsIInv, Good, Streams
    <3>2. Heard.trouble = sp.trouble
      BY <1>2 DEF Heard, With, Streams
    <3> QED
      BY <3>1, <3>2 DEF Tidy, Fails
  <2>3. sp' = Informed(Heard, "D")
    BY <1>3, <2>2 DEF ReadAgain, Becomes
  <2>4. /\ Beside(sp', Heard) /\ Cur(sp').info = "D" /\ Cur(sp').dir = Cur(Heard).dir
        /\ Cur(sp').errno = Cur(Heard).errno /\ Cur(sp').instr = Cur(Heard).instr
    BY <2>1, <2>3, InformedBeside DEF Visiting, Infos
  <2> QED
    BY <2>1, <2>4, BesideKeeps DEF Visiting, Beside, Good, Inside
<1>4. CASE ReadSkipped
  <2>1. Visiting(Heard)
    BY <1>1, <1>4, HeardVisiting DEF ReadSkipped
  <2> DEFINE t == Informed(Heard, "DP")
  <2>2. sp' = leave_dir(t)
    BY <1>4 DEF ReadSkipped, Becomes
  <2>3. /\ Beside(t, Heard) /\ Cur(t).info = "DP" /\ Cur(t).dir = Cur(Heard).dir
        /\ Cur(t).instr = "NOINSTR"
    BY <2>1, InformedBeside DEF Visiting, Infos
  <2> HIDE DEF t
  <2>4. Leaving(t)
    BY <2>1, <2>3, BesideKeeps DEF Visiting, Beside, Leaving, Infos
  <2> QED
    BY <2>2, <2>4, LeavingGood
<1>5. CASE ReadInto
  <2>1. Visiting(sp)
    BY <1>1, <1>2, <1>5 DEF Visiting, ReadInto
  <2>2. CASE \E s \in Opened(sp) : \E r \in Read(s) : sp' \in DownOrBack(r)
    BY <1>2, <2>1, <2>2, OpenedVisiting, DownOrBackGood
  <2>3. \A s : ReadFails(s) = {}
    <3>1. \A s : Fails(s, "read") = {}
      BY DEF Fails, Tidy
    <3> QED
      BY <3>1, NoReadFails
  <2>4. CASE \E t \in Fails(sp, "open") : sp' = Childless(Failed(t, "DNR"))
    BY <2>1, <2>4, UnreadGood
  <2>5. RestatFails(sp) = {}
    <3>1. opt.mode = "tight" => Fails(sp, "fstat") = {}
      BY DEF Fails, Tidy
    <3> QED
      BY <3>1 DEF RestatFails
  <2>6. CASE \E t \in Reopened(sp) : \E u \in Fails(t, "chdir") : sp' = Childless(Failed(u, "DP"))
    BY <2>1, <2>6, ReopenedVisiting, UnreadGood
  <2>7. sp' \in {Childless(Failed(t, "DNR")) : t \in Fails(sp, "open")}
               \cup RestatFails(sp) \cup ChdirFails(sp)
               \cup UNION {DownOrBack(r) : r \in UNION {Read(s) \cup ReadFails(s) : s \in Opened(sp)}}
    BY <1>5 DEF ReadInto, Becomes
  <2> QED
    BY <2>2, <2>3, <2>4, <2>5, <2>6, <2>7 DEF ChdirFails
<1>6. CASE ReadSibling
  <2>1. Outside(sp) /\ sp' \in Moved(sp, Cur(sp).link) /\ Cur(sp).link \in SUBSET Dirs
    BY <1>2, <1>6 DEF ReadSibling, MovesOn, Becomes, Nodes
  <2>2. Anew(sp)
    BY <1>6, CurTyped DEF ReadSibling, Anew
  <2> QED
    BY <1>1, <1>2, <2>1, <2>2, MovedGood
<1>7. CASE ReadRoot
  <2>1. CASE sp' \in Lost(sp)
    BY <1>2, <2>1, LostGood
  <2>2. ASSUME NEW s \in SetUp(sp), sp' \in Moved(s, Cur(s).link) PROVE Good(sp')
    <3>1. Len(sp.path) = 1
      BY <1>7 DEF ReadRoot
    <3>2. PICK d \in Dirs : s = [sp EXCEPT !.active = {}, !.counter = 0, !.record = d]
      BY DEF SetUp
    <3>3. s = [path |-> sp.path, status |-> sp.status, active |-> {}, counter |-> 0, record |-> d,
               visited |-> sp.visited, trouble |-> sp.trouble]
      BY <1>2, <3>2 DEF Streams
    <3>4. s \in Streams /\ s.path = sp.path /\ s.active = {} /\ s.status = "walking" /\ s.counter = 0
      BY <1>1, <1>2, <3>3 DEF Streams
    <3>5. Outside(s) /\ Anew(s) /\ Cur(s).link \in SUBSET Dirs
      <4>1. InnerDirs(s) = {} /\ Inner(s)
        <5>1. 1 .. Len(s.path) - 1 = {}
          <6>1. Len(s.path) = 1
            BY <3>1, <3>4
          <6> QED
            BY <6>1
        <5> QED
          BY <5>1 DEF InnerDirs, Inner
      <4>2. Recent(s, Len(s.path) - 1) /\ Anew(s)
        BY <3>1, <3>4 DEF Recent, Anew
      <4> QED
        BY <3>4, <4>1, <4>2, CurTyped DEF Outside, Nodes
    <3> QED
      BY <2>2, <3>4, <3>5, MovedGood
  <2> QED
    BY <1>7, <2>1, <2>2 DEF ReadRoot, Becomes
<1>8. CASE ReadBatch \/ ReadUp
  <2>1. Outside(sp) /\ Len(sp.path) > 1
    BY <1>2, <1>8 DEF ReadBatch, ReadUp, LastOfBatch, MovesOn
  <2>2. Visiting(Popped(sp))
    BY <1>1, <1>2, <2>1, PoppedVisiting
  <2>3. \A s : ReadFails(s) = {}
    <3>1. \A s : Fails(s, "read") = {}
      BY DEF Fails, Tidy
    <3> QED
      BY <3>1, NoReadFails
  <2>4. CASE ReadBatch
    BY <2>2, <2>3, <2>4, DownOrUpGood DEF ReadBatch, Becomes
  <2>5. CASE ReadUp
    BY <2>2, <2>5, UpGood DEF ReadUp, Becomes, Visiting
  <2> QED
    BY <1>8, <2>4, <2>5
<1>9. CASE ReadEnd
  <2>1. sp' = [sp EXCEPT !.status = "done"]
    BY <1>9 DEF ReadEnd, Becomes
  <2>2. sp' \in Streams /\ sp'.path = sp.path /\ sp'.status = "done"
    BY <1>2, <2>1 DEF Streams
  <2> QED
    BY <1>2, <2>2 DEF Good, Inner, Cur
<1> QED
  BY <1>3, <1>4, <1>5, <1>6, <1>7, <1>8, <1>9 DEF fts_read

LEMMA FtsInitGood ==
  ASSUME Init
  PROVE  FtsIInv
<1> DEFINE first == CHOOSE d \in Dirs : TRUE
           node == Node(first, "INIT", Roots)
<1>1. PICK record \in Dirs :
        sp = [[path |-> <<node>>, status |-> "walking", active |-> {}, counter |-> 0, record |-> 0,
               visited |-> {}, trouble |-> 0] EXCEPT !.active = {}, !.counter = 0, !.record = record]
  BY DEF Init, SetUp
<1>2. first \in Dirs
  BY <1>1
<1>3. node \in Nodes /\ node.info = "INIT" /\ node.instr = "NOINSTR"
  BY <1>2, FtsAssumption DEF Node, Nodes, Infos
<1> HIDE DEF node
<1>4. sp = [path |-> <<node>>, status |-> "walking", active |-> {}, counter |-> 0, record |-> record,
            visited |-> {}, trouble |-> 0]
  BY <1>1
<1>5. sp \in Streams /\ sp.path = <<node>> /\ sp.status = "walking" /\ sp.active = {}
  BY <1>3, <1>4, FtsAssumption DEF Streams
<1>6. Cur(sp) = node /\ InnerDirs(sp) = {} /\ Inner(sp) /\ Recent(sp, Len(sp.path) - 1)
  BY <1>5 DEF Cur, Last, InnerDirs, Inner, Recent
<1>7. Good(sp)
  BY <1>3, <1>5, <1>6 DEF Good, Outside
<1> QED
  BY <1>7 DEF Init, FtsIInv

(***************************************************************************)
(* Good is kept by every call, in every setup that is tidy; a setup does   *)
(* not change.                                                             *)
(***************************************************************************)
THEOREM FtsInvariant == Spec => [](Tidy(opt) => FtsIInv)
<1>1. Init => FtsIInv
  BY FtsInitGood
<1>2. (Tidy(opt) => FtsIInv) /\ [Next]_vars => (Tidy(opt) => FtsIInv)'
  <2> SUFFICES ASSUME Tidy(opt) => FtsIInv, [Next]_vars, Tidy(opt)' PROVE FtsIInv'
    OBVIOUS
  <2>1. opt' = opt
    BY DEF Next, fts_read, fts_set, vars, fixed, Becomes,
           ReadAgain, ReadSkipped, ReadInto, ReadSibling, ReadRoot, ReadBatch, ReadUp, ReadEnd
  <2>2. FtsIInv /\ Tidy(opt)
    BY <2>1 DEF Tidy
  <2>3. CASE fts_read
    BY <2>2, <2>3, ReadGood
  <2>4. CASE \E instr \in {"AGAIN", "SKIP"} : fts_set(instr)
    BY <2>2, <2>4, SetGood
  <2>5. CASE UNCHANGED vars
    <3>1. UNCHANGED fixed /\ sp' = sp
      BY <2>5 DEF vars
    <3> QED
      BY <2>2, <3>1, FtsFixed DEF FtsIInv
  <2> QED
    BY <2>3, <2>4, <2>5 DEF Next
<1> QED
  BY <1>1, <1>2, PTL DEF Spec

\* The directories that the walk is in, in order and as a set.
LEMMA EnteredIs ==
  ASSUME NEW s \in Streams
  PROVE  LET n == IF Cur(s).info = "D" THEN Len(s.path) ELSE Len(s.path) - 1
         IN /\ Len(Entered(s)) = n /\ \A i \in 1 .. n : Entered(s)[i] = s.path[i].dir
            /\ Entered(s) \in Seq(Dirs)
<1> DEFINE n == Len(s.path)
           m == n - 1
           dirs == [i \in DOMAIN s.path |-> s.path[i].dir]
           front == Front(dirs)
<1>1. n \in Nat \ {0} /\ s.path \in Seq(Nodes) /\ DOMAIN s.path = 1 .. n
  BY CurTyped
<1>2. dirs \in Seq(Dirs) /\ Len(dirs) = n /\ \A i \in 1 .. n : dirs[i] = s.path[i].dir
  <2>1. \A i \in 1 .. n : s.path[i].dir \in Dirs
    BY NodeDirs
  <2>2. dirs = [i \in 1 .. n |-> s.path[i].dir] /\ n \in Nat
    BY <1>1
  <2> HIDE DEF n, dirs
  <2>3. dirs \in [1 .. n -> Dirs] /\ \A i \in 1 .. n : dirs[i] = s.path[i].dir
    BY <2>1, <2>2
  <2> QED
    BY <2>2, <2>3
<1>3. Entered(s) = IF Cur(s).info = "D" THEN dirs ELSE front
  BY DEF Entered
<1> HIDE DEF dirs
<1>4. front \in Seq(Dirs) /\ Len(front) = m /\ \A i \in 1 .. m : front[i] = s.path[i].dir
  <2>1. m \in Nat /\ m = n - 1 /\ \A i \in 1 .. m : i \in 1 .. n /\ dirs[i] \in Dirs
    BY <1>1, <1>2
  <2>2. front = SubSeq(dirs, 1, m)
    BY <1>2, <2>1 DEF Front
  <2> HIDE DEF n, m, front
  <2>3. front \in Seq(Dirs) /\ Len(front) = m /\ \A i \in 1 .. m : front[i] = dirs[i]
    BY <1>2, <2>1, <2>2, SubSeqProperties
  <2> QED
    BY <1>2, <2>1, <2>3
<1> HIDE DEF front
<1> QED
  BY <1>2, <1>3, <1>4

LEMMA EnteredSet ==
  ASSUME NEW s \in Streams
  PROVE  ToSet(Entered(s)) = InnerDirs(s) \cup (IF Cur(s).info = "D" THEN {Cur(s).dir} ELSE {})
<1> DEFINE n == Len(s.path)
           dirs == Entered(s)
<1>1. n \in Nat \ {0} /\ Cur(s) = s.path[n]
  BY CurTyped
<1>2. ToSet(dirs) = {dirs[i] : i \in 1 .. Len(dirs)}
  BY EnteredIs DEF ToSet
<1>3. CASE Cur(s).info = "D"
  <2>1. Len(dirs) = n /\ \A i \in 1 .. n : dirs[i] = s.path[i].dir
    BY <1>3, EnteredIs
  <2>2. 1 .. n = (1 .. n - 1) \cup {n}
    BY <1>1
  <2> HIDE DEF dirs
  <2>3. ToSet(dirs) = InnerDirs(s) \cup {Cur(s).dir}
    BY <1>1, <1>2, <2>1, <2>2 DEF InnerDirs, n
  <2> QED
    BY <1>3, <2>3 DEF dirs
<1>4. CASE Cur(s).info # "D"
  <2>1. Len(dirs) = n - 1 /\ \A i \in 1 .. n - 1 : dirs[i] = s.path[i].dir
    BY <1>4, EnteredIs
  <2> HIDE DEF dirs
  <2>2. ToSet(dirs) = InnerDirs(s)
    BY <1>2, <2>1 DEF InnerDirs, n
  <2> QED
    BY <1>4, <2>2 DEF dirs
<1> QED
  BY <1>3, <1>4

(***************************************************************************)
(* CyclesAreReal, for every graph of any number of directories, any roots, *)
(* batches of any size, and any number of the faults and instructions that *)
(* Tidy allows: FTS_DC is only said of an ancestor, be it with a table of  *)
(* active directories or lazily (fts_read.h:342-389).                      *)
(***************************************************************************)
THEOREM CyclesReal == Spec => [](Tidy(opt) => CyclesAreReal)
<1>1. FtsIInv => CyclesAreReal
  <2> SUFFICES ASSUME FtsIInv, sp.status = "walking", Cur(sp).info = "DC"
               PROVE  Cur(sp).dir \in ToSet(Entered(sp))
    BY DEF CyclesAreReal
  <2>1. sp \in Streams /\ Outside(sp) /\ Closes(sp)
    BY DEF FtsIInv, Good
  <2>2. Cur(sp).dir \in InnerDirs(sp)
    <3>1. CASE HasTable
      BY <2>1, <3>1 DEF Outside, Closes
    <3>2. CASE ~HasTable
      <4> DEFINE n == Len(sp.path)
      <4>1. n \in Nat /\ n > 1 /\ Cur(sp).dir = sp.record /\ Recent(sp, n - 1)
        BY <2>1, <3>2, CurTyped DEF Outside, Closes
      <4> HIDE DEF n
      <4>2. n - 1 # 0
        BY <4>1
      <4>3. \E i \in 1 .. n - 1 : sp.path[i].dir = sp.record
        BY <4>1, <4>2 DEF Recent
      <4> QED
        BY <4>1, <4>3 DEF InnerDirs, n
    <3> QED
      BY <3>1, <3>2
  <2> QED
    BY <2>1, <2>2, EnteredSet
<1> QED
  BY <1>1, FtsInvariant, PTL

\* Less than half of all checks were made below the record.
LEMMA RecentRecord ==
  ASSUME FtsIInv
  PROVE  RecordIsRecent
<1> SUFFICES ASSUME ~HasTable, sp.status = "walking", sp.counter # 0, Entered(sp) # <<>>
             PROVE  \E i \in 1 .. Len(Entered(sp)) :
                      Entered(sp)[i] = sp.record /\ 2 * (Len(Entered(sp)) - i) < sp.counter
  BY DEF RecordIsRecent, CC!RecordIsRecent
<1> DEFINE n == Len(Entered(sp))
           c == sp.counter
<1>1. sp \in Streams /\ c \in Nat
  BY DEF FtsIInv, Good, Streams
<1>2. n \in Nat \ {0} /\ \A i \in 1 .. n : Entered(sp)[i] = sp.path[i].dir
  BY <1>1, EnteredIs
<1>3. Recent(sp, n)
  <2>1. CASE Cur(sp).info = "D"
    BY <1>1, <2>1, EnteredIs DEF FtsIInv, Good, Inside
  <2>2. CASE Cur(sp).info # "D"
    BY <1>1, <2>2, EnteredIs DEF FtsIInv, Good, Outside
  <2> QED
    BY <2>1, <2>2
<1> HIDE DEF n
<1>4. PICK p \in 1 .. c : /\ c < 2 * p
                         /\ \E i \in 1 .. n : sp.path[i].dir = sp.record /\ n - i <= c - p
  BY <1>2, <1>3 DEF Recent
<1>5. PICK i \in 1 .. n : sp.path[i].dir = sp.record /\ n - i <= c - p
  BY <1>4
<1> HIDE DEF c
<1>6. 2 * (n - i) < c
  BY <1>1, <1>2, <1>4, <1>5
<1> QED
  BY <1>2, <1>5, <1>6 DEF n, c

(***************************************************************************)
(* LeftAsEntered, likewise: the table has the directories that the walk is *)
(* in, no more and no fewer, the lazy detection a recent one of them, and  *)
(* neither leave_dir nor the macro aborts (fts_read.h:155-177, FTS.h:      *)
(* 154-158).                                                               *)
(***************************************************************************)
THEOREM LeftOnce == Spec => [](Tidy(opt) => LeftAsEntered)
<1>1. FtsIInv => LeftAsEntered
  <2> SUFFICES ASSUME FtsIInv PROVE LeftAsEntered
    OBVIOUS
  <2>1. sp \in Streams /\ Inner(sp) /\ Cur(sp).info # "NSOK" /\ sp.status # "aborted"
    BY DEF FtsIInv, Good
  <2>3. TypeOK
    <3> DEFINE nodes == [dir : Dirs, info : Infos, errno : BOOLEAN, link : SUBSET Dirs,
                         dirp : BOOLEAN, unread : SUBSET Dirs, instr : {"NOINSTR", "AGAIN", "SKIP"}]
    <3>1. sp.path \in Seq(Nodes) /\ Len(sp.path) \in Nat \ {0} /\ Cur(sp) = sp.path[Len(sp.path)]
      BY <2>1, CurTyped
    <3>2. ASSUME NEW i \in 1 .. Len(sp.path) PROVE sp.path[i].info # "NSOK"
      <4>1. CASE i = Len(sp.path)
        BY <2>1, <3>1, <4>1
      <4>2. CASE i # Len(sp.path)
        BY <2>1, <3>1, <3>2, <4>2 DEF Inner
      <4> QED
        BY <4>1, <4>2
    <3>3. ASSUME NEW i \in 1 .. Len(sp.path) PROVE sp.path[i] \in nodes
      <4>1. sp.path[i] \in Nodes
        BY <3>1
      <4>2. ASSUME NEW node \in Nodes, node.info # "NSOK" PROVE node \in nodes
        BY <4>2 DEF Nodes
      <4> QED
        BY <3>2, <4>1, <4>2
    <3> HIDE DEF nodes
    <3>4. sp.path \in Seq(nodes)
      BY <3>1, <3>3
    <3> QED
      BY <2>1, <3>4 DEF TypeOK, FtsIInv, Streams, nodes
  <2>4. ActiveExact
    <3> SUFFICES ASSUME HasTable, sp.status = "walking" PROVE sp.active = ToSet(Entered(sp))
      BY DEF ActiveExact
    <3> QED
      BY <2>1, EnteredSet DEF FtsIInv, Good, Inside, Outside
  <2> QED
    BY <2>1, <2>3, <2>4, RecentRecord DEF LeftAsEntered, NeverAborts
<1> QED
  BY <1>1, FtsInvariant, PTL

----------------------------------------------------------------------------
(***************************************************************************)
(* Nothing that can be reached is missed, in any setup: with the lazy      *)
(* detection of cycles as well, which may report a cycle late but only on  *)
(* a directory that was read.  A walk without faults and instructions owes *)
(* what it has not read: it is a sibling to come at some level, or an      *)
(* entry that readdir has yet to give of a directory left open.            *)
(***************************************************************************)

\* What the walk has yet to come to: the siblings to come and what readdir has yet to
\* give, at every level.
Owed(s) == UNION {s.path[i].link \cup s.path[i].unread : i \in 1 .. Len(s.path)}

\* The directories above the current one were read, and are left open as long as
\* there is more in them.
Trail(s) ==
    \A i \in 1 .. Len(s.path) - 1 :
      /\ s.path[i].dir \in s.visited /\ s.path[i].instr = "NOINSTR"
      /\ IsFiniteSet(s.path[i].unread) /\ (s.path[i].unread # {} => s.path[i].dirp)

\* Every root, and every entry of a directory that was read, was read itself, is owed
\* or is one of those at hand.
Whole(s, hand) ==
    /\ Roots \subseteq s.visited \cup Owed(s) \cup hand
    /\ \A d \in s.visited : fs[d] \subseteq s.visited \cup Owed(s) \cup hand
    /\ s.visited \cup Owed(s) \cup hand \subseteq Reachable

\* The detection of cycles knows only directories that were read, or are at hand.
Known(s, hand) ==
    IF HasTable THEN s.active \subseteq s.visited \cup hand
    ELSE s.counter # 0 => s.record \in s.visited \cup hand

\* A stream without troubles, inside of a call.
Sound(s, hand, known) ==
    /\ s \in Streams
    /\ s.trouble = 0 => s.status # "done" /\ Trail(s) /\ Whole(s, hand) /\ Known(s, known)

\* And between calls.
Covered(s) ==
    LET hand == IF Cur(s).info = "D" THEN {Cur(s).dir} ELSE {}
    IN Sound(s, hand, hand) /\ (s.trouble = 0 => Cur(s).unread = {} /\ Cur(s).instr = "NOINSTR")

\* A stream with another current node, and with everything else.
Twin(t, s) ==
    /\ t \in Streams /\ Len(t.path) = Len(s.path)
    /\ \A i \in 1 .. Len(s.path) - 1 : t.path[i] = s.path[i]
    /\ t.active = s.active /\ t.status = s.status /\ t.visited = s.visited /\ t.counter = s.counter
    /\ t.record = s.record /\ t.trouble = s.trouble

LEMMA WithTwin ==
  ASSUME NEW s \in Streams, NEW node \in Nodes
  PROVE  Twin(With(s, node), s) /\ Cur(With(s, node)) = node
<1> DEFINE path == [s.path EXCEPT ![Len(s.path)] = node]
<1>1. Beside(With(s, node), s) /\ Cur(With(s, node)) = node
  BY WithBeside
<1>2. With(s, node) = [s EXCEPT !.path = path]
  BY DEF With, Streams
<1> HIDE DEF path
<1>3. /\ With(s, node).visited = s.visited /\ With(s, node).counter = s.counter
      /\ With(s, node).record = s.record /\ With(s, node).trouble = s.trouble
  BY <1>2 DEF Streams
<1> QED
  BY <1>1, <1>3 DEF Twin, Beside

\* What is owed, the current level apart.
OwedAbove(s) == UNION {s.path[i].link \cup s.path[i].unread : i \in 1 .. Len(s.path) - 1}

LEMMA OwedIs ==
  ASSUME NEW s \in Streams
  PROVE  Owed(s) = OwedAbove(s) \cup Cur(s).link \cup Cur(s).unread
<1>1. Len(s.path) \in Nat \ {0} /\ Cur(s) = s.path[Len(s.path)]
  BY CurTyped
<1>2. 1 .. Len(s.path) = (1 .. Len(s.path) - 1) \cup {Len(s.path)}
  BY <1>1
<1> QED
  BY <1>1, <1>2 DEF Owed, OwedAbove

LEMMA TwinIs ==
  ASSUME NEW s \in Streams, NEW t, Twin(t, s)
  PROVE  /\ Trail(t) <=> Trail(s)
         /\ OwedAbove(t) = OwedAbove(s)
         /\ \A hand : Known(t, hand) <=> Known(s, hand)
BY DEF Twin, Trail, OwedAbove, Known

\* What is owed as the current node may be at hand instead.
LEMMA TwinSound ==
  ASSUME NEW s, NEW hand, NEW known, Sound(s, hand, known), NEW t, Twin(t, s), NEW rest,
         s.trouble = 0 => s.visited \cup Cur(t).link \cup Cur(t).unread \cup rest
                          = s.visited \cup Cur(s).link \cup Cur(s).unread \cup hand
  PROVE  Sound(t, rest, known)
<1>1. t \in Streams /\ s \in Streams /\ t.trouble = s.trouble /\ t.visited = s.visited /\ t.status = s.status
  BY DEF Sound, Twin
<1> SUFFICES ASSUME t.trouble = 0 PROVE Trail(t) /\ Whole(t, rest) /\ Known(t, known)
  BY <1>1 DEF Sound
<1>2. Trail(t) /\ Known(t, known) /\ Whole(s, hand)
  BY <1>1, TwinIs DEF Sound
<1>3. t.visited \cup Owed(t) \cup rest = s.visited \cup Owed(s) \cup hand
  BY <1>1, OwedIs, TwinIs
<1> QED
  BY <1>1, <1>2, <1>3 DEF Whole

\* A fault is counted.
LEMMA FailsTroubled ==
  ASSUME NEW s \in Streams, NEW fault, NEW t \in Fails(s, fault)
  PROVE  t \in Streams /\ t.trouble # 0 /\ t.path = s.path
<1>1. t = [s EXCEPT !.trouble = @ + 1] /\ s.trouble < MaxTrouble
  BY DEF Fails
<1>2. t \in Streams /\ t.path = s.path
  BY FailsBeside DEF Beside
<1> QED
  BY <1>1, <1>2 DEF Streams

\* The lazy detection records one of the directory checked and the one it had.
LEMMA Counts ==
  ASSUME NEW c \in Nat, NEW r \in Dirs, NEW d \in Dirs
  PROVE  /\ c + 1 \in Nat
         /\ CC!RecordAfter(c + 1, r, d) \in {r, d}
         /\ c = 0 => CC!RecordAfter(c + 1, r, d) = d
<1>1. CC!is_zero_or_power_of_two(1)
  BY DEF CC!is_zero_or_power_of_two
<1>2. c + 1 \in Nat /\ c + 1 # 0 /\ (c = 0 => c + 1 = 1)
  OBVIOUS
<1> QED
  BY <1>1, <1>2 DEF CC!RecordAfter

\* A directory that was read, or is opened for a second time, is left.
LEMMA LeaveSound ==
  ASSUME NEW s, NEW hand, NEW known, Sound(s, hand, known),
         s.trouble = 0 => known = {} \/ (HasTable /\ known = {Cur(s).dir})
  PROVE  /\ Sound(leave_dir(s), hand, {}) /\ leave_dir(s).path = s.path
         /\ leave_dir(s).trouble = s.trouble
         /\ HasTable => Cur(s).dir \notin leave_dir(s).active
<1> DEFINE d == Cur(s).dir
           t == leave_dir(s)
<1>1. s \in Streams /\ d \in Dirs /\ Len(s.path) \in Nat \ {0} /\ s.path \in Seq(Nodes)
  BY CurTyped DEF Sound, Nodes
<1>2. ASSUME t \in Streams, t.path = s.path, t.visited = s.visited, t.trouble = s.trouble,
             t.status \in {s.status, "aborted"}, s.trouble = 0 => Known(t, {})
      PROVE  Sound(t, hand, {}) /\ t.trouble = s.trouble
  <2>1. Trail(t) <=> Trail(s)
    BY <1>2 DEF Trail
  <2>2. Whole(t, hand) <=> Whole(s, hand)
    BY <1>2 DEF Whole, Owed
  <2> QED
    BY <1>2, <2>1, <2>2 DEF Sound
<1>3. CASE HasTable /\ d \in s.active
  <2>1. t = [s EXCEPT !.active = s.active \ {d}]
    BY <1>3 DEF leave_dir, LeaveTable
  <2>2. /\ t \in Streams /\ t.path = s.path /\ t.visited = s.visited /\ t.trouble = s.trouble
        /\ t.status = s.status /\ t.active = s.active \ {d}
    BY <1>1, <2>1 DEF Streams
  <2> QED
    BY <1>2, <1>3, <2>2 DEF Sound, Known
<1>4. CASE HasTable /\ d \notin s.active
  <2>1. t = [s EXCEPT !.status = "aborted"]
    BY <1>4 DEF leave_dir, LeaveTable, Abort
  <2>2. /\ t \in Streams /\ t.path = s.path /\ t.visited = s.visited /\ t.trouble = s.trouble
        /\ t.status = "aborted" /\ t.active = s.active
    BY <1>1, <2>1 DEF Streams
  <2> QED
    BY <1>2, <1>4, <2>2 DEF Sound, Known
<1>5. CASE ~HasTable /\ Len(s.path) = 1
  <2>1. t = s
    BY <1>5 DEF leave_dir, LeaveLazily
  <2> QED
    BY <1>5, <2>1 DEF Sound
<1>6. CASE ~HasTable /\ Len(s.path) # 1 /\ s.counter = 0
  <2>1. t = [s EXCEPT !.status = "aborted"]
    BY <1>6 DEF leave_dir, LeaveLazily, Abort
  <2>2. /\ t \in Streams /\ t.path = s.path /\ t.visited = s.visited /\ t.trouble = s.trouble
        /\ t.status = "aborted" /\ t.counter = 0
    BY <1>1, <1>6, <2>1 DEF Streams
  <2> QED
    BY <1>2, <1>6, <2>2 DEF Sound, Known
<1>7. CASE ~HasTable /\ Len(s.path) # 1 /\ s.counter # 0
  <2> DEFINE r == CC!RecordUp(s.record, Parent(s).dir, d)
  <2>1. t = [s EXCEPT !.record = r]
    <3>1. t = LeaveLazily(s, d)
      BY <1>7 DEF leave_dir
    <3>2. LeaveLazily(s, d) = [s EXCEPT !.record = CC!RecordUp(@, Parent(s).dir, d)]
      BY <1>7 DEF LeaveLazily
    <3> QED
      BY <3>1, <3>2 DEF CC!RecordUp
  <2>2. Len(s.path) - 1 \in 1 .. Len(s.path) - 1 /\ Len(s.path) - 1 \in 1 .. Len(s.path)
    <3> DEFINE n == Len(s.path)
    <3>1. n \in Nat \ {0} /\ n # 1
      BY <1>1, <1>7
    <3> HIDE DEF n
    <3>2. n - 1 \in 1 .. n - 1 /\ n - 1 \in 1 .. n
      BY <3>1
    <3> QED
      BY <3>2 DEF n
  <2>3. Parent(s).dir \in Dirs /\ (s.trouble = 0 => Parent(s).dir \in s.visited)
    BY <1>1, <2>2, NodeDirs DEF Parent, Sound, Trail
  <2>4. r \in Dirs /\ r \in {s.record, Parent(s).dir}
    BY <1>1, <2>3 DEF CC!RecordUp, Streams
  <2> HIDE DEF r
  <2>5. /\ t \in Streams /\ t.path = s.path /\ t.visited = s.visited /\ t.trouble = s.trouble
        /\ t.status = s.status /\ t.record = r /\ t.counter = s.counter
    BY <1>1, <2>1, <2>4 DEF Streams
  <2> QED
    BY <1>2, <1>7, <2>3, <2>4, <2>5 DEF Sound, Known
<1> QED
  BY <1>3, <1>4, <1>5, <1>6, <1>7

\* A directory that is entered is at hand, one that closes a cycle was read.
LEMMA EnterCovered ==
  ASSUME NEW s, Sound(s, {Cur(s).dir}, {}), Cur(s).info = "D",
         s.trouble = 0 => Cur(s).unread = {} /\ Cur(s).instr = "NOINSTR"
  PROVE  /\ Covered(enter_dir(s)) /\ enter_dir(s).trouble = s.trouble
         /\ HasTable /\ Cur(s).dir \notin s.active => enter_dir(s).path = s.path
<1> DEFINE d == Cur(s).dir
           t == enter_dir(s)
<1>1. s \in Streams /\ Cur(s) \in Nodes /\ d \in Dirs
  BY CurTyped DEF Sound, Nodes
<1>2. ASSUME t = Informed(s, "DC"), s.trouble = 0 => d \in s.visited
      PROVE  Covered(t) /\ t.trouble = s.trouble
  <2> DEFINE node == [Cur(s) EXCEPT !.info = "DC"]
  <2>1. /\ node \in Nodes /\ node.info = "DC" /\ node.dir = d /\ node.link = Cur(s).link
        /\ node.unread = Cur(s).unread /\ node.instr = Cur(s).instr
    BY <1>1 DEF Nodes, Infos
  <2>2. t = With(s, node)
    BY <1>2 DEF Informed
  <2> HIDE DEF node
  <2>3. Twin(t, s) /\ Cur(t) = node
    BY <1>1, <2>1, <2>2, WithTwin
  <2>4. Sound(t, {}, {})
    BY <1>1, <1>2, <2>1, <2>3, TwinSound
  <2> QED
    BY <2>1, <2>3, <2>4 DEF Covered, Twin
<1>3. ASSUME t \in Streams, t.path = s.path, t.visited = s.visited, t.trouble = s.trouble, t.status = s.status,
             s.trouble = 0 => Known(t, {d})
      PROVE  Covered(t) /\ t.trouble = s.trouble
  <2>1. Cur(t) = Cur(s)
    BY <1>3 DEF Cur
  <2>2. Trail(t) <=> Trail(s)
    BY <1>3 DEF Trail
  <2>3. Whole(t, {d}) <=> Whole(s, {d})
    BY <1>3 DEF Whole, Owed
  <2>4. Sound(t, {d}, {d})
    BY <1>3, <2>2, <2>3 DEF Sound
  <2> QED
    BY <1>3, <2>1, <2>4 DEF Covered
<1>4. CASE HasTable
  <2>1. CASE d \in s.active
    BY <1>2, <1>4, <2>1 DEF enter_dir, EnterTable, Sound, Known
  <2>2. CASE d \notin s.active
    <3>1. t = [s EXCEPT !.active = s.active \cup {d}]
      BY <1>4, <2>2 DEF enter_dir, EnterTable
    <3>2. /\ t \in Streams /\ t.path = s.path /\ t.visited = s.visited /\ t.trouble = s.trouble
          /\ t.status = s.status /\ t.active = s.active \cup {d}
      BY <1>1, <3>1 DEF Streams
    <3> QED
      BY <1>3, <1>4, <3>2 DEF Sound, Known
  <2> QED
    BY <2>1, <2>2
<1>5. CASE ~HasTable
  <2> DEFINE c == s.counter + 1
             r == CC!RecordAfter(c, s.record, d)
  <2>1. CASE CC!IsRecorded(s.counter, s.record, d)
    <3>1. s.counter # 0 /\ d = s.record
      BY <2>1 DEF CC!IsRecorded
    <3>2. t = Informed(s, "DC")
      BY <1>5, <2>1 DEF enter_dir, EnterLazily
    <3> QED
      BY <1>2, <1>5, <3>1, <3>2 DEF Sound, Known
  <2>2. CASE ~CC!IsRecorded(s.counter, s.record, d)
    <3>1. t = [s EXCEPT !.counter = c, !.record = r]
      BY <1>5, <2>2 DEF enter_dir, EnterLazily
    <3>2. c \in Nat /\ r \in {s.record, d} /\ (s.counter = 0 => r = d) /\ s.record \in Dirs
      BY <1>1, Counts DEF Streams
    <3> HIDE DEF c, r
    <3>3. /\ t \in Streams /\ t.path = s.path /\ t.visited = s.visited /\ t.trouble = s.trouble
          /\ t.status = s.status /\ t.record = r
      BY <1>1, <3>1, <3>2 DEF Streams
    <3> QED
      BY <1>3, <1>5, <3>2, <3>3 DEF Sound, Known
  <2> QED
    BY <2>1, <2>2
<1> QED
  BY <1>4, <1>5

\* Of a stream with troubles nothing is said.
LEMMA Troubled ==
  ASSUME NEW s \in Streams, s.trouble # 0
  PROVE  Covered(s) /\ \A hand, known : Sound(s, hand, known)
BY DEF Covered, Sound

\* A fault is a trouble, whatever is made of it.
LEMMA FailedTroubled ==
  ASSUME NEW s \in Streams, NEW fault, NEW t \in Fails(s, fault), NEW info \in Infos
  PROVE  Failed(t, info) \in Streams /\ Failed(t, info).trouble # 0
<1>1. t \in Streams /\ t.trouble # 0
  BY FailsTroubled
<1>2. Beside(Failed(t, info), t)
  BY <1>1, FailedBeside
<1>3. Failed(t, info).trouble = t.trouble
  BY DEF Failed, With
<1> QED
  BY <1>1, <1>2, <1>3 DEF Beside

LEMMA InformedTwin ==
  ASSUME NEW s \in Streams, NEW info \in Infos \cup {"NSOK"}
  PROVE  LET t == Informed(s, info)
         IN /\ Twin(t, s) /\ Cur(t) \in Nodes /\ Cur(t).info = info /\ Cur(t).dir = Cur(s).dir
            /\ Cur(t).link = Cur(s).link /\ Cur(t).unread = Cur(s).unread
            /\ Cur(t).instr = Cur(s).instr
<1> DEFINE node == [Cur(s) EXCEPT !.info = info]
<1>1. /\ node \in Nodes /\ node.info = info /\ node.dir = Cur(s).dir /\ node.link = Cur(s).link
      /\ node.unread = Cur(s).unread /\ node.instr = Cur(s).instr
  BY CurTyped DEF Nodes
<1>2. Informed(s, info) = With(s, node)
  BY DEF Informed
<1> HIDE DEF node
<1> QED
  BY <1>1, <1>2, WithTwin

\* check_for_dir on the directory at hand.
LEMMA VisitCovered ==
  ASSUME NEW s, Sound(s, {Cur(s).dir}, {}),
         s.trouble = 0 => Cur(s).unread = {} /\ Cur(s).instr = "NOINSTR",
         NEW t \in Visit(s)
  PROVE  Covered(t)
<1>1. s \in Streams
  BY DEF Sound
<1>2. CASE t = enter_dir(Informed(s, "D"))
  <2> DEFINE u == Informed(s, "D")
  <2>1. /\ Twin(u, s) /\ Cur(u).info = "D" /\ Cur(u).dir = Cur(s).dir /\ Cur(u).link = Cur(s).link
        /\ Cur(u).unread = Cur(s).unread /\ Cur(u).instr = Cur(s).instr
    BY <1>1, InformedTwin DEF Infos
  <2> HIDE DEF u
  <2>2. Sound(u, {Cur(u).dir}, {}) /\ u.trouble = s.trouble
    BY <2>1, TwinSound DEF Twin
  <2> QED
    BY <1>2, <2>1, <2>2, EnterCovered DEF u
<1>3. ASSUME NEW u \in Fails(s, "stat"), t = Failed(u, "NS") PROVE Covered(t)
  BY <1>1, <1>3, FailedTroubled, Troubled DEF Infos
<1> QED
  BY <1>2, <1>3 DEF Visit

\* On to one of the entries at hand; the others become its siblings.
LEMMA MovedCovered ==
  ASSUME NEW s, NEW hand, Sound(s, hand, {}), NEW entries \in SUBSET Dirs,
         s.trouble = 0 => s.visited \cup entries = s.visited \cup Cur(s).link \cup Cur(s).unread \cup hand,
         NEW t \in Moved(s, entries)
  PROVE  Covered(t)
<1>1. PICK d \in entries : t \in Visit(With(s, Node(d, "NSOK", entries \ {d})))
  BY DEF Moved
<1> DEFINE node == Node(d, "NSOK", entries \ {d})
           u == With(s, node)
<1>2. /\ node \in Nodes /\ node.instr = "NOINSTR" /\ node.unread = {} /\ node.dir = d
      /\ node.link = entries \ {d}
  BY DEF Node, Nodes
<1> HIDE DEF node
<1>3. Twin(u, s) /\ Cur(u) = node
  BY <1>2, WithTwin DEF Sound
<1> HIDE DEF u
<1>4. (entries \ {d}) \cup {} \cup {d} = entries
  OBVIOUS
<1>5. Sound(u, {d}, {})
  BY <1>2, <1>3, <1>4, TwinSound
<1> QED
  BY <1>1, <1>2, <1>3, <1>5, VisitCovered DEF u, node

\* Down a level: the directory above was read, and is open if there is more in it.
LEMMA DownCovered ==
  ASSUME NEW s, NEW entries \in SUBSET Dirs, Sound(s, entries, {}),
         s.trouble = 0 => /\ Cur(s).dir \in s.visited /\ Cur(s).instr = "NOINSTR"
                          /\ IsFiniteSet(Cur(s).unread) /\ (Cur(s).unread # {} => Cur(s).dirp),
         NEW t \in Down(s, entries)
  PROVE  Covered(t)
<1> DEFINE node == Node(Cur(s).dir, "NSOK", {})
           u == [s EXCEPT !.path = Append(s.path, node)]
           n == Len(s.path)
<1>1. /\ s \in Streams /\ Cur(s) \in Nodes /\ n \in Nat \ {0} /\ s.path \in Seq(Nodes)
      /\ Cur(s) = s.path[n]
  BY CurTyped DEF Sound
<1>2. node \in Nodes /\ node.link = {} /\ node.unread = {}
  BY <1>1 DEF Node, Nodes
<1>3. t \in Moved(u, entries)
  BY DEF Down
<1> HIDE DEF node
<1>4. /\ u \in Streams /\ u.path = Append(s.path, node) /\ u.visited = s.visited
      /\ u.trouble = s.trouble /\ u.status = s.status /\ u.active = s.active
      /\ u.counter = s.counter /\ u.record = s.record
  <2>1. Append(s.path, node) \in Seq(Nodes) \ {<<>>}
    BY <1>1, <1>2
  <2> QED
    BY <1>1, <2>1 DEF Streams
<1> HIDE DEF u
<1>5. /\ Len(u.path) = n + 1 /\ u.path[n + 1] = node /\ \A i \in 1 .. n : u.path[i] = s.path[i]
  BY <1>1, <1>2, <1>4
<1>6. Cur(u) = node
  BY <1>4, <1>5, CurTyped
<1> HIDE DEF n
<1>7. n + 1 - 1 = n /\ 1 .. n = (1 .. n - 1) \cup {n}
  BY <1>1
<1>8. OwedAbove(u) = Owed(s)
  <2>1. OwedAbove(u) = UNION {u.path[i].link \cup u.path[i].unread : i \in 1 .. n}
    <3>1. Len(u.path) - 1 = n
      BY <1>1, <1>5
    <3> QED
      BY <3>1 DEF OwedAbove
  <2>2. Owed(s) = UNION {s.path[i].link \cup s.path[i].unread : i \in 1 .. n}
    BY DEF Owed, n
  <2> QED
    BY <1>5, <2>1, <2>2
<1>9. Owed(u) = Owed(s)
  BY <1>2, <1>4, <1>6, <1>8, OwedIs
<1>10. ASSUME s.trouble = 0 PROVE Trail(u)
  <2> DEFINE Left(i) == /\ s.path[i].dir \in s.visited /\ s.path[i].instr = "NOINSTR"
                        /\ IsFiniteSet(s.path[i].unread) /\ (s.path[i].unread # {} => s.path[i].dirp)
  <2>1. \A i \in 1 .. n - 1 : Left(i)
    BY <1>10 DEF Sound, Trail, n
  <2>2. Left(n)
    BY <1>1, <1>10
  <2> HIDE DEF Left
  <2>3. \A i \in 1 .. n : Left(i)
    BY <1>7, <2>1, <2>2
  <2>4. \A i \in 1 .. Len(u.path) - 1 : i \in 1 .. n /\ u.path[i] = s.path[i]
    BY <1>1, <1>5
  <2> QED
    BY <1>4, <2>3, <2>4 DEF Trail, Left
<1>11. Sound(u, entries, {})
  BY <1>4, <1>9, <1>10 DEF Sound, Whole, Known
<1>12. s.trouble = 0 => u.visited \cup entries = u.visited \cup Cur(u).link \cup Cur(u).unread \cup entries
  BY <1>2, <1>6
<1> QED
  BY <1>3, <1>4, <1>11, <1>12, MovedCovered

\* Post-order at once: nothing is owed on this level.
LEMMA ChildlessCovered ==
  ASSUME NEW s, Sound(s, {}, {}),
         s.trouble = 0 => Cur(s).info # "D" /\ Cur(s).unread = {} /\ Cur(s).instr = "NOINSTR"
  PROVE  Covered(Childless(s))
<1> DEFINE info == IF Cur(s).errno /\ Cur(s).info # "DNR" THEN "ERR" ELSE Cur(s).info
           t == Informed(s, info)
<1>1. s \in Streams /\ Cur(s) \in Nodes
  BY CurTyped DEF Sound
<1>2. info \in Infos \cup {"NSOK"} /\ (Cur(s).info # "D" => info # "D")
  BY <1>1 DEF Nodes, Infos
<1>3. Childless(s) = leave_dir(t)
  BY DEF Childless
<1> HIDE DEF info
<1>4. /\ Twin(t, s) /\ Cur(t).info = info /\ Cur(t).link = Cur(s).link
      /\ Cur(t).unread = Cur(s).unread /\ Cur(t).instr = Cur(s).instr
  BY <1>1, <1>2, InformedTwin
<1> HIDE DEF t
<1>5. Sound(t, {}, {}) /\ t.trouble = s.trouble
  BY <1>4, TwinSound DEF Twin
<1> DEFINE u == leave_dir(t)
<1>6. Sound(u, {}, {}) /\ u.path = t.path /\ u.trouble = s.trouble
  BY <1>5, LeaveSound
<1> HIDE DEF u
<1>7. Cur(u) = Cur(t)
  BY <1>6 DEF Cur
<1>8. CASE s.trouble = 0
  BY <1>2, <1>3, <1>4, <1>6, <1>7, <1>8 DEF Covered, u
<1>9. CASE s.trouble # 0
  BY <1>3, <1>6, <1>9, Troubled DEF Sound, u
<1> QED
  BY <1>8, <1>9

\* FTS_STOP is a trouble.
LEMMA LostCovered ==
  ASSUME NEW s \in Streams, NEW t \in Lost(s)
  PROVE  Covered(t)
<1>1. PICK u \in Fails(s, "up") : t = [u EXCEPT !.status = "stopped"]
  BY DEF Lost
<1>2. u \in Streams /\ u.trouble # 0
  BY FailsTroubled
<1>3. t \in Streams /\ t.trouble # 0
  BY <1>1, <1>2 DEF Streams
<1> QED
  BY <1>3, Troubled

\* A directory that was read, and what was read of it now.
Batch(s, entries) ==
    /\ Sound(s, entries, {}) /\ entries \in SUBSET Dirs
    /\ s.trouble = 0 =>
         /\ Cur(s).dir \in s.visited /\ Cur(s).instr = "NOINSTR"
         /\ IsFiniteSet(Cur(s).unread) /\ (Cur(s).unread # {} => Cur(s).dirp)
         /\ entries = {} => Cur(s).unread = {}

\* What a batch leaves unread keeps the directory open; an empty batch is the last.
LEMMA LeftOpen ==
  ASSUME NEW unread, IsFiniteSet(unread), NEW max \in Nat \ {0},
         NEW batch \in kSubset(Min({max, Cardinality(unread)}), unread)
  PROVE  /\ batch \subseteq unread
         /\ unread \ batch # {} => Min({max, Cardinality(unread)}) = max
         /\ batch = {} => unread \ batch = {}
<1> DEFINE size == Min({max, Cardinality(unread)})
<1>1. batch \subseteq unread /\ Cardinality(batch) = size
  BY DEF kSubset
<1>2. Cardinality(unread) \in Nat
  BY FS_CardinalityType
<1>3. size \in {max, Cardinality(unread)}
  BY <1>2 DEF Min
<1>4. size = Cardinality(unread) => batch = unread
  BY <1>1, FS_Subset
<1>5. batch = {} => size = 0
  BY <1>1, FS_EmptySet
<1> HIDE DEF size
<1> QED
  BY <1>1, <1>3, <1>4, <1>5 DEF size

\* Read takes what it gives from what is unread.
LEMMA ReadBatched ==
  ASSUME NEW s, Sound(s, {}, {}), opt \in Setups,
         s.trouble = 0 => /\ Cur(s).dir \in s.visited /\ Cur(s).instr = "NOINSTR"
                          /\ IsFiniteSet(Cur(s).unread),
         NEW r \in Read(s)
  PROVE  /\ Batch(r.stream, r.entries) /\ r.stream.trouble = s.trouble
         /\ r.entries = {} => Cur(r.stream).info = "DP"
<1> DEFINE cur == Cur(s)
           max == opt.max_entries
           size == Min({max, Cardinality(cur.unread)})
<1>1. PICK batch \in kSubset(size, cur.unread) :
        r = [stream |-> With(s, [cur EXCEPT !.unread = @ \ batch, !.dirp = (size = max),
                                            !.info = IF batch = {} THEN "DP" ELSE @]),
             entries |-> batch]
  BY DEF Read
<1> DEFINE info == IF batch = {} THEN "DP" ELSE cur.info
           dirp == (size = max)
           node == [cur EXCEPT !.unread = @ \ batch, !.dirp = dirp, !.info = info]
<1>2. cur \in Nodes /\ batch \subseteq cur.unread /\ dirp \in BOOLEAN /\ s \in Streams
  BY CurTyped DEF kSubset, Sound
<1>3. r = [stream |-> With(s, node), entries |-> batch]
  BY <1>1
<1>4. node = [cur EXCEPT !.unread = @ \ batch, !.dirp = dirp, !.info = info]
  OBVIOUS
<1>5. info \in Infos \cup {"NSOK"} /\ cur.unread \subseteq Dirs
  BY <1>2 DEF Nodes, Infos
<1>6. max \in Nat \ {0}
  BY FtsAssumption DEF Setup
<1>7. IsFiniteSet(cur.unread) => /\ IsFiniteSet(cur.unread \ batch) /\ (cur.unread \ batch # {} => dirp)
                                 /\ (batch = {} => cur.unread \ batch = {})
  <2> SUFFICES ASSUME IsFiniteSet(cur.unread)
               PROVE  /\ IsFiniteSet(cur.unread \ batch) /\ (cur.unread \ batch # {} => dirp)
                      /\ (batch = {} => cur.unread \ batch = {})
    OBVIOUS
  <2>1. IsFiniteSet(cur.unread \ batch)
    BY FS_Subset
  <2> QED
    BY <1>6, <2>1, LeftOpen
<1> HIDE DEF cur, max, size, info, dirp, node
<1>8. node = [dir |-> cur.dir, info |-> info, errno |-> cur.errno, link |-> cur.link, dirp |-> dirp,
              unread |-> cur.unread \ batch, instr |-> cur.instr]
  BY <1>2, <1>4 DEF Nodes
<1>9. /\ node \in Nodes /\ node.dir = cur.dir /\ node.info = info /\ node.link = cur.link
      /\ node.unread = cur.unread \ batch /\ node.dirp = dirp /\ node.instr = cur.instr
  BY <1>2, <1>5, <1>8 DEF Nodes
<1> DEFINE t == With(s, node)
<1>10. Twin(t, s) /\ Cur(t) = node
  BY <1>2, <1>9, WithTwin
<1> HIDE DEF t
<1>11. s.visited \cup Cur(t).link \cup Cur(t).unread \cup batch
        = s.visited \cup Cur(s).link \cup Cur(s).unread \cup {}
  BY <1>2, <1>9, <1>10 DEF cur
<1>12. Sound(t, batch, {}) /\ t.trouble = s.trouble /\ t.visited = s.visited
  BY <1>10, <1>11, TwinSound DEF Twin
<1>13. Batch(t, batch)
  BY <1>2, <1>5, <1>7, <1>9, <1>10, <1>12 DEF Batch, cur
<1> QED
  BY <1>3, <1>9, <1>10, <1>12, <1>13 DEF t, info

LEMMA ReadFailsIs ==
  ASSUME NEW s
  PROVE  \A r \in ReadFails(s) : \E t \in Fails(s, "read"), batch \in SUBSET Cur(s).unread :
           r = [stream |-> With(t, [Cur(s) EXCEPT !.unread = {}, !.dirp = FALSE, !.errno = TRUE,
                                    !.info = IF Cur(s).dirp \/ batch # {} THEN "ERR" ELSE "DNR"]),
                entries |-> batch]
<1> DEFINE F == Fails(s, "read")
           B == {b \in SUBSET Cur(s).unread : Cardinality(b) < opt.max_entries}
           R(t, batch) == [stream |-> With(t, [Cur(s) EXCEPT !.unread = {}, !.dirp = FALSE, !.errno = TRUE,
                                    !.info = IF Cur(s).dirp \/ batch # {} THEN "ERR" ELSE "DNR"]),
               entries |-> batch]
<1>1. ReadFails(s) = {R(t, batch) : t \in F, batch \in B}
  BY SMT DEF ReadFails
<1>2. F = Fails(s, "read") /\ B \subseteq SUBSET Cur(s).unread
  OBVIOUS
<1> HIDE DEF F, B, R
<1>3. ASSUME NEW r \in ReadFails(s) PROVE \E t \in F, batch \in B : r = R(t, batch)
  BY <1>1
<1>4. ASSUME NEW r \in ReadFails(s)
      PROVE  \E t \in Fails(s, "read"), batch \in SUBSET Cur(s).unread : r = R(t, batch)
  BY <1>2, <1>3
<1> QED
  BY <1>4 DEF R

LEMMA ReadFailsBatched ==
  ASSUME NEW s \in Streams, NEW r \in ReadFails(s)
  PROVE  Batch(r.stream, r.entries) /\ r.stream.trouble # 0
<1> DEFINE cur == Cur(s)
<1>1. PICK t \in Fails(s, "read"), batch \in SUBSET cur.unread :
        r = [stream |-> With(t, [cur EXCEPT !.unread = {}, !.dirp = FALSE, !.errno = TRUE,
                                            !.info = IF cur.dirp \/ batch # {} THEN "ERR" ELSE "DNR"]),
             entries |-> batch]
  BY ReadFailsIs
<1> DEFINE info == IF cur.dirp \/ batch # {} THEN "ERR" ELSE "DNR"
           node == [cur EXCEPT !.unread = {}, !.dirp = FALSE, !.errno = TRUE, !.info = info]
<1>2. cur \in Nodes /\ batch \subseteq cur.unread /\ info \in Infos
  BY <1>1, CurTyped DEF Infos
<1>3. r = [stream |-> With(t, node), entries |-> batch]
  BY <1>1
<1>4. node = [cur EXCEPT !.unread = {}, !.dirp = FALSE, !.errno = TRUE, !.info = info]
  OBVIOUS
<1> HIDE DEF cur, info, node
<1>5. node = [dir |-> cur.dir, info |-> info, errno |-> TRUE, link |-> cur.link, dirp |-> FALSE,
              unread |-> {}, instr |-> cur.instr]
  BY <1>2, <1>4 DEF Nodes
<1>6. node \in Nodes
  BY <1>2, <1>5 DEF Nodes
<1>7. t \in Streams /\ t.trouble # 0
  BY <1>1, FailsTroubled
<1> DEFINE u == With(t, node)
<1>8. u \in Streams /\ u.trouble # 0
  BY <1>6, <1>7, WithTwin DEF Twin
<1> HIDE DEF u
<1>9. batch \in SUBSET Dirs
  BY <1>2 DEF Nodes
<1>10. Batch(u, batch)
  BY <1>8, <1>9 DEF Batch, Sound
<1> QED
  BY <1>3, <1>8, <1>10 DEF u

LEMMA DownOrBackCovered ==
  ASSUME NEW r, Batch(r.stream, r.entries), NEW t \in DownOrBack(r),
         r.stream.trouble = 0 /\ r.entries = {} => Cur(r.stream).info # "D"
  PROVE  Covered(t)
<1> DEFINE s == r.stream
<1>1. s \in Streams
  BY DEF Batch, Sound
<1>2. CASE r.entries = {} /\ t = Childless(s)
  BY <1>2, ChildlessCovered DEF Batch
<1>3. CASE r.entries = {} /\ t \in Lost(Informed(s, "ERR"))
  <2>1. Informed(s, "ERR") \in Streams
    BY <1>1, InformedTwin DEF Twin, Infos
  <2> QED
    BY <1>3, <2>1, LostCovered
<1>4. CASE r.entries # {} /\ t \in Down(s, r.entries)
  BY <1>4, DownCovered DEF Batch
<1> QED
  BY <1>2, <1>3, <1>4 DEF DownOrBack

\* cd_dot_dot, in a parent with nothing left to read.
LEMMA UpCovered ==
  ASSUME NEW s, Sound(s, {}, {}),
         s.trouble = 0 => Cur(s).unread = {} /\ Cur(s).instr = "NOINSTR",
         NEW t \in Up(s)
  PROVE  Covered(t)
<1>1. s \in Streams
  BY DEF Sound
<1>2. ASSUME NEW info \in Infos \ {"D"} PROVE
        /\ Covered(Informed(s, info)) /\ Sound(Informed(s, info), {}, {})
        /\ Informed(s, info).trouble = s.trouble /\ Cur(Informed(s, info)).info = info
        /\ s.trouble = 0 => Cur(Informed(s, info)).unread = {} /\ Cur(Informed(s, info)).instr = "NOINSTR"
  <2> DEFINE u == Informed(s, info)
  <2>1. /\ Twin(u, s) /\ Cur(u).info = info /\ Cur(u).link = Cur(s).link
        /\ Cur(u).unread = Cur(s).unread /\ Cur(u).instr = Cur(s).instr
    BY <1>1, InformedTwin
  <2> HIDE DEF u
  <2>2. Sound(u, {}, {}) /\ u.trouble = s.trouble
    BY <2>1, TwinSound DEF Twin
  <2>3. Covered(u)
    BY <2>1, <2>2 DEF Covered
  <2> QED
    BY <2>1, <2>2, <2>3 DEF u
<1>3. CASE t = GoneUp(s)
  <2>1. CASE Cur(s).info = "DC"
    BY <1>3, <2>1 DEF GoneUp, Covered
  <2>2. CASE Cur(s).info # "DC" /\ Cur(s).errno
    BY <1>2, <1>3, <2>2 DEF GoneUp, Infos
  <2>3. CASE Cur(s).info # "DC" /\ ~Cur(s).errno
    <3> DEFINE u == Informed(s, "DP")
               v == leave_dir(u)
    <3>1. /\ Sound(u, {}, {}) /\ u.trouble = s.trouble /\ Cur(u).info = "DP"
          /\ s.trouble = 0 => Cur(u).unread = {} /\ Cur(u).instr = "NOINSTR"
      BY <1>2 DEF Infos
    <3>2. t = v
      BY <1>3, <2>3 DEF GoneUp
    <3> HIDE DEF u
    <3>3. Sound(v, {}, {}) /\ v.path = u.path /\ v.trouble = s.trouble
      BY <3>1, LeaveSound
    <3> HIDE DEF v
    <3>4. Cur(v) = Cur(u)
      BY <3>3 DEF Cur
    <3> QED
      BY <3>1, <3>2, <3>3, <3>4 DEF Covered
  <2> QED
    BY <2>1, <2>2, <2>3
<1>4. CASE t \in Lost(Failed(s, IF Cur(s).info = "DC" THEN "DC" ELSE "ERR"))
  <2>1. Failed(s, IF Cur(s).info = "DC" THEN "DC" ELSE "ERR") \in Streams
    BY <1>1, FailedBeside DEF Beside, Infos
  <2> QED
    BY <1>4, <2>1, LostCovered
<1> QED
  BY <1>3, <1>4 DEF Up

LEMMA DownOrUpCovered ==
  ASSUME NEW r, Batch(r.stream, r.entries), NEW t \in DownOrUp(r)
  PROVE  Covered(t)
<1>1. CASE r.entries = {}
  BY <1>1, UpCovered DEF DownOrUp, Batch
<1>2. CASE r.entries # {}
  BY <1>2, DownCovered DEF DownOrUp, Batch
<1> QED
  BY <1>1, <1>2

\* Back in the parent, nothing else is owed.
LEMMA PoppedSound ==
  ASSUME NEW s, Sound(s, {}, {}), Len(s.path) > 1,
         s.trouble = 0 => Cur(s).link = {} /\ Cur(s).unread = {},
         NEW t, t = Popped(s)
  PROVE  /\ Sound(t, {}, {}) /\ t.trouble = s.trouble /\ Cur(t) = Parent(s)
         /\ s.trouble = 0 => /\ Cur(t).dir \in t.visited /\ Cur(t).instr = "NOINSTR"
                             /\ IsFiniteSet(Cur(t).unread) /\ (Cur(t).unread # {} => Cur(t).dirp)
<1> DEFINE n == Len(s.path) - 1
           path == Front(s.path)
<1>1. s \in Streams /\ Len(s.path) \in Nat /\ s.path \in Seq(Nodes)
  BY CurTyped DEF Sound
<1>2. n \in Nat \ {0} /\ n = Len(s.path) - 1 /\ n \in 1 .. Len(s.path)
  <2> DEFINE length == Len(s.path)
  <2>1. length \in Nat /\ length > 1 /\ n = length - 1
    BY <1>1
  <2> HIDE DEF length, n
  <2>2. n \in Nat \ {0} /\ n \in 1 .. length
    BY <2>1
  <2> QED
    BY <2>1, <2>2 DEF length
<1>3. \A i \in 1 .. n : s.path[i] \in Nodes
  BY <1>1
<1>4. path = SubSeq(s.path, 1, n)
  BY DEF Front
<1> HIDE DEF n, path
<1>5. path \in Seq(Nodes) /\ Len(path) = n /\ \A i \in 1 .. n : path[i] = s.path[i]
  BY <1>1, <1>2, <1>3, <1>4, SubSeqProperties
<1>6. /\ t \in Streams /\ t.path = path /\ t.visited = s.visited
      /\ t.trouble = s.trouble /\ t.status = s.status /\ t.active = s.active
      /\ t.counter = s.counter /\ t.record = s.record
  BY <1>1, <1>2, <1>5 DEF Popped, Streams, path
<1>7. Cur(t) = s.path[n] /\ Parent(s) = s.path[n]
  BY <1>1, <1>2, <1>5, <1>6, CurTyped DEF Parent
<1>8. Owed(t) = OwedAbove(s)
  <2>1. OwedAbove(s) = UNION {s.path[i].link \cup s.path[i].unread : i \in 1 .. n}
    BY DEF OwedAbove, n
  <2>2. Owed(t) = UNION {t.path[i].link \cup t.path[i].unread : i \in 1 .. n}
    BY <1>5, <1>6 DEF Owed
  <2> QED
    BY <1>5, <1>6, <2>1, <2>2
<1>9. s.trouble = 0 => Owed(t) = Owed(s)
  BY <1>1, <1>8, OwedIs
<1>10. ASSUME s.trouble = 0
       PROVE  /\ Trail(t) /\ Cur(t).dir \in t.visited /\ Cur(t).instr = "NOINSTR"
              /\ IsFiniteSet(Cur(t).unread) /\ (Cur(t).unread # {} => Cur(t).dirp)
  <2> DEFINE Left(i) == /\ s.path[i].dir \in s.visited /\ s.path[i].instr = "NOINSTR"
                        /\ IsFiniteSet(s.path[i].unread) /\ (s.path[i].unread # {} => s.path[i].dirp)
  <2>1. \A i \in 1 .. n : Left(i)
    BY <1>2, <1>10 DEF Sound, Trail
  <2> HIDE DEF Left
  <2>2. Left(n)
    BY <1>2, <2>1
  <2>3. \A i \in 1 .. Len(t.path) - 1 : i \in 1 .. n /\ t.path[i] = s.path[i]
    BY <1>2, <1>5, <1>6
  <2>4. Trail(t)
    BY <1>6, <2>1, <2>3 DEF Trail, Left
  <2> QED
    BY <1>6, <1>7, <2>2, <2>4 DEF Left
<1>11. Sound(t, {}, {})
  BY <1>6, <1>9, <1>10 DEF Sound, Whole, Known
<1> QED
  BY <1>6, <1>7, <1>10, <1>11

\* What can be reached has the roots, and the entries of what it has.
LEMMA ReachableClosed ==
  ASSUME fs \in FileSystems
  PROVE  /\ Roots \subseteq Reachable /\ \A d \in Reachable : fs[d] \subseteq Reachable
         /\ \A d \in Dirs : fs[d] \subseteq Dirs /\ IsFiniteSet(fs[d])
<1>1. \A d \in Dirs : fs[d] \subseteq Dirs /\ IsFiniteSet(fs[d])
  BY FtsAssumption
<1>2. Roots \subseteq Reachable
  BY FtsAssumption DEF Reachable, Closed
<1>3. ASSUME NEW d \in Reachable, NEW e \in fs[d] PROVE e \in Reachable
  <2>1. d \in Dirs /\ e \in Dirs
    BY <1>1 DEF Reachable
  <2>2. ASSUME NEW dirs \in SUBSET Dirs, Closed(dirs) PROVE e \in dirs
    <3>1. d \in dirs
      BY <2>2 DEF Reachable
    <3> QED
      BY <2>2, <3>1 DEF Closed
  <2> QED
    BY <2>1, <2>2 DEF Reachable
<1> QED
  BY <1>1, <1>2, <1>3

LEMMA ReopenedIs ==
  ASSUME NEW s
  PROVE  \A t \in Reopened(s) :
           \/ t = s
           \/ opt.mode = "tight" /\ t = enter_dir(leave_dir(s))
           \/ /\ opt.mode = "tight"
              /\ \E v \in Fails(s, "mount"), d \in Dirs :
                   t = enter_dir(With(leave_dir(v), [Cur(v) EXCEPT !.dir = d]))
<1>1. CASE opt.mode # "tight"
  BY <1>1 DEF Reopened
<1>2. CASE opt.mode = "tight"
  <2> DEFINE F == Fails(s, "mount")
             R(v, d) == enter_dir(With(leave_dir(v), [Cur(v) EXCEPT !.dir = d]))
  <2>1. Reopened(s) = {enter_dir(leave_dir(s))} \cup {R(v, d) : v \in F, d \in Dirs}
    BY <1>2 DEF Reopened
  <2> HIDE DEF R, F
  <2>2. \A t \in Reopened(s) : t = enter_dir(leave_dir(s)) \/ \E v \in F, d \in Dirs : t = R(v, d)
    BY <2>1
  <2> QED
    BY <1>2, <2>2 DEF R, F
<1> QED
  BY <1>1, <1>2

\* FTS_TIGHT_CYCLE_CHECK enters the directory that it left again, if nothing is mounted.
LEMMA ReopenedCovered ==
  ASSUME NEW s, Covered(s), Cur(s).info = "D", NEW t \in Reopened(s)
  PROVE  Covered(t) /\ (t.trouble = 0 => Cur(t) = Cur(s))
<1>1. s \in Streams
  BY DEF Covered, Sound
<1>2. CASE t = s
  BY <1>2
<1>3. CASE opt.mode = "tight" /\ t = enter_dir(leave_dir(s))
  <2> DEFINE u == leave_dir(s)
  <2>1. HasTable
    BY <1>3 DEF HasTable
  <2>2. Sound(s, {Cur(s).dir}, {Cur(s).dir})
    BY DEF Covered
  <2>3. /\ Sound(u, {Cur(s).dir}, {}) /\ u.path = s.path /\ u.trouble = s.trouble
        /\ Cur(s).dir \notin u.active
    BY <2>1, <2>2, LeaveSound
  <2> HIDE DEF u
  <2>4. Cur(u) = Cur(s)
    BY <2>3 DEF Cur
  <2>5. /\ Covered(enter_dir(u)) /\ enter_dir(u).path = u.path
    BY <2>1, <2>3, <2>4, EnterCovered DEF Covered
  <2> QED
    BY <1>3, <2>3, <2>4, <2>5 DEF Cur, u
<1>4. CASE \E v \in Fails(s, "mount"), d \in Dirs :
             t = enter_dir(With(leave_dir(v), [Cur(v) EXCEPT !.dir = d]))
  <2>0. PICK v \in Fails(s, "mount"), d \in Dirs :
          t = enter_dir(With(leave_dir(v), [Cur(v) EXCEPT !.dir = d]))
    BY <1>4
  <2> DEFINE u == leave_dir(v)
             node == [Cur(v) EXCEPT !.dir = d]
  <2>1. v \in Streams /\ v.trouble # 0 /\ v.path = s.path
    BY <1>1, FailsTroubled
  <2>2. Cur(v) = Cur(s) /\ Cur(v) \in Nodes
    BY <2>1, CurTyped DEF Cur
  <2>3. node \in Nodes /\ node.info = "D"
    BY <2>2 DEF Nodes
  <2>4. u \in Streams /\ u.trouble # 0
    BY <2>1, LeaveSound DEF Sound
  <2> HIDE DEF u, node
  <2> DEFINE w == With(u, node)
  <2>5. w \in Streams /\ w.trouble # 0 /\ Cur(w) = node
    BY <2>3, <2>4, WithTwin DEF Twin
  <2>6. t = enter_dir(w)
    BY <2>0 DEF u, node
  <2> HIDE DEF w
  <2>7. Sound(w, {Cur(w).dir}, {})
    BY <2>5, Troubled
  <2> QED
    BY <2>3, <2>5, <2>6, <2>7, EnterCovered
<1>5. \/ t = s
      \/ opt.mode = "tight" /\ t = enter_dir(leave_dir(s))
      \/ \E v \in Fails(s, "mount"), d \in Dirs :
           t = enter_dir(With(leave_dir(v), [Cur(v) EXCEPT !.dir = d]))
  BY ReopenedIs
<1> QED
  BY <1>2, <1>3, <1>4, <1>5

\* What is opened counts as read, all its entries are owed.
LEMMA OpenedSound ==
  ASSUME NEW s, Covered(s), Cur(s).info = "D", fs \in FileSystems, NEW t \in Opened(s)
  PROVE  /\ Sound(t, {}, {})
         /\ t.trouble = 0 => /\ Cur(t).dir \in t.visited /\ Cur(t).instr = "NOINSTR"
                             /\ IsFiniteSet(Cur(t).unread)
<1>1. PICK u \in Reopened(s) :
        t = With([u EXCEPT !.visited = @ \cup {Cur(u).dir}], [Cur(u) EXCEPT !.unread = fs[Cur(u).dir]])
  BY DEF Opened
<1> DEFINE d == Cur(u).dir
           v == [u EXCEPT !.visited = u.visited \cup {d}]
           node == [Cur(u) EXCEPT !.unread = fs[d]]
<1>2. Covered(u) /\ (u.trouble = 0 => Cur(u).info = "D") /\ u \in Streams
  BY ReopenedCovered DEF Covered, Sound
<1>3. Cur(u) \in Nodes /\ d \in Dirs
  BY <1>2, CurTyped DEF Nodes
<1>4. fs[d] \subseteq Dirs /\ IsFiniteSet(fs[d])
  BY <1>3, ReachableClosed
<1>5. /\ node \in Nodes /\ node.dir = d /\ node.link = Cur(u).link /\ node.unread = fs[d]
      /\ node.instr = Cur(u).instr
  BY <1>3, <1>4 DEF Nodes
<1>6. /\ v \in Streams /\ v.path = u.path /\ v.active = u.active /\ v.status = u.status
      /\ v.counter = u.counter /\ v.record = u.record /\ v.trouble = u.trouble
      /\ v.visited = u.visited \cup {d}
  BY <1>2, <1>3 DEF Streams
<1>7. t = With(v, node)
  BY <1>1
<1>8. Cur(v) = Cur(u) /\ OwedAbove(v) = OwedAbove(u)
  BY <1>6 DEF Cur, OwedAbove
<1> HIDE DEF v, node, d
<1>9. Twin(t, v) /\ Cur(t) = node
  BY <1>5, <1>6, <1>7, WithTwin
<1>10. /\ t \in Streams /\ t.trouble = u.trouble /\ t.status = u.status
       /\ t.visited = u.visited \cup {d}
  BY <1>6, <1>9 DEF Twin
<1>11. ASSUME u.trouble = 0
       PROVE  t.status # "done" /\ Trail(t) /\ Whole(t, {}) /\ Known(t, {}) /\ node.instr = "NOINSTR"
  <2>1. /\ u.status # "done" /\ Trail(u) /\ Whole(u, {d}) /\ Known(u, {d})
        /\ Cur(u).unread = {} /\ Cur(u).instr = "NOINSTR"
    BY <1>2, <1>11 DEF Covered, Sound, d
  <2>2. Trail(v) /\ Known(v, {})
    BY <1>6, <2>1 DEF Trail, Known
  <2>3. Trail(t) /\ Known(t, {})
    BY <1>6, <1>9, <2>2, TwinIs
  <2>4. Owed(t) = Owed(u) \cup fs[d]
    <3>1. OwedAbove(t) = OwedAbove(u)
      BY <1>6, <1>8, <1>9, TwinIs
    <3>2. Owed(t) = OwedAbove(t) \cup Cur(t).link \cup Cur(t).unread
      BY <1>10, OwedIs
    <3>3. Owed(u) = OwedAbove(u) \cup Cur(u).link \cup Cur(u).unread
      BY <1>2, OwedIs
    <3> QED
      BY <1>5, <1>9, <2>1, <3>1, <3>2, <3>3
  <2>5. Whole(t, {})
    <3>1. /\ Roots \subseteq u.visited \cup Owed(u) \cup {d}
          /\ \A e \in u.visited : fs[e] \subseteq u.visited \cup Owed(u) \cup {d}
          /\ u.visited \cup Owed(u) \cup {d} \subseteq Reachable
      BY <2>1 DEF Whole
    <3>2. fs[d] \subseteq Reachable
      BY <3>1, ReachableClosed
    <3> QED
      BY <1>10, <2>4, <3>1, <3>2 DEF Whole
  <2> QED
    BY <1>5, <1>10, <2>1, <2>3, <2>5
<1> QED
  BY <1>4, <1>5, <1>9, <1>10, <1>11 DEF Sound

----------------------------------------------------------------------------
(***************************************************************************)
(* The inductive invariant.  Once the walk is done nothing is owed, so that *)
(* what it read has the roots and is closed: it has all that can be        *)
(* reached; and it has no more.                                            *)
(***************************************************************************)
WalkInv ==
    /\ fs \in FileSystems /\ opt \in Setups /\ sp \in Streams
    /\ sp.status # "done" => Covered(sp)
    /\ NothingMissed

\* A call that leaves the stream covered keeps the invariant.
LEMMA BecomesCovered ==
  ASSUME WalkInv, UNCHANGED fixed, Covered(sp')
  PROVE  WalkInv'
<1>1. fs' = fs /\ opt' = opt
  BY DEF fixed
<1>2. Reachable' = Reachable
  BY <1>1 DEF Reachable, Closed
<1>3. Covered(sp)'
  BY <1>1, <1>2 DEF Covered, Sound, Trail, Whole, Known, HasTable, Owed, Streams, Nodes
<1>4. sp' \in Streams /\ (sp'.trouble = 0 => sp'.status # "done")
  BY DEF Covered, Sound
<1> QED
  BY <1>1, <1>3, <1>4 DEF WalkInv, NothingMissed, Streams, Nodes

LEMMA IntoCovered ==
  ASSUME WalkInv, ReadInto
  PROVE  Covered(sp')
<1>1. /\ sp.status = "walking" /\ Cur(sp).info = "D" /\ Covered(sp) /\ sp \in Streams
      /\ fs \in FileSystems /\ opt \in Setups
  BY DEF ReadInto, Becomes, WalkInv
<1>2. CASE \E t \in Fails(sp, "open") : sp' = Childless(Failed(t, "DNR"))
  <2>1. PICK t \in Fails(sp, "open") : sp' = Childless(Failed(t, "DNR"))
    BY <1>2
  <2>2. Failed(t, "DNR") \in Streams /\ Failed(t, "DNR").trouble # 0
    BY <1>1, FailedTroubled DEF Infos
  <2> QED
    BY <2>1, <2>2, Troubled, ChildlessCovered
<1>3. CASE sp' \in RestatFails(sp)
  <2>1. PICK t \in Fails(sp, "fstat") : sp' = Childless(Failed(leave_dir(t), "NS"))
    BY <1>3 DEF RestatFails
  <2>2. t \in Streams /\ t.trouble # 0
    BY <1>1, FailsTroubled
  <2> DEFINE u == leave_dir(t)
             v == Failed(u, "NS")
  <2>3. u \in Streams /\ u.trouble # 0
    BY <2>2, LeaveSound DEF Sound
  <2> HIDE DEF u
  <2>4. v \in Streams
    BY <2>3, FailedBeside DEF Beside, Infos
  <2>5. v.trouble # 0
    BY <2>3 DEF Failed, With
  <2> HIDE DEF v
  <2> QED
    BY <2>1, <2>4, <2>5, Troubled, ChildlessCovered DEF u, v
<1>4. CASE sp' \in ChdirFails(sp)
  <2>1. PICK t \in Reopened(sp) : \E u \in Fails(t, "chdir") : sp' = Childless(Failed(u, "DP"))
    BY <1>4 DEF ChdirFails
  <2>2. PICK u \in Fails(t, "chdir") : sp' = Childless(Failed(u, "DP"))
    BY <2>1
  <2>3. t \in Streams
    BY <1>1, ReopenedCovered DEF Covered, Sound
  <2>4. Failed(u, "DP") \in Streams /\ Failed(u, "DP").trouble # 0
    BY <2>3, FailedTroubled DEF Infos
  <2> QED
    BY <2>2, <2>4, Troubled, ChildlessCovered
<1>5. CASE \E s \in Opened(sp) : \E r \in Read(s) \cup ReadFails(s) : sp' \in DownOrBack(r)
  <2>1. PICK s \in Opened(sp) : \E r \in Read(s) \cup ReadFails(s) : sp' \in DownOrBack(r)
    BY <1>5
  <2>2. PICK r \in Read(s) \cup ReadFails(s) : sp' \in DownOrBack(r)
    BY <2>1
  <2>3. /\ Sound(s, {}, {}) /\ s \in Streams
        /\ s.trouble = 0 => /\ Cur(s).dir \in s.visited /\ Cur(s).instr = "NOINSTR"
                            /\ IsFiniteSet(Cur(s).unread)
    BY <1>1, OpenedSound DEF Sound
  <2>4. CASE r \in Read(s)
    <3>1. Batch(r.stream, r.entries) /\ (r.entries = {} => Cur(r.stream).info = "DP")
      BY <1>1, <2>3, <2>4, ReadBatched
    <3> QED
      BY <2>2, <3>1, DownOrBackCovered
  <2>5. CASE r \in ReadFails(s)
    <3>1. Batch(r.stream, r.entries) /\ r.stream.trouble # 0
      BY <2>3, <2>5, ReadFailsBatched
    <3> QED
      BY <2>2, <3>1, DownOrBackCovered
  <2> QED
    BY <2>4, <2>5
<1>6. sp' \in {Childless(Failed(t, "DNR")) : t \in Fails(sp, "open")}
             \cup RestatFails(sp) \cup ChdirFails(sp)
             \cup UNION {DownOrBack(r) : r \in UNION {Read(s) \cup ReadFails(s) : s \in Opened(sp)}}
  BY DEF ReadInto, Becomes
<1>7. CASE sp' \in UNION {DownOrBack(r) : r \in UNION {Read(s) \cup ReadFails(s) : s \in Opened(sp)}}
  BY <1>5, <1>7
<1> QED
  BY <1>2, <1>3, <1>4, <1>6, <1>7

\* A node that is not to be visited: nothing is at hand.
LEMMA MovesOnSound ==
  ASSUME WalkInv, sp.status = "walking", MovesOn
  PROVE  /\ Sound(sp, {}, {}) /\ sp \in Streams /\ Cur(sp).link \in SUBSET Dirs
         /\ sp.trouble = 0 => Cur(sp).unread = {} /\ Cur(sp).instr = "NOINSTR"
<1>1. Covered(sp) /\ sp \in Streams /\ Cur(sp).info # "D"
  BY DEF WalkInv, MovesOn
<1>2. Cur(sp).link \in SUBSET Dirs
  BY <1>1, CurTyped DEF Nodes
<1> QED
  BY <1>1, <1>2 DEF Covered

LEMMA RootCovered ==
  ASSUME WalkInv, ReadRoot
  PROVE  Covered(sp')
<1>1. /\ Sound(sp, {}, {}) /\ sp \in Streams /\ Cur(sp).link \in SUBSET Dirs
      /\ sp.trouble = 0 => Cur(sp).unread = {}
  BY MovesOnSound DEF ReadRoot, Becomes
<1>2. CASE sp' \in Lost(sp)
  BY <1>1, <1>2, LostCovered
<1>3. CASE \E s \in SetUp(sp) : sp' \in Moved(s, Cur(s).link)
  <2>1. PICK s \in SetUp(sp) : sp' \in Moved(s, Cur(s).link)
    BY <1>3
  <2>2. PICK d \in Dirs : s = [sp EXCEPT !.active = {}, !.counter = 0, !.record = d]
    BY <2>1 DEF SetUp
  <2>3. s = [path |-> sp.path, status |-> sp.status, active |-> {}, counter |-> 0, record |-> d,
             visited |-> sp.visited, trouble |-> sp.trouble]
    BY <1>1, <2>2 DEF Streams
  <2>4. /\ s \in Streams /\ s.path = sp.path /\ s.status = sp.status /\ s.active = {} /\ s.counter = 0
        /\ s.visited = sp.visited /\ s.trouble = sp.trouble
    BY <1>1, <2>3 DEF Streams
  <2>5. Cur(s) = Cur(sp) /\ Owed(s) = Owed(sp) /\ (Trail(s) <=> Trail(sp))
    BY <2>4 DEF Cur, Owed, Trail
  <2>6. Sound(s, {}, {})
    BY <1>1, <2>4, <2>5 DEF Sound, Whole, Known
  <2>7. s.trouble = 0 => s.visited \cup Cur(s).link = s.visited \cup Cur(s).link \cup Cur(s).unread \cup {}
    BY <1>1, <2>4, <2>5
  <2> QED
    BY <1>1, <2>1, <2>5, <2>6, <2>7, MovedCovered
<1> QED
  BY <1>2, <1>3 DEF ReadRoot, Becomes

LEMMA BatchCovered ==
  ASSUME WalkInv, ReadBatch \/ ReadUp
  PROVE  Covered(sp')
<1>1. /\ Sound(sp, {}, {}) /\ sp \in Streams /\ opt \in Setups
      /\ sp.trouble = 0 => Cur(sp).link = {} /\ Cur(sp).unread = {}
      /\ Len(sp.path) > 1
  BY MovesOnSound DEF ReadBatch, ReadUp, LastOfBatch, Becomes, WalkInv
<1> DEFINE s == Popped(sp)
<1>2. /\ Sound(s, {}, {}) /\ s.trouble = sp.trouble /\ Cur(s) = Parent(sp)
      /\ sp.trouble = 0 => /\ Cur(s).dir \in s.visited /\ Cur(s).instr = "NOINSTR"
                           /\ IsFiniteSet(Cur(s).unread) /\ (Cur(s).unread # {} => Cur(s).dirp)
  BY <1>1, PoppedSound
<1>3. CASE ReadBatch
  <2>1. PICK r \in Read(s) \cup ReadFails(s) : sp' \in DownOrUp(r)
    BY <1>3 DEF ReadBatch, Becomes
  <2> HIDE DEF s
  <2>2. Batch(r.stream, r.entries)
    <3>1. CASE r \in Read(s)
      BY <1>1, <1>2, <3>1, ReadBatched
    <3>2. CASE r \in ReadFails(s)
      BY <1>2, <3>2, ReadFailsBatched DEF Sound
    <3> QED
      BY <3>1, <3>2
  <2> QED
    BY <2>1, <2>2, DownOrUpCovered
<1>4. CASE ReadUp
  <2>1. ~Parent(sp).dirp /\ sp' \in Up(s)
    BY <1>4 DEF ReadUp, Becomes
  <2> HIDE DEF s
  <2> QED
    BY <1>2, <2>1, UpCovered
<1> QED
  BY <1>3, <1>4

LEMMA HeardTroubled ==
  ASSUME WalkInv, sp.status = "walking", Cur(sp).instr # "NOINSTR"
  PROVE  Heard \in Streams /\ Heard.trouble # 0
<1>1. Covered(sp) /\ sp \in Streams /\ sp.trouble # 0
  BY DEF WalkInv, Covered
<1> DEFINE node == [Cur(sp) EXCEPT !.instr = "NOINSTR"]
<1>2. node \in Nodes
  BY <1>1, CurTyped DEF Nodes
<1>3. Heard = With(sp, node)
  BY DEF Heard
<1> HIDE DEF node
<1> QED
  BY <1>1, <1>2, <1>3, WithTwin DEF Twin

LEMMA ReadCovered ==
  ASSUME WalkInv, fts_read, ~ReadEnd
  PROVE  Covered(sp')
<1>1. CASE ReadAgain
  <2>1. Heard \in Streams /\ Heard.trouble # 0
    BY <1>1, HeardTroubled DEF ReadAgain, Becomes
  <2>2. CASE sp' = Informed(Heard, "D")
    BY <2>1, <2>2, InformedTwin, Troubled DEF Twin, Infos
  <2>3. CASE \E t \in Fails(Heard, "stat") : sp' = Failed(t, "NS")
    BY <2>1, <2>3, FailedTroubled, Troubled DEF Infos
  <2> QED
    BY <1>1, <2>2, <2>3 DEF ReadAgain, Becomes
<1>2. CASE ReadSkipped
  <2>1. Heard \in Streams /\ Heard.trouble # 0
    BY <1>2, HeardTroubled DEF ReadSkipped, Becomes
  <2> DEFINE t == Informed(Heard, "DP")
  <2>2. sp' = leave_dir(t)
    BY <1>2 DEF ReadSkipped, Becomes
  <2>3. t \in Streams /\ t.trouble # 0
    BY <2>1, InformedTwin DEF Twin, Infos
  <2> HIDE DEF t
  <2>4. leave_dir(t) \in Streams /\ leave_dir(t).trouble # 0
    BY <2>3, Troubled, LeaveSound DEF Sound
  <2> QED
    BY <2>2, <2>4, Troubled
<1>3. CASE ReadSibling
  <2>1. sp.status = "walking" /\ MovesOn /\ sp' \in Moved(sp, Cur(sp).link)
    BY <1>3 DEF ReadSibling, Becomes
  <2>2. /\ Sound(sp, {}, {}) /\ Cur(sp).link \in SUBSET Dirs
        /\ sp.trouble = 0 => Cur(sp).unread = {}
    BY <2>1, MovesOnSound
  <2> QED
    BY <2>1, <2>2, MovedCovered
<1> QED
  BY <1>1, <1>2, <1>3, IntoCovered, RootCovered, BatchCovered DEF fts_read

LEMMA SetCovered ==
  ASSUME WalkInv, NEW instr \in {"AGAIN", "SKIP"}, fts_set(instr)
  PROVE  Covered(sp')
<1> DEFINE s == [sp EXCEPT !.trouble = @ + 1]
           node == [Cur(sp) EXCEPT !.instr = instr]
<1>1. sp' = With(s, node) /\ sp.trouble < MaxTrouble /\ sp \in Streams
  BY DEF fts_set, WalkInv
<1>2. s \in Streams /\ s.trouble # 0
  BY <1>1, FtsAssumption, SMTT(30) DEF Streams
<1>3. node \in Nodes
  BY <1>1, CurTyped DEF Nodes
<1> HIDE DEF s, node
<1>4. sp' \in Streams /\ sp'.trouble # 0
  BY <1>1, <1>2, <1>3, WithTwin DEF Twin
<1> QED
  BY <1>4, Troubled

LEMMA EndMissesNothing ==
  ASSUME WalkInv, ReadEnd
  PROVE  WalkInv'
<1>1. /\ Sound(sp, {}, {}) /\ sp \in Streams /\ fs \in FileSystems
      /\ sp.trouble = 0 => Cur(sp).unread = {}
      /\ Cur(sp).link = {} /\ Len(sp.path) = 1
      /\ sp' = [sp EXCEPT !.status = "done"] /\ fs' = fs /\ opt' = opt /\ opt \in Setups
  BY MovesOnSound DEF ReadEnd, Becomes, WalkInv, fixed
<1>2. sp' \in Streams /\ sp'.status = "done" /\ sp'.trouble = sp.trouble /\ sp'.visited = sp.visited
  BY <1>1 DEF Streams
<1>3. ASSUME sp.trouble = 0 PROVE sp.visited = Reachable
  <2>1. OwedAbove(sp) = {}
    BY <1>1 DEF OwedAbove
  <2>2. Owed(sp) = {}
    BY <1>1, <1>3, <2>1, OwedIs
  <2>3. sp.visited \subseteq Dirs /\ Closed(sp.visited) /\ sp.visited \subseteq Reachable
    BY <1>1, <1>3, <2>2 DEF Sound, Whole, Closed, Streams
  <2>4. Reachable \subseteq sp.visited
    BY <2>3 DEF Reachable
  <2> QED
    BY <2>3, <2>4
<1>4. Reachable' = Reachable
  BY <1>1 DEF Reachable, Closed
<1> QED
  BY <1>1, <1>2, <1>3, <1>4 DEF WalkInv, NothingMissed, Streams, Nodes

LEMMA InitCovered ==
  ASSUME Init
  PROVE  WalkInv
<1> DEFINE first == CHOOSE d \in Dirs : TRUE
           node == Node(first, "INIT", Roots)
<1>1. PICK record \in Dirs :
        sp = [[path |-> <<node>>, status |-> "walking", active |-> {}, counter |-> 0, record |-> 0,
               visited |-> {}, trouble |-> 0] EXCEPT !.active = {}, !.counter = 0, !.record = record]
  BY DEF Init, SetUp
<1>2. first \in Dirs
  BY <1>1
<1>3. /\ node \in Nodes /\ node.info = "INIT" /\ node.instr = "NOINSTR" /\ node.link = Roots
      /\ node.unread = {}
  BY <1>2, FtsAssumption DEF Node, Nodes, Infos
<1> HIDE DEF node
<1>4. sp = [path |-> <<node>>, status |-> "walking", active |-> {}, counter |-> 0, record |-> record,
            visited |-> {}, trouble |-> 0]
  BY <1>1
<1>5. /\ sp \in Streams /\ sp.path = <<node>> /\ sp.status = "walking" /\ sp.active = {}
      /\ sp.counter = 0 /\ sp.visited = {}
  BY <1>3, <1>4, FtsAssumption DEF Streams
<1>6. Len(sp.path) = 1 /\ Cur(sp) = node
  BY <1>5 DEF Cur, Last
<1>7. OwedAbove(sp) = {} /\ Trail(sp)
  BY <1>6 DEF OwedAbove, Trail
<1>8. Owed(sp) = Roots
  BY <1>3, <1>5, <1>6, <1>7, OwedIs
<1>9. Roots \subseteq Reachable
  BY ReachableClosed DEF Init
<1>10. Sound(sp, {}, {})
  BY <1>5, <1>7, <1>8, <1>9 DEF Sound, Whole, Known
<1>11. Covered(sp)
  BY <1>3, <1>6, <1>10 DEF Covered
<1> QED
  BY <1>5, <1>11 DEF Init, WalkInv, NothingMissed

(***************************************************************************)
(* NothingMissed, for every setup, every finite or infinite set of         *)
(* directories with finitely many entries each, and any cycles: a walk     *)
(* without faults and instructions has read what can be reached, and       *)
(* nothing else (fts_read.h:1229-1290).                                    *)
(***************************************************************************)
THEOREM MissesNothing == Spec => []NothingMissed
<1>1. Init => WalkInv
  BY InitCovered
<1>2. WalkInv /\ [Next]_vars => WalkInv'
  <2> SUFFICES ASSUME WalkInv, [Next]_vars PROVE WalkInv'
    OBVIOUS
  <2>1. CASE fts_read
    <3>1. UNCHANGED fixed
      BY <2>1 DEF fts_read, Becomes,
           ReadAgain, ReadSkipped, ReadInto, ReadSibling, ReadRoot, ReadBatch, ReadUp, ReadEnd
    <3> QED
      BY <2>1, <3>1, ReadCovered, BecomesCovered, EndMissesNothing
  <2>2. CASE \E instr \in {"AGAIN", "SKIP"} : fts_set(instr)
    <3>1. UNCHANGED fixed
      BY <2>2 DEF fts_set
    <3> QED
      BY <2>2, <3>1, SetCovered, BecomesCovered
  <2>3. CASE UNCHANGED vars
    <3>1. sp' = sp /\ UNCHANGED fixed
      BY <2>3 DEF vars
    <3>2. CASE sp.status # "done"
      BY <3>1, <3>2, BecomesCovered DEF WalkInv
    <3>3. CASE sp.status = "done"
      <4>1. fs' = fs /\ opt' = opt /\ Reachable' = Reachable
        BY <3>1 DEF fixed, Reachable, Closed
      <4> QED
        BY <3>1, <3>3, <4>1 DEF WalkInv, NothingMissed, Streams, Nodes
    <3> QED
      BY <3>2, <3>3
  <2> QED
    BY <2>1, <2>2, <2>3 DEF Next
<1>3. WalkInv => NothingMissed
  BY DEF WalkInv
<1> QED
  BY <1>1, <1>2, <1>3, PTL DEF Spec

----------------------------------------------------------------------------
(***************************************************************************)
(* The working directory and the ring: counting descriptors.  Places:      *)
(* where they are in a list.                                               *)
(***************************************************************************)
Places(dirs) == {i \in DOMAIN dirs : dirs[i] # Start}

LEMMA FdsBounded ==
  ASSUME NEW D, NEW s \in Seq(D)
  PROVE  IsFiniteSet(Places(s)) /\ Fds(s) \in Nat /\ Fds(s) <= Len(s) /\ Fds(s) = Cardinality(Places(s))
<1>1. Places(s) \in SUBSET (1 .. Len(s)) /\ Len(s) \in Nat
  BY DEF Places
<1>2. IsFiniteSet(1 .. Len(s)) /\ Cardinality(1 .. Len(s)) = Len(s)
  <2>1. 1 \in Int /\ Len(s) \in Int
    BY <1>1
  <2>2. /\ IsFiniteSet(1 .. Len(s))
        /\ Cardinality(1 .. Len(s)) = IF 1 > Len(s) THEN 0 ELSE Len(s) - 1 + 1
    BY <2>1, FS_Interval, Zenon
  <2> QED
    BY <1>1, <2>2
<1>3. IsFiniteSet(Places(s)) /\ Cardinality(Places(s)) <= Len(s)
  BY <1>1, <1>2, FS_Subset
<1>4. Fds(s) = Cardinality(Places(s))
  BY DEF Fds, Places
<1> QED
  BY <1>3, <1>4, FS_CardinalityType

LEMMA FdsEmpty == Fds(<<>>) = 0
<1>1. {i \in DOMAIN <<>> : <<>>[i] # Start} = {}
  OBVIOUS
<1> QED
  BY <1>1, FS_EmptySet DEF Fds

LEMMA FdsOne ==
  ASSUME NEW d
  PROVE  Fds(<<d>>) = IF d # Start THEN 1 ELSE 0
<1>1. {i \in DOMAIN <<d>> : <<d>>[i] # Start} = IF d # Start THEN {1} ELSE {}
  OBVIOUS
<1>2. Cardinality({1}) = 1
  BY FS_Singleton
<1> QED
  BY <1>1, <1>2, FS_EmptySet DEF Fds

LEMMA FdsAppend ==
  ASSUME NEW D, NEW s \in Seq(D), NEW d \in D
  PROVE  Fds(Append(s, d)) = Fds(s) + Fds(<<d>>)
<1>1. IsFiniteSet(Places(s)) /\ Fds(s) = Cardinality(Places(s)) /\ Fds(s) \in Nat
  BY FdsBounded
<1>2. Fds(Append(s, d)) = Cardinality(Places(Append(s, d)))
  BY DEF Fds, Places
<1>3. Places(Append(s, d)) = IF d # Start THEN Places(s) \cup {Len(s) + 1} ELSE Places(s)
  BY DEF Places
<1>4. Len(s) + 1 \notin Places(s)
  BY DEF Places
<1>5. Cardinality(Places(s) \cup {Len(s) + 1}) = Cardinality(Places(s)) + 1
  BY <1>1, <1>4, FS_AddElement
<1> QED
  BY <1>1, <1>2, <1>3, <1>5, FdsOne

LEMMA FrontAndLast ==
  ASSUME NEW D, NEW s \in Seq(D), s # <<>>
  PROVE  /\ Len(s) \in Nat \ {0} /\ Last(s) = s[Len(s)] /\ Last(s) \in D
         /\ Front(s) \in Seq(D) /\ Len(Front(s)) = Len(s) - 1
         /\ \A i \in 1 .. Len(s) - 1 : Front(s)[i] = s[i]
         /\ s = Append(Front(s), Last(s))
<1>1. Len(s) \in Nat \ {0} /\ \A i \in 1 .. Len(s) : s[i] \in D
  OBVIOUS
<1>2. Last(s) = s[Len(s)] /\ Last(s) \in D
  BY <1>1 DEF Last
<1>3. /\ Front(s) \in Seq(D) /\ Len(Front(s)) = Len(s) - 1
      /\ \A i \in 1 .. Len(s) - 1 : Front(s)[i] = s[i]
  <2> DEFINE n == Len(s) - 1
  <2>1. n \in Nat /\ n = Len(s) - 1 /\ \A i \in 1 .. n : s[i] \in D
    BY <1>1
  <2> HIDE DEF n
  <2>2. /\ SubSeq(s, 1, n) \in Seq(D) /\ Len(SubSeq(s, 1, n)) = n
        /\ \A i \in 1 .. n : SubSeq(s, 1, n)[i] = s[i]
    BY <2>1, SubSeqProperties
  <2>3. Front(s) = SubSeq(s, 1, n)
    BY <2>1 DEF Front
  <2> QED
    BY <2>1, <2>2, <2>3
<1>4. s = Append(Front(s), Last(s))
  <2> DEFINE t == Append(Front(s), Last(s))
  <2>1. t \in Seq(D) /\ Len(t) = Len(s)
    BY <1>1, <1>2, <1>3
  <2>2. \A i \in 1 .. Len(s) : s[i] = t[i]
    BY <1>1, <1>2, <1>3
  <2> QED
    BY <2>1, <2>2, SeqEqual
<1> QED
  BY <1>1, <1>2, <1>3, <1>4

LEMMA FdsFront ==
  ASSUME NEW D, NEW s \in Seq(D), s # <<>>
  PROVE  Fds(Front(s)) = Fds(s) - Fds(<<Last(s)>>)
<1>1. Front(s) \in Seq(D) /\ Last(s) \in D /\ s = Append(Front(s), Last(s))
  BY FrontAndLast
<1>2. Fds(s) = Fds(Front(s)) + Fds(<<Last(s)>>)
  BY <1>1, FdsAppend
<1>3. Fds(Front(s)) \in Nat /\ Fds(<<Last(s)>>) \in Nat
  BY <1>1, FdsBounded, FdsOne
<1> QED
  BY <1>2, <1>3

LEMMA FdsTail ==
  ASSUME NEW D, NEW s \in Seq(D), s # <<>>
  PROVE  Fds(Tail(s)) = Fds(s) - Fds(<<Head(s)>>)
<1> DEFINE t == Tail(s)
           Shifted == [i \in Places(t) |-> i + 1]
<1>1. /\ t \in Seq(D) /\ Len(t) = Len(s) - 1 /\ Len(s) \in Nat \ {0} /\ Head(s) = s[1]
      /\ \A i \in 1 .. Len(t) : t[i] = s[i + 1]
  OBVIOUS
<1> HIDE DEF t
<1>2. Shifted \in Bijection(Places(t), Places(s) \ {1})
  <2>1. Places(t) \subseteq Nat /\ DOMAIN t = 1 .. Len(t) /\ DOMAIN s = 1 .. Len(s)
    BY <1>1 DEF Places
  <2>2. Shifted \in [Places(t) -> Places(s) \ {1}]
    BY <1>1, <2>1 DEF Places
  <2>3. \A a, b \in Places(t) : Shifted[a] = Shifted[b] => a = b
    BY <2>1
  <2>4. \A c \in Places(s) \ {1} : \E a \in Places(t) : Shifted[a] = c
    <3> SUFFICES ASSUME NEW c \in Places(s) \ {1} PROVE c - 1 \in Places(t) /\ Shifted[c - 1] = c
      OBVIOUS
    <3>1. c \in 2 .. Len(s) /\ s[c] # Start
      BY <1>1, <2>1 DEF Places
    <3>2. c - 1 \in 1 .. Len(t) /\ t[c - 1] = s[c]
      BY <1>1, <3>1
    <3> QED
      BY <2>1, <3>1, <3>2 DEF Places
  <2> QED
    BY <2>2, <2>3, <2>4, Fun_IsBij
<1>3. /\ IsFiniteSet(Places(t)) /\ Fds(t) = Cardinality(Places(t)) /\ IsFiniteSet(Places(s))
      /\ Fds(s) = Cardinality(Places(s)) /\ Fds(s) \in Nat
  BY <1>1, FdsBounded
<1>4. Cardinality(Places(s) \ {1}) = Cardinality(Places(t))
  BY <1>2, <1>3, FS_Bijection DEF ExistsBijection
<1>5. Cardinality(Places(s) \ {1}) = IF 1 \in Places(s) THEN Fds(s) - 1 ELSE Fds(s)
  BY <1>3, FS_RemoveElement
<1>6. 1 \in Places(s) <=> Head(s) # Start
  BY <1>1 DEF Places
<1> QED
  BY <1>3, <1>4, <1>5, <1>6, FdsOne DEF t
----------------------------------------------------------------------------
(***************************************************************************)
(* The working directory of fts_read.  The ring and, after it, the working *)
(* directory are one list, oldest first: its k-th member is where the walk *)
(* was on a level of the path.  All but the first are the directories that *)
(* were opened there, each the parent of the next unless that was moved    *)
(* while the walk was in it.  The first one may be what the walk came back *)
(* to without a descriptor, by "..": the directory that stat had found.    *)
(***************************************************************************)
FcWalking == fc_pc \in {"entries", "directory", "opened"}
FcDepth == IF fc_pc = "directory" THEN Len(fc_path) - 1 ELSE Len(fc_path)
FcAt(k) == IF k <= Len(fc_ring) THEN fc_ring[k] ELSE fc_cwd
FcLevel(k) == FcDepth + k - Len(fc_ring) - 1
FcOnLevel(d, i) == d = fc_path[i].dir \/ (~fc_tight /\ i > 1 /\ d = fc_path[i].statp)

FcNames == {FcRoot} \cup {FcName[x] : x \in FcDirs}
FcNodes == [name : {Nowhere} \cup FcNames, statp : FcDirs \cup {Nowhere},
            dir : FcDirs \cup {Start, Nowhere}, left : SUBSET FcNames]

FcTyped ==
    /\ fc_up \in [FcDirs -> FcDirs \cup {Start, Elsewhere}] /\ fc_moved \subseteq FcDirs
    /\ fc_cwdfd \in BOOLEAN /\ fc_tight \in BOOLEAN
    /\ fc_ring \in Seq(FcDirs \cup {Start}) /\ Len(fc_ring) <= I_RING_SIZE
    /\ ~fc_cwdfd => fc_ring = <<>>
    /\ fc_fds \in Int

FcPathOK ==
    /\ fc_path \in Seq(FcNodes)
    /\ FcDepth >= 1 /\ (fc_pc = "opened" => FcDepth >= 2) /\ fc_path[1].dir = Start
    /\ \A i \in 2 .. Len(fc_path) : fc_path[i].statp \in FcDirs
    /\ \A i \in 2 .. FcDepth : fc_path[i].dir \in FcDirs /\ (fc_tight => fc_path[i].dir = fc_path[i].statp)

FcAligned ==
    /\ Len(fc_ring) < FcDepth
    /\ FcOnLevel(FcAt(1), FcLevel(1))
    /\ \A k \in 2 .. Len(fc_ring) + 1 : FcAt(k) = fc_path[FcLevel(k)].dir
    /\ fc_pc = "opened" => fc_cwd = fc_path[FcDepth].dir
FcLinked ==
    \A k \in 1 .. Len(fc_ring) :
        FcAt(k) \in {Start, DotDot(FcAt(k + 1))} \/ FcAt(k + 1) \in fc_moved

\* Every open descriptor is the working directory's, one of the ring or the stream's.
FcCounted ==
    fc_fds = (IF fc_cwdfd THEN CwdFd + Fds(fc_ring) ELSE IF fc_pc = "closed" THEN 0 ELSE 1)
             + (IF fc_pc = "opened" THEN 1 ELSE 0)

FcIInv ==
    /\ FcTyped /\ FcCounted
    /\ FcWalking => FcPathOK /\ FcAligned /\ FcLinked
    /\ AbortsWhenMoved
    /\ fc_pc = "closed" => fc_fds = 0

\* Where the walk is, and where it was one level above.
LEMMA CwdIsHere ==
  ASSUME FcTyped, FcWalking, FcPathOK, FcAligned
  PROVE  /\ FcOnLevel(fc_cwd, FcDepth) /\ FcDepth \in Nat /\ FcDepth <= Len(fc_path)
         /\ FcDepth = 1 => fc_cwd = Start
         /\ FcDepth > 1 => fc_cwd \in FcDirs
         /\ fc_ring # <<>> =>
              /\ FcDepth > 1 /\ Last(fc_ring) = FcAt(Len(fc_ring))
              /\ FcOnLevel(Last(fc_ring), FcDepth - 1)
              /\ FcDepth > 2 => Last(fc_ring) \in FcDirs
<1>1. /\ Len(fc_ring) \in Nat /\ Len(fc_path) \in Nat /\ FcDepth \in Nat /\ FcDepth <= Len(fc_path)
      /\ fc_cwd = FcAt(Len(fc_ring) + 1) /\ FcLevel(Len(fc_ring) + 1) = FcDepth
  BY DEF FcTyped, FcPathOK, FcDepth, FcAt, FcLevel
<1>2. ASSUME NEW d, NEW i \in 1 .. FcDepth, FcOnLevel(d, i)
      PROVE  (i = 1 => d = Start) /\ (i > 1 => d \in FcDirs)
  BY <1>1, <1>2 DEF FcOnLevel, FcPathOK
<1>3. FcOnLevel(fc_cwd, FcDepth)
  BY <1>1 DEF FcAligned, FcOnLevel
<1>4. (FcDepth = 1 => fc_cwd = Start) /\ (FcDepth > 1 => fc_cwd \in FcDirs)
  BY <1>1, <1>2, <1>3 DEF FcPathOK
<1>5. ASSUME fc_ring # <<>>
      PROVE  /\ FcDepth > 1 /\ Last(fc_ring) = FcAt(Len(fc_ring))
             /\ FcOnLevel(Last(fc_ring), FcDepth - 1)
  <2>1. Len(fc_ring) \in Nat \ {0} /\ Last(fc_ring) = fc_ring[Len(fc_ring)]
    BY <1>5 DEF FcTyped, Last
  <2>2. Last(fc_ring) = FcAt(Len(fc_ring)) /\ FcLevel(Len(fc_ring)) = FcDepth - 1
    BY <1>1, <2>1 DEF FcAt, FcLevel
  <2>3. FcOnLevel(FcAt(Len(fc_ring)), FcLevel(Len(fc_ring)))
    BY <2>1 DEF FcAligned, FcOnLevel
  <2> QED
    BY <1>1, <2>1, <2>2, <2>3 DEF FcAligned
<1>6. ASSUME fc_ring # <<>>, FcDepth > 2 PROVE Last(fc_ring) \in FcDirs
  BY <1>1, <1>2, <1>5, <1>6
<1> QED
  BY <1>1, <1>3, <1>4, <1>5, <1>6

\* A mismatch in the ring, or in what is left of it, comes of a directory that was moved
\* while the walk was in it.
LEMMA MismatchMeansMoved ==
  ASSUME FcTyped, FcWalking, FcPathOK, FcAligned, FcLinked,
         NEW n \in 0 .. Len(fc_ring), NEW ring, Len(ring) = n, DOMAIN ring = 1 .. n,
         \A i \in 1 .. n : ring[i] = fc_ring[i],
         ~RingMatches(FcAt(n + 1), ring)
  PROVE  \E i \in DOMAIN fc_path : fc_path[i].dir \in fc_moved
<1>0. Len(fc_ring) \in Nat
  BY DEF FcTyped
<1>1. PICK k \in 1 .. n : ring[k] \notin {Start, DotDot(IF k = n THEN FcAt(n + 1) ELSE ring[k + 1])}
  BY DEF RingMatches
<1>2. ring[k] = FcAt(k) /\ (IF k = n THEN FcAt(n + 1) ELSE ring[k + 1]) = FcAt(k + 1)
  BY <1>0 DEF FcAt
<1>3. FcAt(k + 1) \in fc_moved
  BY <1>0, <1>1, <1>2 DEF FcLinked
<1>4. FcAt(k + 1) = fc_path[FcLevel(k + 1)].dir
  BY <1>0 DEF FcAligned
<1>5. FcLevel(k + 1) \in DOMAIN fc_path
  BY <1>0, CwdIsHere DEF FcLevel, FcAligned, FcPathOK
<1> QED
  BY <1>3, <1>4, <1>5

\* A step that stays where it is, whatever it does below.
LEMMA StaysPut ==
  ASSUME FcTyped, FcWalking, FcPathOK, FcAligned, FcLinked,
         UNCHANGED <<fc_cwd, fc_ring, fc_tight, fc_up, fc_moved>>, FcDepth' = FcDepth,
         \A i \in 1 .. FcDepth : fc_path'[i].dir = fc_path[i].dir /\ fc_path'[i].statp = fc_path[i].statp,
         fc_pc' # "opened"
  PROVE  FcAligned' /\ FcLinked'
<1>0. Len(fc_ring) \in Nat /\ FcDepth \in Nat
  BY CwdIsHere DEF FcTyped
<1>1. \A k : FcAt(k)' = FcAt(k) /\ FcLevel(k)' = FcLevel(k)
  BY DEF FcAt, FcLevel
<1>2. \A k \in 1 .. Len(fc_ring) + 1 : FcLevel(k) \in 1 .. FcDepth
  BY <1>0 DEF FcLevel, FcAligned
<1>3. FcAligned'
  <2>1. Len(fc_ring)' < FcDepth'
    BY <1>0 DEF FcAligned
  <2>2. FcLevel(1) \in 1 .. FcDepth /\ FcOnLevel(FcAt(1), FcLevel(1))
    BY <1>0, <1>2 DEF FcAligned
  <2>3. FcOnLevel(FcAt(1), FcLevel(1))'
    BY <1>1, <2>2 DEF FcOnLevel
  <2>4. \A k \in 2 .. Len(fc_ring) + 1 : FcAt(k)' = fc_path'[FcLevel(k)'].dir
    BY <1>0, <1>1, <1>2 DEF FcAligned
  <2> QED
    BY <2>1, <2>3, <2>4 DEF FcAligned
<1>4. FcLinked'
  BY <1>0, <1>1 DEF FcLinked, DotDot
<1> QED
  BY <1>3, <1>4

LEMMA MoveKeeps ==
  ASSUME FcIInv, NEW x \in FcDirs, NEW d \in FcDirs \cup {Start, Elsewhere}, FcMove(x, d)
  PROVE  FcIInv'
<1>1. /\ fc_up' = [fc_up EXCEPT ![x] = d]
      /\ fc_moved' = fc_moved \cup ({x} \cap {fc_path[i].dir : i \in DOMAIN fc_path})
      /\ UNCHANGED <<fcOptions, fc_path, fc_pc, fcDescriptors>>
      /\ fc_pc # "aborted" /\ fc_pc # "closed"
  BY DEF FcMove
<1>2. FcTyped'
  BY <1>1 DEF FcIInv, FcTyped, fcOptions, fcDescriptors
<1>3. FcCounted'
  BY <1>1 DEF FcIInv, FcCounted, fcOptions, fcDescriptors, CwdFd, Fds
<1>4. ASSUME FcWalking' PROVE FcPathOK' /\ FcAligned' /\ FcLinked'
  <2>1. FcWalking /\ FcTyped /\ FcPathOK /\ FcAligned /\ FcLinked
    BY <1>1, <1>4 DEF FcWalking, FcIInv
  <2>2. \A k : FcAt(k)' = FcAt(k) /\ FcLevel(k)' = FcLevel(k)
    BY <1>1 DEF FcAt, FcLevel, FcDepth, fcDescriptors
  <2>3. FcPathOK' /\ FcAligned'
    BY <1>1, <2>1, <2>2 DEF FcPathOK, FcAligned, FcOnLevel, FcDepth, fcOptions, fcDescriptors
  <2>4. ASSUME NEW k \in 1 .. Len(fc_ring)
        PROVE  FcAt(k) \in {Start, DotDot(FcAt(k + 1))'} \/ FcAt(k + 1) \in fc_moved'
    <3>0. Len(fc_ring) \in Nat
      BY <2>1 DEF FcTyped
    <3>1. FcAt(k) \in {Start, DotDot(FcAt(k + 1))} \/ FcAt(k + 1) \in fc_moved
      BY <2>1, <2>4 DEF FcLinked
    <3>2. FcAt(k + 1) = fc_path[FcLevel(k + 1)].dir
      BY <2>1, <2>4, <3>0 DEF FcAligned
    <3>3. FcLevel(k + 1) \in DOMAIN fc_path
      BY <2>1, <2>4, <3>0, CwdIsHere DEF FcLevel, FcAligned, FcPathOK
    <3>4. CASE FcAt(k + 1) = x
      BY <1>1, <3>2, <3>3, <3>4
    <3>5. CASE FcAt(k + 1) # x
      <4>1. fc_up'[FcAt(k + 1)] = fc_up[FcAt(k + 1)] \/ FcAt(k + 1) \notin FcDirs
        BY <1>1, <2>1, <3>5 DEF FcTyped
      <4>2. FcAt(k + 1)' = FcAt(k + 1)
        BY <2>2
      <4>3. DotDot(FcAt(k + 1))' = DotDot(FcAt(k + 1))
        BY <4>1, <4>2 DEF DotDot
      <4>4. fc_moved \subseteq fc_moved'
        BY <1>1
      <4> QED
        BY <3>1, <4>3, <4>4
    <3> QED
      BY <3>4, <3>5
  <2>5. FcLinked'
    BY <1>1, <2>2, <2>4 DEF FcLinked, DotDot, fcDescriptors
  <2> QED
    BY <2>3, <2>5
<1>5. AbortsWhenMoved' /\ (fc_pc' = "closed" => fc_fds' = 0)
  BY <1>1 DEF AbortsWhenMoved
<1> QED
  BY <1>2, <1>3, <1>4, <1>5 DEF FcIInv

LEMMA VisitKeeps ==
  ASSUME FcIInv, NEW name, FcVisit(name)
  PROVE  FcIInv'
<1>0. /\ fc_pc = "entries" /\ FcWalking /\ FcTyped /\ FcCounted /\ FcPathOK /\ FcAligned /\ FcLinked
      /\ name \in Top.left /\ UNCHANGED <<fcTree, fcOptions, fcDescriptors>>
  BY DEF FcVisit, FcIInv, FcWalking
<1> DEFINE passed == [fc_path EXCEPT ![Len(fc_path)].left = @ \ {name}]
<1>1. /\ Len(fc_path) \in Nat \ {0} /\ Top = fc_path[Len(fc_path)] /\ Top \in FcNodes
      /\ FcDepth = Len(fc_path) /\ name \in FcNames
  <2>1. FcDepth = Len(fc_path) /\ Len(fc_path) \in Nat \ {0}
    BY <1>0 DEF FcPathOK, FcDepth
  <2>2. Top = fc_path[Len(fc_path)] /\ Top \in FcNodes
    BY <1>0, <2>1 DEF FcPathOK, Top, Last
  <2>3. name \in FcNames
    BY <1>0, <2>2 DEF FcNodes
  <2> QED
    BY <2>1, <2>2, <2>3
<1>2. /\ passed \in Seq(FcNodes) /\ Len(passed) = Len(fc_path)
      /\ \A i \in 1 .. Len(fc_path) : passed[i].dir = fc_path[i].dir /\ passed[i].statp = fc_path[i].statp
  <2>1. [Top EXCEPT !.left = @ \ {name}] \in FcNodes
    BY <1>1 DEF FcNodes
  <2>2. passed = [fc_path EXCEPT ![Len(fc_path)] = [Top EXCEPT !.left = @ \ {name}]]
    BY <1>0, <1>1 DEF FcPathOK
  <2> QED
    BY <1>0, <1>1, <2>1, <2>2 DEF FcPathOK, FcNodes
<1>3. FcTyped' /\ CwdFd' = CwdFd /\ Fds(fc_ring)' = Fds(fc_ring)
  BY <1>0 DEF FcTyped, CwdFd, Fds, fcTree, fcOptions, fcDescriptors
<1> HIDE DEF passed
<1>4. CASE fc_path' = passed /\ fc_pc' = "entries"
  <2>1. FcDepth' = FcDepth
    BY <1>1, <1>2, <1>4 DEF FcDepth
  <2>2. FcPathOK'
    BY <1>0, <1>1, <1>2, <1>4, <2>1 DEF FcPathOK, fcOptions
  <2>3. FcAligned' /\ FcLinked'
    BY <1>0, <1>1, <1>2, <1>4, <2>1, StaysPut DEF fcTree, fcOptions, fcDescriptors
  <2> QED
    BY <1>0, <1>3, <1>4, <2>2, <2>3 DEF FcIInv, FcCounted, AbortsWhenMoved, fcOptions, fcDescriptors
<1>5. ASSUME NEW y \in FcDirs, fc_path' = Append(passed, FcNode(name, y, Nowhere, {})), fc_pc' = "directory"
      PROVE  FcIInv'
  <2>1. FcNode(name, y, Nowhere, {}) \in FcNodes /\ FcNode(name, y, Nowhere, {}).statp = y
    BY <1>1 DEF FcNode, FcNodes
  <2>2. /\ fc_path' \in Seq(FcNodes) /\ Len(fc_path') = Len(fc_path) + 1
        /\ \A i \in 1 .. Len(fc_path) : fc_path'[i] = passed[i]
        /\ fc_path'[Len(fc_path) + 1].statp = y
    BY <1>1, <1>2, <1>5, <2>1
  <2>3. FcDepth' = FcDepth
    BY <1>1, <1>5, <2>2 DEF FcDepth
  <2>4. FcPathOK'
    BY <1>0, <1>1, <1>2, <1>5, <2>2, <2>3 DEF FcPathOK, fcOptions
  <2>5. FcAligned' /\ FcLinked'
    BY <1>0, <1>1, <1>2, <1>5, <2>2, <2>3, StaysPut DEF fcTree, fcOptions, fcDescriptors
  <2> QED
    BY <1>0, <1>3, <1>5, <2>4, <2>5 DEF FcIInv, FcCounted, AbortsWhenMoved, fcOptions, fcDescriptors
<1> QED
  BY <1>0, <1>4, <1>5 DEF FcVisit, Lookup, passed

LEMMA SkipKeeps ==
  ASSUME FcIInv, FcSkip
  PROVE  FcIInv'
<1>0. /\ fc_pc = "directory" /\ FcWalking /\ FcTyped /\ FcCounted /\ FcPathOK /\ FcAligned /\ FcLinked
      /\ LeaveDir(fc_cwd, fc_ring) /\ UNCHANGED <<fcTree, fcOptions, fcDescriptors>>
  BY DEF FcSkip, FcIInv, FcWalking
<1>1. FcTyped' /\ CwdFd' = CwdFd /\ Fds(fc_ring)' = Fds(fc_ring)
  BY <1>0 DEF FcTyped, CwdFd, Fds, fcTree, fcOptions, fcDescriptors
<1>2. Len(fc_path) \in Nat /\ FcDepth = Len(fc_path) - 1 /\ FcDepth \in Nat \ {0}
  BY <1>0 DEF FcPathOK, FcDepth
<1>3. FcCounted'
  <2>1. fc_pc' \in {"entries", "aborted"}
    BY <1>0 DEF LeaveDir
  <2> QED
    BY <1>0, <1>1, <2>1 DEF FcCounted, fcOptions, fcDescriptors
<1>4. CASE RingMatches(fc_cwd, fc_ring)
  <2>1. fc_pc' = "entries" /\ fc_path' = Front(fc_path)
    BY <1>0, <1>4 DEF LeaveDir
  <2>2. /\ fc_path' \in Seq(FcNodes) /\ Len(fc_path') = FcDepth
        /\ \A i \in 1 .. FcDepth : fc_path'[i] = fc_path[i]
    <3>1. fc_path \in Seq(FcNodes) /\ fc_path # <<>>
      BY <1>0, <1>2 DEF FcPathOK
    <3> QED
      BY <1>2, <2>1, <3>1, FrontAndLast
  <2>3. FcDepth' = FcDepth
    BY <2>1, <2>2 DEF FcDepth
  <2>4. FcPathOK'
    BY <1>0, <1>2, <2>1, <2>2, <2>3 DEF FcPathOK, fcOptions
  <2>5. FcAligned' /\ FcLinked'
    BY <1>0, <2>1, <2>2, <2>3, StaysPut DEF fcTree, fcOptions, fcDescriptors
  <2> QED
    BY <1>1, <1>3, <2>1, <2>4, <2>5 DEF FcIInv, AbortsWhenMoved
<1>5. CASE ~RingMatches(fc_cwd, fc_ring)
  <2>1. fc_pc' = "aborted" /\ fc_path' = fc_path
    BY <1>0, <1>5 DEF LeaveDir
  <2>2. \E i \in DOMAIN fc_path : fc_path[i].dir \in fc_moved
    <3>1. Len(fc_ring) \in 0 .. Len(fc_ring) /\ FcAt(Len(fc_ring) + 1) = fc_cwd
      BY <1>0 DEF FcTyped, FcAt
    <3>2. DOMAIN fc_ring = 1 .. Len(fc_ring)
      BY <1>0 DEF FcTyped
    <3> QED
      BY <1>0, <1>5, <3>1, <3>2, MismatchMeansMoved
  <2> QED
    BY <1>0, <1>1, <1>3, <2>1, <2>2 DEF FcIInv, AbortsWhenMoved, FcWalking, fcTree
<1> QED
  BY <1>4, <1>5

LEMMA OpenKeeps ==
  ASSUME FcIInv, FcOpen
  PROVE  FcIInv'
<1>0. /\ fc_pc = "directory" /\ FcWalking /\ FcTyped /\ FcCounted /\ FcPathOK /\ FcAligned /\ FcLinked
      /\ UNCHANGED <<fcTree, fcOptions>>
  BY DEF FcOpen, FcIInv, FcWalking
<1>1. /\ Len(fc_path) \in Nat /\ FcDepth = Len(fc_path) - 1 /\ FcDepth \in Nat \ {0}
      /\ Len(fc_ring) \in Nat /\ Len(fc_ring) < FcDepth /\ FcOnLevel(fc_cwd, FcDepth)
      /\ Len(fc_path) > 1 /\ fc_cwd \in FcDirs \cup {Start}
  <2>1. /\ Len(fc_path) \in Nat /\ FcDepth = Len(fc_path) - 1 /\ FcDepth \in Nat \ {0} /\ Len(fc_path) > 1
    BY <1>0 DEF FcPathOK, FcDepth
  <2>2. Len(fc_ring) \in Nat /\ Len(fc_ring) < FcDepth
    BY <1>0 DEF FcTyped, FcAligned
  <2> QED
    BY <1>0, <2>1, <2>2, CwdIsHere
<1>2. PICK x \in Lookup(fc_cwd, Top.name) :
         IF LeavesFirst /\ ~RingMatches(fc_cwd, fc_ring)
         THEN fc_pc' = "aborted" /\ UNCHANGED <<fc_path, fcDescriptors>>
         ELSE /\ fc_path' = [fc_path EXCEPT ![Len(fc_path)].statp = Restated(x),
                                            ![Len(fc_path)].dir = x]
              /\ fc_pc' = "opened" /\ fc_cwd' = x
              /\ IF fc_cwdfd THEN fc_ring' = Pushed /\ fc_fds' = fc_fds + 2 - Displaced
                 ELSE fc_fds' = fc_fds + 1 /\ UNCHANGED fc_ring
  BY DEF FcOpen
<1>3. x \in FcDirs /\ fc_up[x] = fc_cwd /\ x # Start
  BY FcAssumption DEF Lookup
<1>4. CASE LeavesFirst /\ ~RingMatches(fc_cwd, fc_ring)
  <2>1. fc_pc' = "aborted" /\ fc_path' = fc_path /\ UNCHANGED fcDescriptors
    BY <1>2, <1>4
  <2>2. \E i \in DOMAIN fc_path : fc_path[i].dir \in fc_moved
    <3>1. Len(fc_ring) \in 0 .. Len(fc_ring) /\ FcAt(Len(fc_ring) + 1) = fc_cwd
      BY <1>0 DEF FcTyped, FcAt
    <3>2. DOMAIN fc_ring = 1 .. Len(fc_ring)
      BY <1>0 DEF FcTyped
    <3> QED
      BY <1>0, <1>4, <3>1, <3>2, MismatchMeansMoved
  <2>3. FcTyped' /\ FcCounted'
    BY <1>0, <2>1 DEF FcTyped, FcCounted, CwdFd, Fds, fcTree, fcOptions, fcDescriptors
  <2> QED
    BY <1>0, <2>1, <2>2, <2>3 DEF FcIInv, AbortsWhenMoved, FcWalking, fcTree
<1>5. CASE ~(LeavesFirst /\ ~RingMatches(fc_cwd, fc_ring))
  <2>1. /\ fc_path' = [fc_path EXCEPT ![Len(fc_path)].statp = Restated(x), ![Len(fc_path)].dir = x]
        /\ fc_pc' = "opened" /\ fc_cwd' = x
        /\ fc_cwdfd => fc_ring' = Pushed /\ fc_fds' = fc_fds + 2 - Displaced
        /\ ~fc_cwdfd => fc_fds' = fc_fds + 1 /\ fc_ring' = fc_ring
    BY <1>2, <1>5
  <2>2. /\ fc_path' \in Seq(FcNodes) /\ Len(fc_path') = Len(fc_path)
        /\ \A i \in 1 .. FcDepth : fc_path'[i] = fc_path[i]
        /\ fc_path'[Len(fc_path)].dir = x /\ fc_path'[Len(fc_path)].statp \in FcDirs
        /\ fc_tight => fc_path'[Len(fc_path)].statp = x
    <3> DEFINE node == [Top EXCEPT !.statp = Restated(x), !.dir = x]
    <3>1. Top = fc_path[Len(fc_path)] /\ Top \in FcNodes /\ Top.statp \in FcDirs
      BY <1>0, <1>1 DEF FcPathOK, Top, Last
    <3>2. Restated(x) \in FcDirs /\ (fc_tight => Restated(x) = x)
      BY <1>3, <3>1 DEF Restated
    <3>3. node = [name |-> Top.name, statp |-> Restated(x), dir |-> x, left |-> Top.left]
      <4> DEFINE top == Top
                 statp == Restated(x)
      <4>1. node = [top EXCEPT !.statp = statp, !.dir = x] /\ top \in FcNodes
        BY <3>1
      <4> HIDE DEF top, node, statp
      <4>2. node = [name |-> top.name, statp |-> statp, dir |-> x, left |-> top.left]
        BY <4>1 DEF FcNodes
      <4> QED
        BY <4>2 DEF top, statp
    <3> HIDE DEF node
    <3>4. node \in FcNodes /\ node.dir = x /\ node.statp \in FcDirs /\ (fc_tight => node.statp = x)
      BY <1>3, <3>1, <3>2, <3>3 DEF FcNodes
    <3>5. fc_path' = [fc_path EXCEPT ![Len(fc_path)] = node]
      BY <1>0, <1>1, <2>1, <3>1 DEF node, FcPathOK
    <3> QED
      BY <1>0, <1>1, <3>4, <3>5 DEF FcPathOK
  <2>3. FcDepth' = FcDepth + 1 /\ FcDepth' = Len(fc_path)
    <3>1. FcDepth' = Len(fc_path')
      BY <2>1 DEF FcDepth
    <3> QED
      BY <1>1, <2>2, <3>1
  <2>4. FcPathOK'
    <3>1. FcDepth' >= 2 /\ fc_path'[1].dir = Start
      BY <1>0, <1>1, <2>2, <2>3 DEF FcPathOK
    <3>2. \A i \in 2 .. Len(fc_path') : fc_path'[i].statp \in FcDirs
      BY <1>0, <1>1, <2>2 DEF FcPathOK
    <3>3. \A i \in 2 .. FcDepth' :
             fc_path'[i].dir \in FcDirs /\ (fc_tight' => fc_path'[i].dir = fc_path'[i].statp)
      <4>1. fc_tight' = fc_tight
        BY <1>0 DEF fcOptions
      <4> QED
        BY <1>0, <1>1, <1>3, <2>2, <2>3, <4>1 DEF FcPathOK
    <3>4. FcDepth' >= 1
      BY <1>1, <2>3
    <3> QED
      BY <2>2, <3>1, <3>2, <3>3, <3>4 DEF FcPathOK
  <2>5. ASSUME NEW i \in 1 .. FcDepth, NEW d, FcOnLevel(d, i)
        PROVE  d = fc_path'[i].dir \/ (~fc_tight' /\ i > 1 /\ d = fc_path'[i].statp)
    BY <1>0, <2>2, <2>5 DEF FcOnLevel, fcOptions
  <2>6. CASE ~fc_cwdfd
    <3>1. fc_ring = <<>> /\ fc_ring' = <<>> /\ fc_fds' = fc_fds + 1 /\ fc_cwdfd' = fc_cwdfd
      BY <1>0, <2>1, <2>6 DEF FcTyped, fcOptions
    <3>2. FcTyped' /\ FcCounted'
      BY <1>0, <2>1, <2>6, <3>1 DEF FcTyped, FcCounted, fcTree, fcOptions
    <3>3. FcAt(1)' = x /\ FcLevel(1)' = FcDepth'
      BY <1>1, <2>1, <2>3, <3>1 DEF FcAt, FcLevel
    <3>4. FcOnLevel(FcAt(1), FcLevel(1))'
      BY <2>2, <2>3, <3>3 DEF FcOnLevel
    <3>5. FcAligned' /\ FcLinked'
      BY <1>1, <2>1, <2>2, <2>3, <3>1, <3>4 DEF FcAligned, FcLinked
    <3> QED
      BY <2>1, <2>4, <3>2, <3>5 DEF FcIInv, AbortsWhenMoved
  <2>7. CASE fc_cwdfd
    <3> DEFINE kept == IF Len(fc_ring) = I_RING_SIZE THEN Tail(fc_ring) ELSE fc_ring
               shift == IF Len(fc_ring) = I_RING_SIZE THEN 1 ELSE 0
    <3>1. /\ kept \in Seq(FcDirs \cup {Start}) /\ shift \in {0, 1} /\ shift <= Len(fc_ring)
          /\ Len(kept) = Len(fc_ring) - shift /\ Len(kept) < I_RING_SIZE
          /\ \A k \in 1 .. Len(kept) : kept[k] = fc_ring[k + shift]
      BY <1>0, FcAssumption DEF FcTyped
    <3>2. Fds(kept) = Fds(fc_ring) - Displaced /\ Fds(kept) \in Nat /\ Fds(fc_ring) \in Nat
      <4>1. fc_ring \in Seq(FcDirs \cup {Start})
        BY <1>0 DEF FcTyped
      <4>2. CASE Len(fc_ring) = I_RING_SIZE
        <5>1. fc_ring # <<>> /\ kept = Tail(fc_ring)
          BY <1>1, <4>1, <4>2, FcAssumption
        <5>2. Fds(Tail(fc_ring)) = Fds(fc_ring) - Fds(<<Head(fc_ring)>>)
          BY <4>1, <5>1, FdsTail
        <5> HIDE DEF kept
        <5>3. Fds(kept) \in Nat /\ Fds(fc_ring) \in Nat
          BY <3>1, <4>1, FdsBounded
        <5> QED
          BY <4>2, <5>1, <5>2, <5>3 DEF Displaced
      <4>3. CASE Len(fc_ring) # I_RING_SIZE
        BY <4>1, <4>3, FdsBounded DEF Displaced
      <4> QED
        BY <4>2, <4>3
    <3>3. fc_ring' = Append(kept, fc_cwd) /\ fc_fds' = fc_fds + 2 - Displaced /\ fc_cwdfd' = fc_cwdfd
      BY <1>0, <2>1, <2>7 DEF Pushed, fcOptions
    <3> HIDE DEF kept, shift
    <3>4. FcTyped'
      <4>1. Displaced \in Int
        BY FdsOne DEF Displaced
      <4>2. fc_ring' \in Seq(FcDirs \cup {Start}) /\ Len(fc_ring') <= I_RING_SIZE /\ fc_fds' \in Int
        BY <1>0, <1>1, <3>1, <3>3, <4>1, FcAssumption DEF FcTyped
      <4> QED
        BY <1>0, <2>7, <3>3, <4>2 DEF FcTyped, fcTree, fcOptions
    <3>5. FcCounted'
      <4>1. Fds(fc_ring)' = Fds(kept) + Fds(<<fc_cwd>>)
        <5>1. Fds(Append(kept, fc_cwd)) = Fds(kept) + Fds(<<fc_cwd>>)
          BY <1>1, <3>1, FdsAppend
        <5>2. Fds(fc_ring)' = Fds(Append(kept, fc_cwd))
          BY <3>3 DEF Fds
        <5> QED
          BY <5>1, <5>2
      <4>2. Fds(<<fc_cwd>>) \in Nat /\ Fds(<<fc_cwd>>)' = 1
        BY <1>3, <2>1, FdsOne
      <4>3. fc_fds = Fds(<<fc_cwd>>) + Fds(fc_ring)
        <5>1. FcCounted /\ fc_pc = "directory"
          BY <1>0
        <5> QED
          BY <2>7, <3>2, <4>2, <5>1 DEF FcCounted, CwdFd
      <4>4. fc_fds' = 1 + Fds(fc_ring)' + 1
        <5>1. Displaced \in Int /\ Fds(kept) = Fds(fc_ring) - Displaced /\ fc_fds' = fc_fds + 2 - Displaced
          BY <3>2, <3>3, FdsOne DEF Displaced
        <5> QED
          BY <3>2, <4>1, <4>2, <4>3, <5>1
      <4> QED
        BY <2>1, <2>7, <3>3, <4>2, <4>4 DEF FcCounted, CwdFd
    <3>6. /\ Len(fc_ring') = Len(fc_ring) + 1 - shift
          /\ \A k \in 1 .. Len(fc_ring') : FcAt(k)' = FcAt(k + shift)
          /\ FcAt(Len(fc_ring) + 1)' = x
      <4>1. Len(fc_ring') = Len(kept) + 1 /\ Len(kept) \in Nat
        BY <1>1, <3>1, <3>3
      <4>2. \A k \in 1 .. Len(kept) : fc_ring'[k] = fc_ring[k + shift]
        BY <3>1, <3>3
      <4>3. fc_ring'[Len(kept) + 1] = fc_cwd
        BY <1>1, <3>1, <3>3
      <4>4. ASSUME NEW k \in 1 .. Len(fc_ring') PROVE FcAt(k)' = FcAt(k + shift)
        <5>1. FcAt(k)' = fc_ring'[k]
          BY <4>1 DEF FcAt
        <5>2. CASE k <= Len(kept)
          BY <1>1, <3>1, <4>1, <4>2, <5>1, <5>2 DEF FcAt
        <5>3. CASE k = Len(kept) + 1
          BY <1>1, <3>1, <4>1, <4>3, <5>1, <5>3 DEF FcAt
        <5> QED
          BY <4>1, <5>2, <5>3
      <4>5. FcAt(Len(fc_ring) + 1)' = x
        BY <2>1, <4>1 DEF FcAt
      <4> QED
        BY <1>1, <3>1, <4>1, <4>4, <4>5
    <3>7. \A k \in Nat : FcLevel(k)' = FcLevel(k + shift)
      BY <1>1, <2>3, <3>1, <3>6 DEF FcLevel
    <3>8. FcAligned'
      <4>1. \A k \in 1 .. Len(fc_ring') : FcLevel(k + shift) \in 1 .. FcDepth /\ k + shift \in 1 .. Len(fc_ring) + 1
        BY <1>1, <3>1, <3>6, SMTT(30) DEF FcLevel
      <4>2. Len(fc_ring') < FcDepth'
        BY <1>1, <2>3, <3>1, <3>6
      <4>3. FcOnLevel(FcAt(1), FcLevel(1))'
        <5>1. 1 \in 1 .. Len(fc_ring')
          BY <1>1, <3>1, <3>6
        <5>2. FcOnLevel(FcAt(1 + shift), FcLevel(1 + shift))
          BY <1>0, <1>1, <3>1, <4>1, <5>1, SMTT(30) DEF FcAligned, FcOnLevel
        <5> QED
          BY <2>5, <3>6, <3>7, <4>1, <5>1, <5>2 DEF FcOnLevel
      <4>4. ASSUME NEW k \in 2 .. Len(fc_ring') + 1 PROVE FcAt(k)' = fc_path'[FcLevel(k)'].dir
        <5>1. CASE k <= Len(fc_ring')
          <6>1. k \in 1 .. Len(fc_ring') /\ k + shift \in 2 .. Len(fc_ring) + 1
            BY <1>1, <3>1, <4>1, <5>1
          <6>2. FcAt(k + shift) = fc_path[FcLevel(k + shift)].dir
            BY <1>0, <6>1 DEF FcAligned
          <6> QED
            BY <2>2, <3>6, <3>7, <4>1, <6>1, <6>2
        <5>2. CASE k = Len(fc_ring') + 1
          <6>1. FcAt(k)' = x /\ FcLevel(k)' = FcDepth'
            BY <1>1, <2>3, <3>1, <3>6, <5>2 DEF FcLevel
          <6> QED
            BY <2>2, <2>3, <6>1
        <5> QED
          BY <1>1, <3>1, <3>6, <5>1, <5>2
      <4>5. fc_cwd' = fc_path'[FcDepth'].dir
        BY <2>1, <2>2, <2>3
      <4> QED
        BY <4>2, <4>3, <4>4, <4>5 DEF FcAligned
    <3>9. FcLinked'
      <4>1. ASSUME NEW k \in 1 .. Len(fc_ring')
            PROVE  (FcAt(k) \in {Start, DotDot(FcAt(k + 1))} \/ FcAt(k + 1) \in fc_moved)'
        <5>1. fc_up' = fc_up /\ fc_moved' = fc_moved
          BY <1>0 DEF fcTree
        <5>2. CASE k < Len(fc_ring')
          <6>1. k + shift \in 1 .. Len(fc_ring) /\ k + 1 \in 1 .. Len(fc_ring') /\ (k + 1) + shift = (k + shift) + 1
            BY <1>1, <3>1, <3>6, <5>2
          <6>2. FcAt(k)' = FcAt(k + shift) /\ FcAt(k + 1)' = FcAt((k + shift) + 1)
            BY <3>6, <6>1
          <6> QED
            BY <1>0, <5>1, <6>1, <6>2 DEF FcLinked, DotDot
        <5>3. CASE k = Len(fc_ring')
          <6>1. k + shift = Len(fc_ring) + 1 /\ FcAt(k + shift) = fc_cwd
            BY <1>1, <3>1, <3>6, <5>3 DEF FcAt
          <6>2. FcAt(k)' = fc_cwd /\ FcAt(k + 1)' = x
            BY <1>1, <3>1, <3>6, <5>3, <6>1
          <6> QED
            BY <1>3, <5>1, <6>2 DEF DotDot
        <5> QED
          BY <1>1, <3>1, <3>6, <5>2, <5>3, SMTT(30)
      <4> QED
        BY <4>1 DEF FcLinked
    <3> QED
      BY <2>1, <2>4, <3>4, <3>5, <3>8, <3>9 DEF FcIInv, AbortsWhenMoved
  <2> QED
    BY <2>6, <2>7
<1> QED
  BY <1>4, <1>5

\* ".." is gone up to, closing the stream that was read on this level if there is one.
LEMMA GoingUpKeeps ==
  ASSUME FcIInv, fc_pc \in {"entries", "opened"}, Len(fc_path) # 1,
         NEW closed, closed = IF fc_pc = "opened" THEN 1 ELSE 0,
         GoUp(closed), UNCHANGED <<fcTree, fcOptions>>
  PROVE  FcIInv'
<1>0. FcWalking /\ FcTyped /\ FcCounted /\ FcPathOK /\ FcAligned /\ FcLinked /\ closed \in {0, 1}
  BY DEF FcIInv, FcWalking
<1>1. /\ FcDepth = Len(fc_path) /\ FcDepth \in Nat /\ FcDepth >= 2 /\ fc_cwd \in FcDirs
      /\ fc_ring \in Seq(FcDirs \cup {Start}) /\ Len(fc_ring) \in Nat /\ Len(fc_ring) < FcDepth
      /\ Fds(fc_ring) \in Nat
  <2>1. FcDepth = Len(fc_path) /\ FcDepth \in Nat /\ FcDepth >= 2
    <3>1. FcDepth = Len(fc_path)
      BY DEF FcDepth
    <3>2. Len(fc_path) \in Nat /\ FcDepth >= 1
      BY <1>0 DEF FcPathOK
    <3> QED
      BY <3>1, <3>2
  <2>2. fc_cwd \in FcDirs
    BY <1>0, <2>1, CwdIsHere
  <2>3. fc_ring \in Seq(FcDirs \cup {Start}) /\ Len(fc_ring) \in Nat /\ Len(fc_ring) < FcDepth
    BY <1>0 DEF FcTyped, FcAligned
  <2> QED
    BY <2>1, <2>2, <2>3, FdsBounded
<1>2. /\ fc_up' = fc_up /\ fc_moved' = fc_moved /\ fc_cwdfd' = fc_cwdfd /\ fc_tight' = fc_tight
      /\ LeaveDir(fc_cwd', fc_ring')
      /\ IF AtRoot THEN RestoreInitial(closed) ELSE ChangeUp(closed)
  BY DEF GoUp, fcTree, fcOptions
<1>3. /\ fc_fds = (IF fc_cwdfd THEN 1 + Fds(fc_ring) ELSE 1) + closed
      /\ fc_cwdfd => CwdFd = 1
  <2>1. fc_cwdfd => CwdFd = 1
    BY <1>1, FdsOne, FcAssumption DEF CwdFd
  <2>2. fc_pc # "closed"
    OBVIOUS
  <2> QED
    BY <1>0, <2>1, <2>2 DEF FcCounted
<1>4. ASSUME fc_pc' = "entries", fc_path' = Front(fc_path)
      PROVE  /\ FcPathOK' /\ FcDepth' = FcDepth - 1 /\ Len(fc_path') = FcDepth - 1
             /\ \A i \in 1 .. FcDepth - 1 : fc_path'[i] = fc_path[i]
  <2>1. /\ fc_path' \in Seq(FcNodes) /\ Len(fc_path') = FcDepth - 1
        /\ \A i \in 1 .. FcDepth - 1 : fc_path'[i] = fc_path[i]
    <3>1. fc_path \in Seq(FcNodes) /\ fc_path # <<>>
      BY <1>0, <1>1 DEF FcPathOK
    <3> QED
      BY <1>1, <1>4, <3>1, FrontAndLast
  <2>2. FcDepth' = FcDepth - 1
    BY <1>4, <2>1 DEF FcDepth
  <2> QED
    BY <1>0, <1>1, <1>2, <1>4, <2>1, <2>2 DEF FcPathOK
<1>5. CASE AtRoot
  <2>1. fc_cwd' = Start /\ fc_ring' = <<>> /\ fc_fds' = IF fc_cwdfd THEN 0 ELSE 1
    BY <1>1, <1>2, <1>3, <1>5 DEF RestoreInitial
  <2>2. fc_pc' = "entries" /\ fc_path' = Front(fc_path)
    BY <1>2, <2>1 DEF LeaveDir, RingMatches
  <2>3. FcPathOK' /\ FcDepth' = 1
    BY <1>1, <1>4, <1>5, <2>2 DEF AtRoot
  <2>4. FcAt(1)' = Start /\ FcLevel(1)' = 1
    BY <2>1, <2>3 DEF FcAt, FcLevel
  <2>5. FcAligned' /\ FcLinked'
    BY <2>1, <2>2, <2>3, <2>4 DEF FcAligned, FcLinked, FcOnLevel, FcPathOK
  <2>6. CwdFd' = 0 /\ Fds(fc_ring)' = 0
    BY <2>1, FdsOne, FdsEmpty DEF CwdFd
  <2>7. FcTyped' /\ FcCounted'
    BY <1>0, <1>2, <2>1, <2>2, <2>6, FcAssumption DEF FcTyped, FcCounted
  <2> QED
    BY <2>2, <2>3, <2>5, <2>7 DEF FcIInv, AbortsWhenMoved
<1>6. CASE ~AtRoot /\ FromRing
  <2>1. /\ fc_cwdfd /\ fc_ring # <<>> /\ Fds(<<Last(fc_ring)>>) = 1
        /\ fc_cwd' = Last(fc_ring) /\ fc_ring' = Front(fc_ring) /\ fc_fds' = fc_fds - closed - 1
    BY <1>2, <1>6 DEF FromRing, ChangeUp
  <2>2. /\ Len(fc_ring) \in Nat \ {0} /\ fc_ring' \in Seq(FcDirs \cup {Start})
        /\ Len(fc_ring') = Len(fc_ring) - 1 /\ Fds(fc_ring)' = Fds(fc_ring) - 1
        /\ \A i \in 1 .. Len(fc_ring) - 1 : fc_ring'[i] = fc_ring[i]
        /\ fc_cwd' = FcAt(Len(fc_ring))
    <3>1. /\ Len(fc_ring) \in Nat \ {0} /\ fc_ring' \in Seq(FcDirs \cup {Start})
          /\ Len(fc_ring') = Len(fc_ring) - 1
          /\ \A i \in 1 .. Len(fc_ring) - 1 : fc_ring'[i] = fc_ring[i]
      BY <1>1, <2>1, FrontAndLast
    <3>2. Fds(Front(fc_ring)) = Fds(fc_ring) - 1
      BY <1>1, <2>1, FdsFront
    <3>3. Fds(fc_ring)' = Fds(Front(fc_ring))
      BY <2>1 DEF Fds
    <3>4. fc_cwd' = FcAt(Len(fc_ring))
      BY <1>0, <2>1, CwdIsHere
    <3> QED
      BY <3>1, <3>2, <3>3, <3>4
  <2>3. FcTyped' /\ FcCounted'
    <3>1. CwdFd' = 1
      BY <1>2, <2>1, FdsOne DEF CwdFd
    <3>2. FcTyped'
      BY <1>0, <1>1, <1>2, <2>1, <2>2, FcAssumption DEF FcTyped
    <3>3. fc_fds' = 1 + Fds(fc_ring)'
      BY <1>0, <1>1, <1>3, <2>1, <2>2
    <3>4. fc_pc' \in {"entries", "aborted"}
      BY <1>2 DEF LeaveDir
    <3> QED
      BY <1>1, <1>2, <2>1, <2>2, <3>1, <3>2, <3>3, <3>4 DEF FcCounted
  <2>4. CASE RingMatches(fc_cwd', fc_ring')
    <3>1. fc_pc' = "entries" /\ fc_path' = Front(fc_path)
      BY <1>2, <2>4 DEF LeaveDir
    <3>2. /\ FcPathOK' /\ FcDepth' = FcDepth - 1
          /\ \A i \in 1 .. FcDepth - 1 : fc_path'[i] = fc_path[i]
      BY <1>4, <3>1
    <3>3. \A k \in 1 .. Len(fc_ring) : FcAt(k)' = FcAt(k) /\ FcLevel(k)' = FcLevel(k) /\ FcLevel(k) \in 1 .. FcDepth - 1
      <4>1. ASSUME NEW k \in 1 .. Len(fc_ring) PROVE FcAt(k)' = FcAt(k)
        BY <2>2 DEF FcAt
      <4>2. ASSUME NEW k \in 1 .. Len(fc_ring) PROVE FcLevel(k)' = FcLevel(k) /\ FcLevel(k) \in 1 .. FcDepth - 1
        BY <1>1, <2>2, <3>2 DEF FcLevel
      <4> QED
        BY <4>1, <4>2
    <3>4. FcAligned'
      <4>1. FcOnLevel(FcAt(1), FcLevel(1)) /\ 1 \in 1 .. Len(fc_ring)
        BY <1>0, <2>2 DEF FcAligned
      <4>2. FcOnLevel(FcAt(1), FcLevel(1))'
        BY <1>2, <3>2, <3>3, <4>1 DEF FcOnLevel
      <4>3. \A k \in 2 .. Len(fc_ring) : FcAt(k)' = fc_path'[FcLevel(k)'].dir
        BY <1>0, <2>2, <3>2, <3>3 DEF FcAligned
      <4>4. Len(fc_ring') < FcDepth' /\ Len(fc_ring') + 1 = Len(fc_ring)
        BY <1>1, <2>2, <3>2
      <4> QED
        BY <3>1, <4>2, <4>3, <4>4 DEF FcAligned
    <3>5. FcLinked'
      BY <1>0, <1>2, <2>2, <3>3 DEF FcLinked, DotDot
    <3> QED
      BY <2>3, <3>1, <3>2, <3>4, <3>5 DEF FcIInv, AbortsWhenMoved
  <2>5. CASE ~RingMatches(fc_cwd', fc_ring')
    <3>1. fc_pc' = "aborted" /\ fc_path' = fc_path
      BY <1>2, <2>5 DEF LeaveDir
    <3>2. \E i \in DOMAIN fc_path : fc_path[i].dir \in fc_moved
      <4> DEFINE n == Len(fc_ring) - 1
                 ring == Front(fc_ring)
      <4>1. n \in 0 .. Len(fc_ring) /\ n + 1 = Len(fc_ring)
        BY <2>2
      <4>2. Len(ring) = n /\ DOMAIN ring = 1 .. n /\ \A i \in 1 .. n : ring[i] = fc_ring[i]
        BY <2>1, <2>2
      <4>3. ~RingMatches(FcAt(n + 1), ring)
        <5>1. fc_ring' = ring /\ fc_cwd' = FcAt(n + 1)
          BY <2>1, <2>2, <4>1
        <5> QED
          BY <1>2, <2>5, <5>1 DEF RingMatches, DotDot
      <4> HIDE DEF n, ring
      <4> QED
        BY <1>0, <4>1, <4>2, <4>3, MismatchMeansMoved
    <3> QED
      BY <1>2, <2>3, <3>1, <3>2 DEF FcIInv, AbortsWhenMoved, FcWalking
  <2> QED
    BY <2>4, <2>5
<1>7. CASE ~AtRoot /\ ~FromRing
  <2>1. FcDepth > 2 /\ FcDepth - 1 \in 2 .. FcDepth - 1
    BY <1>1, <1>7 DEF AtRoot
  <2>2. fc_ring = <<>>
    <3>1. CASE fc_cwdfd /\ fc_ring # <<>>
      <4>1. Last(fc_ring) # Start
        BY <1>0, <2>1, <3>1, CwdIsHere, FcAssumption
      <4>2. Fds(<<Last(fc_ring)>>) = 1
        BY <4>1, FdsOne
      <4> QED
        BY <1>7, <3>1, <4>2 DEF FromRing
    <3>2. CASE ~fc_cwdfd
      BY <1>0, <3>2 DEF FcTyped
    <3> QED
      BY <3>1, <3>2
  <2>3. /\ fc_cwd' = fc_path[FcDepth - 1].statp /\ fc_cwd' \in FcDirs
        /\ fc_ring' = <<>> /\ fc_fds' = fc_fds - closed
    <3>1. /\ fc_cwd' = Above.statp /\ fc_ring' = <<>> /\ fc_fds' = fc_fds - closed
      BY <1>2, <1>7, <2>2 DEF ChangeUp, IsParent
    <3>2. Above = fc_path[FcDepth - 1] /\ Above.statp \in FcDirs
      BY <1>0, <1>1, <2>1 DEF Above, FcPathOK
    <3> QED
      BY <3>1, <3>2
  <2>4. fc_pc' = "entries" /\ fc_path' = Front(fc_path)
    BY <1>2, <2>3 DEF LeaveDir, RingMatches
  <2>5. /\ FcPathOK' /\ FcDepth' = FcDepth - 1
        /\ \A i \in 1 .. FcDepth - 1 : fc_path'[i] = fc_path[i]
    BY <1>4, <2>4
  <2>6. FcAt(1)' = fc_path[FcDepth - 1].statp /\ FcLevel(1)' = FcDepth - 1
    BY <1>1, <2>3, <2>5 DEF FcAt, FcLevel
  <2>7. FcOnLevel(FcAt(1), FcLevel(1))'
    BY <1>0, <1>1, <1>2, <2>1, <2>5, <2>6, SMTT(30) DEF FcOnLevel, FcPathOK
  <2>8. FcAligned' /\ FcLinked'
    BY <1>1, <2>1, <2>3, <2>4, <2>5, <2>7 DEF FcAligned, FcLinked
  <2>9. FcTyped' /\ FcCounted'
    <3>1. (fc_cwdfd => CwdFd' = 1) /\ Fds(fc_ring)' = 0 /\ Fds(fc_ring) = 0
      BY <1>2, <2>2, <2>3, FdsOne, FdsEmpty, FcAssumption DEF CwdFd
    <3>2. fc_fds' = 1
      BY <1>0, <1>3, <2>3, <3>1
    <3> QED
      BY <1>0, <1>2, <2>3, <2>4, <3>1, <3>2, FcAssumption DEF FcTyped, FcCounted
  <2> QED
    BY <2>4, <2>5, <2>8, <2>9 DEF FcIInv, AbortsWhenMoved
<1> QED
  BY <1>5, <1>6, <1>7

LEMMA StoppingKeeps ==
  ASSUME FcIInv, fc_pc \in {"entries", "opened"},
         NEW closed, closed = IF fc_pc = "opened" THEN 1 ELSE 0,
         CannotGoUp(closed), UNCHANGED <<fcTree, fcOptions>>
  PROVE  FcIInv'
<1>1. /\ fc_pc' = "stopped" /\ fc_fds' = fc_fds - closed
      /\ UNCHANGED <<fcTree, fcOptions, fc_path, fc_cwd, fc_ring>>
  BY DEF CannotGoUp
<1>2. FcTyped' /\ CwdFd' = CwdFd /\ Fds(fc_ring)' = Fds(fc_ring) /\ CwdFd \in Nat /\ Fds(fc_ring) \in Nat
  <2>1. FcTyped' /\ CwdFd' = CwdFd /\ Fds(fc_ring)' = Fds(fc_ring)
    BY <1>1 DEF FcIInv, FcTyped, CwdFd, Fds, fcTree, fcOptions
  <2>2. CwdFd \in Nat
    BY FdsOne DEF CwdFd
  <2> QED
    BY <2>1, <2>2, FdsBounded DEF FcIInv, FcTyped
<1>3. FcCounted'
  BY <1>1, <1>2 DEF FcIInv, FcCounted, fcOptions
<1> QED
  BY <1>1, <1>2, <1>3 DEF FcIInv, FcWalking, AbortsWhenMoved

LEMMA ReadKeeps ==
  ASSUME FcIInv, FcRead
  PROVE  FcIInv'
<1> DEFINE names == {FcName[x] : x \in {y \in FcDirs : fc_up[y] = Top.dir}}
<1>0. /\ fc_pc = "opened" /\ FcWalking /\ FcTyped /\ FcCounted /\ FcPathOK /\ FcAligned /\ FcLinked
      /\ UNCHANGED <<fcTree, fcOptions>>
  BY DEF FcRead, FcIInv, FcWalking
<1>1. /\ FcDepth = Len(fc_path) /\ FcDepth \in Nat /\ FcDepth >= 2 /\ Len(fc_path) # 1
      /\ Top = fc_path[Len(fc_path)] /\ Top \in FcNodes
  <2>1. FcDepth = Len(fc_path)
    BY <1>0 DEF FcDepth
  <2>2. Len(fc_path) \in Nat /\ FcDepth >= 2
    BY <1>0 DEF FcPathOK
  <2> QED
    BY <1>0, <2>1, <2>2 DEF FcPathOK, Top, Last
<1>2. CASE names # {}
  <2>1. /\ fc_path' = [fc_path EXCEPT ![Len(fc_path)].left = names] /\ fc_pc' = "entries"
        /\ fc_fds' = fc_fds - 1 /\ UNCHANGED <<fc_cwd, fc_ring>>
    BY <1>2 DEF FcRead
  <2>2. /\ fc_path' \in Seq(FcNodes) /\ Len(fc_path') = Len(fc_path)
        /\ \A i \in 1 .. Len(fc_path) : fc_path'[i].dir = fc_path[i].dir /\ fc_path'[i].statp = fc_path[i].statp
    <3>1. names \subseteq FcNames
      BY DEF FcNames
    <3> HIDE DEF names
    <3>2. [Top EXCEPT !.left = names] \in FcNodes
      BY <1>1, <3>1 DEF FcNodes
    <3>3. fc_path' = [fc_path EXCEPT ![Len(fc_path)] = [Top EXCEPT !.left = names]]
      BY <1>0, <1>1, <2>1 DEF FcPathOK
    <3> QED
      BY <1>0, <1>1, <3>2, <3>3 DEF FcPathOK, FcNodes
  <2> HIDE DEF names
  <2>3. FcDepth' = FcDepth
    <3>1. FcDepth' = Len(fc_path')
      BY <2>1 DEF FcDepth
    <3> QED
      BY <1>1, <2>2, <3>1
  <2>4. FcPathOK'
    BY <1>0, <1>1, <2>1, <2>2, <2>3 DEF FcPathOK, fcOptions
  <2>5. FcAligned' /\ FcLinked'
    BY <1>0, <1>1, <2>1, <2>2, <2>3, StaysPut DEF fcTree, fcOptions
  <2>6. FcTyped' /\ FcCounted'
    <3>1. CwdFd' = CwdFd /\ Fds(fc_ring)' = Fds(fc_ring) /\ CwdFd \in Nat
      BY <1>0, <2>1, FdsOne DEF CwdFd, Fds, fcOptions
    <3>2. Fds(fc_ring) \in Nat
      BY <1>0, FdsBounded DEF FcTyped
    <3>3. FcTyped'
      BY <1>0, <2>1 DEF FcTyped, fcTree, fcOptions
    <3> QED
      BY <1>0, <2>1, <3>1, <3>2, <3>3 DEF FcCounted, fcOptions
  <2> QED
    BY <2>1, <2>4, <2>5, <2>6 DEF FcIInv, AbortsWhenMoved
<1>3. CASE names = {}
  <2>1. GoUp(1) \/ CannotGoUp(1)
    BY <1>3 DEF FcRead
  <2> QED
    BY <1>0, <1>1, <2>1, GoingUpKeeps, StoppingKeeps
<1> QED
  BY <1>2, <1>3

LEMMA AscendKeeps ==
  ASSUME FcIInv, FcAscend
  PROVE  FcIInv'
<1>0. fc_pc = "entries" /\ UNCHANGED <<fcTree, fcOptions>>
  BY DEF FcAscend
<1>1. CASE Len(fc_path) = 1
  <2>1. fc_pc' = "done" /\ UNCHANGED <<fc_path, fcDescriptors>>
    BY <1>1 DEF FcAscend
  <2>2. FcTyped' /\ FcCounted'
    BY <1>0, <2>1 DEF FcIInv, FcTyped, FcCounted, CwdFd, Fds, fcTree, fcOptions, fcDescriptors
  <2> QED
    BY <2>1, <2>2 DEF FcIInv, FcWalking, AbortsWhenMoved
<1>2. CASE Len(fc_path) # 1
  <2>1. GoUp(0) \/ CannotGoUp(0)
    BY <1>2 DEF FcAscend
  <2> QED
    BY <1>0, <1>2, <2>1, GoingUpKeeps, StoppingKeeps
<1> QED
  BY <1>1, <1>2

LEMMA CloseKeeps ==
  ASSUME FcIInv, fts_close
  PROVE  FcIInv'
<1>1. /\ FcTyped /\ FcCounted /\ fc_pc # "closed" /\ fc_pc # "opened" /\ fc_pc' = "closed"
      /\ fc_cwd' = Start /\ fc_ring' = <<>> /\ UNCHANGED <<fcTree, fcOptions, fc_path>>
      /\ fc_fds' = fc_fds - (IF fc_cwdfd THEN CwdFd ELSE 1) - Fds(fc_ring)
  BY DEF fts_close, RingCleared, FcIInv
<1>2. Fds(fc_ring) \in Nat /\ CwdFd \in Nat /\ (~fc_cwdfd => Fds(fc_ring) = 0)
  BY <1>1, FdsBounded, FdsEmpty, FdsOne DEF FcTyped, CwdFd
<1>3. fc_fds = IF fc_cwdfd THEN CwdFd + Fds(fc_ring) ELSE 1
  BY <1>1, <1>2 DEF FcCounted
<1>4. fc_fds' = 0
  BY <1>1, <1>2, <1>3
<1>5. CwdFd' = 0 /\ Fds(fc_ring)' = 0
  BY <1>1, FdsOne, FdsEmpty DEF CwdFd
<1>6. FcTyped' /\ FcCounted'
  BY <1>1, <1>4, <1>5, FcAssumption DEF FcTyped, FcCounted, fcTree, fcOptions
<1> QED
  BY <1>1, <1>4, <1>6 DEF FcIInv, FcWalking, AbortsWhenMoved

THEOREM FcInvariant == FcSpec => []FcIInv
<1>1. FcInit => FcIInv
  <2> SUFFICES ASSUME FcInit PROVE FcIInv
    OBVIOUS
  <2> DEFINE node == FcNode(Nowhere, Nowhere, Start, {FcRoot})
  <2>1. node \in FcNodes /\ node.dir = Start
    BY DEF FcNode, FcNodes, FcNames
  <2> HIDE DEF node
  <2>2. /\ fc_path = <<node>> /\ fc_pc = "entries" /\ fc_cwd = Start /\ fc_ring = <<>>
        /\ fc_fds = (IF fc_cwdfd THEN 0 ELSE 1) /\ fc_cwdfd \in BOOLEAN /\ fc_tight \in BOOLEAN
        /\ fc_up \in FcTrees /\ fc_moved = {}
    BY DEF FcInit, node
  <2>3. FcTyped
    BY <2>2, FcAssumption DEF FcTyped
  <2>4. CwdFd = 0 /\ Fds(fc_ring) = 0
    BY <2>2, FdsOne, FdsEmpty DEF CwdFd
  <2>5. FcCounted
    BY <2>2, <2>4 DEF FcCounted
  <2>6. FcDepth = 1 /\ Len(fc_ring) = 0 /\ fc_path[1] = node /\ Len(fc_path) = 1
    BY <2>2 DEF FcDepth
  <2>7. FcPathOK
    BY <2>1, <2>2, <2>6 DEF FcPathOK
  <2>8. FcAt(1) = Start /\ FcLevel(1) = 1
    BY <2>2, <2>6 DEF FcAt, FcLevel
  <2>9. FcAligned /\ FcLinked
    BY <2>1, <2>2, <2>6, <2>8 DEF FcAligned, FcLinked, FcOnLevel
  <2> QED
    BY <2>2, <2>3, <2>5, <2>7, <2>9 DEF FcIInv, AbortsWhenMoved
<1>2. FcIInv /\ [FcNext]_fcvars => FcIInv'
  <2> SUFFICES ASSUME FcIInv, [FcNext]_fcvars PROVE FcIInv'
    OBVIOUS
  <2>1. CASE FcStep
    BY <2>1, SkipKeeps, OpenKeeps, ReadKeeps, AscendKeeps, VisitKeeps DEF FcStep
  <2>2. CASE fts_close
    BY <2>2, CloseKeeps
  <2>3. CASE \E x \in FcDirs, d \in FcDirs \cup {Start, Elsewhere} : FcMove(x, d)
    BY <2>3, MoveKeeps
  <2>4. CASE UNCHANGED fcvars
    <3>1. FcTyped' /\ FcCounted'
      BY <2>4 DEF FcIInv, FcTyped, FcCounted, CwdFd, Fds, fcvars, fcTree, fcOptions, fcDescriptors
    <3>2. FcPathOK' = FcPathOK
      BY <2>4 DEF FcPathOK, FcDepth, fcvars, fcTree, fcOptions, fcDescriptors
    <3>3. FcAligned' = FcAligned
      BY <2>4 DEF FcAligned, FcOnLevel, FcAt, FcLevel, FcDepth, fcvars, fcTree, fcOptions, fcDescriptors
    <3>4. FcLinked' = FcLinked
      BY <2>4 DEF FcLinked, FcAt, DotDot, fcvars, fcTree, fcOptions, fcDescriptors
    <3> QED
      BY <2>4, <3>1, <3>2, <3>3, <3>4 DEF FcIInv, FcWalking, AbortsWhenMoved, fcvars, fcTree, fcDescriptors
  <2> QED
    BY <2>1, <2>2, <2>3, <2>4 DEF FcNext
<1> QED
  BY <1>1, <1>2, PTL DEF FcSpec

(***************************************************************************)
(* CwdIsListed, for every set of directories, names and first tree, every  *)
(* size of the ring and every renaming: names are looked up in the         *)
(* directory they were read from (fts_read.h:213-224).                     *)
(***************************************************************************)
THEOREM CwdStaysListed == FcSpec => []CwdIsListed
<1>1. FcIInv => CwdIsListed
  <2> SUFFICES ASSUME FcIInv, fc_pc \in {"entries", "directory"}
               PROVE  \E i \in {FcDepth} :
                        /\ fc_path[i] = IF fc_pc = "directory" THEN Above ELSE Top
                        /\ FcOnLevel(fc_cwd, i)
    BY DEF CwdIsListed, FcOnLevel
  <2>1. FcTyped /\ FcWalking /\ FcPathOK /\ FcAligned
    BY DEF FcIInv, FcWalking
  <2>2. FcOnLevel(fc_cwd, FcDepth)
    BY <2>1, CwdIsHere
  <2>3. fc_path[FcDepth] = IF fc_pc = "directory" THEN Above ELSE Top
    BY DEF FcDepth, Above, Top, Last
  <2> QED
    BY <2>2, <2>3
<1> QED
  BY <1>1, FcInvariant, PTL

(***************************************************************************)
(* CwdRingSound, for every size of the ring: a failed assertion of         *)
(* fd_ring_check means that a directory was moved, a walk of any depth     *)
(* holds at most I_RING_SIZE + 2 descriptors, and fts_close leaves none    *)
(* (fts_read.h:93-211, fts_close.h:83-105).                                *)
(***************************************************************************)
THEOREM RingStaysSound == FcSpec => []CwdRingSound
<1>1. FcIInv => CwdRingSound
  <2> SUFFICES ASSUME FcIInv PROVE fc_fds <= I_RING_SIZE + 2
    BY DEF FcIInv, CwdRingSound, DescriptorsBounded
  <2>1. Fds(fc_ring) \in Nat /\ Fds(fc_ring) <= Len(fc_ring) /\ Len(fc_ring) \in Nat /\ Len(fc_ring) <= I_RING_SIZE
    BY FdsBounded DEF FcIInv, FcTyped
  <2>2. CwdFd \in {0, 1}
    BY FdsOne DEF CwdFd
  <2>3. \E f \in {0, 1, Fds(fc_ring), Fds(fc_ring) + 1}, p \in {0, 1} : fc_fds = f + p
    BY <2>1, <2>2 DEF FcIInv, FcCounted
  <2> QED
    BY <2>1, <2>3, FcAssumption
<1> QED
  BY <1>1, FcInvariant, PTL
===============================================================================
