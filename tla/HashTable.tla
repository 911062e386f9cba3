----------------------------- MODULE HashTable ------------------------------
(***************************************************************************)
(* gnulib's hash table as this project compiles it (hash-common.h,         *)
(* hash_initialize.h, hash_insert_if_absent.h, hash_lookup.h,              *)
(* hash_remove.h, hash_rehash.h, hash_free.h; USE_OBSTACK is 1): buckets   *)
(* whose first entry lies in the bucket itself and whose others are cells  *)
(* of an obstack, threaded by next pointers, with a list of free cells.    *)
(* A key stands for a user entry and for the number its hasher reduces     *)
(* modulo the table's size.                                                *)
(***************************************************************************)
EXTENDS Naturals, Sequences, SequencesExt, FiniteSetsExt

CONSTANTS Keys,
          SmallestCandidate,   \* 10: next_prime raises smaller candidates to it
          GrowthThreshold, ShrinkThreshold,   \* tenths
          GrowthFactor, ShrinkFactor,         \* thousandths
          ChunkCells           \* cells in the obstack's first chunk

ASSUME HashAssumption ==
  /\ Keys \subseteq Nat \ {0} /\ IsFiniteSet(Keys)
  /\ SmallestCandidate \in Nat \ {0, 1}
  /\ ChunkCells \in Nat /\ Cardinality(Keys) <= ChunkCells
  \* check_tuning, epsilon being a tenth
  /\ GrowthThreshold \in Nat /\ 1 < GrowthThreshold /\ GrowthThreshold < 9
  /\ GrowthFactor \in Nat /\ 1100 < GrowthFactor
  /\ ShrinkThreshold \in Nat /\ ShrinkFactor \in Nat /\ ShrinkFactor <= 1000
  /\ 100 * ShrinkThreshold + 100 < ShrinkFactor
  /\ ShrinkThreshold + 1 < GrowthThreshold

VARIABLES
  table,    \* struct hash_table, and the cells of its obstack
  ht_ret,   \* what the last call returned
  freed,    \* what hash_free handed to data_freer, in order
  strayed   \* has a rehash taken a cell from its copy of the obstack? (history)

htvars == <<table, ht_ret, freed, strayed>>

NULL == 0
Cells == 1 .. ChunkCells
Entry == [data : Keys \cup {NULL}, next : Cells \cup {NULL}]
EmptyEntry == [data |-> NULL, next |-> NULL]

-----------------------------------------------------------------------------
(* Sizes.                                                                  *)

\* Trial division by 3, 5, 7, ... up to the first divisor or square >= c.
is_prime(c) ==
  LET last == Min({d \in 3 .. c : d % 2 = 1 /\ (d * d >= c \/ c % d = 0)})
  IN c % last # 0

\* SIZE_MAX ends the search in the code; there is a prime before 2 * odd + 1.
next_prime(candidate) ==
  LET start == IF candidate < SmallestCandidate THEN SmallestCandidate ELSE candidate
      odd == IF start % 2 = 0 THEN start + 1 ELSE start
  IN Min({2 * odd + 1} \cup {p \in odd .. 2 * odd : p % 2 = 1 /\ is_prime(p)})

compute_bucket_size(candidate) == next_prime((10 * candidate) \div GrowthThreshold)

Resized(n, factor) == compute_bucket_size((n * factor * GrowthThreshold) \div 10000)

TooFull(t)  == 10 * t.n_buckets_used > GrowthThreshold * t.n_buckets
TooEmpty(t) == 10 * t.n_buckets_used < ShrinkThreshold * t.n_buckets

-----------------------------------------------------------------------------
(* Chains.                                                                 *)

\* The cells from p on, in order; ChunkCells of them if the chain is a loop.
CellsFrom(cell, p) ==
  LET walk[left \in 0 .. ChunkCells] ==
        [c \in Cells \cup {NULL} |->
           IF left = 0 \/ c = NULL THEN <<>> ELSE <<c>> \o walk[left - 1][cell[c].next]]
  IN walk[ChunkCells][p]

Overflow(t, b) == CellsFrom(t.cell, t.bucket[b].next)

FreeCells(t) == CellsFrom(t.cell, t.free_entry_list)

\* What a walk along bucket b compares with; nothing, if the head is empty.
Entries(t, b) ==
  LET chain == Overflow(t, b)
  IN IF t.bucket[b].data = NULL THEN <<>>
     ELSE <<t.bucket[b].data>> \o [i \in DOMAIN chain |-> t.cell[chain[i]].data]

safe_hasher(t, key) == key % t.n_buckets

Has(t, key) == key \in ToSet(Entries(t, safe_hasher(t, key)))

free_entry(t, c) ==
  [t EXCEPT !.cell[c] = [data |-> NULL, next |-> t.free_entry_list],
            !.free_entry_list = c]

\* allocate_entry: a free cell, or the next one of the obstack.
Recycles(t) == t.free_entry_list # NULL

NewCell(t) == IF Recycles(t) THEN t.free_entry_list ELSE t.entry_stack

WithoutNewCell(t) ==
  IF Recycles(t)
  THEN [t EXCEPT !.free_entry_list = t.cell[@].next]
  ELSE [t EXCEPT !.entry_stack = @ + 1]

FilledUncounted(t, b, key) == [t EXCEPT !.bucket[b].data = key]   \* mutant

HeadFilled(t, b, key) == [t EXCEPT !.bucket[b].data = key, !.n_buckets_used = @ + 1]

Put(t, key) ==
  LET b == safe_hasher(t, key)
      c == NewCell(t)
  IN IF t.bucket[b].data = NULL
     THEN HeadFilled(t, b, key)
     ELSE [WithoutNewCell(t) EXCEPT !.cell[c] = [data |-> key, next |-> t.bucket[b].next],
                                    !.bucket[b].next = c]

\* hash_find_entry with DELETE, of a key that is there.
HeadDeleted(t, b) ==
  LET c == t.bucket[b].next
  IN IF c = NULL THEN [t EXCEPT !.bucket[b].data = NULL]
                 ELSE free_entry([t EXCEPT !.bucket[b] = t.cell[c]], c)

OverflowDeleted(t, b, key) ==
  LET chain == Overflow(t, b)
      i == CHOOSE j \in DOMAIN chain : t.cell[chain[j]].data = key
      after == t.cell[chain[i]].next
  IN free_entry(IF i = 1 THEN [t EXCEPT !.bucket[b].next = after]
                         ELSE [t EXCEPT !.cell[chain[i - 1]].next = after], chain[i])

Deleted(t, key) ==
  LET b == safe_hasher(t, key)
  IN IF t.bucket[b].data = key THEN HeadDeleted(t, b) ELSE OverflowDeleted(t, b, key)

-----------------------------------------------------------------------------
(* hash_rehash.  obstack_alloc never returns NULL (its failure handler     *)
(* ends the process), so the transfer never has to be undone.              *)

CellMoved(dst, c) ==
  LET key == dst.cell[c].data
      b == safe_hasher(dst, key)
  IN IF dst.bucket[b].data # NULL
     THEN [dst EXCEPT !.cell[c].next = dst.bucket[b].next, !.bucket[b].next = c]
     ELSE free_entry(HeadFilled(dst, b, key), c)

\* Overflow entries first, then the head.
BucketMoved(dst, src, b) ==
  LET chain == Overflow(src, b)
      moved[i \in 0 .. Len(chain)] ==
        IF i = 0 THEN dst ELSE CellMoved(moved[i - 1], chain[i])
  IN IF src.bucket[b].data = NULL THEN dst
     ELSE Put(moved[Len(chain)], src.bucket[b].data)

transfer_entries(dst, src) ==
  LET upTo[b \in 0 .. src.n_buckets] ==
        IF b = 0 THEN dst ELSE BucketMoved(upTo[b - 1], src, b - 1)
  IN upTo[src.n_buckets]

NewTable(t, size) ==
  [t EXCEPT !.bucket = [b \in 0 .. size - 1 |-> EmptyEntry],
            !.n_buckets = size, !.n_buckets_used = 0]

\* "table->entry_stack already holds its value": the copy's advance is lost.
hash_rehash(t, size) ==
  [transfer_entries(NewTable(t, size), t) EXCEPT !.entry_stack = t.entry_stack]

Strays(t, size) ==
  size # t.n_buckets /\ transfer_entries(NewTable(t, size), t).entry_stack # t.entry_stack

Rehashed(t, size) == IF size = t.n_buckets THEN t ELSE hash_rehash(t, size)

-----------------------------------------------------------------------------
HtInit ==                                                   \* hash_initialize
  /\ table = [bucket |-> [b \in 0 .. compute_bucket_size(0) - 1 |-> EmptyEntry],
              n_buckets |-> compute_bucket_size(0), n_buckets_used |-> 0, n_entries |-> 0,
              free_entry_list |-> NULL, entry_stack |-> 1,
              cell |-> [c \in Cells |-> EmptyEntry]]
  /\ ht_ret = "none" /\ freed = <<>> /\ strayed = FALSE

Usable == ht_ret # "freed"

HtReturns(r) == ht_ret' = r /\ UNCHANGED freed

InsertPresent(k) ==
  /\ Has(table, k)
  /\ HtReturns("present")
  /\ UNCHANGED <<table, strayed>>

\* calloc fails: nothing is inserted.
InsertFails(k) ==
  /\ ~Has(table, k)
  /\ TooFull(table)
  /\ Resized(table.n_buckets, GrowthFactor) # table.n_buckets
  /\ HtReturns("failed")
  /\ UNCHANGED <<table, strayed>>

InsertNew(k) ==
  /\ ~Has(table, k)
  /\ LET size == Resized(table.n_buckets, GrowthFactor)
         t == IF TooFull(table) THEN Rehashed(table, size) ELSE table
     IN /\ table' = [Put(t, k) EXCEPT !.n_entries = @ + 1]
        /\ strayed' = (strayed \/ (TooFull(table) /\ Strays(table, size)))
  /\ HtReturns("inserted")

hash_insert(k) == Usable /\ (InsertPresent(k) \/ InsertFails(k) \/ InsertNew(k))

RemoveAbsent(k) ==
  /\ ~Has(table, k)
  /\ HtReturns("absent")
  /\ UNCHANGED <<table, strayed>>

\* A removal that empties a bucket may shrink the table, or fail to: that is
\* not an error.
RemovePresent(k) ==
  /\ Has(table, k)
  /\ LET d == [Deleted(table, k) EXCEPT !.n_entries = @ - 1]
         emptied == d.bucket[safe_hasher(d, k)].data = NULL
         t == IF emptied THEN [d EXCEPT !.n_buckets_used = @ - 1] ELSE d
         size == Resized(t.n_buckets, ShrinkFactor)
     IN \/ /\ table' = t
           /\ UNCHANGED strayed
        \/ /\ emptied /\ TooEmpty(t)
           /\ table' = Rehashed(t, size)
           /\ strayed' = (strayed \/ Strays(t, size))
  /\ HtReturns("removed")

hash_remove(k) == Usable /\ (RemoveAbsent(k) \/ RemovePresent(k))

hash_lookup(k) ==
  /\ Usable
  /\ HtReturns(IF Has(table, k) THEN "found" ELSE "missing")
  /\ UNCHANGED <<table, strayed>>

AllEntries(t) == FlattenSeq([i \in 1 .. t.n_buckets |-> Entries(t, i - 1)])

HeadsOnly(t) ==                                                   \* mutant
  SelectSeq([i \in 1 .. t.n_buckets |-> t.bucket[i - 1].data], LAMBDA k : k # NULL)

HandedToFreer(t) == AllEntries(t)

hash_free ==
  /\ Usable
  /\ freed' = HandedToFreer(table)
  /\ ht_ret' = "freed"
  /\ UNCHANGED <<table, strayed>>

HtNext == hash_free \/ \E k \in Keys : hash_insert(k) \/ hash_remove(k) \/ hash_lookup(k)

HtSpec == HtInit /\ [][HtNext]_htvars

-----------------------------------------------------------------------------
Buckets == 0 .. table.n_buckets - 1

\* Every cell of the table, in the order of the buckets, then the free ones.
CellsInUse == FlattenSeq([i \in 1 .. table.n_buckets |-> Overflow(table, i - 1)])
                \o FreeCells(table)

HtContents == AllEntries(table)

HtTypeOK ==
  /\ table.n_buckets \in Nat \ {0}
  /\ table.bucket \in [Buckets -> Entry]
  /\ table.cell \in [Cells -> Entry]
  /\ table.n_buckets_used \in 0 .. table.n_buckets
  /\ table.n_entries \in 0 .. Cardinality(Keys)
  /\ table.free_entry_list \in Cells \cup {NULL}
  /\ table.entry_stack \in 1 .. ChunkCells + 1
  /\ freed \in Seq(Keys)
  /\ strayed \in BOOLEAN

\* No cell is in two chains, in a chain twice or in a chain and free; an empty
\* head has no overflow; every entry is where its hash says, once; and the two
\* counters are right - after any history of insertions, removals and rehashes
\* (hash_rehash.h:56-135, hash-common.h:213-273).
WellFormed ==
  /\ IsInjective(CellsInUse)
  /\ \A b \in Buckets :
       /\ table.bucket[b].data = NULL => table.bucket[b].next = NULL
       /\ \A k \in ToSet(Entries(table, b)) : safe_hasher(table, k) = b
  /\ IsInjective(HtContents)
  /\ table.n_entries = Len(HtContents)
  /\ table.n_buckets_used = Cardinality({b \in Buckets : table.bucket[b].data # NULL})

\* Until a rehash strays, every cell the obstack ever gave out is in a chain or
\* on the free list: removals and rehashes lose none (hash-common.h:198-204,
\* hash_rehash.h:33-54).
NoCellLost == ~strayed => ToSet(CellsInUse) = 1 .. table.entry_stack - 1

\* The cells of the table: typed, linked once, counted right, none lost (hash-common.h).
CellsSound == HtTypeOK /\ WellFormed /\ NoCellLost

\* "table->n_entries and table->entry_stack already hold their value"
\* (hash_rehash.h:191): the next cell the obstack gives out is not one the table
\* is using.
EntryStackHolds == \A c \in ToSet(CellsInUse) : c < table.entry_stack

\* The table is a set: insertions return what was there, rehashes keep every
\* entry findable, a failed insertion changes nothing, and hash_free hands
\* every entry to data_freer (hash_insert_if_absent.h:27-107, hash_remove.h:27-85,
\* hash_lookup.h:27-41, hash_free.h:28-46).
Members == IF ht_ret = "freed" THEN {} ELSE {k \in Keys : Has(table, k)}

AsSet == INSTANCE KeySet WITH members <- Members, ret <- ht_ret, freed <- ToSet(freed)

ImplementsSet == AsSet!KeySetSpec

NotStrayed == ~strayed
=============================================================================
