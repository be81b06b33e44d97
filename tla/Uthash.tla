------------------------------- MODULE Uthash -------------------------------
(***************************************************************************)
(* src/lib/uthash/src/uthash.h as far as the server expands its macros:    *)
(* HASH_ADD_KEYPTR, HASH_DELETE, HASH_FIND_STR.  A table is a doubly       *)
(* linked list of elements in the order of their addition and an array of  *)
(* buckets, each a doubly linked chain, which doubles when a chain gets    *)
(* long.  All the links are in the elements.                               *)
(*                                                                         *)
(* A pointer is an element or NULL; a key is its string, hashv[k] its hash *)
(* value.  The table is used under ctx->lock: one step, one macro.  An     *)
(* element is deleted only when linked and added only when not, which is   *)
(* NoDoubleInsert of the server; Context says what happens otherwise.      *)
(***************************************************************************)
EXTENDS Integers, FiniteSets, Sequences, SequencesExt

CONSTANTS
  Obj, Key, NULL,
  HashValue,        \* hash values
  INITIAL_BUCKETS,  \* HASH_INITIAL_NUM_BUCKETS, a power of two
  THRESH,           \* HASH_BKT_CAPACITY_THRESH
  MaxBuckets        \* bound: size of the array

ASSUME UthashSizes == /\ INITIAL_BUCKETS \in Nat \ {0}
                      /\ THRESH \in Nat \ {0} /\ MaxBuckets \in Nat
ASSUME UthashData  == IsFiniteSet(Obj) /\ HashValue \subseteq Nat
                        /\ NULL \notin Obj \cup Key

VARIABLES
  hashv,  \* the hash function: any, but one for a behaviour
  head,   \* first element, or NULL: there is no table then
  tbl,    \* UT_hash_table
  hh      \* UT_hash_handle of each element

hvars == <<hashv, head, tbl, hh>>

UT_hash_bucket == [hh_head: Obj \cup {NULL}, count: Nat, expand_mult: Nat]
UT_hash_table(n) == [tail: Obj \cup {NULL}, num_buckets: {n}, num_items: Nat,
                     ineff_expands: Nat, noexpand: BOOLEAN,
                     buckets: [0..(n - 1) -> UT_hash_bucket]]
UT_hash_handle == [prev: Obj \cup {NULL}, next: Obj \cup {NULL},
                   hh_prev: Obj \cup {NULL}, hh_next: Obj \cup {NULL},
                   key: Key \cup {NULL}]

EmptyBuckets(n) ==
  [b \in 0..(n - 1) |-> [hh_head |-> NULL, count |-> 0, expand_mult |-> 0]]
NoTable == [tail |-> NULL, num_buckets |-> 0, num_items |-> 0,
            ineff_expands |-> 0, noexpand |-> FALSE,
            buckets |-> EmptyBuckets(0)]
Unlinked == [prev |-> NULL, next |-> NULL, hh_prev |-> NULL,
             hh_next |-> NULL, key |-> NULL]

Init ==
  /\ hashv \in [Key -> HashValue]
  /\ head = NULL /\ tbl = NoTable /\ hh = [o \in Obj |-> Unlinked]

\* The elements from o on, following a link until it is NULL, and at most one
\* more than there are elements: a cycle would show.
Walk(link, o) ==
  LET most == Cardinality(Obj) + 1
      at[i \in 1..most] == IF i = 1 THEN o ELSE link[at[i - 1]]
  IN  [i \in {n \in 1..most : at[n] # NULL} |-> at[i]]

Links(h, field) ==
  [o \in Obj \cup {NULL} |-> IF o = NULL THEN NULL ELSE h[o][field]]
Order == Walk(Links(hh, "next"), head)
Chain(t, h, b) == Walk(Links(h, "hh_next"), t.buckets[b].hh_head)

----------------------------------------------------------------------------
(* Buckets *)

HASH_TO_BKT(k, num_buckets) == hashv[k] % num_buckets

\* Puts o in front of the chain of bucket b.
Push(buckets, h, b, o) ==
  LET first == buckets[b].hh_head
      new == [h EXCEPT ![o].hh_prev = NULL, ![o].hh_next = first]
  IN  [buckets |-> [buckets EXCEPT ![b].hh_head = o, ![b].count = @ + 1],
       hh |-> IF first = NULL THEN new ELSE [new EXCEPT ![first].hh_prev = o]]

\* Doubles the array and moves every element, bucket by bucket in the order
\* of the chains, to its new chain.
\* Move(n, ideal, a, o) is that of o to its chain of n.
Move(n, ideal, a, o) ==
  LET b == HASH_TO_BKT(a.hh[o].key, n)
      p == Push(a.buckets, a.hh, b, o)
      c == p.buckets[b]
      over == c.count > ideal
      more == over /\ c.count > c.expand_mult * ideal
  IN  [buckets |-> [p.buckets EXCEPT ![b].expand_mult =
                      IF more THEN @ + 1 ELSE @],
       hh |-> p.hh, nonideal |-> a.nonideal + (IF over THEN 1 ELSE 0)]
Moved(n, ideal, h, all) ==
  LET moved[k \in 0..Len(all)] ==
        IF k = 0 THEN [buckets |-> EmptyBuckets(n), hh |-> h, nonideal |-> 0]
                 ELSE Move(n, ideal, moved[k - 1], all[k])
  IN  moved[Len(all)]
EXPAND_BUCKETS(t, h) ==
  LET n == 2 * t.num_buckets
      ideal == t.num_items \div n + (IF t.num_items % n = 0 THEN 0 ELSE 1)
      chains == [b \in 1..t.num_buckets |-> Chain(t, h, b - 1)]
      moved == Moved(n, ideal, h, FlattenSeq(chains))
      ineff == IF moved.nonideal > t.num_items \div 2
                 THEN t.ineff_expands + 1 ELSE 0
  IN  [tbl |-> [t EXCEPT !.num_buckets = n, !.buckets = moved.buckets,
                         !.ineff_expands = ineff,
                         !.noexpand = @ \/ ineff > 1],
       hh |-> moved.hh]

\* Mutant: the element goes to the bucket it had before the array doubled.
ADD_TO_BKT_Stale(t, h, b, o) ==
  LET full == t.buckets[b].count + 1 >= (t.buckets[b].expand_mult + 1) * THRESH
      old == IF full /\ ~t.noexpand THEN EXPAND_BUCKETS(t, h)
                                    ELSE [tbl |-> t, hh |-> h]
      p == Push(old.tbl.buckets, old.hh, b, o)
  IN  [tbl |-> [old.tbl EXCEPT !.buckets = p.buckets], hh |-> p.hh]

ADD_TO_BKT(t, h, b, o) ==
  LET p == Push(t.buckets, h, b, o)
      new == [t EXCEPT !.buckets = p.buckets]
      full == p.buckets[b].count >= (p.buckets[b].expand_mult + 1) * THRESH
  IN  IF full /\ ~t.noexpand THEN EXPAND_BUCKETS(new, p.hh)
                             ELSE [tbl |-> new, hh |-> p.hh]

\* Mutant: the element after o still points back to it.
DEL_IN_BKT_Forth(t, h, b, o) ==
  [tbl |-> [t EXCEPT !.buckets[b] =
              [@ EXCEPT !.count = @ - 1,
                        !.hh_head = IF @ = o THEN h[o].hh_next ELSE @]],
   hh |-> [x \in Obj |->
             [h[x] EXCEPT !.hh_next =
                IF x = h[o].hh_prev THEN h[o].hh_next ELSE @]]]

\* The chain of bucket b without o.
DEL_IN_BKT(t, h, b, o) ==
  LET before == h[o].hh_prev  after == h[o].hh_next
      bucket == [t.buckets[b] EXCEPT !.count = @ - 1,
                                     !.hh_head = IF @ = o THEN after ELSE @]
  IN  [tbl |-> [t EXCEPT !.buckets = [@ EXCEPT ![b] = bucket]],
       hh |-> [x \in Obj |->
                 [h[x] EXCEPT !.hh_next = IF x = before THEN after ELSE @,
                              !.hh_prev = IF x = after THEN before ELSE @]]]

----------------------------------------------------------------------------
(* The macros *)

\* HASH_ADD_KEYPTR: a new table, or the end of the list.
Add(o, k) ==
  LET alone == head = NULL
      t == IF alone THEN [NoTable EXCEPT !.tail = o,
                            !.num_buckets = INITIAL_BUCKETS,
                            !.buckets = EmptyBuckets(INITIAL_BUCKETS)]
                    ELSE [tbl EXCEPT !.tail = o]
      linked == [x \in Obj |->
        IF x = o THEN [hh[o] EXCEPT !.key = k, !.next = NULL, !.prev = tbl.tail]
        ELSE [hh[x] EXCEPT !.next = IF x = tbl.tail THEN o ELSE @]]
      added == ADD_TO_BKT([t EXCEPT !.num_items = @ + 1], linked,
                          HASH_TO_BKT(k, t.num_buckets), o)
  IN  /\ o \notin Range(Order)
      /\ added.tbl.num_buckets <= MaxBuckets
      /\ head' = IF alone THEN o ELSE head
      /\ tbl' = added.tbl /\ hh' = added.hh
      /\ UNCHANGED hashv

\* The first element once o is gone.
\* Mutant: only the last element to go moves the head.
HeadWithout_Last(o) == IF hh[o].next = NULL /\ head = o THEN NULL ELSE head
HeadWithout(o) == IF hh[o].prev = NULL THEN hh[o].next ELSE head

\* HASH_DELETE: the table goes with its last element.  The handle of the
\* element keeps what it held, which Add overwrites; it is cleared here.
Delete(o) ==
  LET before == hh[o].prev  after == hh[o].next
      t == [tbl EXCEPT !.tail = IF @ = o THEN before ELSE @,
                       !.num_items = @ - 1]
      linked == [x \in Obj |->
        [hh[x] EXCEPT !.next = IF x = before THEN after ELSE @,
                      !.prev = IF x = after THEN before ELSE @]]
      removed == DEL_IN_BKT(t, linked,
                            HASH_TO_BKT(hh[o].key, tbl.num_buckets), o)
  IN  /\ o \in Range(Order)
      /\ head' = HeadWithout(o)
      /\ IF before = NULL /\ after = NULL
           THEN tbl' = NoTable /\ hh' = [hh EXCEPT ![o] = Unlinked]
           ELSE /\ tbl' = removed.tbl
                /\ hh' = [removed.hh EXCEPT ![o] = Unlinked]
      /\ UNCHANGED hashv

\* HASH_FIND_STR: the first element of the key's chain that has the key.
Find(k) ==
  IF head = NULL THEN NULL
  ELSE LET chain == Chain(tbl, hh, HASH_TO_BKT(k, tbl.num_buckets))
           i == SelectInSeq(chain, LAMBDA o : hh[o].key = k)
       IN  IF i = 0 THEN NULL ELSE chain[i]

Next == \E o \in Obj : Delete(o) \/ \E k \in Key : Add(o, k)
Spec == Init /\ [][Next]_hvars
----------------------------------------------------------------------------
(* Properties *)

\* The hash integrity that HASH_FSCK tests after every addition and deletion
\* when it is compiled in: both lists are linked forth and back, the counts
\* are those of the chains, and the tail is the end.
Linked(s, back(_)) ==
  \A i \in DOMAIN s : back(s[i]) = IF i = 1 THEN NULL ELSE s[i - 1]

Fsck ==
  head # NULL =>
    /\ \A b \in DOMAIN tbl.buckets :
         /\ Linked(Chain(tbl, hh, b), LAMBDA o : hh[o].hh_prev)
         /\ tbl.buckets[b].count = Len(Chain(tbl, hh, b))
    /\ Linked(Order, LAMBDA o : hh[o].prev)
    /\ tbl.num_items = Len(Order)
    /\ tbl.tail = Last(Order)

\* A lookup finds an element that was added under the key, and finds one as
\* long as there is one, however the array was doubled in between.
FindsAdded ==
  \A k \in Key :
    LET those == {o \in Range(Order) : hh[o].key = k}
    IN  IF those = {} THEN Find(k) = NULL ELSE Find(k) \in those

\* What both rest on: every element is on one list, in the order of addition,
\* and in one chain, that of its hash value; both are linked forth and back.
At(list, i) == IF i \in DOMAIN list THEN list[i] ELSE NULL
Listed(list, first, next, prev) ==
  /\ \A i, j \in DOMAIN list : list[i] = list[j] => i = j
  /\ first = At(list, 1)
  /\ \A i \in DOMAIN list : /\ next[list[i]] = At(list, i + 1)
                            /\ prev[list[i]] = At(list, i - 1)
Bucketed(hv, buckets, h, n, chains, S) ==
  /\ buckets \in [0..(n - 1) -> UT_hash_bucket]
  /\ chains \in [0..(n - 1) -> Seq(S)]
  /\ \A b \in 0..(n - 1) :
       /\ Listed(chains[b], buckets[b].hh_head,
                 Links(h, "hh_next"), Links(h, "hh_prev"))
       /\ buckets[b].count = Len(chains[b])
       /\ \A i \in DOMAIN chains[b] : hv[h[chains[b][i]].key] % n = b
  /\ \A o \in S : o \in Range(chains[hv[h[o].key] % n])
Shape(order, chains) ==
  /\ hashv \in [Key -> HashValue] /\ hh \in [Obj -> UT_hash_handle]
  /\ tbl.num_buckets \in Nat /\ tbl \in UT_hash_table(tbl.num_buckets)
  /\ order \in Seq(Obj) /\ Listed(order, head, Links(hh, "next"), Links(hh, "prev"))
  /\ \A o \in Range(order) : hh[o].key \in Key
  /\ tbl.tail = At(order, Len(order)) /\ tbl.num_items = Len(order)
  /\ Bucketed(hashv, tbl.buckets, hh, tbl.num_buckets, chains, Range(order))
  /\ IF head = NULL THEN tbl = NoTable ELSE tbl.num_buckets # 0
TableInv == Shape(Order, [b \in DOMAIN tbl.buckets |-> Chain(tbl, hh, b)])

Table == INSTANCE HashTable WITH
  order <- Order,
  key <- [o \in Obj |-> IF o \in Range(Order) THEN hh[o].key ELSE NULL]

\* The macros implement an ordered table: additions go to the end, deletions
\* keep the order of the others, and nothing else changes it.
KeepsOrder == Table!HSpec
============================================================================
