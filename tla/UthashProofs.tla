---------------------------- MODULE UthashProofs ----------------------------
(***************************************************************************)
(* The hash table keeps its links and counts, finds what was added, and is *)
(* the ordered table of HashTable, for any elements, keys, hash function,  *)
(* number of initial buckets and threshold: TableInv of Uthash is          *)
(* inductive.  The list of a table and the chains of its buckets are lists *)
(* alike, so three lemmas are enough for all that is done to their links.  *)
(***************************************************************************)
EXTENDS Uthash, CommonLemmas, FiniteSetTheorems

----------------------------------------------------------------------------
(* Lists *)

\* A list visits no element twice, so it has as many as there are at most.
LEMMA ListBounded ==
  ASSUME NEW list \in Seq(Obj),
         \A i, j \in DOMAIN list : list[i] = list[j] => i = j
  PROVE  Len(list) <= Cardinality(Obj) /\ Cardinality(Obj) \in Nat
<1>1. IsFiniteSet(Obj)
  BY UthashData
<1>2. Len(list) \in Nat /\ DOMAIN list = 1..Len(list)
  OBVIOUS
<1>3. list \in Injection(1..Len(list), Obj)
  BY <1>2 DEF Injection, IsInjective
<1>4. Cardinality(1..Len(list)) <= Cardinality(Obj)
  BY <1>1, <1>3, FS_Injection
<1>5. Cardinality(1..Len(list)) = Len(list)
  BY <1>2, FS_Interval
<1> QED
  BY <1>1, <1>4, <1>5, FS_CardinalityType

\* Following its links shows the list and nothing else.
LEMMA WalkIs ==
  ASSUME NEW list \in Seq(Obj), NEW next, next[NULL] = NULL,
         \A i, j \in DOMAIN list : list[i] = list[j] => i = j,
         \A i \in DOMAIN list : next[list[i]] = At(list, i + 1)
  PROVE  Walk(next, At(list, 1)) = list
<1> DEFINE most == Cardinality(Obj) + 1
           Is(at) == at = [i \in 1..most |->
                             IF i = 1 THEN At(list, 1) ELSE next[at[i - 1]]]
           all == [i \in 1..most |-> At(list, i)]
           at == CHOOSE a : Is(a)
           Bad == {i \in 1..most : at[i] # At(list, i)}
<1>1. /\ Len(list) \in Nat /\ DOMAIN list = 1..Len(list)
      /\ most \in Nat /\ Len(list) + 1 <= most
      /\ \A i \in DOMAIN list : list[i] \in Obj /\ list[i] # NULL
  BY ListBounded, UthashData
<1> HIDE DEF most
<1>2. \A i \in Nat \ {0} : next[At(list, i)] = At(list, i + 1)
  BY <1>1 DEF At
<1>3. Is(all)
  <2>1. ASSUME NEW i \in 1..most, i # 1 PROVE all[i] = next[all[i - 1]]
    <3>1. i - 1 \in 1..most /\ i - 1 \in Nat \ {0} /\ (i - 1) + 1 = i
      BY <1>1, <2>1
    <3>2. all[i - 1] = At(list, i - 1) /\ all[i] = At(list, i)
      BY <3>1
    <3> QED
      BY <1>2, <3>1, <3>2
  <2>2. \A i \in 1..most : i = 1 => all[i] = At(list, 1)
    OBVIOUS
  <2>3. \A i \in 1..most :
          all[i] = IF i = 1 THEN At(list, 1) ELSE next[all[i - 1]]
    BY <2>1, <2>2
  <2>4. all = [i \in 1..most |-> all[i]]
    OBVIOUS
  <2> HIDE DEF all
  <2> QED
    BY <2>3, <2>4
<1>4. Is(at)
  <2> HIDE DEF Is
  <2> QED
    BY <1>3
<1> HIDE DEF at
<1>5. Bad = {}
  <2> SUFFICES ASSUME Bad # {} PROVE FALSE
    OBVIOUS
  <2>1. PICK i \in Bad : \A j \in Bad : i <= j
    <3>1. Bad \subseteq Nat
      OBVIOUS
    <3> QED
      BY <3>1, Least
  <2>2. i \in 1..most /\ at[i] # At(list, i)
    BY <2>1
  <2>3. at[i] = IF i = 1 THEN At(list, 1) ELSE next[at[i - 1]]
    BY <1>4, <2>2
  <2>4. i # 1
    BY <2>2, <2>3
  <2>5. i - 1 \in 1..most /\ i - 1 \in Nat \ {0} /\ (i - 1) + 1 = i
    BY <1>1, <2>2, <2>4
  <2>6. at[i - 1] = At(list, i - 1)
    BY <2>1, <2>5
  <2> QED
    BY <1>2, <2>2, <2>3, <2>4, <2>5, <2>6
<1>6. {n \in 1..most : at[n] # NULL} = DOMAIN list
  BY <1>1, <1>5 DEF At
<1>7. Walk(next, At(list, 1)) = [i \in {n \in 1..most : at[n] # NULL} |-> at[i]]
  BY DEF Walk, most, at
<1>8. \A i \in DOMAIN list : at[i] = list[i]
  BY <1>1, <1>5 DEF At
<1>9. Walk(next, At(list, 1)) = [i \in DOMAIN list |-> list[i]]
  BY <1>6, <1>7, <1>8
<1> QED
  BY <1>9

\* An element at the end.
LEMMA ListAppend ==
  ASSUME NEW list \in Seq(Obj), NEW o \in Obj, \A i \in DOMAIN list : list[i] # o,
         NEW first, NEW next, NEW prev, Listed(list, first, next, prev),
         NEW next2, next2[o] = NULL,
         \A i \in DOMAIN list :
           next2[list[i]] = IF i = Len(list) THEN o ELSE next[list[i]],
         NEW prev2, prev2[o] = At(list, Len(list)),
         \A i \in DOMAIN list : prev2[list[i]] = prev[list[i]]
  PROVE  Listed(Append(list, o), IF list = <<>> THEN o ELSE first, next2, prev2)
<1> DEFINE more == Append(list, o)
           n == Len(list)
<1>1. /\ n \in Nat /\ DOMAIN list = 1..n /\ DOMAIN more = 1..(n + 1)
      /\ more[n + 1] = o /\ \A i \in 1..n : more[i] = list[i]
      /\ list = <<>> <=> n = 0
  OBVIOUS
<1>2. /\ \A i, j \in 1..n : list[i] = list[j] => i = j
      /\ first = At(list, 1)
      /\ \A i \in 1..n : /\ next[list[i]] = At(list, i + 1)
                         /\ prev[list[i]] = At(list, i - 1)
  BY <1>1 DEF Listed
<1>3. \A i \in 1..n : /\ next2[list[i]] = IF i = n THEN o ELSE next[list[i]]
                      /\ prev2[list[i]] = prev[list[i]] /\ list[i] # o
  BY <1>1
<1>4. prev2[o] = At(list, n)
  OBVIOUS
<1> HIDE DEF n, more
<1>5. \A i, j \in 1..(n + 1) : more[i] = more[j] => i = j
  BY <1>1, <1>2, <1>3
<1>6. (IF list = <<>> THEN o ELSE first) = At(more, 1)
  BY <1>1, <1>2 DEF At
<1>7. ASSUME NEW i \in 1..n
      PROVE  next2[more[i]] = At(more, i + 1) /\ prev2[more[i]] = At(more, i - 1)
  <2>1. next2[more[i]] = At(more, i + 1)
    BY <1>1, <1>2, <1>3 DEF At
  <2>2. prev2[more[i]] = At(more, i - 1)
    BY <1>1, <1>2, <1>3 DEF At
  <2> QED
    BY <2>1, <2>2
<1>8. next2[more[n + 1]] = At(more, (n + 1) + 1) /\ prev2[more[n + 1]] = At(more, (n + 1) - 1)
  BY <1>1, <1>4 DEF At
<1>9. ASSUME NEW i \in 1..(n + 1)
      PROVE  next2[more[i]] = At(more, i + 1) /\ prev2[more[i]] = At(more, i - 1)
  <2>1. i \in 1..n \/ i = n + 1
    BY <1>1
  <2> QED
    BY <2>1, <1>7, <1>8
<1> QED
  BY <1>1, <1>5, <1>6, <1>9 DEF Listed, more

\* An element in front.
LEMMA ListPush ==
  ASSUME NEW list \in Seq(Obj), NEW o \in Obj, \A i \in DOMAIN list : list[i] # o,
         NEW first, NEW next, NEW prev, Listed(list, first, next, prev),
         NEW next2, next2[o] = first,
         \A i \in DOMAIN list : next2[list[i]] = next[list[i]],
         NEW prev2, prev2[o] = NULL,
         \A i \in DOMAIN list :
           prev2[list[i]] = IF i = 1 THEN o ELSE prev[list[i]]
  PROVE  Listed(<<o>> \o list, o, next2, prev2)
<1> DEFINE more == <<o>> \o list
           n == Len(list)
<1>1. /\ n \in Nat /\ DOMAIN list = 1..n /\ DOMAIN more = 1..(n + 1)
      /\ more[1] = o /\ \A i \in 2..(n + 1) : more[i] = list[i - 1]
  OBVIOUS
<1>2. /\ \A i, j \in 1..n : list[i] = list[j] => i = j
      /\ first = At(list, 1)
      /\ \A i \in 1..n : /\ next[list[i]] = At(list, i + 1)
                         /\ prev[list[i]] = At(list, i - 1)
  BY <1>1 DEF Listed
<1>3. \A i \in 1..n : /\ next2[list[i]] = next[list[i]] /\ list[i] # o
                      /\ prev2[list[i]] = IF i = 1 THEN o ELSE prev[list[i]]
  BY <1>1
<1>4. next2[o] = first /\ prev2[o] = NULL
  OBVIOUS
<1> HIDE DEF n, more
<1>5. \A i, j \in 1..(n + 1) : more[i] = more[j] => i = j
  <2>1. \A i \in 2..(n + 1) : i - 1 \in 1..n
    BY <1>1
  <2>2. \A i, j \in 2..(n + 1) : more[i] = more[j] => i - 1 = j - 1
    BY <1>1, <1>2, <2>1
  <2>3. \A i \in 2..(n + 1) : more[i] # more[1]
    BY <1>1, <1>3, <2>1
  <2> QED
    BY <1>1, <2>2, <2>3
<1>6. o = At(more, 1)
  BY <1>1 DEF At
<1>7. next2[more[1]] = At(more, 1 + 1) /\ prev2[more[1]] = At(more, 1 - 1)
  BY <1>1, <1>2, <1>4 DEF At
<1>8. ASSUME NEW i \in 2..(n + 1)
      PROVE  next2[more[i]] = At(more, i + 1) /\ prev2[more[i]] = At(more, i - 1)
  <2>1. i - 1 \in 1..n /\ more[i] = list[i - 1] /\ (i - 1) + 1 = i
    BY <1>1
  <2>2. next2[more[i]] = At(list, i)
    BY <1>2, <1>3, <2>1
  <2>3. At(list, i) = At(more, i + 1)
    BY <1>1, <2>1 DEF At
  <2>4. prev2[more[i]] = IF i - 1 = 1 THEN o ELSE At(list, (i - 1) - 1)
    BY <1>2, <1>3, <2>1
  <2>5. i - 1 # 1 => At(list, (i - 1) - 1) = At(more, i - 1)
    BY <1>1, <2>1 DEF At
  <2>6. i - 1 = 1 => At(more, i - 1) = o
    BY <1>1, <2>1 DEF At
  <2> QED
    BY <2>2, <2>3, <2>4, <2>5, <2>6
<1>9. \A i \in 1..(n + 1) : /\ next2[more[i]] = At(more, i + 1)
                            /\ prev2[more[i]] = At(more, i - 1)
  BY <1>1, <1>7, <1>8
<1> QED
  BY <1>1, <1>5, <1>6, <1>9 DEF Listed, more

\* What is left of a list without its p-th element.
LEMMA RemovedIs ==
  ASSUME NEW S, NEW list \in Seq(S), NEW p \in DOMAIN list
  PROVE  /\ RemoveAt(list, p) \in Seq(S) /\ Len(RemoveAt(list, p)) = Len(list) - 1
         /\ DOMAIN RemoveAt(list, p) = 1..(Len(list) - 1)
         /\ \A i \in 1..(Len(list) - 1) :
              RemoveAt(list, p)[i] = IF i < p THEN list[i] ELSE list[i + 1]
<1> DEFINE a == SubSeq(list, 1, p - 1)
           b == SubSeq(list, p + 1, Len(list))
<1>1. Len(list) \in Nat /\ p \in 1..Len(list)
  OBVIOUS
<1>2. /\ a \in Seq(S) /\ Len(a) = p - 1
      /\ \A i \in 1..(p - 1) : a[i] = list[i]
  BY <1>1
<1>3. /\ b \in Seq(S) /\ Len(b) = Len(list) - p
      /\ \A i \in 1..(Len(list) - p) : b[i] = list[p + i]
  BY <1>1
<1>4. RemoveAt(list, p) = a \o b
  BY DEF RemoveAt
<1> HIDE DEF a, b
<1>5. /\ a \o b \in Seq(S) /\ Len(a \o b) = Len(list) - 1
      /\ \A i \in 1..(Len(list) - 1) :
           (a \o b)[i] = IF i < p THEN a[i] ELSE b[i - (p - 1)]
  <2>1. /\ a \o b \in Seq(S) /\ Len(a \o b) = Len(a) + Len(b)
        /\ \A i \in 1..(Len(a) + Len(b)) :
             (a \o b)[i] = IF i <= Len(a) THEN a[i] ELSE b[i - Len(a)]
    BY <1>2, <1>3
  <2>2. Len(a) + Len(b) = Len(list) - 1 /\ \A i \in Nat : i <= Len(a) <=> i < p
    BY <1>1, <1>2, <1>3
  <2>3. PICK l : l = a \o b
    OBVIOUS
  <2> QED
    BY <1>1, <1>2, <2>1, <2>2, <2>3
<1>6. ASSUME NEW i \in 1..(Len(list) - 1)
      PROVE  (a \o b)[i] = IF i < p THEN list[i] ELSE list[i + 1]
  <2>1. CASE i < p
    BY <1>1, <1>2, <1>5, <2>1
  <2>2. CASE ~(i < p)
    <3>1. i - (p - 1) \in 1..(Len(list) - p) /\ p + (i - (p - 1)) = i + 1
      BY <1>1, <2>2
    <3> QED
      BY <1>3, <1>5, <2>2, <3>1
  <2> QED
    BY <2>1, <2>2
<1>7. DOMAIN (a \o b) = 1..(Len(list) - 1)
  BY <1>5
<1> QED
  BY <1>4, <1>5, <1>6, <1>7

\* The list without its p-th element, whose neighbours are linked.
LEMMA ListRemove ==
  ASSUME NEW list \in Seq(Obj), NEW p \in DOMAIN list,
         NEW first, NEW next, NEW prev, Listed(list, first, next, prev),
         NEW next2, NEW prev2,
         \A i \in DOMAIN list \ {p} :
           /\ next2[list[i]] = IF i = p - 1 THEN At(list, p + 1) ELSE next[list[i]]
           /\ prev2[list[i]] = IF i = p + 1 THEN At(list, p - 1) ELSE prev[list[i]]
  PROVE  Listed(RemoveAt(list, p), IF p = 1 THEN At(list, 2) ELSE first, next2, prev2)
<1> DEFINE less == RemoveAt(list, p)
           n == Len(list)
           was(i) == IF i < p THEN i ELSE i + 1
<1>1. n \in Nat /\ DOMAIN list = 1..n /\ p \in 1..n
  OBVIOUS
<1>2. /\ \A i, j \in 1..n : list[i] = list[j] => i = j
      /\ first = At(list, 1)
      /\ \A i \in 1..n : /\ next[list[i]] = At(list, i + 1)
                         /\ prev[list[i]] = At(list, i - 1)
  BY <1>1 DEF Listed
<1>3. \A i \in (1..n) \ {p} :
        /\ next2[list[i]] = IF i = p - 1 THEN At(list, p + 1) ELSE At(list, i + 1)
        /\ prev2[list[i]] = IF i = p + 1 THEN At(list, p - 1) ELSE At(list, i - 1)
  BY <1>1, <1>2
<1>4. DOMAIN less = 1..(n - 1) /\ \A i \in 1..(n - 1) : less[i] = list[was(i)]
  BY RemovedIs
<1>5. \A i \in 1..(n - 1) : was(i) \in (1..n) \ {p}
  BY <1>1
<1> HIDE DEF n, less
<1>6. \A i, j \in 1..(n - 1) : less[i] = less[j] => i = j
  <2> SUFFICES ASSUME NEW i \in 1..(n - 1), NEW j \in 1..(n - 1), less[i] = less[j]
               PROVE  i = j
    OBVIOUS
  <2>1. was(i) = was(j)
    <3> HIDE DEF was
    <3> QED
      BY <1>2, <1>4, <1>5
  <2> QED
    BY <1>1, <2>1
<1>7. (IF p = 1 THEN At(list, 2) ELSE first) = At(less, 1)
  BY <1>1, <1>2, <1>4 DEF At
<1>8. ASSUME NEW i \in 1..(n - 1)
      PROVE  next2[less[i]] = At(less, i + 1) /\ prev2[less[i]] = At(less, i - 1)
  <2>1. less[i] = list[was(i)] /\ was(i) \in (1..n) \ {p}
    BY <1>4, <1>5
  <2>2. next2[less[i]] = IF was(i) = p - 1 THEN At(list, p + 1) ELSE At(list, was(i) + 1)
    BY <1>3, <2>1
  <2>3. prev2[less[i]] = IF was(i) = p + 1 THEN At(list, p - 1) ELSE At(list, was(i) - 1)
    BY <1>3, <2>1
  <2>4. next2[less[i]] = At(list, was(i + 1))
    BY <1>1, <2>2
  <2>5. At(list, was(i + 1)) = At(less, i + 1)
    BY <1>1, <1>4 DEF At
  <2>6. i = 1 => prev2[less[i]] = NULL
    BY <1>1, <2>3 DEF At
  <2>7. i # 1 => prev2[less[i]] = list[was(i - 1)]
    BY <1>1, <2>3 DEF At
  <2>8. At(less, i - 1) = IF i = 1 THEN NULL ELSE list[was(i - 1)]
    BY <1>1, <1>4 DEF At
  <2> QED
    BY <2>4, <2>5, <2>6, <2>7, <2>8
<1> QED
  BY <1>1, <1>4, <1>6, <1>7, <1>8 DEF Listed, less

----------------------------------------------------------------------------
(* Buckets *)

LEMMA LinksAre ==
  ASSUME NEW h
  PROVE  /\ \A x \in Obj : /\ Links(h, "next")[x] = h[x].next
                           /\ Links(h, "prev")[x] = h[x].prev
                           /\ Links(h, "hh_next")[x] = h[x].hh_next
                           /\ Links(h, "hh_prev")[x] = h[x].hh_prev
         /\ Links(h, "next")[NULL] = NULL /\ Links(h, "hh_next")[NULL] = NULL
BY UthashData DEF Links

\* What Push makes of handles and buckets, field by field.
Pushed(p, n, buckets, h, b, o) ==
  /\ p.buckets \in [0..(n - 1) -> UT_hash_bucket]
  /\ \A c \in 0..(n - 1) :
       /\ p.buckets[c].hh_head = IF c = b THEN o ELSE buckets[c].hh_head
       /\ p.buckets[c].count = buckets[c].count + IF c = b THEN 1 ELSE 0
  /\ p.hh \in [Obj -> UT_hash_handle]
  /\ \A x \in Obj :
       /\ p.hh[x].hh_next = IF x = o THEN buckets[b].hh_head ELSE h[x].hh_next
       /\ p.hh[x].hh_prev = IF x = buckets[b].hh_head THEN o
                            ELSE IF x = o THEN NULL ELSE h[x].hh_prev
       /\ p.hh[x].key = h[x].key
       /\ p.hh[x].next = h[x].next /\ p.hh[x].prev = h[x].prev

LEMMA PushIs ==
  ASSUME NEW n \in Nat, NEW buckets \in [0..(n - 1) -> UT_hash_bucket],
         NEW h \in [Obj -> UT_hash_handle], NEW b \in 0..(n - 1), NEW o \in Obj
  PROVE  Pushed(Push(buckets, h, b, o), n, buckets, h, b, o)
<1> DEFINE p == Push(buckets, h, b, o)
           first == buckets[b].hh_head
           new == [h EXCEPT ![o].hh_prev = NULL, ![o].hh_next = first]
<1>1. /\ p.buckets = [buckets EXCEPT ![b].hh_head = o, ![b].count = @ + 1]
      /\ p.hh = IF first = NULL THEN new ELSE [new EXCEPT ![first].hh_prev = o]
  BY DEF Push
<1>2. \A c \in 0..(n - 1) : /\ buckets[c].hh_head \in Obj \cup {NULL}
                            /\ buckets[c].count \in Nat
  BY DEF UT_hash_bucket
<1> HIDE DEF p, first
<1>3. /\ p.buckets \in [0..(n - 1) -> UT_hash_bucket]
      /\ \A c \in 0..(n - 1) :
           /\ p.buckets[c].hh_head = IF c = b THEN o ELSE buckets[c].hh_head
           /\ p.buckets[c].count = buckets[c].count + IF c = b THEN 1 ELSE 0
  BY <1>1, <1>2 DEF UT_hash_bucket
<1>4. first \in Obj \cup {NULL}
  BY <1>2 DEF first
<1>5. /\ new \in [Obj -> UT_hash_handle]
      /\ \A x \in Obj :
           /\ new[x].hh_next = IF x = o THEN first ELSE h[x].hh_next
           /\ new[x].hh_prev = IF x = o THEN NULL ELSE h[x].hh_prev
           /\ new[x].key = h[x].key
           /\ new[x].next = h[x].next /\ new[x].prev = h[x].prev
  BY <1>4 DEF UT_hash_handle
<1> HIDE DEF new
<1>6. CASE first = NULL
  BY <1>1, <1>3, <1>5, <1>6, UthashData DEF p, first, Pushed
<1>7. CASE first # NULL
  <2>1. first \in Obj /\ p.hh = [new EXCEPT ![first].hh_prev = o]
    BY <1>1, <1>4, <1>7
  <2>2. /\ p.hh \in [Obj -> UT_hash_handle]
        /\ \A x \in Obj :
             /\ p.hh[x].hh_next = new[x].hh_next
             /\ p.hh[x].hh_prev = IF x = first THEN o ELSE new[x].hh_prev
             /\ p.hh[x].key = new[x].key
             /\ p.hh[x].next = new[x].next /\ p.hh[x].prev = new[x].prev
    BY <1>5, <2>1 DEF UT_hash_handle
  <2> QED
    BY <1>3, <1>5, <2>2 DEF p, first, Pushed
<1> QED
  BY <1>6, <1>7

\* The buckets of a hash value.
LEMMA BucketNumber ==
  ASSUME NEW hv \in [Key -> HashValue], NEW k \in Key, NEW n \in Nat \ {0}
  PROVE  hv[k] % n \in 0..(n - 1)
<1>1. hv[k] \in Nat
  BY UthashData
<1> QED
  BY <1>1

\* Chains do not depend on the other fields of handles and buckets.
LEMMA ChainsOnly ==
  ASSUME NEW hv, NEW n \in Nat, NEW B, NEW h, NEW ch, NEW S \in SUBSET Obj,
         Bucketed(hv, B, h, n, ch, S),
         NEW B2 \in [0..(n - 1) -> UT_hash_bucket], NEW h2,
         \A c \in 0..(n - 1) :
           B2[c].hh_head = B[c].hh_head /\ B2[c].count = B[c].count,
         \A x \in S : /\ h2[x].hh_next = h[x].hh_next
                      /\ h2[x].hh_prev = h[x].hh_prev /\ h2[x].key = h[x].key
  PROVE  Bucketed(hv, B2, h2, n, ch, S)
<1>1. \A c \in 0..(n - 1) : \A i \in DOMAIN ch[c] : ch[c][i] \in S
  BY DEF Bucketed
<1>2. ASSUME NEW c \in 0..(n - 1)
      PROVE  Listed(ch[c], B2[c].hh_head, Links(h2, "hh_next"), Links(h2, "hh_prev"))
  <2>1. \A i \in DOMAIN ch[c] :
          /\ Links(h2, "hh_next")[ch[c][i]] = Links(h, "hh_next")[ch[c][i]]
          /\ Links(h2, "hh_prev")[ch[c][i]] = Links(h, "hh_prev")[ch[c][i]]
    BY <1>1, LinksAre
  <2>2. Listed(ch[c], B[c].hh_head, Links(h, "hh_next"), Links(h, "hh_prev"))
    BY DEF Bucketed
  <2> QED
    BY <2>1, <2>2 DEF Listed
<1>3. \A c \in 0..(n - 1) : \A i \in DOMAIN ch[c] : hv[h2[ch[c][i]].key] % n = c
  <2>1. \A c \in 0..(n - 1) : \A i \in DOMAIN ch[c] : hv[h[ch[c][i]].key] % n = c
    BY DEF Bucketed
  <2>2. \A x \in S : h2[x].key = h[x].key
    OBVIOUS
  <2> QED
    BY <1>1, <2>1, <2>2
<1>4. \A x \in S : x \in Range(ch[hv[h2[x].key] % n])
  BY DEF Bucketed
<1> QED
  BY <1>2, <1>3, <1>4 DEF Bucketed

\* An element that is in no chain gets in front of that of its hash value.
LEMMA PushKeeps ==
  ASSUME NEW hv \in [Key -> HashValue], NEW n \in Nat \ {0}, NEW B, NEW ch,
         NEW h \in [Obj -> UT_hash_handle], NEW S \in SUBSET Obj,
         \A x \in S : h[x].key \in Key,
         Bucketed(hv, B, h, n, ch, S), NEW o \in Obj \ S, h[o].key \in Key
  PROVE  LET b == hv[h[o].key] % n
             p == Push(B, h, b, o)
         IN  Bucketed(hv, p.buckets, p.hh, n, [ch EXCEPT ![b] = <<o>> \o @], S \cup {o})
<1> DEFINE b == hv[h[o].key] % n
           p == Push(B, h, b, o)
           first == B[b].hh_head
           ch2 == [ch EXCEPT ![b] = <<o>> \o @]
           T == S \cup {o}
<1>1. b \in 0..(n - 1)
  BY BucketNumber
<1>2. B \in [0..(n - 1) -> UT_hash_bucket] /\ ch \in [0..(n - 1) -> Seq(S)]
  BY DEF Bucketed
<1>3. /\ p.buckets \in [0..(n - 1) -> UT_hash_bucket]
      /\ \A c \in 0..(n - 1) :
           /\ p.buckets[c].hh_head = IF c = b THEN o ELSE B[c].hh_head
           /\ p.buckets[c].count = B[c].count + IF c = b THEN 1 ELSE 0
      /\ p.hh \in [Obj -> UT_hash_handle]
      /\ \A x \in Obj :
           /\ p.hh[x].hh_next = IF x = o THEN first ELSE h[x].hh_next
           /\ p.hh[x].hh_prev = IF x = first THEN o
                                ELSE IF x = o THEN NULL ELSE h[x].hh_prev
           /\ p.hh[x].key = h[x].key
  <2>1. n \in Nat /\ o \in Obj
    OBVIOUS
  <2> HIDE DEF b
  <2>2. Pushed(p, n, B, h, b, o)
    BY <1>1, <1>2, <2>1, PushIs
  <2> QED
    BY <2>2 DEF Pushed
<1>4. \A c \in 0..(n - 1) : ch[c] \in Seq(S) /\ ch[c] \in Seq(Obj) /\ ch[c] \in Seq(T)
  BY <1>2
<1>5. /\ ch2 \in [0..(n - 1) -> Seq(T)]
      /\ \A c \in 0..(n - 1) : ch2[c] = IF c = b THEN <<o>> \o ch[b] ELSE ch[c]
  <2>1. <<o>> \o ch[b] \in Seq(T)
    BY <1>1, <1>4
  <2> QED
    BY <1>1, <1>2, <1>4, <2>1
<1>6. \A c \in 0..(n - 1) : \A i \in DOMAIN ch[c] : ch[c][i] \in S /\ ch[c][i] # o
  BY <1>4
<1> HIDE DEF b, p, ch2
<1>7. \A c \in 0..(n - 1) :
        /\ Listed(ch[c], B[c].hh_head, Links(h, "hh_next"), Links(h, "hh_prev"))
        /\ B[c].count = Len(ch[c])
        /\ \A i \in DOMAIN ch[c] : hv[h[ch[c][i]].key] % n = c
  BY DEF Bucketed
<1>8. first = At(ch[b], 1)
  BY <1>1, <1>7 DEF Listed
<1>9. Listed(ch2[b], p.buckets[b].hh_head, Links(p.hh, "hh_next"), Links(p.hh, "hh_prev"))
  <2> DEFINE next == Links(h, "hh_next")
             prev == Links(h, "hh_prev")
             next2 == Links(p.hh, "hh_next")
             prev2 == Links(p.hh, "hh_prev")
  <2>1. \A x \in Obj : /\ next[x] = h[x].hh_next /\ prev[x] = h[x].hh_prev
                       /\ next2[x] = p.hh[x].hh_next /\ prev2[x] = p.hh[x].hh_prev
    BY LinksAre
  <2>2. first # o
    <3>1. first \in S \cup {NULL}
      BY <1>1, <1>6, <1>8 DEF At
    <3> QED
      BY <3>1, UthashData
  <2>3. next2[o] = first /\ prev2[o] = NULL
    BY <1>3, <2>1, <2>2
  <2>4. \A i \in DOMAIN ch[b] : ch[b][i] \in Obj /\ ch[b][i] # o
    BY <1>1, <1>6
  <2>5. \A i, j \in DOMAIN ch[b] : ch[b][i] = ch[b][j] => i = j
    BY <1>1, <1>7 DEF Listed
  <2>6. \A i \in DOMAIN ch[b] : ch[b][i] = first <=> i = 1
    <3>1. Len(ch[b]) \in Nat /\ DOMAIN ch[b] = 1..Len(ch[b])
      BY <1>1, <1>4
    <3>2. \A i \in DOMAIN ch[b] : 1 \in DOMAIN ch[b]
      BY <3>1
    <3> QED
      BY <1>8, <2>5, <3>2 DEF At
  <2>7. \A i \in DOMAIN ch[b] :
          /\ next2[ch[b][i]] = next[ch[b][i]]
          /\ prev2[ch[b][i]] = IF i = 1 THEN o ELSE prev[ch[b][i]]
    BY <1>3, <2>1, <2>4, <2>6
  <2>8. Listed(ch[b], first, next, prev)
    BY <1>1, <1>7
  <2> HIDE DEF next, prev, next2, prev2, first
  <2>9. Listed(<<o>> \o ch[b], o, next2, prev2)
    <3>1. ch[b] \in Seq(Obj) /\ o \in Obj /\ \A i \in DOMAIN ch[b] : ch[b][i] # o
      BY <1>1, <1>4, <2>4
    <3>2. \A i \in DOMAIN ch[b] : next2[ch[b][i]] = next[ch[b][i]]
      BY <2>7
    <3>3. \A i \in DOMAIN ch[b] :
            prev2[ch[b][i]] = IF i = 1 THEN o ELSE prev[ch[b][i]]
      BY <2>7
    <3> QED
      BY <2>3, <2>8, <3>1, <3>2, <3>3, ListPush, SMTT(30)
  <2>10. ch2[b] = <<o>> \o ch[b] /\ p.buckets[b].hh_head = o
    BY <1>1, <1>3, <1>5
  <2> QED
    BY <2>9, <2>10 DEF next2, prev2
<1>10. ASSUME NEW c \in 0..(n - 1), c # b
       PROVE  Listed(ch2[c], p.buckets[c].hh_head,
                     Links(p.hh, "hh_next"), Links(p.hh, "hh_prev"))
  <2>1. ASSUME NEW i \in DOMAIN ch[c] PROVE ch[c][i] # first
    <3>1. first = NULL \/ \E j \in DOMAIN ch[b] : first = ch[b][j]
      BY <1>8 DEF At
    <3>2. ch[c][i] # NULL
      BY <1>6, UthashData
    <3> QED
      BY <1>1, <1>7, <1>10, <3>1, <3>2
  <2>2. \A i \in DOMAIN ch[c] :
          /\ Links(p.hh, "hh_next")[ch[c][i]] = Links(h, "hh_next")[ch[c][i]]
          /\ Links(p.hh, "hh_prev")[ch[c][i]] = Links(h, "hh_prev")[ch[c][i]]
    BY <1>3, <1>6, <2>1, LinksAre
  <2>3. Listed(ch[c], B[c].hh_head, Links(h, "hh_next"), Links(h, "hh_prev"))
    BY <1>7
  <2>4. ch2[c] = ch[c] /\ p.buckets[c].hh_head = B[c].hh_head
    BY <1>3, <1>5, <1>10
  <2> QED
    BY <2>2, <2>3, <2>4 DEF Listed
<1>11. ASSUME NEW c \in 0..(n - 1)
       PROVE  /\ p.buckets[c].count = Len(ch2[c])
              /\ \A i \in DOMAIN ch2[c] : hv[p.hh[ch2[c][i]].key] % n = c
              /\ \A i \in DOMAIN ch[c] : ch[c][i] \in Range(ch2[c])
  <2>1. CASE c # b
    <3>1. ch2[c] = ch[c] /\ p.buckets[c].count = B[c].count + 0
      BY <1>3, <1>5, <2>1
    <3>2. B[c].count + 0 = Len(ch[c])
      BY <1>4, <1>7
    <3>3. \A i \in DOMAIN ch[c] : p.hh[ch[c][i]].key = h[ch[c][i]].key
      BY <1>3, <1>6
    <3>4. \A i \in DOMAIN ch[c] : ch[c][i] \in Range(ch[c])
      BY DEF Range
    <3> QED
      BY <1>7, <3>1, <3>2, <3>3, <3>4
  <2>2. CASE c = b
    <3>1. /\ Len(ch2[c]) = Len(ch[c]) + 1 /\ ch2[c][1] = o
          /\ \A i \in DOMAIN ch[c] : i + 1 \in DOMAIN ch2[c] /\ ch2[c][i + 1] = ch[c][i]
          /\ \A i \in DOMAIN ch2[c] : i = 1 \/ \E j \in DOMAIN ch[c] : ch2[c][i] = ch[c][j]
      <4>1. ch2[c] = <<o>> \o ch[c]
        BY <1>5, <2>2
      <4>2. ch[c] \in Seq(S)
        BY <1>4
      <4>3. /\ Len(ch[c]) \in Nat /\ DOMAIN ch[c] = 1..Len(ch[c])
            /\ Len(ch2[c]) = Len(ch[c]) + 1 /\ DOMAIN ch2[c] = 1..(Len(ch[c]) + 1)
            /\ ch2[c][1] = o
            /\ \A i \in 2..(Len(ch[c]) + 1) : ch2[c][i] = ch[c][i - 1]
        BY <4>1, <4>2
      <4>4. ASSUME NEW i \in DOMAIN ch2[c], i # 1
            PROVE  \E j \in DOMAIN ch[c] : ch2[c][i] = ch[c][j]
        <5>1. i - 1 \in DOMAIN ch[c] /\ ch2[c][i] = ch[c][i - 1]
          BY <4>3, <4>4
        <5> QED
          BY <5>1
      <4>5. ASSUME NEW i \in DOMAIN ch[c]
            PROVE  i + 1 \in DOMAIN ch2[c] /\ ch2[c][i + 1] = ch[c][i]
        <5>1. i + 1 \in 2..(Len(ch[c]) + 1) /\ (i + 1) - 1 = i
          BY <4>3
        <5> QED
          BY <4>3, <5>1
      <4> QED
        BY <4>3, <4>4, <4>5
    <3>2. p.buckets[c].count = Len(ch2[c])
      BY <1>3, <1>7, <2>2, <3>1
    <3>3. hv[p.hh[o].key] % n = c /\ \A x \in S : p.hh[x].key = h[x].key
      BY <1>3, <2>2 DEF b
    <3>4. \A j \in DOMAIN ch[c] : hv[p.hh[ch[c][j]].key] % n = c
      BY <1>6, <1>7, <3>3
    <3>5. \A i \in DOMAIN ch2[c] : hv[p.hh[ch2[c][i]].key] % n = c
      BY <3>1, <3>3, <3>4
    <3>6. \A i \in DOMAIN ch[c] : ch[c][i] \in Range(ch2[c])
      BY <3>1 DEF Range
    <3> QED
      BY <3>2, <3>5, <3>6
  <2> QED
    BY <2>1, <2>2
<1>12. ASSUME NEW x \in T PROVE x \in Range(ch2[hv[p.hh[x].key] % n])
  <2>1. CASE x = o
    <3>1. hv[p.hh[x].key] % n = b
      BY <1>3, <2>1 DEF b
    <3>2. 1 \in DOMAIN ch2[b] /\ ch2[b][1] = o
      <4>1. ch2[b] = <<o>> \o ch[b] /\ ch[b] \in Seq(Obj)
        BY <1>1, <1>4, <1>5
      <4> QED
        BY <4>1
    <3> QED
      BY <2>1, <3>1, <3>2 DEF Range
  <2>2. CASE x # o
    <3>1. x \in S /\ p.hh[x].key = h[x].key /\ h[x].key \in Key
      BY <1>3, <2>2
    <3>2. PICK c : c = hv[h[x].key] % n
      OBVIOUS
    <3>3. c \in 0..(n - 1)
      BY <3>1, <3>2, BucketNumber
    <3>4. x \in Range(ch[c])
      BY <3>1, <3>2 DEF Bucketed
    <3>5. x \in Range(ch2[c])
      BY <1>11, <3>3, <3>4 DEF Range
    <3> QED
      BY <3>1, <3>2, <3>5
  <2> QED
    BY <2>1, <2>2
<1>13. \A c \in 0..(n - 1) :
         Listed(ch2[c], p.buckets[c].hh_head, Links(p.hh, "hh_next"), Links(p.hh, "hh_prev"))
  BY <1>1, <1>9, <1>10
<1> QED
  BY <1>3, <1>5, <1>11, <1>12, <1>13 DEF Bucketed, p, b, ch2

----------------------------------------------------------------------------
(* A larger array *)

\* Chains of no elements.
LEMMA EmptyIs ==
  ASSUME NEW hv, NEW n \in Nat, NEW h, NEW ch, ch = [b \in 0..(n - 1) |-> <<>>]
  PROVE  Bucketed(hv, EmptyBuckets(n), h, n, ch, {})
<1>1. EmptyBuckets(n) \in [0..(n - 1) -> UT_hash_bucket]
  BY DEF EmptyBuckets, UT_hash_bucket
<1>2. \A b \in 0..(n - 1) : /\ EmptyBuckets(n)[b].hh_head = NULL
                            /\ EmptyBuckets(n)[b].count = 0
  BY DEF EmptyBuckets
<1>3. DOMAIN <<>> = {} /\ Len(<<>>) = 0 /\ <<>> \in Seq({})
  OBVIOUS
<1>4. ch \in [0..(n - 1) -> Seq({})] /\ \A b \in 0..(n - 1) : ch[b] = <<>>
  BY <1>3
<1>5. \A b \in 0..(n - 1) : Listed(ch[b], NULL, Links(h, "hh_next"), Links(h, "hh_prev"))
  BY <1>3, <1>4 DEF Listed, At
<1> QED
  BY <1>1, <1>2, <1>3, <1>4, <1>5 DEF Bucketed

\* Handles that differ in their chains only.
Alike(h2, h) ==
  /\ h2 \in [Obj -> UT_hash_handle]
  /\ \A x \in Obj : /\ h2[x].key = h[x].key
                    /\ h2[x].next = h[x].next /\ h2[x].prev = h[x].prev

LEMMA MoveKeeps ==
  ASSUME hashv \in [Key -> HashValue], NEW n \in Nat \ {0}, NEW ideal, NEW a, NEW ch,
         a.hh \in [Obj -> UT_hash_handle], NEW S \in SUBSET Obj,
         \A x \in S : a.hh[x].key \in Key,
         Bucketed(hashv, a.buckets, a.hh, n, ch, S),
         NEW o \in Obj \ S, a.hh[o].key \in Key
  PROVE  LET m == Move(n, ideal, a, o)
         IN  /\ \E ch2 : Bucketed(hashv, m.buckets, m.hh, n, ch2, S \cup {o})
             /\ Alike(m.hh, a.hh)
<1> DEFINE b == HASH_TO_BKT(a.hh[o].key, n)
           p == Push(a.buckets, a.hh, b, o)
           m == Move(n, ideal, a, o)
<1>1. b = hashv[a.hh[o].key] % n /\ b \in 0..(n - 1)
  BY BucketNumber DEF HASH_TO_BKT
<1>2. a.buckets \in [0..(n - 1) -> UT_hash_bucket]
  BY DEF Bucketed
<1>3. Pushed(p, n, a.buckets, a.hh, b, o)
  <2>1. n \in Nat /\ o \in Obj
    OBVIOUS
  <2> HIDE DEF b
  <2> QED
    BY <1>1, <1>2, <2>1, PushIs
<1>4. PICK ch2 : Bucketed(hashv, p.buckets, p.hh, n, ch2, S \cup {o})
  <2>1. Bucketed(hashv, p.buckets, p.hh, n, [ch EXCEPT ![b] = <<o>> \o @], S \cup {o})
    BY <1>1, PushKeeps
  <2> QED
    BY <2>1
<1>5. /\ m.hh = p.hh
      /\ \E e : m.buckets = [p.buckets EXCEPT ![b].expand_mult = e] /\ e \in Nat
  <2>1. p.buckets[b].expand_mult \in Nat
    BY <1>1, <1>3 DEF Pushed, UT_hash_bucket
  <2>2. PICK more : m.buckets = [p.buckets EXCEPT ![b].expand_mult =
                                   IF more THEN @ + 1 ELSE @]
    BY DEF Move
  <2>3. m.hh = p.hh
    BY DEF Move
  <2>4. \E e \in Nat : e = IF more THEN p.buckets[b].expand_mult + 1
                                   ELSE p.buckets[b].expand_mult
    <3> HIDE DEF p, b
    <3>1. CASE more
      BY <2>1, <3>1
    <3>2. CASE ~more
      BY <2>1, <3>2
    <3> QED
      BY <3>1, <3>2
  <2>5. PICK e \in Nat : e = IF more THEN p.buckets[b].expand_mult + 1
                                     ELSE p.buckets[b].expand_mult
    BY <2>4
  <2>6. m.buckets = [p.buckets EXCEPT ![b].expand_mult = e]
    BY <2>2, <2>5
  <2> HIDE DEF m, p, b
  <2> QED
    BY <2>3, <2>6
<1>6. PICK e \in Nat : m.buckets = [p.buckets EXCEPT ![b].expand_mult = e]
  BY <1>5
<1> HIDE DEF m, p, b
<1>7. /\ m.buckets \in [0..(n - 1) -> UT_hash_bucket]
      /\ \A c \in 0..(n - 1) : /\ m.buckets[c].hh_head = p.buckets[c].hh_head
                               /\ m.buckets[c].count = p.buckets[c].count
  <2>1. p.buckets \in [0..(n - 1) -> UT_hash_bucket]
    BY <1>3 DEF Pushed
  <2>2. p.buckets[b] \in UT_hash_bucket
    BY <1>1, <2>1
  <2>3. PICK q : q = [p.buckets[b] EXCEPT !.expand_mult = e]
    OBVIOUS
  <2>4. /\ q \in UT_hash_bucket /\ q.hh_head = p.buckets[b].hh_head
        /\ q.count = p.buckets[b].count
    BY <1>6, <2>2, <2>3 DEF UT_hash_bucket
  <2>5. m.buckets = [p.buckets EXCEPT ![b] = q]
    BY <1>6, <2>3
  <2> QED
    BY <1>1, <2>1, <2>4, <2>5
<1>8. Bucketed(hashv, m.buckets, m.hh, n, ch2, S \cup {o})
  <2>1. n \in Nat /\ S \cup {o} \in SUBSET Obj
    OBVIOUS
  <2> QED
    BY <1>4, <1>5, <1>7, <2>1, ChainsOnly
<1>9. Alike(m.hh, a.hh)
  BY <1>3, <1>5 DEF Pushed, Alike
<1> QED
  BY <1>8, <1>9 DEF m

\* The array and the handles after each move.
Moves(n, ideal, h, all) ==
  CHOOSE m : m = [k \in 0..Len(all) |->
                    IF k = 0 THEN [buckets |-> EmptyBuckets(n), hh |-> h, nonideal |-> 0]
                             ELSE Move(n, ideal, m[k - 1], all[k])]

LEMMA MovesAre ==
  ASSUME NEW n, NEW ideal, NEW h, NEW all \in Seq(Obj)
  PROVE  /\ Moves(n, ideal, h, all)[0]
              = [buckets |-> EmptyBuckets(n), hh |-> h, nonideal |-> 0]
         /\ \A k \in 1..Len(all) : Moves(n, ideal, h, all)[k]
              = Move(n, ideal, Moves(n, ideal, h, all)[k - 1], all[k])
<1> DEFINE start == [buckets |-> EmptyBuckets(n), hh |-> h, nonideal |-> 0]
           step(a, k) == Move(n, ideal, a, all[k])
           Is(m, i) == m = [k \in 0..i |-> IF k = 0 THEN start ELSE step(m[k - 1], k)]
           Missing == {i \in Nat : ~\E m : Is(m, i)}
<1> HIDE DEF start, step
<1>1. Missing = {}
  <2> SUFFICES ASSUME Missing # {} PROVE FALSE
    OBVIOUS
  <2>1. PICK i \in Missing : \A j \in Missing : i <= j
    BY Least
  <2>2. i # 0
    <3>1. Is([k \in 0..0 |-> start], 0)
      OBVIOUS
    <3> QED
      BY <2>1, <3>1
  <2>3. i \in Nat /\ i - 1 \in Nat /\ i - 1 \notin Missing
    <3>1. i \in Nat
      BY <2>1
    <3> HIDE DEF Missing
    <3> QED
      BY <2>1, <2>2, <3>1
  <2>4. PICK m : Is(m, i - 1)
    BY <2>3
  <2> DEFINE more == [k \in 0..i |-> IF k = 0 THEN start ELSE step(m[k - 1], k)]
  <2>5. \A k \in 0..(i - 1) : more[k] = m[k]
    BY <2>3, <2>4
  <2>6. ASSUME NEW k \in 0..i, k # 0 PROVE more[k - 1] = m[k - 1]
    <3>1. k - 1 \in 0..(i - 1)
      BY <2>3, <2>6
    <3> QED
      BY <2>5, <3>1
  <2>7. Is(more, i)
    BY <2>6
  <2> QED
    BY <2>1, <2>7
<1>2. Len(all) \in Nat
  OBVIOUS
<1>3. \E m : Is(m, Len(all))
  BY <1>1, <1>2
<1>4. Is(CHOOSE m : Is(m, Len(all)), Len(all))
  BY <1>3
<1>5. Moves(n, ideal, h, all) = CHOOSE m : Is(m, Len(all))
  BY DEF Moves, start, step
<1>6. PICK m : m = Moves(n, ideal, h, all)
  OBVIOUS
<1>7. m = [k \in 0..Len(all) |-> IF k = 0 THEN start ELSE step(m[k - 1], k)]
  BY <1>4, <1>5, <1>6
<1>8. m[0] = start /\ \A k \in 1..Len(all) : m[k] = step(m[k - 1], k)
  BY <1>2, <1>7
<1> QED
  BY <1>6, <1>8 DEF start, step

\* After some moves those that were moved, and no others, are in a chain.
LEMMA MovesKeep ==
  ASSUME hashv \in [Key -> HashValue], NEW n \in Nat \ {0}, NEW ideal,
         NEW h \in [Obj -> UT_hash_handle], NEW all \in Seq(Obj), IsInjective(all),
         \A x \in Range(all) : h[x].key \in Key
  PROVE  LET m == Moved(n, ideal, h, all)
         IN  /\ \E ch : Bucketed(hashv, m.buckets, m.hh, n, ch, Range(all))
             /\ Alike(m.hh, h)
<1> DEFINE m == Moves(n, ideal, h, all)
           S(k) == {all[i] : i \in 1..k}
           Good(k) == /\ \E ch : Bucketed(hashv, m[k].buckets, m[k].hh, n, ch, S(k))
                      /\ Alike(m[k].hh, h)
           Bad == {k \in 0..Len(all) : ~Good(k)}
<1>1. /\ m[0] = [buckets |-> EmptyBuckets(n), hh |-> h, nonideal |-> 0]
      /\ \A k \in 1..Len(all) : m[k] = Move(n, ideal, m[k - 1], all[k])
  BY MovesAre
<1>2. /\ Len(all) \in Nat /\ DOMAIN all = 1..Len(all)
      /\ \A i \in 1..Len(all) : all[i] \in Obj /\ all[i] \in Range(all)
  BY DEF Range
<1>3. Moved(n, ideal, h, all) = m[Len(all)]
  BY DEF Moved, Moves
<1> HIDE DEF m
<1>4. Good(0)
  <2>1. S(0) = {} /\ n \in Nat
    OBVIOUS
  <2>2. PICK ch : ch = [b \in 0..(n - 1) |-> <<>>]
    OBVIOUS
  <2>3. Bucketed(hashv, EmptyBuckets(n), h, n, ch, {})
    BY <2>1, <2>2, EmptyIs
  <2>4. Alike(h, h)
    BY DEF Alike
  <2>5. m[0].buckets = EmptyBuckets(n) /\ m[0].hh = h
    BY <1>1
  <2> QED
    BY <2>1, <2>3, <2>4, <2>5
<1>5. Bad = {}
  <2> SUFFICES ASSUME Bad # {} PROVE FALSE
    OBVIOUS
  <2>1. PICK k \in Bad : \A j \in Bad : k <= j
    <3>1. Bad \subseteq Nat
      BY <1>2
    <3> QED
      BY <3>1, Least
  <2> HIDE DEF Good
  <2>2. k \in 1..Len(all) /\ k - 1 \in 0..Len(all) /\ ~Good(k)
    BY <1>2, <1>4, <2>1
  <2>3. Good(k - 1)
    <3>1. ~(k <= k - 1)
      BY <1>2, <2>2
    <3> QED
      BY <2>1, <2>2, <3>1
  <2> USE DEF Good
  <2>4. PICK a : a = m[k - 1]
    OBVIOUS
  <2>5. PICK T, o : T = S(k - 1) /\ o = all[k]
    OBVIOUS
  <2>6. PICK ch : Bucketed(hashv, a.buckets, a.hh, n, ch, T)
    BY <2>3, <2>4, <2>5
  <2>7. Alike(a.hh, h)
    BY <2>3, <2>4
  <2>8. \A i \in 1..(k - 1) : i \in 1..Len(all) /\ i # k
    BY <1>2, <2>2
  <2>9. T \in SUBSET Obj /\ o \in Obj \ T /\ \A x \in T \cup {o} : x \in Range(all)
    <3>1. \A i \in 1..(k - 1) : all[i] # all[k]
      BY <1>2, <2>2, <2>8 DEF IsInjective
    <3> QED
      BY <1>2, <2>2, <2>5, <2>8, <3>1
  <2>10. a.hh \in [Obj -> UT_hash_handle] /\ \A x \in Obj : a.hh[x].key = h[x].key
    BY <2>7 DEF Alike
  <2>11. (\A x \in T : a.hh[x].key \in Key) /\ a.hh[o].key \in Key
    BY <2>9, <2>10
  <2>12. m[k] = Move(n, ideal, a, o)
    BY <1>1, <2>2, <2>4, <2>5
  <2>13. /\ \E ch2 : Bucketed(hashv, m[k].buckets, m[k].hh, n, ch2, T \cup {o})
         /\ Alike(m[k].hh, a.hh)
    BY <2>6, <2>9, <2>10, <2>11, <2>12, MoveKeeps
  <2>14. Alike(m[k].hh, h)
    BY <2>7, <2>13 DEF Alike
  <2>15. S(k) = T \cup {o}
    <3>1. 1..k = (1..(k - 1)) \cup {k}
      BY <1>2, <2>2
    <3> QED
      BY <2>5, <3>1
  <2> QED
    BY <2>2, <2>13, <2>14, <2>15
<1>6. Good(Len(all))
  <2> HIDE DEF Good
  <2> QED
    BY <1>2, <1>5
<1>7. S(Len(all)) = Range(all)
  BY <1>2 DEF Range
<1> QED
  BY <1>3, <1>6, <1>7

\* The chains are what following the links from the buckets shows.
Chained(B, h, n, ch) ==
  /\ DOMAIN B = 0..(n - 1) /\ DOMAIN ch = 0..(n - 1)
  /\ ch = [b \in DOMAIN ch |-> ch[b]]
  /\ \A b \in 0..(n - 1) : Walk(Links(h, "hh_next"), B[b].hh_head) = ch[b]

\* Chains that are linked are what following the links shows.
LEMMA ChainsAre ==
  ASSUME NEW hv, NEW B, NEW h, NEW n \in Nat, NEW ch, NEW S \in SUBSET Obj,
         Bucketed(hv, B, h, n, ch, S)
  PROVE  Chained(B, h, n, ch)
<1> DEFINE next == Links(h, "hh_next")
<1>1. ASSUME NEW b \in 0..(n - 1) PROVE Walk(next, B[b].hh_head) = ch[b]
  <2>1. ch[b] \in Seq(Obj)
    <3>1. ch[b] \in Seq(S)
      BY DEF Bucketed
    <3> QED
      BY <3>1
  <2>2. Listed(ch[b], B[b].hh_head, next, Links(h, "hh_prev"))
    BY DEF Bucketed
  <2>3. next[NULL] = NULL
    BY LinksAre
  <2> HIDE DEF next
  <2>4. /\ \A i, j \in DOMAIN ch[b] : ch[b][i] = ch[b][j] => i = j
        /\ B[b].hh_head = At(ch[b], 1)
        /\ \A i \in DOMAIN ch[b] : next[ch[b][i]] = At(ch[b], i + 1)
    BY <2>2 DEF Listed
  <2>5. Walk(next, At(ch[b], 1)) = ch[b]
    BY <2>1, <2>3, <2>4, WalkIs
  <2> QED
    BY <2>4, <2>5
<1>2. DOMAIN B = 0..(n - 1) /\ ch \in [0..(n - 1) -> Seq(S)]
  BY DEF Bucketed
<1> QED
  BY <1>1, <1>2 DEF Chained, next

\* A table that is one, whose elements are those of t in the same order.
Placed(r, t, h, S) ==
  /\ r.tbl.num_buckets \in Nat \ {0} /\ r.tbl \in UT_hash_table(r.tbl.num_buckets)
  /\ r.tbl.tail = t.tail /\ r.tbl.num_items = t.num_items
  /\ \E ch : Bucketed(hashv, r.tbl.buckets, r.hh, r.tbl.num_buckets, ch, S)
  /\ Alike(r.hh, h)

LEMMA ExpandKeeps ==
  ASSUME hashv \in [Key -> HashValue], NEW t, t.num_buckets \in Nat \ {0},
         t \in UT_hash_table(t.num_buckets), NEW h \in [Obj -> UT_hash_handle],
         NEW S \in SUBSET Obj, \A x \in S : h[x].key \in Key,
         NEW ch, Bucketed(hashv, t.buckets, h, t.num_buckets, ch, S)
  PROVE  Placed(EXPAND_BUCKETS(t, h), t, h, S)
<1> DEFINE N == t.num_buckets
           n == 2 * N
           ideal == t.num_items \div n + (IF t.num_items % n = 0 THEN 0 ELSE 1)
           chains == [b \in 1..N |-> Chain(t, h, b - 1)]
           all == FlattenSeq(chains)
           m == Moved(n, ideal, h, all)
           ineff == IF m.nonideal > t.num_items \div 2 THEN t.ineff_expands + 1 ELSE 0
           r == EXPAND_BUCKETS(t, h)
<1>1. n \in Nat \ {0} /\ N \in Nat
  OBVIOUS
<1>2. \A b \in 1..N : chains[b] = ch[b - 1] /\ b - 1 \in 0..(N - 1)
  <2>1. \A b \in 1..N : b - 1 \in 0..(N - 1)
    BY <1>1
  <2>2. \A b \in 0..(N - 1) : Chain(t, h, b) = ch[b]
    <3>1. PICK B : B = t.buckets
      OBVIOUS
    <3>2. Bucketed(hashv, B, h, N, ch, S) /\ N \in Nat
      BY <1>1, <3>1
    <3> HIDE DEF N, n, ideal, chains, all, m, ineff, r
    <3>3. Chained(B, h, N, ch)
      BY <3>2, ChainsAre
    <3> QED
      BY <3>1, <3>3 DEF Chain, Chained
  <2> HIDE DEF N
  <2> QED
    BY <2>1, <2>2
<1>3. r = [tbl |-> [t EXCEPT !.num_buckets = n, !.buckets = m.buckets,
                             !.ineff_expands = ineff, !.noexpand = @ \/ ineff > 1],
           hh |-> m.hh]
  BY DEF EXPAND_BUCKETS
<1>4. \A b \in 0..(N - 1) :
        /\ ch[b] \in Seq(S) /\ ch[b] \in Seq(Obj)
        /\ \A i, j \in DOMAIN ch[b] : ch[b][i] = ch[b][j] => i = j
        /\ \A i \in DOMAIN ch[b] : hashv[h[ch[b][i]].key] % N = b
  <2>1. \A b \in 0..(N - 1) : ch[b] \in Seq(S)
    BY DEF Bucketed
  <2>2. \A b \in 0..(N - 1) : ch[b] \in Seq(Obj)
    BY <2>1
  <2> QED
    BY <2>1, <2>2 DEF Bucketed, Listed
<1>5. /\ chains \in Seq(Seq(Obj)) /\ Len(chains) = N
      /\ \A b \in 1..N : IsInjective(chains[b])
      /\ \A b, c \in 1..N : b # c => Range(chains[b]) \cap Range(chains[c]) = {}
  <2>1. \A b \in 1..N : chains[b] \in Seq(Obj)
    BY <1>2, <1>4
  <2>2. chains \in Seq(Seq(Obj)) /\ Len(chains) = N
    <3>1. DOMAIN chains = 1..N
      OBVIOUS
    <3>2. chains = [b \in 1..N |-> chains[b]]
      OBVIOUS
    <3> HIDE DEF chains, N
    <3>3. [b \in 1..N |-> chains[b]] \in [1..N -> Seq(Obj)]
      BY <2>1
    <3> QED
      BY <1>1, <3>2, <3>3
  <2> HIDE DEF chains, N
  <2>3. \A b \in 1..N : IsInjective(chains[b])
    BY <1>2, <1>4 DEF IsInjective
  <2>4. \A b \in 1..N : \A x \in Range(chains[b]) : hashv[h[x].key] % N = b - 1
    BY <1>2, <1>4 DEF Range
  <2>5. ASSUME NEW b \in 1..N, NEW c \in 1..N, b # c
        PROVE  Range(chains[b]) \cap Range(chains[c]) = {}
    <3>1. b - 1 # c - 1
      BY <1>1, <2>5
    <3> QED
      BY <2>4, <3>1
  <2> QED
    BY <2>2, <2>3, <2>5
<1> HIDE DEF all, chains, N, n
<1>6. all \in Seq(Obj) /\ IsInjective(all)
      /\ Range(all) = UNION {Range(chains[b]) : b \in 1..N}
  <2>1. /\ FlattenSeq(chains) \in Seq(Obj) /\ IsInjective(FlattenSeq(chains))
        /\ Range(FlattenSeq(chains)) = UNION {Range(chains[b]) : b \in 1..Len(chains)}
    BY <1>5, FlatElements
  <2> QED
    BY <1>5, <2>1 DEF all
<1>7. Range(all) = S
  <2>1. ASSUME NEW x \in Range(all) PROVE x \in S
    <3>1. PICK b \in 1..N : x \in Range(ch[b - 1])
      BY <1>2, <1>6
    <3>2. b - 1 \in 0..(N - 1) /\ ch[b - 1] \in Seq(S)
      BY <1>2, <1>4
    <3> QED
      BY <3>1, <3>2 DEF Range
  <2>2. ASSUME NEW x \in S PROVE x \in Range(all)
    <3>1. PICK b : b = hashv[h[x].key] % N
      OBVIOUS
    <3>2. b \in 0..(N - 1)
      BY <3>1, BucketNumber DEF N
    <3>3. x \in Range(ch[b])
      BY <3>1 DEF Bucketed, N
    <3>4. b + 1 \in 1..N /\ (b + 1) - 1 = b
      BY <1>1, <3>2
    <3>5. x \in Range(chains[b + 1])
      BY <1>2, <3>3, <3>4
    <3> QED
      BY <1>6, <3>4, <3>5
  <2> QED
    BY <2>1, <2>2
<1> HIDE DEF ideal, m
<1>8. /\ \E ch2 : Bucketed(hashv, m.buckets, m.hh, n, ch2, S)
      /\ Alike(m.hh, h)
  <2>1. \A x \in Range(all) : h[x].key \in Key
    BY <1>7
  <2> QED
    BY <1>1, <1>6, <1>7, <2>1, MovesKeep DEF m
<1>9. m.buckets \in [0..(n - 1) -> UT_hash_bucket]
  BY <1>8 DEF Bucketed
<1>10. ineff \in Nat
  <2>1. t.ineff_expands \in Nat
    BY DEF UT_hash_table
  <2> QED
    BY <2>1
<1> HIDE DEF ineff, r
<1>11. /\ r.tbl \in UT_hash_table(n) /\ r.tbl.num_buckets = n
       /\ r.tbl.tail = t.tail /\ r.tbl.num_items = t.num_items
       /\ r.tbl.buckets = m.buckets /\ r.hh = m.hh
  BY <1>1, <1>3, <1>9, <1>10 DEF UT_hash_table
<1> QED
  BY <1>1, <1>8, <1>11 DEF Placed, r

----------------------------------------------------------------------------
(* One element more or less in a chain *)

LEMMA AddToBucket ==
  ASSUME hashv \in [Key -> HashValue], NEW t, t.num_buckets \in Nat \ {0},
         t \in UT_hash_table(t.num_buckets), NEW h \in [Obj -> UT_hash_handle],
         NEW S \in SUBSET Obj, \A x \in S : h[x].key \in Key,
         NEW ch, Bucketed(hashv, t.buckets, h, t.num_buckets, ch, S),
         NEW o \in Obj \ S, h[o].key \in Key
  PROVE  Placed(ADD_TO_BKT(t, h, HASH_TO_BKT(h[o].key, t.num_buckets), o), t, h, S \cup {o})
<1> DEFINE N == t.num_buckets
           T == S \cup {o}
           b == HASH_TO_BKT(h[o].key, N)
           p == Push(t.buckets, h, b, o)
           new == [t EXCEPT !.buckets = p.buckets]
           full == p.buckets[b].count >= (p.buckets[b].expand_mult + 1) * THRESH
           r == ADD_TO_BKT(t, h, b, o)
<1>1. b = hashv[h[o].key] % N /\ b \in 0..(N - 1)
  BY BucketNumber DEF HASH_TO_BKT
<1>2. N \in Nat /\ t.buckets \in [0..(N - 1) -> UT_hash_bucket] /\ o \in Obj
  BY DEF Bucketed
<1>3. r = IF full /\ ~t.noexpand THEN EXPAND_BUCKETS(new, p.hh)
                                 ELSE [tbl |-> new, hh |-> p.hh]
  BY DEF ADD_TO_BKT
<1>4. \E ch2 : Bucketed(hashv, p.buckets, p.hh, N, ch2, T)
  <2>1. Bucketed(hashv, p.buckets, p.hh, N, [ch EXCEPT ![b] = <<o>> \o @], T)
    BY <1>1, PushKeeps
  <2> QED
    BY <2>1
<1> HIDE DEF b, full, r
<1>5. Pushed(p, N, t.buckets, h, b, o)
  <2> HIDE DEF N
  <2> QED
    BY <1>1, <1>2, PushIs
<1> HIDE DEF p
<1>6. Alike(p.hh, h) /\ p.buckets \in [0..(N - 1) -> UT_hash_bucket]
  BY <1>5 DEF Pushed, Alike
<1>7. /\ new \in UT_hash_table(N) /\ new.num_buckets = N /\ new.buckets = p.buckets
      /\ new.tail = t.tail /\ new.num_items = t.num_items
  BY <1>6 DEF UT_hash_table
<1> HIDE DEF new
<1>8. CASE full /\ ~t.noexpand
  <2>1. \A x \in T : p.hh[x].key \in Key
    BY <1>6 DEF Alike
  <2>2. PICK ch2 : Bucketed(hashv, new.buckets, p.hh, new.num_buckets, ch2, T)
    BY <1>4, <1>7
  <2>3. new.num_buckets \in Nat \ {0} /\ new \in UT_hash_table(new.num_buckets)
    BY <1>7
  <2>4. T \in SUBSET Obj /\ p.hh \in [Obj -> UT_hash_handle]
    BY <1>6 DEF Alike
  <2> HIDE DEF T, N
  <2>5. Placed(EXPAND_BUCKETS(new, p.hh), new, p.hh, T)
    BY <2>1, <2>2, <2>3, <2>4, ExpandKeeps
  <2>6. r = EXPAND_BUCKETS(new, p.hh)
    BY <1>3, <1>8
  <2>7. Alike(r.hh, h)
    BY <1>6, <2>5, <2>6 DEF Placed, Alike
  <2>8. Placed(r, t, h, T)
    BY <1>7, <2>5, <2>6, <2>7 DEF Placed
  <2> QED
    BY <2>8 DEF r, b, T, N
<1>9. CASE ~(full /\ ~t.noexpand)
  <2>1. r.tbl = new /\ r.hh = p.hh
    BY <1>3, <1>9
  <2>2. Placed(r, t, h, T)
    BY <1>4, <1>6, <1>7, <2>1 DEF Placed
  <2> QED
    BY <2>2 DEF r, b
<1> QED
  BY <1>8, <1>9

\* The elements that are left.
LEMMA AppendedElements ==
  ASSUME NEW S, NEW list \in Seq(S), NEW o
  PROVE  Range(Append(list, o)) = Range(list) \cup {o}
<1> DEFINE longer == Append(list, o)
<1>1. Len(list) \in Nat /\ DOMAIN list = 1..Len(list)
  OBVIOUS
<1>2. /\ DOMAIN longer = 1..(Len(list) + 1) /\ longer[Len(list) + 1] = o
      /\ \A i \in DOMAIN list : longer[i] = list[i]
  OBVIOUS
<1> HIDE DEF longer
<1>3. DOMAIN longer = DOMAIN list \cup {Len(list) + 1}
  BY <1>1, <1>2
<1>4. Range(longer) = Range(list) \cup {o}
  BY <1>2, <1>3 DEF Range
<1> QED
  BY <1>4 DEF longer

LEMMA RemovedElements ==
  ASSUME NEW S, NEW list \in Seq(S), NEW p \in DOMAIN list,
         \A i, j \in DOMAIN list : list[i] = list[j] => i = j
  PROVE  Range(RemoveAt(list, p)) = Range(list) \ {list[p]}
<1> DEFINE less == RemoveAt(list, p)
           n == Len(list)
<1>1. /\ n \in Nat /\ DOMAIN list = 1..n /\ p \in 1..n /\ DOMAIN less = 1..(n - 1)
      /\ \A i \in 1..(n - 1) : less[i] = IF i < p THEN list[i] ELSE list[i + 1]
  <2>1. n \in Nat /\ DOMAIN list = 1..n /\ p \in 1..n
    OBVIOUS
  <2>2. /\ DOMAIN RemoveAt(list, p) = 1..(Len(list) - 1)
        /\ \A i \in 1..(Len(list) - 1) :
             RemoveAt(list, p)[i] = IF i < p THEN list[i] ELSE list[i + 1]
    BY RemovedIs
  <2> QED
    BY <2>1, <2>2
<1> HIDE DEF less, n
<1>2. ASSUME NEW x \in Range(less) PROVE x \in Range(list) \ {list[p]}
  <2>1. PICK i \in 1..(n - 1) : x = less[i]
    BY <1>1 DEF Range
  <2>2. PICK j \in 1..n : j # p /\ x = list[j]
    <3>1. CASE i < p
      BY <1>1, <2>1, <3>1
    <3>2. CASE ~(i < p)
      <4>1. i + 1 \in 1..n /\ i + 1 # p /\ x = list[i + 1]
        BY <1>1, <2>1, <3>2
      <4> QED
        BY <4>1
    <3> QED
      BY <3>1, <3>2
  <2>3. x # list[p]
    BY <1>1, <2>2
  <2> QED
    BY <1>1, <2>2, <2>3 DEF Range
<1>3. ASSUME NEW x \in Range(list) \ {list[p]} PROVE x \in Range(less)
  <2>1. PICK j \in 1..n : x = list[j] /\ j # p
    BY <1>1, <1>3 DEF Range
  <2>2. CASE j < p
    <3>1. j \in 1..(n - 1) /\ less[j] = x
      BY <1>1, <2>1, <2>2
    <3> QED
      BY <1>1, <3>1 DEF Range
  <2>3. CASE ~(j < p)
    <3>1. j - 1 \in 1..(n - 1) /\ ~(j - 1 < p) /\ (j - 1) + 1 = j
      BY <1>1, <2>1, <2>3
    <3>2. less[j - 1] = x
      BY <1>1, <2>1, <3>1
    <3> QED
      BY <1>1, <3>1, <3>2 DEF Range
  <2> QED
    BY <2>2, <2>3
<1>4. Range(less) = Range(list) \ {list[p]}
  BY <1>2, <1>3
<1> QED
  BY <1>4 DEF less

LEMMA RemoveFromBucket ==
  ASSUME hashv \in [Key -> HashValue], NEW t, t.num_buckets \in Nat \ {0},
         t \in UT_hash_table(t.num_buckets), NEW h \in [Obj -> UT_hash_handle],
         NEW S \in SUBSET Obj, \A x \in S : h[x].key \in Key,
         NEW ch, Bucketed(hashv, t.buckets, h, t.num_buckets, ch, S), NEW o \in S
  PROVE  Placed(DEL_IN_BKT(t, h, HASH_TO_BKT(h[o].key, t.num_buckets), o), t, h, S \ {o})
<1> DEFINE N == t.num_buckets
           T == S \ {o}
           b == HASH_TO_BKT(h[o].key, N)
           before == h[o].hh_prev
           after == h[o].hh_next
           r == DEL_IN_BKT(t, h, b, o)
<1>1. b = hashv[h[o].key] % N /\ b \in 0..(N - 1)
  BY BucketNumber DEF HASH_TO_BKT
<1>2. /\ N \in Nat /\ t.buckets \in [0..(N - 1) -> UT_hash_bucket]
      /\ ch \in [0..(N - 1) -> Seq(S)] /\ o \in Obj /\ o \in Range(ch[b])
  BY <1>1 DEF Bucketed
<1>3. \A c \in 0..(N - 1) :
        /\ ch[c] \in Seq(S) /\ ch[c] \in Seq(Obj)
        /\ \A i \in DOMAIN ch[c] : ch[c][i] \in S /\ ch[c][i] \in Obj /\ ch[c][i] # NULL
  <2>1. \A c \in 0..(N - 1) : ch[c] \in Seq(S)
    BY <1>2
  <2>2. \A c \in 0..(N - 1) : ch[c] \in Seq(Obj)
    BY <2>1
  <2>3. \A c \in 0..(N - 1) : \A i \in DOMAIN ch[c] : ch[c][i] \in S
    BY <2>1
  <2> QED
    BY <2>1, <2>2, <2>3, UthashData
<1>4. \A c \in 0..(N - 1) :
        /\ Listed(ch[c], t.buckets[c].hh_head, Links(h, "hh_next"), Links(h, "hh_prev"))
        /\ t.buckets[c].count = Len(ch[c])
        /\ \A i \in DOMAIN ch[c] : hashv[h[ch[c][i]].key] % N = c
  BY DEF Bucketed
<1>5. PICK p \in DOMAIN ch[b] : ch[b][p] = o
  BY <1>2 DEF Range
<1> DEFINE ch2 == [ch EXCEPT ![b] = RemoveAt(@, p)]
<1>6. /\ r.tbl = [t EXCEPT !.buckets = [@ EXCEPT ![b] =
                    [t.buckets[b] EXCEPT !.count = @ - 1,
                                         !.hh_head = IF @ = o THEN after ELSE @]]]
      /\ r.hh = [x \in Obj |->
                   [h[x] EXCEPT !.hh_next = IF x = before THEN after ELSE @,
                                !.hh_prev = IF x = after THEN before ELSE @]]
  BY DEF DEL_IN_BKT
<1> HIDE DEF b, r
<1>7. before = At(ch[b], p - 1) /\ after = At(ch[b], p + 1)
  <2>1. Links(h, "hh_next")[o] = At(ch[b], p + 1) /\ Links(h, "hh_prev")[o] = At(ch[b], p - 1)
    BY <1>1, <1>4, <1>5 DEF Listed
  <2> QED
    BY <1>2, <2>1, LinksAre
<1>8. before \in Obj \cup {NULL} /\ after \in Obj \cup {NULL}
  BY <1>1, <1>3, <1>7 DEF At
<1> HIDE DEF before, after
<1>9. /\ r.hh \in [Obj -> UT_hash_handle] /\ Alike(r.hh, h)
      /\ \A x \in Obj :
           /\ r.hh[x].hh_next = IF x = before THEN after ELSE h[x].hh_next
           /\ r.hh[x].hh_prev = IF x = after THEN before ELSE h[x].hh_prev
  <2>1. \A x \in Obj :
          /\ r.hh[x] \in UT_hash_handle
          /\ r.hh[x].hh_next = IF x = before THEN after ELSE h[x].hh_next
          /\ r.hh[x].hh_prev = IF x = after THEN before ELSE h[x].hh_prev
          /\ r.hh[x].key = h[x].key
          /\ r.hh[x].next = h[x].next /\ r.hh[x].prev = h[x].prev
    <3> SUFFICES ASSUME NEW x \in Obj
                 PROVE  /\ r.hh[x] \in UT_hash_handle
                        /\ r.hh[x].hh_next = IF x = before THEN after ELSE h[x].hh_next
                        /\ r.hh[x].hh_prev = IF x = after THEN before ELSE h[x].hh_prev
                        /\ r.hh[x].key = h[x].key
                        /\ r.hh[x].next = h[x].next /\ r.hh[x].prev = h[x].prev
      OBVIOUS
    <3>1. PICK y, z : /\ y = IF x = before THEN after ELSE h[x].hh_next
                      /\ z = IF x = after THEN before ELSE h[x].hh_prev
      OBVIOUS
    <3>2. h[x] \in UT_hash_handle
      OBVIOUS
    <3>3. y \in Obj \cup {NULL} /\ z \in Obj \cup {NULL}
      BY <1>8, <3>1, <3>2 DEF UT_hash_handle
    <3>4. r.hh[x] = [h[x] EXCEPT !.hh_next = y, !.hh_prev = z]
      BY <1>6, <3>1
    <3>5. /\ r.hh[x] \in UT_hash_handle /\ r.hh[x].hh_next = y /\ r.hh[x].hh_prev = z
          /\ r.hh[x].key = h[x].key
          /\ r.hh[x].next = h[x].next /\ r.hh[x].prev = h[x].prev
      BY <3>2, <3>3, <3>4 DEF UT_hash_handle
    <3> QED
      BY <3>1, <3>5
  <2>2. r.hh = [x \in Obj |-> r.hh[x]]
    BY <1>6
  <2>3. r.hh \in [Obj -> UT_hash_handle]
    BY <2>1, <2>2
  <2> QED
    BY <2>1, <2>3 DEF Alike
<1>10. PICK q : q = [t.buckets[b] EXCEPT !.count = @ - 1,
                                         !.hh_head = IF @ = o THEN after ELSE @]
  OBVIOUS
<1>11. t.buckets[b] \in UT_hash_bucket /\ Len(ch[b]) \in Nat \ {0}
  BY <1>1, <1>2, <1>3, <1>5
<1>12. /\ q \in UT_hash_bucket /\ q.count = Len(ch[b]) - 1
       /\ q.hh_head = IF t.buckets[b].hh_head = o THEN after ELSE t.buckets[b].hh_head
  <2>1. t.buckets[b].count = Len(ch[b])
    BY <1>1, <1>4
  <2> QED
    <3>1. PICK u, v : u = t.buckets[b] /\ v = IF u.hh_head = o THEN after ELSE u.hh_head
      OBVIOUS
    <3>2. q = [u EXCEPT !.count = u.count - 1, !.hh_head = v]
      BY <1>10, <3>1
    <3>3. u \in UT_hash_bucket /\ v \in Obj \cup {NULL} /\ u.count = Len(ch[b])
          /\ u.count - 1 \in Nat
      BY <1>8, <1>11, <2>1, <3>1 DEF UT_hash_bucket
    <3> HIDE DEF N
    <3>4. q \in UT_hash_bucket /\ q.count = u.count - 1 /\ q.hh_head = v
      BY <3>2, <3>3 DEF UT_hash_bucket
    <3> QED
      BY <3>1, <3>3, <3>4
<1>13. /\ r.tbl \in UT_hash_table(N) /\ r.tbl.num_buckets = N
       /\ r.tbl.tail = t.tail /\ r.tbl.num_items = t.num_items
       /\ r.tbl.buckets = [t.buckets EXCEPT ![b] = q]
  <2>1. r.tbl = [t EXCEPT !.buckets = [t.buckets EXCEPT ![b] = q]]
    <3>1. r.tbl = [t EXCEPT !.buckets = [@ EXCEPT ![b] = q]]
      BY <1>6, <1>10
    <3> QED
      BY <3>1
  <2>2. [t.buckets EXCEPT ![b] = q] \in [0..(N - 1) -> UT_hash_bucket]
    BY <1>2, <1>12
  <2>3. PICK B : B = [t.buckets EXCEPT ![b] = q]
    OBVIOUS
  <2>4. r.tbl = [t EXCEPT !.buckets = B] /\ B \in [0..(N - 1) -> UT_hash_bucket]
    BY <2>1, <2>2, <2>3
  <2>5. /\ r.tbl \in UT_hash_table(N) /\ r.tbl.num_buckets = N /\ r.tbl.buckets = B
        /\ r.tbl.tail = t.tail /\ r.tbl.num_items = t.num_items
    BY <2>4 DEF UT_hash_table
  <2> QED
    BY <2>3, <2>5
<1>14. /\ \A c \in 0..(N - 1) : /\ r.tbl.buckets[c].hh_head =
                                      IF c = b THEN q.hh_head ELSE t.buckets[c].hh_head
                                /\ r.tbl.buckets[c].count =
                                      IF c = b THEN q.count ELSE t.buckets[c].count
       /\ r.tbl.buckets \in [0..(N - 1) -> UT_hash_bucket]
  BY <1>2, <1>12, <1>13
<1> HIDE DEF N
<1>15. PICK less : less = RemoveAt(ch[b], p)
  OBVIOUS
<1>16. \A c \in 0..(N - 1) : ch2[c] = IF c = b THEN less ELSE ch[c]
  BY <1>1, <1>2, <1>15
<1>17. \A i, j \in DOMAIN ch[b] : ch[b][i] = ch[b][j] => i = j
  BY <1>1, <1>4 DEF Listed
<1>18. /\ less \in Seq(S) /\ Len(less) = Len(ch[b]) - 1
       /\ Range(less) = Range(ch[b]) \ {o}
  <2>1. ch[b] \in Seq(S)
    BY <1>1, <1>3
  <2>2. /\ RemoveAt(ch[b], p) \in Seq(S)
        /\ Len(RemoveAt(ch[b], p)) = Len(ch[b]) - 1
    BY <2>1, RemovedIs
  <2>3. Range(RemoveAt(ch[b], p)) = Range(ch[b]) \ {ch[b][p]}
    BY <1>17, <2>1, RemovedElements
  <2> QED
    BY <1>5, <1>15, <2>2, <2>3
<1>19. ASSUME NEW c \in 0..(N - 1), c # b PROVE \A i \in DOMAIN ch[c] : ch[c][i] # o
  BY <1>1, <1>4, <1>19
<1>20. ch2 \in [0..(N - 1) -> Seq(T)]
  <2>1. ASSUME NEW list \in Seq(S), \A i \in DOMAIN list : list[i] # o PROVE list \in Seq(T)
    <3>1. \A i \in 1..Len(list) : list[i] \in T
      BY <2>1
    <3>2. list = [i \in 1..Len(list) |-> list[i]] /\ Len(list) \in Nat
      OBVIOUS
    <3> HIDE DEF T
    <3>3. [i \in 1..Len(list) |-> list[i]] \in [1..Len(list) -> T]
      BY <3>1
    <3> QED
      BY <3>2, <3>3
  <2>2. \A i \in DOMAIN less : less[i] # o
    BY <1>18 DEF Range
  <2>3. \A c \in 0..(N - 1) : ch2[c] \in Seq(T)
    <3>1. less \in Seq(T)
      BY <1>18, <2>1, <2>2
    <3>2. ASSUME NEW c \in 0..(N - 1), c # b PROVE ch[c] \in Seq(T)
      BY <1>3, <1>19, <2>1, <3>2
    <3> QED
      BY <1>16, <3>1, <3>2
  <2>4. DOMAIN ch2 = 0..(N - 1) /\ ch2 = [c \in DOMAIN ch2 |-> ch2[c]]
    BY <1>2
  <2> HIDE DEF ch2, T
  <2> QED
    BY <2>3, <2>4
<1>21. Listed(ch2[b], r.tbl.buckets[b].hh_head, Links(r.hh, "hh_next"), Links(r.hh, "hh_prev"))
  <2> DEFINE next == Links(h, "hh_next")
             prev == Links(h, "hh_prev")
             next2 == Links(r.hh, "hh_next")
             prev2 == Links(r.hh, "hh_prev")
             list == ch[b]
             first == t.buckets[b].hh_head
  <2>1. /\ list \in Seq(Obj) /\ Len(list) \in Nat /\ DOMAIN list = 1..Len(list)
        /\ p \in 1..Len(list) /\ \A i \in DOMAIN list : list[i] \in Obj /\ list[i] # NULL
    BY <1>1, <1>3
  <2>2. Listed(list, first, next, prev)
    BY <1>1, <1>4
  <2>3. \A x \in Obj : /\ next[x] = h[x].hh_next /\ prev[x] = h[x].hh_prev
                       /\ next2[x] = r.hh[x].hh_next /\ prev2[x] = r.hh[x].hh_prev
    BY LinksAre
  <2> HIDE DEF list, next, prev, next2, prev2, first
  <2>4. before = At(list, p - 1) /\ after = At(list, p + 1)
    BY <1>7 DEF list
  <2>5. \A i, j \in DOMAIN list : list[i] = list[j] => i = j
    BY <1>17 DEF list
  <2>6. \A i \in DOMAIN list : /\ list[i] = before <=> i = p - 1
                               /\ list[i] = after <=> i = p + 1
    BY <2>1, <2>4, <2>5 DEF At
  <2>7. \A i \in DOMAIN list \ {p} :
          /\ next2[list[i]] = IF i = p - 1 THEN At(list, p + 1) ELSE next[list[i]]
          /\ prev2[list[i]] = IF i = p + 1 THEN At(list, p - 1) ELSE prev[list[i]]
    BY <1>9, <2>1, <2>3, <2>4, <2>6
  <2>8. Listed(RemoveAt(list, p), IF p = 1 THEN At(list, 2) ELSE first, next2, prev2)
    <3>1. list \in Seq(Obj) /\ p \in DOMAIN list
      BY <2>1
    <3> QED
      BY <2>2, <2>7, <3>1, ListRemove, SMTT(30)
  <2>9. r.tbl.buckets[b].hh_head = IF p = 1 THEN At(list, 2) ELSE first
    <3>1. first = At(list, 1) /\ 1 \in DOMAIN list
      BY <2>1, <2>2 DEF Listed
    <3>2. first = o <=> p = 1
      BY <1>5, <2>1, <2>5, <3>1 DEF At, list
    <3>3. r.tbl.buckets[b].hh_head = IF first = o THEN after ELSE first
      BY <1>1, <1>12, <1>14 DEF first
    <3> QED
      BY <2>4, <3>2, <3>3
  <2>10. ch2[b] = RemoveAt(list, p)
    BY <1>1, <1>15, <1>16 DEF list
  <2> QED
    BY <2>8, <2>9, <2>10 DEF next2, prev2
<1>22. ASSUME NEW c \in 0..(N - 1), c # b
       PROVE  Listed(ch2[c], r.tbl.buckets[c].hh_head,
                     Links(r.hh, "hh_next"), Links(r.hh, "hh_prev"))
  <2>1. \A y \in {before, after} : y = NULL \/ \E j \in DOMAIN ch[b] : y = ch[b][j]
    BY <1>7 DEF At
  <2>2. ASSUME NEW i \in DOMAIN ch[c] PROVE ch[c][i] # before /\ ch[c][i] # after
    <3>1. ch[c][i] # NULL /\ \A j \in DOMAIN ch[b] : ch[c][i] # ch[b][j]
      BY <1>1, <1>3, <1>4, <1>22
    <3> QED
      BY <2>1, <3>1
  <2>3. \A i \in DOMAIN ch[c] :
          /\ Links(r.hh, "hh_next")[ch[c][i]] = Links(h, "hh_next")[ch[c][i]]
          /\ Links(r.hh, "hh_prev")[ch[c][i]] = Links(h, "hh_prev")[ch[c][i]]
    BY <1>3, <1>9, <2>2, LinksAre
  <2>4. Listed(ch[c], t.buckets[c].hh_head, Links(h, "hh_next"), Links(h, "hh_prev"))
    BY <1>4
  <2>5. ch2[c] = ch[c] /\ r.tbl.buckets[c].hh_head = t.buckets[c].hh_head
    BY <1>14, <1>16, <1>22
  <2> QED
    BY <2>3, <2>4, <2>5 DEF Listed
<1>23. \A c \in 0..(N - 1) :
         Listed(ch2[c], r.tbl.buckets[c].hh_head, Links(r.hh, "hh_next"), Links(r.hh, "hh_prev"))
  BY <1>21, <1>22
<1>24. ASSUME NEW c \in 0..(N - 1)
       PROVE  /\ r.tbl.buckets[c].count = Len(ch2[c])
              /\ Range(ch2[c]) = Range(ch[c]) \ {o}
  <2>1. CASE c = b
    BY <1>12, <1>14, <1>16, <1>18, <2>1
  <2>2. CASE c # b
    <3>1. o \notin Range(ch[c])
      BY <1>19, <2>2 DEF Range
    <3> QED
      BY <1>4, <1>14, <1>16, <2>2, <3>1
  <2> QED
    BY <2>1, <2>2
<1>25. \A c \in 0..(N - 1) : \A i \in DOMAIN ch2[c] : hashv[r.hh[ch2[c][i]].key] % N = c
  <2> SUFFICES ASSUME NEW c \in 0..(N - 1), NEW i \in DOMAIN ch2[c]
               PROVE  hashv[r.hh[ch2[c][i]].key] % N = c
    OBVIOUS
  <2>1. ch2[c][i] \in Range(ch[c])
    <3>1. ch2[c][i] \in Range(ch2[c])
      BY DEF Range
    <3> QED
      BY <1>24, <3>1
  <2>2. PICK j \in DOMAIN ch[c] : ch2[c][i] = ch[c][j]
    BY <2>1 DEF Range
  <2>3. r.hh[ch[c][j]].key = h[ch[c][j]].key
    BY <1>3, <1>9 DEF Alike
  <2> QED
    BY <1>4, <2>2, <2>3
<1>26. \A x \in T : x \in Range(ch2[hashv[r.hh[x].key] % N])
  <2> SUFFICES ASSUME NEW x \in T PROVE x \in Range(ch2[hashv[r.hh[x].key] % N])
    OBVIOUS
  <2>1. x \in S /\ x # o /\ r.hh[x].key = h[x].key /\ h[x].key \in Key
    BY <1>9 DEF Alike
  <2>2. PICK c : c = hashv[h[x].key] % N
    OBVIOUS
  <2>3. c \in 0..(N - 1)
    BY <2>1, <2>2, BucketNumber DEF N
  <2>4. x \in Range(ch[c])
    BY <2>1, <2>2 DEF Bucketed, N
  <2> QED
    BY <1>24, <2>1, <2>2, <2>3, <2>4
<1> HIDE DEF ch2, T
<1>27. Bucketed(hashv, r.tbl.buckets, r.hh, N, ch2, T)
  BY <1>14, <1>20, <1>23, <1>24, <1>25, <1>26 DEF Bucketed
<1>28. Placed(r, t, h, T)
  BY <1>2, <1>9, <1>13, <1>27 DEF Placed, N
<1> QED
  BY <1>28 DEF r, b, T, N

----------------------------------------------------------------------------
(* The macros keep the shape of a table *)

\* The list is that which following the links makes, too.
LEMMA ListIs ==
  ASSUME NEW order \in Seq(Obj), NEW first, NEW h, NEW prev,
         Listed(order, first, Links(h, "next"), prev)
  PROVE  Walk(Links(h, "next"), first) = order
<1> DEFINE next == Links(h, "next")
<1>1. next[NULL] = NULL
  BY LinksAre
<1>2. /\ \A i, j \in DOMAIN order : order[i] = order[j] => i = j
      /\ \A i \in DOMAIN order : next[order[i]] = At(order, i + 1)
      /\ first = At(order, 1)
  BY DEF Listed
<1> HIDE DEF next
<1>3. Walk(next, At(order, 1)) = order
  BY <1>1, <1>2, WalkIs
<1> QED
  BY <1>2, <1>3 DEF next

LEMMA ShapeIs ==
  ASSUME NEW order, NEW ch, Shape(order, ch)
  PROVE  TableInv /\ Order = order
<1>1. Order = order
  BY ListIs DEF Shape, Order
<1>2. Range(order) \in SUBSET Obj
  BY DEF Shape, Range
<1>3. [b \in DOMAIN tbl.buckets |-> Chain(tbl, hh, b)] = ch
  <2>1. /\ Bucketed(hashv, tbl.buckets, hh, tbl.num_buckets, ch, Range(order))
        /\ tbl.num_buckets \in Nat
    BY DEF Shape
  <2>2. PICK B, n, S : B = tbl.buckets /\ n = tbl.num_buckets /\ S = Range(order)
    OBVIOUS
  <2>3. Bucketed(hashv, B, hh, n, ch, S) /\ n \in Nat /\ S \in SUBSET Obj
    BY <1>2, <2>1, <2>2
  <2>4. Chained(B, hh, n, ch)
    BY <2>3, ChainsAre
  <2>5. [b \in DOMAIN tbl.buckets |-> Chain(tbl, hh, b)] = ch
    BY <2>2, <2>4 DEF Chain, Chained
  <2> QED
    BY <2>5
<1> QED
  BY <1>1, <1>3 DEF TableInv

LEMMA NextShapeIs ==
  ASSUME NEW order, NEW ch, Shape(order, ch)'
  PROVE  TableInv' /\ Order' = order
<1>1. Order' = order
  BY ListIs DEF Shape, Order
<1>2. Range(order) \in SUBSET Obj
  BY DEF Shape, Range
<1>3. [b \in DOMAIN tbl.buckets |-> Chain(tbl, hh, b)]' = ch
  <2>1. /\ Bucketed(hashv', tbl'.buckets, hh', tbl'.num_buckets, ch, Range(order))
        /\ tbl'.num_buckets \in Nat
    BY DEF Shape
  <2>2. PICK B, n, S : B = tbl'.buckets /\ n = tbl'.num_buckets /\ S = Range(order)
    OBVIOUS
  <2>3. Bucketed(hashv', B, hh', n, ch, S) /\ n \in Nat /\ S \in SUBSET Obj
    BY <1>2, <2>1, <2>2
  <2>4. Chained(B, hh', n, ch)
    BY <2>3, ChainsAre
  <2>5. [b \in DOMAIN tbl'.buckets |-> Chain(tbl', hh', b)] = ch
    BY <2>2, <2>4 DEF Chain, Chained
  <2> QED
    BY <2>5
<1> QED
  BY <1>1, <1>3 DEF TableInv

\* What there is when there is no table.
LEMMA NoTableIs ==
  /\ NoTable.num_buckets = 0 /\ NoTable \in UT_hash_table(0)
  /\ NoTable.buckets = EmptyBuckets(0)
  /\ NoTable.tail = NULL /\ NoTable.num_items = 0
<1>1. EmptyBuckets(0) \in [0..(0 - 1) -> UT_hash_bucket]
  BY DEF EmptyBuckets
<1>2. PICK e : e = EmptyBuckets(0)
  OBVIOUS
<1> QED
  BY <1>1, <1>2 DEF NoTable, UT_hash_table

LEMMA EmptyList ==
  /\ Range(<<>>) = {} /\ <<>> \in Seq(Obj) /\ Len(<<>>) = 0 /\ At(<<>>, 0) = NULL
  /\ \A h : Listed(<<>>, NULL, Links(h, "next"), Links(h, "prev"))
BY DEF Range, At, Listed

LEMMA InitShape == Init => TableInv
<1> SUFFICES ASSUME Init PROVE TableInv
  OBVIOUS
<1> DEFINE ch == [b \in 0..(0 - 1) |-> <<>>]
<1>1. /\ hashv \in [Key -> HashValue] /\ head = NULL
      /\ tbl = NoTable /\ hh = [o \in Obj |-> Unlinked]
  BY DEF Init
<1>2. hh \in [Obj -> UT_hash_handle]
  BY <1>1 DEF Unlinked, UT_hash_handle
<1>3. Bucketed(hashv, EmptyBuckets(0), hh, 0, ch, {})
  BY EmptyIs
<1> HIDE DEF ch
<1>4. PICK none : none = <<>>
  OBVIOUS
<1>5. Bucketed(hashv, tbl.buckets, hh, tbl.num_buckets, ch, Range(none))
  BY <1>1, <1>3, <1>4, NoTableIs, EmptyList
<1>6. /\ tbl.num_buckets \in Nat /\ tbl \in UT_hash_table(tbl.num_buckets)
      /\ \A o \in Range(none) : hh[o].key \in Key
      /\ none \in Seq(Obj) /\ Listed(none, head, Links(hh, "next"), Links(hh, "prev"))
      /\ tbl.tail = At(none, Len(none)) /\ tbl.num_items = Len(none)
  BY <1>1, <1>4, NoTableIs, EmptyList
<1>7. Shape(none, ch)
  BY <1>1, <1>2, <1>5, <1>6 DEF Shape
<1> QED
  BY <1>7, ShapeIs

LEMMA AddStep ==
  ASSUME TableInv, NEW o \in Obj, NEW k \in Key, Add(o, k)
  PROVE  /\ TableInv' /\ o \notin Range(Order) /\ Order' = Append(Order, o)
         /\ \A x \in Obj : hh'[x].key = IF x = o THEN k ELSE hh[x].key
<1> DEFINE alone == head = NULL
           t0 == IF alone THEN [NoTable EXCEPT !.tail = o,
                                  !.num_buckets = INITIAL_BUCKETS,
                                  !.buckets = EmptyBuckets(INITIAL_BUCKETS)]
                          ELSE [tbl EXCEPT !.tail = o]
           t == [t0 EXCEPT !.num_items = @ + 1]
           linked == [x \in Obj |->
             IF x = o THEN [hh[o] EXCEPT !.key = k, !.next = NULL, !.prev = tbl.tail]
             ELSE [hh[x] EXCEPT !.next = IF x = tbl.tail THEN o ELSE @]]
           added == ADD_TO_BKT(t, linked, HASH_TO_BKT(k, t0.num_buckets), o)
<1>1. /\ o \notin Range(Order) /\ head' = (IF alone THEN o ELSE head)
      /\ tbl' = added.tbl /\ hh' = added.hh /\ hashv' = hashv
  BY DEF Add
<1> HIDE DEF added
<1>2. PICK order, ch : order = Order /\ Shape(order, ch)
  BY DEF TableInv
<1> DEFINE S == Range(order)
<1>3. /\ hashv \in [Key -> HashValue] /\ hh \in [Obj -> UT_hash_handle]
      /\ tbl.num_buckets \in Nat /\ tbl \in UT_hash_table(tbl.num_buckets)
      /\ order \in Seq(Obj) /\ Listed(order, head, Links(hh, "next"), Links(hh, "prev"))
      /\ \A x \in S : hh[x].key \in Key
      /\ tbl.tail = At(order, Len(order)) /\ tbl.num_items = Len(order)
      /\ Bucketed(hashv, tbl.buckets, hh, tbl.num_buckets, ch, S)
      /\ ~alone => tbl.num_buckets # 0
  BY <1>2 DEF Shape
<1>4. /\ Len(order) \in Nat /\ DOMAIN order = 1..Len(order) /\ S \in SUBSET Obj
      /\ \A i \in DOMAIN order : order[i] \in S /\ order[i] # o /\ order[i] # NULL
  BY <1>1, <1>2, <1>3, UthashData DEF Range
<1>5. alone <=> order = <<>>
  BY <1>3, <1>4 DEF Listed, At
<1>6. tbl.tail \in Obj \cup {NULL} /\ o # NULL
  BY <1>3, UthashData DEF UT_hash_table
<1>7. /\ linked \in [Obj -> UT_hash_handle]
      /\ \A x \in Obj :
           /\ linked[x].key = IF x = o THEN k ELSE hh[x].key
           /\ linked[x].next = IF x = o THEN NULL
                               ELSE IF x = tbl.tail THEN o ELSE hh[x].next
           /\ linked[x].prev = IF x = o THEN tbl.tail ELSE hh[x].prev
           /\ linked[x].hh_next = hh[x].hh_next /\ linked[x].hh_prev = hh[x].hh_prev
  <2>1. ASSUME NEW x \in Obj
        PROVE  /\ linked[x] \in UT_hash_handle
               /\ linked[x].key = IF x = o THEN k ELSE hh[x].key
               /\ linked[x].next = IF x = o THEN NULL
                                   ELSE IF x = tbl.tail THEN o ELSE hh[x].next
               /\ linked[x].prev = IF x = o THEN tbl.tail ELSE hh[x].prev
               /\ linked[x].hh_next = hh[x].hh_next /\ linked[x].hh_prev = hh[x].hh_prev
    <3>1. hh[x] \in UT_hash_handle
      BY <1>3
    <3>2. PICK g : g = hh[x]
      OBVIOUS
    <3>3. PICK y : y = tbl.tail
      OBVIOUS
    <3>4. CASE x = o
      <4>1. linked[x] = [g EXCEPT !.key = k, !.next = NULL, !.prev = y]
        BY <3>2, <3>3, <3>4
      <4> HIDE DEF linked
      <4> QED
        BY <1>6, <3>1, <3>2, <3>3, <3>4, <4>1 DEF UT_hash_handle
    <3>5. CASE x # o
      <4>1. PICK z : z = IF x = y THEN o ELSE g.next
        OBVIOUS
      <4>2. linked[x] = [g EXCEPT !.next = z]
        BY <3>2, <3>3, <3>5, <4>1
      <4> HIDE DEF linked
      <4>3. z \in Obj \cup {NULL}
        BY <3>1, <3>2, <4>1 DEF UT_hash_handle
      <4> QED
        BY <3>1, <3>2, <3>3, <3>5, <4>1, <4>2, <4>3 DEF UT_hash_handle
    <3> QED
      BY <3>4, <3>5
  <2>2. linked = [x \in Obj |-> linked[x]]
    OBVIOUS
  <2> HIDE DEF linked
  <2> QED
    BY <2>1, <2>2
<1> HIDE DEF linked
<1>8. /\ t.num_buckets \in Nat \ {0} /\ t \in UT_hash_table(t.num_buckets)
      /\ t.tail = o /\ t.num_items = Len(order) + 1 /\ t0.num_buckets = t.num_buckets
      /\ \E c : Bucketed(hashv, t.buckets, linked, t.num_buckets, c, S)
  <2>1. CASE alone
    <3>1. INITIAL_BUCKETS \in Nat \ {0}
      BY UthashSizes
    <3>2. PICK N : N = INITIAL_BUCKETS
      OBVIOUS
    <3>3. PICK e : e = EmptyBuckets(N)
      OBVIOUS
    <3>4. S = {} /\ Len(order) = 0
      BY <1>5, <2>1 DEF Range
    <3>5. Bucketed(hashv, e, linked, N, [b \in 0..(N - 1) |-> <<>>], {})
      BY <3>1, <3>2, <3>3, EmptyIs
    <3>6. e \in [0..(N - 1) -> UT_hash_bucket]
      BY <3>5 DEF Bucketed
    <3>7. t = [tail |-> o, num_buckets |-> N, num_items |-> 1, ineff_expands |-> 0,
               noexpand |-> FALSE, buckets |-> e]
          /\ t0.num_buckets = N
      <4>1. t0 = [NoTable EXCEPT !.tail = o, !.num_buckets = N, !.buckets = e]
        BY <2>1, <3>2, <3>3
      <4> HIDE DEF t0
      <4>2. t0 = [tail |-> o, num_buckets |-> N, num_items |-> 0, ineff_expands |-> 0,
                  noexpand |-> FALSE, buckets |-> e]
        BY <4>1 DEF NoTable
      <4>3. t0.num_items + 1 = 1
        BY <4>2
      <4>4. t = [t0 EXCEPT !.num_items = 1]
        BY <4>3
      <4> HIDE DEF t
      <4> QED
        BY <4>2, <4>4
    <3> HIDE DEF t, t0, S
    <3>8. /\ t.num_buckets = N /\ t \in UT_hash_table(N) /\ t.tail = o
          /\ t.num_items = 1 /\ t.buckets = e
      BY <3>6, <3>7 DEF UT_hash_table
    <3> QED
      BY <3>1, <3>2, <3>4, <3>5, <3>7, <3>8
  <2>2. CASE ~alone
    <3>1. PICK N : N = tbl.num_buckets
      OBVIOUS
    <3>2. PICK m : m = tbl.num_items + 1
      OBVIOUS
    <3>3. t = [tbl EXCEPT !.tail = o, !.num_items = m] /\ t0.num_buckets = N
      BY <1>3, <2>2, <3>1, <3>2 DEF UT_hash_table
    <3>4. N \in Nat \ {0} /\ tbl \in UT_hash_table(N) /\ m = Len(order) + 1 /\ m \in Nat
      BY <1>3, <1>4, <2>2, <3>1, <3>2
    <3> HIDE DEF t, t0, S
    <3>5. /\ t.num_buckets = N /\ t \in UT_hash_table(N) /\ t.tail = o
          /\ t.num_items = m /\ t.buckets = tbl.buckets
      BY <3>3, <3>4 DEF UT_hash_table
    <3>6. \A x \in S : /\ linked[x].hh_next = hh[x].hh_next
                       /\ linked[x].hh_prev = hh[x].hh_prev /\ linked[x].key = hh[x].key
      BY <1>1, <1>2, <1>4, <1>7 DEF S
    <3>7. tbl.buckets \in [0..(N - 1) -> UT_hash_bucket]
      BY <1>3, <3>1 DEF Bucketed
    <3>8. Bucketed(hashv, tbl.buckets, hh, N, ch, S)
      BY <1>3, <3>1
    <3>9. Bucketed(hashv, tbl.buckets, linked, N, ch, S)
      BY <1>4, <3>4, <3>6, <3>7, <3>8, ChainsOnly
    <3> QED
      BY <3>3, <3>4, <3>5, <3>9
  <2> QED
    BY <2>1, <2>2
<1> HIDE DEF t, t0
<1>9. Placed(added, t, linked, S \cup {o})
  <2>1. o \in Obj \ S /\ linked[o].key = k
    BY <1>1, <1>2, <1>7
  <2>2. \A x \in S : linked[x].key \in Key
    BY <1>3, <1>4, <1>7
  <2>3. PICK c : Bucketed(hashv, t.buckets, linked, t.num_buckets, c, S)
    BY <1>8
  <2> HIDE DEF S
  <2>4. Placed(ADD_TO_BKT(t, linked, HASH_TO_BKT(linked[o].key, t.num_buckets), o),
               t, linked, S \cup {o})
    BY <1>3, <1>4, <1>7, <1>8, <2>1, <2>2, <2>3, AddToBucket
  <2> QED
    BY <1>8, <2>1, <2>4 DEF added
<1>10. /\ added.tbl.num_buckets \in Nat \ {0}
       /\ added.tbl \in UT_hash_table(added.tbl.num_buckets)
       /\ added.tbl.tail = o /\ added.tbl.num_items = Len(order) + 1
       /\ added.hh \in [Obj -> UT_hash_handle]
       /\ \A x \in Obj : /\ added.hh[x].key = linked[x].key
                         /\ added.hh[x].next = linked[x].next
                         /\ added.hh[x].prev = linked[x].prev
  BY <1>8, <1>9 DEF Placed, Alike
<1>11. PICK c : Bucketed(hashv, added.tbl.buckets, added.hh, added.tbl.num_buckets,
                         c, S \cup {o})
  BY <1>9 DEF Placed
<1> DEFINE longer == Append(order, o)
<1>12. Listed(longer, head', Links(hh', "next"), Links(hh', "prev"))
  <2> DEFINE next == Links(hh, "next")
             prev == Links(hh, "prev")
             next2 == Links(hh', "next")
             prev2 == Links(hh', "prev")
  <2>1. \A x \in Obj : /\ next[x] = hh[x].next /\ prev[x] = hh[x].prev
                       /\ next2[x] = hh'[x].next /\ prev2[x] = hh'[x].prev
    BY LinksAre
  <2>2. Listed(order, head, next, prev)
    BY <1>3
  <2> HIDE DEF next, prev, next2, prev2
  <2>3. next2[o] = NULL /\ prev2[o] = At(order, Len(order))
    BY <1>1, <1>3, <1>7, <1>10, <2>1
  <2>4. ASSUME NEW i \in DOMAIN order
        PROVE  /\ next2[order[i]] = IF i = Len(order) THEN o ELSE next[order[i]]
               /\ prev2[order[i]] = prev[order[i]]
    <3>1. order[i] \in Obj /\ order[i] # o
      BY <1>4
    <3>2. order[i] = tbl.tail <=> i = Len(order)
      BY <1>3, <1>4, <2>2 DEF Listed, At
    <3> QED
      BY <1>1, <1>7, <1>10, <2>1, <3>1, <3>2
  <2>5. \A i \in DOMAIN order : order[i] # o
    BY <1>4
  <2>6. Listed(longer, IF order = <<>> THEN o ELSE head, next2, prev2)
    <3> HIDE DEF S
    <3> QED
      BY <1>3, <2>2, <2>3, <2>4, <2>5, ListAppend, SMTT(30)
  <2>7. head' = IF order = <<>> THEN o ELSE head
    BY <1>1, <1>5
  <2> QED
    BY <2>6, <2>7 DEF next2, prev2
<1>13. /\ longer \in Seq(Obj) /\ Len(longer) = Len(order) + 1
       /\ longer[Len(longer)] = o /\ Len(longer) \in DOMAIN longer
       /\ Range(longer) = S \cup {o}
  <2>1. longer \in Seq(Obj) /\ Len(longer) = Len(order) + 1
        /\ longer[Len(longer)] = o /\ DOMAIN longer = 1..(Len(order) + 1)
    BY <1>3
  <2>2. Range(longer) = S \cup {o}
    BY <1>3, AppendedElements
  <2> QED
    BY <1>4, <2>1, <2>2
<1> HIDE DEF longer, S
<1>14. head' # NULL
  BY <1>1, <1>6
<1>15. \A x \in Range(longer) : hh'[x].key \in Key
  BY <1>1, <1>3, <1>4, <1>7, <1>10, <1>13
<1>16. Shape(longer, c)'
  BY <1>1, <1>3, <1>10, <1>11, <1>12, <1>13, <1>14, <1>15 DEF Shape, At
<1>17. TableInv' /\ Order' = longer
  BY <1>16, NextShapeIs
<1> QED
  BY <1>1, <1>2, <1>7, <1>10, <1>17 DEF longer

LEMMA DeleteStep ==
  ASSUME TableInv, NEW o \in Obj, Delete(o)
  PROVE  /\ TableInv'
         /\ \E p \in DOMAIN Order : Order[p] = o /\ Order' = RemoveAt(Order, p)
         /\ \A x \in Obj : hh'[x].key = IF x = o THEN NULL ELSE hh[x].key
<1> DEFINE before == hh[o].prev
           after == hh[o].next
           t == [tbl EXCEPT !.tail = IF @ = o THEN before ELSE @,
                            !.num_items = @ - 1]
           linked == [x \in Obj |->
             [hh[x] EXCEPT !.next = IF x = before THEN after ELSE @,
                           !.prev = IF x = after THEN before ELSE @]]
           removed == DEL_IN_BKT(t, linked, HASH_TO_BKT(hh[o].key, tbl.num_buckets), o)
<1>1. /\ o \in Range(Order) /\ hashv' = hashv
      /\ head' = IF before = NULL THEN after ELSE head
      /\ IF before = NULL /\ after = NULL
           THEN tbl' = NoTable /\ hh' = [hh EXCEPT ![o] = Unlinked]
           ELSE tbl' = removed.tbl /\ hh' = [removed.hh EXCEPT ![o] = Unlinked]
  BY DEF Delete, HeadWithout
<1> HIDE DEF removed
<1>2. PICK order, ch : order = Order /\ Shape(order, ch)
  BY DEF TableInv
<1> DEFINE S == Range(order)
<1>3. /\ hashv \in [Key -> HashValue] /\ hh \in [Obj -> UT_hash_handle]
      /\ tbl.num_buckets \in Nat /\ tbl \in UT_hash_table(tbl.num_buckets)
      /\ order \in Seq(Obj) /\ Listed(order, head, Links(hh, "next"), Links(hh, "prev"))
      /\ \A x \in S : hh[x].key \in Key
      /\ tbl.tail = At(order, Len(order)) /\ tbl.num_items = Len(order)
      /\ Bucketed(hashv, tbl.buckets, hh, tbl.num_buckets, ch, S)
      /\ head # NULL => tbl.num_buckets # 0
  BY <1>2 DEF Shape
<1>4. /\ Len(order) \in Nat /\ DOMAIN order = 1..Len(order) /\ S \in SUBSET Obj
      /\ \A i \in DOMAIN order : order[i] \in S /\ order[i] \in Obj /\ order[i] # NULL
  BY <1>3, UthashData DEF Range
<1>5. PICK p \in DOMAIN order : order[p] = o
  BY <1>1, <1>2 DEF Range
<1> DEFINE less == RemoveAt(order, p)
<1>6. /\ \A i, j \in DOMAIN order : order[i] = order[j] => i = j
      /\ head = At(order, 1)
      /\ before = At(order, p - 1) /\ after = At(order, p + 1)
  <2>1. Links(hh, "next")[o] = At(order, p + 1) /\ Links(hh, "prev")[o] = At(order, p - 1)
    BY <1>3, <1>5 DEF Listed
  <2> QED
    BY <1>3, <2>1, LinksAre DEF Listed
<1> HIDE DEF before, after
<1>7. /\ p \in 1..Len(order) /\ before \in Obj \cup {NULL} /\ after \in Obj \cup {NULL}
      /\ before = NULL <=> p = 1
      /\ after = NULL <=> p = Len(order)
      /\ \A i \in DOMAIN order : /\ order[i] = before <=> i = p - 1
                                 /\ order[i] = after <=> i = p + 1
  BY <1>4, <1>5, <1>6 DEF At
<1>8. /\ less \in Seq(Obj) /\ Len(less) = Len(order) - 1
      /\ \A i \in 1..(Len(order) - 1) : less[i] = IF i < p THEN order[i] ELSE order[i + 1]
      /\ DOMAIN less = 1..(Len(order) - 1) /\ Range(less) = S \ {o}
  <2>1. /\ RemoveAt(order, p) \in Seq(Obj) /\ Len(RemoveAt(order, p)) = Len(order) - 1
        /\ DOMAIN RemoveAt(order, p) = 1..(Len(order) - 1)
        /\ \A i \in 1..(Len(order) - 1) :
             RemoveAt(order, p)[i] = IF i < p THEN order[i] ELSE order[i + 1]
    BY <1>3, RemovedIs
  <2>2. Range(RemoveAt(order, p)) = Range(order) \ {order[p]}
    BY <1>3, <1>6, RemovedElements
  <2> QED
    BY <1>5, <2>1, <2>2
<1>9. hh'[o] = Unlinked /\ hh'[o].key = NULL
  <2>1. CASE before = NULL /\ after = NULL
    BY <1>1, <1>3, <2>1 DEF Unlinked
  <2>2. CASE ~(before = NULL /\ after = NULL)
    <3>1. removed.hh = [x \in Obj |-> removed.hh[x]]
      BY DEF removed, DEL_IN_BKT
    <3>2. hh'[o] = Unlinked
      BY <1>1, <2>2, <3>1
    <3> QED
      BY <3>2 DEF Unlinked
  <2> QED
    BY <2>1, <2>2
<1>10. Unlinked \in UT_hash_handle
  BY DEF Unlinked, UT_hash_handle
<1> HIDE DEF less, S
<1>11. CASE before = NULL /\ after = NULL
  <2> DEFINE c == [b \in 0..(0 - 1) |-> <<>>]
  <2>1. Len(order) = 1 /\ p = 1
    BY <1>7, <1>11
  <2>2. less = <<>>
    BY <1>8, <2>1
  <2>3. tbl' = NoTable /\ head' = NULL /\ hh' = [hh EXCEPT ![o] = Unlinked]
    BY <1>1, <1>11
  <2>4. hh' \in [Obj -> UT_hash_handle]
    BY <1>3, <1>10, <2>3
  <2>5. Bucketed(hashv', EmptyBuckets(0), hh', 0, c, {})
    BY EmptyIs
  <2> HIDE DEF c
  <2>6. Bucketed(hashv', tbl'.buckets, hh', tbl'.num_buckets, c, Range(less))
    BY <2>2, <2>3, <2>5, NoTableIs, EmptyList
  <2>7. /\ tbl'.num_buckets \in Nat /\ tbl' \in UT_hash_table(tbl'.num_buckets)
        /\ \A x \in Range(less) : hh'[x].key \in Key
        /\ less \in Seq(Obj) /\ Listed(less, head', Links(hh', "next"), Links(hh', "prev"))
        /\ tbl'.tail = At(less, Len(less)) /\ tbl'.num_items = Len(less)
    BY <2>2, <2>3, NoTableIs, EmptyList
  <2>8. Shape(less, c)'
    BY <1>1, <1>3, <2>3, <2>4, <2>6, <2>7 DEF Shape
  <2>9. TableInv' /\ Order' = less
    BY <2>8, NextShapeIs
  <2>10. \A x \in Obj : hh'[x].key = IF x = o THEN NULL ELSE hh[x].key
    BY <1>3, <1>9, <2>3
  <2> QED
    BY <1>2, <1>5, <2>9, <2>10 DEF less
<1>12. CASE ~(before = NULL /\ after = NULL)
  <2> DEFINE N == tbl.num_buckets
  <2>1. /\ Len(order) > 1 /\ head # NULL /\ N \in Nat \ {0}
    <3>1. Len(order) > 1 /\ 1 \in DOMAIN order
      BY <1>4, <1>7, <1>12
    <3> QED
      BY <1>3, <1>4, <1>6, <3>1 DEF At
  <2>2. /\ linked \in [Obj -> UT_hash_handle]
        /\ \A x \in Obj :
             /\ linked[x].key = hh[x].key
             /\ linked[x].next = IF x = before THEN after ELSE hh[x].next
             /\ linked[x].prev = IF x = after THEN before ELSE hh[x].prev
             /\ linked[x].hh_next = hh[x].hh_next /\ linked[x].hh_prev = hh[x].hh_prev
    <3>1. ASSUME NEW x \in Obj
          PROVE  /\ linked[x] \in UT_hash_handle /\ linked[x].key = hh[x].key
                 /\ linked[x].next = IF x = before THEN after ELSE hh[x].next
                 /\ linked[x].prev = IF x = after THEN before ELSE hh[x].prev
                 /\ linked[x].hh_next = hh[x].hh_next /\ linked[x].hh_prev = hh[x].hh_prev
      <4>1. PICK g, y, z : /\ g = hh[x] /\ y = IF x = before THEN after ELSE g.next
                           /\ z = IF x = after THEN before ELSE g.prev
        OBVIOUS
      <4>2. linked[x] = [g EXCEPT !.next = y, !.prev = z]
        BY <4>1
      <4>3. g \in UT_hash_handle
        BY <1>3, <4>1
      <4>4. y \in Obj \cup {NULL} /\ z \in Obj \cup {NULL}
        BY <1>7, <4>1, <4>3 DEF UT_hash_handle
      <4> HIDE DEF linked
      <4>5. /\ linked[x] \in UT_hash_handle /\ linked[x].key = g.key
            /\ linked[x].next = y /\ linked[x].prev = z
            /\ linked[x].hh_next = g.hh_next /\ linked[x].hh_prev = g.hh_prev
        BY <4>2, <4>3, <4>4 DEF UT_hash_handle
      <4> QED
        BY <4>1, <4>5
    <3>2. linked = [x \in Obj |-> linked[x]]
      OBVIOUS
    <3> HIDE DEF linked
    <3> QED
      BY <3>1, <3>2
  <2> HIDE DEF linked
  <2>3. /\ t.num_buckets = N /\ t \in UT_hash_table(N) /\ t.buckets = tbl.buckets
        /\ t.tail = At(less, Len(less)) /\ t.num_items = Len(less)
    <3>1. PICK y, m : /\ y = IF tbl.tail = o THEN before ELSE tbl.tail
                      /\ m = tbl.num_items - 1
      OBVIOUS
    <3>2. t = [tbl EXCEPT !.tail = y, !.num_items = m]
      BY <3>1
    <3>3. tbl \in UT_hash_table(N) /\ m = Len(less) /\ m \in Nat
      BY <1>3, <1>4, <1>8, <2>1, <3>1
    <3>4. y \in Obj \cup {NULL}
      BY <1>7, <3>1, <3>3 DEF UT_hash_table
    <3>5. y = At(less, Len(less))
      <4>1. tbl.tail = order[Len(order)] /\ Len(less) = Len(order) - 1
            /\ Len(less) \in 1..(Len(order) - 1)
        BY <1>3, <1>4, <1>8, <2>1 DEF At
      <4>2. At(less, Len(less)) = IF Len(less) < p THEN order[Len(less)] ELSE order[Len(less) + 1]
        BY <1>8, <4>1 DEF At
      <4>3. CASE p = Len(order)
        <5>1. tbl.tail = o /\ p - 1 \in DOMAIN order /\ Len(less) < p /\ Len(less) = p - 1
          BY <1>4, <1>5, <4>1, <4>3
        <5> QED
          BY <1>6, <3>1, <4>2, <5>1 DEF At
      <4>4. CASE p # Len(order)
        <5>1. tbl.tail # o /\ ~(Len(less) < p) /\ Len(less) + 1 = Len(order)
          BY <1>4, <1>5, <1>6, <1>7, <4>1, <4>4
        <5> QED
          BY <3>1, <4>1, <4>2, <5>1
      <4> QED
        BY <4>3, <4>4
    <3> HIDE DEF t, N
    <3>6. /\ t.num_buckets = N /\ t \in UT_hash_table(N) /\ t.buckets = tbl.buckets
          /\ t.tail = y /\ t.num_items = m
      BY <3>2, <3>3, <3>4 DEF UT_hash_table
    <3> QED
      BY <3>3, <3>5, <3>6
  <2> HIDE DEF t
  <2>4. Bucketed(hashv, t.buckets, linked, N, ch, S)
    <3>1. PICK B : B = tbl.buckets
      OBVIOUS
    <3>2. Bucketed(hashv, B, hh, N, ch, S) /\ N \in Nat
      BY <1>3, <3>1
    <3>3. B \in [0..(N - 1) -> UT_hash_bucket]
      BY <3>2 DEF Bucketed
    <3> HIDE DEF N
    <3>4. \A x \in S : /\ linked[x].hh_next = hh[x].hh_next
                       /\ linked[x].hh_prev = hh[x].hh_prev /\ linked[x].key = hh[x].key
      BY <1>4, <2>2
    <3>5. Bucketed(hashv, B, linked, N, ch, S)
      BY <1>4, <3>2, <3>3, <3>4, ChainsOnly
    <3> QED
      BY <2>3, <3>1, <3>5
  <2>5. Placed(removed, t, linked, S \ {o})
    <3>1. o \in S /\ linked[o].key = hh[o].key
      BY <1>4, <1>5, <2>2
    <3>2. \A x \in S : linked[x].key \in Key
      BY <1>3, <1>4, <2>2
    <3>3. t.num_buckets \in Nat \ {0} /\ t \in UT_hash_table(t.num_buckets)
          /\ Bucketed(hashv, t.buckets, linked, t.num_buckets, ch, S)
      BY <2>1, <2>3, <2>4
    <3>4. Placed(DEL_IN_BKT(t, linked, HASH_TO_BKT(linked[o].key, t.num_buckets), o),
                 t, linked, S \ {o})
      BY <1>3, <1>4, <2>2, <3>1, <3>2, <3>3, RemoveFromBucket
    <3> QED
      BY <2>3, <3>1, <3>4 DEF removed
  <2> HIDE DEF N
  <2>6. /\ removed.tbl.num_buckets \in Nat \ {0}
        /\ removed.tbl \in UT_hash_table(removed.tbl.num_buckets)
        /\ removed.tbl.tail = At(less, Len(less)) /\ removed.tbl.num_items = Len(less)
        /\ removed.hh \in [Obj -> UT_hash_handle]
        /\ \A x \in Obj : /\ removed.hh[x].key = linked[x].key
                          /\ removed.hh[x].next = linked[x].next
                          /\ removed.hh[x].prev = linked[x].prev
    BY <2>3, <2>5 DEF Placed, Alike
  <2>7. PICK c : Bucketed(hashv, removed.tbl.buckets, removed.hh, removed.tbl.num_buckets,
                          c, S \ {o})
    BY <2>5 DEF Placed
  <2>8. /\ tbl' = removed.tbl /\ hh' = [removed.hh EXCEPT ![o] = Unlinked]
        /\ hh' \in [Obj -> UT_hash_handle]
        /\ \A x \in Obj \ {o} : hh'[x] = removed.hh[x]
    BY <1>1, <1>10, <1>12, <2>6
  <2>9. Bucketed(hashv', tbl'.buckets, hh', tbl'.num_buckets, c, Range(less))
    <3>1. PICK B, n, T, h, h2 : /\ B = removed.tbl.buckets /\ n = removed.tbl.num_buckets
                                /\ T = S \ {o} /\ h = removed.hh /\ h2 = hh'
      OBVIOUS
    <3>2. Bucketed(hashv, B, h, n, c, T) /\ n \in Nat /\ T \in SUBSET Obj
      BY <1>4, <2>6, <2>7, <3>1
    <3>3. B \in [0..(n - 1) -> UT_hash_bucket]
      BY <3>2 DEF Bucketed
    <3>4. \A x \in T : /\ h2[x].hh_next = h[x].hh_next
                       /\ h2[x].hh_prev = h[x].hh_prev /\ h2[x].key = h[x].key
      BY <1>4, <2>8, <3>1
    <3>5. Bucketed(hashv, B, h2, n, c, T)
      BY <3>2, <3>3, <3>4, ChainsOnly
    <3> QED
      BY <1>1, <1>8, <2>8, <3>1, <3>5
  <2>10. head' # NULL /\ Listed(less, head', Links(hh', "next"), Links(hh', "prev"))
    <3> DEFINE next == Links(hh, "next")
               prev == Links(hh, "prev")
               next2 == Links(hh', "next")
               prev2 == Links(hh', "prev")
    <3>1. \A x \in Obj : /\ next[x] = hh[x].next /\ prev[x] = hh[x].prev
                         /\ next2[x] = hh'[x].next /\ prev2[x] = hh'[x].prev
      BY LinksAre
    <3>2. Listed(order, head, next, prev)
      BY <1>3
    <3> HIDE DEF next, prev, next2, prev2
    <3>3. ASSUME NEW i \in DOMAIN order \ {p}
          PROVE  /\ next2[order[i]] = IF i = p - 1 THEN At(order, p + 1) ELSE next[order[i]]
                 /\ prev2[order[i]] = IF i = p + 1 THEN At(order, p - 1) ELSE prev[order[i]]
      <4>1. order[i] \in Obj \ {o}
        BY <1>4, <1>5, <1>6
      <4>2. /\ hh'[order[i]].next = IF i = p - 1 THEN after ELSE hh[order[i]].next
            /\ hh'[order[i]].prev = IF i = p + 1 THEN before ELSE hh[order[i]].prev
        BY <1>7, <2>2, <2>6, <2>8, <4>1
      <4> QED
        BY <1>6, <3>1, <4>1, <4>2
    <3>4. order \in Seq(Obj) /\ p \in DOMAIN order
      BY <1>3
    <3>5. Listed(RemoveAt(order, p), IF p = 1 THEN At(order, 2) ELSE head, next2, prev2)
      BY <3>2, <3>3, <3>4, ListRemove, SMTT(30)
    <3>6. head' = IF p = 1 THEN At(order, 2) ELSE head
      <4>1. p = 1 => after = At(order, 2)
        BY <1>6
      <4> QED
        BY <1>1, <1>7, <4>1
    <3>7. head' # NULL
      <4>1. 2 \in DOMAIN order
        BY <1>4, <2>1
      <4> QED
        BY <1>4, <2>1, <3>6, <4>1 DEF At
    <3> QED
      BY <3>5, <3>6, <3>7 DEF less, next2, prev2
  <2>11. \A x \in Obj : hh'[x].key = IF x = o THEN NULL ELSE hh[x].key
    BY <1>9, <2>2, <2>6, <2>8
  <2>12. \A x \in Range(less) : hh'[x].key \in Key
    BY <1>3, <1>4, <1>8, <2>11
  <2>13. Shape(less, c)'
    BY <1>1, <1>3, <1>8, <2>6, <2>8, <2>9, <2>10, <2>12 DEF Shape
  <2>14. TableInv' /\ Order' = less
    BY <2>13, NextShapeIs
  <2> QED
    BY <1>2, <1>5, <2>11, <2>14 DEF less
<1> QED
  BY <1>11, <1>12

LEMMA TableStep == TableInv /\ [Next]_hvars => TableInv'
<1> SUFFICES ASSUME TableInv, [Next]_hvars PROVE TableInv'
  OBVIOUS
<1>1. CASE Next
  <2>1. ASSUME NEW o \in Obj, Delete(o) PROVE TableInv'
    BY <2>1, DeleteStep
  <2>2. ASSUME NEW o \in Obj, NEW k \in Key, Add(o, k) PROVE TableInv'
    BY <2>2, AddStep
  <2> QED
    BY <1>1, <2>1, <2>2 DEF Next
<1>2. CASE UNCHANGED hvars
  BY <1>2 DEF hvars, TableInv, Shape, Order, Chain
<1> QED
  BY <1>1, <1>2

LEMMA TableAlways == Spec => []TableInv
<1>1. Init => TableInv
  BY InitShape
<1>2. TableInv /\ [Next]_hvars => TableInv'
  BY TableStep
<1> QED
  BY <1>1, <1>2, PTL DEF Spec

----------------------------------------------------------------------------
(* What follows from the shape of a table *)

LEMMA ShapeIsSound == TableInv => Fsck
<1> SUFFICES ASSUME TableInv, head # NULL PROVE Fsck
  BY DEF Fsck
<1>1. PICK order, ch : /\ order = Order /\ ch = [b \in DOMAIN tbl.buckets |-> Chain(tbl, hh, b)]
                       /\ Shape(order, ch)
  BY DEF TableInv
<1>2. /\ tbl.num_buckets \in Nat /\ order \in Seq(Obj)
      /\ Listed(order, head, Links(hh, "next"), Links(hh, "prev"))
      /\ tbl.tail = At(order, Len(order)) /\ tbl.num_items = Len(order)
      /\ Bucketed(hashv, tbl.buckets, hh, tbl.num_buckets, ch, Range(order))
  BY <1>1 DEF Shape
<1>3. Len(order) \in Nat /\ DOMAIN order = 1..Len(order)
      /\ \A i \in DOMAIN order : order[i] \in Obj
  BY <1>2
<1>4. order # <<>> /\ Len(order) \in DOMAIN order
  BY <1>2, <1>3 DEF Listed, At
<1>5. ASSUME NEW i \in DOMAIN order
      PROVE  hh[order[i]].prev = IF i = 1 THEN NULL ELSE order[i - 1]
  <2>1. Links(hh, "prev")[order[i]] = At(order, i - 1)
    BY <1>2 DEF Listed
  <2>2. At(order, i - 1) = IF i = 1 THEN NULL ELSE order[i - 1]
    BY <1>3 DEF At
  <2> QED
    BY <1>3, <2>1, <2>2, LinksAre
<1>6. Linked(Order, LAMBDA o : hh[o].prev)
  BY <1>1, <1>5 DEF Linked
<1>7. tbl.num_items = Len(Order) /\ tbl.tail = Last(Order)
  BY <1>1, <1>2, <1>4 DEF At, Last
<1>8. ASSUME NEW b \in DOMAIN tbl.buckets
      PROVE  /\ Linked(Chain(tbl, hh, b), LAMBDA o : hh[o].hh_prev)
             /\ tbl.buckets[b].count = Len(Chain(tbl, hh, b))
  <2>1. PICK chain : chain = Chain(tbl, hh, b)
    OBVIOUS
  <2>2. DOMAIN tbl.buckets = 0..(tbl.num_buckets - 1) /\ chain = ch[b]
    BY <1>1, <1>2, <2>1 DEF Bucketed
  <2>3. /\ chain \in Seq(Range(order)) /\ tbl.buckets[b].count = Len(chain)
        /\ \A i \in DOMAIN chain : Links(hh, "hh_prev")[chain[i]] = At(chain, i - 1)
    BY <1>2, <2>2 DEF Bucketed, Listed
  <2>4. Len(chain) \in Nat /\ DOMAIN chain = 1..Len(chain)
        /\ \A i \in DOMAIN chain : chain[i] \in Range(order)
    BY <2>3
  <2>5. Range(order) \subseteq Obj
    BY <1>3 DEF Range
  <2>6. ASSUME NEW i \in DOMAIN chain
        PROVE  hh[chain[i]].hh_prev = IF i = 1 THEN NULL ELSE chain[i - 1]
    <3>1. At(chain, i - 1) = IF i = 1 THEN NULL ELSE chain[i - 1]
      BY <2>4 DEF At
    <3> QED
      BY <2>3, <2>4, <2>5, <3>1, LinksAre
  <2>7. Linked(chain, LAMBDA o : hh[o].hh_prev)
    BY <2>6 DEF Linked
  <2> QED
    BY <2>1, <2>3, <2>7
<1> QED
  BY <1>6, <1>7, <1>8 DEF Fsck

LEMMA ShapeFinds == TableInv => FindsAdded
<1> SUFFICES ASSUME TableInv, NEW k \in Key
             PROVE  LET those == {o \in Range(Order) : hh[o].key = k}
                    IN  IF those = {} THEN Find(k) = NULL ELSE Find(k) \in those
  BY DEF FindsAdded
<1>1. PICK order, ch : /\ order = Order /\ ch = [b \in DOMAIN tbl.buckets |-> Chain(tbl, hh, b)]
                       /\ Shape(order, ch)
  BY DEF TableInv
<1> DEFINE those == {o \in Range(order) : hh[o].key = k}
<1>2. /\ tbl.num_buckets \in Nat /\ order \in Seq(Obj)
      /\ hashv \in [Key -> HashValue]
      /\ Listed(order, head, Links(hh, "next"), Links(hh, "prev"))
      /\ Bucketed(hashv, tbl.buckets, hh, tbl.num_buckets, ch, Range(order))
      /\ head # NULL => tbl.num_buckets # 0
  BY <1>1 DEF Shape
<1>3. CASE head = NULL
  <2>1. order = <<>>
    <3>1. Len(order) \in Nat /\ DOMAIN order = 1..Len(order)
          /\ \A i \in DOMAIN order : order[i] \in Obj /\ order[i] # NULL
      BY <1>2, UthashData
    <3> QED
      BY <1>2, <1>3, <3>1 DEF Listed, At
  <2>2. those = {}
    BY <2>1 DEF Range
  <2> QED
    BY <1>1, <1>3, <2>2 DEF Find
<1>4. CASE head # NULL
  <2> DEFINE b == hashv[k] % tbl.num_buckets
  <2>1. b \in 0..(tbl.num_buckets - 1)
    BY <1>2, <1>4, BucketNumber
  <2>2. PICK chain : chain = Chain(tbl, hh, HASH_TO_BKT(k, tbl.num_buckets))
    OBVIOUS
  <2>3. chain = ch[b] /\ chain \in Seq(Range(order))
        /\ \A o \in those : o \in Range(chain)
    BY <1>1, <1>2, <2>1, <2>2 DEF Bucketed, HASH_TO_BKT
  <2> DEFINE i == SelectInSeq(chain, LAMBDA o : hh[o].key = k)
             I == {j \in 1..Len(chain) : hh[chain[j]].key = k}
  <2>4. i = IF I # {} THEN Min(I) ELSE 0
    BY DEF SelectInSeq
  <2>5. Find(k) = IF i = 0 THEN NULL ELSE chain[i]
    BY <1>4, <2>2 DEF Find
  <2> HIDE DEF i, b
  <2>6. DOMAIN chain = 1..Len(chain) /\ \A j \in DOMAIN chain : chain[j] \in Range(order)
    BY <2>3
  <2>7. CASE I = {}
    <3>1. those = {}
      BY <2>3, <2>6, <2>7 DEF Range
    <3> QED
      BY <1>1, <2>4, <2>5, <2>7, <3>1
  <2>8. CASE I # {}
    <3>1. \E j \in I : \A l \in I : j <= l
      <4>1. I \subseteq Nat
        OBVIOUS
      <4> QED
        BY <2>8, <4>1, Least
    <3>2. Min(I) \in I
      BY <3>1 DEF Min
    <3>3. i \in I
      BY <2>4, <2>8, <3>2
    <3>4. chain[i] \in those /\ i # 0
      BY <2>6, <3>3
    <3> QED
      BY <1>1, <2>5, <3>4
  <2> QED
    BY <2>7, <2>8
<1> QED
  BY <1>3, <1>4

----------------------------------------------------------------------------
(* Theorems *)

\* After any additions and deletions, both kinds of list are linked forth and
\* back, the counts are those of the chains, and the tail is the end: the
\* HASH_FSCK of the header would never complain.
THEOREM TableIsSound == Spec => []Fsck
<1>1. TableInv => Fsck
  BY ShapeIsSound
<1> QED
  BY <1>1, TableAlways, PTL

\* HASH_FIND_STR finds an element of the key if there is one, and none
\* otherwise, however often the buckets were doubled since it was added.
THEOREM LookupsFind == Spec => []FindsAdded
<1>1. TableInv => FindsAdded
  BY ShapeFinds
<1> QED
  BY <1>1, TableAlways, PTL

\* HASH_ADD_KEYPTR and HASH_DELETE are the operations of HashTable, which
\* knows no links, buckets or hash values: the table keeps the order in which
\* its elements were added, and HASH_ITER visits them in it.
THEOREM OrderedTable == Spec => KeepsOrder
<1> DEFINE key == [o \in Obj |-> IF o \in Range(Order) THEN hh[o].key ELSE NULL]
<1>1. Init => Table!HInit
  <2> SUFFICES ASSUME Init PROVE Table!HInit
    OBVIOUS
  <2>1. Order = <<>>
    BY ListIs, EmptyList DEF Init, Order
  <2> QED
    BY <2>1, EmptyList DEF Table!HInit
<1>2. TableInv /\ [Next]_hvars => [Table!HNext]_<<Order, key>>
  <2> SUFFICES ASSUME TableInv, [Next]_hvars PROVE [Table!HNext]_<<Order, key>>
    OBVIOUS
  <2>1. PICK order : order = Order /\ order \in Seq(Obj)
                     /\ (\A i, j \in DOMAIN order : order[i] = order[j] => i = j)
                     /\ \A o \in Range(order) : hh[o].key \in Key
    BY DEF TableInv, Shape, Listed
  <2>2. ASSUME NEW o \in Obj, NEW k \in Key, Add(o, k) PROVE Table!AddTo(o, k)
    <3>1. /\ o \notin Range(Order) /\ Order' = Append(Order, o)
          /\ \A x \in Obj : hh'[x].key = IF x = o THEN k ELSE hh[x].key
      BY <2>2, AddStep
    <3>2. Range(Append(order, o)) = Range(order) \cup {o}
      BY <2>1, AppendedElements
    <3>3. key' = [key EXCEPT ![o] = k]
      BY <2>1, <3>1, <3>2
    <3> QED
      BY <3>1, <3>3 DEF Table!AddTo
  <2>3. ASSUME NEW o \in Obj, Delete(o) PROVE Table!DeleteFrom(o)
    <3>1. PICK p \in DOMAIN Order : Order[p] = o /\ Order' = RemoveAt(Order, p)
      BY <2>3, DeleteStep
    <3>2. \A x \in Obj : hh'[x].key = IF x = o THEN NULL ELSE hh[x].key
      BY <2>3, DeleteStep
    <3>3. Range(RemoveAt(order, p)) = Range(order) \ {o}
      BY <2>1, <3>1, RemovedElements
    <3>4. key' = [key EXCEPT ![o] = NULL]
      BY <2>1, <3>1, <3>2, <3>3
    <3>5. key[o] # NULL
      BY <2>1, <3>1, UthashData DEF Range
    <3>6. \E i \in DOMAIN Order : Order[i] = o /\ Order' = Table!RemoveAt(Order, i)
      BY <3>1 DEF RemoveAt, Table!RemoveAt
    <3> QED
      BY <3>4, <3>5, <3>6 DEF Table!DeleteFrom
  <2>4. CASE Next
    BY <2>2, <2>3, <2>4 DEF Next, Table!HNext
  <2>5. CASE UNCHANGED hvars
    BY <2>5 DEF hvars, Order
  <2> QED
    BY <2>4, <2>5
<1> QED
  BY <1>1, <1>2, TableAlways, PTL DEF Spec, KeepsOrder, Table!HSpec
============================================================================
