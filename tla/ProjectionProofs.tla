--------------------------- MODULE ProjectionProofs ---------------------------
(***************************************************************************)
(* Proofs about Projection, for every value of its constants.              *)
(***************************************************************************)
EXTENDS Projection, FunctionTheorems, FiniteSetTheorems, SequenceTheorems, TLAPS

-----------------------------------------------------------------------------
(* Sums.                                                                   *)

\* A sum over a finite set is a number.
LEMMA SumType ==
    ASSUME NEW S, IsFiniteSet(S), NEW f, \A x \in S : f[x] \in Nat
    PROVE  IsFiniteSet(Units(S, f)) /\ Sum(S, f) \in Nat
<1> DEFINE g == [x \in S |-> {x} \X (1..f[x])]
           T == {g[x] : x \in S}
<1>1. \A x \in S : IsFiniteSet(g[x])
  <2> SUFFICES ASSUME NEW x \in S PROVE IsFiniteSet({x} \X (1..f[x]))
    OBVIOUS
  <2>1. IsFiniteSet({x})
    BY FS_Singleton
  <2>2. 1 \in Int /\ f[x] \in Int
    OBVIOUS
  <2>3. IsFiniteSet(1..f[x])
    BY <2>2, FS_Interval
  <2> QED
    BY <2>1, <2>3, FS_Product
<1>2. g \in Surjection(S, T)
  BY DEF Surjection
<1>3. IsFiniteSet(T)
  <2> HIDE DEF g, T
  <2> QED
    BY <1>2, FS_Surjection
<1>4. \A U \in T : IsFiniteSet(U)
  BY <1>1
<1>5. IsFiniteSet(UNION T)
  <2> HIDE DEF T
  <2> QED
    BY <1>3, <1>4, FS_UNION
<1>6. Units(S, f) = UNION T
  BY DEF Units
<1> QED
  BY <1>5, <1>6, FS_CardinalityType DEF Sum

\* A unit is a pair of an element and a number.
LEMMA UnitsMember ==
    ASSUME NEW S, NEW f, NEW u
    PROVE  u \in Units(S, f) <=> \E x \in S : \E n \in 1..f[x] : u = <<x, n>>
BY DEF Units

\* Sums over disjoint sets add up.
LEMMA SumUnion ==
    ASSUME NEW S, IsFiniteSet(S), NEW T, IsFiniteSet(T), S \cap T = {}, NEW f,
           \A x \in S \cup T : f[x] \in Nat
    PROVE  Sum(S \cup T, f) = Sum(S, f) + Sum(T, f)
<1>1. Units(S \cup T, f) = Units(S, f) \cup Units(T, f)
  BY DEF Units
<1>2. Units(S, f) \cap Units(T, f) = {}
  BY UnitsMember
<1>3. IsFiniteSet(Units(S, f)) /\ IsFiniteSet(Units(T, f))
  BY SumType
<1>4. Sum(S, f) \in Nat /\ Sum(T, f) \in Nat
  BY SumType
<1>5. Cardinality(Units(S, f) \cup Units(T, f))
        = Cardinality(Units(S, f)) + Cardinality(Units(T, f))
          - Cardinality(Units(S, f) \cap Units(T, f))
  BY <1>3, FS_Union
<1>6. Cardinality(Units(S, f) \cap Units(T, f)) = 0
  BY <1>2, FS_EmptySet
<1>7. Sum(S \cup T, f) = Sum(S, f) + Sum(T, f) - 0
  <2>1. Sum(S \cup T, f) = Cardinality(Units(S, f) \cup Units(T, f))
    BY <1>1 DEF Sum
  <2>2. Sum(S, f) = Cardinality(Units(S, f)) /\ Sum(T, f) = Cardinality(Units(T, f))
    BY DEF Sum
  <2> QED
    BY <1>5, <1>6, <2>1, <2>2
<1> QED
  BY <1>4, <1>7

\* The sum over one element is its value, and that over none is zero.
LEMMA SumOne ==
    ASSUME NEW x, NEW f, f[x] \in Nat
    PROVE  Sum({x}, f) = f[x]
<1>1. Units({x}, f) = {x} \X (1..f[x])
  BY DEF Units
<1>2. IsFiniteSet({x}) /\ Cardinality({x}) = 1
  BY FS_Singleton
<1>3. IsFiniteSet(1..f[x]) /\ Cardinality(1..f[x]) = f[x]
  <2>1. 1 \in Int /\ f[x] \in Int
    OBVIOUS
  <2>2. IsFiniteSet(1..f[x]) /\ Cardinality(1..f[x]) = IF 1 > f[x] THEN 0 ELSE f[x] - 1 + 1
    BY <2>1, FS_Interval
  <2>3. (IF 1 > f[x] THEN 0 ELSE f[x] - 1 + 1) = f[x]
    OBVIOUS
  <2> QED
    BY <2>2, <2>3
<1>4. Cardinality({x} \X (1..f[x])) = Cardinality({x}) * Cardinality(1..f[x])
  BY <1>2, <1>3, FS_Product
<1>5. Cardinality({x} \X (1..f[x])) = f[x]
  BY <1>2, <1>3, <1>4
<1> QED
  BY <1>1, <1>5 DEF Sum

\* The sum over no element is zero.
LEMMA SumNone ==
    ASSUME NEW f
    PROVE  Sum({}, f) = 0
<1>1. Units({}, f) = {}
  BY DEF Units
<1> QED
  BY <1>1, FS_EmptySet DEF Sum

\* A sum depends on the values over its set alone.
LEMMA SumSame ==
    ASSUME NEW S, NEW f, NEW g, \A x \in S : f[x] = g[x]
    PROVE  Sum(S, f) = Sum(S, g)
<1>1. Units(S, f) = Units(S, g)
  BY DEF Units
<1> QED
  BY <1>1 DEF Sum

\* A sum is carried over by a bijection.
LEMMA SumImage ==
    ASSUME NEW S, IsFiniteSet(S), NEW T, NEW h \in Bijection(S, T), NEW f, NEW g,
           \A x \in S : f[x] \in Nat /\ g[h[x]] = f[x]
    PROVE  IsFiniteSet(T) /\ Sum(T, g) = Sum(S, f)
<1> DEFINE m == [u \in Units(S, f) |-> <<h[u[1]], u[2]>>]
<1>1. IsFiniteSet(Units(S, f))
  BY SumType
<1>2. h \in [S -> T] /\ (\A x, y \in S : h[x] = h[y] => x = y) /\ \A z \in T : \E x \in S : h[x] = z
  BY DEF Bijection, Injection, Surjection, IsInjective
<1>3. \A u \in Units(S, f) : \E x \in S : \E n \in 1..f[x] : u = <<x, n>> /\ m[u] = <<h[x], n>>
  BY UnitsMember
<1>4. \A u \in Units(S, f) : m[u] \in Units(T, g)
  BY <1>2, <1>3, UnitsMember
<1>5. \A u, v \in Units(S, f) : m[u] = m[v] => u = v
  BY <1>2, <1>3
<1>6. \A w \in Units(T, g) : \E u \in Units(S, f) : m[u] = w
  <2> SUFFICES ASSUME NEW w \in Units(T, g)
               PROVE  \E u \in Units(S, f) : m[u] = w
    OBVIOUS
  <2>0. PICK z \in T : \E n \in 1..g[z] : w = <<z, n>>
    BY UnitsMember
  <2>n. PICK n \in 1..g[z] : w = <<z, n>>
    BY <2>0
  <2>1. PICK x \in S : h[x] = z
    BY <1>2
  <2>2. <<x, n>> \in Units(S, f)
    BY <2>1, UnitsMember
  <2>3. m[<<x, n>>] = <<z, n>>
    BY <2>1, <2>2
  <2> QED
    BY <2>n, <2>2, <2>3
<1>7. m \in Bijection(Units(S, f), Units(T, g))
  <2>1. m \in [Units(S, f) -> Units(T, g)]
    BY <1>4
  <2> HIDE DEF m
  <2> QED
    BY <2>1, <1>5, <1>6, Fun_IsBij
<1>8. Cardinality(Units(T, g)) = Cardinality(Units(S, f))
  <2> HIDE DEF m
  <2> QED
    BY <1>1, <1>7, FS_Bijection DEF ExistsBijection
<1>9. IsFiniteSet(T)
  <2>1. ExistsBijection(S, T)
    BY DEF ExistsBijection
  <2> QED
    BY <2>1, FS_Bijection
<1> QED
  BY <1>8, <1>9 DEF Sum

\* A sum of ones counts the elements.
LEMMA SumCounts ==
    ASSUME NEW S, IsFiniteSet(S), NEW f, \A x \in S : f[x] \in {0, 1}
    PROVE  Sum(S, f) = Cardinality({x \in S : f[x] = 1})
<1> DEFINE T == {x \in S : f[x] = 1}
           m == [x \in T |-> <<x, 1>>]
<1>1. IsFiniteSet(T)
  BY FS_Subset
<1>2. \A u : u \in Units(S, f) <=> \E x \in T : u = <<x, 1>>
  <2>1. \A x \in S : \A n \in 1..f[x] : x \in T /\ n = 1
    OBVIOUS
  <2>2. \A x \in T : x \in S /\ 1 \in 1..f[x]
    OBVIOUS
  <2> QED
    BY <2>1, <2>2, UnitsMember
<1>3. m \in Bijection(T, Units(S, f))
  <2>1. m \in [T -> Units(S, f)]
    BY <1>2
  <2>2. \A x, y \in T : m[x] = m[y] => x = y
    OBVIOUS
  <2>3. \A u \in Units(S, f) : \E x \in T : m[x] = u
    BY <1>2
  <2> HIDE DEF m, T
  <2> QED
    BY <2>1, <2>2, <2>3, Fun_IsBij
<1> HIDE DEF m, T
<1>4. Cardinality(Units(S, f)) = Cardinality(T)
  BY <1>1, <1>3, FS_Bijection DEF ExistsBijection
<1> QED
  BY <1>4 DEF Sum, T

-----------------------------------------------------------------------------
(* The account.                                                            *)
(*                                                                         *)
(* A weight gives each row a number: one for the rows of a bucket, or the  *)
(* bytes of a complete row. What the projection owes for a weight is the   *)
(* sum over the rows, with every change not applied yet undone.            *)

Waiting(t) == {pending[t][k] : k \in DOMAIN pending[t]}
Left       == UNION {Waiting(t) : t \in Threads}
Weights    == [Rows -> Nat]
Held(w)    == [i \in Items |-> w[row[i]]]
Before(w)  == [c \in Changes |-> w[c.old]]
After(w)   == [c \in Changes |-> w[c.new]]
Owed(w)    == Sum(Items, Held(w)) + Sum(Left, Before(w)) - Sum(Left, After(w))

InBucket(b) == [r \in Rows |-> IF Bucket(r) = b THEN 1 ELSE 0]
InBytes     == [r \in Rows |-> ByteShare(r)]

\* The changes left are finitely many, no two of them are alike, each has a
\* revision that was committed, and one without an item changes nothing.
Ledger ==
    /\ IsFiniteSet(Left)
    /\ \A c \in Left : c.rev <= revision /\ (c.item = None => c.old = c.new)
    /\ \A t \in Threads : \A k, l \in DOMAIN pending[t] :
         pending[t][k] = pending[t][l] => k = l
    /\ \A t, u \in Threads : t # u => Waiting(t) \cap Waiting(u) = {}

\* What a pool thread relies on about the row of its item.
Fits(r, at) ==
    /\ at = "admitted"  => r.status \in {"admitted", "excluded"} /\ r.attempts < MaxAttempts
    /\ at = "active"    => r.status \in {"active", "excluded"} /\ r.attempts >= 1
    /\ at = "promoting" => r.status = "promoting"
    /\ at = "complete"  => r.status = "complete"
    /\ at = "recheck"   => r.status \in {"unavailable", "excluded"}
OnItem(p) == working[p] # None /\ working[p].at # "done"
Carried ==
    /\ \A p \in Pool : OnItem(p) => Fits(row[working[p].item], working[p].at)
    /\ \A p, q \in Pool : OnItem(p) /\ OnItem(q) /\ working[p].item = working[q].item => p = q

\* The projection shows what it owes.
Account ==
    /\ \A b \in Buckets : counts[b] = Owed(InBucket(b))
    /\ completeBytes = Owed(InBytes)
    /\ Total(counts) = Cardinality(Items)

Inv == TypeOK /\ Ledger /\ Carried /\ Account

-----------------------------------------------------------------------------
(* Values.                                                                 *)

\* A row falls in one bucket and counts a number of bytes.
LEMMA RowValues ==
    ASSUME NEW r \in Rows
    PROVE  /\ Bucket(r) \in Buckets \ {"unknown"}
           /\ ByteShare(r) \in Nat
           /\ RetryEntry(r) \in {"now", "later", None}
<1>1. r.status \in Statuses /\ r.retryAt \in {"now", "later"} /\ r.bytes \in Nat
  <2>1. r.status \in Statuses /\ r.retryAt \in {"now", "later"} /\ r.bytes \in Sizes \cup {0}
    BY DEF Rows
  <2>2. \A n \in Sizes \cup {0} : n \in Nat
    BY ConstantsAssumption
  <2>3. r.bytes \in Nat
    BY <2>1, <2>2, Zenon
  <2> QED
    BY <2>1, <2>3
<1>2. Bucket(r) \in Buckets \ {"unknown"}
  BY <1>1 DEF Bucket, Buckets, Parked, Statuses, InHand, Retryable
<1>3. ByteShare(r) \in Nat
  BY <1>1 DEF ByteShare
<1>4. RetryEntry(r) \in {"now", "later", None}
  BY <1>1 DEF RetryEntry
<1> QED
  BY <1>2, <1>3, <1>4

\* The two kinds of weights the projection keeps.
LEMMA WeightTypes == (\A b \in Buckets : InBucket(b) \in Weights) /\ InBytes \in Weights
BY RowValues DEF InBucket, InBytes, Weights

\* The changes left are changes.
LEMMA LeftType ==
    ASSUME ThreadsType
    PROVE  Left \subseteq Changes
<1> SUFFICES ASSUME NEW t \in Threads, NEW k \in DOMAIN pending[t]
             PROVE  pending[t][k] \in Changes
  BY DEF Left, Waiting
<1>1. pending[t] \in Seq(Changes)
  BY DEF ThreadsType
<1> QED
  BY <1>1, ElementOfSeq

\* The sums of the account are numbers.
LEMMA OwedType ==
    ASSUME RowsType, ThreadsType, IsFiniteSet(Left), NEW w \in Weights
    PROVE  /\ Sum(Items, Held(w)) \in Nat
           /\ Sum(Left, Before(w)) \in Nat
           /\ Sum(Left, After(w)) \in Nat
<1>1. \A i \in Items : Held(w)[i] \in Nat
  BY DEF Held, Weights, RowsType
<1>2. \A c \in Changes : Before(w)[c] \in Nat /\ After(w)[c] \in Nat
  BY DEF Before, After, Weights, Changes
<1>3. Sum(Items, Held(w)) \in Nat
  BY <1>1, ConstantsAssumption, SumType
<1>4. \A c \in Left : Before(w)[c] \in Nat /\ After(w)[c] \in Nat
  BY <1>2, LeftType
<1>5. Sum(Left, Before(w)) \in Nat /\ Sum(Left, After(w)) \in Nat
  BY <1>4, SumType
<1> QED
  BY <1>3, <1>5

-----------------------------------------------------------------------------
(* A thread that commits adds its changes to those left.                   *)

\* The new changes carry a new revision, so none of them was left already.
LEMMA Added ==
    ASSUME TypeOK, Ledger, NEW t \in Threads, pending[t] = <<>>, NEW q \in Seq(Changes),
           \A k, l \in DOMAIN q : q[k] = q[l] => k = l,
           \A k \in DOMAIN q : /\ q[k].rev = revision + 1
                               /\ q[k].item = None => q[k].old = q[k].new,
           IsFiniteSet({q[k] : k \in DOMAIN q}),
           revision' = revision + 1, pending' = [pending EXCEPT ![t] = q]
    PROVE  /\ pending' \in [Threads -> Seq(Changes)]
           /\ Ledger'
           /\ Left' = Left \cup {q[k] : k \in DOMAIN q}
           /\ Left \cap {q[k] : k \in DOMAIN q} = {}
<1> DEFINE N == {q[k] : k \in DOMAIN q}
<1>1. pending \in [Threads -> Seq(Changes)] /\ revision \in Nat
  BY DEF TypeOK, ThreadsType, RowsType, Revisions
<1>2. /\ pending'[t] = q
      /\ \A u \in Threads : u # t => pending'[u] = pending[u]
      /\ pending' \in [Threads -> Seq(Changes)]
  BY <1>1
<1>3. Waiting(t)' = N /\ \A u \in Threads : u # t => Waiting(u)' = Waiting(u)
  BY <1>2 DEF Waiting
<1>4. Waiting(t) = {}
  BY DEF Waiting
<1>5. Left' = Left \cup N
  BY <1>3, <1>4 DEF Left
<1>6. \A c \in N : c.rev = revision + 1 /\ (c.item = None => c.old = c.new)
  OBVIOUS
<1>7. \A c \in Left : c.rev <= revision /\ c.rev \in Nat /\ (c.item = None => c.old = c.new)
  <2>1. Left \subseteq Changes
    BY LeftType DEF TypeOK
  <2>2. \A c \in Changes : c.rev \in Nat
    BY DEF Changes, Revisions
  <2> QED
    BY <2>1, <2>2 DEF Ledger
<1> HIDE DEF N
<1>8. Left \cap N = {}
  <2> SUFFICES ASSUME NEW c \in Left, c \in N
               PROVE  FALSE
    OBVIOUS
  <2>1. c.rev = revision + 1 /\ c.rev <= revision /\ c.rev \in Nat
    BY <1>6, <1>7
  <2> QED
    BY <1>1, <2>1
<1>9. Ledger'
  <2>1. IsFiniteSet(Left')
    BY <1>5, FS_Union DEF Ledger, N
  <2>2. \A c \in Left' : c.rev <= revision' /\ (c.item = None => c.old = c.new)
    <3> SUFFICES ASSUME NEW c \in Left'
                 PROVE  c.rev <= revision + 1 /\ (c.item = None => c.old = c.new)
      OBVIOUS
    <3>1. CASE c \in N
      BY <1>1, <1>6, <3>1
    <3>2. CASE c \in Left
      <4>1. c.rev <= revision /\ c.rev \in Nat
        BY <1>7, <3>2
      <4> QED
        BY <1>1, <1>7, <3>2, <4>1
    <3> QED
      BY <1>5, <3>1, <3>2
  <2>3. \A u \in Threads : \A k, l \in DOMAIN pending'[u] : pending'[u][k] = pending'[u][l] => k = l
    BY <1>2 DEF Ledger
  <2>4. \A u, v \in Threads : u # v => Waiting(u)' \cap Waiting(v)' = {}
    <3>1. \A u \in Threads : Waiting(u) \subseteq Left
      BY DEF Left
    <3> QED
      BY <1>3, <1>8, <3>1 DEF Ledger
  <2> QED
    BY <2>1, <2>2, <2>3, <2>4 DEF Ledger
<1> QED
  BY <1>2, <1>5, <1>8, <1>9 DEF N

\* What the projection owes is carried from the rows to the changes left: a
\* commit does not change it.
LEMMA CommitKeeps ==
    ASSUME TypeOK, Ledger, NEW t \in Threads, NEW S \in SUBSET Items, NEW new,
           \A i \in S : new[i] \in Rows, Free(t), Commit(t, S, new)
    PROVE  /\ RowsType'
           /\ pending' \in [Threads -> Seq(Changes)]
           /\ Ledger'
           /\ \A w \in Weights : Owed(w)' = Owed(w)
<1>1. /\ row \in [Items -> Rows] /\ revision \in Nat /\ revision + 1 \in Revisions
      /\ pending[t] = <<>> /\ revision' = revision + 1
  BY ConstantsAssumption DEF TypeOK, RowsType, Revisions, Free, Commit
<1>2. row' = [i \in Items |-> IF i \in S THEN new[i] ELSE row[i]]
  BY DEF Commit
<1>3. RowsType'
  BY <1>1, <1>2 DEF RowsType
<1>4. IsFiniteSet(S) /\ Cardinality(S) \in Nat
  BY ConstantsAssumption, FS_Subset, FS_CardinalityType
<1> DEFINE at(i) == [item |-> i, old |-> row[i], new |-> new[i], rev |-> revision + 1]
<1>5. PICK order \in Bijection(1..Cardinality(S), S) :
             pending' = [pending EXCEPT ![t] = [k \in DOMAIN order |-> at(order[k])]]
  BY DEF Commit
<1>6. /\ DOMAIN order = 1..Cardinality(S)
      /\ \A k \in DOMAIN order : order[k] \in S
      /\ \A k, l \in DOMAIN order : order[k] = order[l] => k = l
      /\ \A i \in S : \E k \in DOMAIN order : order[k] = i
  BY DEF Bijection, Injection, Surjection, IsInjective
<1>7. \A i \in S : /\ at(i) \in Changes /\ at(i).rev = revision + 1 /\ at(i).item = i
                   /\ at(i).old = row[i] /\ at(i).new = new[i]
  BY <1>1 DEF Changes
<1> DEFINE q == [k \in DOMAIN order |-> at(order[k])]
           h == [i \in S |-> at(i)]
           N == {q[k] : k \in DOMAIN q}
<1>8. q \in Seq(Changes)
  BY <1>4, <1>6, <1>7
<1>9. /\ \A k, l \in DOMAIN q : q[k] = q[l] => k = l
      /\ \A k \in DOMAIN q : q[k].rev = revision + 1 /\ (q[k].item = None => q[k].old = q[k].new)
  <2>1. \A k \in DOMAIN q : q[k] = at(order[k]) /\ order[k] \in S
    BY <1>6
  <2>2. None \notin S
    BY ConstantsAssumption
  <2> HIDE DEF q, at
  <2>3. DOMAIN q = DOMAIN order
    BY DEF q
  <2> QED
    BY <1>6, <1>7, <2>1, <2>2, <2>3
<1>10. N = {at(i) : i \in S}
  BY <1>6
<1>11. h \in Bijection(S, N)
  <2>1. h \in [S -> N]
    BY <1>10
  <2>2. \A i, j \in S : h[i] = h[j] => i = j
    BY <1>7
  <2>3. \A c \in N : \E i \in S : h[i] = c
    BY <1>10
  <2> HIDE DEF h, N
  <2> QED
    BY <2>1, <2>2, <2>3, Fun_IsBij
<1>12. \A i \in S : h[i] \in Changes /\ h[i].old = row[i] /\ h[i].new = new[i]
  BY <1>7
<1>13. pending' = [pending EXCEPT ![t] = q]
  BY <1>5
<1> HIDE DEF h, q
<1>14. IsFiniteSet(N)
  <2>1. ExistsBijection(S, N)
    BY <1>11 DEF ExistsBijection
  <2> HIDE DEF N
  <2> QED
    BY <1>4, <2>1, FS_Bijection
<1>15. /\ pending' \in [Threads -> Seq(Changes)] /\ Ledger'
       /\ Left' = Left \cup N /\ Left \cap N = {}
  BY <1>1, <1>8, <1>9, <1>13, <1>14, Added
<1>16. N \subseteq Changes
  BY <1>8, ElementOfSeq
<1> HIDE DEF N, at
<1>17. ASSUME NEW w \in Weights PROVE Owed(w)' = Owed(w)
  <2> DEFINE made == [i \in S |-> w[new[i]]]
             had  == [i \in S |-> w[row[i]]]
  <2>1. /\ \A i \in S : made[i] \in Nat /\ After(w)[h[i]] = made[i]
        /\ \A i \in S : had[i] \in Nat /\ Before(w)[h[i]] = had[i]
    BY <1>1, <1>12 DEF Weights, After, Before
  <2> HIDE DEF made, had
  <2>2. Sum(N, After(w)) = Sum(S, made) /\ Sum(N, Before(w)) = Sum(S, had)
    BY <1>4, <1>11, <2>1, SumImage
  <2>3. /\ \A c \in Changes : After(w)[c] \in Nat /\ Before(w)[c] \in Nat
        /\ Left \subseteq Changes /\ IsFiniteSet(Left)
    BY LeftType DEF After, Before, Weights, Changes, TypeOK, Ledger
  <2>4. /\ Sum(Left', After(w)) = Sum(Left, After(w)) + Sum(N, After(w))
        /\ Sum(Left', Before(w)) = Sum(Left, Before(w)) + Sum(N, Before(w))
    BY <1>14, <1>15, <1>16, <2>3, SumUnion
  <2>5. /\ \A i \in Items : Held(w)[i] \in Nat /\ Held(w)'[i] \in Nat
        /\ \A i \in S : Held(w)[i] = had[i] /\ Held(w)'[i] = made[i]
        /\ \A i \in Items \ S : Held(w)[i] = Held(w)'[i]
    <3>1. \A i \in Items : Held(w)[i] = w[row[i]] /\ Held(w)'[i] = w[row'[i]]
      BY DEF Held
    <3>2. \A i \in Items : row[i] \in Rows /\ row'[i] \in Rows
      BY <1>1, <1>3 DEF RowsType
    <3>3. \A i \in Items : row'[i] = IF i \in S THEN new[i] ELSE row[i]
      BY <1>2
    <3> QED
      BY <3>1, <3>2, <3>3 DEF made, had, Weights
  <2>6. IsFiniteSet(Items \ S) /\ Items = S \cup (Items \ S)
    BY ConstantsAssumption, FS_Subset
  <2>7. /\ Sum(Items, Held(w)) = Sum(S, Held(w)) + Sum(Items \ S, Held(w))
        /\ Sum(Items, Held(w)') = Sum(S, Held(w)') + Sum(Items \ S, Held(w)')
    <3> DEFINE U == Items \ S
    <3>1. S \cap U = {} /\ Items = S \cup U /\ IsFiniteSet(U)
      BY <2>6
    <3> HIDE DEF U
    <3> SUFFICES /\ Sum(S \cup U, Held(w)) = Sum(S, Held(w)) + Sum(U, Held(w))
                 /\ Sum(S \cup U, Held(w)') = Sum(S, Held(w)') + Sum(U, Held(w)')
      BY <3>1 DEF U
    <3>2. \A i \in S \cup U : Held(w)[i] \in Nat /\ Held(w)'[i] \in Nat
      BY <2>5, <3>1
    <3> QED
      BY <1>4, <3>1, <3>2, SumUnion
  <2>8. /\ Sum(S, Held(w)) = Sum(S, had) /\ Sum(S, Held(w)') = Sum(S, made)
        /\ Sum(Items \ S, Held(w)) = Sum(Items \ S, Held(w)')
    BY <2>5, SumSame
  <2>9. /\ Sum(Left, After(w)) \in Nat /\ Sum(Left, Before(w)) \in Nat
        /\ Sum(S, had) \in Nat /\ Sum(S, made) \in Nat
    BY <1>4, <2>1, <2>3, SumType
  <2>10. Sum(Items \ S, Held(w)) \in Nat
    BY <2>5, <2>6, SumType
  <2>11. Owed(w)' = Sum(Items, Held(w)') + Sum(Left', Before(w)) - Sum(Left', After(w))
    BY DEF Owed, Before, After
  <2> QED
    BY <2>2, <2>4, <2>7, <2>8, <2>9, <2>10, <2>11 DEF Owed
<1> QED
  BY <1>3, <1>15, <1>17

\* The change of an audit record moves nothing.
LEMMA AuditKeeps ==
    ASSUME TypeOK, Ledger, NEW t \in Threads, Free(t), Audit(t)
    PROVE  /\ RowsType'
           /\ pending' \in [Threads -> Seq(Changes)]
           /\ Ledger'
           /\ \A w \in Weights : Owed(w)' = Owed(w)
<1> DEFINE c == [item |-> None, old |-> NewRow, new |-> NewRow, rev |-> revision + 1]
           q == <<c>>
<1>1. /\ row \in [Items -> Rows] /\ revision \in Nat /\ revision + 1 \in Revisions
      /\ pending[t] = <<>> /\ revision' = revision + 1 /\ row' = row
  BY ConstantsAssumption DEF TypeOK, RowsType, Revisions, Free, Audit
<1>2. RowsType'
  BY <1>1 DEF RowsType
<1>3. NewRow \in Rows
  BY ConstantsAssumption DEF NewRow, Rows, Statuses, Retryable
<1>4. c \in Changes /\ c.rev = revision + 1 /\ c.old = NewRow /\ c.new = NewRow
  BY <1>1, <1>3 DEF Changes
<1> HIDE DEF c
<1>5. q \in Seq(Changes) /\ DOMAIN q = {1} /\ q[1] = c
  BY <1>4
<1>6. pending' = [pending EXCEPT ![t] = q]
  BY DEF Audit, c
<1> HIDE DEF q
<1>7. {q[k] : k \in DOMAIN q} = {c} /\ IsFiniteSet({c})
  <2>1. (\A k \in DOMAIN q : q[k] = c) /\ 1 \in DOMAIN q
    BY <1>5
  <2>2. {q[k] : k \in DOMAIN q} = {c}
    BY <2>1
  <2> QED
    BY <2>2, FS_Singleton
<1>8. /\ pending' \in [Threads -> Seq(Changes)] /\ Ledger'
      /\ Left' = Left \cup {c} /\ Left \cap {c} = {}
  <2>1. \A k, l \in DOMAIN q : q[k] = q[l] => k = l
    BY <1>5
  <2>2. \A k \in DOMAIN q : q[k].rev = revision + 1 /\ (q[k].item = None => q[k].old = q[k].new)
    BY <1>4, <1>5
  <2>3. IsFiniteSet({q[k] : k \in DOMAIN q})
    BY <1>7
  <2>4. /\ pending' \in [Threads -> Seq(Changes)] /\ Ledger'
        /\ Left' = Left \cup {q[k] : k \in DOMAIN q} /\ Left \cap {q[k] : k \in DOMAIN q} = {}
    BY <1>1, <1>5, <1>6, <2>1, <2>2, <2>3, Added
  <2> QED
    BY <1>7, <2>4
<1>9. ASSUME NEW w \in Weights PROVE Owed(w)' = Owed(w)
  <2>1. After(w)[c] = w[NewRow] /\ Before(w)[c] = w[NewRow] /\ w[NewRow] \in Nat
    BY <1>3, <1>4 DEF After, Before, Weights
  <2>2. Sum({c}, After(w)) = w[NewRow] /\ Sum({c}, Before(w)) = w[NewRow]
    BY <2>1, SumOne
  <2>3. /\ \A d \in Changes : After(w)[d] \in Nat /\ Before(w)[d] \in Nat
        /\ Left \subseteq Changes /\ IsFiniteSet(Left)
    BY LeftType DEF After, Before, Weights, Changes, TypeOK, Ledger
  <2>4. /\ Sum(Left', After(w)) = Sum(Left, After(w)) + Sum({c}, After(w))
        /\ Sum(Left', Before(w)) = Sum(Left, Before(w)) + Sum({c}, Before(w))
    <3>1. \A d \in Left \cup {c} : After(w)[d] \in Nat /\ Before(w)[d] \in Nat
      BY <1>4, <2>3
    <3>2. IsFiniteSet({c})
      BY FS_Singleton
    <3> DEFINE N == {c}
    <3>3. IsFiniteSet(N) /\ Left \cap N = {} /\ Left' = Left \cup N
      BY <1>8, <3>2
    <3>4. \A d \in Left \cup N : After(w)[d] \in Nat /\ Before(w)[d] \in Nat
      BY <3>1
    <3> HIDE DEF N
    <3>5. /\ Sum(Left \cup N, After(w)) = Sum(Left, After(w)) + Sum(N, After(w))
          /\ Sum(Left \cup N, Before(w)) = Sum(Left, Before(w)) + Sum(N, Before(w))
      BY <2>3, <3>3, <3>4, SumUnion
    <3> QED
      BY <3>3, <3>5 DEF N
  <2>5. Held(w)' = Held(w)
    BY <1>1 DEF Held
  <2>6. Owed(w)' = Sum(Items, Held(w)') + Sum(Left', Before(w)) - Sum(Left', After(w))
    BY DEF Owed, Before, After
  <2>7. /\ Sum(Left, After(w)) \in Nat /\ Sum(Left, Before(w)) \in Nat
        /\ Sum(Items, Held(w)) \in Nat
    BY OwedType DEF TypeOK, Ledger
  <2> QED
    BY <2>1, <2>2, <2>4, <2>5, <2>6, <2>7 DEF Owed
<1> QED
  BY <1>2, <1>8, <1>9

\* Applying a change moves its weight from the preimage to the postimage.
LEMMA ApplyMoves ==
    ASSUME TypeOK, Ledger, NEW t \in Threads, Apply(t)
    PROVE  /\ pending' \in [Threads -> Seq(Changes)]
           /\ Ledger'
           /\ Head(pending[t]) \in Left
           /\ \A w \in Weights : Owed(w)' = Owed(w) - w[Head(pending[t]).old]
                                                    + w[Head(pending[t]).new]
<1> DEFINE c == Head(pending[t])
           q == Tail(pending[t])
<1>1. /\ pending \in [Threads -> Seq(Changes)] /\ pending[t] \in Seq(Changes)
      /\ pending[t] # <<>> /\ pending' = [pending EXCEPT ![t] = q]
      /\ row' = row /\ revision' = revision
  BY DEF TypeOK, ThreadsType, Apply, durable
<1>2. /\ q \in Seq(Changes) /\ Len(q) = Len(pending[t]) - 1 /\ Len(pending[t]) \in Nat \ {0}
      /\ c = pending[t][1] /\ c \in Changes
      /\ \A k \in 1..Len(q) : q[k] = pending[t][k + 1]
      /\ DOMAIN q = 1..Len(q) /\ DOMAIN pending[t] = 1..Len(pending[t])
  BY <1>1, HeadTailProperties, EmptySeq
<1>3. /\ \A k \in DOMAIN q : k + 1 \in DOMAIN pending[t] /\ q[k] = pending[t][k + 1]
      /\ \A k \in DOMAIN pending[t] : k = 1 \/ (k - 1 \in DOMAIN q /\ q[k - 1] = pending[t][k])
      /\ 1 \in DOMAIN pending[t]
  BY <1>2
<1> HIDE DEF c, q
<1>4. /\ pending'[t] = q
      /\ \A u \in Threads : u # t => pending'[u] = pending[u]
      /\ pending' \in [Threads -> Seq(Changes)]
  BY <1>1, <1>2
<1>5. /\ Waiting(t) = Waiting(t)' \cup {c} /\ c \notin Waiting(t)'
      /\ \A u \in Threads : u # t => Waiting(u)' = Waiting(u)
  <2>1. \A u \in Threads : u # t => Waiting(u)' = Waiting(u)
    BY <1>4 DEF Waiting
  <2>2. Waiting(t)' = {q[k] : k \in DOMAIN q} /\ Waiting(t) = {pending[t][k] : k \in DOMAIN pending[t]}
    BY <1>4 DEF Waiting
  <2>3. \A d \in Waiting(t)' : d \in Waiting(t) /\ d # c
    <3> SUFFICES ASSUME NEW k \in DOMAIN q
                 PROVE  q[k] \in Waiting(t) /\ q[k] # c
      BY <2>2
    <3>1. k + 1 \in DOMAIN pending[t] /\ q[k] = pending[t][k + 1] /\ k + 1 # 1
      BY <1>2, <1>3
    <3>2. pending[t][k + 1] # pending[t][1]
      BY <1>3, <3>1 DEF Ledger
    <3> QED
      BY <1>2, <2>2, <3>1, <3>2
  <2>4. \A d \in Waiting(t) : d \in Waiting(t)' \/ d = c
    <3> SUFFICES ASSUME NEW k \in DOMAIN pending[t], k # 1
                 PROVE  pending[t][k] \in {q[l] : l \in DOMAIN q}
      BY <1>2, <2>2
    <3> QED
      BY <1>3
  <2>5. c \in Waiting(t)
    BY <1>2, <1>3, <2>2
  <2> QED
    BY <2>1, <2>3, <2>4, <2>5
<1>6. Left = Left' \cup {c} /\ c \notin Left' /\ Left' \cap {c} = {}
  <2>1. \A u \in Threads : u # t => c \notin Waiting(u)
    BY <1>5 DEF Ledger
  <2> QED
    BY <1>5, <2>1 DEF Left
<1>7. Ledger'
  <2>1. IsFiniteSet(Left')
    BY <1>6, FS_Subset DEF Ledger
  <2>2. \A d \in Left' : d.rev <= revision' /\ (d.item = None => d.old = d.new)
    BY <1>1, <1>6 DEF Ledger
  <2>3. \A u \in Threads : \A k, l \in DOMAIN pending'[u] : pending'[u][k] = pending'[u][l] => k = l
    <3>1. \A k, l \in DOMAIN q : q[k] = q[l] => k = l
      <4> SUFFICES ASSUME NEW k \in DOMAIN q, NEW l \in DOMAIN q, q[k] = q[l]
                   PROVE  k = l
        OBVIOUS
      <4>1. k + 1 = l + 1
        BY <1>3 DEF Ledger
      <4> QED
        BY <1>2, <4>1
    <3> QED
      BY <1>4, <3>1 DEF Ledger
  <2>4. \A u, v \in Threads : u # v => Waiting(u)' \cap Waiting(v)' = {}
    BY <1>5 DEF Ledger
  <2> QED
    BY <2>1, <2>2, <2>3, <2>4 DEF Ledger
<1>8. ASSUME NEW w \in Weights PROVE Owed(w)' = Owed(w) - w[c.old] + w[c.new]
  <2>1. After(w)[c] = w[c.new] /\ Before(w)[c] = w[c.old] /\ w[c.new] \in Nat /\ w[c.old] \in Nat
    BY <1>2 DEF After, Before, Weights, Changes
  <2>2. Sum({c}, After(w)) = w[c.new] /\ Sum({c}, Before(w)) = w[c.old]
    BY <2>1, SumOne
  <2>3. /\ \A d \in Changes : After(w)[d] \in Nat /\ Before(w)[d] \in Nat
        /\ Left \subseteq Changes /\ IsFiniteSet(Left') /\ IsFiniteSet({c})
    BY <1>7, LeftType, FS_Singleton DEF After, Before, Weights, Changes, TypeOK, Ledger
  <2>4. /\ Sum(Left' \cup {c}, After(w)) = Sum(Left', After(w)) + Sum({c}, After(w))
        /\ Sum(Left' \cup {c}, Before(w)) = Sum(Left', Before(w)) + Sum({c}, Before(w))
    <3>1. \A d \in Left' \cup {c} : After(w)[d] \in Nat /\ Before(w)[d] \in Nat
      BY <1>2, <1>6, <2>3
    <3> DEFINE L == Left'
    <3>2. IsFiniteSet(L) /\ L \cap {c} = {} /\ \A d \in L \cup {c} : After(w)[d] \in Nat /\ Before(w)[d] \in Nat
      BY <1>6, <2>3, <3>1
    <3> HIDE DEF L
    <3>3. /\ Sum(L \cup {c}, After(w)) = Sum(L, After(w)) + Sum({c}, After(w))
          /\ Sum(L \cup {c}, Before(w)) = Sum(L, Before(w)) + Sum({c}, Before(w))
      BY <2>3, <3>2, SumUnion
    <3> QED
      BY <3>3 DEF L
  <2>5. Held(w)' = Held(w)
    BY <1>1 DEF Held
  <2>6. Owed(w)' = Sum(Items, Held(w)') + Sum(Left', Before(w)) - Sum(Left', After(w))
    BY DEF Owed, Before, After
  <2>7. /\ Sum(Left', After(w)) \in Nat /\ Sum(Left', Before(w)) \in Nat
        /\ Sum(Items, Held(w)) \in Nat
    <3>1. Left' \subseteq Changes
      BY <1>6, <2>3
    <3> QED
      BY <2>3, <3>1, SumType, OwedType DEF TypeOK, Ledger
  <2> QED
    BY <1>6, <2>1, <2>2, <2>4, <2>5, <2>6, <2>7 DEF Owed
<1> QED
  BY <1>4, <1>6, <1>7, <1>8 DEF c

-----------------------------------------------------------------------------
(* Steps.                                                                  *)

\* A step that owes the same and leaves the projection alone keeps the account.
LEMMA AccountKept ==
    ASSUME Inv, UNCHANGED projection, \A w \in Weights : Owed(w)' = Owed(w)
    PROVE  SummaryType' /\ Account'
<1>1. UNCHANGED <<counts, completeBytes, retries, shown>>
  BY DEF projection
<1>2. SummaryType'
  BY <1>1 DEF Inv, TypeOK, SummaryType
<1>3. \A b \in Buckets : Owed(InBucket(b))' = Owed(InBucket(b))
  <2> SUFFICES ASSUME NEW b \in Buckets
               PROVE  Owed(InBucket(b))' = Owed(InBucket(b))
    OBVIOUS
  <2>1. PICK w \in Weights : w = InBucket(b)
    BY WeightTypes
  <2>2. Owed(w)' = Owed(w)
    OBVIOUS
  <2> QED
    BY <2>1, <2>2 DEF Owed, Held, Before, After, InBucket, Bucket
<1>4. Owed(InBytes)' = Owed(InBytes)
  BY WeightTypes DEF Owed, Held, Before, After, InBytes, ByteShare
<1>5. Total(counts)' = Total(counts)
  BY <1>1 DEF Total
<1> QED
  BY <1>1, <1>2, <1>3, <1>4, <1>5 DEF Inv, Account

\* An item in hand is neither waiting for an attempt nor under review.
LEMMA InHandStatus ==
    ASSUME Inv, NEW p \in Pool, OnItem(p)
    PROVE  /\ working[p] \in Tasks /\ working[p].item \in Items
           /\ row[working[p].item] \in Rows
           /\ row[working[p].item].status \in
                {"admitted", "active", "promoting", "complete", "unavailable", "excluded"}
<1>1. working[p] \in Tasks
  BY DEF Inv, TypeOK, ThreadsType, OnItem
<1>2. working[p].item \in Items /\ working[p].at \in DOMAIN Follows
  BY <1>1 DEF Tasks
<1>3. working[p].at \in {"admitted", "active", "promoting", "complete", "recheck"}
  BY <1>2 DEF Follows, OnItem
<1>4. Fits(row[working[p].item], working[p].at)
  BY DEF Inv, Carried
<1> QED
  BY <1>1, <1>2, <1>3, <1>4 DEF Fits, Inv, TypeOK, RowsType

\* A commit keeps the invariant when its rows still fit the pool threads.
LEMMA CommitStep ==
    ASSUME Inv, NEW t \in Threads, NEW S \in SUBSET Items, NEW new,
           \A i \in S : new[i] \in Rows, Free(t), Commit(t, S, new),
           working' \in [Pool -> Tasks \cup {None}], Carried'
    PROVE  Inv'
<1>1. /\ RowsType' /\ pending' \in [Threads -> Seq(Changes)]
      /\ Ledger' /\ \A w \in Weights : Owed(w)' = Owed(w)
  BY CommitKeeps DEF Inv
<1>2. UNCHANGED projection
  BY DEF Commit
<1>3. SummaryType' /\ Account'
  BY <1>1, <1>2, AccountKept
<1> QED
  BY <1>1, <1>3 DEF Inv, TypeOK, ThreadsType

\* An audit record keeps the invariant.
LEMMA AuditStep ==
    ASSUME Inv, NEW t \in Threads, Free(t), Audit(t), UNCHANGED working
    PROVE  Inv'
<1>1. /\ RowsType' /\ pending' \in [Threads -> Seq(Changes)]
      /\ Ledger' /\ \A w \in Weights : Owed(w)' = Owed(w)
  BY AuditKeeps DEF Inv
<1>2. UNCHANGED projection /\ UNCHANGED row
  BY DEF Audit
<1>3. SummaryType' /\ Account'
  BY <1>1, <1>2, AccountKept
<1>4. Carried'
  BY <1>2 DEF Inv, Carried, OnItem
<1> QED
  BY <1>1, <1>3, <1>4 DEF Inv, TypeOK, ThreadsType

\* A step of the tasks alone keeps the invariant when the rows fit.
LEMMA TaskStep ==
    ASSUME Inv, UNCHANGED <<durable, pending, projection>>,
           working' \in [Pool -> Tasks \cup {None}], Carried'
    PROVE  Inv'
<1>1. UNCHANGED <<row, revision, pending, counts, completeBytes, retries, shown>>
  BY DEF durable, projection
<1>2. TypeOK'
  BY <1>1 DEF Inv, TypeOK, RowsType, ThreadsType, SummaryType
<1>3. Left' = Left /\ \A t \in Threads : Waiting(t)' = Waiting(t)
  BY <1>1 DEF Left, Waiting
<1>4. Ledger'
  BY <1>1, <1>3 DEF Inv, Ledger
<1>5. \A w \in Weights : Owed(w)' = Owed(w)
  BY <1>1, <1>3 DEF Owed, Held, Before, After
<1>6. Account'
  BY <1>5, AccountKept
<1> QED
  BY <1>2, <1>4, <1>6 DEF Inv

\* Rows that a commit replaces by rows of items no task holds still fit.
LEMMA Undisturbed ==
    ASSUME Inv, UNCHANGED working,
           \A p \in Pool : OnItem(p) => row'[working[p].item] = row[working[p].item]
    PROVE  working' \in [Pool -> Tasks \cup {None}] /\ Carried'
BY DEF Inv, TypeOK, ThreadsType, Carried, OnItem

\* An admitted item was waiting for an attempt, so no task holds it.
LEMMA AdmitStep ==
    ASSUME Inv, Admit
    PROVE  Inv'
<1>1. PICK i \in Items :
             /\ Eligible(i)
             /\ Commit(Main, {i}, [row EXCEPT ![i].status = "admitted"])
             /\ \E p \in Pool :
                  /\ working[p] = None
                  /\ working' = [working EXCEPT ![p] = [item |-> i, at |-> "admitted"]]
  BY DEF Admit
<1>2. PICK p \in Pool : /\ working[p] = None
                        /\ working' = [working EXCEPT ![p] = [item |-> i, at |-> "admitted"]]
  BY <1>1
<1> DEFINE new == [row EXCEPT ![i].status = "admitted"]
           task == [item |-> i, at |-> "admitted"]
<1>3. row \in [Items -> Rows] /\ working \in [Pool -> Tasks \cup {None}]
  BY DEF Inv, TypeOK, RowsType, ThreadsType
<1>4. row[i].status \in Retryable /\ row[i].attempts < MaxAttempts
  BY <1>1 DEF Eligible
<1>5. new[i] \in Rows /\ new[i].status = "admitted" /\ new[i].attempts = row[i].attempts
  BY <1>3 DEF Rows, Statuses, InHand
<1>6. Commit(Main, {i}, new) /\ Free(Main) /\ Main \in Threads
  BY <1>1 DEF Admit, Threads
<1> HIDE DEF new
<1>7. /\ row'[i].status = "admitted" /\ row'[i].attempts < MaxAttempts
      /\ \A j \in Items : j # i => row'[j] = row[j]
  BY <1>4, <1>5, <1>6 DEF Commit
<1>8. task \in Tasks /\ task.item = i /\ task.at = "admitted" /\ task # None
  BY NoneAssumption DEF Tasks, Follows
<1> HIDE DEF task
<1>9. /\ working' \in [Pool -> Tasks \cup {None}] /\ working'[p] = task
      /\ \A q \in Pool : q # p => working'[q] = working[q]
  BY <1>2, <1>3, <1>8 DEF task
<1>10. \A q \in Pool : q # p /\ OnItem(q) => working[q].item \in Items /\ working[q].item # i
  BY <1>4, InHandStatus DEF Retryable
<1>11. Carried'
  <2>1. ASSUME NEW q \in Pool, OnItem(q)' PROVE Fits(row[working[q].item], working[q].at)'
    <3>1. CASE q = p
      BY <1>7, <1>8, <1>9, <3>1 DEF Fits
    <3>2. CASE q # p
      <4>1. OnItem(q) /\ working'[q] = working[q]
        BY <1>9, <2>1, <3>2 DEF OnItem
      <4>2. row'[working[q].item] = row[working[q].item]
        BY <1>7, <1>10, <3>2, <4>1
      <4>3. Fits(row[working[q].item], working[q].at)
        BY <4>1 DEF Inv, Carried
      <4> QED
        BY <4>1, <4>2, <4>3 DEF Fits
    <3> QED
      BY <3>1, <3>2
  <2>2. \A q, r \in Pool : (OnItem(q) /\ OnItem(r) /\ working[q].item = working[r].item)' => q = r
    BY <1>8, <1>9, <1>10 DEF Inv, Carried, OnItem
  <2> QED
    BY <2>1, <2>2 DEF Carried
<1> QED
  BY <1>5, <1>6, <1>9, <1>11, CommitStep

\* A recheck takes an unavailable item that no task holds.
LEMMA ClaimStep ==
    ASSUME Inv, ClaimRecheck
    PROVE  Inv'
<1>1. PICK i \in Items, p \in Pool :
             /\ row[i].status = "unavailable" /\ working[p] = None
             /\ \A q \in Pool : working[q] # None => working[q].item # i
             /\ working' = [working EXCEPT ![p] = [item |-> i, at |-> "recheck"]]
  BY DEF ClaimRecheck
<1> DEFINE task == [item |-> i, at |-> "recheck"]
<1>2. working \in [Pool -> Tasks \cup {None}] /\ UNCHANGED row
  BY DEF Inv, TypeOK, ThreadsType, ClaimRecheck, durable
<1>3. task \in Tasks /\ task.item = i /\ task.at = "recheck" /\ task # None
  BY NoneAssumption DEF Tasks, Follows
<1> HIDE DEF task
<1>4. /\ working' \in [Pool -> Tasks \cup {None}] /\ working'[p] = task
      /\ \A q \in Pool : q # p => working'[q] = working[q]
  BY <1>1, <1>2, <1>3 DEF task
<1>5. Carried'
  <2>1. ASSUME NEW q \in Pool, OnItem(q)' PROVE Fits(row[working[q].item], working[q].at)'
    <3>1. CASE q = p
      BY <1>1, <1>2, <1>3, <1>4, <3>1 DEF Fits
    <3>2. CASE q # p
      BY <1>2, <1>4, <2>1, <3>2 DEF Inv, Carried, OnItem, Fits
    <3> QED
      BY <3>1, <3>2
  <2>2. \A q, r \in Pool : (OnItem(q) /\ OnItem(r) /\ working[q].item = working[r].item)' => q = r
    BY <1>1, <1>3, <1>4 DEF Inv, Carried, OnItem
  <2> QED
    BY <2>1, <2>2 DEF Carried
<1> QED
  BY <1>4, <1>5, TaskStep DEF ClaimRecheck

\* A command changes rows that no task holds, or excludes one under its task.
LEMMA CommandSteps ==
    ASSUME Inv, ControlAudit \/ RetryNow \/ SetRetryCooldown \/ Requeue
    PROVE  Inv'
<1>1. Control \in Threads /\ row \in [Items -> Rows]
  BY DEF Threads, Inv, TypeOK, RowsType
<1>2. CASE ControlAudit
  BY <1>1, <1>2, AuditStep DEF ControlAudit
<1>3. CASE RetryNow
  <2>1. PICK S \in SUBSET {i \in Items : row[i].status \in Retryable} :
               IF S = {} THEN Audit(Control)
               ELSE Commit(Control, S, [i \in Items |-> [row[i] EXCEPT !.retryAt = "now"]])
    BY <1>3 DEF RetryNow
  <2>2. Free(Control) /\ UNCHANGED working
    BY <1>3 DEF RetryNow
  <2>3. CASE S = {}
    BY <1>1, <2>1, <2>2, <2>3, AuditStep
  <2>4. CASE S # {}
    <3> DEFINE new == [i \in Items |-> [row[i] EXCEPT !.retryAt = "now"]]
    <3>1. \A i \in S : new[i] \in Rows
      BY <1>1 DEF Rows
    <3>2. Commit(Control, S, new)
      BY <2>1, <2>4
    <3> HIDE DEF new
    <3>3. \A i \in Items : i \notin S => row'[i] = row[i]
      BY <3>2 DEF Commit
    <3>4. \A p \in Pool : OnItem(p) => row'[working[p].item] = row[working[p].item]
      BY <3>3, InHandStatus DEF Retryable
    <3> QED
      BY <1>1, <2>2, <3>1, <3>2, <3>4, Undisturbed, CommitStep
  <2> QED
    BY <2>3, <2>4
<1>4. ASSUME NEW i \in Items, NEW new, new[i] \in Rows, Free(Control), UNCHANGED working,
             Commit(Control, {i}, new), row[i].status \in {"retry_wait", "review_required"}
      PROVE  Inv'
  <2>1. \A j \in Items : j # i => row'[j] = row[j]
    BY <1>4 DEF Commit
  <2>2. \A p \in Pool : OnItem(p) => row'[working[p].item] = row[working[p].item]
    BY <1>4, <2>1, InHandStatus
  <2> QED
    BY <1>1, <1>4, <2>2, Undisturbed, CommitStep
<1>5. CASE SetRetryCooldown
  <2>1. PICK i \in Items : /\ row[i].status = "retry_wait"
                           /\ Commit(Control, {i}, [row EXCEPT ![i].retryAt = "later"])
    BY <1>5 DEF SetRetryCooldown
  <2> DEFINE new == [row EXCEPT ![i].retryAt = "later"]
  <2>2. new[i] \in Rows
    BY <1>1 DEF Rows
  <2>3. Commit(Control, {i}, new)
    BY <2>1
  <2> HIDE DEF new
  <2> QED
    BY <1>4, <1>5, <2>1, <2>2, <2>3 DEF SetRetryCooldown
<1>6. CASE Requeue
  <2>1. PICK i \in Items :
               /\ row[i].status = "review_required"
               /\ Commit(Control, {i},
                         [row EXCEPT ![i] = Written(row[i], "review_required", "queued")])
    BY <1>6 DEF Requeue
  <2> DEFINE new == [row EXCEPT ![i] = Written(row[i], "review_required", "queued")]
  <2>2. new[i] \in Rows
    BY <1>1 DEF Rows, Written, Statuses, Retryable
  <2>3. Commit(Control, {i}, new)
    BY <2>1
  <2> HIDE DEF new
  <2> QED
    BY <1>4, <1>6, <2>1, <2>2, <2>3 DEF Requeue
<1> QED
  BY <1>2, <1>3, <1>5, <1>6

\* An item may be excluded under its task before promotion, and the task's
\* next write finds the attempt counted as before.
LEMMA ExcludeStep ==
    ASSUME Inv, ExcludeItem
    PROVE  Inv'
<1>1. PICK i \in Items : /\ row[i].status \in Excludable
                         /\ Commit(Control, {i}, [row EXCEPT ![i].status = "excluded"])
  BY DEF ExcludeItem
<1> DEFINE new == [row EXCEPT ![i].status = "excluded"]
<1>2. row \in [Items -> Rows] /\ working \in [Pool -> Tasks \cup {None}]
  BY DEF Inv, TypeOK, RowsType, ThreadsType
<1>3. new[i] \in Rows /\ new[i].status = "excluded" /\ new[i].attempts = row[i].attempts
  BY <1>2 DEF Rows, Statuses, Parked
<1>4. /\ Commit(Control, {i}, new) /\ Free(Control) /\ Control \in Threads
      /\ UNCHANGED working
  BY <1>1 DEF ExcludeItem, Threads
<1> HIDE DEF new
<1>5. /\ row'[i].status = "excluded" /\ row'[i].attempts = row[i].attempts
      /\ \A j \in Items : j # i => row'[j] = row[j]
  BY <1>3, <1>4 DEF Commit
<1>6. Carried'
  <2>1. ASSUME NEW q \in Pool, OnItem(q)
        PROVE  Fits(row'[working[q].item], working[q].at)
    <3>1. Fits(row[working[q].item], working[q].at) /\ working[q].item \in Items
      BY <2>1, InHandStatus DEF Inv, Carried
    <3>2. CASE working[q].item = i
      BY <1>1, <1>5, <3>1, <3>2 DEF Fits, Excludable, Retryable
    <3>3. CASE working[q].item # i
      BY <1>5, <3>1, <3>3 DEF Fits
    <3> QED
      BY <3>2, <3>3
  <2>2. \A q \in Pool : OnItem(q)' <=> OnItem(q)
    BY <1>4 DEF OnItem
  <2>3. \A q, r \in Pool : (OnItem(q) /\ OnItem(r) /\ working[q].item = working[r].item)' => q = r
    BY <1>4, <2>2 DEF Inv, Carried
  <2> QED
    BY <1>4, <2>1, <2>2, <2>3 DEF Carried, Fits
<1> QED
  BY <1>2, <1>3, <1>4, <1>6, CommitStep

\* What a task writes: the attempt is counted when the item becomes active and
\* taken back when a full disk returns it, within the bounds of the counter.
LEMMA WrittenFits ==
    ASSUME NEW r \in Rows, NEW from \in DOMAIN Follows, NEW to \in Follows[from],
           Fits(r, from), NEW size \in Sizes \cup {0}
    PROVE  /\ [Written(r, from, to) EXCEPT !.bytes = size] \in Rows
           /\ to \in {"active", "promoting", "complete"}
                => Fits([Written(r, from, to) EXCEPT !.bytes = size], to)
<1>1. /\ from \in {"admitted", "active", "promoting", "complete", "recheck", "done"}
      /\ to \in Statuses
  BY DEF Follows, Statuses, InHand, Retryable, Parked
<1>2. MaxAttempts \in Nat
  BY ConstantsAssumption
<1>3. /\ r.status \in Statuses /\ r.attempts \in 0..MaxAttempts
      /\ r.retryAt \in {"now", "later"}
      /\ r = [status |-> r.status, attempts |-> r.attempts, retryAt |-> r.retryAt,
              bytes |-> r.bytes]
  BY DEF Rows
<1> DEFINE out == [Written(r, from, to) EXCEPT !.bytes = size]
<1>4. CASE to = "active"
  <2>1. from = "admitted"
    BY <1>1, <1>4 DEF Follows
  <2>2. r.attempts + 1 \in 0..MaxAttempts /\ r.attempts + 1 >= 1
    BY <1>2, <1>3, <2>1 DEF Fits
  <2>3. Written(r, from, to) = [r EXCEPT !.status = "active", !.attempts = @ + 1]
    BY <1>4 DEF Written
  <2>4. Written(r, from, to) = [status |-> "active", attempts |-> r.attempts + 1,
                                retryAt |-> r.retryAt, bytes |-> r.bytes]
    BY <1>3, <2>3
  <2>5. out = [status |-> "active", attempts |-> r.attempts + 1, retryAt |-> r.retryAt,
               bytes |-> size]
    BY <2>4
  <2> HIDE DEF out
  <2>6. out \in Rows
    BY <1>1, <1>3, <1>4, <2>2, <2>5 DEF Rows
  <2>7. Fits(out, to)
    BY <1>4, <2>2, <2>5 DEF Fits
  <2> QED
    BY <2>6, <2>7 DEF out
<1>5. CASE to = "queued"
  <2>1. from \in {"active", "recheck"}
    BY <1>1, <1>5 DEF Follows
  <2>2. (IF from = "active" THEN r.attempts - 1 ELSE r.attempts) \in 0..MaxAttempts
    BY <1>2, <1>3 DEF Fits
  <2> DEFINE n == IF from = "active" THEN r.attempts - 1 ELSE r.attempts
  <2>3. Written(r, from, to) = [r EXCEPT !.status = "queued", !.retryAt = "now",
                                !.attempts = IF from = "active" THEN @ - 1 ELSE @]
    BY <1>5 DEF Written
  <2>4. Written(r, from, to) = [status |-> "queued", attempts |-> n, retryAt |-> "now",
                                bytes |-> r.bytes]
    BY <1>3, <2>3
  <2> HIDE DEF n
  <2>5. out = [status |-> "queued", attempts |-> n, retryAt |-> "now", bytes |-> size]
    BY <2>4
  <2> HIDE DEF out
  <2>6. n \in 0..MaxAttempts
    BY <2>2 DEF n
  <2>7. out \in Rows
    BY <1>1, <1>5, <2>5, <2>6 DEF Rows
  <2> QED
    BY <1>5, <2>7 DEF out
<1>6. CASE to \notin {"active", "queued"}
  <2>1. PICK when \in {"now", "later"} :
               Written(r, from, to) = [status |-> to, attempts |-> r.attempts,
                                       retryAt |-> when, bytes |-> r.bytes]
    <3>1. CASE to = "retry_wait"
      <4>1. Written(r, from, to) = [r EXCEPT !.status = to, !.retryAt = "later"]
        BY <3>1 DEF Written
      <4> QED
        BY <1>3, <4>1
    <3>2. CASE to # "retry_wait"
      <4>1. Written(r, from, to) = [r EXCEPT !.status = to]
        BY <1>6, <3>2 DEF Written
      <4> QED
        BY <1>3, <4>1
    <3> QED
      BY <3>1, <3>2
  <2>2. out = [status |-> to, attempts |-> r.attempts, retryAt |-> when, bytes |-> size]
    BY <2>1
  <2> HIDE DEF out
  <2>3. out \in Rows
    BY <1>1, <1>3, <2>2 DEF Rows
  <2>4. to \in {"promoting", "complete"} => Fits(out, to)
    BY <2>2 DEF Fits
  <2> QED
    BY <1>6, <2>3, <2>4 DEF out
<1> QED
  BY <1>4, <1>5, <1>6

\* A task writes the rows of its own item only.
LEMMA TransitionStep ==
    ASSUME Inv, NEW p \in Pool, Transition(p)
    PROVE  Inv'
<1> DEFINE i    == working[p].item
           from == working[p].at
<1>1. PICK to \in Follows[from], b \in Sizes :
        LET size == IF to = "complete" /\ from = "promoting" THEN b ELSE row[i].bytes
            last == from = "complete" \/ to \notin {"active", "promoting", "complete"}
        IN /\ Commit(p, {i}, [row EXCEPT ![i] = [Written(row[i], from, to) EXCEPT !.bytes = size]])
           /\ working' = [working EXCEPT ![p].at = IF last THEN "done" ELSE to]
  BY DEF Transition
<1>2. /\ row \in [Items -> Rows] /\ working \in [Pool -> Tasks \cup {None}]
      /\ working[p] # None /\ Free(p) /\ p \in Threads
  BY DEF Inv, TypeOK, RowsType, ThreadsType, Transition, Threads
<1>3. working[p] \in Tasks /\ i \in Items /\ from \in DOMAIN Follows
  BY <1>2 DEF Tasks
<1>4. OnItem(p) /\ Fits(row[i], from)
  <2>1. from # "done"
    BY <1>1 DEF Follows
  <2> QED
    BY <1>2, <2>1 DEF OnItem, Inv, Carried
<1> DEFINE size == IF to = "complete" /\ from = "promoting" THEN b ELSE row[i].bytes
           r    == [Written(row[i], from, to) EXCEPT !.bytes = size]
           next == IF from = "complete" \/ to \notin {"active", "promoting", "complete"}
                   THEN "done" ELSE to
           new  == [row EXCEPT ![i] = r]
<1>5. size \in Sizes \cup {0} /\ row[i] \in Rows
  BY <1>2, <1>3 DEF Rows
<1>6. Commit(p, {i}, new) /\ working' = [working EXCEPT ![p].at = next]
  BY <1>1
<1> HIDE DEF size
<1>7. /\ r \in Rows
      /\ to \in {"active", "promoting", "complete"} => Fits(r, to)
  BY <1>1, <1>3, <1>4, <1>5, WrittenFits
<1>8. new[i] = r
  BY <1>2, <1>3
<1>9. next \in DOMAIN Follows /\ (next # "done" => Fits(r, next))
  BY <1>7 DEF Follows
<1> HIDE DEF r, next, new
<1> DEFINE task == [working[p] EXCEPT !.at = next]
<1>10. task \in Tasks /\ task.item = i /\ task.at = next /\ task # None
  BY <1>3, <1>9, NoneAssumption DEF Tasks
<1>11. /\ working' \in [Pool -> Tasks \cup {None}] /\ working'[p] = task
       /\ \A q \in Pool : q # p => working'[q] = working[q]
  BY <1>2, <1>6, <1>10
<1> HIDE DEF task
<1>12. row'[i] = r /\ \A j \in Items : j # i => row'[j] = row[j]
  BY <1>3, <1>6, <1>8 DEF Commit
<1>13. \A q \in Pool : q # p /\ OnItem(q) => working[q].item \in Items /\ working[q].item # i
  BY <1>4, InHandStatus DEF Inv, Carried
<1> HIDE DEF i, from
<1>14. Carried'
  <2>1. ASSUME NEW q \in Pool, OnItem(q)' PROVE Fits(row[working[q].item], working[q].at)'
    <3>1. CASE q = p
      <4>1. next # "done"
        BY <1>10, <1>11, <2>1, <3>1 DEF OnItem
      <4> QED
        BY <1>9, <1>10, <1>11, <1>12, <3>1, <4>1 DEF Fits
    <3>2. CASE q # p
      <4>1. OnItem(q) /\ working'[q] = working[q]
        BY <1>11, <2>1, <3>2 DEF OnItem
      <4>2. row'[working[q].item] = row[working[q].item]
        BY <1>12, <1>13, <3>2, <4>1
      <4>3. Fits(row[working[q].item], working[q].at)
        BY <4>1 DEF Inv, Carried
      <4> QED
        BY <4>1, <4>2, <4>3 DEF Fits
    <3> QED
      BY <3>1, <3>2
  <2>2. \A q, u \in Pool : (OnItem(q) /\ OnItem(u) /\ working[q].item = working[u].item)' => q = u
    BY <1>10, <1>11, <1>13 DEF Inv, Carried, OnItem
  <2> QED
    BY <2>1, <2>2 DEF Carried
<1> QED
  BY <1>2, <1>3, <1>6, <1>7, <1>8, <1>11, <1>14, CommitStep

\* A task that ends holds its item no longer.
LEMMA EndSteps ==
    ASSUME Inv, NEW p \in Pool, StillUnavailable(p) \/ Return(p)
    PROVE  Inv'
<1>1. working \in [Pool -> Tasks \cup {None}] /\ UNCHANGED row
  BY DEF Inv, TypeOK, ThreadsType, StillUnavailable, Return, durable
<1>2. PICK v \in Tasks \cup {None} :
             working' = [working EXCEPT ![p] = v] /\ (v # None => v.at = "done")
  <2>1. CASE Return(p)
    BY <2>1 DEF Return
  <2>2. CASE StillUnavailable(p)
    <3> DEFINE v == [working[p] EXCEPT !.at = "done"]
    <3>1. working[p] \in Tasks /\ working' = [working EXCEPT ![p] = v]
      BY <1>1, <2>2 DEF StillUnavailable
    <3>2. v \in Tasks /\ v.at = "done"
      BY <3>1 DEF Tasks, Follows
    <3> QED
      BY <3>1, <3>2
  <2> QED
    BY <2>1, <2>2
<1>3. /\ working' \in [Pool -> Tasks \cup {None}] /\ ~OnItem(p)'
      /\ \A q \in Pool : q # p => working'[q] = working[q]
  BY <1>1, <1>2 DEF OnItem
<1>4. Carried'
  <2>1. ASSUME NEW q \in Pool, OnItem(q)'
        PROVE  OnItem(q) /\ working'[q] = working[q]
    BY <1>3, <2>1 DEF OnItem
  <2>2. \A q \in Pool : OnItem(q)' => Fits(row[working[q].item], working[q].at)'
    BY <1>1, <2>1 DEF Inv, Carried, Fits
  <2>3. \A q, u \in Pool : (OnItem(q) /\ OnItem(u) /\ working[q].item = working[u].item)' => q = u
    BY <2>1 DEF Inv, Carried
  <2> QED
    BY <2>2, <2>3 DEF Carried
<1>5. UNCHANGED <<durable, pending, projection>>
  BY DEF StillUnavailable, Return
<1> QED
  BY <1>3, <1>4, <1>5, TaskStep

\* Moving one item between two buckets keeps the total.
LEMMA TotalShift ==
    ASSUME NEW n \in [Buckets -> Int], NEW x \in Buckets, NEW y \in Buckets
    PROVE  Total([b \in Buckets |-> n[b] - (IF b = x THEN 1 ELSE 0) + (IF b = y THEN 1 ELSE 0)])
             = Total(n)
<1> DEFINE one(b, z) == IF b = z THEN 1 ELSE 0
           m == [b \in Buckets |-> n[b] - one(b, x) + one(b, y)]
           ones(z) == one("queued", z) + one("busy", z) + one("retry", z) + one("exhausted", z)
                      + one("complete", z) + one("unknown", z) + one("existing_unverified", z)
                      + one("review_required", z) + one("unavailable", z) + one("excluded", z)
<1>1. ones(x) = 1 /\ ones(y) = 1
  BY DEF Buckets, Parked
<1>2. \A b \in Buckets : /\ m[b] = n[b] - one(b, x) + one(b, y) /\ n[b] \in Int
                         /\ one(b, x) \in Int /\ one(b, y) \in Int
  OBVIOUS
<1>3. Buckets = {"queued", "busy", "retry", "exhausted", "complete", "unknown",
                 "existing_unverified", "review_required", "unavailable", "excluded"}
  BY DEF Buckets, Parked
<1> HIDE DEF m, one
<1>4. Total(m) = Total(n) - ones(x) + ones(y)
  BY <1>2, <1>3 DEF Total
<1>5. Total(n) \in Int
  BY <1>3 DEF Total
<1> HIDE DEF ones
<1>6. Total(m) = Total(n)
  BY <1>1, <1>4, <1>5
<1> QED
  BY <1>6 DEF m, one

\* The sum owed for a bucket counts rows and changes by their bucket.
LEMMA OwedInt ==
    ASSUME TypeOK, Ledger, NEW w \in Weights
    PROVE  Owed(w) \in Int
BY OwedType DEF Owed, TypeOK, Ledger

\* An apply moves the item from the bucket of the preimage to that of the
\* postimage, as the rows did when the change was committed.
LEMMA ApplyStep ==
    ASSUME Inv, NEW t \in Threads, Apply(t)
    PROVE  Inv'
<1> DEFINE c == Head(pending[t])
<1>1. /\ pending' \in [Threads -> Seq(Changes)] /\ Ledger' /\ c \in Left
      /\ \A w \in Weights : Owed(w)' = Owed(w) - w[c.old] + w[c.new]
  BY ApplyMoves DEF Inv
<1>2. c \in Changes /\ (c.item = None => c.old = c.new)
  BY <1>1, LeftType DEF Inv, TypeOK, Ledger
<1>3. /\ c.old \in Rows /\ c.new \in Rows /\ c.rev \in Revisions
      /\ c.item \in Items \cup {None}
  BY <1>2 DEF Changes
<1>4. /\ shown' = c.rev
      /\ c.item = None => UNCHANGED <<counts, completeBytes, retries>>
      /\ c.item # None => /\ counts' = Shift(c.old, c.new)
                          /\ completeBytes' = Rebill(c.old, c.new)
                          /\ retries' = [retries EXCEPT ![c.item] = RetryEntry(c.new)]
      /\ UNCHANGED <<row, revision, working>>
  BY DEF Apply, durable
<1> HIDE DEF c
<1>5. /\ Bucket(c.old) \in Buckets /\ Bucket(c.new) \in Buckets
      /\ ByteShare(c.old) \in Nat /\ ByteShare(c.new) \in Nat
      /\ RetryEntry(c.new) \in {"now", "later", None}
  BY <1>3, RowValues
<1>6. /\ counts \in [Buckets -> Int] /\ completeBytes \in Int
      /\ retries \in [Items -> {"now", "later", None}]
  BY DEF Inv, TypeOK, SummaryType
<1>7. RowsType' /\ ThreadsType'
  BY <1>1, <1>4 DEF Inv, TypeOK, RowsType, ThreadsType
<1>8. SummaryType'
  <2>1. CASE c.item = None
    BY <1>3, <1>4, <1>6, <2>1 DEF SummaryType
  <2>2. CASE c.item # None
    <3>1. counts' \in [Buckets -> Int] /\ completeBytes' \in Int
      BY <1>4, <1>5, <1>6, <2>2 DEF Shift, Rebill
    <3>2. retries' \in [Items -> {"now", "later", None}]
      BY <1>4, <1>5, <1>6, <2>2
    <3> QED
      BY <1>3, <1>4, <3>1, <3>2 DEF SummaryType
  <2> QED
    BY <2>1, <2>2
<1>9. Carried'
  BY <1>4 DEF Inv, Carried, OnItem
<1>10. ASSUME NEW b \in Buckets PROVE counts'[b] = Owed(InBucket(b))'
  <2>1. PICK w \in Weights : w = InBucket(b)
    BY WeightTypes
  <2>2. /\ w[c.old] = IF Bucket(c.old) = b THEN 1 ELSE 0
        /\ w[c.new] = IF Bucket(c.new) = b THEN 1 ELSE 0
    BY <1>3, <2>1 DEF InBucket
  <2>3. counts[b] = Owed(w) /\ Owed(w) \in Int
    BY <2>1, OwedInt DEF Inv, Account
  <2>4. counts'[b] = counts[b] - w[c.old] + w[c.new]
    <3>1. CASE c.item = None
      BY <1>2, <1>4, <1>6, <2>2, <3>1
    <3>2. CASE c.item # None
      <4>1. counts'[b] = counts[b] - (IF b = Bucket(c.old) THEN 1 ELSE 0)
                                   + (IF b = Bucket(c.new) THEN 1 ELSE 0)
        BY <1>4, <3>2 DEF Shift
      <4> QED
        BY <2>2, <4>1
    <3> QED
      BY <3>1, <3>2
  <2>5. Owed(w)' = Owed(w) - w[c.old] + w[c.new]
    BY <1>1
  <2>6. counts'[b] = Owed(w)'
    BY <2>3, <2>4, <2>5
  <2> QED
    BY <2>1, <2>6 DEF Owed, Held, Before, After, InBucket, Bucket
<1>11. completeBytes' = Owed(InBytes)'
  <2>1. PICK w \in Weights : w = InBytes
    BY WeightTypes
  <2>2. w[c.old] = ByteShare(c.old) /\ w[c.new] = ByteShare(c.new)
    BY <1>3, <2>1 DEF InBytes
  <2>3. completeBytes = Owed(w) /\ Owed(w) \in Int
    BY <2>1, OwedInt DEF Inv, Account
  <2>4. completeBytes' = completeBytes - w[c.old] + w[c.new]
    BY <1>2, <1>4, <1>5, <1>6, <2>2 DEF Rebill
  <2>5. Owed(w)' = Owed(w) - w[c.old] + w[c.new]
    BY <1>1
  <2>6. completeBytes' = Owed(w)'
    BY <2>3, <2>4, <2>5
  <2> QED
    BY <2>1, <2>6 DEF Owed, Held, Before, After, InBytes, ByteShare
<1>12. Total(counts') = Cardinality(Items)
  <2>1. Total(counts) = Cardinality(Items)
    BY DEF Inv, Account
  <2>2. CASE c.item = None
    BY <1>4, <2>1, <2>2
  <2>3. CASE c.item # None
    <3> DEFINE x == Bucket(c.old)
               y == Bucket(c.new)
    <3>1. counts' = [b \in Buckets |-> counts[b] - (IF b = x THEN 1 ELSE 0)
                                                 + (IF b = y THEN 1 ELSE 0)]
      BY <1>4, <2>3 DEF Shift
    <3>2. x \in Buckets /\ y \in Buckets
      BY <1>5
    <3> HIDE DEF x, y
    <3>3. Total(counts') = Total(counts)
      BY <1>6, <3>1, <3>2, TotalShift
    <3> QED
      BY <2>1, <3>3
  <2> QED
    BY <2>2, <2>3
<1>13. Account'
  BY <1>10, <1>11, <1>12 DEF Account, Total
<1> QED
  BY <1>1, <1>7, <1>8, <1>9, <1>13 DEF Inv, TypeOK

-----------------------------------------------------------------------------
(* The initial summary.                                                    *)

\* With nothing left to apply, what is owed is the sum over the rows, and the
\* sum for a bucket is the number of its items.
LEMMA Settled ==
    ASSUME RowsType, Quiescent
    PROVE  /\ \A b \in Buckets : Owed(InBucket(b)) = CountsOf(row)[b]
           /\ Owed(InBytes) = BytesOf(row)
<1>1. Left = {}
  BY DEF Quiescent, Left, Waiting
<1>2. ASSUME NEW w \in Weights PROVE Owed(w) = Sum(Items, Held(w)) /\ Sum(Items, Held(w)) \in Nat
  <2>1. Sum(Left, Before(w)) = 0 /\ Sum(Left, After(w)) = 0
    BY <1>1, SumNone
  <2>2. \A i \in Items : Held(w)[i] \in Nat
    BY DEF Held, Weights, RowsType
  <2>3. Sum(Items, Held(w)) \in Nat
    BY <2>2, ConstantsAssumption, SumType
  <2> QED
    BY <2>1, <2>3 DEF Owed
<1>3. ASSUME NEW b \in Buckets PROVE Owed(InBucket(b)) = CountsOf(row)[b]
  <2> DEFINE f == Held(InBucket(b))
  <2>1. \A i \in Items : f[i] = IF Bucket(row[i]) = b THEN 1 ELSE 0
    BY DEF Held, InBucket, RowsType
  <2> HIDE DEF f
  <2>2. Sum(Items, f) = Cardinality({i \in Items : f[i] = 1})
    BY <2>1, ConstantsAssumption, SumCounts
  <2>3. {i \in Items : f[i] = 1} = {i \in Items : Bucket(row[i]) = b}
    BY <2>1
  <2> QED
    BY <1>2, <2>2, <2>3, WeightTypes DEF f, CountsOf
<1>4. Owed(InBytes) = BytesOf(row)
  <2> DEFINE g == [i \in Items |-> ByteShare(row[i])]
  <2>1. \A i \in Items : Held(InBytes)[i] = g[i]
    BY DEF Held, InBytes, RowsType
  <2> HIDE DEF g
  <2>2. Sum(Items, Held(InBytes)) = Sum(Items, g)
    BY <2>1, SumSame
  <2> QED
    BY <1>2, <2>2, WeightTypes DEF g, BytesOf
<1> QED
  BY <1>3, <1>4

\* The initial summary is that of the rows, and accounts for every item.
LEMMA Start == Init => Inv
<1> SUFFICES ASSUME Init PROVE Inv
  OBVIOUS
<1>1. PICK i \in Items, size \in Sizes :
        \E r \in {NewRow, [NewRow EXCEPT !.status = "retry_wait", !.attempts = 1],
                  [NewRow EXCEPT !.status = "complete", !.attempts = 1, !.bytes = size]} :
          row = [j \in Items |-> IF j = i THEN r ELSE NewRow]
  BY DEF Init
<1>2. PICK r \in {NewRow, [NewRow EXCEPT !.status = "retry_wait", !.attempts = 1],
                  [NewRow EXCEPT !.status = "complete", !.attempts = 1, !.bytes = size]} :
        row = [j \in Items |-> IF j = i THEN r ELSE NewRow]
  BY <1>1
<1>3. r \in Rows /\ NewRow \in Rows /\ Bucket(NewRow) = "queued"
  <2>1. 0 \in 0..MaxAttempts /\ 1 \in 0..MaxAttempts /\ size \in Sizes \cup {0}
    BY ConstantsAssumption
  <2>2. NewRow \in Rows
    BY <2>1 DEF Rows, NewRow, Statuses, Retryable
  <2>3. Bucket(NewRow) = "queued"
    BY DEF NewRow, Retryable, Bucket, InHand, Parked
  <2>4. r \in Rows
    BY <2>1, <2>2 DEF Rows, Statuses, Retryable
  <2> QED
    BY <2>2, <2>3, <2>4
<1>4. RowsType
  BY <1>2, <1>3, ConstantsAssumption DEF RowsType, Revisions, Init
<1>5. \A p \in Pool : working[p] = None
  BY DEF Init
<1>6. \A t \in Threads : pending[t] = <<>>
  BY DEF Init
<1>7. ThreadsType
  <2>1. working \in [Pool -> Tasks \cup {None}]
    BY DEF Init
  <2>2. pending = [t \in Threads |-> <<>>] /\ <<>> \in Seq(Changes)
    BY DEF Init
  <2> QED
    BY <2>1, <2>2 DEF ThreadsType
<1>8. Hydrated
  BY DEF Init
<1>9. CountsOf(row) \in [Buckets -> Nat]
  <2> SUFFICES ASSUME NEW b \in Buckets
               PROVE  Cardinality({j \in Items : Bucket(row[j]) = b}) \in Nat
    BY DEF CountsOf
  <2> QED
    BY ConstantsAssumption, FS_Subset, FS_CardinalityType
<1>10. Quiescent /\ Left = {}
  BY <1>6 DEF Quiescent, Left, Waiting
<1>11. BytesOf(row) \in Nat
  <2>1. \A j \in Items : row[j] \in Rows
    BY <1>4 DEF RowsType
  <2> DEFINE g == [j \in Items |-> ByteShare(row[j])]
  <2>2. \A j \in Items : g[j] \in Nat
    BY <2>1, RowValues
  <2> HIDE DEF g
  <2>3. Sum(Items, g) \in Nat
    BY <2>2, ConstantsAssumption, SumType
  <2> QED
    BY <2>3 DEF BytesOf, g
<1>12. SummaryType
  <2>1. \A j \in Items : RetryEntry(row[j]) \in {"now", "later", None}
    BY <1>4, RowValues DEF RowsType
  <2>2. retries \in [Items -> {"now", "later", None}]
    BY <1>8, <2>1 DEF Hydrated
  <2>3. counts \in [Buckets -> Int] /\ completeBytes \in Int /\ shown \in Revisions
    BY <1>4, <1>8, <1>9, <1>11 DEF Hydrated, RowsType
  <2> QED
    BY <2>2, <2>3 DEF SummaryType
<1>13. Ledger
  <2>1. IsFiniteSet(Left)
    BY <1>10, FS_EmptySet
  <2> QED
    BY <1>6, <1>10, <2>1 DEF Ledger, Waiting
<1>14. Carried
  BY <1>5 DEF Carried, OnItem
<1>15. Total(CountsOf(row)) = Cardinality(Items)
  <2> DEFINE others == Items \ {i}
             in(b)  == {j \in Items : Bucket(row[j]) = b}
             B      == Bucket(r)
  <2>1. B \in Buckets
    BY <1>3, RowValues
  <2>2. row[i] = r /\ \A j \in others : row[j] = NewRow
    BY <1>2
  <2>3. \A b \in Buckets : in(b) = (IF b = "queued" THEN others ELSE {}) \cup (IF b = B THEN {i} ELSE {})
    BY <1>3, <2>2
  <2>4. /\ IsFiniteSet(others) /\ Cardinality(others) \in Nat
        /\ Cardinality(Items) = Cardinality(others) + 1
        /\ Cardinality(others \cup {i}) = Cardinality(others) + 1
        /\ Cardinality({i}) = 1 /\ Cardinality({}) = 0
    <3>1. IsFiniteSet(others) /\ Cardinality(others) = Cardinality(Items) - 1
      BY ConstantsAssumption, FS_RemoveElement
    <3>2. Cardinality(others) \in Nat /\ Cardinality(Items) \in Nat
      BY <3>1, ConstantsAssumption, FS_CardinalityType
    <3>3. others \cup {i} = Items
      OBVIOUS
    <3>4. Cardinality({i}) = 1 /\ Cardinality({}) = 0
      BY FS_Singleton, FS_EmptySet
    <3>5. IsFiniteSet(others) /\ Cardinality(others) \in Nat
      BY <3>1, <3>2
    <3> DEFINE k == Cardinality(others)
               m == Cardinality(Items)
    <3>6. k = m - 1 /\ k \in Nat /\ m \in Nat
      BY <3>1, <3>2
    <3> HIDE DEF k, m, others, in, B
    <3>7. m = k + 1
      BY <3>6
    <3>8. Cardinality(Items) = Cardinality(others) + 1
      BY <3>7 DEF k, m
    <3>9. Cardinality(others \cup {i}) = Cardinality(others) + 1
      BY <3>3, <3>8
    <3> QED
      BY <3>4, <3>5, <3>8, <3>9
  <2> DEFINE n == Cardinality(others)
             one(b, z) == IF b = z THEN 1 ELSE 0
             rest == [b \in Buckets |-> IF b = "queued" THEN n + 1 ELSE 0]
  <2>5. \A b \in Buckets : CountsOf(row)[b] = rest[b] - one(b, "queued") + one(b, B)
    <3> SUFFICES ASSUME NEW b \in Buckets
                 PROVE  Cardinality(in(b)) = rest[b] - one(b, "queued") + one(b, B)
      BY DEF CountsOf
    <3> HIDE DEF others, in, B
    <3>1. CASE b = "queued" /\ b = B
      <4>1. in(b) = others \cup {i}
        BY <2>3, <3>1
      <4>2. Cardinality(in(b)) = n + 1 /\ n \in Nat
        BY <2>4, <4>1
      <4>3. rest[b] = n + 1
        BY <3>1
      <4> HIDE DEF n, rest
      <4> QED
        BY <3>1, <4>2, <4>3
    <3>2. CASE b = "queued" /\ b # B
      <4>1. in(b) = others
        BY <2>3, <3>2
      <4> QED
        BY <2>4, <3>2, <4>1
    <3>3. CASE b # "queued" /\ b = B
      <4>1. in(b) = {i}
        BY <2>3, <3>3
      <4> QED
        BY <2>4, <3>3, <4>1
    <3>4. CASE b # "queued" /\ b # B
      <4>1. in(b) = {}
        BY <2>3, <3>4
      <4> QED
        BY <2>4, <3>4, <4>1
    <3> QED
      BY <3>1, <3>2, <3>3, <3>4
  <2>6. CountsOf(row) = [b \in Buckets |-> rest[b] - one(b, "queued") + one(b, B)]
    BY <1>9, <2>5
  <2>7. rest \in [Buckets -> Int] /\ "queued" \in Buckets
    BY <2>4 DEF Buckets
  <2>8. Total(rest) = n + 1
    BY <2>4 DEF Total, Buckets, Parked
  <2> HIDE DEF rest, n, B, others
  <2>9. Total(CountsOf(row)) = Total(rest)
    <3> DEFINE x == "queued"
    <3>1. x \in Buckets /\ CountsOf(row) = [b \in Buckets |-> rest[b] - (IF b = x THEN 1 ELSE 0)
                                                               + (IF b = B THEN 1 ELSE 0)]
      BY <2>6, <2>7
    <3> HIDE DEF x
    <3>2. Total([b \in Buckets |-> rest[b] - (IF b = x THEN 1 ELSE 0) + (IF b = B THEN 1 ELSE 0)])
            = Total(rest)
      BY <2>1, <2>7, <3>1, TotalShift
    <3> QED
      BY <3>1, <3>2
  <2> QED
    BY <2>4, <2>8, <2>9 DEF n
<1>16. Account
  BY <1>4, <1>8, <1>9, <1>10, <1>15, Settled DEF Account, Hydrated
<1> QED
  BY <1>4, <1>7, <1>12, <1>13, <1>14, <1>16 DEF Inv, TypeOK

-----------------------------------------------------------------------------
(* The theorems.                                                           *)

\* Every step keeps the invariant.
LEMMA Steps == Inv /\ [Next]_vars => Inv'
<1> SUFFICES ASSUME Inv, [Next]_vars PROVE Inv'
  OBVIOUS
<1>1. CASE Admit
  BY <1>1, AdmitStep
<1>2. CASE ClaimRecheck
  BY <1>2, ClaimStep
<1>3. CASE RetryNow \/ SetRetryCooldown \/ Requeue \/ ControlAudit
  BY <1>3, CommandSteps
<1>4. CASE ExcludeItem
  BY <1>4, ExcludeStep
<1>5. ASSUME NEW p \in Pool, Transition(p) \/ StillUnavailable(p) \/ Return(p) PROVE Inv'
  BY <1>5, TransitionStep, EndSteps
<1>6. ASSUME NEW t \in Threads, Apply(t) PROVE Inv'
  BY <1>6, ApplyStep
<1>7. CASE UNCHANGED vars
  <2>1. UNCHANGED <<durable, pending, projection>> /\ UNCHANGED working
    BY <1>7 DEF vars
  <2>2. UNCHANGED row
    BY <2>1 DEF durable
  <2>3. working' \in [Pool -> Tasks \cup {None}] /\ Carried'
    BY <2>1, <2>2, Undisturbed
  <2> QED
    BY <2>1, <2>3, TaskStep
<1> QED
  BY <1>1, <1>2, <1>3, <1>4, <1>5, <1>6, <1>7 DEF Next

\* The inductive invariant holds in every reachable state.
THEOREM InvHolds == Spec => []Inv
<1> QED
  BY Start, Steps, PTL DEF Spec

\* Rows, threads and the summary have their types: no interleaving of tasks
\* and commands counts an attempt above --max-attempts or below zero
\* (transition(), record_capacity_pause()).
THEOREM Typed == Spec => []TypeOK
<1>1. Inv => TypeOK
  BY DEF Inv
<1> QED
  BY <1>1, InvHolds, PTL

\* Every snapshot accounts for each selected item once, and when every change
\* is applied it equals what hydrate() would read, in whatever order the threads
\* applied them (TelemetryStateProjection.apply(), copy()).
THEOREM SummaryExact == Spec => []CountsAgree
<1>1. ASSUME Inv PROVE CountsAgree
  <2>1. Total(counts) = Cardinality(Items)
    BY <1>1 DEF Inv, Account
  <2>2. ASSUME Quiescent PROVE counts = CountsOf(row) /\ completeBytes = BytesOf(row)
    <3>1. /\ \A b \in Buckets : counts[b] = CountsOf(row)[b]
          /\ completeBytes = BytesOf(row)
      BY <1>1, <2>2, Settled DEF Inv, Account, TypeOK
    <3>2. counts \in [Buckets -> Int]
      BY <1>1 DEF Inv, TypeOK, SummaryType
    <3>3. counts = CountsOf(row)
      BY <3>1, <3>2 DEF CountsOf
    <3> QED
      BY <3>1, <3>3
  <2> QED
    BY <2>1, <2>2 DEF CountsAgree
<1> QED
  BY <1>1, InvHolds, PTL
==============================================================================
