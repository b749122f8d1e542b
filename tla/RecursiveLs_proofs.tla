-------------------------- MODULE RecursiveLs_proofs --------------------------
(* Proofs about RecursiveLs, for any file system, cyclic ones included, any    *)
(* depth limit and any number of entries in a directory.                       *)
EXTENDS RecursiveLs, SequenceTheorems, WellFoundedInduction, TLAPS

-------------------------------------------------------------------------------
(* Induction over numbers, with a set for the predicate, and the functions     *)
(* that are defined by it.                                                     *)

LEMMA LeastNumber ==
  ASSUME NEW S, S \subseteq Nat, S # {}
  PROVE  \E m \in S : \A k \in S : m <= k
  <1> DEFINE R == {ss \in Nat \X Nat : ss[1] < ss[2]}
  <1>1. IsWellFoundedOn(R, Nat)
    BY NatLessThanWellFounded DEF OpToRel
  <1>2. \A x, y \in Nat : <<y, x>> \in R <=> y < x
    OBVIOUS
  <1> HIDE DEF R
  <1>3. PICK m \in S : \A k \in S : <<k, m>> \notin R
    BY <1>1, WFMin
  <1>4. \A k \in S : m <= k
    <2> TAKE k \in S
    <2>1. m \in Nat /\ k \in Nat /\ ~(k < m)
      BY <1>2, <1>3
    <2> QED BY <2>1
  <1> QED BY <1>4

LEMMA Induction ==
  ASSUME NEW n \in Nat, NEW S, 0 \in S, \A i \in 0..n : i \in S /\ i < n => i + 1 \in S
  PROVE  0..n \subseteq S
  <1> DEFINE T == (0..n) \ S
  <1> SUFFICES ASSUME T # {} PROVE FALSE
    OBVIOUS
  <1>1. PICK m \in T : \A k \in T : m <= k
    <2>1. T \subseteq Nat
      OBVIOUS
    <2> HIDE DEF T
    <2> QED BY <2>1, LeastNumber
  <1>2. m \in 1..n /\ m - 1 \in 0..n /\ m - 1 < n
    BY <1>1
  <1>3. m - 1 \in S
    <2>1. m - 1 \notin T
      BY <1>1, <1>2
    <2> QED BY <1>2, <2>1
  <1>4. m - 1 + 1 \in S
    BY <1>2, <1>3
  <1> QED BY <1>1, <1>2, <1>4

\* A function that starts with b and goes on with the steps.
Steps(g, n, V, b, step) ==
    g \in [0..n -> V] /\ g[0] = b /\ \A i \in 1..n : g[i] = step[i][g[i - 1]]

LEMMA Recursion ==
  ASSUME NEW n \in Nat, NEW V, NEW b \in V, NEW step \in [1..n -> [V -> V]]
  PROVE  \E g : Steps(g, n, V, b, step)
  <1> DEFINE Solves(g, k) == g \in [0..k -> V] /\ g[0] = b /\ \A i \in 1..k : g[i] = step[i][g[i - 1]]
             S == {k \in 0..n : \E g : Solves(g, k)}
  <1>1. 0 \in S
    <2> DEFINE g == [i \in 0..0 |-> b]
    <2>1. g \in [0..0 -> V] /\ g[0] = b /\ 1..0 = {}
      OBVIOUS
    <2> HIDE DEF g
    <2> QED BY <2>1
  <1>2. ASSUME NEW k \in 0..n, k \in S, k < n PROVE k + 1 \in S
    <2>1. PICK g : Solves(g, k)
      BY <1>2
    <2> DEFINE h == [i \in 0..(k + 1) |-> IF i <= k THEN g[i] ELSE step[k + 1][g[k]]]
    <2>2. h \in [0..(k + 1) -> V]
      <3>1. k + 1 \in 1..n /\ g[k] \in V
        BY <1>2, <2>1
      <3>2. step[k + 1][g[k]] \in V
        BY <3>1
      <3> QED BY <2>1, <3>2
    <2>3. h[0] = b /\ \A i \in 1..(k + 1) : h[i] = step[i][h[i - 1]]
      <3>1. h[0] = b
        BY <2>1
      <3>2. ASSUME NEW i \in 1..k PROVE h[i] = step[i][h[i - 1]]
        <4>1. h[i] = g[i] /\ h[i - 1] = g[i - 1]
          OBVIOUS
        <4>2. g[i] = step[i][g[i - 1]]
          BY <2>1, <3>2
        <4> HIDE DEF h
        <4> QED BY <4>1, <4>2
      <3>3. h[k + 1] = step[k + 1][h[k + 1 - 1]]
        <4>1. h[k + 1] = step[k + 1][g[k]] /\ h[k] = g[k] /\ k + 1 - 1 = k
          OBVIOUS
        <4> HIDE DEF h
        <4> QED BY <4>1
      <3>4. \A i \in 1..(k + 1) : i \in 1..k \/ i = k + 1
        OBVIOUS
      <3> HIDE DEF h
      <3> QED BY <3>1, <3>2, <3>3, <3>4
    <2> HIDE DEF h
    <2>4. Solves(h, k + 1)
      BY <2>2, <2>3
    <2> QED BY <1>2, <2>4
  <1> HIDE DEF S
  <1>3. 0..n \subseteq S
    BY <1>1, <1>2, Induction
  <1>4. n \in 0..n
    OBVIOUS
  <1>5. PICK g : Solves(g, n)
    BY <1>3, <1>4 DEF S
  <1> QED BY <1>5 DEF Steps

-------------------------------------------------------------------------------
(* Sequences. *)

LEMMA Bounded ==
  ASSUME NEW S, NEW n \in Nat, NEW s
  PROVE  s \in BoundedSeq(S, n) <=> s \in Seq(S) /\ Len(s) <= n
  <1>1. ASSUME s \in BoundedSeq(S, n) PROVE s \in Seq(S) /\ Len(s) <= n
    <2>1. PICK m \in 0..n : s \in [1..m -> S]
      BY <1>1 DEF BoundedSeq, SeqOf
    <2>2. s \in Seq(S) /\ Len(s) = m
      BY <2>1
    <2> QED BY <2>1, <2>2
  <1>2. ASSUME s \in Seq(S), Len(s) <= n PROVE s \in BoundedSeq(S, n)
    <2>1. Len(s) \in 0..n /\ s \in [1..Len(s) -> S]
      BY <1>2
    <2> QED BY <2>1 DEF BoundedSeq, SeqOf
  <1> QED BY <1>1, <1>2

LEMMA FunctionIsSeq ==
  ASSUME NEW S, NEW n \in Nat, NEW f \in [1..n -> S]
  PROVE  f \in Seq(S) /\ Len(f) = n
  OBVIOUS

LEMMA FrontOf ==
  ASSUME NEW S, NEW s \in Seq(S), s # <<>>
  PROVE  /\ Front(s) \in Seq(S) /\ Len(Front(s)) = Len(s) - 1 /\ Len(s) \in Nat \ {0}
         /\ \A i \in 1..(Len(s) - 1) : Front(s)[i] = s[i]
         /\ Last(s) = s[Len(s)] /\ Last(s) \in S
  <1>1. Len(s) \in Nat \ {0} /\ \A i \in 1..Len(s) : s[i] \in S
    OBVIOUS
  <1>2. Len(s) - 1 \in Nat /\ 1..(Len(s) - 1) \subseteq 1..Len(s) /\ Len(s) \in 1..Len(s)
    BY <1>1
  <1>3. /\ Front(s) \in Seq(S)
        /\ Len(Front(s)) = IF 1 <= Len(s) - 1 THEN Len(s) - 1 - 1 + 1 ELSE 0
        /\ \A i \in 1..(Len(s) - 1 - 1 + 1) : Front(s)[i] = s[1 + i - 1]
    BY <1>1, <1>2, SubSeqProperties DEF Front
  <1>4. Len(s) - 1 - 1 + 1 = Len(s) - 1 /\ \A i \in 1..(Len(s) - 1) : 1 + i - 1 = i
    BY <1>1
  <1>5. Len(Front(s)) = Len(s) - 1
    <2>1. PICK n \in Nat \ {0} : n = Len(s)
      BY <1>1
    <2>2. (IF 1 <= n - 1 THEN n - 1 - 1 + 1 ELSE 0) = n - 1
      OBVIOUS
    <2> QED BY <1>3, <2>1, <2>2
  <1>6. \A i \in 1..(Len(s) - 1) : Front(s)[i] = s[i]
    BY <1>3, <1>4
  <1>7. Last(s) = s[Len(s)]
    BY DEF Last
  <1> QED BY <1>1, <1>2, <1>3, <1>5, <1>6, <1>7

LEMMA AppendTo ==
  ASSUME NEW S, NEW s \in Seq(S), NEW x \in S
  PROVE  /\ Append(s, x) \in Seq(S) /\ Len(Append(s, x)) = Len(s) + 1 /\ Append(s, x) # <<>>
         /\ Front(Append(s, x)) = s /\ Last(Append(s, x)) = x
         /\ Append(s, x) = s \o <<x>>
  <1>1. /\ Append(s, x) \in Seq(S) /\ Len(Append(s, x)) = Len(s) + 1
        /\ Append(s, x)[Len(s) + 1] = x
        /\ \A i \in 1..Len(s) : Append(s, x)[i] = s[i]
    OBVIOUS
  <1>2. Append(s, x) # <<>>
    BY <1>1
  <1>3. Last(Append(s, x)) = x
    BY <1>1 DEF Last
  <1>4. Front(Append(s, x)) = s
    <2> DEFINE t == Append(s, x)
    <2>1. /\ t \in Seq(S) /\ t # <<>> /\ Len(t) = Len(s) + 1 /\ Len(s) \in Nat
          /\ \A i \in 1..Len(s) : t[i] = s[i]
      BY <1>1, <1>2
    <2> HIDE DEF t
    <2>3. /\ Front(t) \in Seq(S) /\ Len(Front(t)) = Len(t) - 1
          /\ \A i \in 1..(Len(t) - 1) : Front(t)[i] = t[i]
      BY <2>1, FrontOf
    <2>4. Len(t) - 1 = Len(s)
      BY <2>1
    <2>5. Len(Front(t)) = Len(s) /\ \A i \in 1..Len(s) : Front(t)[i] = s[i]
      BY <2>1, <2>3, <2>4
    <2>2. Front(t) = s
      BY <2>3, <2>5, SeqEqual
    <2> QED BY <2>2 DEF t
  <1>5. Append(s, x) = s \o <<x>>
    BY AppendIsConcat
  <1> QED BY <1>1, <1>2, <1>3, <1>4, <1>5

LEMMA PrefixMeans ==
  ASSUME NEW S, NEW s \in Seq(S), NEW t \in Seq(S)
  PROVE  IsPrefix(s, t) <=> Len(s) <= Len(t) /\ \A i \in 1..Len(s) : s[i] = t[i]
  <1>1. ASSUME Len(s) <= Len(t)
        PROVE  SubSeq(s, 1, Len(s)) = SubSeq(t, 1, Len(s)) <=> \A i \in 1..Len(s) : s[i] = t[i]
    <2>1. /\ SubSeq(s, 1, Len(s)) \in Seq(S) /\ SubSeq(t, 1, Len(s)) \in Seq(S)
          /\ Len(SubSeq(s, 1, Len(s))) = Len(s) /\ Len(SubSeq(t, 1, Len(s))) = Len(s)
          /\ \A i \in 1..Len(s) : SubSeq(s, 1, Len(s))[i] = s[i] /\ SubSeq(t, 1, Len(s))[i] = t[i]
      BY <1>1
    <2> QED BY <2>1, SeqEqual
  <1> QED BY <1>1 DEF IsPrefix

LEMMA PrefixOfItself ==
  ASSUME NEW S, NEW s \in Seq(S)
  PROVE  IsPrefix(s, s)
  BY PrefixMeans

LEMMA PrefixTransitive ==
  ASSUME NEW S, NEW s \in Seq(S), NEW t \in Seq(S), NEW u \in Seq(S),
         IsPrefix(s, t), IsPrefix(t, u)
  PROVE  IsPrefix(s, u)
  <1>1. Len(s) <= Len(t) /\ \A i \in 1..Len(s) : s[i] = t[i]
    BY PrefixMeans
  <1>2. Len(t) <= Len(u) /\ \A i \in 1..Len(t) : t[i] = u[i]
    BY PrefixMeans
  <1>3. \A i \in 1..Len(s) : i \in 1..Len(t)
    BY <1>1
  <1>4. Len(s) <= Len(u) /\ \A i \in 1..Len(s) : s[i] = u[i]
    BY <1>1, <1>2, <1>3
  <1> QED BY <1>4, PrefixMeans

LEMMA FrontIsPrefix ==
  ASSUME NEW S, NEW s \in Seq(S)
  PROVE  IsPrefix(Front(s), s) /\ Front(s) \in Seq(S)
  <1>1. CASE s = <<>>
    <2>1. Front(s) = <<>>
      <3>1. Len(s) - 1 \in Int /\ 1 \in Int /\ Len(s) - 1 < 1
        BY <1>1
      <3> QED BY <3>1, SubSeqEmpty DEF Front
    <2>2. Len(s) = 0 /\ <<>> \in Seq(S)
      BY <1>1
    <2>3. IsPrefix(s, s)
      BY PrefixMeans
    <2> QED BY <1>1, <2>1, <2>2, <2>3
  <1>2. CASE s # <<>>
    <2>1. /\ Front(s) \in Seq(S) /\ Len(Front(s)) = Len(s) - 1 /\ Len(s) \in Nat \ {0}
          /\ \A i \in 1..(Len(s) - 1) : Front(s)[i] = s[i]
      BY <1>2, FrontOf
    <2> QED BY <2>1, PrefixMeans
  <1> QED BY <1>1, <1>2

LEMMA Prepended ==
  ASSUME NEW X, NEW x \in X, NEW s \in Seq(X), NEW t \in Seq(X), Len(t) = Len(s) + 1,
         t[1] = x, \A i \in 1..Len(s) : t[i + 1] = s[i]
  PROVE  t = <<x>> \o s
  <1>1. PICK n \in Nat : n = Len(s)
    OBVIOUS
  <1>2. <<x>> \in Seq(X) /\ Len(<<x>>) = 1 /\ <<x>>[1] = x
    OBVIOUS
  <1>3. PICK f : f = <<x>> /\ f \in Seq(X) /\ Len(f) = 1 /\ f[1] = x
    BY <1>2
  <1>4. /\ f \o s \in Seq(X) /\ Len(f \o s) = 1 + n
        /\ \A i \in 1..(1 + n) : (f \o s)[i] = IF i <= 1 THEN f[i] ELSE s[i - 1]
    BY <1>1, <1>3, ConcatProperties
  <1>5. ASSUME NEW i \in 1..(1 + n) PROVE t[i] = (f \o s)[i]
    <2>1. CASE i = 1
      BY <1>3, <1>4, <2>1
    <2>2. CASE i # 1
      <3>1. PICK j \in 1..n : j = i - 1 /\ j + 1 = i
        BY <1>1, <2>2
      <3>2. t[j + 1] = s[j] /\ ~(i <= 1)
        BY <1>1, <2>2, <3>1
      <3>3. (f \o s)[i] = s[i - 1]
        BY <1>4, <3>2
      <3> QED BY <3>1, <3>2, <3>3
    <2> QED BY <2>1, <2>2
  <1>6. t = f \o s
    <2>1. Len(t) = 1 + n
      BY <1>1
    <2> QED BY <1>4, <1>5, <2>1, SeqEqual
  <1> QED BY <1>3, <1>6

\* FlattenSeq concatenates from the left.
LEMMA Flattened ==
  ASSUME NEW X, NEW s \in Seq(Seq(X)), Len(s) # 0
  PROVE  \E g \in [1..Len(s) -> Seq(X)] :
            /\ g[1] = s[1] /\ \A i \in 1..(Len(s) - 1) : g[i + 1] = g[i] \o s[i + 1]
            /\ FlattenSeq(s) = g[Len(s)]
  <1> DEFINE n == Len(s)
             V == Seq(X)
             step == [i \in 1..(n - 1) |-> [v \in V |-> v \o s[i + 1]]]
  <1>1. n \in Nat /\ n - 1 \in Nat /\ s \in [1..n -> V]
    OBVIOUS
  <1>2. step \in [1..(n - 1) -> [V -> V]]
    <2>1. \A i \in 1..(n - 1), v \in V : v \o s[i + 1] \in V
      BY <1>1, ConcatProperties
    <2> QED BY <2>1
  <1>3. \A i \in 1..(n - 1), v \in V : step[i][v] = v \o s[i + 1]
    OBVIOUS
  <1>4. s[1] \in V
    BY <1>1
  <1> HIDE DEF step, n, V
  <1>5. PICK f \in [0..(n - 1) -> V] : f[0] = s[1] /\ \A i \in 1..(n - 1) : f[i] = step[i][f[i - 1]]
    <2>1. PICK m, b : m = n - 1 /\ b = s[1]
      OBVIOUS
    <2>2. m \in Nat /\ b \in V /\ step \in [1..m -> [V -> V]]
      BY <1>1, <1>2, <1>4, <2>1
    <2>3. PICK f : Steps(f, m, V, b, step)
      BY <2>2, Recursion
    <2> QED BY <2>1, <2>3 DEF Steps
  <1>6. ASSUME NEW i \in 1..(n - 1)
        PROVE  f[i - 1] \in V /\ f[i] = f[i - 1] \o s[i + 1]
    <2>1. i - 1 \in 0..(n - 1)
      BY <1>1
    <2>2. f[i - 1] \in V
      BY <1>5, <2>1
    <2> QED BY <1>3, <1>5, <2>2
  <1> DEFINE g == [i \in 1..n |-> f[i - 1]]
             Solves(h) == h = [i \in 1..n |-> IF i = 1 THEN s[i] ELSE h[i - 1] \o s[i]]
             flatten == CHOOSE h : Solves(h)
  <1>7. Solves(g)
    <2>1. \A i \in 1..n : i # 1 => i - 1 \in 1..(n - 1) /\ i - 1 \in 1..n /\ i - 1 + 1 = i
      BY <1>1
    <2>2. ASSUME NEW i \in 1..n PROVE g[i] = IF i = 1 THEN s[i] ELSE g[i - 1] \o s[i]
      <3>1. CASE i = 1
        BY <1>1, <1>5, <3>1
      <3>2. CASE i # 1
        <4>1. f[i - 1] = f[i - 1 - 1] \o s[i - 1 + 1]
          BY <1>6, <2>1, <3>2
        <4>2. g[i] = f[i - 1] /\ g[i - 1] = f[i - 1 - 1]
          BY <2>1, <3>2
        <4> HIDE DEF g
        <4> QED BY <2>1, <3>2, <4>1, <4>2
      <3> QED BY <3>1, <3>2
    <2> QED BY <2>2
  <1>8. Solves(flatten)
    BY <1>7
  <1>9. FlattenSeq(s) = flatten[n]
    BY DEF FlattenSeq, n
  <1> HIDE DEF flatten, g
  <1>10. flatten[1] = s[1] /\ \A i \in 1..(n - 1) : flatten[i + 1] = flatten[i] \o s[i + 1]
    <2>1. 1 \in 1..n
      BY <1>1 DEF n
    <2>2. \A i \in 1..(n - 1) : i + 1 \in 1..n /\ i + 1 # 1 /\ i + 1 - 1 = i
      BY <1>1
    <2>3. \A i \in 1..n : flatten[i] = IF i = 1 THEN s[i] ELSE flatten[i - 1] \o s[i]
      BY <1>8
    <2>4. flatten[1] = s[1]
      BY <2>1, <2>3
    <2>5. ASSUME NEW i \in 1..(n - 1) PROVE flatten[i + 1] = flatten[i] \o s[i + 1]
      <3>1. PICK j \in 1..n : j = i + 1
        BY <2>2
      <3>2. j # 1 /\ j - 1 = i
        BY <2>2, <3>1
      <3>3. flatten[j] = flatten[j - 1] \o s[j]
        BY <2>3, <3>2
      <3> QED BY <3>1, <3>2, <3>3
    <2> QED BY <2>4, <2>5
  <1>11. \A i \in 1..n : flatten[i] \in V
    <2> DEFINE S == {i \in 0..(n - 1) : flatten[i + 1] \in V}
    <2>1. 0 \in S
      BY <1>1, <1>4, <1>10
    <2>2. \A i \in 0..(n - 1) : i \in S /\ i < n - 1 => i + 1 \in S
      <3> SUFFICES ASSUME NEW i \in 0..(n - 1), i \in S, i < n - 1 PROVE i + 1 \in S
        OBVIOUS
      <3>1. i + 1 \in 1..(n - 1) /\ i + 1 \in 0..(n - 1) /\ i + 1 + 1 \in 1..n
        BY <1>1
      <3>2. flatten[i + 1 + 1] = flatten[i + 1] \o s[i + 1 + 1]
        BY <1>10, <3>1
      <3>3. flatten[i + 1] \in V /\ s[i + 1 + 1] \in V
        BY <1>1, <3>1
      <3>4. flatten[i + 1 + 1] \in V
        BY <3>2, <3>3, ConcatProperties DEF V
      <3> QED BY <3>1, <3>4
    <2> HIDE DEF S
    <2>3. 0..(n - 1) \subseteq S
      BY <1>1, <2>1, <2>2, Induction
    <2>4. \A i \in 1..n : i - 1 \in 0..(n - 1) /\ i - 1 + 1 = i
      BY <1>1
    <2> QED BY <2>3, <2>4 DEF S
  <1>12. flatten \in [1..n -> V]
    BY <1>8, <1>11
  <1> QED BY <1>9, <1>10, <1>12 DEF n, V

-------------------------------------------------------------------------------
(* The file system and what is expected of its listing. *)

ListingTypes == tree \in [Dirs -> Listings] /\ max_depth \in Nat

\* Names of the directories in a directory.
DirNames(dir) == {name \in DOMAIN tree[dir] : tree[dir][name] \in Dirs}

LEMMA TreeOf ==
  ASSUME ListingTypes, NEW dir \in Dirs
  PROVE  /\ tree[dir] \in Seq(Dirs \cup {File}) /\ Len(tree[dir]) \in 0..MaxEntries
         /\ DOMAIN tree[dir] = 1..Len(tree[dir]) /\ DOMAIN tree[dir] \subseteq Name
         /\ Name \subseteq Nat
  <1>1. tree[dir] \in BoundedSeq(Dirs \cup {File}, MaxEntries)
    BY DEF ListingTypes, Listings
  <1>2. tree[dir] \in Seq(Dirs \cup {File}) /\ Len(tree[dir]) <= MaxEntries
    BY <1>1, Bounded, DepthsAssumption
  <1>3. Len(tree[dir]) \in Nat /\ DOMAIN tree[dir] = 1..Len(tree[dir])
    BY <1>2
  <1> QED BY <1>2, <1>3, DepthsAssumption DEF Name

LEMMA SubdirsOf ==
  ASSUME ListingTypes, NEW dir \in Dirs
  PROVE  Subdirs(dir) \in Seq(DirNames(dir))
  <1> DEFINE listing == tree[dir]
             n == Len(listing)
             V == Seq(DirNames(dir))
             step == [i \in 1..n |-> [v \in V |-> IF listing[i] = File THEN v ELSE Append(v, i)]]
             Solves(h) == h = [i \in 0..n |-> IF i = 0 THEN <<>>
                                              ELSE IF listing[i] = File THEN h[i - 1]
                                              ELSE Append(h[i - 1], i)]
             among == CHOOSE h : Solves(h)
  <1>1. n \in Nat /\ DOMAIN listing = 1..n /\ listing \in [1..n -> Dirs \cup {File}] /\ <<>> \in V
    BY TreeOf
  <1>2. \A i \in 1..n : listing[i] # File => i \in DirNames(dir)
    BY <1>1 DEF DirNames
  <1>3. Subdirs(dir) = among[n]
    BY DEF Subdirs
  <1> HIDE DEF listing, n
  <1>4. \A i \in 1..n, v \in V : (IF listing[i] = File THEN v ELSE Append(v, i)) \in V
    BY <1>2, AppendProperties
  <1>5. step \in [1..n -> [V -> V]]
    BY <1>4
  <1>6. \A i \in 1..n, v \in V : step[i][v] = IF listing[i] = File THEN v ELSE Append(v, i)
    OBVIOUS
  <1> HIDE DEF step, V
  <1>7. PICK g : Steps(g, n, V, <<>>, step)
    BY <1>1, <1>5, Recursion
  <1>8. Solves(g)
    <2>1. g \in [0..n -> V] /\ g[0] = <<>> /\ \A i \in 1..n : g[i] = step[i][g[i - 1]]
      BY <1>7 DEF Steps
    <2>2. ASSUME NEW i \in 1..n
          PROVE  g[i] = IF listing[i] = File THEN g[i - 1] ELSE Append(g[i - 1], i)
      <3>1. i - 1 \in 0..n
        BY <1>1
      <3>2. g[i - 1] \in V
        BY <2>1, <3>1
      <3> QED BY <1>6, <2>1, <3>2
    <2>3. \A i \in 0..n : i = 0 \/ i \in 1..n
      BY <1>1
    <2> QED BY <2>1, <2>2, <2>3
  <1>9. Solves(among)
    BY <1>8
  <1> HIDE DEF among
  <1>10. among[n] \in V
    <2> DEFINE S == {i \in 0..n : among[i] \in V}
    <2>1. 0 \in S
      BY <1>1, <1>9
    <2>2. \A i \in 0..n : i \in S /\ i < n => i + 1 \in S
      <3> SUFFICES ASSUME NEW i \in 0..n, among[i] \in V, i < n PROVE i + 1 \in S
        OBVIOUS
      <3>1. PICK k \in 1..n : k = i + 1
        BY <1>1
      <3>2. k # 0 /\ k \in 0..n /\ k - 1 = i
        BY <3>1
      <3>3. among[k] = IF listing[k] = File THEN among[k - 1] ELSE Append(among[k - 1], k)
        BY <1>9, <3>2
      <3>4. among[k] = IF listing[k] = File THEN among[i] ELSE Append(among[i], k)
        BY <3>2, <3>3
      <3>5. among[k] \in V
        BY <1>4, <3>4
      <3> QED BY <3>1, <3>2, <3>5
    <2> HIDE DEF S
    <2>3. 0..n \subseteq S
      BY <1>1, <2>1, <2>2, Induction
    <2>4. n \in 0..n
      BY <1>1
    <2> QED BY <2>3, <2>4 DEF S
  <1> QED BY <1>3, <1>10 DEF V

\* The directory at the end of a path.
LEMMA DirAtUnfolds ==
  ASSUME ListingTypes
  PROVE  /\ DirAt[<<>>] = Root
         /\ \A path \in Path : path # <<>> => DirAt[path] = tree[DirAt[Front(path)]][Last(path)]
  <1> DEFINE N == 1 + max_depth
             Solves(h, P) == h = [path \in P |-> IF path = <<>> THEN Root
                                                 ELSE tree[h[Front(path)]][Last(path)]]
             S == {k \in 0..N : \E g : Solves(g, BoundedSeq(Name, k))}
  <1>1. N \in Nat
    BY DEF ListingTypes
  <1>2. 0 \in S
    <2> DEFINE g == [path \in BoundedSeq(Name, 0) |-> Root]
    <2>1. \A path \in BoundedSeq(Name, 0) : path = <<>>
      BY Bounded
    <2>2. Solves(g, BoundedSeq(Name, 0))
      BY <2>1
    <2> HIDE DEF Solves, g
    <2> QED BY <1>1, <2>2
  <1>3. ASSUME NEW k \in 0..N, k \in S, k < N PROVE k + 1 \in S
    <2> DEFINE P == BoundedSeq(Name, k)
               Q == BoundedSeq(Name, k + 1)
    <2>1. PICK g : Solves(g, P)
      BY <1>3
    <2> DEFINE h == [path \in Q |-> IF path = <<>> THEN Root ELSE tree[g[Front(path)]][Last(path)]]
    <2>2. k \in Nat /\ k + 1 \in Nat /\ k + 1 \in 0..N
      BY <1>1, <1>3
    <2>3. P \subseteq Q
      BY <2>2, Bounded
    <2>4. ASSUME NEW path \in Q, path # <<>> PROVE Front(path) \in P
      <3>1. path \in Seq(Name) /\ Len(path) <= k + 1
        BY <2>2, Bounded
      <3>2. Front(path) \in Seq(Name) /\ Len(Front(path)) = Len(path) - 1 /\ Len(path) \in Nat
        BY <2>4, <3>1, FrontOf
      <3>3. Len(Front(path)) <= k
        BY <2>2, <3>1, <3>2
      <3> QED BY <2>2, <3>2, <3>3, Bounded
    <2> HIDE DEF P, Q
    <2>5. \A path \in P : h[path] = g[path]
      BY <2>1, <2>3
    <2>6. Solves(h, Q)
      <3>1. \A path \in Q : path # <<>> => h[Front(path)] = g[Front(path)]
        BY <2>4, <2>5
      <3>2. ASSUME NEW path \in Q
            PROVE  h[path] = IF path = <<>> THEN Root ELSE tree[h[Front(path)]][Last(path)]
        BY <3>1
      <3>3. h = [path \in Q |-> h[path]]
        OBVIOUS
      <3> HIDE DEF h
      <3> QED BY <3>2, <3>3
    <2> HIDE DEF Solves, h
    <2> QED BY <2>2, <2>6 DEF Q
  <1> HIDE DEF S
  <1>4. 0..N \subseteq S
    BY <1>1, <1>2, <1>3, Induction
  <1>5. \E g : Solves(g, Path)
    <2>1. N \in S /\ Path = BoundedSeq(Name, N)
      BY <1>1, <1>4 DEF Path
    <2> HIDE DEF Solves, N
    <2> QED BY <2>1 DEF S
  <1>6. Solves(DirAt, Path)
    BY <1>5 DEF DirAt
  <1>7. <<>> \in Path
    <2>1. <<>> \in Seq(Name) /\ Len(<<>>) <= N /\ Path = BoundedSeq(Name, N)
      BY <1>1 DEF Path
    <2> QED BY <1>1, <2>1, Bounded
  <1> QED BY <1>6, <1>7

LEMMA Associative ==
  ASSUME NEW X, NEW x \in Seq(X), NEW y \in Seq(X), NEW z \in Seq(X)
  PROVE  (x \o y) \o z = x \o (y \o z)
  BY ConcatAssociative

\* What Expected is made of: the entries of a directory, and what is below them.
Names(dir) == [name \in DOMAIN tree[dir] |-> <<name>>]
Named(name, below) == [j \in DOMAIN below |-> <<name>> \o below[j]]
Deeper(listing, dir) ==
    [i \in DOMAIN Subdirs(dir) |-> Named(Subdirs(dir)[i], listing[tree[dir][Subdirs(dir)[i]]])]

Paths == Seq(Seq(Nat))

LEMMA PathsConcat ==
  ASSUME NEW x \in Paths, NEW y \in Paths
  PROVE  x \o y \in Paths /\ <<>> \o x = x /\ x \o <<>> = x /\ <<>> \in Paths
  <1>1. PICK X : x \in Seq(X) /\ y \in Seq(X) /\ X = Seq(Nat)
    BY DEF Paths
  <1>2. x \o y \in Seq(X) /\ <<>> \o x = x /\ x \o <<>> = x /\ <<>> \in Seq(X)
    BY <1>1, ConcatProperties, ConcatEmptySeq
  <1> QED BY <1>1, <1>2 DEF Paths

LEMMA PathsAssociative ==
  ASSUME NEW x, NEW y, NEW z, x \in Paths, y \in Paths, z \in Paths
  PROVE  (x \o y) \o z = x \o (y \o z)
  <1>1. PICK Y : x \in Seq(Y) /\ y \in Seq(Y) /\ z \in Seq(Y)
    BY DEF Paths
  <1> QED BY <1>1, Associative

LEMMA NamesTypes ==
  ASSUME ListingTypes, NEW dir \in Dirs
  PROVE  Names(dir) \in Paths
  <1>1. DOMAIN tree[dir] = 1..Len(tree[dir]) /\ Len(tree[dir]) \in Nat /\ DOMAIN tree[dir] \subseteq Nat
    BY TreeOf
  <1>2. \A name \in DOMAIN tree[dir] : <<name>> \in Seq(Nat)
    BY <1>1
  <1>3. Names(dir) \in [1..Len(tree[dir]) -> Seq(Nat)]
    BY <1>1, <1>2 DEF Names
  <1> QED BY <1>1, <1>3, FunctionIsSeq DEF Paths

LEMMA DeeperTypes ==
  ASSUME ListingTypes, NEW dir \in Dirs, NEW listing \in [Dirs -> Paths]
  PROVE  /\ Deeper(listing, dir) \in Seq(Paths) /\ FlattenSeq(Deeper(listing, dir)) \in Paths
         /\ Len(Deeper(listing, dir)) = Len(Subdirs(dir))
  <1> DEFINE names == Subdirs(dir)
             n == Len(names)
  <1>1. names \in Seq(DirNames(dir)) /\ n \in Nat /\ DOMAIN names = 1..n
    BY SubdirsOf
  <1>2. ASSUME NEW i \in 1..n PROVE Named(names[i], listing[tree[dir][names[i]]]) \in Paths
    <2>1. names[i] \in DirNames(dir)
      BY <1>1
    <2>2. tree[dir][names[i]] \in Dirs /\ names[i] \in Nat
      BY <2>1, TreeOf DEF DirNames
    <2>3. PICK name, below : name = names[i] /\ below = listing[tree[dir][names[i]]]
      OBVIOUS
    <2>4. name \in Nat /\ below \in Seq(Seq(Nat))
      BY <2>2, <2>3 DEF Paths
    <2>5. \A j \in 1..Len(below) : <<name>> \o below[j] \in Seq(Nat)
      <3> TAKE j \in 1..Len(below)
      <3>1. <<name>> \in Seq(Nat) /\ below[j] \in Seq(Nat)
        BY <2>4
      <3> QED BY <3>1, ConcatProperties
    <2>6. Named(name, below) \in [1..Len(below) -> Seq(Nat)] /\ Len(below) \in Nat
      BY <2>4, <2>5 DEF Named
    <2>7. Named(name, below) \in Seq(Seq(Nat))
      BY <2>6, FunctionIsSeq
    <2> QED BY <2>3, <2>7 DEF Paths
  <1>3. Deeper(listing, dir) \in [1..n -> Paths]
    BY <1>1, <1>2 DEF Deeper
  <1>4. Deeper(listing, dir) \in Seq(Paths) /\ Len(Deeper(listing, dir)) = n
    BY <1>1, <1>3, FunctionIsSeq
  <1>5. CASE n = 0
    <2>1. Deeper(listing, dir) = <<>>
      BY <1>4, <1>5
    <2> QED BY <1>4, <1>5, <2>1 DEF FlattenSeq, Paths
  <1>6. CASE n # 0
    <2> DEFINE s == Deeper(listing, dir)
    <2>1. s \in Seq(Seq(Seq(Nat))) /\ Len(s) # 0 /\ Len(s) \in 1..Len(s)
      BY <1>1, <1>4, <1>6 DEF Paths
    <2> HIDE DEF s
    <2>2. \E g \in [1..Len(s) -> Seq(Seq(Nat))] : FlattenSeq(s) = g[Len(s)]
      BY <2>1, Flattened
    <2>3. FlattenSeq(s) \in Paths
      BY <2>1, <2>2 DEF Paths
    <2> QED BY <1>4, <2>3 DEF s
  <1> QED BY <1>4, <1>5, <1>6

LEMMA ExpectedUnfolds ==
  ASSUME ListingTypes
  PROVE  /\ Expected \in [0..max_depth -> [Dirs -> Paths]]
         /\ \A dir \in Dirs : Expected[0][dir] = Names(dir)
         /\ \A k \in 1..max_depth, dir \in Dirs :
               Expected[k][dir] = Names(dir) \o FlattenSeq(Deeper(Expected[k - 1], dir))
  <1> DEFINE V == [Dirs -> Paths]
             b == [dir \in Dirs |-> Names(dir)]
             next == [v \in V |-> [dir \in Dirs |-> Names(dir) \o FlattenSeq(Deeper(v, dir))]]
             step == [i \in 1..max_depth |-> next]
             Solves(h) == h = [k \in 0..max_depth |->
                 [dir \in Dirs |->
                     Names(dir) \o IF k = 0 THEN <<>> ELSE FlattenSeq(Deeper(h[k - 1], dir))]]
  <1>1. max_depth \in Nat
    BY DEF ListingTypes
  <1>2. b \in V
    BY NamesTypes
  <1>3. next \in [V -> V]
    <2>1. ASSUME NEW v \in V, NEW dir \in Dirs
          PROVE  Names(dir) \o FlattenSeq(Deeper(v, dir)) \in Paths
      <3>1. Names(dir) \in Paths /\ FlattenSeq(Deeper(v, dir)) \in Paths
        BY NamesTypes, DeeperTypes
      <3> QED BY <3>1, ConcatProperties DEF Paths
    <2> QED BY <2>1
  <1>4. step \in [1..max_depth -> [V -> V]]
    BY <1>3
  <1>5. /\ \A i \in 1..max_depth : step[i] = next
        /\ \A v \in V : next[v] = [dir \in Dirs |-> Names(dir) \o FlattenSeq(Deeper(v, dir))]
    OBVIOUS
  <1>6. \A dir \in Dirs : Names(dir) \o <<>> = Names(dir)
    BY NamesTypes, ConcatEmptySeq DEF Paths
  <1>7. b = [dir \in Dirs |-> Names(dir) \o <<>>]
    BY <1>6
  <1> HIDE DEF V, b, next, step
  <1>8. PICK g : Steps(g, max_depth, V, b, step)
    BY <1>1, <1>2, <1>4, Recursion
  <1>9. Solves(g)
    <2>1. g \in [0..max_depth -> V] /\ g[0] = b /\ \A i \in 1..max_depth : g[i] = step[i][g[i - 1]]
      BY <1>8 DEF Steps
    <2>2. ASSUME NEW i \in 1..max_depth
          PROVE  g[i] = [dir \in Dirs |-> Names(dir) \o FlattenSeq(Deeper(g[i - 1], dir))]
      <3>1. i - 1 \in 0..max_depth
        BY <1>1
      <3>2. g[i - 1] \in V /\ g[i] = next[g[i - 1]]
        BY <1>5, <2>1, <3>1
      <3> QED BY <1>5, <3>2
    <2>3. \A i \in 0..max_depth : i = 0 \/ (i \in 1..max_depth /\ i # 0)
      BY <1>1
    <2>4. ASSUME NEW k \in 0..max_depth
          PROVE  g[k] = [dir \in Dirs |->
                     Names(dir) \o IF k = 0 THEN <<>> ELSE FlattenSeq(Deeper(g[k - 1], dir))]
      <3>1. CASE k = 0
        BY <1>7, <2>1, <3>1
      <3>2. CASE k # 0
        <4>1. k \in 1..max_depth
          BY <2>3, <3>2
        <4>2. g[k] = [dir \in Dirs |-> Names(dir) \o FlattenSeq(Deeper(g[k - 1], dir))]
          BY <2>2, <4>1
        <4> QED BY <3>2, <4>2
      <3> QED BY <3>1, <3>2
    <2> QED BY <2>1, <2>4
  <1>10. Solves(Expected)
    <2> DEFINE E == CHOOSE h : Solves(h)
    <2>1. Solves(E)
      BY <1>9
    <2>2. Expected = E
      BY DEF Expected, Deeper, Named, Names
    <2> QED BY <2>1, <2>2
  <1>11. /\ Expected[0] = b
         /\ \A k \in 1..max_depth :
               Expected[k] = [dir \in Dirs |-> Names(dir) \o FlattenSeq(Deeper(Expected[k - 1], dir))]
    <2>1. ASSUME NEW k \in 0..max_depth
          PROVE  Expected[k] = [dir \in Dirs |->
                     Names(dir) \o IF k = 0 THEN <<>> ELSE FlattenSeq(Deeper(Expected[k - 1], dir))]
      BY <1>10
    <2>2. Expected[0] = b
      <3>1. 0 \in 0..max_depth
        BY <1>1
      <3>2. PICK k : k = 0
        OBVIOUS
      <3>3. Expected[k] = [dir \in Dirs |-> Names(dir) \o <<>>]
        BY <2>1, <3>1, <3>2
      <3> QED BY <1>7, <3>2, <3>3
    <2>3. ASSUME NEW k \in 1..max_depth
          PROVE  Expected[k] = [dir \in Dirs |-> Names(dir) \o FlattenSeq(Deeper(Expected[k - 1], dir))]
      <3>1. k \in 0..max_depth /\ k # 0
        BY <1>1
      <3> QED BY <2>1, <3>1
    <2> QED BY <2>2, <2>3
  <1>12. \A k \in 0..max_depth : Expected[k] \in V
    <2> DEFINE S == {k \in 0..max_depth : Expected[k] \in V}
    <2>1. 0 \in S
      BY <1>1, <1>2, <1>11
    <2>2. \A k \in 0..max_depth : k \in S /\ k < max_depth => k + 1 \in S
      <3> SUFFICES ASSUME NEW k \in 0..max_depth, Expected[k] \in V, k < max_depth PROVE k + 1 \in S
        OBVIOUS
      <3>1. PICK i \in 1..max_depth : i = k + 1
        BY <1>1
      <3>2. i \in 0..max_depth /\ i - 1 = k
        BY <3>1
      <3>3. Expected[i] = next[Expected[k]]
        BY <1>5, <1>11, <3>2
      <3>4. Expected[i] \in V
        BY <1>3, <3>3
      <3> QED BY <3>1, <3>2, <3>4
    <2> HIDE DEF S
    <2>3. 0..max_depth \subseteq S
      BY <1>1, <2>1, <2>2, Induction
    <2> QED BY <2>3 DEF S
  <1>13. Expected \in [0..max_depth -> V]
    BY <1>10, <1>12
  <1> QED BY <1>11, <1>13 DEF V, b

-------------------------------------------------------------------------------
(* The queue, and what is still to be handed out. *)

\* What the queue holds: a directory, at the end of its path.
Entry(q) ==
    /\ q \in Queued /\ q.abs_path = q.rel_path /\ Len(q.rel_path) = q.depth
    /\ DirAt[q.abs_path] \in Dirs

\* A listing, by paths from the start.
Under(rel, listing) == [j \in DOMAIN listing |-> rel \o listing[j]]

\* What an entry of the queue will contribute.
Listing(q) == Under(q.rel_path, Expected[max_depth - q.depth][DirAt[q.abs_path]])

\* The entries of the queue are listed from its end.
Contributes(rest, queue, base) ==
    /\ rest \in [0..Len(queue) -> Paths] /\ rest[0] = base
    /\ \A i \in 1..Len(queue) : rest[i] = Listing(queue[i]) \o rest[i - 1]

LEMMA UnderTypes ==
  ASSUME NEW rel \in Seq(Nat), NEW s \in Paths, NEW t \in Paths
  PROVE  /\ Under(rel, s) \in Paths
         /\ Under(rel, s \o t) = Under(rel, s) \o Under(rel, t)
  <1>1. ASSUME NEW u \in Paths
        PROVE  /\ Under(rel, u) \in Paths /\ Len(Under(rel, u)) = Len(u)
               /\ \A j \in 1..Len(u) : Under(rel, u)[j] = rel \o u[j]
    <2>1. u \in Seq(Seq(Nat)) /\ Len(u) \in Nat /\ DOMAIN u = 1..Len(u)
      BY DEF Paths
    <2>2. \A j \in 1..Len(u) : rel \o u[j] \in Seq(Nat)
      <3> TAKE j \in 1..Len(u)
      <3>1. u[j] \in Seq(Nat)
        BY <2>1
      <3> QED BY <3>1, ConcatProperties
    <2>3. Under(rel, u) \in [1..Len(u) -> Seq(Nat)]
      BY <2>1, <2>2 DEF Under
    <2>4. Under(rel, u) \in Seq(Seq(Nat)) /\ Len(Under(rel, u)) = Len(u)
      <3>1. PICK X, f, n : X = Seq(Nat) /\ f = Under(rel, u) /\ n = Len(u)
        OBVIOUS
      <3>2. n \in Nat /\ f \in [1..n -> X]
        BY <2>1, <2>3, <3>1
      <3>3. f \in Seq(X) /\ Len(f) = n
        BY <3>2, FunctionIsSeq
      <3> QED BY <3>1, <3>3
    <2> QED BY <2>1, <2>4 DEF Paths, Under
  <1>2. s \o t \in Paths /\ Len(s \o t) = Len(s) + Len(t)
        /\ \A i \in 1..(Len(s) + Len(t)) :
              (s \o t)[i] = IF i <= Len(s) THEN s[i] ELSE t[i - Len(s)]
    BY ConcatProperties DEF Paths
  <1>3. Under(rel, s) \in Paths /\ Under(rel, t) \in Paths
    BY <1>1
  <1> DEFINE a == Under(rel, s \o t)
             d == Under(rel, s)
             e == Under(rel, t)
  <1>4. /\ Len(d) = Len(s) /\ \A j \in 1..Len(s) : d[j] = rel \o s[j]
        /\ Len(e) = Len(t) /\ \A j \in 1..Len(t) : e[j] = rel \o t[j]
        /\ Len(a) = Len(s) + Len(t) /\ \A j \in 1..(Len(s) + Len(t)) : a[j] = rel \o (s \o t)[j]
        /\ a \in Paths
    BY <1>1, <1>2
  <1>5. /\ d \o e \in Paths /\ Len(d \o e) = Len(s) + Len(t)
        /\ \A i \in 1..(Len(s) + Len(t)) :
              (d \o e)[i] = IF i <= Len(s) THEN d[i] ELSE e[i - Len(s)]
    <2>1. PICK X : X = Seq(Nat)
      OBVIOUS
    <2>2. d \in Seq(X) /\ e \in Seq(X)
      BY <1>3, <2>1 DEF Paths
    <2> HIDE DEF d, e
    <2>3. /\ d \o e \in Seq(X) /\ Len(d \o e) = Len(d) + Len(e)
          /\ \A i \in 1..(Len(d) + Len(e)) :
                (d \o e)[i] = IF i <= Len(d) THEN d[i] ELSE e[i - Len(d)]
      BY <2>2, ConcatProperties
    <2> QED BY <1>4, <2>1, <2>3 DEF Paths
  <1>6. Len(s) \in Nat /\ Len(t) \in Nat
    BY DEF Paths
  <1> HIDE DEF a, d, e
  <1>7. ASSUME NEW i \in 1..(Len(s) + Len(t)) PROVE a[i] = (d \o e)[i]
    <2>1. CASE i <= Len(s)
      <3>1. i \in 1..Len(s)
        BY <1>6, <2>1
      <3> QED BY <1>2, <1>4, <1>5, <2>1, <3>1
    <2>2. CASE ~(i <= Len(s))
      <3>1. PICK j \in 1..Len(t) : j = i - Len(s)
        BY <1>6, <2>2
      <3>2. a[i] = rel \o t[j] /\ (d \o e)[i] = e[j]
        BY <1>2, <1>4, <1>5, <2>2, <3>1
      <3> QED BY <1>4, <3>1, <3>2
    <2> QED BY <2>1, <2>2
  <1>8. a = d \o e
    <2>1. PICK X, u : X = Seq(Nat) /\ u = d \o e
      OBVIOUS
    <2>2. a \in Seq(X) /\ u \in Seq(X) /\ Len(a) = Len(u) /\ \A i \in 1..Len(a) : a[i] = u[i]
      BY <1>4, <1>5, <1>7, <2>1 DEF Paths
    <2>3. a = u
      BY <2>2, SeqEqual
    <2> QED BY <2>1, <2>3
  <1> QED BY <1>3, <1>8 DEF a, d, e

LEMMA UnderTogether ==
  ASSUME NEW rel \in Seq(Nat), NEW s \in Paths, NEW t \in Paths, NEW rest \in Paths
  PROVE  Under(rel, s \o t) \o rest = Under(rel, s) \o (Under(rel, t) \o rest)
  <1>1. /\ Under(rel, s) \in Paths /\ Under(rel, t) \in Paths
        /\ Under(rel, s \o t) = Under(rel, s) \o Under(rel, t)
    BY UnderTypes
  <1>2. PICK x, y : x \in Paths /\ y \in Paths /\ x = Under(rel, s) /\ y = Under(rel, t)
    BY <1>1
  <1>3. (x \o y) \o rest = x \o (y \o rest)
    <2>1. PICK u, v, w : u \in Paths /\ v \in Paths /\ w \in Paths /\ u = x /\ v = y /\ w = rest
      BY <1>2
    <2>2. (u \o v) \o w = u \o (v \o w)
      BY <2>1, PathsAssociative
    <2> QED BY <2>1, <2>2
  <1> QED BY <1>1, <1>2, <1>3

\* Directories of a listed directory are queued with their paths.
LEMMA ChildEntry ==
  ASSUME ListingTypes, NEW top, Entry(top), top.depth < max_depth,
         NEW name \in DirNames(DirAt[top.abs_path])
  PROVE  /\ Entry(Below(top, name))
         /\ DirAt[Below(top, name).abs_path] = tree[DirAt[top.abs_path]][name]
         /\ Front(Below(top, name).rel_path) = top.rel_path
         /\ Below(top, name).rel_path = top.rel_path \o <<name>>
         /\ Below(top, name).depth = top.depth + 1
  <1>1. /\ top.rel_path \in Path /\ top.abs_path = top.rel_path /\ top.depth \in 0..max_depth
        /\ Len(top.rel_path) = top.depth /\ DirAt[top.abs_path] \in Dirs
    BY DEF Entry, Queued
  <1>2. top.rel_path \in Seq(Name) /\ max_depth \in Nat
    BY <1>1, Bounded DEF Path, ListingTypes
  <1>3. name \in Name /\ tree[DirAt[top.abs_path]][name] \in Dirs
    BY <1>1, TreeOf DEF DirNames
  <1> DEFINE path == Append(top.rel_path, name)
  <1>4. /\ path \in Seq(Name) /\ Len(path) = top.depth + 1 /\ path # <<>>
        /\ Front(path) = top.rel_path /\ Last(path) = name
        /\ path = top.rel_path \o <<name>>
    BY <1>1, <1>2, <1>3, AppendTo
  <1> HIDE DEF path
  <1>5. path \in Path
    <2>1. Len(path) <= 1 + max_depth /\ 1 + max_depth \in Nat
      BY <1>1, <1>2, <1>4
    <2> QED BY <1>4, <2>1, Bounded DEF Path
  <1>6. DirAt[path] = tree[DirAt[top.abs_path]][name]
    BY <1>1, <1>4, <1>5, DirAtUnfolds
  <1>7. top.depth + 1 \in 0..max_depth
    BY <1>1, <1>2
  <1>8. Below(top, name) = [abs_path |-> path, rel_path |-> path, depth |-> top.depth + 1]
    BY <1>1 DEF Below, path
  <1> QED BY <1>3, <1>4, <1>5, <1>6, <1>7, <1>8 DEF Entry, Queued

LEMMA EntryListing ==
  ASSUME ListingTypes, NEW q, Entry(q)
  PROVE  /\ max_depth - q.depth \in 0..max_depth /\ q.rel_path \in Seq(Nat)
         /\ Expected[max_depth - q.depth][DirAt[q.abs_path]] \in Paths /\ Listing(q) \in Paths
  <1>1. q.depth \in 0..max_depth /\ q.rel_path \in Path /\ DirAt[q.abs_path] \in Dirs
    BY DEF Entry, Queued
  <1>2. max_depth - q.depth \in 0..max_depth /\ 1 + max_depth \in Nat
    BY <1>1 DEF ListingTypes
  <1>3. q.rel_path \in Seq(Name) /\ Name \subseteq Nat
    BY <1>1, <1>2, Bounded, DepthsAssumption DEF Path, Name
  <1>4. q.rel_path \in Seq(Nat)
    BY <1>3, SeqMonotonic
  <1>5. Expected[max_depth - q.depth][DirAt[q.abs_path]] \in Paths
    BY <1>1, <1>2, ExpectedUnfolds
  <1>6. Listing(q) \in Paths
    BY <1>4, <1>5, UnderTypes DEF Listing
  <1> QED BY <1>2, <1>4, <1>5, <1>6

LEMMA ChildListing ==
  ASSUME ListingTypes, NEW top, Entry(top), top.depth < max_depth,
         NEW name \in DirNames(DirAt[top.abs_path])
  PROVE  Listing(Below(top, name)) =
           Under(top.rel_path,
                 Named(name, Expected[max_depth - top.depth - 1][tree[DirAt[top.abs_path]][name]]))
  <1> DEFINE child == Below(top, name)
  <1>1. /\ Entry(child) /\ DirAt[child.abs_path] = tree[DirAt[top.abs_path]][name]
        /\ child.rel_path = top.rel_path \o <<name>> /\ child.depth = top.depth + 1
    BY ChildEntry
  <1> HIDE DEF child
  <1>2. top.depth \in Nat /\ max_depth \in Nat /\ DirAt[top.abs_path] \in Dirs
    BY DEF Entry, Queued, ListingTypes
  <1>3. max_depth - child.depth = max_depth - top.depth - 1
    BY <1>1, <1>2
  <1> DEFINE below == Expected[max_depth - child.depth][DirAt[child.abs_path]]
  <1>4. below \in Seq(Seq(Nat)) /\ top.rel_path \in Seq(Nat)
    BY <1>1, EntryListing DEF Paths
  <1>5. name \in Nat
    BY <1>2, TreeOf DEF DirNames
  <1>6. Listing(child) = Under(top.rel_path \o <<name>>, below)
    BY <1>1 DEF Listing
  <1>7. below = Expected[max_depth - top.depth - 1][tree[DirAt[top.abs_path]][name]]
    BY <1>1, <1>3
  <1> HIDE DEF below
  <1>8. Under(top.rel_path \o <<name>>, below) = Under(top.rel_path, Named(name, below))
    <2>1. \A j \in DOMAIN below :
             (top.rel_path \o <<name>>) \o below[j] = top.rel_path \o (<<name>> \o below[j])
      <3> TAKE j \in DOMAIN below
      <3>1. <<name>> \in Seq(Nat) /\ below[j] \in Seq(Nat)
        BY <1>4, <1>5
      <3>2. top.rel_path \in Seq(Nat)
        BY <1>4
      <3>3. PICK a, d, e : a = top.rel_path /\ d = <<name>> /\ e = below[j]
        OBVIOUS
      <3>4. (a \o d) \o e = a \o (d \o e)
        <4>1. PICK X : X = Nat /\ a \in Seq(X) /\ d \in Seq(X) /\ e \in Seq(X)
          BY <3>1, <3>2, <3>3
        <4> QED BY <4>1, ConcatAssociative
      <3> QED BY <3>3, <3>4
    <2>2. /\ DOMAIN Named(name, below) = DOMAIN below
          /\ \A j \in DOMAIN below : Named(name, below)[j] = <<name>> \o below[j]
      BY DEF Named
    <2> QED BY <2>1, <2>2 DEF Under
  <1> QED BY <1>6, <1>7, <1>8 DEF child

\* The entries that are queued when a directory has been listed.
Kids(top) ==
    [i \in DOMAIN Subdirs(DirAt[top.abs_path]) |->
        Below(top, Reverse(Subdirs(DirAt[top.abs_path]))[i])]

LEMMA KidsOf ==
  ASSUME ListingTypes, NEW top, Entry(top), top.depth < max_depth,
         NEW m, m = Len(Subdirs(DirAt[top.abs_path]))
  PROVE  /\ Kids(top) \in Seq(Queued) /\ Len(Kids(top)) = m /\ m \in Nat
         /\ \A i \in 1..m :
               /\ Subdirs(DirAt[top.abs_path])[m - i + 1] \in DirNames(DirAt[top.abs_path])
               /\ Kids(top)[i] = Below(top, Subdirs(DirAt[top.abs_path])[m - i + 1])
               /\ Entry(Kids(top)[i]) /\ Front(Kids(top)[i].rel_path) = top.rel_path
  <1> DEFINE dir == DirAt[top.abs_path]
             subs == Subdirs(dir)
  <1>1. dir \in Dirs
    BY DEF Entry
  <1>2. subs \in Seq(DirNames(dir)) /\ m \in Nat /\ DOMAIN subs = 1..m
    BY <1>1, SubdirsOf
  <1>3. \A i \in 1..m : m - i + 1 \in 1..m
    BY <1>2
  <1>4. \A i \in 1..m : Reverse(subs)[i] = subs[m - i + 1]
    BY <1>2 DEF Reverse
  <1>5. \A i \in 1..m : subs[m - i + 1] \in DirNames(dir)
    BY <1>2, <1>3
  <1>6. DOMAIN Kids(top) = 1..m /\ \A i \in 1..m : Kids(top)[i] = Below(top, subs[m - i + 1])
    BY <1>2, <1>4 DEF Kids
  <1>7. \A i \in 1..m : Entry(Kids(top)[i]) /\ Front(Kids(top)[i].rel_path) = top.rel_path
    <2> SUFFICES ASSUME NEW i \in 1..m
                 PROVE  Entry(Kids(top)[i]) /\ Front(Kids(top)[i].rel_path) = top.rel_path
      OBVIOUS
    <2>1. PICK name \in DirNames(DirAt[top.abs_path]) : name = subs[m - i + 1]
      BY <1>5
    <2>2. Kids(top)[i] = Below(top, name)
      BY <1>6, <2>1
    <2>3. Entry(Below(top, name)) /\ Front(Below(top, name).rel_path) = top.rel_path
      BY <2>1, ChildEntry
    <2> QED BY <2>2, <2>3
  <1> HIDE DEF subs, dir
  <1>8. Kids(top) \in [1..m -> Queued]
    <2>1. \A i \in 1..m : Kids(top)[i] \in Queued
      BY <1>7 DEF Entry
    <2>2. Kids(top) = [i \in 1..m |-> Kids(top)[i]]
      BY <1>6 DEF Kids
    <2> QED BY <2>1, <2>2
  <1>9. Kids(top) \in Seq(Queued) /\ Len(Kids(top)) = m
    BY <1>2, <1>8, FunctionIsSeq
  <1> QED BY <1>2, <1>5, <1>6, <1>7, <1>9 DEF subs, dir

\* What is expected of a directory, but for its own entries.
Beneath(top) == FlattenSeq(Deeper(Expected[max_depth - top.depth - 1], DirAt[top.abs_path]))

\* They contribute what is expected below the directory, in its order.
LEMMA KidsContribute ==
  ASSUME ListingTypes, NEW top, Entry(top), top.depth < max_depth, NEW base \in Paths
  PROVE  \E c : /\ Contributes(c, Kids(top), base)
               /\ c[Len(Kids(top))] = Under(top.rel_path, Beneath(top)) \o base
  <1> DEFINE dir == DirAt[top.abs_path]
             subs == Subdirs(dir)
             rel == top.rel_path
             listing == Expected[max_depth - top.depth - 1]
             s == Deeper(listing, dir)
  <1>0. PICK m, below : m = Len(Kids(top)) /\ below = Beneath(top)
    OBVIOUS
  <1>1. /\ m \in Nat /\ m = Len(subs) /\ dir \in Dirs
        /\ \A i \in 1..m : /\ subs[m - i + 1] \in DirNames(dir)
                           /\ Kids(top)[i] = Below(top, subs[m - i + 1]) /\ Entry(Kids(top)[i])
    <2>1. PICK l : l = Len(subs)
      OBVIOUS
    <2> QED BY <1>0, <2>1, KidsOf DEF Entry
  <1>2. rel \in Seq(Nat) /\ \A i \in 1..m : Listing(Kids(top)[i]) \in Paths
    BY <1>1, EntryListing
  <1>3. listing \in [Dirs -> Paths]
    <2>1. max_depth - top.depth - 1 \in 0..max_depth
      BY DEF Entry, Queued, ListingTypes
    <2> QED BY <2>1, ExpectedUnfolds
  <1>4. s \in Seq(Paths) /\ Len(s) = m /\ below \in Paths /\ below = FlattenSeq(s)
    BY <1>0, <1>1, <1>3, DeeperTypes DEF Beneath
  <1>5. ASSUME NEW i \in 1..m PROVE Listing(Kids(top)[i]) = Under(rel, s[m - i + 1])
    <2>1. PICK j \in 1..m : j = m - i + 1
      BY <1>1
    <2>2. subs[j] \in DirNames(dir) /\ Kids(top)[i] = Below(top, subs[j])
      BY <1>1, <2>1
    <2>3. DOMAIN subs = 1..m
      BY <1>1, SubdirsOf
    <2>4. s[j] = Named(subs[j], listing[tree[dir][subs[j]]])
      BY <2>3 DEF Deeper
    <2>5. Listing(Kids(top)[i]) = Under(rel, Named(subs[j], listing[tree[dir][subs[j]]]))
      BY <2>2, ChildListing
    <2> QED BY <2>1, <2>4, <2>5
  <1> DEFINE step == [i \in 1..m |-> [v \in Paths |-> Listing(Kids(top)[i]) \o v]]
  <1> HIDE DEF dir, subs, rel, listing, s
  <1>6. step \in [1..m -> [Paths -> Paths]]
    <2>1. \A i \in 1..m, v \in Paths : Listing(Kids(top)[i]) \o v \in Paths
      BY <1>2, ConcatProperties DEF Paths
    <2> QED BY <2>1
  <1>7. \A i \in 1..m, v \in Paths : step[i][v] = Listing(Kids(top)[i]) \o v
    OBVIOUS
  <1> HIDE DEF step
  <1>8. PICK c : Steps(c, m, Paths, base, step)
    BY <1>1, <1>6, Recursion
  <1>9. c \in [0..m -> Paths] /\ c[0] = base /\ \A i \in 1..m : c[i] = Listing(Kids(top)[i]) \o c[i - 1]
    <2>1. c \in [0..m -> Paths] /\ c[0] = base /\ \A i \in 1..m : c[i] = step[i][c[i - 1]]
      BY <1>8 DEF Steps
    <2>2. \A i \in 1..m : c[i - 1] \in Paths
      <3>1. \A i \in 1..m : i - 1 \in 0..m
        BY <1>1
      <3> QED BY <2>1, <3>1
    <2> QED BY <1>7, <2>1, <2>2
  <1>10. c[m] = Under(rel, below) \o base
    <2>1. CASE m = 0
      <3>1. below = <<>>
        <4>1. PICK X : X = Paths
          OBVIOUS
        <4>2. s \in Seq(X) /\ Len(s) = 0
          BY <1>4, <2>1, <4>1
        <4>3. s = <<>>
          BY <4>2
        <4> QED BY <1>4, <4>3 DEF FlattenSeq
      <3>2. Under(rel, below) = <<>>
        BY <3>1 DEF Under
      <3>3. <<>> \o base = base
        <4>1. PICK X : base \in Seq(X)
          BY DEF Paths
        <4> QED BY <4>1, ConcatEmptySeq
      <3> QED BY <1>9, <2>1, <3>2, <3>3
    <2>2. CASE m # 0
      <3>1. s \in Seq(Seq(Seq(Nat))) /\ Len(s) # 0
        BY <1>4, <2>2 DEF Paths
      <3>2. PICK g \in [1..Len(s) -> Seq(Seq(Nat))] :
               /\ g[1] = s[1] /\ \A i \in 1..(Len(s) - 1) : g[i + 1] = g[i] \o s[i + 1]
               /\ FlattenSeq(s) = g[Len(s)]
        BY <3>1, Flattened
      <3>3. /\ g \in [1..m -> Paths] /\ g[1] = s[1]
            /\ \A i \in 1..(m - 1) : g[i + 1] = g[i] \o s[i + 1]
            /\ below = g[m]
        BY <1>4, <3>2 DEF Paths
      <3> DEFINE Same(i) == Under(rel, g[i + 1]) \o c[m - i - 1] = c[m]
                 S == {i \in 0..(m - 1) : Same(i)}
      <3>4. 0 \in S
        <4>1. m \in 1..m /\ m - m + 1 = 1 /\ m - 0 - 1 = m - 1 /\ 0 \in 0..(m - 1)
          BY <1>1, <2>2
        <4>2. c[m] = Under(rel, s[1]) \o c[m - 1]
          BY <1>5, <1>9, <4>1
        <4>3. g[0 + 1] = s[1] /\ c[m - 0 - 1] = c[m - 1]
          BY <3>3, <4>1
        <4>4. Same(0)
          BY <4>2, <4>3
        <4> HIDE DEF Same
        <4> QED BY <4>1, <4>4
      <3>5. ASSUME NEW i \in 0..(m - 1), i \in S, i < m - 1 PROVE i + 1 \in S
        <4>1. PICK j, k : j = i + 1 /\ k = m - i - 1
          OBVIOUS
        <4>2. /\ j \in 1..(m - 1) /\ j \in 1..m /\ j + 1 \in 1..m /\ k \in 1..m /\ k - 1 \in 0..m
              /\ m - k + 1 = j + 1 /\ m - j - 1 = k - 1 /\ j \in 0..(m - 1)
          BY <1>1, <3>5, <4>1
        <4>3. Under(rel, g[j]) \o c[k] = c[m]
          BY <3>5, <4>1
        <4>4. c[k] = Under(rel, s[j + 1]) \o c[k - 1]
          <5>1. c[k] = Listing(Kids(top)[k]) \o c[k - 1]
            BY <1>9, <4>2
          <5>2. Listing(Kids(top)[k]) = Under(rel, s[m - k + 1])
            BY <1>5, <4>2
          <5> QED BY <4>2, <5>1, <5>2
        <4>5. g[j + 1] = g[j] \o s[j + 1]
          BY <3>3, <4>2
        <4>6. g[j] \in Paths /\ s[j + 1] \in Paths /\ c[k - 1] \in Paths
          <5>1. g[j] \in Paths
            BY <3>3, <4>2
          <5>2. c[k - 1] \in Paths
            BY <1>9, <4>2
          <5>3. s[j + 1] \in Paths
            <6>1. PICK X, n : X = Paths /\ n = j + 1
              OBVIOUS
            <6>2. s \in Seq(X) /\ n \in 1..Len(s)
              BY <1>4, <4>2, <6>1
            <6>3. s[n] \in X
              BY <6>2
            <6> QED BY <6>1, <6>3
          <5> QED BY <5>1, <5>2, <5>3
        <4>7. Under(rel, g[j]) \o (Under(rel, s[j + 1]) \o c[k - 1]) = c[m]
          BY <4>3, <4>4
        <4>9. Under(rel, g[j + 1]) \o c[k - 1] = c[m]
          <5>1. PICK x, y, z \in Paths : x = g[j] /\ y = s[j + 1] /\ z = c[k - 1]
            BY <4>6
          <5>2. Under(rel, x \o y) \o z = Under(rel, x) \o (Under(rel, y) \o z)
            BY <1>2, UnderTogether
          <5> QED BY <4>5, <4>7, <5>1, <5>2
        <4>10. Same(j)
          BY <4>2, <4>9
        <4> HIDE DEF Same
        <4>11. j \in S
          BY <4>2, <4>10
        <4> QED BY <4>1, <4>11
      <3> HIDE DEF S
      <3>6. 0..(m - 1) \subseteq S
        <4>0. m \in Nat /\ m # 0
          BY <1>1, <2>2
        <4>1. PICK n \in Nat : n = m - 1
          BY <4>0
        <4>2. 0..n \subseteq S
          BY <3>4, <3>5, <4>1, Induction
        <4> QED BY <4>1, <4>2
      <3>7. m - 1 \in 0..(m - 1) /\ m - 1 + 1 = m /\ m - (m - 1) - 1 = 0
        BY <1>1, <2>2
      <3>8. Same(m - 1)
        BY <3>6, <3>7 DEF S
      <3> QED BY <1>9, <3>3, <3>7, <3>8
    <2> QED BY <2>1, <2>2
  <1> QED BY <1>0, <1>9, <1>10 DEF rel, Contributes

\* What listing a directory adds to the queue.
Added(top) == IF top.depth < max_depth THEN Kids(top) ELSE <<>>

LEMMA AddedOf ==
  ASSUME ListingTypes, NEW top, Entry(top)
  PROVE  /\ Added(top) \in Seq(Queued)
         /\ \A i \in 1..Len(Added(top)) :
               Entry(Added(top)[i]) /\ Front(Added(top)[i].rel_path) = top.rel_path
  <1>1. CASE top.depth < max_depth
    <2>1. PICK m : m = Len(Subdirs(DirAt[top.abs_path]))
      OBVIOUS
    <2>2. Added(top) = Kids(top)
      BY <1>1 DEF Added
    <2> QED BY <1>1, <2>1, <2>2, KidsOf
  <1>2. CASE ~(top.depth < max_depth)
    BY <1>2 DEF Added
  <1> QED BY <1>1, <1>2

LEMMA AddedContribute ==
  ASSUME ListingTypes, NEW top, Entry(top), NEW base \in Paths
  PROVE  \E c :
            /\ Contributes(c, Added(top), base)
            /\ Under(top.rel_path, Names(DirAt[top.abs_path])) \o c[Len(Added(top))]
                 = Listing(top) \o base
  <1> DEFINE dir == DirAt[top.abs_path]
  <1>1. dir \in Dirs /\ top.depth \in 0..max_depth /\ max_depth \in Nat
    BY DEF Entry, Queued, ListingTypes
  <1>2. top.rel_path \in Seq(Nat) /\ Names(dir) \in Paths
    BY <1>1, EntryListing, NamesTypes
  <1>3. CASE top.depth < max_depth
    <2>1. PICK below : below = Beneath(top)
      OBVIOUS
    <2>2. Added(top) = Kids(top)
      BY <1>3 DEF Added
    <2>3. PICK c :
             /\ Contributes(c, Kids(top), base)
             /\ c[Len(Kids(top))] = Under(top.rel_path, Beneath(top)) \o base
      BY <1>3, KidsContribute
    <2>4. PICK k \in 1..max_depth : k = max_depth - top.depth /\ k - 1 = max_depth - top.depth - 1
      BY <1>1, <1>3
    <2>5. Expected[k][dir] = Names(dir) \o below /\ Expected[k - 1] \in [Dirs -> Paths]
      <3>1. k - 1 \in 0..max_depth
        BY <1>1, <2>4
      <3> QED BY <1>1, <2>1, <2>4, <3>1, ExpectedUnfolds DEF Beneath
    <2>6. below \in Paths
      BY <1>1, <2>1, <2>4, <2>5, DeeperTypes DEF Beneath
    <2>7. Listing(top) = Under(top.rel_path, Names(dir) \o below)
      BY <2>4, <2>5 DEF Listing
    <2>8. Listing(top) \o base = Under(top.rel_path, Names(dir)) \o (Under(top.rel_path, below) \o base)
      <3>1. PICK rel \in Seq(Nat), names, x \in Paths :
               rel = top.rel_path /\ names = Names(dir) /\ x = below
        BY <1>2, <2>6
      <3>3. rel \in Seq(Nat)
        OBVIOUS
      <3>2. Under(rel, names \o x) \o base = Under(rel, names) \o (Under(rel, x) \o base)
        BY <3>3, UnderTogether
      <3> QED BY <2>7, <3>1, <3>2
    <2> QED BY <2>1, <2>2, <2>3, <2>8
  <1>4. CASE ~(top.depth < max_depth)
    <2>1. Added(top) = <<>> /\ Len(Added(top)) = 0
      BY <1>4 DEF Added
    <2>2. max_depth - top.depth = 0
      BY <1>1, <1>4
    <2>3. Listing(top) = Under(top.rel_path, Names(dir))
      BY <1>1, <2>2, ExpectedUnfolds DEF Listing
    <2> DEFINE c == [i \in 0..0 |-> base]
    <2>4. c \in [0..0 -> Paths] /\ c[0] = base /\ 1..0 = {}
      OBVIOUS
    <2> HIDE DEF c
    <2> QED BY <2>1, <2>3, <2>4 DEF Contributes
  <1> QED BY <1>3, <1>4

\* The queue after a directory was listed.
Extends(queue, top, next) ==
    /\ Entry(top) /\ Len(queue) \in Nat \ {0}
    /\ top = queue[Len(queue)] /\ next \in Seq(Queued)
    /\ Len(next) = Len(queue) - 1 + Len(Added(top)) /\ Len(Added(top)) \in Nat
    /\ \A i \in 1..(Len(queue) - 1) : next[i] = queue[i]
    /\ \A i \in 1..Len(Added(top)) : next[Len(queue) - 1 + i] = Added(top)[i]
    /\ \A i \in 1..Len(next) : \/ i \in 1..(Len(queue) - 1)
                               \/ i - (Len(queue) - 1) \in 1..Len(Added(top))
    /\ \A i \in 1..Len(next) : Entry(next[i])

LEMMA Extended ==
  ASSUME ListingTypes, NEW queue \in Seq(Queued), queue # <<>>,
         \A i \in 1..Len(queue) : Entry(queue[i])
  PROVE  Extends(queue, Last(queue), Extend(Front(queue), Last(queue)))
  <1>0. PICK top, next : top = Last(queue) /\ next = Extend(Front(queue), top)
    OBVIOUS
  <1>1. /\ Front(queue) \in Seq(Queued) /\ Len(Front(queue)) = Len(queue) - 1
        /\ Len(queue) \in Nat \ {0} /\ \A i \in 1..(Len(queue) - 1) : Front(queue)[i] = queue[i]
        /\ top = queue[Len(queue)]
    BY <1>0, FrontOf
  <1>2. Entry(top)
    BY <1>1
  <1>3. Added(top) \in Seq(Queued) /\ \A i \in 1..Len(Added(top)) : Entry(Added(top)[i])
    BY <1>2, AddedOf
  <1>4. next = Front(queue) \o Added(top)
    <2>1. CASE top.depth < max_depth
      BY <1>0, <2>1 DEF Extend, Added, Kids
    <2>2. CASE ~(top.depth < max_depth)
      BY <1>0, <1>1, <2>2, ConcatEmptySeq DEF Extend, Added
    <2> QED BY <2>1, <2>2
  <1>5. PICK X, f, a : X = Queued /\ f = Front(queue) /\ a = Added(top)
    OBVIOUS
  <1>6. /\ f \o a \in Seq(X) /\ Len(f \o a) = Len(f) + Len(a)
        /\ \A i \in 1..(Len(f) + Len(a)) : (f \o a)[i] = IF i <= Len(f) THEN f[i] ELSE a[i - Len(f)]
    <2>1. f \in Seq(X) /\ a \in Seq(X)
      BY <1>1, <1>3, <1>5
    <2> QED BY <2>1, ConcatProperties
  <1>7. PICK n, l : n = Len(f) /\ l = Len(a)
    OBVIOUS
  <1>8. n = Len(queue) - 1 /\ n \in Nat /\ l \in Nat
    BY <1>1, <1>3, <1>5, <1>7
  <1>9. /\ \A i \in 1..n : next[i] = queue[i]
        /\ \A i \in 1..l : next[n + i] = a[i]
    <2>1. \A i \in 1..(n + l) : next[i] = IF i <= n THEN f[i] ELSE a[i - n]
      BY <1>4, <1>5, <1>6, <1>7
    <2>2. ASSUME NEW i \in 1..n PROVE next[i] = queue[i]
      <3>1. i \in 1..(n + l) /\ i <= n
        BY <1>8
      <3> QED BY <1>1, <1>5, <1>8, <2>1, <3>1
    <2>3. ASSUME NEW i \in 1..l PROVE next[n + i] = a[i]
      <3>1. PICK k \in 1..(n + l) : k = n + i /\ ~(k <= n) /\ k - n = i
        BY <1>8
      <3>2. next[k] = a[k - n]
        BY <2>1, <3>1
      <3> QED BY <3>1, <3>2
    <2> QED BY <2>2, <2>3
  <1>10. next \in Seq(Queued) /\ Len(next) = n + l
    BY <1>4, <1>5, <1>6, <1>7
  <1>11. \A i \in 1..(n + l) : i \in 1..n \/ (i - n \in 1..l /\ n + (i - n) = i)
    BY <1>8
  <1>12. \A i \in 1..(n + l) : Entry(next[i])
    <2> SUFFICES ASSUME NEW i \in 1..(n + l) PROVE Entry(next[i])
      OBVIOUS
    <2>1. CASE i \in 1..n
      <3>1. i \in 1..Len(queue)
        BY <1>1, <1>8, <2>1
      <3> QED BY <1>9, <2>1, <3>1
    <2>2. CASE i - n \in 1..l /\ n + (i - n) = i
      <3>1. next[n + (i - n)] = a[i - n]
        BY <1>9, <2>2
      <3> QED BY <1>3, <1>5, <1>7, <2>2, <3>1
    <2> QED BY <1>11, <2>1, <2>2
  <1>13. Extends(queue, top, next)
    BY <1>1, <1>2, <1>5, <1>7, <1>8, <1>9, <1>10, <1>11, <1>12 DEF Extends
  <1> QED BY <1>0, <1>13

\* What it still contributes, after the names in the directory, is what the
\* queue contributed before.
Relists(queue, top, next, rest) ==
    \E new : /\ Contributes(new, next, <<>>)
            /\ rest[Len(queue)] = Under(top.rel_path, Names(DirAt[top.abs_path])) \o new[Len(next)]

LEMMA Relisted ==
  ASSUME ListingTypes, NEW queue, NEW top, NEW next, Extends(queue, top, next),
         NEW rest, Contributes(rest, queue, <<>>)
  PROVE  Relists(queue, top, next, rest)
  <1>1. /\ Entry(top) /\ Len(queue) \in Nat \ {0}
        /\ top = queue[Len(queue)] /\ next \in Seq(Queued)
        /\ Len(next) = Len(queue) - 1 + Len(Added(top)) /\ Len(Added(top)) \in Nat
        /\ \A i \in 1..(Len(queue) - 1) : next[i] = queue[i]
        /\ \A i \in 1..Len(Added(top)) : next[Len(queue) - 1 + i] = Added(top)[i]
    BY DEF Extends
  <1>2. PICK n, m, kids : n = Len(queue) - 1 /\ kids = Added(top) /\ m = Len(kids)
    OBVIOUS
  <1>3. /\ n \in Nat /\ m \in Nat /\ Len(queue) = n + 1 /\ Len(next) = n + m /\ n + m \in Nat
        /\ \A i \in 1..n : next[i] = queue[i]
        /\ \A i \in 1..m : next[n + i] = kids[i]
    BY <1>1, <1>2
  <1>4. /\ rest \in [0..(n + 1) -> Paths] /\ rest[0] = <<>>
        /\ \A i \in 1..(n + 1) : rest[i] = Listing(queue[i]) \o rest[i - 1]
    BY <1>3 DEF Contributes
  <1>5. PICK base \in Paths : base = rest[n]
    <2>1. n \in 0..(n + 1)
      BY <1>3
    <2> QED BY <1>4, <2>1
  <1>6. PICK c : /\ Contributes(c, Added(top), base)
                 /\ Under(top.rel_path, Names(DirAt[top.abs_path])) \o c[Len(Added(top))]
                      = Listing(top) \o base
    BY <1>1, AddedContribute
  <1>7. /\ c \in [0..m -> Paths] /\ c[0] = base
        /\ \A i \in 1..m : c[i] = Listing(kids[i]) \o c[i - 1]
    BY <1>2, <1>6 DEF Contributes
  <1> DEFINE new == [i \in 0..(n + m) |-> IF i <= n THEN rest[i] ELSE c[i - n]]
  <1>8. new \in [0..(n + m) -> Paths] /\ new[0] = <<>>
    <2>1. \A i \in 0..(n + m) : IF i <= n THEN i \in 0..(n + 1) ELSE i - n \in 0..m
      BY <1>3
    <2>2. 0 \in 0..(n + m) /\ 0 <= n
      BY <1>3
    <2>3. new[0] = rest[0]
      BY <2>2
    <2>4. \A i \in 0..(n + m) : new[i] \in Paths
      BY <1>4, <1>7, <2>1
    <2> QED BY <1>4, <2>3, <2>4
  <1>9. ASSUME NEW i \in 1..n PROVE new[i] = Listing(next[i]) \o new[i - 1]
    <2>1. i \in 1..(n + 1) /\ i \in 0..(n + m) /\ i - 1 \in 0..(n + m) /\ i <= n /\ i - 1 <= n
      BY <1>3
    <2>2. new[i] = rest[i] /\ new[i - 1] = rest[i - 1]
      BY <2>1
    <2> HIDE DEF new
    <2> QED BY <1>3, <1>4, <2>1, <2>2
  <1>10. ASSUME NEW i \in 0..m PROVE new[n + i] = c[i]
    <2>1. n + i \in 0..(n + m) /\ n + i - n = i /\ (n + i <= n => i = 0 /\ n + i = n)
      BY <1>3
    <2>2. CASE n + i <= n
      <3>1. new[n + i] = rest[n + i]
        BY <2>1, <2>2
      <3> QED BY <1>5, <1>7, <2>1, <2>2, <3>1
    <2>3. CASE ~(n + i <= n)
      <3>1. PICK k : k = n + i
        OBVIOUS
      <3>4. n \in Nat /\ m \in Nat
        BY <1>3
      <3>2. k \in 0..(n + m) /\ ~(k <= n) /\ k - n = i
        BY <2>3, <3>1, <3>4
      <3>3. new[k] = c[k - n]
        BY <3>2
      <3> QED BY <3>1, <3>2, <3>3
    <2> QED BY <2>2, <2>3
  <1> HIDE DEF new
  <1>11. ASSUME NEW i \in 1..m PROVE new[n + i] = Listing(next[n + i]) \o new[n + i - 1]
    <2>1. PICK j : j = i - 1
      OBVIOUS
    <2>2. i \in 0..m /\ j \in 0..m /\ n + i - 1 = n + j
      BY <1>3, <2>1
    <2>3. new[n + i] = c[i] /\ new[n + j] = c[j]
      BY <1>10, <2>2
    <2> QED BY <1>3, <1>7, <2>1, <2>2, <2>3
  <1>12. ASSUME NEW i \in 1..(n + m) PROVE new[i] = Listing(next[i]) \o new[i - 1]
    <2>1. CASE i \in 1..n
      BY <1>9, <2>1
    <2>2. CASE i \notin 1..n
      <3>1. PICK j \in 1..m : n + j = i /\ n + j - 1 = i - 1
        <4>1. i - n \in 1..m /\ n + (i - n) = i /\ n + (i - n) - 1 = i - 1
          BY <1>3, <2>2
        <4> QED BY <4>1
      <3> QED BY <1>11, <3>1
    <2> QED BY <2>1, <2>2
  <1>13. Contributes(new, next, <<>>)
    BY <1>3, <1>8, <1>12 DEF Contributes
  <1>14. new[Len(next)] = c[m]
    BY <1>3, <1>10
  <1>15. rest[Len(queue)] = Listing(top) \o base
    <2>1. n + 1 \in 1..(n + 1) /\ n + 1 - 1 = n /\ n + 1 = Len(queue)
      BY <1>3
    <2>4. PICK k : k = n + 1
      OBVIOUS
    <2>5. n \in Nat
      BY <1>3
    <2>2. k \in 1..(n + 1) /\ k - 1 = n /\ k = Len(queue)
      BY <2>1, <2>4, <2>5
    <2>3. rest[k] = Listing(queue[k]) \o rest[k - 1]
      BY <1>4, <2>2
    <2> QED BY <1>1, <1>5, <2>2, <2>3
  <1>16. rest[Len(queue)] = Under(top.rel_path, Names(DirAt[top.abs_path])) \o new[Len(next)]
    BY <1>2, <1>6, <1>14, <1>15
  <1> QED BY <1>13, <1>16 DEF Relists

\* Names as listings.
Singles(names) == [j \in DOMAIN names |-> <<names[j]>>]

LEMMA ItemsTypes ==
  ASSUME NEW rel \in Seq(Nat), NEW names \in Seq(Nat)
  PROVE  Under(rel, Singles(names)) \in Paths
  <1>1. PICK n \in Nat : n = Len(names) /\ names \in [1..n -> Nat] /\ DOMAIN names = 1..n
    OBVIOUS
  <1>2. Singles(names) \in [1..n -> Seq(Nat)]
    <2>1. \A i \in 1..n : <<names[i]>> \in Seq(Nat)
      BY <1>1
    <2> QED BY <1>1, <2>1 DEF Singles
  <1>3. Singles(names) \in Paths
    <2>1. PICK X, s : X = Seq(Nat) /\ s = Singles(names) /\ s \in [1..n -> X]
      BY <1>2
    <2>2. s \in Seq(X)
      BY <2>1, FunctionIsSeq
    <2> QED BY <2>1, <2>2 DEF Paths
  <1> QED BY <1>3, UnderTypes

\* The first name that was not handed out, and the others.
LEMMA ItemsUnder ==
  ASSUME NEW rel \in Seq(Nat), NEW names \in Seq(Nat), names # <<>>
  PROVE  /\ Append(rel, Head(names)) \in Seq(Nat) /\ Tail(names) \in Seq(Nat)
         /\ <<Append(rel, Head(names))>> \in Paths
         /\ Under(rel, Singles(names)) = <<Append(rel, Head(names))>> \o Under(rel, Singles(Tail(names)))
  <1>1. PICK n \in Nat \ {0} : n = Len(names)
    OBVIOUS
  <1>2. /\ Head(names) = names[1] /\ Head(names) \in Nat /\ Tail(names) \in Seq(Nat)
        /\ Len(Tail(names)) = n - 1 /\ \A i \in 1..(n - 1) : Tail(names)[i] = names[i + 1]
    BY <1>1, HeadTailProperties
  <1>3. PICK path : path = Append(rel, Head(names))
    OBVIOUS
  <1>4. path \in Seq(Nat) /\ path = rel \o <<names[1]>>
    BY <1>2, <1>3, AppendTo
  <1>5. \A i \in 1..n : rel \o <<names[i]>> \in Seq(Nat)
    <2> TAKE i \in 1..n
    <2>1. <<names[i]>> \in Seq(Nat)
      BY <1>1
    <2> QED BY <2>1, ConcatProperties
  <1> DEFINE a == Under(rel, Singles(names))
             d == Under(rel, Singles(Tail(names)))
  <1>6. a = [i \in 1..n |-> rel \o <<names[i]>>]
    BY <1>1 DEF Under, Singles
  <1>7. d = [i \in 1..(n - 1) |-> rel \o <<names[i + 1]>>]
    <2>1. DOMAIN Tail(names) = 1..(n - 1)
      BY <1>2
    <2>2. d = [i \in 1..(n - 1) |-> rel \o <<Tail(names)[i]>>]
      BY <2>1 DEF Under, Singles
    <2> HIDE DEF d
    <2> QED BY <1>2, <2>2
  <1>8. a \in [1..n -> Seq(Nat)] /\ \A i \in 1..n : a[i] = rel \o <<names[i]>>
    BY <1>5, <1>6
  <1>9. d \in [1..(n - 1) -> Seq(Nat)] /\ \A i \in 1..(n - 1) : d[i] = rel \o <<names[i + 1]>>
    <2>1. \A i \in 1..(n - 1) : i + 1 \in 1..n
      BY <1>1
    <2> QED BY <1>5, <1>7, <2>1
  <1> HIDE DEF a, d
  <1>10. a = <<path>> \o d
    <2>1. PICK X : X = Seq(Nat)
      OBVIOUS
    <2>2. path \in X /\ a \in Seq(X) /\ Len(a) = n /\ d \in Seq(X) /\ Len(d) = n - 1
      <3>1. path \in X /\ n - 1 \in Nat /\ a \in [1..n -> X] /\ d \in [1..(n - 1) -> X]
        BY <1>1, <1>4, <1>8, <1>9, <2>1
      <3>2. a \in Seq(X) /\ Len(a) = n
        BY <1>1, <3>1, FunctionIsSeq
      <3>3. PICK k \in Nat : k = n - 1
        BY <3>1
      <3>4. d \in Seq(X) /\ Len(d) = k
        BY <3>1, <3>3, FunctionIsSeq
      <3> QED BY <3>1, <3>2, <3>3, <3>4
    <2>3. a[1] = path /\ \A i \in 1..(n - 1) : a[i + 1] = d[i]
      <3>1. 1 \in 1..n /\ \A i \in 1..(n - 1) : i + 1 \in 1..n
        BY <1>1
      <3> QED BY <1>4, <1>8, <1>9, <3>1
    <2> HIDE <1>8, <1>9
    <2>4. a = <<path>> \o d
      BY <1>1, <2>2, <2>3, Prepended
    <2> QED BY <2>4
  <1>11. <<path>> \in Paths
    <2>1. PICK X : X = Seq(Nat) /\ path \in X
      BY <1>4
    <2>2. <<path>> \in Seq(X)
      BY <2>1
    <2> QED BY <2>1, <2>2 DEF Paths
  <1> QED BY <1>2, <1>3, <1>4, <1>10, <1>11 DEF a, d

-------------------------------------------------------------------------------
(* The invariant. *)

Types ==
    /\ tree \in [Dirs -> Listings] /\ max_depth \in Depths
    /\ dir_queue \in Seq(Queued) /\ \A i \in 1..Len(dir_queue) : Entry(dir_queue[i])
    /\ rel_path \in Seq(Name) /\ Len(rel_path) <= max_depth
    /\ items \in Seq(Name) /\ Len(items) <= MaxEntries
    /\ pc \in {"construct", "iterate", "next", "done", "failed"}
    /\ first_elem \in Seq(Path) /\ Len(first_elem) <= 1
    /\ pc = "iterate" => Len(first_elem) = 1
    /\ out \in Seq(Path)

\* The parents of the queued directories lie on one path, and further down it
\* the later they were queued.
Spine ==
    /\ \A i \in 1..Len(dir_queue) : IsPrefix(Front(dir_queue[i].rel_path), rel_path)
    /\ \A i, j \in 1..Len(dir_queue) : i < j =>
          IsPrefix(Front(dir_queue[i].rel_path), Front(dir_queue[j].rel_path))

\* What the consumer was given, the item that the constructor holds, the names
\* that were not handed out and what the queue contributes: the whole listing.
First == IF pc = "iterate" THEN first_elem ELSE <<>>
Items == Under(rel_path, Singles(items))

Ordered ==
    \E rest : /\ Contributes(rest, dir_queue, <<>>)
              /\ Expected[max_depth][Root] = out \o (First \o (Items \o rest[Len(dir_queue)]))

Finished == pc = "done" => items = <<>> /\ dir_queue = <<>>

ListInv == Types /\ Spine /\ Ordered /\ Finished

LEMMA TypesListing ==
  ASSUME Types
  PROVE  /\ ListingTypes /\ max_depth \in Nat /\ Name \subseteq Nat
         /\ Path \subseteq Seq(Nat) /\ out \in Paths /\ First \in Paths
         /\ rel_path \in Seq(Nat) /\ items \in Seq(Nat) /\ Items \in Paths
  <1>1. ListingTypes /\ max_depth \in Nat /\ Name \subseteq Nat /\ 1 + max_depth \in Nat
    BY DepthsAssumption DEF Types, ListingTypes, Name
  <1>2. Path \subseteq Seq(Nat)
    <2>1. \A path \in Path : path \in Seq(Name)
      BY <1>1, Bounded DEF Path
    <2> QED BY <1>1, <2>1, SeqMonotonic
  <1>3. \A s : s \in Seq(Path) => s \in Paths
    <2> TAKE s
    <2>1. PICK X, Y : X = Path /\ Y = Seq(Nat) /\ X \subseteq Y
      BY <1>2
    <2>2. s \in Seq(X) => s \in Seq(Y)
      BY <2>1, SeqMonotonic
    <2> QED BY <2>1, <2>2 DEF Paths
  <1>4. out \in Paths /\ First \in Paths
    <2>1. PICK X : X = Path
      OBVIOUS
    <2>2. out \in Seq(X) /\ First \in Seq(X)
      BY <2>1 DEF Types, First
    <2> QED BY <1>3, <2>1, <2>2
  <1>5. rel_path \in Seq(Nat) /\ items \in Seq(Nat)
    <2>1. rel_path \in Seq(Name) /\ items \in Seq(Name)
      BY DEF Types
    <2> QED BY <1>1, <2>1, SeqMonotonic
  <1>6. Items \in Paths
    BY <1>5, ItemsTypes DEF Items
  <1> QED BY <1>1, <1>2, <1>4, <1>5, <1>6

\* The file system and the limit do not change: neither does what is expected.
LEMMA Same ==
  ASSUME UNCHANGED <<tree, max_depth>>
  PROVE  /\ Path' = Path /\ Queued' = Queued /\ Listings' = Listings
         /\ Expected' = Expected /\ DirAt' = DirAt
         /\ \A q : Entry(q)' <=> Entry(q)
         /\ \A q : Listing(q)' = Listing(q)
         /\ \A r, q, b : Contributes(r, q, b)' <=> Contributes(r, q, b)
  <1>1. Path' = Path /\ Listings' = Listings
    BY DEF Path, Listings
  <1>2. Queued' = Queued
    BY <1>1 DEF Queued
  <1>3. Expected' = Expected
    BY DEF Expected, Subdirs
  <1>4. DirAt' = DirAt
    BY <1>1 DEF DirAt
  <1>5. \A q : Entry(q)' <=> Entry(q)
    BY <1>2, <1>4 DEF Entry
  <1>6. \A q : Listing(q)' = Listing(q)
    BY <1>3, <1>4 DEF Listing, Under
  <1>7. \A r, q, b : Contributes(r, q, b)' <=> Contributes(r, q, b)
    BY <1>6 DEF Contributes, Paths
  <1> QED BY <1>1, <1>2, <1>3, <1>4, <1>5, <1>6, <1>7

LEMMA Regroup ==
  ASSUME NEW a, NEW x, NEW u, NEW r, a \in Paths, x \in Paths, u \in Paths, r \in Paths
  PROVE  /\ <<>> \o ((x \o u) \o r) = x \o (u \o r)
         /\ (a \o x) \o (<<>> \o (u \o r)) = a \o (x \o (u \o r))
  <1>1. PICK v : v = u \o r /\ v \in Paths
    BY PathsConcat
  <1>2. (x \o u) \o r = x \o (u \o r)
    BY PathsAssociative
  <1>3. x \o v \in Paths /\ <<>> \o v = v
    BY <1>1, PathsConcat
  <1>4. (a \o x) \o v = a \o (x \o v)
    BY <1>1, PathsAssociative
  <1>5. PICK w : w = x \o (u \o r) /\ w \in Paths
    BY <1>1, <1>3
  <1>6. <<>> \o w = w
    BY <1>5, PathsConcat
  <1>7. <<>> \o ((x \o u) \o r) = x \o (u \o r)
    BY <1>2, <1>5, <1>6
  <1> QED BY <1>1, <1>3, <1>4, <1>7

\* A step that lists no directory only moves items on.
LEMMA MovedOn ==
  ASSUME Ordered, UNCHANGED <<tree, max_depth, dir_queue>>, Types,
         \A r \in Paths : out' \o (First' \o (Items' \o r)) = out \o (First \o (Items \o r))
  PROVE  Ordered'
  <1>1. PICK rest : /\ Contributes(rest, dir_queue, <<>>)
                    /\ Expected[max_depth][Root] = out \o (First \o (Items \o rest[Len(dir_queue)]))
    BY DEF Ordered
  <1>2. rest[Len(dir_queue)] \in Paths
    <2>1. PICK n : n = Len(dir_queue)
      OBVIOUS
    <2>2. n \in Nat
      BY <2>1 DEF Types
    <2>3. rest \in [0..n -> Paths] /\ n \in 0..n
      BY <1>1, <2>1, <2>2 DEF Contributes
    <2>4. rest[n] \in Paths
      BY <2>3
    <2> QED BY <2>1, <2>4
  <1>3. Expected[max_depth][Root] = out' \o (First' \o (Items' \o rest[Len(dir_queue)]))
    BY <1>1, <1>2
  <1>4. Expected' = Expected /\ DirAt' = DirAt
    BY Same
  <1>5. Contributes(rest, dir_queue, <<>>)'
    <2>1. /\ rest \in [0..Len(dir_queue) -> Paths] /\ rest[0] = <<>>
          /\ \A i \in 1..Len(dir_queue) :
                rest[i] = Under(dir_queue[i].rel_path,
                                Expected[max_depth - dir_queue[i].depth][DirAt[dir_queue[i].abs_path]])
                          \o rest[i - 1]
      BY <1>1 DEF Contributes, Listing
    <2>2. dir_queue' = dir_queue /\ max_depth' = max_depth
      OBVIOUS
    <2> QED BY <1>4, <2>1, <2>2 DEF Contributes, Listing
  <1>6. (Expected[max_depth][Root] = out \o (First \o (Items \o rest[Len(dir_queue)])))'
    BY <1>3, <1>4
  <1> QED BY <1>5, <1>6 DEF Ordered

LEMMA Initially == Init => ListInv
  <1> SUFFICES ASSUME Init PROVE ListInv
    OBVIOUS
  <1> USE DEF Init
  <1>1. max_depth \in Nat /\ ListingTypes
    BY DepthsAssumption DEF ListingTypes
  <1>2. PICK q : q = dir_queue[1] /\ q = [abs_path |-> <<>>, rel_path |-> <<>>, depth |-> 0]
    OBVIOUS
  <1>3. <<>> \in Path /\ <<>> \in Seq(Name) /\ Len(<<>>) = 0 /\ 0 \in 0..max_depth
    <2>1. <<>> \in Seq(Name) /\ Len(<<>>) <= 1 + max_depth /\ 1 + max_depth \in Nat
      BY <1>1
    <2>2. PICK s, n : s = <<>> /\ n = 1 + max_depth
      OBVIOUS
    <2>3. s \in BoundedSeq(Name, n)
      <3>1. n \in Nat /\ s \in Seq(Name) /\ Len(s) <= n
        BY <2>1, <2>2
      <3> QED BY <3>1, Bounded
    <2> QED BY <1>1, <2>1, <2>2, <2>3 DEF Path
  <1>4. Entry(q)
    <2>1. DirAt[<<>>] = Root
      BY <1>1, DirAtUnfolds
    <2> QED BY <1>2, <1>3, <2>1, TreeAssumption DEF Entry, Queued
  <1>5. dir_queue = <<q>> /\ dir_queue \in Seq(Queued) /\ Len(dir_queue) = 1 /\ q \in Queued
    <2>1. q \in Queued /\ dir_queue = <<q>>
      BY <1>2, <1>4 DEF Entry
    <2> QED BY <2>1
  <1>6. Types
    <2>1. \A i \in 1..Len(dir_queue) : dir_queue[i] = q
      BY <1>5
    <2>2. first_elem \in Seq(Path) /\ Len(first_elem) <= 1 /\ out \in Seq(Path)
      OBVIOUS
    <2>3. items \in Seq(Name) /\ Len(items) <= MaxEntries
      BY DepthsAssumption
    <2> QED BY <1>1, <1>3, <1>4, <1>5, <2>1, <2>2, <2>3 DEF Types
  <1>7. Spine
    <2>1. Front(q.rel_path) = <<>>
      <3>1. Len(<<>>) - 1 \in Int /\ 1 \in Int /\ Len(<<>>) - 1 < 1
        OBVIOUS
      <3>2. Front(<<>>) = <<>>
        BY <3>1, SubSeqEmpty DEF Front
      <3> QED BY <1>2, <3>2
    <2>2. IsPrefix(<<>>, <<>>)
      BY PrefixOfItself, EmptySeq
    <2>3. \A i \in 1..Len(dir_queue) : i = 1
      BY <1>5
    <2> QED BY <1>2, <2>1, <2>2, <2>3 DEF Spine
  <1>8. Ordered
    <2> DEFINE all == Expected[max_depth][Root]
               rest == [i \in 0..1 |-> IF i = 0 THEN <<>> ELSE all]
    <2>1. Listing(q) = Under(<<>>, all)
      <3>1. DirAt[<<>>] = Root /\ max_depth - 0 = max_depth
        BY <1>1, DirAtUnfolds
      <3> QED BY <1>2, <3>1 DEF Listing
    <2>2. all \in Paths
      <3>1. max_depth \in 0..max_depth /\ Root \in Dirs
        BY <1>1, TreeAssumption
      <3> QED BY <1>1, <3>1, ExpectedUnfolds
    <2>3. Under(<<>>, all) = all
      <3>1. PICK x : x = all /\ x \in Seq(Seq(Nat))
        BY <2>2 DEF Paths
      <3>2. \A j \in DOMAIN x : <<>> \o x[j] = x[j]
        <4> TAKE j \in DOMAIN x
        <4>1. x[j] \in Seq(Nat)
          BY <3>1
        <4> QED BY <4>1, ConcatEmptySeq
      <3>3. x = [j \in DOMAIN x |-> x[j]]
        BY <3>1
      <3>4. Under(<<>>, x) = x
        BY <3>2, <3>3 DEF Under
      <3> QED BY <3>1, <3>4
    <2>4. all \o <<>> = all /\ <<>> \o all = all /\ <<>> \in Paths
      BY <2>2, PathsConcat
    <2> HIDE DEF all
    <2>5. rest \in [0..1 -> Paths] /\ rest[0] = <<>> /\ rest[1] = all
      BY <2>2, <2>4
    <2> HIDE DEF rest
    <2>6. Contributes(rest, dir_queue, <<>>)
      <3>1. \A i \in 1..1 : i = 1 /\ i - 1 = 0
        OBVIOUS
      <3>2. rest[1] = Listing(dir_queue[1]) \o rest[0]
        BY <1>2, <2>1, <2>3, <2>4, <2>5
      <3>3. \A i \in 1..1 : rest[i] = Listing(dir_queue[i]) \o rest[i - 1]
        BY <3>1, <3>2
      <3>4. Len(dir_queue) = 1
        BY <1>5
      <3> QED BY <2>5, <3>3, <3>4 DEF Contributes
    <2>7. Items = <<>> /\ First = <<>> /\ out = <<>>
      BY DEF Items, First, Under, Singles
    <2>8. all = out \o (First \o (Items \o rest[Len(dir_queue)]))
      BY <1>5, <2>4, <2>5, <2>7
    <2> QED BY <2>6, <2>8 DEF Ordered, all
  <1>9. Finished
    BY DEF Finished
  <1> QED BY <1>6, <1>7, <1>8, <1>9 DEF ListInv

\* Handing out an item: the types of what moves.
LEMMA ItemTypes ==
  ASSUME Types, items # <<>>
  PROVE  /\ Item \in Path /\ <<Item>> \in Paths /\ Item \in Seq(Nat)
         /\ Tail(items) \in Seq(Name) /\ Len(Tail(items)) <= MaxEntries
         /\ Items = <<Item>> \o Under(rel_path, Singles(Tail(items)))
         /\ Under(rel_path, Singles(Tail(items))) \in Paths
  <1>1. /\ max_depth \in Nat /\ Name \subseteq Nat /\ rel_path \in Seq(Nat) /\ items \in Seq(Nat)
    BY TypesListing
  <1>2. /\ rel_path \in Seq(Name) /\ Len(rel_path) <= max_depth
        /\ items \in Seq(Name) /\ Len(items) <= MaxEntries
    BY DEF Types
  <1>3. Head(items) \in Name /\ Tail(items) \in Seq(Name) /\ Len(Tail(items)) = Len(items) - 1
    BY <1>2, HeadTailProperties
  <1>4. Len(Tail(items)) <= MaxEntries
    <2>1. Len(items) \in Nat /\ MaxEntries \in Nat
      BY <1>2, DepthsAssumption
    <2> QED BY <1>2, <1>3, <2>1
  <1>5. Item \in Path
    <2>1. PICK p, n : p = Append(rel_path, Head(items)) /\ n = 1 + max_depth
      OBVIOUS
    <2>2. p \in Seq(Name) /\ Len(p) = Len(rel_path) + 1
      BY <1>2, <1>3, <2>1, AppendTo
    <2>3. Len(rel_path) \in Nat
      BY <1>2
    <2>4. n \in Nat /\ Len(p) <= n
      BY <1>1, <1>2, <2>1, <2>2, <2>3
    <2>5. p \in BoundedSeq(Name, n)
      BY <2>2, <2>4, Bounded
    <2> QED BY <2>1, <2>5 DEF Path, Item
  <1>6. /\ Item \in Seq(Nat) /\ <<Item>> \in Paths
        /\ Items = <<Item>> \o Under(rel_path, Singles(Tail(items)))
    BY <1>1, ItemsUnder DEF Item, Items
  <1>7. Under(rel_path, Singles(Tail(items))) \in Paths
    <2>1. Tail(items) \in Seq(Nat)
      BY <1>1, HeadTailProperties
    <2>2. PICK t : t = Tail(items) /\ t \in Seq(Nat)
      BY <2>1
    <2> QED BY <1>1, <2>2, ItemsTypes
  <1> QED BY <1>3, <1>4, <1>5, <1>6, <1>7

\* Listing the directory at the end of the queue.
LEMMA Lists ==
  ASSUME Types, Spine, Ordered, ListNext
  PROVE  Types' /\ Spine' /\ Ordered' /\ Finished'
  <1>1. PICK top, next :
           /\ top = Last(dir_queue) /\ next = Extend(Front(dir_queue), top)
           /\ dir_queue' = next /\ rel_path' = top.rel_path
           /\ items' = [name \in DOMAIN tree[DirAt[top.abs_path]] |-> name]
    BY DEF ListNext
  <1>2. UNCHANGED <<tree, max_depth, pc, first_elem, out>>
    BY DEF ListNext
  <1>3. ListingTypes /\ max_depth \in Nat /\ out \in Paths /\ First \in Paths
    BY TypesListing
  <1>4. Extends(dir_queue, top, next)
    <2>1. /\ dir_queue \in Seq(Queued) /\ dir_queue # <<>>
          /\ \A i \in 1..Len(dir_queue) : Entry(dir_queue[i])
      BY DEF Types, ListNext
    <2> QED BY <1>1, <1>3, <2>1, Extended
  <1>5. /\ Entry(top) /\ Len(dir_queue) \in Nat \ {0} /\ top = dir_queue[Len(dir_queue)]
        /\ next \in Seq(Queued) /\ \A i \in 1..Len(next) : Entry(next[i])
    BY <1>4 DEF Extends
  <1>6. /\ top.rel_path \in Seq(Name) /\ Len(top.rel_path) <= max_depth
        /\ DirAt[top.abs_path] \in Dirs
    <2>1. top.rel_path \in Path /\ Len(top.rel_path) = top.depth /\ top.depth \in 0..max_depth
          /\ DirAt[top.abs_path] \in Dirs
      BY <1>5 DEF Entry, Queued
    <2>2. PICK n \in Nat : n = 1 + max_depth
      BY <1>3
    <2>3. top.rel_path \in Seq(Name)
      BY <2>1, <2>2, Bounded DEF Path
    <2> QED BY <1>3, <2>1, <2>3
  <1>7. items' \in Seq(Name) /\ Len(items') <= MaxEntries
    <2>1. PICK l : l = tree[DirAt[top.abs_path]]
      OBVIOUS
    <2>2. Len(l) \in 0..MaxEntries /\ DOMAIN l = 1..Len(l) /\ DOMAIN l \subseteq Name
      BY <1>3, <1>6, <2>1, TreeOf
    <2>3. PICK n : n = Len(l)
      OBVIOUS
    <2>4. n \in Nat /\ n <= MaxEntries
      BY <2>2, <2>3, DepthsAssumption
    <2>5. PICK f : f = items' /\ f \in [1..n -> Name]
      BY <1>1, <2>1, <2>2, <2>3
    <2>6. f \in Seq(Name) /\ Len(f) = n
      BY <2>4, <2>5, FunctionIsSeq
    <2> QED BY <2>4, <2>5, <2>6
  <1>8. Types'
    <2>1. Path' = Path /\ Queued' = Queued /\ Listings' = Listings /\ DirAt' = DirAt
      BY <1>2, Same
    <2>2. (dir_queue \in Seq(Queued) /\ \A i \in 1..Len(dir_queue) : Entry(dir_queue[i]))'
      <3>1. dir_queue' \in Seq(Queued')
        BY <1>1, <1>5, <2>1
      <3>2. \A i \in 1..Len(dir_queue') : 
               /\ dir_queue'[i] \in Queued
               /\ dir_queue'[i].abs_path = dir_queue'[i].rel_path
               /\ Len(dir_queue'[i].rel_path) = dir_queue'[i].depth
               /\ DirAt[dir_queue'[i].abs_path] \in Dirs
        BY <1>1, <1>5 DEF Entry
      <3> QED BY <2>1, <3>1, <3>2 DEF Entry
    <2>3. (rel_path \in Seq(Name) /\ Len(rel_path) <= max_depth)'
      BY <1>1, <1>2, <1>6 DEF Name
    <2>4. (items \in Seq(Name) /\ Len(items) <= MaxEntries)'
      BY <1>7 DEF Name
    <2>5. /\ tree' \in [Dirs -> Listings'] /\ max_depth' \in Depths
          /\ pc' \in {"construct", "iterate", "next", "done", "failed"}
          /\ first_elem' \in Seq(Path') /\ Len(first_elem') <= 1
          /\ pc' = "iterate" => Len(first_elem') = 1
          /\ out' \in Seq(Path')
      BY <1>2, <2>1 DEF Types
    <2> QED BY <2>2, <2>3, <2>4, <2>5 DEF Types
  <1>9. Spine'
    <2>1. PICK n, l : n = Len(dir_queue) - 1 /\ l = Len(Added(top))
      OBVIOUS
    <2>2. n \in Nat /\ l \in Nat /\ Len(next) = n + l /\ Len(dir_queue) = n + 1
      BY <1>4, <2>1 DEF Extends
    <2>3. \A i \in 1..n : next[i] = dir_queue[i]
      BY <1>4, <2>1 DEF Extends
    <2>4. \A i \in 1..l : next[n + i] = Added(top)[i]
      BY <1>4, <2>1 DEF Extends
    <2>5. \A i \in 1..(n + l) : Front(next[i].rel_path) \in Seq(Name)
      <3> TAKE i \in 1..(n + l)
      <3>1. PICK q : q = next[i] /\ Entry(q)
        BY <1>5, <2>2
      <3>2. PICK k \in Nat : k = 1 + max_depth
        BY <1>3
      <3>3. q.rel_path \in Path
        BY <3>1 DEF Entry, Queued
      <3>4. q.rel_path \in Seq(Name)
        BY <3>2, <3>3, Bounded DEF Path
      <3> QED BY <3>1, <3>4, FrontIsPrefix
    <2>6. /\ \A i \in 1..n : IsPrefix(Front(next[i].rel_path), Front(top.rel_path))
          /\ \A i, j \in 1..n : i < j =>
                IsPrefix(Front(next[i].rel_path), Front(next[j].rel_path))
      <3>1. PICK k : k = n + 1
        OBVIOUS
      <3>2. /\ k \in 1..k /\ Len(dir_queue) = k /\ \A i \in 1..n : i \in 1..k /\ i < k
            /\ dir_queue[k] = top
        BY <1>5, <2>2, <3>1
      <3> QED BY <2>3, <3>2 DEF Spine
    <2>7. \A i \in 1..n : IsPrefix(Front(next[i].rel_path), top.rel_path)
      <3> TAKE i \in 1..n
      <3>1. i \in 1..(n + l)
        BY <2>2
      <3>2. PICK f, g, h : f = Front(next[i].rel_path) /\ g = Front(top.rel_path) /\ h = top.rel_path
        OBVIOUS
      <3>3. /\ f \in Seq(Name) /\ g \in Seq(Name) /\ h \in Seq(Name)
            /\ IsPrefix(f, g) /\ IsPrefix(g, h)
        BY <1>6, <2>5, <2>6, <3>1, <3>2, FrontIsPrefix
      <3>4. IsPrefix(f, h)
        BY <3>3, PrefixTransitive
      <3> QED BY <3>2, <3>4
    <2>8. \A i \in 1..l : Front(next[n + i].rel_path) = top.rel_path
      BY <1>3, <1>5, <2>1, <2>4, AddedOf
    <2>9. IsPrefix(top.rel_path, top.rel_path)
      BY <1>6, PrefixOfItself
    <2>10. \A i \in 1..(n + l) : i \in 1..n \/ \E j \in 1..l : i = n + j
      <3> TAKE i \in 1..(n + l)
      <3>1. i \in 1..n \/ (i - n \in 1..l /\ i = n + (i - n))
        BY <2>2
      <3> QED BY <3>1
    <2>11. \A i \in 1..(n + l) : i \in 1..n \/ Front(next[i].rel_path) = top.rel_path
      BY <2>8, <2>10
    <2>12. \A i \in 1..(n + l) : IsPrefix(Front(next[i].rel_path), top.rel_path)
      BY <2>7, <2>9, <2>11
    <2>13. ASSUME NEW i \in 1..(n + l), NEW j \in 1..(n + l), i < j
           PROVE  IsPrefix(Front(next[i].rel_path), Front(next[j].rel_path))
      <3>1. CASE j \in 1..n
        <4>1. i \in 1..n
          BY <2>2, <2>13, <3>1
        <4> QED BY <2>6, <2>13, <3>1, <4>1
      <3>2. CASE Front(next[j].rel_path) = top.rel_path
        BY <2>12, <3>2
      <3> QED BY <2>11, <3>1, <3>2
    <2> QED BY <1>1, <2>2, <2>12, <2>13 DEF Spine
  <1>10. Ordered'
    <2>1. PICK rest : /\ Contributes(rest, dir_queue, <<>>)
                      /\ Expected[max_depth][Root] = out \o (First \o (Items \o rest[Len(dir_queue)]))
      BY DEF Ordered
    <2>2. PICK new : /\ Contributes(new, next, <<>>)
                     /\ rest[Len(dir_queue)] = Under(top.rel_path, Names(DirAt[top.abs_path]))
                                               \o new[Len(next)]
      <3>1. Relists(dir_queue, top, next, rest)
        BY <1>3, <1>4, <2>1, Relisted
      <3> QED BY <3>1 DEF Relists
    <2>3. Items = <<>>
      BY DEF Items, Under, Singles, ListNext
    <2>4. Items' = Under(top.rel_path, Names(DirAt[top.abs_path]))
      BY <1>1 DEF Items, Singles, Names
    <2>5. First' = First
      BY <1>2 DEF First
    <2>6. <<>> \o rest[Len(dir_queue)] = rest[Len(dir_queue)]
      <3>1. PICK n : n = Len(dir_queue)
        OBVIOUS
      <3>2. n \in 0..n
        BY <1>5, <3>1
      <3>3. rest[n] \in Paths
        BY <2>1, <3>1, <3>2 DEF Contributes
      <3> QED BY <3>1, <3>3, PathsConcat
    <2>7. Expected' = Expected /\ DirAt' = DirAt /\ max_depth' = max_depth
      BY <1>2, Same
    <2>8. Contributes(new, dir_queue, <<>>)'
      <3>1. /\ new \in [0..Len(next) -> Paths] /\ new[0] = <<>>
            /\ \A i \in 1..Len(next) :
                  new[i] = Under(next[i].rel_path,
                                 Expected[max_depth - next[i].depth][DirAt[next[i].abs_path]])
                           \o new[i - 1]
        BY <2>2 DEF Contributes, Listing
      <3> QED BY <1>1, <2>7, <3>1 DEF Contributes, Listing
    <2>9. (Expected[max_depth][Root] = out \o (First \o (Items \o new[Len(dir_queue)])))'
      BY <1>1, <1>2, <2>1, <2>2, <2>3, <2>4, <2>5, <2>6, <2>7
    <2> QED BY <2>8, <2>9 DEF Ordered
  <1>11. Finished'
    BY <1>2 DEF Finished, ListNext, Running
  <1> QED BY <1>8, <1>9, <1>10, <1>11

\* The other steps leave the queue alone.
LEMMA Others ==
  ASSUME ListInv, [Next]_vars, ~ListNext
  PROVE  ListInv'
  <1> USE DEF ListInv
  <1>1. CASE UNCHANGED vars
    <2>1. UNCHANGED <<tree, max_depth, dir_queue, rel_path, items, pc, first_elem, out>>
      BY <1>1 DEF vars
    <2>2. Types'
      <3>1. Path' = Path /\ Queued' = Queued /\ Listings' = Listings /\ DirAt' = DirAt
        BY <2>1, Same
      <3> QED BY <2>1, <3>1 DEF Types, Entry, Name
    <2>3. Ordered'
      <3>1. First' = First /\ Items' = Items
        BY <2>1 DEF First, Items
      <3> QED BY <2>1, <3>1, MovedOn
    <2>4. Spine' /\ Finished'
      BY <2>1 DEF Spine, Finished
    <2> QED BY <2>2, <2>3, <2>4
  <1>2. CASE ListFails \/ TakeFirst \/ YieldFirst \/ YieldItem \/ Stop
    <2>1. UNCHANGED <<tree, max_depth, dir_queue, rel_path>>
      BY <1>2 DEF ListFails, TakeFirst, YieldFirst, YieldItem, Stop
    <2>2. Path' = Path /\ Queued' = Queued /\ Listings' = Listings /\ DirAt' = DirAt
      BY <2>1, Same
    <2>3. Spine'
      BY <2>1 DEF Spine
    <2>4. out \in Paths /\ First \in Paths /\ Items \in Paths
      BY TypesListing
    \* What the queue and the path need.
    <2>5. /\ tree' \in [Dirs -> Listings'] /\ max_depth' \in Depths
          /\ dir_queue' \in Seq(Queued') /\ \A i \in 1..Len(dir_queue') : Entry(dir_queue'[i])
          /\ rel_path' \in Seq(Name) /\ Len(rel_path') <= max_depth'
      BY <2>1, <2>2 DEF Types
    <2>6. ASSUME items' \in Seq(Name), Len(items') <= MaxEntries,
                 pc' \in {"construct", "iterate", "next", "done", "failed"},
                 first_elem' \in Seq(Path), Len(first_elem') <= 1,
                 pc' = "iterate" => Len(first_elem') = 1, out' \in Seq(Path)
          PROVE  Types'
      <3>1. (\A i \in 1..Len(dir_queue) : Entry(dir_queue[i]))'
        BY <2>1, <2>2, <2>5 DEF Entry
      <3> QED BY <2>2, <2>5, <2>6, <3>1 DEF Types, Name
    <2>7. CASE ListFails
      <3>1. Types'
        BY <2>6, <2>7 DEF ListFails, Types
      <3>2. First' = First /\ Items' = Items /\ out' = out
        BY <2>7 DEF ListFails, First, Items, Running
      <3>3. Ordered'
        BY <2>1, <3>2, MovedOn
      <3>4. Finished'
        BY <2>7 DEF ListFails, Finished
      <3> QED BY <2>3, <3>1, <3>3, <3>4
    <2>8. CASE Stop
      <3>1. Types'
        BY <2>6, <2>8 DEF Stop, Types
      <3>2. First' = First /\ Items' = Items /\ out' = out
        BY <2>8 DEF Stop, First, Items, Running
      <3>3. Ordered'
        BY <2>1, <3>2, MovedOn
      <3>4. Finished'
        BY <2>8 DEF Stop, Finished
      <3> QED BY <2>3, <3>1, <3>3, <3>4
    <2>9. CASE YieldFirst
      <3>1. PICK x : x = first_elem[1] /\ first_elem = <<x>> /\ x \in Path
        <4>1. first_elem \in Seq(Path) /\ Len(first_elem) = 1
          BY <2>9 DEF YieldFirst, Types
        <4>2. PICK X, f : X = Path /\ f = first_elem
          OBVIOUS
        <4>3. f \in Seq(X) /\ Len(f) = 1
          BY <4>1, <4>2
        <4>4. f[1] \in X /\ f = <<f[1]>>
          BY <4>3
        <4> QED BY <4>2, <4>4
      <3>2. out' = out \o first_elem /\ out' \in Seq(Path)
        BY <2>9, <3>1, AppendTo DEF YieldFirst, Types
      <3>3. Types'
        BY <2>6, <2>9, <3>2 DEF YieldFirst, Types
      <3>4. First = first_elem /\ First' = <<>> /\ Items' = Items
        BY <2>9 DEF YieldFirst, First, Items
      <3>5. ASSUME NEW r \in Paths
            PROVE  out' \o (First' \o (Items' \o r)) = out \o (First \o (Items \o r))
        <4>1. PICK a, f, u : a = out /\ f = First /\ u = Items
          OBVIOUS
        <4>3. a \in Paths /\ f \in Paths /\ u \in Paths /\ r \in Paths
          BY <2>4, <4>1
        <4>2. (a \o f) \o (<<>> \o (u \o r)) = a \o (f \o (u \o r))
          BY <4>3, Regroup
        <4> QED BY <3>2, <3>4, <4>1, <4>2
      <3>6. Ordered'
        BY <2>1, <3>5, MovedOn
      <3>7. Finished'
        BY <2>9 DEF YieldFirst, Finished
      <3> QED BY <2>3, <3>3, <3>6, <3>7
    <2>10. CASE TakeFirst
      <3>1. items # <<>>
        BY <2>10 DEF TakeFirst
      <3>2. /\ Item \in Path /\ <<Item>> \in Paths
            /\ Tail(items) \in Seq(Name) /\ Len(Tail(items)) <= MaxEntries
            /\ Items = <<Item>> \o Under(rel_path, Singles(Tail(items)))
            /\ Under(rel_path, Singles(Tail(items))) \in Paths
        BY <3>1, ItemTypes
      <3>3. first_elem' = <<Item>> /\ items' = Tail(items) /\ pc' = "iterate" /\ out' = out
        BY <2>10 DEF TakeFirst
      <3>4. first_elem' \in Seq(Path) /\ Len(first_elem') = 1
        BY <3>2, <3>3
      <3>5. Types'
        BY <2>6, <3>2, <3>3, <3>4 DEF Types
      <3>6. First = <<>> /\ First' = <<Item>> /\ Items' = Under(rel_path, Singles(Tail(items)))
        BY <2>1, <2>10, <3>3 DEF TakeFirst, First, Items
      <3>7. ASSUME NEW r \in Paths
            PROVE  out' \o (First' \o (Items' \o r)) = out \o (First \o (Items \o r))
        <4>1. PICK a, f, u : a = out /\ f = <<Item>> /\ u = Under(rel_path, Singles(Tail(items)))
          OBVIOUS
        <4>3. a \in Paths /\ f \in Paths /\ u \in Paths /\ r \in Paths
          BY <2>4, <3>2, <4>1
        <4>2. <<>> \o ((f \o u) \o r) = f \o (u \o r)
          BY <4>3, Regroup
        <4> QED BY <3>2, <3>3, <3>6, <4>1, <4>2
      <3>8. Ordered'
        BY <2>1, <3>7, MovedOn
      <3>9. Finished'
        BY <3>3 DEF Finished
      <3> QED BY <2>3, <3>5, <3>8, <3>9
    <2>11. CASE YieldItem
      <3>1. items # <<>>
        BY <2>11 DEF YieldItem
      <3>2. /\ Item \in Path /\ <<Item>> \in Paths
            /\ Tail(items) \in Seq(Name) /\ Len(Tail(items)) <= MaxEntries
            /\ Items = <<Item>> \o Under(rel_path, Singles(Tail(items)))
            /\ Under(rel_path, Singles(Tail(items))) \in Paths
        BY <3>1, ItemTypes
      <3>3. /\ out' = Append(out, Item) /\ items' = Tail(items)
            /\ pc' = "next" /\ pc = "next" /\ first_elem' = first_elem
        BY <2>11 DEF YieldItem
      <3>4. out' = out \o <<Item>> /\ out' \in Seq(Path)
        BY <3>2, <3>3, AppendTo DEF Types
      <3>5. Types'
        BY <2>6, <3>2, <3>3, <3>4 DEF Types
      <3>6. First = <<>> /\ First' = <<>> /\ Items' = Under(rel_path, Singles(Tail(items)))
        BY <2>1, <3>3 DEF First, Items
      <3>7. ASSUME NEW r \in Paths
            PROVE  out' \o (First' \o (Items' \o r)) = out \o (First \o (Items \o r))
        <4>1. PICK a, f, u : a = out /\ f = <<Item>> /\ u = Under(rel_path, Singles(Tail(items)))
          OBVIOUS
        <4>2. /\ <<>> \o ((f \o u) \o r) = f \o (u \o r)
              /\ (a \o f) \o (<<>> \o (u \o r)) = a \o (f \o (u \o r))
          <5>1. a \in Paths /\ f \in Paths /\ u \in Paths /\ r \in Paths
            BY <2>4, <3>2, <4>1
          <5>2. <<>> \o ((f \o u) \o r) = f \o (u \o r)
            BY <5>1, Regroup
          <5>3. (a \o f) \o (<<>> \o (u \o r)) = a \o (f \o (u \o r))
            BY <5>1, Regroup
          <5> QED BY <5>2, <5>3
        <4> QED BY <3>2, <3>4, <3>6, <4>1, <4>2
      <3>8. Ordered'
        BY <2>1, <3>7, MovedOn
      <3>9. Finished'
        BY <3>3 DEF Finished
      <3> QED BY <2>3, <3>5, <3>8, <3>9
    <2> QED BY <1>2, <2>7, <2>8, <2>9, <2>10, <2>11
  <1> QED BY <1>1, <1>2 DEF Next, Terminated

LEMMA Invariance == Spec => []ListInv
  <1>1. ListInv /\ [Next]_vars => ListInv'
    <2> SUFFICES ASSUME ListInv, [Next]_vars PROVE ListInv'
      OBVIOUS
    <2>1. CASE ListNext
      BY <2>1, Lists DEF ListInv
    <2>2. CASE ~ListNext
      BY <2>2, Others
    <2> QED BY <2>1, <2>2
  <1> QED BY Initially, <1>1, PTL DEF Spec

-------------------------------------------------------------------------------
(* The theorems. *)

\* The types: in particular the paths that are queued are within the limit, and
\* lead to directories.
THEOREM TypeCorrect == Spec => []TypeOK
  <1>1. ListInv => TypeOK
    <2> SUFFICES ASSUME ListInv PROVE TypeOK
      OBVIOUS
    <2> USE DEF ListInv
    <2>1. max_depth \in Nat
      BY TypesListing
    <2>2. rel_path \in Path
      <3>1. PICK n, p : n = 1 + max_depth /\ p = rel_path
        OBVIOUS
      <3>2. p \in Seq(Name) /\ Len(p) <= max_depth
        BY <3>1 DEF Types
      <3>3. n \in Nat /\ Len(p) <= n
        <4>1. Len(p) \in Nat
          BY <3>2
        <4> QED BY <2>1, <3>1, <3>2, <4>1
      <3>4. p \in BoundedSeq(Name, n)
        BY <3>2, <3>3, Bounded
      <3> QED BY <3>1, <3>4 DEF Path
    <2>3. items \in BoundedSeq(Name, MaxEntries)
      BY Bounded, DepthsAssumption DEF Types
    <2>4. first_elem \in BoundedSeq(Path, 1)
      <3>1. PICK X, n : X = Path /\ n = 1 /\ n \in Nat
        OBVIOUS
      <3>2. first_elem \in Seq(X) /\ Len(first_elem) <= n
        BY <3>1 DEF Types
      <3>3. first_elem \in BoundedSeq(X, n)
        BY <3>1, <3>2, Bounded
      <3> QED BY <3>1, <3>3
    <2>5. /\ \A i \in DOMAIN dir_queue : dir_queue[i] \in Queued
          /\ \A i \in DOMAIN out : out[i] \in Path
      <3>1. PICK X, Y : X = Queued /\ Y = Path
        OBVIOUS
      <3>2. dir_queue \in Seq(X) /\ out \in Seq(Y)
        BY <3>1 DEF Types
      <3>3. /\ \A i \in DOMAIN dir_queue : dir_queue[i] \in X
            /\ \A i \in DOMAIN out : out[i] \in Y
        BY <3>2
      <3> QED BY <3>1, <3>3
    <2> QED BY <2>2, <2>3, <2>4, <2>5 DEF Types, TypeOK
  <1> QED BY Invariance, <1>1, PTL

\* The queue holds children of the directory listed last and of its ancestors
\* only, so that its length is bounded by the depth and not by the file system.
THEOREM SpineTheorem == Spec => []QueueOnSpine
  <1>1. ListInv => QueueOnSpine
    <2> SUFFICES ASSUME ListInv PROVE QueueOnSpine
      OBVIOUS
    <2>1. DOMAIN dir_queue = 1..Len(dir_queue)
      <3>1. PICK X : dir_queue \in Seq(X)
        BY DEF ListInv, Types
      <3> QED BY <3>1
    <2> QED BY <2>1 DEF ListInv, Spine, QueueOnSpine
  <1> QED BY Invariance, <1>1, PTL

\* The consumer is given what `ls -R` means, in its order, whole unless a call
\* fails, for any file system: the first item that the constructor takes early
\* and the directories that are queued while items wait change nothing.
THEOREM OrderTheorem == Spec => []ListsInOrder
  <1>1. ListInv => ListsInOrder
    <2> SUFFICES ASSUME ListInv PROVE ListsInOrder
      OBVIOUS
    <2> USE DEF ListInv
    <2>1. PICK rest : /\ Contributes(rest, dir_queue, <<>>)
                      /\ Expected[max_depth][Root] = out \o (First \o (Items \o rest[Len(dir_queue)]))
      BY DEF Ordered
    <2>2. out \in Paths /\ First \in Paths /\ Items \in Paths
      BY TypesListing
    <2>3. rest[Len(dir_queue)] \in Paths
      <3>1. PICK n : n = Len(dir_queue)
        OBVIOUS
      <3>2. n \in Nat
        BY <3>1 DEF Types
      <3>3. rest \in [0..n -> Paths] /\ n \in 0..n
        BY <2>1, <3>1, <3>2 DEF Contributes
      <3>4. rest[n] \in Paths
        BY <3>3
      <3> QED BY <3>1, <3>4
    <2>4. PICK a, r : a = out /\ r = First \o (Items \o rest[Len(dir_queue)])
      OBVIOUS
    <2>5. a \in Paths /\ r \in Paths
      <3>1. PICK x, u, v : x = First /\ u = Items /\ v = rest[Len(dir_queue)]
        OBVIOUS
      <3>2. x \in Paths /\ u \in Paths /\ v \in Paths
        BY <2>2, <2>3, <3>1
      <3>3. u \o v \in Paths
        BY <3>2, PathsConcat
      <3>4. x \o (u \o v) \in Paths
        BY <3>2, <3>3, PathsConcat
      <3> QED BY <2>2, <2>4, <3>1, <3>4
    <2>6. IsPrefix(a, a \o r)
      <3>1. PICK X : a \in Seq(X) /\ r \in Seq(X)
        BY <2>5 DEF Paths
      <3>2. /\ a \o r \in Seq(X) /\ Len(a \o r) = Len(a) + Len(r) /\ Len(a) \in Nat /\ Len(r) \in Nat
            /\ \A i \in 1..(Len(a) + Len(r)) : (a \o r)[i] = IF i <= Len(a) THEN a[i] ELSE r[i - Len(a)]
        BY <3>1, ConcatProperties
      <3>3. Len(a) <= Len(a \o r) /\ \A i \in 1..Len(a) : a[i] = (a \o r)[i]
        BY <3>2
      <3> QED BY <3>1, <3>2, <3>3, PrefixMeans
    <2>7. ASSUME pc = "done" PROVE out = Expected[max_depth][Root]
      <3>1. items = <<>> /\ dir_queue = <<>>
        BY <2>7 DEF Finished
      <3>2. First = <<>>
        BY <2>7 DEF First
      <3>3. Items = <<>>
        BY <3>1 DEF Items, Under, Singles
      <3>4. rest[Len(dir_queue)] = <<>>
        BY <2>1, <3>1 DEF Contributes
      <3>5. r = <<>>
        <4>1. <<>> \o <<>> = <<>>
          BY PathsConcat
        <4> QED BY <2>4, <3>2, <3>3, <3>4, <4>1
      <3>6. a \o <<>> = a
        BY <2>5, PathsConcat
      <3> QED BY <2>1, <2>4, <3>5, <3>6
    <2> QED BY <2>1, <2>4, <2>6, <2>7 DEF ListsInOrder
  <1> QED BY Invariance, <1>1, PTL
===============================================================================
