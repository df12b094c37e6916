--------------------------- MODULE ChannelsProofs ---------------------------
(***************************************************************************)
(* Proofs about the channel adapters and the connections they are used     *)
(* with.  Adapters: of payloads of every length, what MCAdapters checks.   *)
(* Channels: for every set of connections and readers and every TTL, lag   *)
(* and number of rotations, what MCChannels checks; there AgeInv bounds    *)
(* how long ago a version was replaced that is on its way to the cache, or *)
(* in it, and FreshInv what a put_secret leaves of older versions.         *)
(***************************************************************************)
EXTENDS Channels, Adapters, FiniteSetTheorems, WellFoundedInduction, TLAPS

-----------------------------------------------------------------------------
(***************************************************************************)
(* The adapters.  What their loops compute is proved by induction: the     *)
(* library's fact that < is well-founded on the naturals gives every set   *)
(* of numbers its least, and that gives the induction on sets of numbers   *)
(* below; a recursive definition means what it says by Recursion.          *)
(***************************************************************************)

\* Numbers have a least.
LEMMA LeastNatural ==
  ASSUME NEW T \in SUBSET Nat, T # {}
  PROVE  \E x \in T : \A y \in T : x <= y
  <1> DEFINE R == OpToRel(<, Nat)
  <1>1. IsWellFoundedOn(R, Nat)
    BY NatLessThanWellFounded
  <1>2. ASSUME NEW x \in Nat, NEW y \in Nat, <<y, x>> \notin R PROVE x <= y
    BY <1>2 DEF OpToRel
  <1> HIDE DEF R
  <1>3. PICK x \in T : \A y \in T : ~(<<y, x>> \in R)
    BY <1>1, WFMin
  <1> QED  BY <1>2, <1>3

\* What has 0, and with each number the next, has them all.
LEMMA Induction ==
  ASSUME NEW T, 0 \in T, \A n \in Nat : n \in T => n + 1 \in T
  PROVE  Nat \subseteq T
  <1> SUFFICES ASSUME Nat \ T # {} PROVE FALSE
    OBVIOUS
  <1>1. PICK x \in Nat \ T : \A y \in Nat \ T : x <= y
    BY LeastNatural
  <1>2. x - 1 \in Nat /\ x - 1 \in T
    BY <1>1
  <1> QED  BY <1>1, <1>2

\* f holds what the first n steps from base come to.
Iterates(f, A, base, n, step) ==
  /\ f \in [0..n -> A]
  /\ f[0] = base
  /\ \A i \in 1..n : f[i] = step[<<f[i - 1], i>>]

\* Every number of steps comes to something.
LEMMA Recursion ==
  ASSUME NEW A, NEW base \in A, NEW n \in Nat, NEW step \in [A \X (1..n) -> A]
  PROVE  \E f : Iterates(f, A, base, n, step)
  <1> DEFINE Upto(m) == \E f \in [0..m -> A] :
                          f[0] = base /\ \A i \in 1..m : f[i] = step[<<f[i - 1], i>>]
             T == {m \in Nat : m <= n => Upto(m)}
  <1>1. 0 \in T
    <2> DEFINE f == [i \in 0..0 |-> base]
    <2>1. f \in [0..0 -> A] /\ f[0] = base /\ 1..0 = {}
      OBVIOUS
    <2>2. Upto(0)
      BY <2>1
    <2> QED  BY <2>2
  <1>2. ASSUME NEW m \in Nat, m \in T PROVE m + 1 \in T
    <2> SUFFICES ASSUME m + 1 <= n PROVE Upto(m + 1)
      OBVIOUS
    <2>1. PICK f \in [0..m -> A] : f[0] = base /\ \A i \in 1..m : f[i] = step[<<f[i - 1], i>>]
      BY <1>2
    <2> DEFINE g == [i \in 0..(m + 1) |-> IF i = m + 1 THEN step[<<f[m], m + 1>>] ELSE f[i]]
    <2>2. step[<<f[m], m + 1>>] \in A
      BY <2>1
    <2>3. g \in [0..(m + 1) -> A]
      BY <2>2
    <2>4. g[0] = base
      BY <2>1
    <2>5. ASSUME NEW i \in 1..(m + 1) PROVE g[i] = step[<<g[i - 1], i>>]
      <3>1. g[i - 1] = f[i - 1]
        OBVIOUS
      <3>2. CASE i = m + 1
        <4>1. g[i] = step[<<f[m], m + 1>>] /\ i - 1 = m
          BY <3>2
        <4> HIDE DEF g
        <4> QED  BY <3>1, <3>2, <4>1
      <3>3. CASE i \in 1..m
        <4>1. g[i] = f[i] /\ f[i] = step[<<f[i - 1], i>>]
          BY <2>1, <3>3
        <4> HIDE DEF g
        <4> QED  BY <3>1, <4>1
      <3> QED  BY <3>2, <3>3
    <2> HIDE DEF g
    <2> QED  BY <2>3, <2>4, <2>5
  <1> HIDE DEF T
  <1>3. n \in T
    BY <1>1, <1>2, Induction
  <1> QED  BY <1>3 DEF T, Iterates

\* f enumerates ps in the order R.
Orders(f, n, ps, R) ==
  /\ f \in [1..n -> ps]
  /\ \A p \in ps : \E i \in 1..n : f[i] = p
  /\ \A i, j \in 1..n : <<f[i], f[j]>> \in R <=> i < j

\* Then the k-th is the one with k - 1 before it.
LEMMA RankCount ==
  ASSUME NEW n \in Nat, NEW ps, NEW f, NEW R, Orders(f, n, ps, R)
  PROVE  /\ Cardinality(ps) = n
         /\ \A k \in 1..n : Cardinality({q \in ps : <<q, f[k]>> \in R}) = k - 1
  <1>1. /\ f \in [1..n -> ps]
        /\ \A p \in ps : \E i \in 1..n : f[i] = p
        /\ \A i, j \in 1..n : <<f[i], f[j]>> \in R <=> i < j
    BY DEF Orders
  <1>2. ASSUME NEW i \in 1..n, NEW j \in 1..n, f[i] = f[j] PROVE i = j
    <2>1. ~(i < i)
      OBVIOUS
    <2>2. ~(<<f[i], f[j]>> \in R) /\ ~(<<f[j], f[i]>> \in R)
      BY <1>1, <1>2, <2>1
    <2> QED  BY <1>1, <2>2
  <1>3. f \in Bijection(1..n, ps)
    BY <1>1, <1>2 DEF Bijection, Injection, Surjection, IsInjective
  <1>4. Cardinality(ps) = n
    BY <1>3, FS_CountingElements DEF ExistsBijection
  <1>5. ASSUME NEW k \in 1..n
        PROVE  Cardinality({q \in ps : <<q, f[k]>> \in R}) = k - 1
    <2> DEFINE before == {q \in ps : <<q, f[k]>> \in R}
               g == [i \in 1..(k - 1) |-> f[i]]
    <2>1. g \in [1..(k - 1) -> before]
      BY <1>1
    <2>2. \A q \in before : \E i \in 1..(k - 1) : g[i] = q
      <3> SUFFICES ASSUME NEW q \in before PROVE \E i \in 1..(k - 1) : g[i] = q
        OBVIOUS
      <3>1. PICK i \in 1..n : f[i] = q
        BY <1>1
      <3>2. i \in 1..(k - 1)
        BY <1>1, <3>1
      <3> QED  BY <3>1, <3>2
    <2>3. \A i, j \in 1..(k - 1) : g[i] = g[j] => i = j
      BY <1>2
    <2>4. g \in Bijection(1..(k - 1), before)
      BY <2>1, <2>2, <2>3 DEF Bijection, Injection, Surjection, IsInjective
    <2>5. k - 1 \in Nat
      OBVIOUS
    <2> HIDE DEF g, before
    <2>6. Cardinality(before) = k - 1
      BY <2>4, <2>5, FS_CountingElements DEF ExistsBijection
    <2> QED  BY <2>6 DEF before
  <1> QED  BY <1>4, <1>5

\* out lists the first n rows of seqs, row by row: rowAt and colAt say where each item is from.
Lists(out, seqs, n, rowAt, colAt) ==
  /\ \A k \in 1..Len(out) :
       /\ rowAt[k] \in 1..n /\ colAt[k] \in 1..Len(seqs[rowAt[k]])
       /\ out[k] = seqs[rowAt[k]][colAt[k]]
  /\ \A k, l \in 1..Len(out) :
       k < l => rowAt[k] < rowAt[l] \/ (rowAt[k] = rowAt[l] /\ colAt[k] < colAt[l])
  /\ \A a \in 1..n : \A b \in 1..Len(seqs[a]) : \E k \in 1..Len(out) : rowAt[k] = a /\ colAt[k] = b

Listed(out, seqs, n) ==
  \E rowAt, colAt \in [1..Len(out) -> Nat] : Lists(out, seqs, n, rowAt, colAt)

\* Another row continues the list.
LEMMA ListsNext ==
  ASSUME NEW S, NEW seqs \in Seq(Seq(S)), NEW n \in Nat, n + 1 <= Len(seqs),
         NEW out \in Seq(S), Listed(out, seqs, n)
  PROVE  Listed(out \o seqs[n + 1], seqs, n + 1)
  <1> DEFINE next == seqs[n + 1]
             new == out \o next
             N == Len(out)
  <1>1. PICK rowAt \in [1..N -> Nat], colAt \in [1..N -> Nat] : Lists(out, seqs, n, rowAt, colAt)
    BY DEF Listed
  <1>2. next \in Seq(S) /\ Len(next) \in Nat /\ N \in Nat
    OBVIOUS
  <1>3. /\ new \in Seq(S) /\ Len(new) = N + Len(next)
        /\ \A k \in 1..N : new[k] = out[k]
        /\ \A k \in (N + 1)..(N + Len(next)) : new[k] = next[k - N]
    BY <1>2
  <1> DEFINE rowAt1 == [k \in 1..Len(new) |-> IF k <= N THEN rowAt[k] ELSE n + 1]
             colAt1 == [k \in 1..Len(new) |-> IF k <= N THEN colAt[k] ELSE k - N]
  <1>4. rowAt1 \in [1..Len(new) -> Nat] /\ colAt1 \in [1..Len(new) -> Nat]
    BY <1>2, <1>3
  <1>5. \A k \in 1..N : k \in 1..Len(new) /\ rowAt1[k] = rowAt[k] /\ colAt1[k] = colAt[k]
    BY <1>2, <1>3
  <1>11. \A k \in 1..Len(new) :
           k \notin 1..N => /\ k > N /\ k - N \in 1..Len(next)
                           /\ rowAt1[k] = n + 1 /\ colAt1[k] = k - N
    BY <1>2, <1>3
  <1>10. n + 1 \in 1..Len(seqs) /\ \A a \in 1..Len(seqs) : Len(seqs[a]) \in Nat
    OBVIOUS
  <1> HIDE DEF new, rowAt1, colAt1, N
  <1>6. ASSUME NEW k \in 1..Len(new)
        PROVE  /\ rowAt1[k] \in 1..(n + 1) /\ colAt1[k] \in 1..Len(seqs[rowAt1[k]])
               /\ new[k] = seqs[rowAt1[k]][colAt1[k]]
    <2>1. CASE k \in 1..N
      <3>1. rowAt[k] \in 1..n /\ colAt[k] \in 1..Len(seqs[rowAt[k]]) /\ out[k] = seqs[rowAt[k]][colAt[k]]
        BY <1>1, <2>1 DEF Lists, N
      <3>2. rowAt[k] \in 1..(n + 1)
        BY <3>1
      <3>3. new[k] = out[k]
        BY <1>3, <2>1
      <3> QED  BY <1>5, <2>1, <3>1, <3>2, <3>3
    <2>2. CASE k \notin 1..N
      <3>1. k > N /\ k - N \in 1..Len(next) /\ rowAt1[k] = n + 1 /\ colAt1[k] = k - N
        BY <1>11, <2>2
      <3>2. new[k] = next[k - N]
        BY <1>2, <1>3, <3>1
      <3> QED  BY <3>1, <3>2
    <2> QED  BY <2>1, <2>2
  <1>7. ASSUME NEW k \in 1..Len(new), NEW l \in 1..Len(new), k < l
        PROVE  rowAt1[k] < rowAt1[l] \/ (rowAt1[k] = rowAt1[l] /\ colAt1[k] < colAt1[l])
    <2>1. CASE l \in 1..N
      <3>1. k \in 1..N
        BY <1>2, <1>3, <1>7, <2>1
      <3>2. /\ rowAt1[k] = rowAt[k] /\ colAt1[k] = colAt[k]
            /\ rowAt1[l] = rowAt[l] /\ colAt1[l] = colAt[l]
        BY <1>5, <2>1, <3>1
      <3> QED  BY <1>1, <1>7, <2>1, <3>1, <3>2 DEF Lists, N
    <2>2. CASE l \notin 1..N
      <3>1. l > N /\ rowAt1[l] = n + 1 /\ colAt1[l] = l - N
        BY <1>11, <2>2
      <3>2. CASE k \in 1..N
        <4>1. rowAt1[k] = rowAt[k] /\ rowAt[k] \in 1..n
          BY <1>1, <1>5, <1>2, <3>2 DEF Lists, N
        <4> QED  BY <3>1, <4>1
      <3>3. CASE k \notin 1..N
        <4>1. rowAt1[k] = n + 1 /\ colAt1[k] = k - N
          BY <1>11, <3>3
        <4> QED  BY <1>2, <1>3, <1>7, <3>1, <4>1
      <3> QED  BY <3>2, <3>3
    <2> QED  BY <2>1, <2>2
  <1>8. ASSUME NEW a \in 1..(n + 1), NEW b \in 1..Len(seqs[a])
        PROVE  \E k \in 1..Len(new) : rowAt1[k] = a /\ colAt1[k] = b
    <2>1. CASE a \in 1..n
      <3>1. PICK k \in 1..N : rowAt[k] = a /\ colAt[k] = b
        BY <1>1, <2>1 DEF Lists, N
      <3>2. k \in 1..Len(new)
        BY <1>2, <1>3
      <3>3. rowAt1[k] = rowAt[k] /\ colAt1[k] = colAt[k]
        BY <1>5, <1>2, <3>1, <3>2
      <3> QED  BY <3>1, <3>2, <3>3
    <2>2. CASE a = n + 1
      <3> DEFINE k == N + b
      <3>1. k \in 1..Len(new) /\ k \notin 1..N /\ k - N = b
        BY <1>2, <1>3, <2>2
      <3> HIDE DEF k
      <3>2. rowAt1[k] = n + 1 /\ colAt1[k] = b
        BY <1>11, <3>1
      <3> QED  BY <2>2, <3>1, <3>2
    <2> QED  BY <2>1, <2>2
  <1>9. Lists(new, seqs, n + 1, rowAt1, colAt1)
    BY <1>6, <1>7, <1>8 DEF Lists
  <1> QED  BY <1>4, <1>9 DEF Listed, new

\* FlattenSeq lists everything, row by row.
LEMMA FlattenLists ==
  ASSUME NEW S, NEW seqs \in Seq(Seq(S))
  PROVE  FlattenSeq(seqs) \in Seq(S) /\ Listed(FlattenSeq(seqs), seqs, Len(seqs))
  <1>0. Len(seqs) \in Nat /\ \A i \in 1..Len(seqs) : seqs[i] \in Seq(S)
    OBVIOUS
  <1>3. Listed(<<>>, seqs, 0)
    <2> DEFINE none == [k \in 1..0 |-> 0]
    <2>1. Len(<<>>) = 0 /\ 1..0 = {} /\ none \in [1..0 -> Nat]
      OBVIOUS
    <2>2. Lists(<<>>, seqs, 0, none, none)
      BY <2>1 DEF Lists
    <2> QED  BY <2>1, <2>2 DEF Listed
  <1>1. CASE Len(seqs) = 0
    <2>1. FlattenSeq(seqs) = <<>>
      BY <1>1 DEF FlattenSeq
    <2> QED  BY <1>1, <1>3, <2>1
  <1>2. CASE Len(seqs) # 0
    <2> DEFINE L == Len(seqs)
               Def(f) == f = [i \in 1..L |-> IF i = 1 THEN seqs[i] ELSE f[i - 1] \o seqs[i]]
    <2>1. \E f : Def(f)
      <3> DEFINE A == Seq(S)
                 step == [p \in A \X (1..L) |-> p[1] \o seqs[p[2]]]
      <3>1. step \in [A \X (1..L) -> A] /\ <<>> \in A /\ L \in Nat
        OBVIOUS
      <3>2. ASSUME NEW a \in A, NEW i \in 1..L
            PROVE  step[<<a, i>>] = a \o seqs[i]
        <4>1. <<a, i>> \in A \X (1..L)
          OBVIOUS
        <4>2. seqs[i] \in Seq(S)
          BY <1>0
        <4> QED  BY <4>1, <4>2
      <3>6. ASSUME NEW i \in 1..L PROVE <<>> \o seqs[i] = seqs[i]
        BY <1>0
      <3> HIDE DEF step, A, L
      <3>3. PICK g : Iterates(g, A, <<>>, L, step)
        BY <3>1, Recursion
      <3> DEFINE f == [i \in 1..L |-> g[i]]
      <3>4. ASSUME NEW i \in 1..L
            PROVE  f[i] = IF i = 1 THEN seqs[i] ELSE f[i - 1] \o seqs[i]
        <4>1. i - 1 \in 0..L
          BY <3>1
        <4>2. g[i - 1] \in A
          BY <3>3, <4>1 DEF Iterates
        <4>3. g[i] = g[i - 1] \o seqs[i]
          BY <3>2, <3>3, <4>2 DEF Iterates
        <4>4. CASE i = 1
          <5>1. i - 1 = 0
            BY <4>4
          <5>2. g[i] = seqs[i]
            BY <3>3, <3>6, <4>3, <5>1 DEF Iterates
          <5> QED  BY <4>4, <5>2
        <4>5. CASE i # 1
          <5>1. i - 1 \in 1..L
            BY <3>1, <4>5
          <5> QED  BY <4>3, <4>5, <5>1
        <4> QED  BY <4>4, <4>5
      <3>5. f = [i \in 1..L |-> IF i = 1 THEN seqs[i] ELSE f[i - 1] \o seqs[i]]
        BY <3>4
      <3> HIDE DEF f
      <3> QED  BY <3>5 DEF L
    <2> DEFINE flatten == CHOOSE f : Def(f)
    <2>2. Def(flatten)
      BY <2>1
    <2>3. FlattenSeq(seqs) = flatten[L]
      BY <1>2 DEF FlattenSeq
    <2> HIDE DEF flatten
    <2> DEFINE T == {n \in Nat : n + 1 <= L =>
                       flatten[n + 1] \in Seq(S) /\ Listed(flatten[n + 1], seqs, n + 1)}
    <2>5. 0 \in T
      <3> SUFFICES ASSUME 1 <= L
                   PROVE  flatten[1] \in Seq(S) /\ Listed(flatten[1], seqs, 1)
        OBVIOUS
      <3>1. flatten[1] = seqs[1] /\ seqs[1] \in Seq(S)
        BY <2>2
      <3>2. <<>> \o seqs[1] = seqs[1]
        BY <3>1
      <3>3. Listed(<<>> \o seqs[0 + 1], seqs, 0 + 1)
        BY <1>0, <1>3, <3>1, ListsNext, 0 + 1 = 1, <<>> \in Seq(S)
      <3> QED  BY <3>1, <3>2, <3>3
    <2>6. ASSUME NEW n \in Nat, n \in T PROVE n + 1 \in T
      <3> SUFFICES ASSUME n + 2 <= L
                   PROVE  flatten[n + 2] \in Seq(S) /\ Listed(flatten[n + 2], seqs, n + 2)
        OBVIOUS
      <3>1. flatten[n + 1] \in Seq(S) /\ Listed(flatten[n + 1], seqs, n + 1)
        BY <2>6
      <3>2. flatten[n + 2] = flatten[n + 1] \o seqs[n + 2] /\ seqs[n + 2] \in Seq(S)
        <4>1. n + 2 \in 1..L /\ n + 2 # 1 /\ (n + 2) - 1 = n + 1
          BY <1>0
        <4> HIDE DEF L
        <4> QED  BY <1>0, <2>2, <4>1 DEF L
      <3>3. Listed(flatten[n + 1] \o seqs[(n + 1) + 1], seqs, (n + 1) + 1)
        BY <3>1, ListsNext
      <3> QED  BY <3>1, <3>2, <3>3
    <2> HIDE DEF T
    <2>7. L - 1 \in Nat /\ L - 1 \in T
      <3>1. Nat \subseteq T
        BY <2>5, <2>6, Induction
      <3> QED  BY <1>0, <1>2, <3>1
    <2>8. flatten[L] \in Seq(S) /\ Listed(flatten[L], seqs, L)
      BY <1>0, <2>7 DEF T
    <2> QED  BY <2>3, <2>8
  <1> QED  BY <1>1, <1>2

\* What a walk over a grid of sequences of items returns, and where its items are.
Walked(grid) == FlattenSeq([e \in 1..Len(grid) |-> FlattenSeq(grid[e])])
Slots(grid) ==
  {p \in Nat \X Nat \X Nat : /\ p[1] \in 1..Len(grid) /\ p[2] \in 1..Len(grid[p[1]])
                             /\ p[3] \in 1..Len(grid[p[1]][p[2]])}

\* Its k-th item is from the slot pos[k], one slot after the other, and every slot is one.
WalkedFrom(grid, pos) ==
  /\ pos \in [1..Len(Walked(grid)) -> Slots(grid)]
  /\ \A k \in 1..Len(Walked(grid)) :
       Walked(grid)[k] = grid[pos[k][1]][pos[k][2]][pos[k][3]]
  /\ \A k, l \in 1..Len(Walked(grid)) : k < l => Earlier(pos[k], pos[l])
  /\ \A p \in Slots(grid) : \E k \in 1..Len(Walked(grid)) : pos[k] = p

\* Two nested loops walk their grid.
LEMMA WalkLists ==
  ASSUME NEW S, NEW grid \in Seq(Seq(Seq(S)))
  PROVE  Walked(grid) \in Seq(S) /\ \E pos : WalkedFrom(grid, pos)
  <1> DEFINE L == Len(grid)
             flat == [e \in 1..L |-> FlattenSeq(grid[e])]
             out == FlattenSeq(flat)
             N == Len(out)
  <1>1. L \in Nat /\ \A e \in 1..L : grid[e] \in Seq(Seq(S)) /\ Len(grid[e]) \in Nat
    OBVIOUS
  <1>2. \A e \in 1..L : \A u \in 1..Len(grid[e]) : Len(grid[e][u]) \in Nat
    <2> SUFFICES ASSUME NEW e \in 1..L PROVE \A u \in 1..Len(grid[e]) : Len(grid[e][u]) \in Nat
      OBVIOUS
    <2>1. grid[e] \in Seq(Seq(S))
      BY <1>1
    <2> QED  BY <2>1
  <1>3. \A e \in 1..L : /\ flat[e] = FlattenSeq(grid[e]) /\ flat[e] \in Seq(S)
                        /\ Listed(flat[e], grid[e], Len(grid[e]))
    BY <1>1, FlattenLists
  <1>4. flat \in Seq(Seq(S)) /\ Len(flat) = L
    BY <1>1, <1>3
  <1>5. Walked(grid) = out
    BY DEF Walked
  <1> HIDE DEF flat, out, L
  <1>6. out \in Seq(S) /\ Listed(out, flat, L)
    BY <1>4, FlattenLists DEF out
  <1>7. N \in Nat
    BY <1>6
  <1>8. PICK rowAt \in [1..N -> Nat], colAt \in [1..N -> Nat] : Lists(out, flat, L, rowAt, colAt)
    BY <1>6 DEF Listed
  <1> DEFINE In(e, c) == /\ c \in [1..Len(flat[e]) -> Nat] \X [1..Len(flat[e]) -> Nat]
                         /\ Lists(flat[e], grid[e], Len(grid[e]), c[1], c[2])
             at == [e \in 1..L |-> CHOOSE c : In(e, c)]
  <1>9. \A e \in 1..L : In(e, at[e])
    <2> SUFFICES ASSUME NEW e \in 1..L PROVE \E c : In(e, c)
      OBVIOUS
    <2>1. PICK r \in [1..Len(flat[e]) -> Nat], c \in [1..Len(flat[e]) -> Nat] :
            Lists(flat[e], grid[e], Len(grid[e]), r, c)
      BY <1>3 DEF Listed
    <2>2. In(e, <<r, c>>)
      BY <2>1
    <2> QED  BY <2>2
  <1> HIDE DEF at
  <1> DEFINE unit(k) == at[rowAt[k]][1][colAt[k]]
             item(k) == at[rowAt[k]][2][colAt[k]]
             pos == [k \in 1..N |-> <<rowAt[k], unit(k), item(k)>>]
  <1>10. ASSUME NEW k \in 1..N
         PROVE  /\ rowAt[k] \in 1..L /\ unit(k) \in 1..Len(grid[rowAt[k]])
                /\ item(k) \in 1..Len(grid[rowAt[k]][unit(k)])
                /\ out[k] = grid[rowAt[k]][unit(k)][item(k)]
    <2>1. rowAt[k] \in 1..L /\ colAt[k] \in 1..Len(flat[rowAt[k]]) /\ out[k] = flat[rowAt[k]][colAt[k]]
      BY <1>8 DEF Lists
    <2>2. In(rowAt[k], at[rowAt[k]])
      BY <1>9, <2>1
    <2> QED  BY <2>1, <2>2 DEF Lists
  <1>11. ASSUME NEW k \in 1..N, NEW l \in 1..N, k < l
         PROVE  \/ rowAt[k] < rowAt[l]
                \/ rowAt[k] = rowAt[l] /\ (unit(k) < unit(l) \/ (unit(k) = unit(l) /\ item(k) < item(l)))
    <2>1. /\ rowAt[k] \in 1..L /\ colAt[k] \in 1..Len(flat[rowAt[k]])
          /\ rowAt[l] \in 1..L /\ colAt[l] \in 1..Len(flat[rowAt[l]])
          /\ rowAt[k] < rowAt[l] \/ (rowAt[k] = rowAt[l] /\ colAt[k] < colAt[l])
      BY <1>8, <1>11 DEF Lists
    <2>2. CASE rowAt[k] < rowAt[l]
      BY <2>2
    <2>3. CASE rowAt[k] = rowAt[l] /\ colAt[k] < colAt[l]
      <3>1. Lists(flat[rowAt[k]], grid[rowAt[k]], Len(grid[rowAt[k]]), at[rowAt[k]][1], at[rowAt[k]][2])
        BY <1>9, <2>1
      <3>2. colAt[k] \in 1..Len(flat[rowAt[k]]) /\ colAt[l] \in 1..Len(flat[rowAt[k]])
        BY <2>1, <2>3
      <3>3. \/ at[rowAt[k]][1][colAt[k]] < at[rowAt[k]][1][colAt[l]]
            \/ (/\ at[rowAt[k]][1][colAt[k]] = at[rowAt[k]][1][colAt[l]]
                /\ at[rowAt[k]][2][colAt[k]] < at[rowAt[k]][2][colAt[l]])
        BY <2>3, <3>1, <3>2 DEF Lists
      <3> QED  BY <2>3, <3>3
    <2> QED  BY <2>1, <2>2, <2>3
  <1>12. ASSUME NEW e \in 1..L, NEW u \in 1..Len(grid[e]), NEW i \in 1..Len(grid[e][u])
         PROVE  \E k \in 1..N : rowAt[k] = e /\ unit(k) = u /\ item(k) = i
    <2>1. In(e, at[e])
      BY <1>9
    <2>4. Lists(flat[e], grid[e], Len(grid[e]), at[e][1], at[e][2])
      BY <2>1
    <2>2. PICK j \in 1..Len(flat[e]) : at[e][1][j] = u /\ at[e][2][j] = i
      <3>1. \A a \in 1..Len(grid[e]) : \A b \in 1..Len(grid[e][a]) :
              \E j \in 1..Len(flat[e]) : at[e][1][j] = a /\ at[e][2][j] = b
        BY <2>4 DEF Lists
      <3> QED  BY <3>1
    <2>3. PICK k \in 1..N : rowAt[k] = e /\ colAt[k] = j
      BY <1>8, <2>2 DEF Lists
    <2> QED  BY <2>2, <2>3
  <1> HIDE DEF unit, item
  <1>13. pos \in [1..N -> Slots(grid)]
    <2> SUFFICES ASSUME NEW k \in 1..N PROVE <<rowAt[k], unit(k), item(k)>> \in Slots(grid)
      OBVIOUS
    <2>1. /\ rowAt[k] \in Nat
          /\ Len(grid[rowAt[k]]) \in Nat /\ Len(grid[rowAt[k]][unit(k)]) \in Nat
      BY <1>1, <1>2, <1>10
    <2>2. rowAt[k] \in 1..L /\ unit(k) \in Nat /\ item(k) \in Nat
      BY <1>10, <2>1
    <2> QED  BY <1>10, <2>2 DEF Slots, L
  <1>14. \A k, l \in 1..N : k < l => Earlier(pos[k], pos[l])
    BY <1>11 DEF Earlier
  <1>15. ASSUME NEW p \in Slots(grid) PROVE \E k \in 1..N : pos[k] = p
    <2>1. /\ p = <<p[1], p[2], p[3]>>
          /\ p[1] \in 1..L /\ p[2] \in 1..Len(grid[p[1]]) /\ p[3] \in 1..Len(grid[p[1]][p[2]])
      BY DEF Slots, L
    <2>2. PICK k \in 1..N : rowAt[k] = p[1] /\ unit(k) = p[2] /\ item(k) = p[3]
      BY <1>12, <2>1
    <2> QED  BY <2>1, <2>2
  <1>16. \A k \in 1..N : out[k] = grid[pos[k][1]][pos[k][2]][pos[k][3]]
    BY <1>10
  <1> HIDE DEF pos
  <1>17. N = Len(Walked(grid))
    BY <1>5
  <1> HIDE DEF N
  <1>18. WalkedFrom(grid, pos)
    BY <1>5, <1>13, <1>14, <1>15, <1>16, <1>17 DEF WalkedFrom
  <1> QED  BY <1>5, <1>6, <1>18

\* The k-th item is the one before which k - 1 items are.
LEMMA WalkCounted ==
  ASSUME NEW S, NEW grid \in Seq(Seq(Seq(S)))
  PROVE  /\ Walked(grid) \in Seq(S)
         /\ Len(Walked(grid)) = Cardinality(Slots(grid))
         /\ \A p \in Slots(grid) :
              LET k == 1 + Cardinality({q \in Slots(grid) : Earlier(q, p)})
              IN k \in 1..Len(Walked(grid)) /\ Walked(grid)[k] = grid[p[1]][p[2]][p[3]]
  <1> DEFINE out == Walked(grid)
             ps == Slots(grid)
             R == {r \in ps \X ps : Earlier(r[1], r[2])}
  <1>1. PICK pos : WalkedFrom(grid, pos)
    BY WalkLists
  <1>2. out \in Seq(S) /\ Len(out) \in Nat
    BY WalkLists
  <1>8. /\ pos \in [1..Len(out) -> ps]
        /\ \A k \in 1..Len(out) : out[k] = grid[pos[k][1]][pos[k][2]][pos[k][3]]
        /\ \A k, l \in 1..Len(out) : k < l => Earlier(pos[k], pos[l])
        /\ \A p \in ps : \E k \in 1..Len(out) : pos[k] = p
    BY <1>1 DEF WalkedFrom
  <1>3. \A p, q \in ps : ~Earlier(p, p) /\ ~(Earlier(p, q) /\ Earlier(q, p))
    <2>1. \A p \in ps : p[1] \in Nat /\ p[2] \in Nat /\ p[3] \in Nat
      BY DEF Slots
    <2> HIDE DEF ps
    <2> QED  BY <2>1 DEF Earlier
  <1>4. \A p, q \in ps : <<p, q>> \in R <=> Earlier(p, q)
    OBVIOUS
  <1> HIDE DEF out, ps, R
  <1>5. \A k, l \in 1..Len(out) : <<pos[k], pos[l]>> \in R <=> k < l
    <2> SUFFICES ASSUME NEW k \in 1..Len(out), NEW l \in 1..Len(out)
                 PROVE  Earlier(pos[k], pos[l]) <=> k < l
      BY <1>4, <1>8
    <2>1. CASE k < l
      BY <1>8, <2>1
    <2>2. CASE k = l
      BY <1>2, <1>3, <1>8, <2>2
    <2>3. CASE l < k
      <3>1. Earlier(pos[l], pos[k])
        BY <1>8, <2>3
      <3> QED  BY <1>2, <1>3, <1>8, <2>3, <3>1
    <2> QED  BY <1>2, <2>1, <2>2, <2>3
  <1>6. /\ Cardinality(ps) = Len(out)
        /\ \A k \in 1..Len(out) : Cardinality({q \in ps : <<q, pos[k]>> \in R}) = k - 1
    <2>1. Orders(pos, Len(out), ps, R)
      BY <1>5, <1>8 DEF Orders
    <2> QED  BY <1>2, <2>1, RankCount
  <1>7. ASSUME NEW p \in ps
        PROVE  LET k == 1 + Cardinality({q \in ps : Earlier(q, p)})
               IN k \in 1..Len(out) /\ out[k] = grid[p[1]][p[2]][p[3]]
    <2>1. PICK k \in 1..Len(out) : pos[k] = p
      BY <1>8
    <2>2. {q \in ps : Earlier(q, p)} = {q \in ps : <<q, pos[k]>> \in R}
      BY <1>4, <1>8, <2>1
    <2> DEFINE n == Cardinality({q \in ps : Earlier(q, p)})
    <2>3. n = k - 1
      BY <1>6, <2>2
    <2> HIDE DEF n
    <2>4. 1 + n = k
      BY <1>2, <2>3
    <2> QED  BY <1>8, <2>1, <2>4 DEF n
  <1> QED  BY <1>2, <1>6, <1>7 DEF out, ps

-----------------------------------------------------------------------------
\* What the items of the units of a payload come to, and where the items are.
Found(payload, items) ==
  FlattenSeq([e \in DOMAIN payload |->
    FlattenSeq([u \in DOMAIN payload[e] |-> items[payload[e][u]]])])

Places(payload, items) ==
  UNION {UNION {{<<e, u, i>> : i \in DOMAIN items[payload[e][u]]}
    : u \in DOMAIN payload[e]} : e \in DOMAIN payload}

\* The place of p in the order of ps.
Rank(p, ps) == 1 + Cardinality({q \in ps : Earlier(q, p)})

\* found has the items of the units of a payload, each where its rank says.
FindsAll(found, payload, items) ==
  /\ Len(found) = Cardinality(Places(payload, items))
  /\ \A p \in Places(payload, items) :
       LET k == Rank(p, Places(payload, items))
       IN k \in 1..Len(found) /\ found[k] = items[payload[p[1]][p[2]]][p[3]]

\* A walk finds each item of each unit there.
LEMMA FindsEach ==
  ASSUME NEW S, NEW U, NEW payload \in Seq(Seq(U)), NEW items \in [U -> Seq(S)]
  PROVE  /\ Found(payload, items) \in Seq(S)
         /\ FindsAll(Found(payload, items), payload, items)
         /\ \A p \in Places(payload, items) :
              /\ payload[p[1]][p[2]] \in U
              /\ p[3] \in DOMAIN items[payload[p[1]][p[2]]]
  <1> DEFINE grid == [e \in 1..Len(payload) |->
                       [u \in 1..Len(payload[e]) |-> items[payload[e][u]]]]
  <1>1. /\ Len(payload) \in Nat /\ DOMAIN payload = 1..Len(payload)
        /\ \A e \in 1..Len(payload) : payload[e] \in Seq(U)
    OBVIOUS
  <1>2. ASSUME NEW e \in 1..Len(payload)
        PROVE  /\ Len(payload[e]) \in Nat /\ DOMAIN payload[e] = 1..Len(payload[e])
               /\ \A u \in 1..Len(payload[e]) :
                    /\ payload[e][u] \in U /\ items[payload[e][u]] \in Seq(S)
                    /\ DOMAIN items[payload[e][u]] = 1..Len(items[payload[e][u]])
                    /\ Len(items[payload[e][u]]) \in Nat
    <2>1. payload[e] \in Seq(U)
      BY <1>1
    <2>2. \A u \in 1..Len(payload[e]) : payload[e][u] \in U
      BY <2>1
    <2> QED  BY <2>1, <2>2
  <1>3. ASSUME NEW e \in 1..Len(payload)
        PROVE  /\ grid[e] = [u \in 1..Len(payload[e]) |-> items[payload[e][u]]]
               /\ grid[e] \in Seq(Seq(S)) /\ Len(grid[e]) = Len(payload[e])
    BY <1>2
  <1>4. grid \in Seq(Seq(Seq(S))) /\ Len(grid) = Len(payload)
    BY <1>1, <1>3
  <1>5. ASSUME NEW e \in 1..Len(payload), NEW u \in 1..Len(payload[e])
        PROVE  grid[e][u] = items[payload[e][u]]
    BY <1>3
  <1>6. Found(payload, items) = Walked(grid)
    <2>1. \A e \in DOMAIN payload :
            grid[e] = [u \in DOMAIN payload[e] |-> items[payload[e][u]]]
      BY <1>1, <1>2, <1>3
    <2> HIDE DEF grid
    <2>2. [e \in DOMAIN payload |->
             FlattenSeq([u \in DOMAIN payload[e] |-> items[payload[e][u]]])]
          = [e \in 1..Len(grid) |-> FlattenSeq(grid[e])]
      BY <1>1, <1>4, <2>1
    <2> QED  BY <2>2 DEF Found, Walked
  <1> HIDE DEF grid
  <1>7. ASSUME NEW p
        PROVE  p \in Places(payload, items) <=> p \in Slots(grid)
    <2>1. p \in Places(payload, items) <=>
            \E e \in 1..Len(payload) : \E u \in 1..Len(payload[e]) :
              \E i \in 1..Len(items[payload[e][u]]) : p = <<e, u, i>>
      <3>1. p \in Places(payload, items) <=>
              \E e \in DOMAIN payload : \E u \in DOMAIN payload[e] :
                \E i \in DOMAIN items[payload[e][u]] : p = <<e, u, i>>
        <4>1. ASSUME p \in Places(payload, items)
              PROVE  \E e \in DOMAIN payload : \E u \in DOMAIN payload[e] :
                       \E i \in DOMAIN items[payload[e][u]] : p = <<e, u, i>>
          <5>1. PICK e \in DOMAIN payload :
                  p \in UNION {{<<e, u, i>> : i \in DOMAIN items[payload[e][u]]}
                    : u \in DOMAIN payload[e]}
            BY <4>1 DEF Places
          <5>2. PICK u \in DOMAIN payload[e] :
                  p \in {<<e, u, i>> : i \in DOMAIN items[payload[e][u]]}
            BY <5>1
          <5> QED  BY <5>2
        <4>2. ASSUME NEW e \in DOMAIN payload, NEW u \in DOMAIN payload[e],
                     NEW i \in DOMAIN items[payload[e][u]], p = <<e, u, i>>
              PROVE  p \in Places(payload, items)
          <5>1. p \in {<<e, u, j>> : j \in DOMAIN items[payload[e][u]]}
            BY <4>2
          <5>2. p \in UNION {{<<e, v, j>> : j \in DOMAIN items[payload[e][v]]}
                  : v \in DOMAIN payload[e]}
            BY <5>1
          <5> QED  BY <5>2 DEF Places
        <4> QED  BY <4>1, <4>2
      <3>2. \A e \in 1..Len(payload) : /\ DOMAIN payload[e] = 1..Len(payload[e])
              /\ \A u \in 1..Len(payload[e]) :
                   DOMAIN items[payload[e][u]] = 1..Len(items[payload[e][u]])
        BY <1>2
      <3> QED  BY <1>1, <3>1, <3>2, Zenon
    <2>2. p \in Slots(grid) <=>
            \E e \in 1..Len(payload) : \E u \in 1..Len(payload[e]) :
              \E i \in 1..Len(items[payload[e][u]]) : p = <<e, u, i>>
      <3>1. ASSUME p \in Slots(grid)
            PROVE  \E e \in 1..Len(payload) : \E u \in 1..Len(payload[e]) :
                     \E i \in 1..Len(items[payload[e][u]]) : p = <<e, u, i>>
        <4>1. /\ p = <<p[1], p[2], p[3]>> /\ p[1] \in 1..Len(grid)
              /\ p[2] \in 1..Len(grid[p[1]]) /\ p[3] \in 1..Len(grid[p[1]][p[2]])
          BY <3>1 DEF Slots
        <4>2. p[1] \in 1..Len(payload) /\ p[2] \in 1..Len(payload[p[1]])
          BY <1>3, <1>4, <4>1
        <4>3. p[3] \in 1..Len(items[payload[p[1]][p[2]]])
          BY <1>5, <4>1, <4>2
        <4> QED  BY <4>1, <4>2, <4>3
      <3>2. ASSUME NEW e \in 1..Len(payload), NEW u \in 1..Len(payload[e]),
                   NEW i \in 1..Len(items[payload[e][u]]), p = <<e, u, i>>
            PROVE  p \in Slots(grid)
        <4>1. e \in Nat /\ u \in Nat /\ i \in Nat
          BY <1>1, <1>2
        <4>2. e \in 1..Len(grid) /\ u \in 1..Len(grid[e]) /\ i \in 1..Len(grid[e][u])
          BY <1>3, <1>4, <1>5
        <4> QED  BY <3>2, <4>1, <4>2 DEF Slots
      <3> QED  BY <3>1, <3>2
    <2> QED  BY <2>1, <2>2
  <1>8. Places(payload, items) = Slots(grid)
    BY <1>7
  <1>9. ASSUME NEW p \in Slots(grid)
        PROVE  /\ p[1] \in 1..Len(payload) /\ p[2] \in 1..Len(payload[p[1]])
               /\ grid[p[1]][p[2]] = items[payload[p[1]][p[2]]]
               /\ p[3] \in 1..Len(grid[p[1]][p[2]])
    <2>1. p[1] \in 1..Len(grid) /\ p[2] \in 1..Len(grid[p[1]]) /\ p[3] \in 1..Len(grid[p[1]][p[2]])
      BY DEF Slots
    <2>2. p[1] \in 1..Len(payload) /\ p[2] \in 1..Len(payload[p[1]])
      BY <1>3, <1>4, <2>1
    <2> QED  BY <1>5, <2>1, <2>2
  <1>10. Walked(grid) \in Seq(S) /\ Len(Walked(grid)) = Cardinality(Slots(grid))
    BY <1>4, WalkCounted
  <1>11. ASSUME NEW p \in Slots(grid)
         PROVE  /\ Rank(p, Slots(grid)) \in 1..Len(Walked(grid))
                /\ Walked(grid)[Rank(p, Slots(grid))] = grid[p[1]][p[2]][p[3]]
    BY <1>4, WalkCounted DEF Rank
  <1>12. FindsAll(Walked(grid), payload, items)
    BY <1>8, <1>9, <1>10, <1>11 DEF FindsAll
  <1>13. ASSUME NEW p \in Slots(grid)
         PROVE  /\ payload[p[1]][p[2]] \in U
                /\ p[3] \in DOMAIN items[payload[p[1]][p[2]]]
    <2>1. p[1] \in 1..Len(payload) /\ p[2] \in 1..Len(payload[p[1]])
      BY <1>9
    <2>2. /\ payload[p[1]][p[2]] \in U
          /\ DOMAIN items[payload[p[1]][p[2]]] = 1..Len(items[payload[p[1]][p[2]]])
      BY <1>2, <2>1
    <2> QED  BY <1>9, <2>2
  <1> QED  BY <1>6, <1>8, <1>10, <1>12, <1>13

-----------------------------------------------------------------------------
\* What the walks collect of a unit of a channel's payloads.
MessageItems(ch) ==
  IF ch = "whatsapp" THEN [unit \in Change |-> unit.messages]
  ELSE [unit \in Event |-> NormalizeEvent(unit)]

ReceiptItems(ch) ==
  IF ch = "whatsapp" THEN [unit \in Change |-> unit.statuses]
  ELSE [unit \in Event |->
          IF unit.kind # "delivery" THEN <<>>
          ELSE [i \in DOMAIN unit.mids |-> Update(unit.mids[i], "delivered")]]

UnitsOf(ch) == IF ch = "whatsapp" THEN Change ELSE Event

\* What a payload consists of.
LEMMA UnitTyped ==
  ASSUME NEW U, NEW payload \in Seq(Seq(U)), NEW e \in DOMAIN payload, NEW u \in DOMAIN payload[e]
  PROVE  payload[e][u] \in U
  <1>1. payload[e] \in Seq(U)
    OBVIOUS
  <1> QED  BY <1>1

\* The reference looks for messages and receipts where the walks find them.
LEMMA UnitPositions ==
  ASSUME NEW ch \in MetaChannels, NEW payload \in Seq(Seq(UnitsOf(ch)))
  PROVE  /\ Positions(payload, LAMBDA unit : MessagesIn(ch, unit))
              = Places(payload, MessageItems(ch))
         /\ Positions(payload, LAMBDA unit : ReceiptsIn(ch, unit))
              = Places(payload, ReceiptItems(ch))
  <1>1. ASSUME NEW unit \in UnitsOf(ch)
        PROVE  /\ DOMAIN MessageItems(ch)[unit] = MessagesIn(ch, unit)
               /\ DOMAIN ReceiptItems(ch)[unit] = ReceiptsIn(ch, unit)
    <2>1. CASE ch = "whatsapp"
      BY <2>1 DEF UnitsOf, MessageItems, ReceiptItems, MessagesIn, ReceiptsIn
    <2>2. CASE ch # "whatsapp"
      <3>1. /\ MessageItems(ch)[unit] = NormalizeEvent(unit)
            /\ ReceiptItems(ch)[unit] = 
                 IF unit.kind # "delivery" THEN <<>>
                 ELSE [i \in DOMAIN unit.mids |-> Update(unit.mids[i], "delivered")]
        BY <2>2 DEF UnitsOf, MessageItems, ReceiptItems
      <3>2. DOMAIN NormalizeEvent(unit) = MessagesIn(ch, unit)
        BY <2>2 DEF NormalizeEvent, MessagesIn
      <3>3. DOMAIN ReceiptItems(ch)[unit] = ReceiptsIn(ch, unit)
        BY <2>2, <3>1 DEF ReceiptsIn
      <3> QED  BY <3>1, <3>2, <3>3
    <2> QED  BY <2>1, <2>2
  <1>2. \A e \in DOMAIN payload : \A u \in DOMAIN payload[e] : payload[e][u] \in UnitsOf(ch)
    BY UnitTyped
  <1> DEFINE refMsg(e, u) == {<<e, u, i>> : i \in MessagesIn(ch, payload[e][u])}
             ourMsg(e, u) == {<<e, u, i>> : i \in DOMAIN MessageItems(ch)[payload[e][u]]}
             refRcp(e, u) == {<<e, u, i>> : i \in ReceiptsIn(ch, payload[e][u])}
             ourRcp(e, u) == {<<e, u, i>> : i \in DOMAIN ReceiptItems(ch)[payload[e][u]]}
  <1>3. \A e \in DOMAIN payload : \A u \in DOMAIN payload[e] :
          refMsg(e, u) = ourMsg(e, u) /\ refRcp(e, u) = ourRcp(e, u)
    <2> SUFFICES ASSUME NEW e \in DOMAIN payload, NEW u \in DOMAIN payload[e]
                 PROVE  refMsg(e, u) = ourMsg(e, u) /\ refRcp(e, u) = ourRcp(e, u)
      OBVIOUS
    <2>1. /\ MessagesIn(ch, payload[e][u]) = DOMAIN MessageItems(ch)[payload[e][u]]
          /\ ReceiptsIn(ch, payload[e][u]) = DOMAIN ReceiptItems(ch)[payload[e][u]]
      BY <1>1, <1>2
    <2> QED  BY <2>1
  <1> HIDE DEF refMsg, ourMsg, refRcp, ourRcp
  <1> DEFINE refMsgs(e) == UNION {refMsg(e, u) : u \in DOMAIN payload[e]}
             ourMsgs(e) == UNION {ourMsg(e, u) : u \in DOMAIN payload[e]}
             refRcps(e) == UNION {refRcp(e, u) : u \in DOMAIN payload[e]}
             ourRcps(e) == UNION {ourRcp(e, u) : u \in DOMAIN payload[e]}
  <1>4. \A e \in DOMAIN payload : refMsgs(e) = ourMsgs(e) /\ refRcps(e) = ourRcps(e)
    BY <1>3
  <1> HIDE DEF refMsgs, ourMsgs, refRcps, ourRcps
  <1>5. /\ UNION {refMsgs(e) : e \in DOMAIN payload} = UNION {ourMsgs(e) : e \in DOMAIN payload}
        /\ UNION {refRcps(e) : e \in DOMAIN payload} = UNION {ourRcps(e) : e \in DOMAIN payload}
    BY <1>4
  <1> QED  BY <1>5 DEF Positions, Places, refMsg, ourMsg, refRcp, ourRcp, refMsgs, ourMsgs, refRcps, ourRcps

\* What the walks collect of a WhatsApp change.
LEMMA UnitItems ==
  /\ MessageItems("whatsapp") \in [Change -> Seq(Message)]
  /\ ReceiptItems("whatsapp") \in [Change -> Seq(Status)]
  BY DEF MessageItems, ReceiptItems, Change

\* A message and a receipt of Messenger or Instagram.
NormalizedMessage ==
  [external_id : Contacts, external_message_id : Ids, body : {"text", "placeholder"},
   attachments : {<<>>}]
StatusUpdate == [external_message_id : Ids, status : {"delivered"}]

\* And of an event of Messenger or Instagram.
LEMMA EventItems ==
  ASSUME NEW ch \in MetaChannels, ch # "whatsapp"
  PROVE  /\ MessageItems(ch) \in [Event -> Seq(NormalizedMessage)]
         /\ ReceiptItems(ch) \in [Event -> Seq(StatusUpdate)]
  <1>1. ASSUME NEW unit \in Event
        PROVE  NormalizeEvent(unit) \in Seq(NormalizedMessage)
    <2>1. CASE unit.kind # "message" \/ Nameless(unit)
      BY <2>1 DEF NormalizeEvent
    <2>2. CASE ~(unit.kind # "message" \/ Nameless(unit))
      <3>1. unit.from \in Contacts /\ unit.id \in Ids
        BY <2>2 DEF Event, Nameless
      <3> DEFINE m == NormalizeEvent(unit)[1]
      <3>2. NormalizeEvent(unit) = <<m>> /\ m \in NormalizedMessage
        BY <2>2, <3>1 DEF NormalizeEvent, NormalizedMessage, Normalized
      <3> HIDE DEF m
      <3> QED  BY <3>2
    <2> QED  BY <2>1, <2>2
  <1>2. ASSUME NEW unit \in Event
        PROVE  [i \in DOMAIN unit.mids |-> Update(unit.mids[i], "delivered")] \in Seq(StatusUpdate)
    <2>1. unit.mids \in Seq(Ids) /\ Len(unit.mids) \in Nat
      BY DEF Event
    <2>2. \A i \in DOMAIN unit.mids : unit.mids[i] \in Ids
      BY <2>1
    <2>3. \A id \in Ids : Update(id, "delivered") \in StatusUpdate
      BY DEF Update, StatusUpdate
    <2> HIDE DEF StatusUpdate
    <2> QED  BY <2>1, <2>2, <2>3
  <1> QED  BY <1>1, <1>2 DEF MessageItems, ReceiptItems

\* The walks of the WhatsApp adapter.
LEMMA WhatsAppWalks ==
  ASSUME NEW payload \in Seq(Seq(Change))
  PROVE  /\ Walk(payload, LAMBDA change : change.messages)
              = Found(payload, MessageItems("whatsapp"))
         /\ Walk(payload, LAMBDA change : change.statuses)
              = Found(payload, ReceiptItems("whatsapp"))
  <1>1. ASSUME NEW e \in DOMAIN payload
        PROVE  /\ [u \in DOMAIN payload[e] |-> payload[e][u].messages]
                    = [u \in DOMAIN payload[e] |-> MessageItems("whatsapp")[payload[e][u]]]
               /\ [u \in DOMAIN payload[e] |-> payload[e][u].statuses]
                    = [u \in DOMAIN payload[e] |-> ReceiptItems("whatsapp")[payload[e][u]]]
    <2>1. \A u \in DOMAIN payload[e] :
            /\ payload[e][u].messages = MessageItems("whatsapp")[payload[e][u]]
            /\ payload[e][u].statuses = ReceiptItems("whatsapp")[payload[e][u]]
      BY UnitTyped DEF MessageItems, ReceiptItems
    <2> QED  BY <2>1
  <1>2. /\ [e \in DOMAIN payload |-> FlattenSeq([u \in DOMAIN payload[e] |-> payload[e][u].messages])]
            = [e \in DOMAIN payload |-> FlattenSeq([u \in DOMAIN payload[e] |-> MessageItems("whatsapp")[payload[e][u]]])]
        /\ [e \in DOMAIN payload |-> FlattenSeq([u \in DOMAIN payload[e] |-> payload[e][u].statuses])]
            = [e \in DOMAIN payload |-> FlattenSeq([u \in DOMAIN payload[e] |-> ReceiptItems("whatsapp")[payload[e][u]]])]
    BY <1>1
  <1> QED  BY <1>2 DEF Walk, Found

\* And of Messenger's and Instagram's.
LEMMA MessengerWalks ==
  ASSUME NEW ch \in MetaChannels, ch # "whatsapp", NEW payload \in Seq(Seq(Event))
  PROVE  /\ MessengerNormalize(payload) = Returns(Found(payload, MessageItems(ch)))
         /\ MessengerInterpret(payload) = Returns(Found(payload, ReceiptItems(ch)))
  <1> DEFINE receipts(unit) ==
               IF unit.kind # "delivery" THEN <<>>
               ELSE [i \in DOMAIN unit.mids |-> Update(unit.mids[i], "delivered")]
  <1>1. ASSUME NEW e \in DOMAIN payload
        PROVE  /\ [u \in DOMAIN payload[e] |-> NormalizeEvent(payload[e][u])]
                    = [u \in DOMAIN payload[e] |-> MessageItems(ch)[payload[e][u]]]
               /\ [u \in DOMAIN payload[e] |-> receipts(payload[e][u])]
                    = [u \in DOMAIN payload[e] |-> ReceiptItems(ch)[payload[e][u]]]
    <2>1. \A u \in DOMAIN payload[e] :
            /\ NormalizeEvent(payload[e][u]) = MessageItems(ch)[payload[e][u]]
            /\ receipts(payload[e][u]) = ReceiptItems(ch)[payload[e][u]]
      BY UnitTyped DEF MessageItems, ReceiptItems
    <2> HIDE DEF receipts
    <2> QED  BY <2>1
  <1> HIDE DEF receipts
  <1>2. /\ [e \in DOMAIN payload |-> FlattenSeq([u \in DOMAIN payload[e] |-> NormalizeEvent(payload[e][u])])]
            = [e \in DOMAIN payload |-> FlattenSeq([u \in DOMAIN payload[e] |-> MessageItems(ch)[payload[e][u]]])]
        /\ [e \in DOMAIN payload |-> FlattenSeq([u \in DOMAIN payload[e] |-> receipts(payload[e][u])])]
            = [e \in DOMAIN payload |-> FlattenSeq([u \in DOMAIN payload[e] |-> ReceiptItems(ch)[payload[e][u]]])]
    BY <1>1
  <1> QED  BY <1>2 DEF MessengerNormalize, MessengerInterpret, Walk, Found, receipts

\* What MetaOnceInOrder says of out, where ps are the positions.
MessagesOut(out, ch, payload, ps) ==
  /\ Len(out) = Cardinality(ps)
  /\ \A p \in ps : LET m == out[Rank(p, ps)]
                       x == MessageAt(ch, payload[p[1]][p[2]], p[3])
                   IN m.external_id = x.from /\ m.external_message_id = x.id

ReceiptsOut(out, ch, payload, ps) ==
  /\ Len(out) = Cardinality(ps)
  /\ \A p \in ps : LET m == out[Rank(p, ps)]
                       x == ReceiptAt(ch, payload[p[1]][p[2]], p[3])
                   IN m.external_message_id = x.id /\ m.status = x.status

\* A WhatsApp payload that does not raise: its messages.
LEMMA WhatsAppMessages ==
  ASSUME NEW payload \in Seq(Seq(Change)), ~WhatsAppNormalize(payload).raised
  PROVE  LET out == WhatsAppNormalize(payload).items
         IN /\ MessagesOut(out, "whatsapp", payload, Places(payload, MessageItems("whatsapp")))
            /\ \A i \in DOMAIN out : out[i].external_message_id \in Ids
  <1> DEFINE items == MessageItems("whatsapp")
             found == Found(payload, items)
             ps == Places(payload, items)
             out == [i \in DOMAIN found |-> NormalizeMessage(found[i])]
  <1>1. Walk(payload, LAMBDA change : change.messages) = found
    BY WhatsAppWalks
  <1>2. /\ WhatsAppNormalize(payload).items = out
        /\ \A i \in DOMAIN out : Missing \notin {out[i].external_id, out[i].external_message_id}
    BY <1>1 DEF WhatsAppNormalize, Raises, Returns
  <1>3. /\ found \in Seq(Message) /\ FindsAll(found, payload, items)
        /\ \A p \in ps : payload[p[1]][p[2]] \in Change
    BY UnitItems, FindsEach
  <1>4. \A unit \in Change : items[unit] = unit.messages
    BY DEF MessageItems
  <1> HIDE DEF items, found, ps
  <1>5. DOMAIN found = 1..Len(found) /\ Len(out) = Len(found) /\ DOMAIN out = DOMAIN found
    BY <1>3
  <1>6. \A i \in DOMAIN out : out[i] = NormalizeMessage(found[i]) /\ found[i] \in Message
    BY <1>3, <1>5
  <1> HIDE DEF out
  <1>7. \A i \in DOMAIN out : out[i].external_message_id \in Ids
    <2> SUFFICES ASSUME NEW i \in DOMAIN out PROVE out[i].external_message_id \in Ids
      OBVIOUS
    <2>1. out[i].external_message_id = found[i].id /\ found[i] \in Message
      BY <1>6 DEF NormalizeMessage, Normalized
    <2>2. found[i].id \in Ids \cup {Missing}
      BY <2>1 DEF Message
    <2> QED  BY <1>2, <2>1, <2>2
  <1>8. MessagesOut(out, "whatsapp", payload, ps)
    <2>1. Len(out) = Cardinality(ps)
      BY <1>3, <1>5 DEF FindsAll, ps
    <2>2. ASSUME NEW p \in ps
          PROVE  LET m == out[Rank(p, ps)]
                     x == MessageAt("whatsapp", payload[p[1]][p[2]], p[3])
                 IN m.external_id = x.from /\ m.external_message_id = x.id
      <3> DEFINE k == Rank(p, ps)
      <3>1. k \in 1..Len(found) /\ found[k] = items[payload[p[1]][p[2]]][p[3]]
        BY <1>3 DEF FindsAll, ps
      <3>2. found[k] = MessageAt("whatsapp", payload[p[1]][p[2]], p[3])
        BY <1>3, <1>4, <3>1 DEF MessageAt
      <3>3. out[k] = NormalizeMessage(found[k])
        BY <1>5, <1>6, <3>1
      <3> QED  BY <3>2, <3>3 DEF NormalizeMessage, Normalized
    <2> QED  BY <2>1, <2>2 DEF MessagesOut
  <1> QED  BY <1>2, <1>7, <1>8 DEF ps, items

\* And its receipts.
LEMMA WhatsAppReceipts ==
  ASSUME NEW payload \in Seq(Seq(Change)), ~WhatsAppInterpret(payload).raised
  PROVE  ReceiptsOut(WhatsAppInterpret(payload).items, "whatsapp", payload,
                     Places(payload, ReceiptItems("whatsapp")))
  <1> DEFINE items == ReceiptItems("whatsapp")
             found == Found(payload, items)
             ps == Places(payload, items)
             out == [i \in DOMAIN found |-> Update(found[i].id, found[i].status)]
  <1>1. Walk(payload, LAMBDA change : change.statuses) = found
    BY WhatsAppWalks
  <1>2. WhatsAppInterpret(payload).items = out
    BY <1>1 DEF WhatsAppInterpret, Raises, Returns
  <1>3. /\ found \in Seq(Status) /\ FindsAll(found, payload, items)
        /\ \A p \in ps : payload[p[1]][p[2]] \in Change
    BY UnitItems, FindsEach
  <1>4. \A unit \in Change : items[unit] = unit.statuses
    BY DEF ReceiptItems
  <1> HIDE DEF items, found, ps
  <1>5. DOMAIN found = 1..Len(found) /\ Len(out) = Len(found) /\ DOMAIN out = DOMAIN found
    BY <1>3
  <1>6. \A i \in DOMAIN out : out[i] = Update(found[i].id, found[i].status)
    BY <1>5
  <1> HIDE DEF out
  <1>8. ReceiptsOut(out, "whatsapp", payload, ps)
    <2>1. Len(out) = Cardinality(ps)
      BY <1>3, <1>5 DEF FindsAll, ps
    <2>2. ASSUME NEW p \in ps
          PROVE  LET m == out[Rank(p, ps)]
                     x == ReceiptAt("whatsapp", payload[p[1]][p[2]], p[3])
                 IN m.external_message_id = x.id /\ m.status = x.status
      <3> DEFINE k == Rank(p, ps)
      <3>1. k \in 1..Len(found) /\ found[k] = items[payload[p[1]][p[2]]][p[3]]
        BY <1>3 DEF FindsAll, ps
      <3>2. found[k] = ReceiptAt("whatsapp", payload[p[1]][p[2]], p[3])
        BY <1>3, <1>4, <3>1 DEF ReceiptAt
      <3>3. out[k] = Update(found[k].id, found[k].status)
        BY <1>5, <1>6, <3>1
      <3> QED  BY <3>2, <3>3 DEF Update
    <2> QED  BY <2>1, <2>2 DEF ReceiptsOut
  <1> QED  BY <1>2, <1>8 DEF ps, items

\* A payload of Messenger or Instagram, which raise nothing: its messages.
LEMMA MessengerMessages ==
  ASSUME NEW ch \in MetaChannels, ch # "whatsapp", NEW payload \in Seq(Seq(Event))
  PROVE  LET out == MessengerNormalize(payload).items
         IN /\ MessagesOut(out, ch, payload, Places(payload, MessageItems(ch)))
            /\ \A i \in DOMAIN out : out[i].external_message_id \in Ids
  <1> DEFINE items == MessageItems(ch)
             out == Found(payload, items)
             ps == Places(payload, items)
  <1>1. MessengerNormalize(payload).items = out
    BY MessengerWalks DEF Returns
  <1>2. /\ out \in Seq(NormalizedMessage) /\ FindsAll(out, payload, items)
        /\ \A p \in ps : /\ payload[p[1]][p[2]] \in Event
                         /\ p[3] \in DOMAIN items[payload[p[1]][p[2]]]
    BY EventItems, FindsEach
  <1>3. \A unit \in Event : items[unit] = NormalizeEvent(unit)
    BY DEF MessageItems
  <1> HIDE DEF items, out, ps
  <1>4. \A i \in DOMAIN out : out[i].external_message_id \in Ids
    <2>1. \A i \in DOMAIN out : out[i] \in NormalizedMessage
      BY <1>2
    <2> QED  BY <2>1 DEF NormalizedMessage
  <1>5. ASSUME NEW p \in ps
        PROVE  LET m == out[Rank(p, ps)]
                   x == MessageAt(ch, payload[p[1]][p[2]], p[3])
               IN m.external_id = x.from /\ m.external_message_id = x.id
    <2> DEFINE unit == payload[p[1]][p[2]]
    <2>1. out[Rank(p, ps)] = NormalizeEvent(unit)[p[3]] /\ p[3] \in DOMAIN NormalizeEvent(unit)
      BY <1>2, <1>3 DEF FindsAll, ps
    <2> HIDE DEF unit
    <2>2. MessageAt(ch, unit, p[3]) = unit
      BY DEF MessageAt
    <2>3. NormalizeEvent(unit)[p[3]].external_id = unit.from
            /\ NormalizeEvent(unit)[p[3]].external_message_id = unit.id
      BY <2>1 DEF NormalizeEvent, Normalized
    <2> QED  BY <2>1, <2>2, <2>3 DEF unit
  <1>6. MessagesOut(out, ch, payload, ps)
    BY <1>2, <1>5 DEF MessagesOut, FindsAll, ps
  <1> QED  BY <1>1, <1>4, <1>6 DEF ps, items

\* And its receipts.
LEMMA MessengerReceipts ==
  ASSUME NEW ch \in MetaChannels, ch # "whatsapp", NEW payload \in Seq(Seq(Event))
  PROVE  ReceiptsOut(MessengerInterpret(payload).items, ch, payload,
                     Places(payload, ReceiptItems(ch)))
  <1> DEFINE items == ReceiptItems(ch)
             out == Found(payload, items)
             ps == Places(payload, items)
             updates(unit) ==
               IF unit.kind # "delivery" THEN <<>>
               ELSE [i \in DOMAIN unit.mids |-> Update(unit.mids[i], "delivered")]
  <1>1. MessengerInterpret(payload).items = out
    BY MessengerWalks DEF Returns
  <1>2. /\ FindsAll(out, payload, items)
        /\ \A p \in ps : /\ payload[p[1]][p[2]] \in Event
                         /\ p[3] \in DOMAIN items[payload[p[1]][p[2]]]
    BY EventItems, FindsEach
  <1>3. \A unit \in Event : items[unit] = updates(unit)
    BY DEF ReceiptItems
  <1> HIDE DEF items, out, ps
  <1>5. ASSUME NEW p \in ps
        PROVE  LET m == out[Rank(p, ps)]
                   x == ReceiptAt(ch, payload[p[1]][p[2]], p[3])
               IN m.external_message_id = x.id /\ m.status = x.status
    <2> DEFINE unit == payload[p[1]][p[2]]
    <2>1. out[Rank(p, ps)] = updates(unit)[p[3]] /\ p[3] \in DOMAIN updates(unit)
      BY <1>2, <1>3 DEF FindsAll, ps
    <2> HIDE DEF unit
    <2>2. out[Rank(p, ps)] = Update(unit.mids[p[3]], "delivered")
      BY <2>1
    <2> QED  BY <2>2 DEF ReceiptAt, Update, unit
  <1>6. ReceiptsOut(out, ch, payload, ps)
    BY <1>2, <1>5 DEF ReceiptsOut, FindsAll, ps
  <1> QED  BY <1>1, <1>6 DEF ps, items

-----------------------------------------------------------------------------
\* The parts of a MIME message: what the walk over them has, after so many.
Acc == [body : Part \cup {Missing}, files : Seq(Part)]
NothingYet == [body |-> Missing, files |-> <<>>]

\* The recursive function of WalkParts is there.
LEMMA WalkPartsSteps ==
  ASSUME NEW parts \in Seq(Part)
  PROVE  \E f : /\ f \in [0..Len(parts) -> Acc] /\ f[0] = NothingYet
                /\ \A n \in 1..Len(parts) : f[n] = AddPart(f[n - 1], parts[n])
                /\ WalkParts(parts) = f[Len(parts)]
  <1> DEFINE L == Len(parts)
             Def(f) == f = [n \in 0..L |-> IF n = 0 THEN NothingYet ELSE AddPart(f[n - 1], parts[n])]
             step == [p \in Acc \X (1..L) |-> AddPart(p[1], parts[p[2]])]
  <1>1. L \in Nat /\ \A n \in 1..L : parts[n] \in Part
    OBVIOUS
  <1>2. NothingYet \in Acc
    BY DEF Acc, NothingYet
  <1>3. \A acc \in Acc, part \in Part : AddPart(acc, part) \in Acc
    <2> SUFFICES ASSUME NEW acc \in Acc, NEW part \in Part PROVE AddPart(acc, part) \in Acc
      OBVIOUS
    <2>1. Append(acc.files, part) \in Seq(Part)
      BY DEF Acc
    <2> QED  BY <2>1 DEF Acc, AddPart
  <1>4. /\ step \in [Acc \X (1..L) -> Acc]
        /\ \A acc \in Acc, n \in 1..L : step[<<acc, n>>] = AddPart(acc, parts[n])
    BY <1>1, <1>3
  <1> HIDE DEF step, L
  <1>5. PICK g : Iterates(g, Acc, NothingYet, L, step)
    BY <1>1, <1>2, <1>4, Recursion
  <1>6. ASSUME NEW n \in 0..L
        PROVE  g[n] = IF n = 0 THEN NothingYet ELSE AddPart(g[n - 1], parts[n])
    <2>1. CASE n = 0
      BY <1>5, <2>1 DEF Iterates
    <2>2. CASE n # 0
      <3>1. n \in 1..L /\ n - 1 \in 0..L
        BY <1>1, <2>2
      <3>2. g[n - 1] \in Acc /\ g[n] = step[<<g[n - 1], n>>]
        BY <1>5, <3>1 DEF Iterates
      <3> QED  BY <1>4, <2>2, <3>1, <3>2
    <2> QED  BY <2>1, <2>2
  <1>7. Def(g)
    BY <1>5, <1>6 DEF Iterates
  <1> DEFINE f == CHOOSE h : Def(h)
  <1>8. Def(f)
    BY <1>7
  <1>9. WalkParts(parts) = f[L]
    BY DEF WalkParts, L, NothingYet
  <1> HIDE DEF f
  <1>10. /\ f[0] = NothingYet
         /\ \A n \in 1..L : n \in 0..L /\ n # 0 /\ f[n] = AddPart(f[n - 1], parts[n])
    BY <1>1, <1>8
  <1> DEFINE T == {n \in Nat : n <= L => f[n] \in Acc}
  <1>11. 0 \in T
    BY <1>2, <1>10
  <1>12. ASSUME NEW n \in Nat, n \in T PROVE n + 1 \in T
    <2> SUFFICES ASSUME n + 1 <= L PROVE f[n + 1] \in Acc
      OBVIOUS
    <2>1. f[n] \in Acc /\ n + 1 \in 1..L
      BY <1>1, <1>12
    <2>2. f[n + 1] = AddPart(f[n], parts[n + 1])
      BY <1>10, <2>1
    <2> QED  BY <1>1, <1>3, <2>1, <2>2
  <1> HIDE DEF T
  <1>13. Nat \subseteq T
    BY <1>11, <1>12, Induction
  <1>14. f \in [0..L -> Acc]
    BY <1>1, <1>8, <1>13 DEF T
  <1> QED  BY <1>9, <1>10, <1>14 DEF L

\* acc is what a walk has after n parts: file[k] is where the k-th file is from.
Walks(acc, parts, n, file) ==
  /\ file \in [1..Len(acc.files) -> {i \in 1..n : IsFile(parts[i])}]
  /\ \A k \in 1..Len(acc.files) : acc.files[k] = parts[file[k]]
  /\ \A k, l \in 1..Len(acc.files) : k < l => file[k] < file[l]
  /\ \A i \in 1..n : IsFile(parts[i]) => \E k \in 1..Len(acc.files) : file[k] = i
  /\ \/ acc.body = Missing /\ \A i \in 1..n : ~IsText(parts[i])
     \/ \E i \in 1..n : /\ IsText(parts[i]) /\ acc.body = parts[i]
                        /\ \A j \in 1..n : IsText(parts[j]) => i <= j

HasWalked(acc, parts, n) == \E file : Walks(acc, parts, n, file)

\* Another part.
LEMMA WalkPartsNext ==
  ASSUME NEW parts \in Seq(Part), NEW n \in Nat, n + 1 <= Len(parts), NEW acc \in Acc,
         HasWalked(acc, parts, n)
  PROVE  HasWalked(AddPart(acc, parts[n + 1]), parts, n + 1)
  <1> DEFINE part == parts[n + 1]
             new == AddPart(acc, part)
             N == Len(acc.files)
  <1>1. PICK file : Walks(acc, parts, n, file)
    BY DEF HasWalked
  <1>2. part \in Part /\ part # Missing /\ \A i \in 1..n : parts[i] \in Part /\ parts[i] # Missing
    <2>1. \A i \in 1..Len(parts) : parts[i] \in Part
      OBVIOUS
    <2>2. n + 1 \in 1..Len(parts) /\ \A i \in 1..n : i \in 1..Len(parts)
      OBVIOUS
    <2> QED  BY <2>1, <2>2, AdaptersAssumption
  <1>3. N \in Nat /\ acc.files \in Seq(Part) /\ acc.body \in Part \cup {Missing}
    BY DEF Acc
  <1>4. CASE IsFile(part)
    <2> DEFINE longer == [k \in 1..(N + 1) |-> IF k = N + 1 THEN n + 1 ELSE file[k]]
    <2>13. ~IsText(part)
      BY <1>4 DEF IsText, IsFile
    <2>1. /\ new.body = acc.body /\ new.files = Append(acc.files, part)
      BY <1>4, <2>13 DEF AddPart, Acc
    <2>2. /\ Len(new.files) = N + 1 /\ new.files[N + 1] = part
          /\ \A k \in 1..N : new.files[k] = acc.files[k]
      BY <1>2, <1>3, <2>1
    <2>3. ASSUME NEW k \in 1..(N + 1)
          PROVE  \/ k = N + 1 /\ longer[k] = n + 1
                 \/ k \in 1..N /\ longer[k] = file[k] /\ file[k] \in {i \in 1..n : IsFile(parts[i])}
      <3>1. \A i \in 1..N : file[i] \in {j \in 1..n : IsFile(parts[j])}
        BY <1>1 DEF Walks
      <3>2. k = N + 1 \/ (k # N + 1 /\ k \in 1..N)
        BY <1>3
      <3> QED  BY <3>1, <3>2
    <2>4. /\ longer[N + 1] = n + 1 /\ N + 1 \in 1..(N + 1)
          /\ \A k \in 1..N : k \in 1..(N + 1) /\ longer[k] = file[k]
      BY <1>3
    <2>11. longer = [k \in 1..(N + 1) |-> longer[k]]
      OBVIOUS
    <2> HIDE DEF longer, new, N, part
    <2>5. longer \in [1..(N + 1) -> {i \in 1..(n + 1) : IsFile(parts[i])}]
      <3>1. ASSUME NEW k \in 1..(N + 1) PROVE longer[k] \in {i \in 1..(n + 1) : IsFile(parts[i])}
        BY <1>4, <2>3 DEF part
      <3> QED  BY <2>11, <3>1
    <2>6. ASSUME NEW k \in 1..(N + 1) PROVE new.files[k] = parts[longer[k]]
      BY <1>1, <2>2, <2>3 DEF Walks, N, part
    <2>7. ASSUME NEW k \in 1..(N + 1), NEW l \in 1..(N + 1), k < l
          PROVE  longer[k] < longer[l]
      <3>1. k \in 1..N /\ longer[k] = file[k] /\ file[k] \in 1..n
        BY <1>1, <1>3, <2>3, <2>7
      <3>2. CASE l = N + 1
        BY <2>4, <3>1, <3>2
      <3>3. CASE l # N + 1
        <4>1. l \in 1..N /\ longer[l] = file[l]
          BY <2>3, <3>3
        <4> QED  BY <1>1, <2>7, <3>1, <4>1 DEF Walks, N
      <3> QED  BY <3>2, <3>3
    <2>8. ASSUME NEW i \in 1..(n + 1), IsFile(parts[i])
          PROVE  \E k \in 1..(N + 1) : longer[k] = i
      <3>1. CASE i = n + 1
        BY <2>4, <3>1
      <3>2. CASE i # n + 1
        <4>1. PICK k \in 1..N : file[k] = i
          BY <1>1, <2>8, <3>2 DEF Walks, N
        <4> QED  BY <2>4, <4>1
      <3> QED  BY <3>1, <3>2
    <2>9. /\ ~IsText(parts[n + 1])
          /\ \A i \in 1..(n + 1) : i = n + 1 \/ i \in 1..n
      BY <1>4 DEF IsText, IsFile, part
    <2>10. \/ new.body = Missing /\ \A i \in 1..(n + 1) : ~IsText(parts[i])
           \/ \E i \in 1..(n + 1) : /\ IsText(parts[i]) /\ new.body = parts[i]
                                    /\ \A j \in 1..(n + 1) : IsText(parts[j]) => i <= j
      <3>1. CASE acc.body = Missing /\ \A i \in 1..n : ~IsText(parts[i])
        BY <2>1, <2>9, <3>1
      <3>2. CASE \E i \in 1..n : /\ IsText(parts[i]) /\ acc.body = parts[i]
                                 /\ \A j \in 1..n : IsText(parts[j]) => i <= j
        <4>1. PICK i \in 1..n : /\ IsText(parts[i]) /\ acc.body = parts[i]
                                /\ \A j \in 1..n : IsText(parts[j]) => i <= j
          BY <3>2
        <4>2. i \in 1..(n + 1)
          OBVIOUS
        <4> QED  BY <2>1, <2>9, <4>1, <4>2
      <3> QED  BY <1>1, <3>1, <3>2 DEF Walks
    <2>12. Walks(new, parts, n + 1, longer)
      BY <2>2, <2>5, <2>6, <2>7, <2>8, <2>10 DEF Walks
    <2> QED  BY <2>12 DEF HasWalked, new, part
  <1>5. CASE ~IsFile(part)
    <2>1. /\ new.files = acc.files
          /\ new.body = IF IsText(part) /\ acc.body = Missing THEN part ELSE acc.body
      BY <1>5 DEF AddPart, Acc, IsText
    <2>2. /\ \A i \in 1..(n + 1) : i = n + 1 \/ i \in 1..n
          /\ \A i \in 1..n : i \in 1..(n + 1)
          /\ n + 1 \in 1..(n + 1)
      OBVIOUS
    <2> HIDE DEF new, N, part
    <2>3. {i \in 1..(n + 1) : IsFile(parts[i])} = {i \in 1..n : IsFile(parts[i])}
      BY <1>5, <2>2 DEF part
    <2>4. \A i \in 1..(n + 1) :
            IsFile(parts[i]) => \E k \in 1..Len(acc.files) : file[k] = i
      BY <1>1, <1>5, <2>2 DEF Walks, part
    <2>5. \/ new.body = Missing /\ \A i \in 1..(n + 1) : ~IsText(parts[i])
          \/ \E i \in 1..(n + 1) : /\ IsText(parts[i]) /\ new.body = parts[i]
                                   /\ \A j \in 1..(n + 1) : IsText(parts[j]) => i <= j
      <3>1. CASE acc.body = Missing /\ \A i \in 1..n : ~IsText(parts[i])
        <4>1. CASE IsText(part)
          <5>1. new.body = parts[n + 1] /\ IsText(parts[n + 1])
            BY <2>1, <3>1, <4>1 DEF part
          <5>2. \A j \in 1..(n + 1) : IsText(parts[j]) => n + 1 <= j
            BY <2>2, <3>1
          <5> QED  BY <2>2, <5>1, <5>2
        <4>2. CASE ~IsText(part)
          BY <2>1, <2>2, <3>1, <4>2 DEF part
        <4> QED  BY <4>1, <4>2
      <3>2. CASE \E i \in 1..n : /\ IsText(parts[i]) /\ acc.body = parts[i]
                                 /\ \A j \in 1..n : IsText(parts[j]) => i <= j
        <4>1. PICK i \in 1..n : /\ IsText(parts[i]) /\ acc.body = parts[i]
                                /\ \A j \in 1..n : IsText(parts[j]) => i <= j
          BY <3>2
        <4>2. new.body = acc.body
          BY <1>2, <2>1, <4>1
        <4>3. i \in 1..(n + 1) /\ \A j \in 1..(n + 1) : IsText(parts[j]) => i <= j
          BY <4>1
        <4> QED  BY <4>1, <4>2, <4>3
      <3> QED  BY <1>1, <3>1, <3>2 DEF Walks
    <2>6. Walks(new, parts, n + 1, file)
      BY <1>1, <2>1, <2>3, <2>4, <2>5 DEF Walks
    <2> QED  BY <2>6 DEF HasWalked, new, part
  <1> QED  BY <1>4, <1>5

\* All of them.
LEMMA WalkPartsAll ==
  ASSUME NEW parts \in Seq(Part)
  PROVE  WalkParts(parts) \in Acc /\ HasWalked(WalkParts(parts), parts, Len(parts))
  <1> DEFINE L == Len(parts)
  <1>1. PICK f : /\ f \in [0..L -> Acc] /\ f[0] = NothingYet
                 /\ \A n \in 1..L : f[n] = AddPart(f[n - 1], parts[n])
                 /\ WalkParts(parts) = f[L]
    BY WalkPartsSteps
  <1>2. L \in Nat
    OBVIOUS
  <1> DEFINE T == {n \in Nat : n <= L => HasWalked(f[n], parts, n)}
  <1>3. 0 \in T
    <2> DEFINE file == [k \in 1..0 |-> 0]
    <2>1. NothingYet.files = <<>> /\ NothingYet.body = Missing /\ Len(<<>>) = 0 /\ 1..0 = {}
      BY DEF NothingYet
    <2>2. Walks(NothingYet, parts, 0, file)
      BY <2>1 DEF Walks
    <2> QED  BY <1>1, <2>2 DEF HasWalked
  <1>4. ASSUME NEW n \in Nat, n \in T PROVE n + 1 \in T
    <2> SUFFICES ASSUME n + 1 <= L PROVE HasWalked(f[n + 1], parts, n + 1)
      OBVIOUS
    <2>1. HasWalked(f[n], parts, n)
      BY <1>2, <1>4
    <2>2. n \in 0..L /\ n + 1 \in 1..L /\ (n + 1) - 1 = n
      BY <1>2
    <2>3. f[n] \in Acc /\ f[n + 1] = AddPart(f[n], parts[n + 1])
      BY <1>1, <2>2
    <2> QED  BY <2>1, <2>3, WalkPartsNext
  <1> HIDE DEF T
  <1>5. Nat \subseteq T
    BY <1>3, <1>4, Induction
  <1> QED  BY <1>1, <1>2, <1>5 DEF T

\* The attachments come out in order.
LEMMA PartsInOrder ==
  ASSUME NEW parts \in Seq(Part)
  PROVE  LET files == WalkParts(parts).files
             at == {i \in DOMAIN parts : IsFile(parts[i])}
         IN /\ Len(files) = Cardinality(at)
            /\ \A p \in at : files[1 + Cardinality({q \in at : q < p})] = parts[p]
  <1> DEFINE x == WalkParts(parts)
             N == Len(x.files)
             at == {i \in DOMAIN parts : IsFile(parts[i])}
             R == {r \in Nat \X Nat : r[1] < r[2]}
  <1>1. DOMAIN parts = 1..Len(parts) /\ x.files \in Seq(Part) /\ N \in Nat /\ at \subseteq Nat
    BY WalkPartsAll DEF Acc
  <1>2. PICK file : Walks(x, parts, Len(parts), file)
    BY WalkPartsAll DEF HasWalked
  <1> HIDE DEF x
  <1>3. /\ file \in [1..N -> at]
        /\ \A k \in 1..N : x.files[k] = parts[file[k]]
        /\ \A k, l \in 1..N : k < l => file[k] < file[l]
        /\ \A i \in at : \E k \in 1..N : file[k] = i
    BY <1>1, <1>2 DEF Walks
  <1>4. \A i, j \in Nat : <<i, j>> \in R <=> i < j
    OBVIOUS
  <1> HIDE DEF at, R, N
  <1>5. \A k, l \in 1..N : <<file[k], file[l]>> \in R <=> k < l
    <2> SUFFICES ASSUME NEW k \in 1..N, NEW l \in 1..N
                 PROVE  file[k] < file[l] <=> k < l
      BY <1>1, <1>3, <1>4
    <2>1. file[k] \in Nat /\ file[l] \in Nat
      BY <1>1, <1>3
    <2>2. /\ k < l => file[k] < file[l]
          /\ l < k => file[l] < file[k]
      BY <1>3
    <2>3. k = l => file[k] = file[l]
      OBVIOUS
    <2> QED  BY <1>1, <2>1, <2>2, <2>3
  <1>6. /\ Cardinality(at) = N
        /\ \A k \in 1..N : Cardinality({q \in at : <<q, file[k]>> \in R}) = k - 1
    <2>1. Orders(file, N, at, R)
      BY <1>3, <1>5 DEF Orders
    <2> QED  BY <1>1, <2>1, RankCount
  <1>7. ASSUME NEW p \in at PROVE x.files[1 + Cardinality({q \in at : q < p})] = parts[p]
    <2>1. PICK k \in 1..N : file[k] = p
      BY <1>3
    <2>2. {q \in at : q < p} = {q \in at : <<q, file[k]>> \in R}
      BY <1>1, <1>4, <2>1
    <2> DEFINE n == Cardinality({q \in at : q < p})
    <2>3. n = k - 1
      BY <1>6, <2>2
    <2> HIDE DEF n
    <2>4. 1 + n = k
      BY <1>1, <2>3
    <2> QED  BY <1>3, <2>1, <2>4 DEF n
  <1> QED  BY <1>6, <1>7 DEF x, at, N

\* And the body is the first text.
LEMMA BodyIsFirstText ==
  ASSUME NEW parts \in Seq(Part)
  PROVE  WalkParts(parts).body = FirstText(parts)
  <1> DEFINE x == WalkParts(parts)
             L == Len(parts)
             texts == {i \in DOMAIN parts : IsText(parts[i])}
  <1>1. DOMAIN parts = 1..L /\ L \in Nat
    OBVIOUS
  <1>2. \/ x.body = Missing /\ \A i \in 1..L : ~IsText(parts[i])
        \/ \E i \in 1..L : /\ IsText(parts[i]) /\ x.body = parts[i]
                           /\ \A j \in 1..L : IsText(parts[j]) => i <= j
    BY WalkPartsAll DEF HasWalked, Walks
  <1>3. texts = {i \in 1..L : IsText(parts[i])}
    BY <1>1 DEF IsText
  <1>4. FirstText(parts) = IF texts = {} THEN Missing ELSE parts[Min(texts)]
    BY DEF FirstText
  <1> HIDE DEF x, texts, L
  <1>5. CASE x.body = Missing /\ \A i \in 1..L : ~IsText(parts[i])
    BY <1>3, <1>4, <1>5 DEF x
  <1>6. CASE \E i \in 1..L : /\ IsText(parts[i]) /\ x.body = parts[i]
                             /\ \A j \in 1..L : IsText(parts[j]) => i <= j
    <2>1. PICK i \in 1..L : /\ IsText(parts[i]) /\ x.body = parts[i]
                            /\ \A j \in 1..L : IsText(parts[j]) => i <= j
      BY <1>6
    <2>2. i \in texts /\ i \in Nat /\ texts \subseteq Nat /\ \A j \in texts : i <= j
      BY <1>1, <1>3, <2>1
    <2>3. Min(texts) = i
      <3>1. ASSUME NEW j \in texts, \A k \in texts : j <= k PROVE j = i
        <4>1. j <= i /\ i <= j /\ j \in Nat
          BY <2>2, <3>1
        <4> QED  BY <2>2, <4>1
      <3> QED  BY <2>2, <3>1 DEF Min
    <2> QED  BY <1>4, <2>1, <2>2, <2>3 DEF x
  <1> QED  BY <1>2, <1>5, <1>6

-----------------------------------------------------------------------------
\* What an adapter has been given, and what came of it, is what its handler makes of it.
HandledInv ==
  job = NoJob
    \/ (\E ch \in Registry : \E payload \in Payloads(ch) :
          /\ job = [kind |-> "inbound", channel |-> ch, payload |-> payload]
          /\ outcome = Parsed(ch, payload))
    \/ (\E ch \in Registry, given \in SUBSET {"token", "account"}, text \in BOOLEAN,
           answer \in Answers :
          /\ job = [kind |-> "outbound", channel |-> ch, secret |-> given, text |-> text,
                    answer |-> answer]
          /\ outcome = send_outbound(ch, BundleOf(ch, given), text, answer))

\* The inductive invariant holds.
LEMMA HandledSpec == AdaptersSpec => []HandledInv
  <1>1. AdaptersInit => HandledInv
    BY DEF AdaptersInit, HandledInv
  <1>2. HandledInv /\ [AdaptersNext]_adapters => HandledInv'
    <2> SUFFICES ASSUME HandledInv, [AdaptersNext]_adapters PROVE HandledInv'
      OBVIOUS
    <2>1. CASE UNCHANGED adapters
      BY <2>1 DEF adapters, HandledInv
    <2>2. CASE Finish
      BY <2>2 DEF Finish, HandledInv
    <2>3. ASSUME NEW ch \in ChannelType, NEW payload \in Payloads(ch), ProcessInbound(ch, payload)
          PROVE  HandledInv'
      BY <2>3 DEF ProcessInbound, HandledInv
    <2>4. ASSUME NEW ch \in ChannelType, NEW given \in SUBSET {"token", "account"},
                 NEW text \in BOOLEAN, NEW answer \in Answers,
                 ProcessOutbound(ch, given, text, answer)
          PROVE  HandledInv'
      BY <2>4 DEF ProcessOutbound, HandledInv
    <2> QED  BY <2>1, <2>2, <2>3, <2>4 DEF AdaptersNext
  <1> QED  BY <1>1, <1>2, PTL DEF AdaptersSpec

\* What an inbound payload of a Meta channel comes to.
LEMMA MetaParsed ==
  ASSUME NEW ch \in MetaChannels, NEW payload \in Payloads(ch),
         outcome = Parsed(ch, payload), ~outcome.raised
  PROVE  /\ MetaOnceInOrder(ch, payload)
         /\ \A i \in DOMAIN outcome.messages :
              outcome.messages[i].external_message_id \in Ids
  <1> DEFINE messages == normalize_inbound(ch, payload)
             updates == interpret_delivery_webhook(ch, payload)
             ps == Places(payload, MessageItems(ch))
             qs == Places(payload, ReceiptItems(ch))
  <1>1. payload \in Seq(Seq(UnitsOf(ch)))
    BY AdaptersAssumption DEF MetaChannels, UnitsOf
  <1>2. /\ Positions(payload, LAMBDA unit : MessagesIn(ch, unit)) = ps
        /\ Positions(payload, LAMBDA unit : ReceiptsIn(ch, unit)) = qs
    BY <1>1, UnitPositions
  <1>3. /\ ~messages.raised /\ ~updates.raised
        /\ outcome.messages = messages.items /\ outcome.updates = updates.items
    BY DEF Parsed
  <1>4. /\ MessagesOut(outcome.messages, ch, payload, ps)
        /\ ReceiptsOut(outcome.updates, ch, payload, qs)
        /\ \A i \in DOMAIN outcome.messages :
             outcome.messages[i].external_message_id \in Ids
    <2>1. CASE ch = "whatsapp"
      <3>1. /\ messages = WhatsAppNormalize(payload) /\ updates = WhatsAppInterpret(payload)
            /\ payload \in Seq(Seq(Change))
        BY <1>1, <2>1 DEF normalize_inbound, interpret_delivery_webhook, UnitsOf
      <3> HIDE DEF messages, updates
      <3> QED  BY <1>3, <2>1, <3>1, WhatsAppMessages, WhatsAppReceipts
    <2>2. CASE ch # "whatsapp"
      <3>1. /\ messages = MessengerNormalize(payload) /\ updates = MessengerInterpret(payload)
            /\ payload \in Seq(Seq(Event))
        BY <1>1, <2>2 DEF normalize_inbound, interpret_delivery_webhook, UnitsOf, MetaChannels
      <3> HIDE DEF messages, updates
      <3> QED  BY <1>3, <2>2, <3>1, MessengerMessages, MessengerReceipts
    <2> QED  BY <2>1, <2>2
  <1> HIDE DEF ps, qs
  <1>5. OnceInOrder(outcome.messages, ps, Earlier,
          LAMBDA m, p : LET x == MessageAt(ch, payload[p[1]][p[2]], p[3])
                        IN m.external_id = x.from /\ m.external_message_id = x.id)
    BY <1>4 DEF MessagesOut, OnceInOrder, Rank
  <1>6. OnceInOrder(outcome.updates, qs, Earlier,
          LAMBDA m, p : LET x == ReceiptAt(ch, payload[p[1]][p[2]], p[3])
                        IN m.external_message_id = x.id /\ m.status = x.status)
    BY <1>4 DEF ReceiptsOut, OnceInOrder, Rank
  <1>7. MetaOnceInOrder(ch, payload)
    BY <1>2, <1>5, <1>6 DEF MetaOnceInOrder
  <1> QED  BY <1>4, <1>7

\* And an email.
LEMMA EmailParsed ==
  ASSUME NEW payload \in Payloads("email"), outcome = Parsed("email", payload), ~outcome.raised
  PROVE  /\ payload.mime.multipart => EmailOnceInOrder(payload.mime.parts)
         /\ \A i \in DOMAIN outcome.messages :
              outcome.messages[i].external_message_id \in Ids
  <1> DEFINE message ==
        LET x == ExtractBody(payload.mime)
        IN Normalized(payload.from, payload.external_message_id, x.body, x.files)
  <1>1. payload \in Email
    BY AdaptersAssumption
  <1>2. /\ payload.external_message_id # Missing /\ payload.mime # Missing
        /\ outcome.messages = <<message>>
    BY DEF Parsed, normalize_inbound, EmailNormalize, Raises, Returns
  <1>3. payload.external_message_id \in Ids
    BY <1>1, <1>2 DEF Email
  <1>4. ASSUME payload.mime.multipart PROVE EmailOnceInOrder(payload.mime.parts)
    <2> DEFINE parts == payload.mime.parts
    <2>1. parts \in Seq(Part)
      BY <1>1, <1>2 DEF Email
    <2>2. /\ outcome.messages[1].attachments = WalkParts(parts).files
          /\ outcome.messages[1].body = WalkParts(parts).body
      BY <1>2, <1>4 DEF ExtractBody, Normalized
    <2> HIDE DEF parts, message
    <2>3. OnceInOrder(outcome.messages[1].attachments,
            {i \in DOMAIN parts : IsFile(parts[i])}, <, LAMBDA file, i : file = parts[i])
      BY <2>1, <2>2, PartsInOrder DEF OnceInOrder
    <2>4. outcome.messages[1].body = FirstText(parts)
      BY <2>1, <2>2, BodyIsFirstText
    <2> QED  BY <2>3, <2>4 DEF EmailOnceInOrder, parts
  <1> QED  BY <1>2, <1>3, <1>4 DEF Normalized

(***************************************************************************)
(* Of a Meta payload every message of a customer and every receipt comes   *)
(* out once and in order, of an email every attached file and first text,  *)
(* under an id that is there: normalize_inbound and                        *)
(* interpret_delivery_webhook, for payloads of any length.                 *)
(***************************************************************************)
THEOREM AdaptersMessagesOnceInOrder == AdaptersSpec => []MessagesOnceInOrder
  <1>1. HandledInv => MessagesOnceInOrder
    <2> SUFFICES ASSUME HandledInv, InboundJob, ~outcome.raised
                 PROVE  /\ job.channel \in MetaChannels => MetaOnceInOrder(job.channel, job.payload)
                        /\ job.channel = "email" /\ job.payload.mime.multipart =>
                             EmailOnceInOrder(job.payload.mime.parts)
                        /\ \A i \in DOMAIN outcome.messages :
                             outcome.messages[i].external_message_id # Missing
      BY DEF MessagesOnceInOrder
    <2>6. PICK ch \in Registry : \E payload \in Payloads(ch) :
            /\ job = [kind |-> "inbound", channel |-> ch, payload |-> payload]
            /\ outcome = Parsed(ch, payload)
      BY DEF HandledInv, InboundJob
    <2>1. PICK payload \in Payloads(ch) :
            /\ job = [kind |-> "inbound", channel |-> ch, payload |-> payload]
            /\ outcome = Parsed(ch, payload)
      BY <2>6
    <2>2. job.channel = ch /\ job.payload = payload
      BY <2>1
    <2>3. Missing \notin Ids
      BY AdaptersAssumption
    <2>4. CASE ch \in MetaChannels
      BY <2>1, <2>2, <2>3, <2>4, MetaParsed DEF MetaChannels
    <2>5. CASE ch = "email"
      BY <2>1, <2>2, <2>3, <2>5, EmailParsed DEF MetaChannels
    <2> QED  BY <2>4, <2>5 DEF Registry, MetaChannels
  <1> QED  BY <1>1, HandledSpec, PTL

-----------------------------------------------------------------------------
(***************************************************************************)
(* The connections and their secrets.                                      *)
(***************************************************************************)

\* What a connection needs is there.
Ready(c) ==
  IF ChannelOf[c] = "email" THEN c \in domains
  ELSE key[c] \in Keys /\ secret[key[c]] > 0

\* A row is there only once its call is done; a call about to insert it has seen to
\* what the row needs.
RowInv ==
  \A c \in Conns :
    /\ adm[c] \in {"credentials", "key", "lookup"} => ChannelOf[c] # "email"
    /\ adm[c] = "domain" => ChannelOf[c] = "email"
    /\ adm[c] = "insert" => Ready(c)
    /\ row[c] # "absent" => adm[c] = "done" /\ Ready(c)

\* A reader that was given a secret was given a version there is or was.
VersionInv ==
  /\ \A r \in Readers : rd[r].pc \in {"fetched", "got"} =>
       /\ rd[r].key \in Keys
       /\ rd[r].version > 0 /\ rd[r].version <= secret[rd[r].key]
  /\ \A k \in Keys : cache[k].version <= secret[k]

\* An answer under way is no staler than the time it has taken, a cached one no staler
\* than its age in the cache and the longest answer together.
AgeInv ==
  /\ \A k \in Keys, v \in 1..MaxVersion : v >= secret[k] => ago[k][v] = 0
  /\ \A r \in Readers :
       rd[r].pc = "fetched" /\ rd[r].version < secret[rd[r].key] =>
         ago[rd[r].key][rd[r].version] <= rd[r].lag
  /\ \A k \in Keys : Cached(k) /\ cache[k].version < secret[k] =>
       ago[k][cache[k].version] + cache[k].left <= Cap

\* No answer older than what put_secret wrote is under way to the cache.
FreshInv ==
  /\ \A k \in Keys : clean[k] <= secret[k]
  /\ \A r \in Readers : rd[r].pc = "fetched" => rd[r].version >= clean[rd[r].key]

\* The inductive invariant.
IInv ==
  /\ TypeOK
  /\ RowInv
  /\ VersionInv
  /\ AgeInv
  /\ FreshInv
  /\ SecretInUseIsRecent
  /\ FreshAfterPut

Reader ==
  [pc : {"idle", "admin", "webhook", "worker", "fetched", "got"},
   conn : Conns \cup {0}, key : Keys \cup {NoKey},
   version : 0..MaxVersion, lag : 0..MaxLag]

-----------------------------------------------------------------------------
\* The bounds are numbers.
LEMMA Bounds ==
  CacheTtl \in Nat /\ CacheTtl > 0 /\ MaxLag \in Nat /\ MaxVersion \in Nat /\ MaxVersion > 0
  BY ChannelsAssumption

\* A connection's own id and Shared are keys, the empty key is none.
LEMMA KeyNames == Conns \subseteq Keys /\ Shared \in Keys /\ NoKey \notin Keys
  BY ChannelsAssumption DEF Keys

USE Bounds, KeyNames DEF stored

\* A reader that does nothing is a reader.
LEMMA IdleReader == Idle \in Reader
  BY DEF Idle, Reader

\* So is one that moves on to a connection and a key.
LEMMA MovedReader ==
  ASSUME NEW q \in Reader, NEW p \in {"admin", "webhook", "worker"}, NEW c \in Conns,
         NEW k \in Keys \cup {NoKey}
  PROVE  [q EXCEPT !.pc = p, !.conn = c, !.key = k] \in Reader
  BY DEF Reader

\* So is one that has loaded its connection.
LEMMA AtReader ==
  ASSUME NEW p \in {"admin", "webhook", "worker"}, NEW c \in Conns,
         NEW k \in Keys \cup {NoKey}
  PROVE  At(p, c, k) \in Reader /\ At(p, c, k).pc = p
  <1>1. At(p, c, k) \in Reader
    BY IdleReader, MovedReader DEF At
  <1>2. At(p, c, k).pc = p
    BY DEF At, Idle
  <1> QED  BY <1>1, <1>2

\* So is one that is given a version.
LEMMA GivenReader ==
  ASSUME NEW q \in Reader, NEW p \in {"fetched", "got"}, NEW v \in 0..MaxVersion
  PROVE  [q EXCEPT !.pc = p, !.version = v] \in Reader
  BY DEF Reader

\* The types of what the invariants compare.
LEMMA Typed ==
  ASSUME TypeOK
  PROVE  /\ \A k \in Keys :
              /\ secret[k] \in Nat /\ secret[k] <= MaxVersion
              /\ cache[k].version \in Nat /\ cache[k].version <= MaxVersion
              /\ cache[k].left \in Nat /\ cache[k].left <= CacheTtl
              /\ clean[k] \in Nat
         /\ \A r \in Readers :
              /\ rd[r] \in Reader /\ rd[r].key \in Keys \cup {NoKey}
              /\ rd[r].version \in Nat /\ rd[r].version <= MaxVersion
              /\ rd[r].lag \in Nat /\ rd[r].lag <= MaxLag
         /\ \A k \in Keys, v \in 1..MaxVersion : ago[k][v] \in Nat /\ ago[k][v] <= Cap
         /\ Cap \in Nat
  <1>1. ASSUME NEW k \in Keys
        PROVE  /\ secret[k] \in Nat /\ secret[k] <= MaxVersion
               /\ cache[k].version \in Nat /\ cache[k].version <= MaxVersion
               /\ cache[k].left \in Nat /\ cache[k].left <= CacheTtl
               /\ clean[k] \in Nat
    <2>1. secret[k] \in 0..MaxVersion /\ clean[k] \in 0..MaxVersion
      BY DEF TypeOK
    <2>2. cache[k] \in [version : 0..MaxVersion, left : 0..CacheTtl]
      BY DEF TypeOK
    <2> QED  BY <2>1, <2>2
  <1>2. ASSUME NEW r \in Readers
        PROVE  /\ rd[r] \in Reader /\ rd[r].key \in Keys \cup {NoKey}
               /\ rd[r].version \in Nat /\ rd[r].version <= MaxVersion
               /\ rd[r].lag \in Nat /\ rd[r].lag <= MaxLag
    <2>1. rd[r] \in Reader
      BY DEF TypeOK, Reader
    <2> QED  BY <2>1 DEF Reader
  <1>3. \A k \in Keys, v \in 1..MaxVersion : ago[k][v] \in 0..Cap
    BY SMTT(30) DEF TypeOK
  <1>4. Cap \in Nat
    BY DEF Cap
  <1> QED  BY <1>1, <1>2, <1>3, <1>4

\* What a reader or the cache holds is a version that has a history.
LEMMA Held ==
  ASSUME TypeOK, VersionInv
  PROVE  /\ \A r \in Readers : rd[r].pc \in {"fetched", "got"} =>
              /\ rd[r].key \in Keys
              /\ rd[r].version \in 1..MaxVersion /\ rd[r].version <= secret[rd[r].key]
         /\ \A k \in Keys : Cached(k) =>
              cache[k].version \in 1..MaxVersion /\ cache[k].version <= secret[k]
  BY Typed DEF VersionInv, Cached

\* The initial state satisfies the invariant.
LEMMA InitIInv == Init => IInv
  <1> SUFFICES ASSUME Init PROVE IInv
    OBVIOUS
  <1>1. TypeOK
    BY IdleReader DEF Init, TypeOK, Reader, Cap
  <1>2. RowInv
    BY DEF Init, RowInv
  <1>3. \A r \in Readers : rd[r].pc = "idle"
    BY DEF Init, Idle
  <1>4. VersionInv
    BY <1>3 DEF Init, VersionInv
  <1>5. AgeInv /\ FreshInv /\ SecretInUseIsRecent /\ FreshAfterPut
    BY <1>3 DEF Init, AgeInv, FreshInv, SecretInUseIsRecent, FreshAfterPut, Cached
  <1> QED  BY <1>1, <1>2, <1>4, <1>5 DEF IInv

-----------------------------------------------------------------------------
(***************************************************************************)
(* Steps are grouped by what they leave alone: RowInv depends on the       *)
(* connections and the secrets, the other parts on the secrets, the cache  *)
(* and the readers.                                                        *)
(***************************************************************************)

\* A deleted secret was there too, so what was ready stays so.
LEMMA RowStep ==
  ASSUME IInv, UNCHANGED admin,
         \A k \in Keys : secret'[k] \in Nat /\ secret'[k] >= secret[k]
  PROVE  RowInv'
  <1>1. TypeOK
    BY DEF IInv
  <1>2. \A k \in Keys : secret[k] \in Nat
    BY <1>1 DEF TypeOK
  <1>3. \A c \in Conns : Ready(c) => Ready(c)'
    BY <1>2 DEF Ready, admin
  <1> QED  BY <1>2, <1>3 DEF IInv, RowInv, admin

\* A step that leaves secrets, cache and histories alone, and whose readers stay as they
\* are or have no secret afterwards.
LEMMA ReaderStep ==
  ASSUME IInv, UNCHANGED <<secret, cache, ago, clean>>,
         \A r \in Readers : rd'[r] = rd[r] \/ rd'[r].pc \notin {"fetched", "got"}
  PROVE  VersionInv' /\ AgeInv' /\ FreshInv' /\ SecretInUseIsRecent' /\ FreshAfterPut'
  <1>1. VersionInv'
    BY DEF IInv, VersionInv
  <1>2. AgeInv'
    BY DEF IInv, AgeInv, Cached
  <1>3. FreshInv'
    BY DEF IInv, FreshInv
  <1>4. SecretInUseIsRecent'
    BY DEF IInv, SecretInUseIsRecent
  <1>5. FreshAfterPut'
    BY DEF IInv, FreshAfterPut, Cached
  <1> QED  BY <1>1, <1>2, <1>3, <1>4, <1>5

\* The versions after a write.
LEMMA WrittenSecret ==
  ASSUME TypeOK, NEW k \in Keys, Write(k)
  PROVE  /\ secret' \in [Keys -> 0..MaxVersion]
         /\ secret'[k] = secret[k] + 1
         /\ \A l \in Keys : l # k => secret'[l] = secret[l]
         /\ \A l \in Keys : secret'[l] \in Nat /\ secret'[l] >= secret[l]
  <1>1. secret \in [Keys -> 0..MaxVersion]
    BY DEF TypeOK
  <1>2. secret[k] < MaxVersion /\ secret' = [secret EXCEPT ![k] = secret[k] + 1]
    BY DEF Write
  <1>3. secret[k] + 1 \in 0..MaxVersion
    BY <1>1, <1>2
  <1>4. secret' \in [Keys -> 0..MaxVersion]
    BY <1>1, <1>2, <1>3
  <1>5. secret'[k] = secret[k] + 1 /\ \A l \in Keys : l # k => secret'[l] = secret[l]
    BY <1>1, <1>2
  <1>6. \A l \in Keys : secret[l] \in 0..MaxVersion /\ secret'[l] \in 0..MaxVersion
    BY <1>1, <1>4
  <1>7. \A l \in Keys : secret'[l] \in Nat /\ secret'[l] >= secret[l]
    BY <1>5, <1>6
  <1> QED  BY <1>4, <1>5, <1>7

\* A secret gets a new version: what was current is replaced just now, and no read can
\* be older than the first version.
LEMMA WriteStep ==
  ASSUME IInv, NEW k \in Keys, Write(k), UNCHANGED <<rd, ago>>,
         \A l \in Keys : cache'[l] = cache[l] \/ cache'[l].version = 0,
         \A l \in Keys : l # k => clean'[l] = clean[l],
         clean'[k] \in {clean[k], 1}
  PROVE  VersionInv' /\ AgeInv' /\ FreshInv' /\ SecretInUseIsRecent' /\ FreshAfterPut'
  <1>0. TypeOK
    BY DEF IInv
  <1>1. /\ secret'[k] = secret[k] + 1
        /\ \A l \in Keys : secret'[l] \in Nat /\ secret'[l] >= secret[l]
        /\ \A l \in Keys : l # k => secret'[l] = secret[l]
    BY <1>0, WrittenSecret, Typed
  <1>2. \A l \in Keys, v \in 1..MaxVersion : v <= secret[l] =>
          v < secret[l] \/ ago[l][v] = 0
    BY <1>0, Typed DEF IInv, AgeInv
  <1>3. \A l \in Keys : Cached(l)' => Cached(l) /\ cache'[l] = cache[l]
    BY DEF Cached
  <1>4. VersionInv'
    <2>1. \A l \in Keys : cache'[l].version <= secret'[l]
      BY <1>0, <1>1, Typed DEF IInv, VersionInv
    <2>2. ASSUME NEW r \in Readers, rd[r].pc \in {"fetched", "got"}
          PROVE  /\ rd[r].key \in Keys
                 /\ rd[r].version > 0 /\ rd[r].version <= secret'[rd[r].key]
      BY <1>0, <1>1, <2>2, Typed DEF IInv, VersionInv
    <2> QED  BY <2>1, <2>2 DEF VersionInv
  <1>5. AgeInv'
    <2>1. \A l \in Keys, v \in 1..MaxVersion : v >= secret'[l] => ago'[l][v] = 0
      BY <1>0, <1>1, Typed DEF IInv, AgeInv
    <2>2. ASSUME NEW r \in Readers, rd[r].pc = "fetched"
          PROVE  ago[rd[r].key][rd[r].version] <= rd[r].lag
      BY <1>0, <1>2, <2>2, Typed, Held DEF IInv, AgeInv
    <2>3. ASSUME NEW l \in Keys, Cached(l)
          PROVE  ago[l][cache[l].version] + cache[l].left <= Cap
      BY <1>0, <1>2, <2>3, Typed, Held DEF IInv, AgeInv, Cap
    <2> QED  BY <1>3, <2>1, <2>2, <2>3 DEF AgeInv
  <1>6. FreshInv'
    <2>1. \A l \in Keys : clean'[l] <= secret'[l]
      BY <1>0, <1>1, Typed DEF IInv, FreshInv
    <2>2. ASSUME NEW r \in Readers, rd[r].pc = "fetched"
          PROVE  rd[r].version >= clean'[rd[r].key]
      BY <1>0, <2>2, Typed, Held DEF IInv, FreshInv
    <2> QED  BY <2>1, <2>2 DEF FreshInv
  <1>7. SecretInUseIsRecent'
    <2>1. ASSUME NEW r \in Readers, rd[r].pc = "got"
          PROVE  ago[rd[r].key][rd[r].version] < Cap
      BY <1>0, <1>2, <2>1, Typed, Held DEF IInv, SecretInUseIsRecent, Cap
    <2> QED  BY <2>1 DEF IInv, SecretInUseIsRecent
  <1>8. FreshAfterPut'
    BY <1>0, <1>3, Typed, Held DEF IInv, FreshAfterPut
  <1> QED  BY <1>4, <1>5, <1>6, <1>7, <1>8

-----------------------------------------------------------------------------
(***************************************************************************)
(* Time, rotation and restarts.                                            *)
(***************************************************************************)

\* Answers under way, cached entries and replaced versions all get older by one.
LEMMA TickIInv ==
  ASSUME IInv, Tick
  PROVE  IInv'
  <1>0. TypeOK
    BY DEF IInv
  <1>1. ASSUME NEW r \in Readers
        PROVE  /\ rd'[r] \in Reader
               /\ rd'[r].pc = rd[r].pc /\ rd'[r].key = rd[r].key
               /\ rd'[r].version = rd[r].version
               /\ rd[r].pc = "fetched" => rd'[r].lag = rd[r].lag + 1
    <2>1. rd[r] \in Reader
      BY <1>0, Typed
    <2>2. CASE rd[r].pc = "fetched"
      <3>1. rd'[r] = [rd[r] EXCEPT !.lag = rd[r].lag + 1] /\ rd[r].lag < MaxLag
        BY <2>2 DEF Tick
      <3> QED  BY <2>1, <3>1 DEF Reader
    <2>3. CASE rd[r].pc # "fetched"
      BY <2>1, <2>3 DEF Tick
    <2> QED  BY <2>2, <2>3
  <1>2. ASSUME NEW k \in Keys
        PROVE  /\ cache'[k] \in [version : 0..MaxVersion, left : 0..CacheTtl]
               /\ cache'[k].version = cache[k].version
               /\ cache[k].left > 0 => cache'[k].left = cache[k].left - 1
               /\ cache[k].left = 0 => cache'[k].left = 0
    <2>1. cache[k] \in [version : 0..MaxVersion, left : 0..CacheTtl]
      BY <1>0 DEF TypeOK
    <2>2. cache'[k] = [cache[k] EXCEPT !.left = IF cache[k].left > 0 THEN cache[k].left - 1 ELSE 0]
      BY DEF Tick
    <2> QED  BY <2>1, <2>2
  <1>3. ASSUME NEW k \in Keys, NEW v \in 1..MaxVersion
        PROVE  /\ ago'[k][v] \in 0..Cap
               /\ ago'[k][v] <= ago[k][v] + 1
               /\ v >= secret[k] => ago'[k][v] = ago[k][v]
    BY <1>0, Typed DEF Tick
  <1>4. TypeOK'
    <2>1. rd' \in [Readers -> Reader]
      BY <1>1 DEF Tick
    <2>2. cache' \in [Keys -> [version : 0..MaxVersion, left : 0..CacheTtl]]
      BY <1>2 DEF Tick
    <2>3. ago' \in [Keys -> [1..MaxVersion -> 0..Cap]]
      BY <1>3 DEF Tick
    <2> QED  BY <1>0, <2>1, <2>2, <2>3 DEF TypeOK, Reader, Tick, admin
  <1>5. RowInv'
    BY <1>0, RowStep, Typed DEF Tick
  <1>6. secret' = secret /\ clean' = clean
    BY DEF Tick
  <1>7. VersionInv'
    BY <1>1, <1>2, <1>6 DEF IInv, VersionInv
  <1>8. FreshInv'
    BY <1>1, <1>6 DEF IInv, FreshInv
  <1>9. \A k \in Keys : Cached(k)' => Cached(k)
    BY <1>0, <1>2, Typed DEF Cached
  <1>10. AgeInv'
    <2>1. \A k \in Keys, v \in 1..MaxVersion : v >= secret'[k] => ago'[k][v] = 0
      BY <1>3, <1>6 DEF IInv, AgeInv
    <2>2. ASSUME NEW r \in Readers, rd'[r].pc = "fetched",
                 rd'[r].version < secret'[rd'[r].key]
          PROVE  ago'[rd'[r].key][rd'[r].version] <= rd'[r].lag
      <3>1. /\ rd[r].key \in Keys /\ rd[r].version \in 1..MaxVersion
            /\ ago[rd[r].key][rd[r].version] <= rd[r].lag
            /\ ago[rd[r].key][rd[r].version] \in Nat /\ rd[r].lag \in Nat
        BY <1>0, <1>1, <1>6, <2>2, Typed, Held DEF IInv, AgeInv
      <3> QED  BY <1>1, <1>3, <2>2, <3>1
    <2>3. ASSUME NEW k \in Keys, Cached(k)', cache'[k].version < secret'[k]
          PROVE  ago'[k][cache'[k].version] + cache'[k].left <= Cap
      <3>1. /\ Cached(k) /\ cache[k].version \in 1..MaxVersion
            /\ ago[k][cache[k].version] + cache[k].left <= Cap
            /\ ago[k][cache[k].version] \in Nat /\ cache[k].left \in Nat
        BY <1>0, <1>2, <1>6, <1>9, <2>3, Typed, Held DEF IInv, AgeInv
      <3>2. cache'[k].version = cache[k].version /\ cache'[k].left = cache[k].left - 1
        BY <1>2, <3>1 DEF Cached
      <3>3. ago'[k][cache[k].version] \in Nat
            /\ ago'[k][cache[k].version] <= ago[k][cache[k].version] + 1
        BY <1>3, <3>1
      <3> QED  BY <3>1, <3>2, <3>3, Typed, <1>0
    <2> QED  BY <2>1, <2>2, <2>3 DEF AgeInv
  <1>11. SecretInUseIsRecent'
    BY <1>1 DEF Tick, SecretInUseIsRecent
  <1>12. FreshAfterPut'
    BY <1>2, <1>6, <1>9 DEF IInv, FreshAfterPut
  <1> QED  BY <1>4, <1>5, <1>7, <1>8, <1>10, <1>11, <1>12 DEF IInv

LEMMA RotateWriteIInv ==
  ASSUME IInv, NEW k \in Keys, RotateOutOfBand(k) \/ DeleteOutOfBand(k) \/ RotateWrite(k)
  PROVE  IInv'
  <1>0. TypeOK /\ Write(k) /\ UNCHANGED <<admin, cache, rd, ago, clean>>
    BY DEF IInv, RotateOutOfBand, DeleteOutOfBand, RotateWrite
  <1>1. secret' \in [Keys -> 0..MaxVersion]
    BY <1>0, WrittenSecret
  <1>2. rotating' \subseteq Keys /\ gone' \subseteq Keys
    BY <1>0 DEF TypeOK, RotateOutOfBand, DeleteOutOfBand, RotateWrite
  <1>3. TypeOK'
    BY <1>0, <1>1, <1>2 DEF TypeOK, admin
  <1>4. RowInv'
    BY <1>0, WrittenSecret, RowStep
  <1>5. VersionInv' /\ AgeInv' /\ FreshInv' /\ SecretInUseIsRecent' /\ FreshAfterPut'
    BY <1>0, WriteStep
  <1> QED  BY <1>3, <1>4, <1>5 DEF IInv

\* put_secret returns: nothing of the key is cached, and if no answer was under way,
\* whatever comes next is at least what it wrote.
LEMMA RotateReturnIInv ==
  ASSUME IInv, NEW k \in Keys, RotateReturn(k)
  PROVE  IInv'
  <1>0. TypeOK
    BY DEF IInv
  <1>1. UNCHANGED <<admin, stored, rd, ago>>
    BY DEF RotateReturn
  <1>2. /\ cache' \in [Keys -> [version : 0..MaxVersion, left : 0..CacheTtl]]
        /\ cache'[k].version = 0
        /\ \A l \in Keys : l # k => cache'[l] = cache[l]
    BY <1>0 DEF TypeOK, RotateReturn, PutReturns, CacheDelete
  <1>3. /\ clean' \in [Keys -> 0..MaxVersion]
        /\ clean'[k] = IF UnderWay(k) = {} THEN secret[k] ELSE 0
        /\ \A l \in Keys : l # k => clean'[l] = clean[l]
    BY <1>0 DEF TypeOK, RotateReturn, PutReturns
  <1>4. TypeOK'
    BY <1>0, <1>1, <1>2, <1>3 DEF TypeOK, RotateReturn, admin
  <1>5. RowInv'
    BY <1>0, <1>1, RowStep, Typed
  <1>6. VersionInv'
    BY <1>0, <1>1, <1>2, Typed DEF IInv, VersionInv
  <1>7. \A l \in Keys : Cached(l)' => l # k /\ Cached(l)
    BY <1>2 DEF Cached
  <1>8. AgeInv'
    BY <1>1, <1>2, <1>7 DEF IInv, AgeInv
  <1>9. FreshInv'
    <2>1. \A l \in Keys : clean'[l] <= secret'[l]
      BY <1>0, <1>1, <1>3, Typed DEF IInv, FreshInv
    <2>2. ASSUME NEW r \in Readers, rd[r].pc = "fetched"
          PROVE  rd[r].version >= clean'[rd[r].key]
      <3>1. rd[r].key = k => r \in UnderWay(k)
        BY <2>2 DEF UnderWay
      <3>2. rd[r].key \in Keys /\ rd[r].version \in Nat
            /\ rd[r].version >= clean[rd[r].key]
        BY <1>0, <2>2, Typed, Held DEF IInv, FreshInv
      <3> QED  BY <1>3, <3>1, <3>2
    <2> QED  BY <1>1, <2>1, <2>2 DEF FreshInv
  <1>10. SecretInUseIsRecent'
    BY <1>1 DEF IInv, SecretInUseIsRecent
  <1>11. FreshAfterPut'
    BY <1>2, <1>3, <1>7 DEF IInv, FreshAfterPut
  <1> QED  BY <1>4, <1>5, <1>6, <1>8, <1>9, <1>10, <1>11 DEF IInv

LEMMA CrashIInv ==
  ASSUME IInv, Crash
  PROVE  IInv'
  <1>0. TypeOK
    BY DEF IInv
  <1>1. \A r \in Readers : rd'[r] = Idle /\ rd'[r].pc = "idle"
    BY DEF Crash, Idle
  <1>2. \A k \in Keys : cache'[k].version = 0
    BY DEF Crash
  <1>3. TypeOK'
    <2>1. rd' \in [Readers -> Reader]
      BY IdleReader DEF Crash
    <2>2. cache' \in [Keys -> [version : 0..MaxVersion, left : 0..CacheTtl]]
      BY DEF Crash
    <2> QED  BY <1>0, <2>1, <2>2 DEF TypeOK, Reader, Crash
  <1>4. RowInv'
    BY <1>0 DEF IInv, TypeOK, RowInv, Ready, Crash
  <1>5. VersionInv'
    BY <1>0, <1>1, <1>2, Typed DEF VersionInv, Crash
  <1>6. AgeInv'
    BY <1>1, <1>2 DEF IInv, AgeInv, Cached, Crash
  <1>7. FreshInv' /\ SecretInUseIsRecent' /\ FreshAfterPut'
    BY <1>1, <1>2 DEF IInv, FreshInv, SecretInUseIsRecent, FreshAfterPut, Cached, Crash
  <1> QED  BY <1>3, <1>4, <1>5, <1>6, <1>7 DEF IInv

-----------------------------------------------------------------------------
(***************************************************************************)
(* create_connection and disable_connection.                               *)
(***************************************************************************)

LEMMA CreateBeginIInv ==
  ASSUME IInv, NEW c \in Conns, NEW how \in {"credentials", "key", "domain"},
         CreateBegin(c, how)
  PROVE  IInv'
  <1>0. TypeOK
    BY DEF IInv
  <1>1. TypeOK'
    BY <1>0 DEF TypeOK, CreateBegin
  <1>2. RowInv'
    BY <1>0 DEF IInv, TypeOK, RowInv, Ready, CreateBegin
  <1>3. VersionInv' /\ AgeInv' /\ FreshInv' /\ SecretInUseIsRecent' /\ FreshAfterPut'
    BY ReaderStep DEF CreateBegin
  <1> QED  BY <1>1, <1>2, <1>3 DEF IInv

LEMMA CreateSecretIInv ==
  ASSUME IInv, NEW c \in Conns, CreateSecret(c)
  PROVE  IInv'
  <1>0. TypeOK /\ c \in Keys /\ Write(c) /\ UNCHANGED <<gone, row, domains, rotating, rd, ago>>
    BY DEF IInv, CreateSecret
  <1>1. /\ secret' \in [Keys -> 0..MaxVersion]
        /\ secret'[c] > 0
        /\ \A l \in Keys : secret'[l] \in Nat /\ secret'[l] >= secret[l]
    BY <1>0, WrittenSecret, Typed
  <1>2. /\ cache' \in [Keys -> [version : 0..MaxVersion, left : 0..CacheTtl]]
        /\ \A l \in Keys : cache'[l] = cache[l] \/ cache'[l].version = 0
    BY <1>0 DEF TypeOK, CreateSecret, CacheDelete
  <1>3. /\ clean' \in [Keys -> 0..MaxVersion]
        /\ clean'[c] = 1
        /\ \A l \in Keys : l # c => clean'[l] = clean[l]
    BY <1>0 DEF TypeOK, CreateSecret
  <1>4. /\ key' \in [Conns -> Keys \cup {NoKey}] /\ key'[c] = c
        /\ \A d \in Conns : d # c => key'[d] = key[d]
    BY <1>0 DEF TypeOK, CreateSecret
  <1>5. adm[c] = "credentials" /\ adm' = [adm EXCEPT ![c] = "insert"]
    BY DEF CreateSecret
  <1>6. TypeOK'
    BY <1>0, <1>1, <1>2, <1>3, <1>4, <1>5 DEF TypeOK
  <1>7. RowInv'
    <2>1. \A d \in Conns : Ready(d) /\ d # c => Ready(d)'
      BY <1>0, <1>1, <1>4, Typed DEF Ready
    <2>2. Ready(c)'
      BY <1>1, <1>4, <1>5 DEF IInv, RowInv, Ready
    <2> QED  BY <1>0, <1>5, <2>1, <2>2 DEF IInv, TypeOK, RowInv
  <1>8. VersionInv' /\ AgeInv' /\ FreshInv' /\ SecretInUseIsRecent' /\ FreshAfterPut'
    BY <1>0, <1>2, <1>3, WriteStep
  <1> QED  BY <1>6, <1>7, <1>8 DEF IInv

LEMMA CheckSecretKeyIInv ==
  ASSUME IInv, NEW c \in Conns, NEW k \in Keys, NEW r \in Readers,
         CheckSecretKey(c, k, r)
  PROVE  IInv'
  <1>0. TypeOK
    BY DEF IInv
  <1>1. rd \in [Readers -> Reader] /\ At("admin", c, k) \in Reader
        /\ At("admin", c, k).pc = "admin"
    BY <1>0, AtReader DEF TypeOK, Reader
  <1>2. rd' \in [Readers -> Reader]
    BY <1>1 DEF CheckSecretKey
  <1>3. TypeOK'
    BY <1>0, <1>2 DEF TypeOK, Reader, CheckSecretKey
  <1>4. RowInv'
    BY <1>0 DEF IInv, TypeOK, RowInv, Ready, CheckSecretKey
  <1>5. VersionInv' /\ AgeInv' /\ FreshInv' /\ SecretInUseIsRecent' /\ FreshAfterPut'
    BY <1>1, ReaderStep DEF CheckSecretKey
  <1> QED  BY <1>3, <1>4, <1>5 DEF IInv

LEMMA SecretKeyResolvedIInv ==
  ASSUME IInv, NEW c \in Conns, NEW r \in Readers, SecretKeyResolved(c, r)
  PROVE  IInv'
  <1>0. TypeOK
    BY DEF IInv
  <1>1. rd \in [Readers -> Reader] /\ Idle.pc = "idle"
    BY <1>0 DEF TypeOK, Reader, Idle
  <1>2. rd' \in [Readers -> Reader]
    BY <1>1, IdleReader DEF SecretKeyResolved
  <1>3. rd[r].key \in Keys /\ secret[rd[r].key] > 0
    BY <1>0, Held, Typed DEF IInv, SecretKeyResolved
  <1>4. /\ key' = [key EXCEPT ![c] = rd[r].key] /\ adm' = [adm EXCEPT ![c] = "insert"]
        /\ adm[c] = "lookup" /\ UNCHANGED <<row, domains, secret>>
    BY DEF SecretKeyResolved
  <1>6. TypeOK'
    BY <1>0, <1>2, <1>3 DEF TypeOK, Reader, SecretKeyResolved
  <1>7. RowInv'
    <2>1. key'[c] = rd[r].key /\ \A d \in Conns : d # c => key'[d] = key[d]
      BY <1>0, <1>4 DEF TypeOK
    <2>2. Ready(c)' /\ \A d \in Conns : d # c /\ Ready(d) => Ready(d)'
      BY <1>3, <1>4, <2>1 DEF IInv, RowInv, Ready
    <2> QED  BY <1>0, <1>4, <2>2 DEF IInv, TypeOK, RowInv
  <1>5. VersionInv' /\ AgeInv' /\ FreshInv' /\ SecretInUseIsRecent' /\ FreshAfterPut'
    BY <1>1, ReaderStep DEF SecretKeyResolved
  <1> QED  BY <1>5, <1>6, <1>7 DEF IInv

LEMMA CommitOrVerifyIInv ==
  ASSUME IInv, NEW c \in Conns, VerifyDomain(c) \/ CreateCommit(c) \/ disable_connection(c)
  PROVE  IInv'
  <1>0. TypeOK
    BY DEF IInv
  <1>1. TypeOK'
    BY <1>0 DEF TypeOK, VerifyDomain, CreateCommit, disable_connection
  <1>2. RowInv'
    <2>1. CASE VerifyDomain(c)
      BY <1>0, <2>1 DEF IInv, TypeOK, RowInv, Ready, VerifyDomain
    <2>2. CASE CreateCommit(c)
      BY <1>0, <2>2 DEF IInv, TypeOK, RowInv, Ready, CreateCommit
    <2>3. CASE disable_connection(c)
      BY <1>0, <2>3 DEF IInv, TypeOK, RowInv, Ready, disable_connection
    <2> QED  BY <2>1, <2>2, <2>3
  <1>3. VersionInv' /\ AgeInv' /\ FreshInv' /\ SecretInUseIsRecent' /\ FreshAfterPut'
    BY ReaderStep DEF VerifyDomain, CreateCommit, disable_connection
  <1> QED  BY <1>1, <1>2, <1>3 DEF IInv

LEMMA CreateRaisesIInv ==
  ASSUME IInv, NEW c \in Conns, CreateRaises(c)
  PROVE  IInv'
  <1>0. TypeOK
    BY DEF IInv
  <1>1. rd \in [Readers -> Reader] /\ Idle.pc = "idle"
    BY <1>0 DEF TypeOK, Reader, Idle
  <1>2. rd' \in [Readers -> Reader]
    BY <1>1, IdleReader DEF CreateRaises
  <1>3. TypeOK'
    BY <1>0, <1>2 DEF TypeOK, Reader, CreateRaises
  <1>4. RowInv'
    BY <1>0 DEF IInv, TypeOK, RowInv, Ready, CreateRaises
  <1>5. VersionInv' /\ AgeInv' /\ FreshInv' /\ SecretInUseIsRecent' /\ FreshAfterPut'
    BY <1>1, ReaderStep DEF CreateRaises
  <1> QED  BY <1>3, <1>4, <1>5 DEF IInv

-----------------------------------------------------------------------------
(***************************************************************************)
(* The readers.                                                            *)
(***************************************************************************)

LEMMA LoadIInv ==
  ASSUME IInv, NEW r \in Readers, NEW c \in Conns,
         LoadConnection(r, c) \/ FindConnection(r, c)
  PROVE  IInv'
  <1>0. TypeOK
    BY DEF IInv
  <1>1. PICK p \in {"webhook", "worker"} : rd' = [rd EXCEPT ![r] = At(p, c, key[c])]
    BY DEF LoadConnection, FindConnection
  <1>2. UNCHANGED <<admin, stored, cache, rotating, ago, clean>>
    BY DEF LoadConnection, FindConnection
  <1>3. /\ rd \in [Readers -> Reader]
        /\ At(p, c, key[c]) \in Reader /\ At(p, c, key[c]).pc = p
    <2>1. rd \in [Readers -> Reader]
      BY <1>0 DEF TypeOK, Reader
    <2>2. key[c] \in Keys \cup {NoKey}
      BY <1>0 DEF TypeOK
    <2> QED  BY <2>1, <2>2, AtReader
  <1>4. rd' \in [Readers -> Reader]
    BY <1>1, <1>3
  <1>5. TypeOK'
    BY <1>0, <1>2, <1>4 DEF TypeOK, Reader, admin
  <1>6. RowInv'
    BY <1>0, <1>2, RowStep, Typed
  <1>7. VersionInv' /\ AgeInv' /\ FreshInv' /\ SecretInUseIsRecent' /\ FreshAfterPut'
    BY <1>1, <1>2, <1>3, ReaderStep
  <1> QED  BY <1>5, <1>6, <1>7 DEF IInv

LEMMA ReaderEndsIInv ==
  ASSUME IInv, NEW r \in Readers, UseSecret(r) \/ ReaderRaises(r)
  PROVE  IInv'
  <1>0. TypeOK
    BY DEF IInv
  <1>1. /\ rd' = [rd EXCEPT ![r] = Idle]
        /\ UNCHANGED <<admin, stored, cache, rotating, ago, clean>>
    BY DEF UseSecret, ReaderRaises
  <1>2. rd \in [Readers -> Reader] /\ Idle.pc = "idle"
    BY <1>0 DEF TypeOK, Reader, Idle
  <1>3. rd' \in [Readers -> Reader]
    BY <1>1, <1>2, IdleReader
  <1>4. TypeOK'
    BY <1>0, <1>1, <1>3 DEF TypeOK, Reader, admin
  <1>5. RowInv'
    BY <1>0, <1>1, RowStep, Typed
  <1>6. VersionInv' /\ AgeInv' /\ FreshInv' /\ SecretInUseIsRecent' /\ FreshAfterPut'
    BY <1>1, <1>2, ReaderStep
  <1> QED  BY <1>4, <1>5, <1>6 DEF IInv

\* A hit: what is left of the TTL is what keeps the version in use recent.
LEMMA GetSecretHitIInv ==
  ASSUME IInv, NEW r \in Readers, GetSecretHit(r)
  PROVE  IInv'
  <1> DEFINE k == rd[r].key
  <1>0. TypeOK /\ k \in Keys /\ Cached(k)
        /\ UNCHANGED <<admin, stored, cache, rotating, ago, clean>>
    BY Typed DEF IInv, GetSecretHit
  <1>1. rd \in [Readers -> Reader]
    BY <1>0 DEF TypeOK, Reader
  <1>2. rd' = [rd EXCEPT ![r] = [rd[r] EXCEPT !.pc = "got", !.version = cache[k].version]]
    BY <1>1 DEF GetSecretHit, Reader
  <1>3. /\ cache[k].version \in 1..MaxVersion /\ cache[k].version <= secret[k]
        /\ cache[k].left > 0
    BY <1>0, Held DEF IInv, Cached
  <1>4. [rd[r] EXCEPT !.pc = "got", !.version = cache[k].version] \in Reader
    <2>1. rd[r] \in Reader /\ cache[k].version \in 0..MaxVersion
      BY <1>1, <1>3
    <2> QED  BY <2>1, GivenReader
  <1>5. /\ rd' \in [Readers -> Reader]
        /\ rd'[r].pc = "got" /\ rd'[r].version = cache[k].version /\ rd'[r].key = k
        /\ \A q \in Readers : q # r => rd'[q] = rd[q]
    BY <1>1, <1>2, <1>4 DEF Reader
  <1> HIDE DEF k
  <1>6. TypeOK'
    BY <1>0, <1>5 DEF TypeOK, Reader, admin
  <1>7. RowInv'
    BY <1>0, RowStep, Typed
  <1>8. VersionInv'
    BY <1>0, <1>3, <1>5 DEF IInv, VersionInv
  <1>9. AgeInv' /\ FreshInv'
    BY <1>0, <1>5 DEF IInv, AgeInv, FreshInv, Cached
  <1>10. SecretInUseIsRecent'
    <2>1. cache[k].version < secret[k] => ago[k][cache[k].version] < Cap
      BY <1>0, <1>3, Typed DEF IInv, AgeInv
    <2> QED  BY <1>0, <1>3, <1>5, <2>1 DEF IInv, SecretInUseIsRecent
  <1>11. FreshAfterPut'
    BY <1>0 DEF IInv, FreshAfterPut, Cached
  <1> QED  BY <1>6, <1>7, <1>8, <1>9, <1>10, <1>11 DEF IInv

\* A miss: the answer is the current version.
LEMMA GetSecretFetchIInv ==
  ASSUME IInv, NEW r \in Readers, GetSecretFetch(r)
  PROVE  IInv'
  <1> DEFINE k == rd[r].key
  <1>0. TypeOK /\ k \in Keys /\ secret[k] > 0
        /\ UNCHANGED <<admin, stored, cache, rotating, ago, clean>>
    BY Typed DEF IInv, GetSecretFetch, Exists
  <1>1. rd \in [Readers -> Reader] /\ secret[k] \in 0..MaxVersion
    BY <1>0 DEF TypeOK, Reader
  <1>2. rd' = [rd EXCEPT ![r] = [rd[r] EXCEPT !.pc = "fetched", !.version = secret[k]]]
    BY <1>1 DEF GetSecretFetch, Reader
  <1>3. [rd[r] EXCEPT !.pc = "fetched", !.version = secret[k]] \in Reader
    BY <1>1 DEF Reader
  <1>4. /\ rd' \in [Readers -> Reader]
        /\ rd'[r].pc = "fetched" /\ rd'[r].version = secret[k] /\ rd'[r].key = k
        /\ \A q \in Readers : q # r => rd'[q] = rd[q]
    BY <1>1, <1>2, <1>3 DEF Reader
  <1> HIDE DEF k
  <1>5. TypeOK'
    BY <1>0, <1>4 DEF TypeOK, Reader, admin
  <1>6. RowInv'
    BY <1>0, RowStep, Typed
  <1>7. VersionInv'
    BY <1>0, <1>1, <1>4 DEF IInv, VersionInv
  <1>8. AgeInv'
    BY <1>0, <1>1, <1>4 DEF IInv, AgeInv, Cached
  <1>9. FreshInv'
    BY <1>0, <1>1, <1>4, Typed DEF IInv, FreshInv
  <1>10. SecretInUseIsRecent' /\ FreshAfterPut'
    BY <1>0, <1>4 DEF IInv, SecretInUseIsRecent, FreshAfterPut, Cached
  <1> QED  BY <1>5, <1>6, <1>7, <1>8, <1>9, <1>10 DEF IInv

\* The answer arrives after at most MaxLag ticks, and starts a new TTL.
LEMMA GetSecretStoreIInv ==
  ASSUME IInv, NEW r \in Readers, GetSecretStore(r)
  PROVE  IInv'
  <1> DEFINE k == rd[r].key
             v == rd[r].version
  <1>0. TypeOK /\ rd[r].pc = "fetched" /\ UNCHANGED <<admin, stored, rotating, ago, clean>>
    BY DEF IInv, GetSecretStore
  <1>1. /\ rd \in [Readers -> Reader]
        /\ k \in Keys /\ v \in 1..MaxVersion /\ v <= secret[k]
    BY <1>0, Held DEF IInv, TypeOK, Reader
  <1>2. rd' = [rd EXCEPT ![r] = [rd[r] EXCEPT !.pc = "got"]]
    BY <1>1 DEF GetSecretStore, Reader
  <1>3. [rd[r] EXCEPT !.pc = "got"] \in Reader
    BY <1>1 DEF Reader
  <1>4. /\ rd' \in [Readers -> Reader]
        /\ rd'[r].pc = "got" /\ rd'[r].version = v /\ rd'[r].key = k
        /\ \A q \in Readers : q # r => rd'[q] = rd[q]
    BY <1>1, <1>2, <1>3 DEF Reader
  <1>5. /\ v < secret[k] => ago[k][v] <= MaxLag
        /\ ago[k][v] \in Nat
        /\ v >= clean[k]
    BY <1>0, <1>1, Typed DEF IInv, AgeInv, FreshInv
  <1>6. /\ cache' \in [Keys -> [version : 0..MaxVersion, left : 0..CacheTtl]]
        /\ cache'[k].version = v /\ cache'[k].left = CacheTtl
        /\ \A l \in Keys : l # k => cache'[l] = cache[l]
    <2> HIDE DEF k, v
    <2>1. cache' = [cache EXCEPT ![k] = [version |-> v, left |-> CacheTtl]]
      BY DEF GetSecretStore, CacheSet, k, v
    <2> QED  BY <1>0, <1>1, <2>1, SMTT(30) DEF TypeOK
  <1> HIDE DEF k, v
  <1>7. TypeOK'
    BY <1>0, <1>4, <1>6 DEF TypeOK, Reader, admin
  <1>8. RowInv'
    BY <1>0, RowStep, Typed
  <1>9. VersionInv'
    BY <1>0, <1>1, <1>4, <1>6 DEF IInv, VersionInv
  <1>10. AgeInv'
    BY <1>0, <1>1, <1>4, <1>5, <1>6 DEF IInv, AgeInv, Cached, Cap
  <1>11. FreshInv'
    BY <1>0, <1>4 DEF IInv, FreshInv
  <1>12. SecretInUseIsRecent'
    BY <1>0, <1>1, <1>4, <1>5 DEF IInv, SecretInUseIsRecent, Cap
  <1>13. FreshAfterPut'
    BY <1>0, <1>5, <1>6 DEF IInv, FreshAfterPut, Cached
  <1> QED  BY <1>7, <1>8, <1>9, <1>10, <1>11, <1>12, <1>13 DEF IInv

\* Every step preserves the invariant.
LEMMA NextIInv == IInv /\ [Next]_vars => IInv'
  <1> SUFFICES ASSUME IInv, [Next]_vars PROVE IInv'
    OBVIOUS
  <1>1. CASE UNCHANGED vars
    BY <1>1 DEF vars, IInv, TypeOK, RowInv, Ready, VersionInv, AgeInv, FreshInv, Cached,
                SecretInUseIsRecent, FreshAfterPut
  <1>2. ASSUME NEW c \in Conns, create_connection(c) \/ disable_connection(c)
        PROVE  IInv'
    BY <1>2, CreateBeginIInv, CreateSecretIInv, CheckSecretKeyIInv, SecretKeyResolvedIInv,
       CommitOrVerifyIInv, CreateRaisesIInv
    DEF create_connection
  <1>3. ASSUME NEW r \in Readers,
               \/ \E c \in Conns : LoadConnection(r, c) \/ FindConnection(r, c)
               \/ get_secret(r)
               \/ UseSecret(r)
               \/ ReaderRaises(r)
        PROVE  IInv'
    BY <1>3, LoadIInv, GetSecretHitIInv, GetSecretFetchIInv, GetSecretStoreIInv,
       ReaderEndsIInv
    DEF get_secret
  <1>4. ASSUME NEW k \in Keys,
               RotateOutOfBand(k) \/ DeleteOutOfBand(k) \/ RotateWrite(k) \/ RotateReturn(k)
        PROVE  IInv'
    BY <1>4, RotateWriteIInv, RotateReturnIInv
  <1> QED  BY <1>1, <1>2, <1>3, <1>4, TickIInv, CrashIInv DEF Next

-----------------------------------------------------------------------------
(***************************************************************************)
(* The theorems.                                                           *)
(***************************************************************************)

\* The invariant holds in every behaviour.
THEOREM SpecIInv == Spec => []IInv
  BY InitIInv, NextIInv, PTL DEF Spec

\* Connections, secrets, cache and readers keep their types.
THEOREM SpecTypeOK == Spec => []TypeOK
  <1>1. IInv => TypeOK
    BY DEF IInv
  <1> QED  BY <1>1, SpecIInv, PTL

\* No connection is there whose secret or domain never was.
THEOREM SpecNoHalfConnection == Spec => []NoHalfConnection
  <1>1. IInv => NoHalfConnection
    BY DEF IInv, RowInv, Ready, NoHalfConnection
  <1> QED  BY <1>1, SpecIInv, PTL

\* For every TTL and every delay of Secrets Manager, a secret in use was replaced less
\* than both together ago.
THEOREM SpecSecretInUseIsRecent == Spec => []SecretInUseIsRecent
  <1>1. IInv => SecretInUseIsRecent
    BY DEF IInv
  <1> QED  BY <1>1, SpecIInv, PTL

\* After a put_secret that no read overlapped, the cache holds nothing older.
THEOREM SpecFreshAfterPut == Spec => []FreshAfterPut
  <1>1. IInv => FreshAfterPut
    BY DEF IInv
  <1> QED  BY <1>1, SpecIInv, PTL

=============================================================================
