---------------------------- MODULE MerkleProofs ----------------------------
(***************************************************************************)
(* The proof built for a leaf verifies, for every list of leaves, by a     *)
(* loop invariant of building, path and fold; its length is CeilLog2 of    *)
(* the number of leaves, by induction over the levels of the tree.         *)
(***************************************************************************)
EXTENDS Merkle, SequenceTheorems, NaturalsInduction, WellFoundedInduction, TLAPS

(* The leaves are of no known set, so lists are functions on 1 .. Len.       *)
IsList(q) == Len(q) \in Nat /\ q = [i \in 1 .. Len(q) |-> q[i]]

LEMMA ListIsSeq ==
  ASSUME NEW q, NEW S, IsList(q), \A i \in 1 .. Len(q) : q[i] \in S
  PROVE  q \in Seq(S)
BY IsASeq DEF IsList

LEMMA FunIsList ==
  ASSUME NEW n \in Nat, NEW f, f = [i \in 1 .. n |-> f[i]]
  PROVE  IsList(f) /\ Len(f) = n
BY DEF IsList

(* What Append does to a list.                                               *)
LEMMA AppendList ==
  ASSUME NEW q, NEW e, IsList(q)
  PROVE  /\ IsList(Append(q, e)) /\ Len(Append(q, e)) = Len(q) + 1
         /\ \A i \in 1 .. Len(q) : Append(q, e)[i] = q[i]
         /\ Append(q, e)[Len(q) + 1] = e
<1> DEFINE S == {q[i] : i \in 1 .. Len(q)} \cup {e}
<1>1. q \in Seq(S)
  BY ListIsSeq DEF IsList
<1>2. /\ Append(q, e) \in Seq(S) /\ Len(Append(q, e)) = Len(q) + 1
      /\ \A i \in 1 .. Len(q) : Append(q, e)[i] = q[i]
      /\ Append(q, e)[Len(q) + 1] = e
  BY <1>1, AppendProperties
<1>3. IsList(Append(q, e))
  <2> DEFINE a == Append(q, e)
  <2>1. Len(a) \in Nat /\ a \in [1 .. Len(a) -> S]
    BY <1>2, LenProperties
  <2> HIDE DEF a, S
  <2>2. a = [i \in 1 .. Len(a) |-> a[i]]
    BY <2>1
  <2> QED BY <2>1, <2>2 DEF IsList, a
<1> QED BY <1>2, <1>3

(* The next level is a list of half the length, rounded up.                  *)
LEMMA NextLevelList ==
  ASSUME NEW l, IsList(l), Len(l) > 0
  PROVE  /\ IsList(NextLevel(l)) /\ Len(NextLevel(l)) = (Len(l) + 1) \div 2
         /\ Len(NextLevel(l)) > 0
<1>1. IsList(NextLevel(l)) /\ Len(NextLevel(l)) = (Len(l) + 1) \div 2
  BY DEF IsList, NextLevel
<1>2. \A n \in Nat : n > 0 => (n + 1) \div 2 > 0
  OBVIOUS
<1> QED BY <1>1, <1>2 DEF IsList

(* The heart of it: one path element takes our node on a level to our node   *)
(* on the next, whether it is even, odd, or the odd last one.                *)
LEMMA FoldLevel ==
  ASSUME NEW l, IsList(l), NEW i \in 0 .. Len(l) - 1
  PROVE  /\ i \div 2 \in 0 .. Len(NextLevel(l)) - 1
         /\ FoldElem(l[i + 1], PathElem(l, i)) = NextLevel(l)[i \div 2 + 1]
<1> DEFINE j == i \div 2 + 1
<1>1. /\ Len(l) \in Nat \ {0} /\ i \in Nat /\ Len(NextLevel(l)) = (Len(l) + 1) \div 2
  BY NextLevelList DEF IsList
<1>2. i \div 2 \in 0 .. Len(NextLevel(l)) - 1 /\ j \in 1 .. (Len(l) + 1) \div 2
  BY <1>1
<1>3. NextLevel(l)[j] = HashPair(l[2 * j - 1], IF 2 * j <= Len(l) THEN l[2 * j] ELSE l[2 * j - 1])
  BY <1>2 DEF NextLevel
<1>4. CASE i % 2 = 0
  <2>1. 2 * j - 1 = i + 1 /\ 2 * j = i + 2
    BY <1>1, <1>4
  <2> QED BY <1>1, <1>2, <1>3, <1>4, <2>1 DEF FoldElem, PathElem
<1>5. CASE i % 2 # 0
  <2>1. 2 * j - 1 = i /\ 2 * j = i + 1
    BY <1>1, <1>5
  <2> QED BY <1>1, <1>2, <1>3, <1>5, <2>1 DEF FoldElem, PathElem
<1> QED BY <1>4, <1>5

-----------------------------------------------------------------------------
(* What the loops maintain of one tree: levels L, path p and trail T.        *)
TreeOK(L) ==
  /\ IsList(L) /\ Len(L) > 0
  /\ \A j \in 1 .. Len(L) : IsList(L[j]) /\ Len(L[j]) > 0
  /\ \A j \in 1 .. Len(L) - 1 : L[j + 1] = NextLevel(L[j]) /\ Len(L[j]) > 1

PathOK(L, p, T) ==
  /\ IsList(p) /\ IsList(T)
  /\ Len(T) = Len(p) + 1 /\ Len(p) <= Len(L) - 1
  /\ \A j \in 1 .. Len(T) : T[j] \in 0 .. Len(L[j]) - 1
  /\ \A j \in 1 .. Len(p) : p[j] = PathElem(L[j], T[j]) /\ T[j + 1] = T[j] \div 2

(* Tree and path are finished.                                               *)
Complete(L, p) == Len(L[Len(L)]) = 1 /\ Len(p) = Len(L) - 1

(* Assigning to one of the two trees.                                        *)
LEMMA Update ==
  ASSUME NEW f, NEW g, NEW t \in Both, NEW v,
         f = [u \in Both |-> f[u]], g = [f EXCEPT ![t] = v]
  PROVE  /\ g[t] = v /\ \A u \in Both : u # t => g[u] = f[u]
         /\ g = [u \in Both |-> g[u]]
OBVIOUS

(* A loop iteration keeps TreeOK and PathOK.                                 *)
LEMMA NewTree ==
  ASSUME NEW l, IsList(l), NEW i \in 0 .. Len(l) - 1
  PROVE  TreeOK(<<l>>) /\ PathOK(<<l>>, <<>>, <<i>>)
<1>1. IsList(<<l>>) /\ IsList(<<i>>) /\ IsList(<<>>)
  BY DEF IsList
<1> QED BY <1>1 DEF TreeOK, PathOK, IsList

LEMMA GrowTree ==
  ASSUME NEW L, NEW p, NEW T, TreeOK(L), PathOK(L, p, T), Len(Last(L)) > 1
  PROVE  /\ TreeOK(Append(L, NextLevel(Last(L))))
         /\ PathOK(Append(L, NextLevel(Last(L))), p, T)
         /\ Append(L, NextLevel(Last(L)))[1] = L[1]
<1> DEFINE M == Append(L, NextLevel(Last(L)))
<1>1. /\ IsList(M) /\ Len(M) = Len(L) + 1 /\ M[Len(L) + 1] = NextLevel(L[Len(L)])
      /\ \A j \in 1 .. Len(L) : M[j] = L[j]
  BY AppendList DEF TreeOK, Last
<1>2. IsList(L[Len(L)]) /\ Len(L[Len(L)]) > 0 /\ Len(L) \in Nat \ {0}
  BY SMTT(30) DEF TreeOK, IsList
<1>3. IsList(NextLevel(L[Len(L)])) /\ Len(NextLevel(L[Len(L)])) > 0
  BY <1>2, NextLevelList
<1> HIDE DEF M
<1>4. TreeOK(M)
  <2>1. ASSUME NEW j \in 1 .. Len(M) PROVE IsList(M[j]) /\ Len(M[j]) > 0
    <3>1. CASE j = Len(L) + 1 BY <1>1, <1>3, <3>1
    <3>2. CASE j \in 1 .. Len(L) BY <1>1, <3>2 DEF TreeOK
    <3> QED BY <1>1, <1>2, <3>1, <3>2
  <2>2. ASSUME NEW j \in 1 .. Len(M) - 1 PROVE M[j + 1] = NextLevel(M[j]) /\ Len(M[j]) > 1
    <3>1. CASE j = Len(L) BY <1>1, <1>2, <3>1 DEF Last
    <3>2. CASE j \in 1 .. Len(L) - 1
      <4>1. j \in 1 .. Len(L) /\ j + 1 \in 1 .. Len(L) BY <1>2, <3>2
      <4> QED BY <1>1, <3>2, <4>1 DEF TreeOK
    <3> QED BY <1>1, <1>2, <3>1, <3>2
  <2> QED BY <1>1, <1>2, <2>1, <2>2 DEF TreeOK
<1>5. PathOK(M, p, T)
  <2>1. Len(T) <= Len(L) /\ Len(p) <= Len(L) /\ Len(p) \in Nat /\ Len(T) \in Nat
    BY <1>2 DEF PathOK, IsList
  <2>2. (\A j \in 1 .. Len(T) : M[j] = L[j]) /\ (\A j \in 1 .. Len(p) : M[j] = L[j])
    BY <1>1, <1>2, <2>1
  <2>3. Len(p) <= Len(M) - 1
    BY <1>1, <1>2, <2>1
  <2>4. /\ \A j \in 1 .. Len(T) : T[j] \in 0 .. Len(M[j]) - 1
        /\ \A j \in 1 .. Len(p) : p[j] = PathElem(M[j], T[j]) /\ T[j + 1] = T[j] \div 2
    BY <2>2 DEF PathOK
  <2> QED BY <2>3, <2>4 DEF PathOK
<1> QED BY <1>1, <1>2, <1>4, <1>5 DEF M

LEMMA GrowPath ==
  ASSUME NEW L, NEW p, NEW T, TreeOK(L), PathOK(L, p, T), Len(p) < Len(L) - 1
  PROVE  LET e == PathElem(L[Len(p) + 1], Last(T)) IN
         /\ PathOK(L, Append(p, e), Append(T, Last(T) \div 2))
         /\ Append(T, Last(T) \div 2)[1] = T[1]
<1> DEFINE e == PathElem(L[Len(p) + 1], Last(T))
           i == Last(T) \div 2
           q == Append(p, e)
           U == Append(T, i)
           n == Len(p)
<1>1. /\ n \in Nat /\ Len(T) = n + 1 /\ n + 1 \in 1 .. Len(L) - 1 /\ n + 1 \in 1 .. Len(L)
      /\ Len(L) \in Nat /\ n + 1 \in 1 .. Len(T)
  BY DEF PathOK, IsList, TreeOK
<1>2. /\ IsList(q) /\ Len(q) = n + 1 /\ q[n + 1] = e /\ \A j \in 1 .. n : q[j] = p[j]
      /\ IsList(U) /\ Len(U) = n + 2 /\ U[n + 2] = i /\ \A j \in 1 .. n + 1 : U[j] = T[j]
  <2>1. IsList(p) /\ IsList(T) BY DEF PathOK
  <2>2. (n + 1) + 1 = n + 2 BY <1>1
  <2> QED BY <1>1, <2>1, <2>2, AppendList
<1>3. Last(T) = T[n + 1] /\ T[n + 1] \in 0 .. Len(L[n + 1]) - 1
  BY <1>1 DEF Last, PathOK
<1>4. i \in 0 .. Len(L[n + 2]) - 1
  <2>1. IsList(L[n + 1]) /\ L[(n + 1) + 1] = NextLevel(L[n + 1]) /\ (n + 1) + 1 = n + 2
    BY <1>1 DEF TreeOK
  <2> QED BY SMTT(30), <1>3, <2>1, FoldLevel
<1> HIDE DEF e, i, q, U
<1>5. ASSUME NEW j \in 1 .. Len(U) PROVE U[j] \in 0 .. Len(L[j]) - 1
  <2>1. CASE j = n + 2 BY <1>2, <1>4, <2>1
  <2>2. CASE j \in 1 .. n + 1 BY <1>1, <1>2, <2>2 DEF PathOK
  <2> QED BY <1>1, <1>2, <2>1, <2>2
<1>6. ASSUME NEW j \in 1 .. Len(q) PROVE q[j] = PathElem(L[j], U[j]) /\ U[j + 1] = U[j] \div 2
  <2>1. CASE j = n + 1
    <3>1. U[j] = T[n + 1] /\ U[j + 1] = i /\ q[j] = e
      BY <1>1, <1>2, <2>1
    <3> QED BY <1>3, <2>1, <3>1 DEF e, i
  <2>2. CASE j \in 1 .. n
    <3>1. j \in 1 .. n + 1 /\ j + 1 \in 1 .. n + 1 BY <1>1, <2>2
    <3> QED BY SMTT(30), <1>2, <2>2, <3>1 DEF PathOK
  <2> QED BY <1>1, <1>2, <2>1, <2>2
<1>7. PathOK(L, q, U)
  BY <1>1, <1>2, <1>5, <1>6 DEF PathOK
<1> QED BY <1>1, <1>2, <1>7 DEF e, i, q, U

(* One iteration of Fold goes from our node on a level to that on the next.  *)
LEMMA FoldOne ==
  ASSUME NEW L, NEW p, NEW T, TreeOK(L), PathOK(L, p, T), NEW c \in 0 .. Len(p) - 1
  PROVE  FoldElem(L[c + 1][T[c + 1] + 1], p[c + 1]) = L[c + 2][T[c + 2] + 1]
<1>1. /\ c + 1 \in 1 .. Len(p) /\ c + 1 \in 1 .. Len(T) /\ c + 1 \in 1 .. Len(L) - 1
      /\ c + 1 \in 1 .. Len(L) /\ (c + 1) + 1 = c + 2
  BY DEF PathOK, TreeOK, IsList
<1>2. /\ IsList(L[c + 1]) /\ L[c + 2] = NextLevel(L[c + 1])
      /\ T[c + 1] \in 0 .. Len(L[c + 1]) - 1
      /\ p[c + 1] = PathElem(L[c + 1], T[c + 1]) /\ T[c + 2] = T[c + 1] \div 2
  BY <1>1 DEF TreeOK, PathOK
<1> QED BY SMTT(30), <1>2, FoldLevel

(* After the whole path our node is the root.                                *)
LEMMA FoldEnd ==
  ASSUME NEW L, NEW p, NEW T, TreeOK(L), PathOK(L, p, T), Complete(L, p)
  PROVE  L[Len(p) + 1][T[Len(p) + 1] + 1] = Last(L)[1]
<1>1. Len(p) \in Nat /\ Len(L) \in Nat /\ Len(p) + 1 = Len(L) /\ Len(p) + 1 \in 1 .. Len(T)
  BY DEF PathOK, Complete, TreeOK, IsList
<1>2. T[Len(p) + 1] \in 0 .. Len(L[Len(L)]) - 1
  BY <1>1 DEF PathOK
<1>3. T[Len(p) + 1] = 0
  BY <1>2 DEF Complete
<1> QED BY <1>1, <1>3 DEF Last

-----------------------------------------------------------------------------
(* Our node of tree t after c levels.                                        *)
Ours(t, c) == layers[t][c + 1][trail[t][c + 1] + 1]

Good(t) == TreeOK(layers[t]) /\ PathOK(layers[t], path[t], trail[t])

(* Both trees started: the L1 tree is finished and its root is our leaf of   *)
(* the L2 tree.                                                              *)
Second ==
  /\ Good(2) /\ Complete(layers[1], path[1])
  /\ Ours(2, 0) = RootOf(1)

(* The fold has reached our node of the level it is at.                      *)
IInv ==
  /\ at \in {"build", "path", "fold", "done"} /\ s \in Both
  /\ layers = [t \in Both |-> layers[t]]
  /\ path = [t \in Both |-> path[t]]
  /\ trail = [t \in Both |-> trail[t]]
  /\ Good(1)
  /\ s = 2 \/ at \in {"fold", "done"} => Second
  /\ s = 1 /\ at \in {"build", "path"} => path[2] = <<>>
  /\ at = "path" => Len(Last(layers[s])) = 1
  /\ at \in {"build", "path"} => k = 0 /\ node = Ours(1, 0)
  /\ at \in {"fold", "done"} => Complete(layers[2], path[2])
  /\ at = "fold" => k \in 0 .. Len(path[s]) /\ node = Ours(s, k)
  /\ at = "done" => TooDeep \/ node = RootOf(2)

LEMMA InitInv == Init => IInv
<1> SUFFICES ASSUME Init PROVE IInv
  OBVIOUS
<1>1. PICK l \in Subtrees : \E i \in 0 .. Len(l) - 1 :
        /\ layers = [t \in Both |-> IF t = 1 THEN <<l>> ELSE <<>>]
        /\ trail = [t \in Both |-> IF t = 1 THEN <<i>> ELSE <<>>]
        /\ node = l[i + 1]
  BY DEF Init
<1>2. PICK i \in 0 .. Len(l) - 1 :
        /\ layers = [t \in Both |-> IF t = 1 THEN <<l>> ELSE <<>>]
        /\ trail = [t \in Both |-> IF t = 1 THEN <<i>> ELSE <<>>]
        /\ node = l[i + 1]
  BY <1>1
<1>3. IsList(l)
  BY MerkleAssumption DEF Lists, IsList
<1>4. layers[1] = <<l>> /\ trail[1] = <<i>> /\ path[1] = <<>> /\ path[2] = <<>>
  BY <1>2 DEF Both, Init
<1>5. Good(1) /\ node = Ours(1, 0)
  BY <1>2, <1>3, <1>4, NewTree DEF Good, Ours
<1> QED BY <1>2, <1>4, <1>5 DEF IInv, Init, Both

LEMMA NextInv == IInv /\ [Next]_vars => IInv'
<1> SUFFICES ASSUME IInv, [Next]_vars PROVE IInv'
  OBVIOUS
<1>1. CASE BuildLevel
  <2>1. /\ layers'[s] = Append(layers[s], NextLevel(Last(layers[s])))
        /\ \A t \in Both : t # s => layers'[t] = layers[t]
        /\ layers' = [t \in Both |-> layers'[t]]
    BY <1>1 DEF BuildLevel, IInv
  <2>2. Good(s)
    BY DEF IInv, Second, Both
  <2>3. TreeOK(layers'[s]) /\ PathOK(layers'[s], path[s], trail[s]) /\ layers'[s][1] = layers[s][1]
    <3>1. TreeOK(layers[s]) /\ PathOK(layers[s], path[s], trail[s]) /\ Len(Last(layers[s])) > 1
      BY <1>1, <2>2 DEF Good, BuildLevel
    <3> DEFINE M == Append(layers[s], NextLevel(Last(layers[s])))
    <3>2. TreeOK(M) /\ PathOK(M, path[s], trail[s]) /\ M[1] = layers[s][1]
      BY <3>1, GrowTree
    <3>3. layers'[s] = M
      BY <2>1
    <3> HIDE DEF M
    <3> QED BY <3>2, <3>3
  <2>4. UNCHANGED <<at, s, index, path, trail, k, node>> /\ at = "build"
    BY <1>1 DEF BuildLevel
  <2>5. s = 1 \/ (s = 2 /\ layers'[1] = layers[1])
    BY <2>1 DEF IInv, Both
  <2>6. Good(1)' /\ (s = 2 => Second')
    <3>1. CASE s = 1 BY <2>3, <2>4, <3>1 DEF Good
    <3>2. CASE s = 2
      <4>1. layers'[1] = layers[1] /\ Good(1) /\ Second
        BY <2>5, <3>2 DEF IInv
      <4>2. Good(1)' /\ Good(2)'
        BY <2>3, <2>4, <3>2, <4>1 DEF Good
      <4> QED BY <2>3, <2>4, <3>2, <4>1, <4>2 DEF Second, Ours, RootOf
    <3> QED BY <2>5, <3>1, <3>2
  <2>7. Ours(1, 0)' = Ours(1, 0)
    BY <2>3, <2>4, <2>5 DEF Ours
  <2> QED BY <2>1, <2>4, <2>6, <2>7 DEF IInv
<1>2. CASE Built
  <2>1. UNCHANGED <<s, layers, index, path, trail, k, node>> /\ at = "build" /\ at' = "path"
        /\ Len(Last(layers[s])) = 1
    BY <1>2 DEF Built
  <2> QED BY <2>1 DEF IInv, Good, Second, Ours, RootOf
<1>3. CASE PathStep
  <2>1. /\ path'[s] = Append(path[s], PathElem(layers[s][Len(path[s]) + 1], Last(trail[s])))
        /\ trail'[s] = Append(trail[s], Last(trail[s]) \div 2)
        /\ \A t \in Both : t # s => path'[t] = path[t] /\ trail'[t] = trail[t]
        /\ path' = [t \in Both |-> path'[t]] /\ trail' = [t \in Both |-> trail'[t]]
    BY <1>3 DEF PathStep, IInv
  <2>2. Good(s)
    BY DEF IInv, Second, Both
  <2>3. UNCHANGED <<at, s, layers, index, k, node>> /\ at = "path" /\ Len(path[s]) < Len(layers[s]) - 1
    BY <1>3 DEF PathStep
  <2>4. PathOK(layers[s], path'[s], trail'[s]) /\ trail'[s][1] = trail[s][1]
    BY <2>1, <2>2, <2>3, GrowPath DEF Good
  <2>5. (s = 1 /\ path'[2] = path[2]) \/ (s = 2 /\ path'[1] = path[1] /\ trail'[1] = trail[1])
    BY <2>1 DEF IInv, Both
  <2>6. Good(1)' /\ (s = 2 => Second')
    BY <2>2, <2>3, <2>4, <2>5 DEF IInv, Good, Second, Ours, RootOf
  <2>7. Ours(1, 0)' = Ours(1, 0)
    BY <2>3, <2>4, <2>5 DEF Ours
  <2> QED BY <2>1, <2>3, <2>5, <2>6, <2>7 DEF IInv
<1>4. ASSUME NEW roots \in Blocks, NEW i \in 0 .. Len(roots) - 1, StartBlock(roots, i) PROVE IInv'
  <2> DEFINE l == [roots EXCEPT ![i + 1] = RootOf(1)]
  <2>1. /\ layers' = [layers EXCEPT ![2] = <<l>>] /\ trail' = [trail EXCEPT ![2] = <<i>>]
        /\ s = 1 /\ s' = 2 /\ at = "path" /\ at' = "build" /\ UNCHANGED <<path, k, node>>
        /\ Len(path[1]) = Len(layers[1]) - 1
    BY <1>4 DEF StartBlock, PathDone
  <2>2. IsList(l) /\ Len(l) = Len(roots) /\ l[i + 1] = RootOf(1)
    <3>1. Len(roots) \in Nat /\ roots = [j \in 1 .. Len(roots) |-> roots[j]] /\ i + 1 \in 1 .. Len(roots)
      BY MerkleAssumption DEF Lists
    <3>2. l = [j \in 1 .. Len(roots) |-> l[j]] /\ l[i + 1] = RootOf(1)
      BY <3>1
    <3> HIDE DEF l
    <3> QED BY <3>1, <3>2, FunIsList
  <2> HIDE DEF l
  <2>3. /\ layers'[1] = layers[1] /\ layers'[2] = <<l>> /\ layers' = [t \in Both |-> layers'[t]]
        /\ trail'[1] = trail[1] /\ trail'[2] = <<i>> /\ trail' = [t \in Both |-> trail'[t]]
    <3>1. /\ layers = [t \in Both |-> layers[t]] /\ layers' = [layers EXCEPT ![2] = <<l>>]
          /\ trail = [t \in Both |-> trail[t]] /\ trail' = [trail EXCEPT ![2] = <<i>>]
      BY <2>1 DEF IInv
    <3>2. 1 \in Both /\ 2 \in Both /\ 1 # 2
      BY DEF Both
    <3> QED BY <3>1, <3>2, Update
  <2>4. Good(2)' /\ Ours(2, 0)' = RootOf(1)
    <3>1. path'[2] = <<>>
      BY <2>1 DEF IInv
    <3>2. TreeOK(<<l>>) /\ PathOK(<<l>>, <<>>, <<i>>)
      BY <2>2, NewTree
    <3> QED BY <2>2, <2>3, <3>1, <3>2 DEF Good, Ours
  <2>5. Good(1)' /\ RootOf(1)' = RootOf(1) /\ Ours(1, 0)' = Ours(1, 0) /\ Complete(layers'[1], path'[1])
    BY <2>1, <2>3 DEF IInv, Good, RootOf, Ours, Complete, Last
  <2> QED BY <2>1, <2>3, <2>4, <2>5 DEF IInv, Second, Both
<1>5. CASE Verify
  <2>1. /\ at = "path" /\ s = 2 /\ s' = 1 /\ at' = (IF TooDeep THEN "done" ELSE "fold")
        /\ UNCHANGED <<layers, index, path, trail, k, node>> /\ Len(path[2]) = Len(layers[2]) - 1
    BY <1>5 DEF Verify, PathDone
  <2>2. Good(1)' /\ Second' /\ Complete(layers[2], path[2])
    BY <2>1 DEF IInv, Good, Second, Ours, RootOf, Complete, Last
  <2>3. k = 0 /\ node = Ours(1, 0) /\ Len(path[1]) \in Nat
    BY <2>1 DEF IInv, Good, PathOK, IsList
  <2>4. Ours(1, 0)' = Ours(1, 0) /\ TooDeep' = TooDeep
    BY <2>1 DEF Ours, TooDeep
  <2> QED BY <2>1, <2>2, <2>3, <2>4 DEF IInv, Both
<1>6. CASE FoldStep
  <2>1. /\ at = "fold" /\ k < Len(path[s]) /\ k' = k + 1 /\ node' = FoldElem(node, path[s][k + 1])
        /\ UNCHANGED <<at, s, layers, index, path, trail>>
    BY <1>6 DEF FoldStep
  <2>2. Good(s) /\ k \in 0 .. Len(path[s]) - 1 /\ node = Ours(s, k) /\ Len(path[s]) \in Nat
    <3>1. Good(s) /\ k \in 0 .. Len(path[s]) /\ node = Ours(s, k)
      BY <2>1 DEF IInv, Second, Both
    <3>2. Len(path[s]) \in Nat
      BY <3>1 DEF Good, PathOK, IsList
    <3> QED BY <2>1, <3>1, <3>2
  <2>3. node' = layers[s][k + 2][trail[s][k + 2] + 1]
    BY <2>1, <2>2, FoldOne DEF Good, Ours
  <2>4. k' + 1 = k + 2 /\ k' \in 0 .. Len(path[s])
    BY <2>1, <2>2
  <2>5. node' = Ours(s, k)'
    BY <2>1, <2>3, <2>4 DEF Ours
  <2>6. Good(1)' /\ Second'
    BY <2>1 DEF IInv, Good, Second, Ours, RootOf
  <2> QED BY <2>1, <2>4, <2>5, <2>6 DEF IInv
<1>7. CASE FoldDone
  <2>1. /\ at = "fold" /\ k = Len(path[s]) /\ UNCHANGED <<layers, index, path, trail, node>>
        /\ \/ s = 1 /\ s' = 2 /\ k' = 0 /\ at' = "fold"
           \/ s = 2 /\ s' = 2 /\ at' = "done"
    BY <1>7 DEF FoldDone, IInv, Both
  <2>2. Good(s) /\ Complete(layers[s], path[s]) /\ node = Ours(s, Len(path[s]))
    BY <2>1 DEF IInv, Second, Both
  <2>3. node = RootOf(s)
    BY <2>2, FoldEnd DEF Good, Ours, RootOf
  <2>4. Good(1)' /\ Second' /\ RootOf(2)' = RootOf(2) /\ Ours(2, 0)' = Ours(2, 0)
    BY <2>1 DEF IInv, Good, Second, Ours, RootOf
  <2>5. Ours(2, 0) = RootOf(1) /\ Len(path[2]) \in Nat
    BY <2>1 DEF IInv, Second, Good, PathOK, IsList
  <2> QED BY <2>1, <2>3, <2>4, <2>5 DEF IInv, Both
<1>8. CASE UNCHANGED vars
  BY <1>8 DEF vars, IInv, Good, Second, Ours, RootOf, TooDeep
<1> QED BY <1>1, <1>2, <1>3, <1>4, <1>5, <1>6, <1>7, <1>8 DEF Next

(* For every list of leaves, every leaf in it and every block around the     *)
(* subtree, the proof that Build makes is accepted by Verify unless it is    *)
(* too deep: odd levels, single leaves and last leaves included.             *)
THEOREM ProofTheorem == Spec => []BuiltProofVerifies
<1>1. IInv => BuiltProofVerifies
  BY DEF IInv, BuiltProofVerifies, Accepted
<1> QED BY <1>1, InitInv, NextInv, PTL DEF Spec

-----------------------------------------------------------------------------
(* A set of numbers has a least one; proofs by induction are proofs that the *)
(* set of counterexamples has none.                                          *)
LEMMA LeastNat ==
  ASSUME NEW T \in SUBSET Nat, T # {}
  PROVE  \E n \in T : \A m \in T : n <= m
<1>1. IsWellFoundedOn(OpToRel(<, Nat), Nat)
  BY NatLessThanWellFounded, Zenon
<1>2. PICK x \in T : \A y \in T : ~(<<y, x>> \in OpToRel(<, Nat))
  BY <1>1, WFMin, Zenon
<1>3. \A y \in T : ~(y < x)
  BY <1>2 DEF OpToRel
<1> QED BY <1>3

(* A set of numbers that holds 0 and the successor of each of its members.   *)
LEMMA NatInd ==
  ASSUME NEW S, 0 \in S, \A n \in Nat : n \in S => n + 1 \in S
  PROVE  \A n \in Nat : n \in S
<1> SUFFICES ASSUME NEW m \in Nat, m \notin S PROVE FALSE
  OBVIOUS
<1> DEFINE T == {n \in Nat : n \notin S}
<1>1. T \in SUBSET Nat /\ T # {}
  OBVIOUS
<1>2. PICK n \in T : \A j \in T : n <= j
  BY <1>1, LeastNat
<1>3. n \in Nat /\ n # 0 /\ n - 1 \in Nat /\ n - 1 \notin T
  BY <1>2
<1>4. n - 1 \in S
  BY <1>3
<1>5. (n - 1) + 1 \in S
  BY <1>3, <1>4
<1> QED BY <1>2, <1>3, <1>5

(* The powers up to n, as a table.                                           *)
Powers(n, g) ==
  /\ g \in [0 .. n -> Nat] /\ g[0] = 1
  /\ \A i \in 1 .. n : g[i] = 2 * g[i - 1]

LEMMA PowersExist == \A n \in Nat : \E g : Powers(n, g)
<1> DEFINE S == {n \in Nat : \E g : Powers(n, g)}
<1>1. 0 \in S
  <2>1. Powers(0, [i \in 0 .. 0 |-> 1])
    BY DEF Powers
  <2> QED BY <2>1
<1>2. ASSUME NEW n \in Nat, n \in S PROVE n + 1 \in S
  <2>1. PICK g : Powers(n, g)
    BY <1>2
  <2> DEFINE h == [i \in 0 .. n + 1 |-> IF i = n + 1 THEN 2 * g[n] ELSE g[i]]
  <2>2. g[n] \in Nat /\ \A i \in 0 .. n : g[i] \in Nat
    BY <2>1 DEF Powers
  <2>3. h \in [0 .. n + 1 -> Nat] /\ h[0] = 1
    BY <2>1, <2>2 DEF Powers
  <2>4. ASSUME NEW i \in 1 .. n + 1 PROVE h[i] = 2 * h[i - 1]
    <3>1. CASE i = n + 1
      BY <3>1
    <3>2. CASE i \in 1 .. n
      BY <2>1, <3>2 DEF Powers
    <3> QED BY <3>1, <3>2
  <2> HIDE DEF h
  <2>5. Powers(n + 1, h)
    BY <2>3, <2>4 DEF Powers
  <2> QED BY <2>5
<1> HIDE DEF S
<1>3. \A n \in Nat : n \in S
  BY <1>1, <1>2, NatInd
<1> QED BY <1>3 DEF S

LEMMA PowersAgree ==
  ASSUME NEW n \in Nat, NEW m \in Nat, NEW g, NEW h, Powers(n, g), Powers(m, h), n <= m
  PROVE  g[n] = h[n]
<1> DEFINE S == {i \in Nat : i <= n => g[i] = h[i]}
<1>1. 0 \in S
  BY DEF Powers
<1>2. ASSUME NEW i \in Nat, i \in S PROVE i + 1 \in S
  <2>1. CASE i + 1 <= n
    <3>1. i + 1 \in 1 .. n /\ i + 1 \in 1 .. m /\ (i + 1) - 1 = i /\ g[i] = h[i]
      BY <1>2, <2>1
    <3>2. g[i + 1] = 2 * g[i] /\ h[i + 1] = 2 * h[i]
      BY <3>1 DEF Powers
    <3> QED BY <3>1, <3>2
  <2> QED BY <2>1
<1> HIDE DEF S
<1>3. n \in S
  BY <1>1, <1>2, NatInd
<1> QED BY <1>3 DEF S

(* What the recursive definition defines.                                    *)
LEMMA Pow2Def ==
  /\ Pow2[0] = 1
  /\ \A d \in Nat : Pow2[d] \in Nat /\ Pow2[d + 1] = 2 * Pow2[d]
<1> DEFINE table(n) == CHOOSE g : Powers(n, g)
           f == [n \in Nat |-> table(n)[n]]
<1>1. \A n \in Nat : Powers(n, table(n))
  BY PowersExist
<1> HIDE DEF table
<1>2. f[0] = 1
  BY <1>1 DEF Powers
<1>3. ASSUME NEW n \in Nat PROVE f[n] \in Nat /\ f[n + 1] = 2 * f[n]
  <2>1. Powers(n, table(n)) /\ Powers(n + 1, table(n + 1)) /\ n + 1 \in Nat /\ n <= n + 1
    BY <1>1
  <2>2. table(n)[n] = table(n + 1)[n]
    BY <2>1, PowersAgree
  <2>3. table(n)[n] \in Nat
    BY <2>1 DEF Powers
  <2>4. n + 1 \in 1 .. n + 1 /\ (n + 1) - 1 = n
    OBVIOUS
  <2>5. table(n + 1)[n + 1] = 2 * table(n + 1)[n]
    BY <2>1, <2>4 DEF Powers
  <2> QED BY <2>1, <2>2, <2>3, <2>5
<1>4. f = [d \in Nat |-> IF d = 0 THEN 1 ELSE 2 * f[d - 1]]
  <2>1. ASSUME NEW d \in Nat PROVE f[d] = IF d = 0 THEN 1 ELSE 2 * f[d - 1]
    <3>1. CASE d = 0 BY <1>2, <3>1
    <3>2. CASE d # 0
      <4>1. d - 1 \in Nat /\ (d - 1) + 1 = d
        BY <3>2
      <4> HIDE DEF f
      <4>2. f[(d - 1) + 1] = 2 * f[d - 1]
        BY <1>3, <4>1
      <4> QED BY <3>2, <4>1, <4>2
    <3> QED BY <3>1, <3>2
  <2>2. f = [d \in Nat |-> f[d]]
    OBVIOUS
  <2> HIDE DEF f
  <2> QED BY <2>1, <2>2
<1> HIDE DEF f
<1>5. Pow2 = [d \in Nat |-> IF d = 0 THEN 1 ELSE 2 * Pow2[d - 1]]
  BY <1>4 DEF Pow2
<1>6. Pow2[0] = 1
  BY <1>5
<1>7. \A d \in Nat : Pow2[d + 1] = 2 * Pow2[d]
  <2> TAKE d \in Nat
  <2>1. d + 1 \in Nat /\ d + 1 # 0 /\ (d + 1) - 1 = d
    OBVIOUS
  <2>2. Pow2[d + 1] = 2 * Pow2[(d + 1) - 1]
    BY <1>5, <2>1
  <2> QED BY <2>1, <2>2
<1>8. \A d \in Nat : Pow2[d] \in Nat
  <2> DEFINE S == {d \in Nat : Pow2[d] \in Nat}
  <2>1. 0 \in S
    BY <1>6
  <2>2. \A d \in Nat : d \in S => d + 1 \in S
    BY <1>7
  <2> HIDE DEF S
  <2>3. \A d \in Nat : d \in S
    BY <2>1, <2>2, NatInd
  <2> QED BY <2>3 DEF S
<1> QED BY <1>6, <1>7, <1>8

(* Powers of two grow, and faster than their exponents.                      *)
LEMMA Pow2Mono ==
  /\ \A d \in Nat : d < Pow2[d]
  /\ \A c, d \in Nat : c <= d => Pow2[c] <= Pow2[d]
<1>1. \A d \in Nat : d < Pow2[d]
  <2> DEFINE S == {d \in Nat : d < Pow2[d]}
  <2>1. 0 \in S
    BY Pow2Def
  <2>2. \A d \in Nat : d \in S => d + 1 \in S
    BY Pow2Def
  <2> HIDE DEF S
  <2>3. \A d \in Nat : d \in S
    BY <2>1, <2>2, NatInd
  <2> QED BY <2>3 DEF S
<1>2. ASSUME NEW c \in Nat, NEW e \in Nat, c <= e PROVE Pow2[c] <= Pow2[e]
  <2> DEFINE S == {j \in Nat : Pow2[c] <= Pow2[c + j]}
  <2>1. 0 \in S
    BY Pow2Def
  <2>2. ASSUME NEW j \in Nat, j \in S PROVE j + 1 \in S
    <3>1. c + j \in Nat /\ c + (j + 1) = (c + j) + 1
      OBVIOUS
    <3>2. /\ Pow2[c] \in Nat /\ Pow2[c + j] \in Nat /\ Pow2[c + (j + 1)] = 2 * Pow2[c + j]
      BY <3>1, Pow2Def
    <3>3. Pow2[c] <= Pow2[c + j]
      BY <2>2
    <3> QED BY <3>2, <3>3
  <2> HIDE DEF S
  <2>3. \A j \in Nat : j \in S
    BY <2>1, <2>2, NatInd
  <2>4. e - c \in Nat /\ c + (e - c) = e
    BY <1>2
  <2> QED BY <2>3, <2>4 DEF S
<1> QED BY <1>1, <1>2

(* n is 1, or above the power before that of d and not above that of d.      *)
Sized(n, d) == (d = 0 /\ n = 1) \/ (d > 0 /\ Pow2[d - 1] < n /\ n <= Pow2[d])

LEMMA CeilLog2Is ==
  ASSUME NEW n \in Nat, NEW d \in Nat, Sized(n, d)
  PROVE  CeilLog2(n) = d
<1>1. CASE d = 0 /\ n = 1
  BY <1>1 DEF CeilLog2
<1>2. CASE d > 0 /\ Pow2[d - 1] < n /\ n <= Pow2[d]
  <2>1. d - 1 \in Nat /\ Pow2[d - 1] \in Nat /\ Pow2[d] \in Nat /\ d - 1 < Pow2[d - 1]
    BY <1>2, Pow2Def, Pow2Mono
  <2>2. n > 1 /\ n - 1 \in Nat /\ d \in 0 .. n - 1 /\ n - 1 < Pow2[d]
    BY <1>2, <2>1
  <2>3. ASSUME NEW c \in 0 .. n - 1, n - 1 < Pow2[c] PROVE d <= c
    <3>1. CASE c <= d - 1
      <4>1. Pow2[c] <= Pow2[d - 1] /\ Pow2[c] \in Nat
        BY <2>1, <3>1, Pow2Mono, Pow2Def
      <4> QED BY <1>2, <2>1, <2>3, <4>1
    <3> QED BY <3>1
  <2>4. Len64(n - 1) = d
    <3> DEFINE Is(e) == n - 1 < Pow2[e] /\ \A c \in 0 .. n - 1 : n - 1 < Pow2[c] => e <= c
    <3>1. Is(d)
      BY <2>2, <2>3
    <3>2. ASSUME NEW e \in 0 .. n - 1, Is(e) PROVE e = d
      BY <2>2, <3>1, <3>2
    <3>3. Len64(n - 1) = CHOOSE e \in 0 .. n - 1 : Is(e)
      BY DEF Len64
    <3> HIDE DEF Is
    <3> QED BY <2>2, <3>1, <3>2, <3>3
  <2> QED BY <2>2, <2>4 DEF CeilLog2
<1> QED BY <1>1, <1>2 DEF Sized

(* A finished tree, seen from its root: the level j below it has more nodes  *)
(* than the power of two before and at most the j-th.                        *)
LEMMA DepthOfTree ==
  ASSUME NEW L, TreeOK(L), Len(L[Len(L)]) = 1
  PROVE  CeilLog2(Len(L[1])) = Len(L) - 1
<1> DEFINE n == Len(L)
           S == {j \in Nat : j <= n - 1 => Sized(Len(L[n - j]), j)}
<1>1. n \in Nat /\ n > 0
  BY DEF TreeOK, IsList
<1>2. 0 \in S
  BY <1>1 DEF Sized
<1>3. ASSUME NEW j \in Nat, j \in S PROVE j + 1 \in S
  <2>1. CASE j + 1 <= n - 1
    <3>1. PICK i : i = n - (j + 1)
      OBVIOUS
    <3>2. i \in 1 .. n - 1 /\ i \in 1 .. n /\ i + 1 = n - j
      BY <1>1, <2>1, <3>1
    <3>3. IsList(L[i]) /\ L[i + 1] = NextLevel(L[i]) /\ Len(L[i]) > 1
      BY <3>2 DEF TreeOK
    <3>4. Len(L[i + 1]) = (Len(L[i]) + 1) \div 2 /\ Len(L[i]) \in Nat
      <4>1. Len(L[i]) \in Nat /\ Len(L[i]) > 0
        BY <3>3 DEF IsList
      <4> QED BY <3>3, <4>1, NextLevelList
    <3>5. Sized(Len(L[i + 1]), j)
      BY <1>1, <1>3, <2>1, <3>2
    <3>6. PICK a, c : a = Len(L[i]) /\ c = Len(L[i + 1])
      OBVIOUS
    <3>7. a \in Nat /\ a > 1 /\ c = (a + 1) \div 2 /\ Sized(c, j)
      BY <3>3, <3>4, <3>5, <3>6
    <3>8. c \in Nat /\ a <= 2 * c /\ 2 * c <= a + 1
      BY <3>7
    <3>9. Sized(a, j + 1)
      <4>1. CASE j = 0
        <5>1. c = 1 /\ Pow2[0] = 1 /\ Pow2[0 + 1] = 2 * Pow2[0]
          BY SMTT(30), <3>7, <4>1, Pow2Def DEF Sized
        <5>2. Pow2[j] < a /\ a <= Pow2[j + 1]
          BY SMTT(30), <3>7, <3>8, <4>1, <5>1
        <5> QED BY <4>1, <5>2 DEF Sized
      <4>2. CASE j > 0
        <5>1. /\ j - 1 \in Nat /\ (j - 1) + 1 = j /\ Pow2[j - 1] < c /\ c <= Pow2[j]
          BY <3>7, <4>2 DEF Sized
        <5>2. /\ Pow2[j - 1] \in Nat /\ Pow2[j] \in Nat /\ Pow2[j] = 2 * Pow2[j - 1]
              /\ Pow2[j + 1] = 2 * Pow2[j]
          BY <5>1, Pow2Def
        <5>3. Pow2[j] < a /\ a <= Pow2[j + 1]
          BY SMTT(30), <3>7, <3>8, <5>1, <5>2
        <5>4. (j + 1) - 1 = j /\ j + 1 > 0
          BY <4>2
        <5> QED BY <5>3, <5>4 DEF Sized
      <4> QED BY <4>1, <4>2
    <3> QED BY <3>1, <3>6, <3>9
  <2> QED BY <2>1
<1> HIDE DEF S
<1>4. \A j \in Nat : j \in S
  BY <1>2, <1>3, NatInd
<1>5. Sized(Len(L[1]), n - 1)
  <2>1. n - 1 \in Nat /\ n - (n - 1) = 1
    BY <1>1
  <2>2. n - 1 \in S
    BY <1>4, <2>1
  <2> QED BY <2>1, <2>2 DEF S
<1>6. Len(L[1]) \in Nat
  BY <1>1 DEF TreeOK, IsList
<1> QED BY <1>1, <1>5, <1>6, CeilLog2Is

(* For every list of leaves and every leaf in it, in the subtree and in the  *)
(* block: the path has exactly CeilLog2 of the number of leaves elements.    *)
THEOREM DepthTheorem == Spec => []DepthLaw
<1>1. IInv => DepthLaw
  <2> SUFFICES ASSUME IInv, at = "done", NEW t \in Both
               PROVE  Len(path[t]) = CeilLog2(Len(layers[t][1]))
    BY DEF DepthLaw
  <2>1. TreeOK(layers[t]) /\ Complete(layers[t], path[t])
    BY DEF IInv, Second, Good, Both
  <2> QED BY <2>1, DepthOfTree DEF Complete
<1> QED BY <1>1, InitInv, NextInv, PTL DEF Spec
=============================================================================
