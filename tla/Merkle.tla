------------------------------- MODULE Merkle -------------------------------
(***************************************************************************)
(* Inclusion proofs, commitment/commitment.go and proof/proof.go: Build    *)
(* makes the tree over a subtree's leaves and the path of one leaf (L1),   *)
(* then the tree over the block's subtree roots and the path of that       *)
(* subtree (L2); Verify folds the leaf along both.  One step is one        *)
(* iteration of a loop, so that the loops' invariants can be stated.       *)
(* Levels are numbered from 1, positions in a level from 0 as in the code. *)
(***************************************************************************)
EXTENDS Naturals, Sequences

CONSTANTS
  HashPair(_, _),   \* SHA-256d of two digests
  Subtrees,         \* lists of transaction ids to build a subtree of
  Blocks,           \* lists of subtree roots, one place of which is ours
  MaxDepth,         \* longest path accepted
  MaxSubtreeDepth   \* longest L1 path accepted

Lists == Subtrees \cup Blocks

ASSUME MerkleAssumption ==
  /\ \A l \in Lists : /\ Len(l) \in Nat \ {0}
                      /\ l = [i \in 1 .. Len(l) |-> l[i]]
  /\ MaxDepth \in Nat /\ MaxSubtreeDepth \in Nat

VARIABLES
  at,               \* "build", "path", "fold" or "done"
  s,                \* 1 for L1, 2 for L2
  layers,           \* the levels built, leaves first
  index,            \* the position of our leaf
  path,             \* its path so far
  trail,            \* history: our position on each level
  k, node           \* the fold: elements consumed, digest reached

vars == <<at, s, layers, index, path, trail, k, node>>
Both == {1, 2}

Last(q) == q[Len(q)]

Init ==
  /\ at = "build" /\ s = 1
  /\ \E l \in Subtrees : \E i \in 0 .. Len(l) - 1 :
       /\ layers = [t \in Both |-> IF t = 1 THEN <<l>> ELSE <<>>]
       /\ index = [t \in Both |-> IF t = 1 THEN i ELSE 0]
       /\ trail = [t \in Both |-> IF t = 1 THEN <<i>> ELSE <<>>]
       /\ node = l[i + 1]
  /\ path = [t \in Both |-> <<>>]
  /\ k = 0

-----------------------------------------------------------------------------
(* BuildMerkleTree: the last node of an odd level is paired with itself.     *)

(* Mutant: it is carried up as it is.                                        *)
NextLevelCarried(l) ==
  [j \in 1 .. (Len(l) + 1) \div 2 |->
     IF 2 * j <= Len(l) THEN HashPair(l[2 * j - 1], l[2 * j]) ELSE l[2 * j - 1]]

NextLevel(l) ==
  [j \in 1 .. (Len(l) + 1) \div 2 |->
     HashPair(l[2 * j - 1], IF 2 * j <= Len(l) THEN l[2 * j] ELSE l[2 * j - 1])]

BuildLevel ==
  /\ at = "build" /\ Len(Last(layers[s])) > 1
  /\ layers' = [layers EXCEPT ![s] = Append(@, NextLevel(Last(@)))]
  /\ UNCHANGED <<at, s, index, path, trail, k, node>>

(* Mutant: the loop ends one level early.                                    *)
BuiltEarly ==
  /\ at = "build" /\ Len(Last(layers[s])) <= 2
  /\ at' = "path"
  /\ UNCHANGED <<s, layers, index, path, trail, k, node>>

Built ==
  /\ at = "build" /\ Len(Last(layers[s])) = 1
  /\ at' = "path"
  /\ UNCHANGED <<s, layers, index, path, trail, k, node>>

RootOf(t) == Last(layers[t])[1]

-----------------------------------------------------------------------------
(* MerklePath and MerklePathInto.                                            *)

PathElem(l, i) ==
  IF i % 2 = 0 THEN [sibling |-> IF i + 1 < Len(l) THEN l[i + 2] ELSE l[i + 1], right |-> TRUE]
  ELSE [sibling |-> l[i], right |-> FALSE]

PathStep ==
  /\ at = "path" /\ Len(path[s]) < Len(layers[s]) - 1
  /\ path' = [path EXCEPT ![s] = Append(@, PathElem(layers[s][Len(@) + 1], Last(trail[s])))]
  /\ trail' = [trail EXCEPT ![s] = Append(@, Last(@) \div 2)]
  /\ UNCHANGED <<at, s, layers, index, k, node>>

PathDone == at = "path" /\ Len(path[s]) = Len(layers[s]) - 1

(* The L1 path is complete: on to the block that holds our subtree at i.     *)
StartBlock(roots, i) ==
  /\ PathDone /\ s = 1
  /\ s' = 2 /\ at' = "build"
  /\ layers' = [layers EXCEPT ![2] = <<[roots EXCEPT ![i + 1] = RootOf(1)]>>]
  /\ index' = [index EXCEPT ![2] = i]
  /\ trail' = [trail EXCEPT ![2] = <<i>>]
  /\ UNCHANGED <<path, k, node>>

(* VerifyToBlockRoot: the depths are checked before anything is folded.      *)
TooDeep == Len(path[1]) + Len(path[2]) > MaxDepth \/ Len(path[1]) > MaxSubtreeDepth

Verify ==
  /\ PathDone /\ s = 2
  /\ at' = IF TooDeep THEN "done" ELSE "fold"
  /\ s' = 1
  /\ UNCHANGED <<layers, index, path, trail, k, node>>

-----------------------------------------------------------------------------
(* Fold.                                                                     *)

FoldElem(n, e) == IF e.right THEN HashPair(n, e.sibling) ELSE HashPair(e.sibling, n)

FoldStep ==
  /\ at = "fold" /\ k < Len(path[s])
  /\ node' = FoldElem(node, path[s][k + 1])
  /\ k' = k + 1
  /\ UNCHANGED <<at, s, layers, index, path, trail>>

FoldDone ==
  /\ at = "fold" /\ k = Len(path[s])
  /\ IF s = 1 THEN s' = 2 /\ k' = 0 /\ UNCHANGED at
              ELSE at' = "done" /\ UNCHANGED <<s, k>>
  /\ UNCHANGED <<layers, index, path, trail, node>>

Accepted == ~TooDeep /\ node = RootOf(2)

Next ==
  \/ BuildLevel \/ Built \/ PathStep
  \/ \E roots \in Blocks : \E i \in 0 .. Len(roots) - 1 : StartBlock(roots, i)
  \/ Verify \/ FoldStep \/ FoldDone

Spec == Init /\ [][Next]_vars

-----------------------------------------------------------------------------
(* The proof built for any leaf of any tree verifies: folding it reaches the *)
(* block root, unless a path is longer than VerifyToBlockRoot accepts.       *)
BuiltProofVerifies == at = "done" => Accepted \/ TooDeep

Pow2[d \in Nat] == IF d = 0 THEN 1 ELSE 2 * Pow2[d - 1]

(* bits.Len64: the bits it takes to write x.                                 *)
Len64(x) == CHOOSE d \in 0 .. x : x < Pow2[d] /\ \A c \in 0 .. x : x < Pow2[c] => d <= c

CeilLog2(n) == IF n <= 1 THEN 0 ELSE Len64(n - 1)

(* The depth law of the comments: the path of a tree of n leaves has         *)
(* CeilLog2(n) elements, for the first leaf and for an odd last one alike.   *)
DepthLaw ==
  at = "done" => \A t \in Both : Len(path[t]) = CeilLog2(Len(layers[t][1]))
=============================================================================
