---------------------------- MODULE Liabilities ----------------------------
(***************************************************************************)
(* The Merkle tree over what the treasury owes its clients                 *)
(* (liabilities.ts), built level by level, and the check of an inclusion   *)
(* that the agent and the browser make.  Hashes are free of collisions: a  *)
(* leaf is its client, a node the pair of its children.                    *)
(*                                                                         *)
(* `level' is the level that was built last, `index' where each client is  *)
(* in it, and `path' each client's siblings so far.                        *)
(***************************************************************************)
EXTENDS Naturals, Sequences, SequencesExt

CONSTANT MaxClients   \* bound on the client book

VARIABLES clients, level, index, path

treeVars == <<clients, level, index, path>>

Leaf(c) == <<"leaf", c>>
Parent(a, b) == <<"node", a, b>>

Init ==
  /\ clients \in 1..MaxClients
  /\ level = [c \in 1..clients |-> Leaf(c)]
  /\ index = [c \in 1..clients |-> c]
  /\ path = [c \in 1..clients |-> <<>>]

(* Positions count from 1: a left one is odd.                              *)
IsLeft(i) == i % 2 = 1
Up(i) == (i + 1) \div 2

(* Mutant: a lone tail is paired with the first node of its level.         *)
SiblingOfTail(i) ==
  IF ~IsLeft(i) THEN level[i - 1]
  ELSE IF i < Len(level) THEN level[i + 1] ELSE level[1]

(* The other child of the node above; a lone tail is its own.              *)
Sibling(i) ==
  IF ~IsLeft(i) THEN level[i - 1]
  ELSE IF i < Len(level) THEN level[i + 1] ELSE level[i]

BuildLevel ==
  /\ Len(level) > 1
  /\ level' = [i \in 1..Up(Len(level)) |->
                 Parent(level[2 * i - 1],
                        IF 2 * i <= Len(level) THEN level[2 * i]
                        ELSE level[2 * i - 1])]
  /\ path' = [c \in 1..clients |->
       Append(path[c], [hash |-> Sibling(index[c]), right |-> IsLeft(index[c])])]
  /\ index' = [c \in 1..clients |-> Up(index[c])]
  /\ UNCHANGED clients

Next == BuildLevel

-----------------------------------------------------------------------------

(* verifyInclusion folds a leaf up its path.                               *)
Folded(leaf, steps) ==
  FoldLeft(LAMBDA cur, s : IF s.right THEN Parent(cur, s.hash)
                           ELSE Parent(s.hash, cur), leaf, steps)

VerifyInclusion(leaf, steps, root) == Folded(leaf, steps) = root

(* At every level a client's path leads its own leaf to the node above it, *)
(* and nobody else's leaf: in the end each client of the book verifies,    *)
(* and verifies with its own path only (liabilities.ts:57-71, :84-91).    *)
EveryClientIsIncluded ==
  \A c, d \in 1..clients :
    VerifyInclusion(Leaf(c), path[d], level[index[d]]) <=> c = d
=============================================================================
