-------------------------- MODULE BlockIndexAbstract --------------------------
(***************************************************************************)
(* What the node's block index promises across restarts: a tree of block  *)
(* hashes rooted at genesis that grows one block at a time, and that a     *)
(* crash may only shrink by forgetting blocks no remembered block builds   *)
(* on.  The index never holds a block whose parent it has forgotten, and   *)
(* never a block it was not given.                                         *)
(***************************************************************************)
EXTENDS TLC

CONSTANTS Hashes, Genesis, NULL

VARIABLE index   \* hash -> parent hash (NULL for genesis)

Init == index = (Genesis :> NULL)

\* A block with hash h on parent p enters the index.
Add(h, p) ==
  /\ h \notin DOMAIN index /\ p \in DOMAIN index
  /\ index' = index @@ (h :> p)

\* A crash forgets the blocks S; no remaining block has its parent in S.
Forget(S) ==
  /\ S # {} /\ Genesis \notin S
  /\ \A b \in DOMAIN index \ S : index[b] \notin S
  /\ index' = [b \in DOMAIN index \ S |-> index[b]]

Next ==
  \/ \E h \in Hashes, p \in DOMAIN index : Add(h, p)
  \/ \E S \in SUBSET DOMAIN index : Forget(S)

Spec == Init /\ [][Next]_index
=============================================================================
