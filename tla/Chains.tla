------------------------------- MODULE Chains -------------------------------
(***************************************************************************)
(* Singly linked lists: what a loop "for (p = h; p != null; p = p->next)"  *)
(* meets, for lists that may be broken as well.                            *)
(***************************************************************************)
EXTENDS Sequences, FiniteSets, Naturals

(* Where a walk from h along next stands after 0, 1, ..., n steps.         *)
Walk(h, next, null, n) ==
  LET at[k \in 0 .. n] ==
        IF k = 0 THEN h
        ELSE LET before == at[k - 1]
             IN IF before = null THEN null ELSE next[before]
  IN at

Met(h, next, null, n) ==
  LET walk == Walk(h, next, null, n) IN {walk[k] : k \in 0 .. n}

(* The list of the nodes met, for a walk that ends.                        *)
ListFrom(h, next, null, n) ==
  LET walk == Walk(h, next, null, n)
  IN [i \in 1 .. Cardinality(Met(h, next, null, n) \ {null}) |-> walk[i - 1]]

(* q is the list that starts at h: nodes that differ, each linked to the   *)
(* one behind it, the last to null.                                        *)
IsList(q, h, next, null) ==
  /\ h = IF q = <<>> THEN null ELSE q[1]
  /\ \A i \in 1 .. Len(q) :
       /\ q[i] # null
       /\ next[q[i]] = IF i = Len(q) THEN null ELSE q[i + 1]
  /\ \A i, j \in 1 .. Len(q) : q[i] = q[j] => i = j

Nodes(q) == {q[i] : i \in 1 .. Len(q)}
=============================================================================
