------------------------------ MODULE LabelTree ------------------------------
(***************************************************************************)
(* The dictionary of src/as68k/dict.c, an AVL tree with parent pointers.    *)
(* A node is its key; keys are numbers in the order of strcmp, and a larger *)
(* key goes to the left.  "balance" is the height of the right subtree      *)
(* minus that of the left one.                                              *)
(***************************************************************************)
EXTENDS Integers, Sequences, FiniteSets, FiniteSetsExt, Functions

CONSTANTS Keys, Null
ASSUME KeysAssumption == Keys \subseteq Nat /\ IsFiniteSet(Keys) /\ Null \notin Keys

Side == {"left", "right"}
Other(s) == IF s = "left" THEN "right" ELSE "left"
Sign(s) == IF s = "left" THEN -1 ELSE 1

Node == Keys \cup {Null}
DictInit ==
  [root |-> Null, parent |-> [k \in Keys |-> Null],
   child |-> [k \in Keys |-> [s \in Side |-> Null]],
   balance |-> [k \in Keys |-> 0], obj |-> [k \in Keys |-> Null]]

\* Where the search goes on below node n.
Toward(n, key) == IF n < key THEN "left" ELSE "right"

DictGet(t, key) ==
  LET below[n \in Node] ==
        IF n \in {Null, key} THEN n ELSE below[t.child[n][Toward(n, key)]]
  IN below[t.root]

\* The node a new key becomes a child of.
AddingPosition(t, key) ==
  LET below[n \in Keys] ==
        IF t.child[n][Toward(n, key)] = Null THEN n ELSE below[t.child[n][Toward(n, key)]]
  IN below[t.root]

ParentSide(t, n) == IF t.child[t.parent[n]]["left"] = n THEN "left" ELSE "right"

\* "up" takes the place of "down" under its parent.
Lifted(t, down, up) ==
  IF t.parent[down] = Null THEN [t EXCEPT !.root = up, !.parent[up] = Null]
  ELSE [t EXCEPT !.child[t.parent[down]][ParentSide(t, down)] = up,
                 !.parent[up] = t.parent[down]]

\* n, which may be no node, becomes p's child on side s.
Hung(t, p, s, n) ==
  [t EXCEPT !.child[p][s] = n, !.parent = [k \in Keys |-> IF k = n THEN p ELSE @[k]]]

\* A single rotation lifts mid, the child on the heavy side s, over high.
\* Mutant: the subtree between the two is lost.
SingleLoses(t, high, s) ==
  LET mid == t.child[high][s]
      h == Sign(s) * t.balance[high] - 1 - Max({Sign(s) * t.balance[mid], 0})
      m == Sign(s) * t.balance[mid] - 1 + Min({h, 0})
      moved == Hung(Hung(Lifted(t, high, mid), high, s, Null), mid, Other(s), high)
  IN [tree |-> [moved EXCEPT !.balance[high] = Sign(s) * h, !.balance[mid] = Sign(s) * m], top |-> mid]
Single(t, high, s) ==
  LET mid == t.child[high][s]
      inner == t.child[mid][Other(s)]
      h == Sign(s) * t.balance[high] - 1 - Max({Sign(s) * t.balance[mid], 0})
      m == Sign(s) * t.balance[mid] - 1 + Min({h, 0})
      moved == Hung(Hung(Lifted(t, high, mid), high, s, inner), mid, Other(s), high)
  IN [tree |-> [moved EXCEPT !.balance[high] = Sign(s) * h, !.balance[mid] = Sign(s) * m], top |-> mid]

\* A double rotation lifts low, the inner child of mid, over both.
\* Mutant: the balances of the two nodes that go down are exchanged.
DoubleExchanged(t, high, s) ==
  LET mid == t.child[high][s]
      low == t.child[mid][Other(s)]
      l == Sign(s) * t.balance[low]
      up == Lifted(t, high, low)
      moved == Hung(Hung(Hung(Hung(up, high, s, t.child[low][Other(s)]), mid, Other(s), t.child[low][s]),
                         low, Other(s), high), low, s, mid)
  IN [tree |-> [moved EXCEPT !.balance[mid] = Sign(s) * (- Max({l, 0})),
                             !.balance[high] = Sign(s) * (- Min({l, 0})),
                             !.balance[low] = 0],
      top |-> low]
Double(t, high, s) ==
  LET mid == t.child[high][s]
      low == t.child[mid][Other(s)]
      l == Sign(s) * t.balance[low]
      up == Lifted(t, high, low)
      moved == Hung(Hung(Hung(Hung(up, high, s, t.child[low][Other(s)]), mid, Other(s), t.child[low][s]),
                         low, Other(s), high), low, s, mid)
  IN [tree |-> [moved EXCEPT !.balance[high] = Sign(s) * (- Max({l, 0})),
                             !.balance[mid] = Sign(s) * (- Min({l, 0})),
                             !.balance[low] = 0],
      top |-> low]

BalanceNode(t, high) ==
  LET s == IF t.balance[high] = 2 THEN "right" ELSE "left"
  IN IF Sign(s) * t.balance[t.child[high][s]] >= 0 THEN Single(t, high, s) ELSE Double(t, high, s)

\* One round of the loop after an addition: the node that has grown is "top", and its
\* parent's balance moves.  The loop ends at the root, at a node that keeps its height
\* and after a rotation that gives the old height back.
ClimbOnce(c) ==
  LET n == c.top
      p == c.tree.parent[n]
      grown == [c.tree EXCEPT !.balance[p] = @ + Sign(ParentSide(c.tree, n))]
      turned == BalanceNode(grown, p)
  IN IF n = Null \/ p = Null THEN [c EXCEPT !.top = Null]
     ELSE CASE grown.balance[p] = 0 -> [tree |-> grown, top |-> Null]
            [] grown.balance[p] \in {-1, 1} -> [tree |-> grown, top |-> p]
            [] OTHER -> IF turned.tree.balance[turned.top] = 0 THEN [turned EXCEPT !.top = Null]
                        ELSE turned

\* No climb has more rounds than there are keys.
Climb(t, n) ==
  LET round[i \in 0 .. Cardinality(Keys)] ==
        IF i = 0 THEN [tree |-> t, top |-> n] ELSE ClimbOnce(round[i - 1])
  IN round[Cardinality(Keys)].tree

DictSet(t, key, obj) ==
  LET new == [t EXCEPT !.obj[key] = obj]
  IN CASE t.root = Null -> [new EXCEPT !.root = key]
       [] DictGet(t, key) # Null -> new
       [] OTHER -> LET p == AddingPosition(t, key)
                   IN Climb(Hung(new, p, Toward(p, key), key), key)

(***************************************************************************)
(* What node_isbalanced asserts, and the order of a search tree.            *)
(***************************************************************************)
Members(t) == {k \in Keys : DictGet(t, k) # Null}
Below(t, n) ==
  LET under[m \in Node] ==
        IF m = Null THEN {} ELSE {m} \cup under[t.child[m]["left"]] \cup under[t.child[m]["right"]]
  IN under[n]
Height(t, n) ==
  LET tall[m \in Node] ==
        IF m = Null THEN 0 ELSE 1 + Max({tall[t.child[m][s]] : s \in Side})
  IN tall[n]
=============================================================================
