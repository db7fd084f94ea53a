------------------------- MODULE Assembler_proofs -------------------------
(***************************************************************************)
(* What holds of the assembler for every set of labels and every program.   *)
(*                                                                         *)
(* The tree: a set of naturals that holds 0 and, with n, n + 1 holds every  *)
(* natural, so that what holds of the children of a node holds of every     *)
(* node.  "Good" is a search tree with the heights its balances say; a      *)
(* rotation, a climb and an addition keep it.  The program: every reference *)
(* is a constant, waits for its fixup or is patched.  The table: the bytes  *)
(* are those of the distances between the places, and the reader follows     *)
(* the places until a distance that cannot be written.                      *)
(***************************************************************************)
EXTENDS Assembler, TLAPS, FiniteSetTheorems, SequenceTheorems

(***************************************************************************)
(* Induction over the natural numbers, of a set: there are no more numbers   *)
(* up to n in it than there are successors of them.                         *)
(***************************************************************************)
LEMMA SetInduction ==
  ASSUME NEW A \in SUBSET Nat, 0 \in A, \A n \in A : n + 1 \in A
  PROVE  \A n \in Nat : n \in A
<1>1. SUFFICES ASSUME NEW n \in Nat, n \notin A  PROVE FALSE
  OBVIOUS
<1> DEFINE B == {m \in A : m <= n}
           g == [m \in B |-> m + 1]
<1>2. IsFiniteSet(B)
  <2>1. B \in SUBSET Nat /\ \A m \in B : m <= n
    OBVIOUS
  <2> HIDE DEF B
  <2>2. QED
    BY <2>1, FS_BoundedSetOfNaturals
<1>3. 0 \in B
  OBVIOUS
<1>4. ASSUME NEW m \in B PROVE m + 1 \in B \ {0}
  <2>1. m \in Nat /\ m <= n /\ m + 1 \in A
    OBVIOUS
  <2>2. m # n
    BY <1>1
  <2>3. QED
    BY <2>1, <2>2
<1>5. g \in [B -> B \ {0}]
  BY <1>4
<1>6. \A a, b \in B : a # b => g[a] # g[b]
  OBVIOUS
<1> HIDE DEF B, g
<1>7. /\ IsFiniteSet(B \ {0})
      /\ Cardinality(B \ {0}) = Cardinality(B) - 1
  BY <1>2, <1>3, FS_RemoveElement
<1>8. Cardinality(B \ {0}) < Cardinality(B)
  <2>1. Cardinality(B) \in Nat
    BY <1>2, FS_CardinalityType
  <2>2. QED
    BY <2>1, <1>7
<1>9. QED
  BY <1>2, <1>5, <1>6, <1>7, <1>8, FS_PigeonHole

(***************************************************************************)
(* Trees as records, and what linking nodes does to their fields.           *)
(***************************************************************************)
Trees(O) ==
  [root : Node, parent : [Keys -> Node], child : [Keys -> [Side -> Node]],
   balance : [Keys -> Int], obj : [Keys -> O]]

LEMMA Sides ==
  ASSUME NEW x \in Side
  PROVE  /\ Other(x) \in Side /\ Other(x) # x /\ Other(Other(x)) = x
         /\ \A y \in Side : y = x \/ y = Other(x)
         /\ Sign(x) \in {-1, 1} /\ Sign(Other(x)) = - Sign(x)
  BY DEF Side, Other, Sign

LiftedTo(t, down, up, u) ==
  /\ u.root = IF t.parent[down] = Null THEN up ELSE t.root
  /\ \A k \in Keys : u.parent[k] = IF k = up THEN t.parent[down] ELSE t.parent[k]
  /\ \A k \in Keys, x \in Side :
       u.child[k][x] = IF k = t.parent[down] /\ x = ParentSide(t, down) THEN up
                       ELSE t.child[k][x]
  /\ u.balance = t.balance /\ u.obj = t.obj
HungOn(t, p, x, n, u) ==
  /\ u.root = t.root
  /\ \A k \in Keys : u.parent[k] = IF k = n THEN p ELSE t.parent[k]
  /\ \A k \in Keys, y \in Side :
       u.child[k][y] = IF k = p /\ y = x THEN n ELSE t.child[k][y]
  /\ u.balance = t.balance /\ u.obj = t.obj
Weighed(t, n, v, u) ==
  /\ u.root = t.root /\ u.parent = t.parent /\ u.child = t.child /\ u.obj = t.obj
  /\ \A k \in Keys : u.balance[k] = IF k = n THEN v ELSE t.balance[k]

LEMMA LiftedFields ==
  ASSUME NEW O, NEW t \in Trees(O), NEW down \in Keys, NEW up \in Keys, NEW u,
         u = Lifted(t, down, up)
  PROVE  u \in Trees(O) /\ LiftedTo(t, down, up, u)
<1> USE DEF LiftedTo
<1>1. ParentSide(t, down) \in Side
  BY DEF ParentSide, Side
<1> HIDE DEF ParentSide
<1>2. CASE t.parent[down] = Null
  BY <1>1, <1>2, KeysAssumption DEF Lifted, Trees, Node
<1>3. CASE t.parent[down] # Null
  <2>1. t.parent[down] \in Keys
    BY <1>3 DEF Trees, Node
  <2>2. QED
    BY <1>1, <1>3, <2>1, KeysAssumption DEF Lifted, Trees, Node
<1>4. QED
  BY <1>2, <1>3

LEMMA HungFields ==
  ASSUME NEW O, NEW t \in Trees(O), NEW p \in Keys, NEW x \in Side, NEW n \in Node, NEW u,
         u = Hung(t, p, x, n)
  PROVE  u \in Trees(O) /\ HungOn(t, p, x, n, u)
  BY DEF HungOn, Hung, Trees, Node

LEMMA WeighedFields ==
  ASSUME NEW O, NEW t \in Trees(O), NEW n \in Keys, NEW v \in Int, NEW u,
         u = [t EXCEPT !.balance[n] = v]
  PROVE  u \in Trees(O) /\ Weighed(t, n, v, u)
  BY DEF Weighed, Trees

\* A single rotation, link by link; "left" and "right" are the new balances of the
\* nodes that go down and up.
SingleLinks(t, high, x, mid, inner, left, right, u) ==
  \E a, b, c, d : /\ LiftedTo(t, high, mid, a) /\ HungOn(a, high, x, inner, b)
                  /\ HungOn(b, mid, Other(x), high, c)
                  /\ Weighed(c, high, left, d) /\ Weighed(d, mid, right, u)

SingleWeights(t, high, x, mid, left, right) ==
  LET h == Sign(x) * t.balance[high] - 1 - Max({Sign(x) * t.balance[mid], 0})
      m == Sign(x) * t.balance[mid] - 1 + Min({h, 0})
  IN left = Sign(x) * h /\ right = Sign(x) * m

LEMMA SingleFields ==
  ASSUME NEW O, NEW t \in Trees(O), NEW high \in Keys, NEW x \in Side,
         NEW mid \in Keys, mid = t.child[high][x],
         NEW inner \in Node, inner = t.child[mid][Other(x)],
         NEW left \in Int, NEW right \in Int, SingleWeights(t, high, x, mid, left, right),
         NEW r, r = Single(t, high, x), NEW u, u = r.tree
  PROVE  /\ r = [tree |-> u, top |-> mid] /\ u \in Trees(O)
         /\ SingleLinks(t, high, x, mid, inner, left, right, u)
<1>1. Other(x) \in Side /\ Sign(x) \in Int /\ high \in Node
  BY Sides DEF Node
<1>2. PICK a : a = Lifted(t, high, mid)
  OBVIOUS
<1>3. PICK b : b = Hung(a, high, x, inner)
  OBVIOUS
<1>4. PICK c : c = Hung(b, mid, Other(x), high)
  OBVIOUS
<1>5. r = [tree |-> [c EXCEPT !.balance[high] = left, !.balance[mid] = right], top |-> mid]
  BY <1>2, <1>3, <1>4, Zenon DEF Single, SingleWeights
<1>9. PICK d : d = [c EXCEPT !.balance[high] = left]
  OBVIOUS
<1>10. r = [tree |-> [d EXCEPT !.balance[mid] = right], top |-> mid]
  BY <1>5, <1>9, Zenon
<1>11. u = [d EXCEPT !.balance[mid] = right] /\ r = [tree |-> u, top |-> mid]
  BY <1>10
<1>12. a \in Trees(O) /\ LiftedTo(t, high, mid, a)
  BY <1>2, LiftedFields
<1>13. b \in Trees(O) /\ HungOn(a, high, x, inner, b)
  BY <1>3, <1>12, HungFields
<1>14. c \in Trees(O) /\ HungOn(b, mid, Other(x), high, c)
  BY <1>1, <1>4, <1>13, HungFields
<1>15. d \in Trees(O) /\ Weighed(c, high, left, d)
  BY <1>9, <1>14, WeighedFields
<1>16. u \in Trees(O) /\ Weighed(d, mid, right, u)
  BY <1>11, <1>15, WeighedFields
<1>17. QED
  BY <1>11, <1>12, <1>13, <1>14, <1>15, <1>16 DEF SingleLinks

(***************************************************************************)
(* A search tree: the keys D[n] below a node, on which side of it they are,  *)
(* and parents that lead back.                                              *)
(***************************************************************************)
OnSide(x, n, m) == IF x = "left" THEN n < m ELSE m < n

LEMMA SidesOrdered ==
  ASSUME NEW x \in Side, NEW a \in Keys, NEW b \in Keys
  PROVE  /\ ~ OnSide(x, a, a)
         /\ OnSide(Other(x), a, b) <=> OnSide(x, b, a)
         /\ OnSide(x, a, b) => ~ OnSide(x, b, a)
         /\ \A c \in Keys : OnSide(x, a, b) /\ OnSide(x, b, c) => OnSide(x, a, c)
         /\ a # b => OnSide(Toward(a, b), a, b)
         /\ OnSide(x, a, b) => x = Toward(a, b)
  BY KeysAssumption DEF OnSide, Side, Other, Toward

Subtrees(t, D) ==
  /\ D \in [Node -> SUBSET Keys] /\ D[Null] = {}
  /\ \A n \in Keys, m \in Keys : m \in D[n] <=> m = n \/ \E x \in Side : m \in D[t.child[n][x]]
  /\ \A n \in Keys, x \in Side : \A m \in D[t.child[n][x]] : OnSide(x, n, m)
Links(t, D) ==
  /\ \A n \in Keys, x \in Side : t.child[n][x] \in Keys => t.parent[t.child[n][x]] = n
  /\ \A k \in Keys : t.parent[k] \in Keys => \E x \in Side : t.child[t.parent[k]][x] = k
  /\ \A k \in D[t.root] : t.parent[k] = Null <=> k = t.root
  /\ \A k \in Keys \ D[t.root] : t.parent[k] = Null /\ \A x \in Side : t.child[k][x] = Null
SearchTree(t, D) == Subtrees(t, D) /\ Links(t, D)

\* What a node and its child on one side know of each other.
LEMMA Family ==
  ASSUME NEW O, NEW t \in Trees(O), NEW D, SearchTree(t, D),
         NEW p \in Keys, NEW x \in Side, NEW c \in Keys, c = t.child[p][x]
  PROVE  /\ c # p /\ c # t.child[p][Other(x)] /\ t.parent[c] = p
         /\ ParentSide(t, c) = x
         /\ p \in D[p] /\ c \in D[c] /\ c \in D[p] /\ p \notin D[c]
         /\ p \in D[t.root] /\ c \in D[t.root] /\ c # t.root
         /\ \A k \in D[c] : k \in D[p] /\ OnSide(x, p, k)
<1>1. t.parent[c] = p
  BY DEF SearchTree, Links
<1>2. p \in D[p] /\ c \in D[c]
  BY DEF SearchTree, Subtrees
<1>3. \A k \in D[c] : k \in Keys /\ k \in D[p] /\ OnSide(x, p, k)
  BY DEF SearchTree, Subtrees, Node
<1>4. OnSide(x, p, c) /\ c # p /\ p \notin D[c]
  BY <1>2, <1>3, SidesOrdered
<1>5. c # t.child[p][Other(x)]
  <2>1. SUFFICES ASSUME c = t.child[p][Other(x)] PROVE FALSE
    OBVIOUS
  <2>2. OnSide(Other(x), p, c)
    BY <1>2, <2>1, Sides DEF SearchTree, Subtrees
  <2>3. QED
    BY <1>4, <2>2, SidesOrdered
<1>6. p \in D[t.root]
  BY KeysAssumption DEF SearchTree, Links
<1>7. c \in D[t.root]
  BY <1>1, KeysAssumption DEF SearchTree, Links
<1>8. c # t.root
  BY <1>1, <1>7, KeysAssumption DEF SearchTree, Links
<1>9. ParentSide(t, c) = x
  <2>1. CASE x = "left"
    BY <1>1, <2>1 DEF ParentSide
  <2>2. CASE x = "right"
    BY <1>1, <1>5, <2>2 DEF ParentSide, Other
  <2>3. QED
    BY <2>1, <2>2 DEF Side
<1>10. QED
  BY <1>1, <1>2, <1>3, <1>4, <1>5, <1>6, <1>7, <1>8, <1>9

\* What a single rotation does to the links.
TurnedOnce(t, high, x, mid, inner, u) ==
  /\ u.root = IF t.parent[high] = Null THEN mid ELSE t.root
  /\ \A k \in Keys : u.parent[k] = IF k = high THEN mid ELSE IF k = inner THEN high
                                   ELSE IF k = mid THEN t.parent[high] ELSE t.parent[k]
  /\ \A k \in Keys, y \in Side :
       u.child[k][y] = IF k = mid /\ y = Other(x) THEN high
                       ELSE IF k = high /\ y = x THEN inner
                       ELSE IF k = t.parent[high] /\ y = ParentSide(t, high) THEN mid
                       ELSE t.child[k][y]

BalancedOnce(t, high, mid, v, w, u) ==
  \A k \in Keys : u.balance[k] = IF k = mid THEN w ELSE IF k = high THEN v ELSE t.balance[k]

LEMMA Turning ==
  ASSUME NEW t, NEW high, NEW x, NEW mid, NEW inner, NEW u,
         NEW v, NEW w, SingleLinks(t, high, x, mid, inner, v, w, u)
  PROVE  /\ TurnedOnce(t, high, x, mid, inner, u) /\ u.obj = t.obj
         /\ BalancedOnce(t, high, mid, v, w, u)
<1>0. PICK a, b, c, d : /\ LiftedTo(t, high, mid, a) /\ HungOn(a, high, x, inner, b)
                       /\ HungOn(b, mid, Other(x), high, c)
                       /\ Weighed(c, high, v, d) /\ Weighed(d, mid, w, u)
  BY DEF SingleLinks
<1>1. u.root = IF t.parent[high] = Null THEN mid ELSE t.root
  BY <1>0 DEF LiftedTo, HungOn, Weighed
<1>2. u.obj = t.obj
  BY <1>0 DEF LiftedTo, HungOn, Weighed
<1>3. ASSUME NEW k \in Keys
      PROVE  u.balance[k] = IF k = mid THEN w ELSE IF k = high THEN v ELSE t.balance[k]
  BY <1>0 DEF LiftedTo, HungOn, Weighed
<1>4. ASSUME NEW k \in Keys
      PROVE  u.parent[k] = IF k = high THEN mid ELSE IF k = inner THEN high
                           ELSE IF k = mid THEN t.parent[high] ELSE t.parent[k]
  BY <1>0 DEF LiftedTo, HungOn, Weighed
<1>5. ASSUME NEW k \in Keys, NEW y \in Side
      PROVE  u.child[k][y] = IF k = mid /\ y = Other(x) THEN high
                             ELSE IF k = high /\ y = x THEN inner
                             ELSE IF k = t.parent[high] /\ y = ParentSide(t, high) THEN mid
                             ELSE t.child[k][y]
  BY <1>0 DEF LiftedTo, HungOn, Weighed
<1>6. QED
  BY <1>1, <1>2, <1>3, <1>4, <1>5 DEF TurnedOnce, BalancedOnce

\* The keys below nodes after it, and that they are a search tree again.
BelowTurned(t, D, high, x, mid, inner) ==
  [D EXCEPT ![high] = {high} \cup D[inner] \cup D[t.child[high][Other(x)]], ![mid] = D[high]]

IsChild(t, p, x, c) == c = t.child[p][x]

\* Outside of the nodes that turn, "top" stands where "high" was.
Replaced(t, high, turned, top, u) ==
  \A k \in Keys \ turned, y \in Side :
    /\ u.child[k][y] = IF t.child[k][y] = high THEN top ELSE t.child[k][y]
    /\ t.child[k][y] \in turned => t.child[k][y] = high
ChildrenOnce(t, high, x, mid, inner, u) ==
  /\ high # mid
  /\ inner \notin {high, mid} /\ t.child[high][Other(x)] \notin {high, mid}
  /\ t.child[mid][x] \notin {high, mid}
  /\ u.child[high][x] = inner /\ u.child[high][Other(x)] = t.child[high][Other(x)]
  /\ u.child[mid][x] = t.child[mid][x] /\ u.child[mid][Other(x)] = high
  /\ Replaced(t, high, {high, mid}, mid, u)

LEMMA SingleShape ==
  ASSUME NEW O, NEW t \in Trees(O), NEW D, SearchTree(t, D),
         NEW high \in Keys, NEW x \in Side, NEW mid \in Keys, IsChild(t, high, x, mid),
         NEW inner \in Node, IsChild(t, mid, Other(x), inner),
         NEW u \in Trees(O), TurnedOnce(t, high, x, mid, inner, u),
         NEW E, E = BelowTurned(t, D, high, x, mid, inner)
  PROVE  SearchTree(u, E) /\ E[u.root] = D[t.root] /\ ChildrenOnce(t, high, x, mid, inner, u)
<1> USE DEF IsChild
<1> DEFINE far == t.child[high][Other(x)]
           outer == t.child[mid][x]
           g == t.parent[high]
           side == ParentSide(t, high)
<1>1. /\ Other(x) \in Side /\ Other(x) # x /\ Other(Other(x)) = x
      /\ \A y \in Side : y = x \/ y = Other(x)
  BY Sides
<1>2. far \in Node /\ outer \in Node /\ g \in Node /\ side \in Side
  BY <1>1 DEF Trees, ParentSide, Side
<1>3. D \in [Node -> SUBSET Keys] /\ D[Null] = {}
  BY DEF SearchTree, Subtrees
<1>4. /\ E \in [Node -> SUBSET Keys]
      /\ \A n \in Node : E[n] = IF n = mid THEN D[high]
                                ELSE IF n = high THEN {high} \cup D[inner] \cup D[far] ELSE D[n]
  <2>1. /\ high \in Node /\ mid \in Node /\ Keys \subseteq Node
        /\ E = [D EXCEPT ![high] = {high} \cup D[inner] \cup D[far], ![mid] = D[high]]
    BY Zenon DEF BelowTurned, Node
  <2>2. inner \in Node
    BY <1>1 DEF Trees
  <2>3. {high} \cup D[inner] \cup D[far] \in SUBSET Keys /\ D[high] \in SUBSET Keys
    BY <1>2, <1>3, <2>1, <2>2
  <2>4. PICK A, B : A = {high} \cup D[inner] \cup D[far] /\ B = D[high]
    OBVIOUS
  <2>5. E = [D EXCEPT ![high] = A, ![mid] = B] /\ A \in SUBSET Keys /\ B \in SUBSET Keys
    BY <2>1, <2>3, <2>4
  <2>6. /\ E \in [Node -> SUBSET Keys]
        /\ \A n \in Node : E[n] = IF n = mid THEN B ELSE IF n = high THEN A ELSE D[n]
    BY <1>3, <2>1, <2>5
  <2>7. QED
    BY <2>4, <2>6, Zenon
<1>5. /\ mid # high /\ mid # far /\ t.parent[mid] = high /\ mid # t.root
      /\ high \in D[high] /\ mid \in D[mid] /\ mid \in D[high] /\ high \notin D[mid]
      /\ high \in D[t.root] /\ mid \in D[t.root]
      /\ \A k \in D[mid] : k \in D[high] /\ OnSide(x, high, k)
  BY Family
<1>6. inner \in Keys =>
        /\ inner # mid /\ inner # outer /\ inner # high /\ t.parent[inner] = mid
        /\ inner \in D[inner] /\ inner \in D[t.root] /\ inner # t.root
  BY <1>1, <1>5, Family
<1>7. outer \in Keys => outer # mid /\ t.parent[outer] = mid /\ outer # high
  BY <1>1, <1>5, Family
<1>8. far \in Keys => far # high /\ t.parent[far] = high
  BY <1>1, Family
<1>9. g \in Keys => /\ t.child[g][side] = high /\ t.child[g][Other(side)] # high
                    /\ g # high /\ g # mid /\ high \in D[g] /\ g \notin D[high] /\ g # inner
                    /\ high # t.root
  <2>1. SUFFICES ASSUME g \in Keys PROVE /\ t.child[g][side] = high /\ t.child[g][Other(side)] # high
                    /\ g # high /\ g # mid /\ high \in D[g] /\ g \notin D[high] /\ g # inner
                    /\ high # t.root
    OBVIOUS
  <2>2. PICK y \in Side : t.child[g][y] = high
    BY <2>1 DEF SearchTree, Links
  <2>3. /\ high # g /\ high # t.child[g][Other(y)] /\ ParentSide(t, high) = y /\ high \in D[g]
        /\ g \notin D[high] /\ high # t.root
    BY <2>1, <2>2, Family
  <2>4. g # mid
    BY <1>5, <2>3
  <2>5. g # inner
    <3>1. SUFFICES ASSUME inner \in Keys, g = inner PROVE FALSE
      BY <2>1
    <3>2. inner \in D[mid]
      BY <1>1, <3>1, Family
    <3>3. QED
      BY <1>5, <2>3, <3>1, <3>2
  <2>6. QED
    BY <2>2, <2>3, <2>4, <2>5
<1>10. t.parent[high] = Null <=> high = t.root
  BY <1>5 DEF SearchTree, Links
<1> HIDE DEF far, outer, g, side
<1>11. /\ u.child[high][x] = inner /\ u.child[high][Other(x)] = far
       /\ u.child[mid][x] = outer /\ u.child[mid][Other(x)] = high
  BY <1>1, <1>5, <1>9, KeysAssumption DEF TurnedOnce, g, side, far, outer
<1>12. g \in Keys => /\ u.child[g][side] = mid
                     /\ u.child[g][Other(side)] = t.child[g][Other(side)]
  BY <1>1, <1>2, <1>5, <1>9, Sides DEF TurnedOnce, g, side
<1>13. \A k \in Keys \ {high, mid, g}, y \in Side : u.child[k][y] = t.child[k][y]
  BY DEF TurnedOnce, g, side
<1>14. /\ E[high] = {high} \cup D[inner] \cup D[far] /\ E[mid] = D[high]
       /\ E[inner] = D[inner] /\ E[far] = D[far] /\ E[outer] = D[outer]
  <2>1. high \in Node /\ mid \in Node /\ Null # high /\ Null # mid
    BY KeysAssumption DEF Node
  <2>2. inner # mid /\ inner # high
    BY <1>6, <2>1 DEF Node
  <2>3. far # mid /\ far # high
    BY <1>2, <1>5, <1>8, <2>1 DEF Node, far
  <2>4. outer # mid /\ outer # high
    BY <1>2, <1>7, <2>1 DEF Node
  <2>5. QED
    BY <1>2, <1>4, <1>5, <2>1, <2>2, <2>3, <2>4
<1>15. \A k \in Keys \ {high, mid, g}, y \in Side :
         t.child[k][y] \in Node /\ E[t.child[k][y]] = D[t.child[k][y]]
  <2>1. SUFFICES ASSUME NEW k \in Keys \ {high, mid, g}, NEW y \in Side, NEW c, c = t.child[k][y]
                 PROVE  c \in Node /\ E[c] = D[c]
    OBVIOUS
  <2>2. c \in Node
    BY <2>1 DEF Trees
  <2>3. c \in Keys => t.parent[c] = k
    BY <2>1 DEF SearchTree, Links
  <2>4. c # high /\ c # mid
    BY <1>5, <2>1, <2>3 DEF g
  <2>5. QED
    BY <1>4, <2>2, <2>4
<1>16. g \in Keys => /\ E[g] = D[g]
                     /\ t.child[g][Other(side)] \in Node
                     /\ E[t.child[g][Other(side)]] = D[t.child[g][Other(side)]]
  <2>1. SUFFICES ASSUME g \in Keys, NEW c, c = t.child[g][Other(side)]
                 PROVE  E[g] = D[g] /\ c \in Node /\ E[c] = D[c]
    OBVIOUS
  <2>2. c \in Node
    BY <1>2, <2>1, Sides DEF Trees
  <2>3. c \in Keys => t.parent[c] = g
    BY <1>2, <2>1, Sides DEF SearchTree, Links
  <2>4. c # high /\ c # mid
    BY <1>5, <1>9, <2>1, <2>3
  <2>5. QED
    BY <1>2, <1>4, <1>9, <2>1, <2>2, <2>4
<1>17. \A n \in Keys, m \in Keys : m \in E[n] <=> m = n \/ \E y \in Side : m \in E[u.child[n][y]]
  <2>1. SUFFICES ASSUME NEW n \in Keys, NEW m \in Keys
                 PROVE  m \in E[n] <=> m = n \/ \E y \in Side : m \in E[u.child[n][y]]
    OBVIOUS
  <2>2. \A k \in Keys : m \in D[k] <=> m = k \/ \E y \in Side : m \in D[t.child[k][y]]
    BY DEF SearchTree, Subtrees
  <2>3. m \in D[mid] <=> m = mid \/ m \in D[outer] \/ m \in D[inner]
    BY <1>1, <2>2 DEF outer
  <2>4. m \in D[high] <=> m = high \/ m \in D[mid] \/ m \in D[far]
    BY <1>1, <2>2 DEF far
  <2>5. CASE n = high
    BY <1>1, <1>11, <1>14, <2>5
  <2>6. CASE n = mid
    <3>1. (\E y \in Side : m \in E[u.child[mid][y]]) <=> m \in D[outer] \/ m \in E[high]
      BY <1>1, <1>11, <1>14
    <3>2. QED
      BY <1>14, <2>3, <2>4, <2>6, <3>1
  <2>7. CASE n = g /\ n # high /\ n # mid
    <3>1. (\E y \in Side : m \in E[u.child[g][y]])
             <=> m \in D[high] \/ m \in D[t.child[g][Other(side)]]
      <4>1. Other(side) \in Side /\ \A y \in Side : y = side \/ y = Other(side)
        BY <1>2, Sides
      <4>2. /\ E[u.child[g][side]] = D[high]
            /\ E[u.child[g][Other(side)]] = D[t.child[g][Other(side)]]
        BY <1>12, <1>14, <1>16, <2>7
      <4>3. QED
        BY <1>2, <4>1, <4>2
    <3>2. (\E y \in Side : m \in D[t.child[g][y]])
             <=> m \in D[high] \/ m \in D[t.child[g][Other(side)]]
      BY <1>2, <1>9, <2>7, Sides
    <3>3. QED
      BY <1>16, <2>2, <2>7, <3>1, <3>2
  <2>8. CASE n \notin {high, mid, g}
    <3>1. \A y \in Side : E[u.child[n][y]] = D[t.child[n][y]]
      <4>1. n \in Keys \ {high, mid, g}
        BY <2>8
      <4>2. ASSUME NEW y \in Side PROVE E[u.child[n][y]] = D[t.child[n][y]]
        <5>1. u.child[n][y] = t.child[n][y] /\ E[t.child[n][y]] = D[t.child[n][y]]
          BY <1>13, <1>15, <4>1, Zenon
        <5>2. QED
          BY <5>1, Zenon
      <4>3. QED
        BY <4>2
    <3>2. E[n] = D[n]
      BY <1>4, <2>8 DEF Node
    <3>3. QED
      BY <2>2, <3>1, <3>2
  <2>9. QED
    BY <2>5, <2>6, <2>7, <2>8
<1>18. \A n \in Keys, y \in Side : \A m \in E[u.child[n][y]] : OnSide(y, n, m)
  <2>1. SUFFICES ASSUME NEW n \in Keys, NEW y \in Side, NEW m \in E[u.child[n][y]]
                 PROVE  OnSide(y, n, m)
    OBVIOUS
  <2>2. \A k \in Keys, z \in Side : m \in D[t.child[k][z]] => OnSide(z, k, m)
    BY DEF SearchTree, Subtrees
  <2>3. OnSide(x, high, mid) /\ OnSide(Other(x), mid, high)
    BY <1>5, SidesOrdered
  <2>4. CASE n = high
    <3>1. CASE y = x
      <4>1. m \in D[inner]
        BY <1>11, <1>14, <2>1, <2>4, <3>1
      <4>2. m \in D[mid]
        BY <1>1, <1>3, <4>1 DEF SearchTree, Subtrees
      <4>3. QED
        BY <1>5, <2>4, <3>1, <4>2
    <3>2. CASE y = Other(x)
      BY <1>1, <1>11, <1>14, <2>1, <2>2, <2>4, <3>2 DEF far
    <3>3. QED
      BY <1>1, <3>1, <3>2
  <2>5. CASE n = mid
    <3>1. CASE y = x
      BY <1>11, <1>14, <2>1, <2>2, <2>5, <3>1 DEF outer
    <3>2. CASE y = Other(x)
      <4>1. m = high \/ m \in D[inner] \/ m \in D[far]
        BY <1>11, <1>14, <2>1, <2>5, <3>2
      <4>2. CASE m = high
        BY <2>3, <2>5, <3>2, <4>2
      <4>3. CASE m \in D[inner]
        BY <1>1, <2>2, <2>5, <3>2, <4>3
      <4>4. CASE m \in D[far]
        <5>1. OnSide(Other(x), high, m) /\ m \in Keys
          BY <1>1, <1>2, <1>3, <2>2, <4>4 DEF far
        <5>2. QED
          BY <1>1, <2>3, <2>5, <3>2, <5>1, SidesOrdered
      <4>5. QED
        BY <4>1, <4>2, <4>3, <4>4
    <3>3. QED
      BY <1>1, <3>1, <3>2
  <2>6. CASE n = g /\ n # high /\ n # mid
    <3>1. CASE y = side
      BY <1>2, <1>9, <1>12, <1>14, <2>1, <2>2, <2>6, <3>1
    <3>2. CASE y = Other(side)
      BY <1>2, <1>12, <1>16, <2>1, <2>2, <2>6, <3>2
    <3>3. QED
      BY <1>2, <3>1, <3>2, Sides
  <2>7. CASE n \notin {high, mid, g}
    <3>1. n \in Keys \ {high, mid, g}
      BY <2>7
    <3>2. u.child[n][y] = t.child[n][y] /\ E[t.child[n][y]] = D[t.child[n][y]]
      BY <1>13, <1>15, <3>1, Zenon
    <3>3. m \in D[t.child[n][y]]
      BY <2>1, <3>2, Zenon
    <3>4. QED
      BY <2>2, <3>3
  <2>8. QED
    BY <2>4, <2>5, <2>6, <2>7
<1>19. E[Null] = {}
  BY <1>3, <1>4, KeysAssumption DEF Node
<1>20. E[u.root] = D[t.root]
  <2>1. CASE g = Null
    BY <1>10, <1>14, <2>1 DEF TurnedOnce, g
  <2>2. CASE g # Null
    <3>1. u.root = t.root /\ t.root # high /\ t.root # mid /\ t.root \in Node
      BY <1>5, <1>10, <2>2 DEF TurnedOnce, Trees, g
    <3>2. QED
      BY <1>4, <3>1
  <2>3. QED
    BY <2>1, <2>2
<1>21. \A n \in Keys, y \in Side : u.child[n][y] \in Keys => u.parent[u.child[n][y]] = n
  <2>1. SUFFICES ASSUME NEW n \in Keys, NEW y \in Side, NEW c \in Keys, c = u.child[n][y]
                 PROVE  u.parent[c] = n
    OBVIOUS
  <2>2. u.parent[c] = IF c = high THEN mid ELSE IF c = inner THEN high
                      ELSE IF c = mid THEN g ELSE t.parent[c]
    BY DEF TurnedOnce, g
  <2>3. CASE n = high
    <3>1. c = inner \/ c = far
      BY <1>1, <1>11, <2>1, <2>3
    <3>2. c = inner => c # high
      BY <1>6
    <3>3. c = far => c # high /\ c # inner /\ c # mid /\ t.parent[c] = high
      BY <1>5, <1>6, <1>8 DEF far
    <3>4. QED
      BY <2>2, <2>3, <3>1, <3>2, <3>3
  <2>4. CASE n = mid
    <3>1. c = outer \/ c = high
      BY <1>1, <1>11, <2>1, <2>4
    <3>2. c = outer => c # high /\ c # inner /\ c # mid /\ t.parent[c] = mid
      BY <1>6, <1>7
    <3>3. QED
      BY <2>2, <2>4, <3>1, <3>2
  <2>5. CASE n = g /\ n # high /\ n # mid
    <3>1. c = mid \/ c = t.child[g][Other(side)]
      BY <1>2, <1>12, <2>1, <2>5, Sides
    <3>2. c = mid => c # high /\ c # inner
      BY <1>5, <1>6
    <3>3. c = t.child[g][Other(side)] => c # high /\ t.parent[c] = g
      BY <1>2, <1>9, <2>5, Sides DEF SearchTree, Links
    <3>4. t.parent[c] = g => c # inner /\ c # mid
      BY <1>5, <1>6, <2>5
    <3>5. QED
      BY <2>2, <2>5, <3>1, <3>2, <3>3, <3>4
  <2>6. CASE n \notin {high, mid, g}
    <3>1. t.parent[c] = n
      BY <1>13, <2>1, <2>6 DEF SearchTree, Links
    <3>2. c # high /\ c # inner /\ c # mid
      BY <1>5, <1>6, <2>6, <3>1 DEF g
    <3>3. QED
      BY <2>2, <3>1, <3>2
  <2>7. QED
    BY <2>3, <2>4, <2>5, <2>6
<1>22. \A k \in Keys : u.parent[k] \in Keys => \E y \in Side : u.child[u.parent[k]][y] = k
  <2>1. SUFFICES ASSUME NEW k \in Keys, u.parent[k] \in Keys
                 PROVE  \E y \in Side : u.child[u.parent[k]][y] = k
    OBVIOUS
  <2>2. u.parent[k] = IF k = high THEN mid ELSE IF k = inner THEN high
                      ELSE IF k = mid THEN g ELSE t.parent[k]
    BY DEF TurnedOnce, g
  <2>3. CASE k = high
    BY <1>1, <1>11, <2>2, <2>3
  <2>4. CASE k = inner /\ k # high
    BY <1>11, <2>2, <2>4
  <2>5. CASE k = mid /\ k # high /\ k # inner
    BY <1>2, <1>12, <2>1, <2>2, <2>5
  <2>6. CASE k # high /\ k # inner /\ k # mid
    <3>1. t.parent[k] \in Keys /\ u.parent[k] = t.parent[k]
      BY <2>1, <2>2, <2>6
    <3>2. PICK y \in Side : t.child[t.parent[k]][y] = k
      BY <3>1 DEF SearchTree, Links
    <3>3. CASE t.parent[k] = high
      <4>1. k = far
        BY <1>1, <2>6, <3>2, <3>3 DEF far
      <4>2. QED
        BY <1>1, <1>11, <3>1, <3>3, <4>1
    <3>4. CASE t.parent[k] = mid
      <4>1. k = outer
        BY <1>1, <2>6, <3>2, <3>4 DEF outer
      <4>2. QED
        BY <1>11, <3>1, <3>4, <4>1
    <3>5. CASE t.parent[k] = g /\ g # high /\ g # mid
      <4>1. y = Other(side)
        BY <1>2, <1>9, <2>6, <3>1, <3>2, <3>5, Sides
      <4>2. QED
        BY <1>2, <1>12, <3>1, <3>2, <3>5, <4>1, Sides
    <3>6. CASE t.parent[k] \notin {high, mid, g}
      BY <1>13, <3>1, <3>2, <3>6
    <3>7. QED
      BY <3>3, <3>4, <3>5, <3>6
  <2>7. QED
    BY <2>3, <2>4, <2>5, <2>6
<1>23. \A k \in D[t.root] : u.parent[k] = Null <=> k = u.root
  <2>1. SUFFICES ASSUME NEW k \in D[t.root]
                 PROVE  u.parent[k] = Null <=> k = u.root
    OBVIOUS
  <2>2. k \in Keys
    BY <1>3 DEF Trees
  <2>3. u.parent[k] = IF k = high THEN mid ELSE IF k = inner THEN high
                      ELSE IF k = mid THEN g ELSE t.parent[k]
    BY <2>2 DEF TurnedOnce, g
  <2>4. u.root = IF g = Null THEN mid ELSE t.root
    BY DEF TurnedOnce, g
  <2>5. t.parent[k] = Null <=> k = t.root
    BY DEF SearchTree, Links
  <2>6. g = Null <=> high = t.root
    BY <1>10 DEF g
  <2>7. high # Null /\ mid # Null
    BY KeysAssumption
  <2>8. CASE k = high
    BY <1>5, <2>3, <2>4, <2>6, <2>7, <2>8
  <2>9. CASE k = inner /\ k # high
    BY <1>6, <2>2, <2>3, <2>4, <2>7, <2>9
  <2>10. CASE k = mid /\ k # high /\ k # inner
    BY <1>5, <2>3, <2>4, <2>10
  <2>11. CASE k # high /\ k # inner /\ k # mid
    BY <2>3, <2>4, <2>5, <2>6, <2>11
  <2>12. QED
    BY <2>8, <2>9, <2>10, <2>11
<1>24. \A k \in Keys \ D[t.root] : u.parent[k] = Null /\ \A y \in Side : u.child[k][y] = Null
  <2>1. SUFFICES ASSUME NEW k \in Keys \ D[t.root]
                 PROVE  u.parent[k] = Null /\ \A y \in Side : u.child[k][y] = Null
    OBVIOUS
  <2>2. t.parent[k] = Null /\ \A y \in Side : t.child[k][y] = Null
    BY DEF SearchTree, Links
  <2>3. k # high /\ k # mid /\ k # inner
    BY <1>5, <1>6
  <2>4. k # g
    BY <1>2, <1>9, <2>2, KeysAssumption
  <2>5. u.parent[k] = t.parent[k]
    BY <2>3 DEF TurnedOnce
  <2>6. QED
    BY <1>13, <2>2, <2>3, <2>4, <2>5
<1>25. Subtrees(u, E)
  BY <1>4, <1>17, <1>18, <1>19 DEF Subtrees
<1>26. Links(u, E)
  BY <1>20, <1>21, <1>22, <1>23, <1>24 DEF Links
<1>27. ChildrenOnce(t, high, x, mid, inner, u)
  <2>1. high # Null /\ mid # Null /\ high # mid
    BY <1>5, KeysAssumption
  <2>2. inner # high /\ inner # mid /\ far # high /\ far # mid /\ outer # high /\ outer # mid
    BY <1>2, <1>5, <1>6, <1>7, <1>8, <2>1 DEF Node, far
  <2>3. ASSUME NEW k \in Keys \ {high, mid}, NEW y \in Side
        PROVE  /\ u.child[k][y] = IF t.child[k][y] = high THEN mid ELSE t.child[k][y]
               /\ t.child[k][y] \in {high, mid} => t.child[k][y] = high
    <3>1. t.child[k][y] # mid
      BY <1>5, <2>3 DEF SearchTree, Links
    <3>2. t.child[k][y] = high => k = g
      BY <2>3 DEF SearchTree, Links, g
    <3>3. CASE k = g
      BY <1>2, <1>9, <1>12, <2>3, <3>1, <3>3, Sides
    <3>4. CASE k # g
      BY <1>13, <2>3, <3>1, <3>2, <3>4
    <3>5. QED
      BY <3>3, <3>4
  <2>4. QED
    BY <1>11, <2>1, <2>2, <2>3 DEF ChildrenOnce, Replaced, far, outer
<1>28. QED
  BY <1>20, <1>25, <1>26, <1>27 DEF SearchTree

\* A double rotation: field by field, and as two single ones, of which the first
\* turns the child.
TurnedTwice(t, high, x, mid, low, u) ==
  /\ u.root = IF t.parent[high] = Null THEN low ELSE t.root
  /\ \A k \in Keys :
       u.parent[k] = IF k = mid THEN low ELSE IF k = high THEN low
                     ELSE IF k = t.child[low][x] THEN mid
                     ELSE IF k = t.child[low][Other(x)] THEN high
                     ELSE IF k = low THEN t.parent[high] ELSE t.parent[k]
  /\ \A k \in Keys, y \in Side :
       u.child[k][y] = IF k = low /\ y = x THEN mid
                       ELSE IF k = low /\ y = Other(x) THEN high
                       ELSE IF k = mid /\ y = Other(x) THEN t.child[low][x]
                       ELSE IF k = high /\ y = x THEN t.child[low][Other(x)]
                       ELSE IF k = t.parent[high] /\ y = ParentSide(t, high) THEN low
                       ELSE t.child[k][y]

BalancedTwice(t, high, mid, low, left, right, u) ==
  \A k \in Keys : u.balance[k] = IF k = low THEN 0 ELSE IF k = mid THEN right
                                 ELSE IF k = high THEN left ELSE t.balance[k]

DoubleWeights(t, x, low, left, right) ==
  LET l == Sign(x) * t.balance[low]
  IN left = Sign(x) * (- Max({l, 0})) /\ right = Sign(x) * (- Min({l, 0}))

LEMMA DoubleFields ==
  ASSUME NEW O, NEW t \in Trees(O), NEW high \in Keys, NEW x \in Side,
         NEW mid \in Keys, mid = t.child[high][x],
         NEW low \in Keys, low = t.child[mid][Other(x)],
         NEW left \in Int, NEW right \in Int, DoubleWeights(t, x, low, left, right),
         NEW r, r = Double(t, high, x), NEW u, u = r.tree
  PROVE  /\ r = [tree |-> u, top |-> low] /\ u \in Trees(O) /\ u.obj = t.obj
         /\ TurnedTwice(t, high, x, mid, low, u)
         /\ BalancedTwice(t, high, mid, low, left, right, u)
<1> DEFINE lx == t.child[low][x]
           lo == t.child[low][Other(x)]
<1>1. Other(x) \in Side /\ Sign(x) \in Int /\ high \in Node /\ mid \in Node
  BY Sides DEF Node
<1>2. lx \in Node /\ lo \in Node
  BY <1>1 DEF Trees
<1> HIDE DEF lx, lo
<1>3. PICK a : a = Lifted(t, high, low)
  OBVIOUS
<1>4. PICK b : b = Hung(a, high, x, lo)
  OBVIOUS
<1>5. PICK c : c = Hung(b, mid, Other(x), lx)
  OBVIOUS
<1>6. PICK d : d = Hung(c, low, Other(x), high)
  OBVIOUS
<1>7. PICK e : e = Hung(d, low, x, mid)
  OBVIOUS
<1>10. r = [tree |-> [e EXCEPT !.balance[high] = left, !.balance[mid] = right, !.balance[low] = 0],
            top |-> low]
  BY <1>3, <1>4, <1>5, <1>6, <1>7, Zenon DEF Double, DoubleWeights, lx, lo
<1>11. PICK v : v = [e EXCEPT !.balance[high] = left]
  OBVIOUS
<1>12. PICK w : w = [v EXCEPT !.balance[mid] = right]
  OBVIOUS
<1>13. r = [tree |-> [w EXCEPT !.balance[low] = 0], top |-> low]
  BY <1>10, <1>11, <1>12, Zenon
<1>14. u = [w EXCEPT !.balance[low] = 0] /\ r = [tree |-> u, top |-> low]
  BY <1>13
<1>15. 0 \in Int
  OBVIOUS
<1>16. a \in Trees(O) /\ LiftedTo(t, high, low, a)
  BY <1>3, LiftedFields
<1>17. b \in Trees(O) /\ HungOn(a, high, x, lo, b)
  BY <1>2, <1>4, <1>16, HungFields
<1>18. c \in Trees(O) /\ HungOn(b, mid, Other(x), lx, c)
  BY <1>1, <1>2, <1>5, <1>17, HungFields
<1>19. d \in Trees(O) /\ HungOn(c, low, Other(x), high, d)
  BY <1>1, <1>6, <1>18, HungFields
<1>20. e \in Trees(O) /\ HungOn(d, low, x, mid, e)
  BY <1>1, <1>7, <1>19, HungFields
<1>21. v \in Trees(O) /\ Weighed(e, high, left, v)
  BY <1>11, <1>15, <1>20, WeighedFields
<1>22. w \in Trees(O) /\ Weighed(v, mid, right, w)
  BY <1>12, <1>15, <1>21, WeighedFields
<1>23. u \in Trees(O) /\ Weighed(w, low, 0, u)
  BY <1>14, <1>15, <1>22, WeighedFields
<1>c. /\ u.obj = e.obj /\ u.root = e.root /\ u.parent = e.parent /\ u.child = e.child
  BY <1>21, <1>22, <1>23 DEF Weighed
<1>24. u.obj = t.obj /\ u.root = IF t.parent[high] = Null THEN low ELSE t.root
  BY <1>16, <1>17, <1>18, <1>19, <1>20, <1>c DEF LiftedTo, HungOn
<1>25. ASSUME NEW k \in Keys
       PROVE  u.balance[k] = IF k = low THEN 0 ELSE IF k = mid THEN right
                             ELSE IF k = high THEN left ELSE t.balance[k]
  <2>1. e.balance = t.balance
    BY <1>16, <1>17, <1>18, <1>19, <1>20 DEF LiftedTo, HungOn
  <2>2. QED
    BY <1>21, <1>22, <1>23, <2>1 DEF Weighed
<1>26. ASSUME NEW k \in Keys
       PROVE  u.parent[k] = IF k = mid THEN low ELSE IF k = high THEN low
                            ELSE IF k = lx THEN mid ELSE IF k = lo THEN high
                            ELSE IF k = low THEN t.parent[high] ELSE t.parent[k]
  <2>1. a.parent[k] = IF k = low THEN t.parent[high] ELSE t.parent[k]
    BY <1>16 DEF LiftedTo
  <2>2. b.parent[k] = IF k = lo THEN high ELSE a.parent[k]
    BY <1>17 DEF HungOn
  <2>3. c.parent[k] = IF k = lx THEN mid ELSE b.parent[k]
    BY <1>18 DEF HungOn
  <2>4. d.parent[k] = IF k = high THEN low ELSE c.parent[k]
    BY <1>19 DEF HungOn
  <2>5. e.parent[k] = IF k = mid THEN low ELSE d.parent[k]
    BY <1>20 DEF HungOn
  <2>6. QED
    BY <1>c, <2>1, <2>2, <2>3, <2>4, <2>5
<1>27. ASSUME NEW k \in Keys, NEW y \in Side
       PROVE  u.child[k][y] = IF k = low /\ y = x THEN mid
                              ELSE IF k = low /\ y = Other(x) THEN high
                              ELSE IF k = mid /\ y = Other(x) THEN lx
                              ELSE IF k = high /\ y = x THEN lo
                              ELSE IF k = t.parent[high] /\ y = ParentSide(t, high) THEN low
                              ELSE t.child[k][y]
  <2>1. a.child[k][y] = IF k = t.parent[high] /\ y = ParentSide(t, high) THEN low ELSE t.child[k][y]
    BY <1>16 DEF LiftedTo
  <2>2. b.child[k][y] = IF k = high /\ y = x THEN lo ELSE a.child[k][y]
    BY <1>17 DEF HungOn
  <2>3. c.child[k][y] = IF k = mid /\ y = Other(x) THEN lx ELSE b.child[k][y]
    BY <1>18 DEF HungOn
  <2>4. d.child[k][y] = IF k = low /\ y = Other(x) THEN high ELSE c.child[k][y]
    BY <1>19 DEF HungOn
  <2>5. e.child[k][y] = IF k = low /\ y = x THEN mid ELSE d.child[k][y]
    BY <1>20 DEF HungOn
  <2>6. QED
    BY <1>c, <2>1, <2>2, <2>3, <2>4, <2>5
<1>28. TurnedTwice(t, high, x, mid, low, u)
  BY <1>24, <1>26, <1>27 DEF TurnedTwice, lx, lo
<1>29. QED
  BY <1>14, <1>23, <1>24, <1>25, <1>28 DEF BalancedTwice

ChildrenTwice(t, high, x, mid, low, u) ==
  /\ high # mid /\ mid # low /\ low # high
  /\ \A c \in {t.child[low][x], t.child[low][Other(x)], t.child[high][Other(x)], t.child[mid][x]} :
       c \notin {high, mid, low}
  /\ u.child[high][x] = t.child[low][Other(x)] /\ u.child[high][Other(x)] = t.child[high][Other(x)]
  /\ u.child[mid][x] = t.child[mid][x] /\ u.child[mid][Other(x)] = t.child[low][x]
  /\ u.child[low][x] = mid /\ u.child[low][Other(x)] = high
  /\ Replaced(t, high, {high, mid, low}, low, u)

LEMMA DoubleShape ==
  ASSUME NEW O, NEW t \in Trees(O), NEW D, SearchTree(t, D),
         NEW high \in Keys, NEW x \in Side, NEW mid \in Keys, IsChild(t, high, x, mid),
         NEW low \in Keys, IsChild(t, mid, Other(x), low),
         NEW u \in Trees(O), TurnedTwice(t, high, x, mid, low, u)
  PROVE  /\ \E E : SearchTree(u, E) /\ E[u.root] = D[t.root] /\ E[low] = D[high]
         /\ ChildrenTwice(t, high, x, mid, low, u)
<1> USE DEF IsChild
<1> DEFINE lx == t.child[low][x]
           lo == t.child[low][Other(x)]
           g == t.parent[high]
<1>1. /\ Other(x) \in Side /\ Other(x) # x /\ Other(Other(x)) = x
      /\ \A y \in Side : y = x \/ y = Other(x)
  BY Sides
<1>2. /\ lx \in Node /\ lo \in Node /\ g \in Node /\ mid \in Node
      /\ high # Null /\ mid # Null /\ low # Null
  BY <1>1, KeysAssumption DEF Trees, Node
<1>3. /\ mid # high /\ t.parent[mid] = high /\ ParentSide(t, mid) = x
      /\ high \in D[high] /\ high \notin D[mid] /\ \A k \in D[mid] : k \in D[high]
  BY Family
<1>4. /\ low # mid /\ t.parent[low] = mid /\ low \in D[mid] /\ mid \notin D[low]
      /\ \A k \in D[low] : k \in D[mid]
  BY <1>1, Family
<1>5. lx \in Keys => lx # low /\ lx # lo /\ t.parent[lx] = low /\ lx \in D[low]
  <2>1. SUFFICES ASSUME NEW k \in Keys, k = t.child[low][x]
                 PROVE  /\ k # low /\ k # t.child[low][Other(x)] /\ t.parent[k] = low
                        /\ k \in D[low]
    OBVIOUS
  <2> HIDE DEF IsChild
  <2>2. QED
    BY <2>1, Family
<1>6. lo \in Keys => lo # low /\ t.parent[lo] = low /\ lo \in D[low]
  <2>1. SUFFICES ASSUME NEW y \in Side, NEW k \in Keys, k = t.child[low][y]
                 PROVE  k # low /\ t.parent[k] = low /\ k \in D[low]
    BY <1>1
  <2> HIDE DEF IsChild
  <2>2. QED
    BY <2>1, Family
<1>7. g \in Keys => g # high /\ g \notin D[high]
  <2>1. SUFFICES ASSUME g \in Keys PROVE g # high /\ g \notin D[high]
    OBVIOUS
  <2>2. PICK y \in Side : t.child[g][y] = high
    BY <2>1 DEF SearchTree, Links
  <2>3. QED
    BY <2>1, <2>2, Family
<1>8. /\ low # high /\ g # high /\ g # mid /\ g # low
      /\ lx # high /\ lx # mid /\ lx # low /\ lo # high /\ lo # mid /\ lo # low
      /\ low \in D[high] /\ mid \in D[high]
  <2>1. low \in D[high] /\ mid \in D[high] /\ low # high
    <3>1. low \in D[high] /\ high \notin D[mid] /\ low \in D[mid]
      BY <1>3, <1>4, Zenon
    <3>2. mid \in D[high]
      <4>1. mid \in D[mid]
        BY Family
      <4>2. QED
        BY <1>3, <4>1, Zenon
    <3>3. QED
      BY <3>1, <3>2
  <2>2. g # high /\ g # mid /\ g # low
    BY <1>7, <2>1
  <2>3. lx # low /\ lx # mid
    BY <1>2, <1>4, <1>5 DEF Node
  <2>4. lx # high
    BY <1>2, <1>3, <1>4, <1>5 DEF Node
  <2>5. lo # low /\ lo # mid
    BY <1>2, <1>4, <1>6 DEF Node
  <2>6. lo # high
    BY <1>2, <1>3, <1>4, <1>6 DEF Node
  <2>7. QED
    BY <2>1, <2>2, <2>3, <2>4, <2>5, <2>6
<1> HIDE DEF lx, lo, g
<1>9. PICK a : a = Lifted(t, mid, low)
  OBVIOUS
<1>10. PICK b : b = Hung(a, mid, Other(x), lx)
  OBVIOUS
<1>11. PICK c : c = Hung(b, low, x, mid)
  OBVIOUS
<1>12. a \in Trees(O) /\ LiftedTo(t, mid, low, a)
  BY <1>9, LiftedFields
<1>13. b \in Trees(O) /\ HungOn(a, mid, Other(x), lx, b)
  BY <1>1, <1>2, <1>10, <1>12, HungFields
<1>14. c \in Trees(O) /\ HungOn(b, low, x, mid, c)
  BY <1>2, <1>11, <1>13, HungFields
<1>15. c.root = t.root
  BY <1>2, <1>3, <1>12, <1>13, <1>14 DEF LiftedTo, HungOn
<1>16. ASSUME NEW k \in Keys
       PROVE  c.parent[k] = IF k = mid THEN low ELSE IF k = lx THEN mid
                            ELSE IF k = low THEN high ELSE t.parent[k]
  BY <1>3, <1>12, <1>13, <1>14 DEF LiftedTo, HungOn
<1>17. ASSUME NEW k \in Keys, NEW y \in Side
       PROVE  c.child[k][y] = IF k = low /\ y = x THEN mid
                              ELSE IF k = mid /\ y = Other(x) THEN lx
                              ELSE IF k = high /\ y = x THEN low ELSE t.child[k][y]
  BY <1>3, <1>12, <1>13, <1>14 DEF LiftedTo, HungOn
<1>18. TurnedOnce(t, mid, Other(x), low, lx, c)
  BY <1>1, <1>2, <1>3, <1>15, <1>16, <1>17 DEF TurnedOnce
<1>19. PICK E1 : E1 = BelowTurned(t, D, mid, Other(x), low, lx)
  OBVIOUS
<1>20. SearchTree(c, E1) /\ E1[c.root] = D[t.root] /\ ChildrenOnce(t, mid, Other(x), low, lx, c)
  <2>1. PICK z : z = Other(x)
    OBVIOUS
  <2>2. z \in Side /\ IsChild(t, mid, z, low) /\ IsChild(t, low, Other(z), lx)
    BY <1>1, <2>1 DEF lx
  <2>3. TurnedOnce(t, mid, z, low, lx, c) /\ E1 = BelowTurned(t, D, mid, z, low, lx)
    BY <1>18, <1>19, <2>1
  <2>4. c \in Trees(O) /\ lx \in Node
    BY <1>2, <1>14
  <2> HIDE DEF IsChild
  <2>5. QED
    BY <2>1, <2>2, <2>3, <2>4, SingleShape
<1>21. E1[high] = D[high]
  BY <1>2, <1>3, <1>8, <1>19 DEF BelowTurned, SearchTree, Subtrees, Node
<1>22. c.parent[high] = g
  <2>1. c.parent[high] = IF high = mid THEN low ELSE IF high = lx THEN mid
                         ELSE IF high = low THEN high ELSE t.parent[high]
    BY <1>16
  <2>2. QED
    BY <1>3, <1>8, <2>1 DEF g
<1>23. g \in Keys => ParentSide(c, high) = ParentSide(t, high)
  BY <1>8, <1>17, <1>22 DEF ParentSide, g, Side
<1>24. c.child[high][x] = low /\ c.child[low][Other(x)] = lo
  BY <1>1, <1>8, <1>17 DEF lo
<1>25. TurnedOnce(c, high, x, low, lo, u)
  <2>1. u.root = IF c.parent[high] = Null THEN low ELSE c.root
    BY <1>15, <1>22 DEF TurnedTwice, g
  <2>2. ASSUME NEW k \in Keys
        PROVE  u.parent[k] = IF k = high THEN low ELSE IF k = lo THEN high
                             ELSE IF k = low THEN c.parent[high] ELSE c.parent[k]
    <3>1. u.parent[k] = IF k = mid THEN low ELSE IF k = high THEN low
                        ELSE IF k = lx THEN mid ELSE IF k = lo THEN high
                        ELSE IF k = low THEN g ELSE t.parent[k]
      BY DEF TurnedTwice, lx, lo, g
    <3>2. c.parent[k] = IF k = mid THEN low ELSE IF k = lx THEN mid
                        ELSE IF k = low THEN high ELSE t.parent[k]
      BY <1>16
    <3>3. lx # lo \/ lx = Null
      BY <1>2, <1>5 DEF Node
    <3>4. QED
      BY <1>2, <1>3, <1>4, <1>8, <1>22, <3>1, <3>2, <3>3, KeysAssumption
  <2>3. ASSUME NEW k \in Keys, NEW y \in Side
        PROVE  u.child[k][y] = IF k = low /\ y = Other(x) THEN high
                               ELSE IF k = high /\ y = x THEN lo
                               ELSE IF k = c.parent[high] /\ y = ParentSide(c, high) THEN low
                               ELSE c.child[k][y]
    <3>1. u.child[k][y] = IF k = low /\ y = x THEN mid
                          ELSE IF k = low /\ y = Other(x) THEN high
                          ELSE IF k = mid /\ y = Other(x) THEN lx
                          ELSE IF k = high /\ y = x THEN lo
                          ELSE IF k = g /\ y = ParentSide(t, high) THEN low
                          ELSE t.child[k][y]
      BY DEF TurnedTwice, lx, lo, g
    <3>2. QED
      BY <1>1, <1>8, <1>17, <1>22, <1>23, <3>1
  <2>4. QED
    BY <2>1, <2>2, <2>3 DEF TurnedOnce
<1>26. PICK E : E = BelowTurned(c, E1, high, x, low, lo)
  OBVIOUS
<1>27. SearchTree(u, E) /\ E[u.root] = E1[c.root] /\ ChildrenOnce(c, high, x, low, lo, u)
  <2>1. IsChild(c, high, x, low) /\ IsChild(c, low, Other(x), lo)
    BY <1>24
  <2> HIDE DEF IsChild
  <2>2. QED
    BY <1>2, <1>14, <1>20, <1>25, <1>26, <2>1, SingleShape
<1>28. E[low] = E1[high]
  BY <1>8, <1>20, <1>26 DEF BelowTurned, SearchTree, Subtrees, Node
<1>29. ChildrenTwice(t, high, x, mid, low, u)
  <2>1. /\ lx \notin {mid, low} /\ t.child[mid][x] \notin {mid, low}
        /\ c.child[mid][Other(x)] = lx /\ c.child[mid][x] = t.child[mid][x]
        /\ c.child[low][x] = mid
        /\ Replaced(t, mid, {mid, low}, low, c)
    BY <1>1, <1>20 DEF ChildrenOnce
  <2>2. /\ lo \notin {high, low} /\ c.child[high][Other(x)] \notin {high, low}
        /\ u.child[high][x] = lo /\ u.child[high][Other(x)] = c.child[high][Other(x)]
        /\ u.child[low][x] = c.child[low][x] /\ u.child[low][Other(x)] = high
        /\ Replaced(c, high, {high, low}, low, u)
    BY <1>27 DEF ChildrenOnce
  <2>3. /\ c.child[high][Other(x)] = t.child[high][Other(x)]
        /\ t.child[high][Other(x)] \notin {high, low, mid}
    <3>1. t.child[high][Other(x)] # mid /\ t.child[high][Other(x)] # low
      <4>1. t.child[high][Other(x)] # mid
        BY Family
      <4>2. t.child[high][Other(x)] = low => t.parent[low] = high
        BY <1>1 DEF SearchTree, Links
      <4>3. QED
        BY <1>3, <1>4, <4>1, <4>2
    <3>2. c.child[high][Other(x)] = t.child[high][Other(x)]
      BY <1>1, <1>8, <1>3, <2>1, <3>1 DEF Replaced
    <3>3. QED
      BY <2>2, <3>1, <3>2
  <2>4. t.child[mid][x] # high
    <3>1. \A n \in Keys : t.child[n][x] \in Keys => t.parent[t.child[n][x]] = n
      BY DEF SearchTree, Links
    <3>2. ASSUME t.child[mid][x] = high PROVE FALSE
      <4>1. t.parent[high] = mid
        BY <3>1, <3>2, Zenon
      <4>2. QED
        BY <1>8, <4>1, Zenon DEF g
    <3>3. QED
      BY <3>2
  <2>5. /\ u.child[mid][x] = t.child[mid][x] /\ u.child[mid][Other(x)] = lx
    <3>1. mid \in Keys \ {high, low}
      BY <1>3, <1>4
    <3>2. \A y \in Side : u.child[mid][y] = IF c.child[mid][y] = high THEN low ELSE c.child[mid][y]
      BY <2>2, <3>1 DEF Replaced
    <3>3. c.child[mid][x] # high /\ c.child[mid][Other(x)] # high
      BY <1>8, <2>1, <2>4
    <3>4. QED
      BY <1>1, <2>1, <3>2, <3>3
  <2>6. ASSUME NEW k \in Keys \ {high, mid, low}, NEW y \in Side
        PROVE  /\ u.child[k][y] = IF t.child[k][y] = high THEN low ELSE t.child[k][y]
               /\ t.child[k][y] \in {high, mid, low} => t.child[k][y] = high
    <3>1. t.child[k][y] # mid /\ t.child[k][y] # low
      <4>1. t.child[k][y] \in Keys => t.parent[t.child[k][y]] = k
        BY DEF SearchTree, Links
      <4>2. QED
        BY <1>3, <1>4, <2>6, <4>1
    <3>2. c.child[k][y] = t.child[k][y]
      <4>1. k \in Keys \ {mid, low}
        BY <2>6
      <4>2. c.child[k][y] = IF t.child[k][y] = mid THEN low ELSE t.child[k][y]
        BY <2>1, <4>1, Zenon DEF Replaced
      <4>3. QED
        BY <3>1, <4>2
    <3>3. u.child[k][y] = IF c.child[k][y] = high THEN low ELSE c.child[k][y]
      <4>1. k \in Keys \ {high, low}
        BY <2>6
      <4>2. QED
        BY <2>2, <4>1 DEF Replaced
    <3>4. QED
      BY <3>1, <3>2, <3>3
  <2>7. Replaced(t, high, {high, mid, low}, low, u)
    BY <2>6 DEF Replaced
  <2>8. QED
    BY <1>3, <1>4, <1>8, <2>1, <2>2, <2>3, <2>4, <2>5, <2>7 DEF ChildrenTwice, lx, lo
<1>30. QED
  BY <1>20, <1>21, <1>27, <1>28, <1>29

(***************************************************************************)
(* Heights.  While a climb lasts, the balances above node "top" do not know  *)
(* yet that it has grown by one.                                            *)
(***************************************************************************)
Taller(a, b) == IF a > b THEN a ELSE b
Seen(h, top, c) == IF c = top /\ c # Null THEN h[c] - 1 ELSE h[c]
LevelOn(t, h, top, n, x) ==
  LET a == Seen(h, top, t.child[n][x])
      b == Seen(h, top, t.child[n][Other(x)])
  IN /\ h[n] = 1 + Taller(a, b)
     /\ Sign(x) * t.balance[n] = a - b
     /\ a - b <= 1 /\ b - a <= 1
Heights(t, h, top) ==
  /\ h \in [Node -> Nat] /\ h[Null] = 0
  /\ \A n \in Keys, x \in Side : LevelOn(t, h, top, n, x)

LEMMA Signs ==
  ASSUME NEW x \in Side, NEW v \in Int
  PROVE  /\ Sign(x) * (Sign(x) * v) = v /\ Sign(x) * (- v) = - (Sign(x) * v)
         /\ Sign(Other(x)) * v = - (Sign(x) * v) /\ Sign(x) * v \in Int
         /\ v = Sign(x) \/ v = - Sign(x) <=> v = 1 \/ v = -1
<1>1. CASE x = "left"
  BY <1>1 DEF Sign, Other
<1>2. CASE x = "right"
  BY <1>2 DEF Sign, Other
<1>3. QED
  BY <1>1, <1>2 DEF Side

LEMMA LevelSides ==
  ASSUME NEW O, NEW t \in Trees(O), NEW h \in [Node -> Nat], NEW top \in Node,
         NEW n \in Keys, NEW x \in Side, LevelOn(t, h, top, n, x)
  PROVE  \A y \in Side : LevelOn(t, h, top, n, y)
<1>1. SUFFICES LevelOn(t, h, top, n, Other(x))
  BY Sides
<1>2. PICK a : a = Seen(h, top, t.child[n][x])
  OBVIOUS
<1>3. PICK b : b = Seen(h, top, t.child[n][Other(x)])
  OBVIOUS
<1>4. a \in Int /\ b \in Int
  <2>1. t.child[n][x] \in Node /\ t.child[n][Other(x)] \in Node
    BY Sides DEF Trees
  <2>2. QED
    BY <1>2, <1>3, <2>1 DEF Seen
<1>5. /\ h[n] = 1 + Taller(a, b) /\ Sign(x) * t.balance[n] = a - b /\ a - b <= 1 /\ b - a <= 1
  BY <1>2, <1>3 DEF LevelOn
<1>6. Sign(Other(x)) * t.balance[n] = b - a
  <2>1. t.balance[n] \in Int
    BY DEF Trees
  <2>2. QED
    BY <1>4, <1>5, <2>1, Signs
<1>7. Taller(a, b) = Taller(b, a)
  BY <1>4 DEF Taller
<1>8. QED
  BY <1>2, <1>3, <1>5, <1>6, <1>7, Sides DEF LevelOn

LEMMA MaxOfTwo ==
  ASSUME NEW a \in Int, NEW b \in Int
  PROVE  Max({a, b}) = Taller(a, b)
<1>1. CASE a > b
  <2>1. \A m \in {a, b} : (\A y \in {a, b} : m >= y) <=> m = a
    BY <1>1
  <2>2. QED
    BY <1>1, <2>1 DEF Max, Taller
<1>2. CASE ~ (a > b)
  <2>1. \A m \in {a, b} : (\A y \in {a, b} : m >= y) <=> m = b
    BY <1>2
  <2>2. QED
    BY <1>2, <2>1 DEF Max, Taller
<1>3. QED
  BY <1>1, <1>2

LEMMA MinOfTwo ==
  ASSUME NEW a \in Int, NEW b \in Int
  PROVE  Min({a, b}) = IF a < b THEN a ELSE b
<1>1. CASE a < b
  <2>1. \A m \in {a, b} : (\A y \in {a, b} : m <= y) <=> m = a
    BY <1>1
  <2>2. QED
    BY <1>1, <2>1 DEF Min
<1>2. CASE ~ (a < b)
  <2>1. \A m \in {a, b} : (\A y \in {a, b} : m <= y) <=> m = b
    BY <1>2
  <2>2. QED
    BY <1>2, <2>1 DEF Min
<1>3. QED
  BY <1>1, <1>2

\* The balances of the nodes that turn.
Rebalanced(t, turned, u) == \A k \in Keys \ turned : u.balance[k] = t.balance[k]

\* A node outside of the rotation sees the same height in the place of "high".
LEMMA LevelOutside ==
  ASSUME NEW O, NEW t \in Trees(O), NEW u \in Trees(O), NEW turned \in SUBSET Keys,
         NEW high \in Keys, NEW mid \in Keys, high \in turned, mid \in turned,
         Replaced(t, high, turned, mid, u), Rebalanced(t, turned, u),
         NEW h \in [Node -> Nat], NEW e \in [Node -> Nat], NEW top \in {Null, mid},
         \A k \in Node \ turned : e[k] = h[k], Seen(e, top, mid) = h[high],
         NEW k \in Keys \ turned, NEW x \in Side, LevelOn(t, h, Null, k, x)
  PROVE  LevelOn(u, e, top, k, x)
<1>1. ASSUME NEW y \in Side
      PROVE  Seen(e, top, u.child[k][y]) = Seen(h, Null, t.child[k][y])
  <2>1. /\ u.child[k][y] = IF t.child[k][y] = high THEN mid ELSE t.child[k][y]
        /\ t.child[k][y] \in turned => t.child[k][y] = high
    BY DEF Replaced
  <2>2. CASE t.child[k][y] = high
    BY <2>1, <2>2 DEF Seen
  <2>3. CASE t.child[k][y] # high
    <3>1. t.child[k][y] \in Node \ turned /\ u.child[k][y] = t.child[k][y]
      BY <2>1, <2>3 DEF Trees
    <3>2. t.child[k][y] # mid
      BY <3>1
    <3>3. QED
      BY <3>1, <3>2 DEF Seen
  <2>4. QED
    BY <2>2, <2>3
<1>2. e[k] = h[k] /\ u.balance[k] = t.balance[k]
  BY DEF Rebalanced, Node
<1>3. Other(x) \in Side
  BY Sides
<1>4. QED
  BY <1>1, <1>2, <1>3 DEF LevelOn

\* The heights after a single rotation; b is the balance of the child that turns.
LEMMA SingleHeights ==
  ASSUME NEW O, NEW t \in Trees(O), NEW u \in Trees(O), NEW x \in Side,
         NEW high \in Keys, NEW mid \in Keys, IsChild(t, high, x, mid),
         NEW inner \in Node, IsChild(t, mid, Other(x), inner),
         ChildrenOnce(t, high, x, mid, inner, u), Rebalanced(t, {high, mid}, u),
         NEW h \in [Node -> Nat], h[Null] = 0,
         \A k \in Keys \ {high} : LevelOn(t, h, Null, k, x),
         h[high] = h[mid], h[t.child[high][Other(x)]] = h[mid] - 2,
         NEW b \in {0, 1}, Sign(x) * t.balance[mid] = b,
         u.balance[mid] = Sign(x) * (b - 1), u.balance[high] = Sign(x) * (1 - b)
  PROVE  \E e : Heights(u, e, IF b = 1 THEN Null ELSE mid)
<1> DEFINE far == t.child[high][Other(x)]
           outer == t.child[mid][x]
           top == IF b = 1 THEN Null ELSE mid
           e == [h EXCEPT ![high] = h[mid] - b, ![mid] = h[mid] + 1 - b]
<1>1. /\ high # mid /\ inner \notin {high, mid} /\ far \notin {high, mid} /\ outer \notin {high, mid}
      /\ u.child[high][x] = inner /\ u.child[high][Other(x)] = far
      /\ u.child[mid][x] = outer /\ u.child[mid][Other(x)] = high
      /\ Replaced(t, high, {high, mid}, mid, u)
  BY DEF ChildrenOnce
<1>2. far \in Node /\ outer \in Node /\ top \in {Null, mid} /\ top \in Node
  BY Sides DEF Trees, Node
<1>3. mid # Null /\ high # Null
  BY KeysAssumption
<1>4. /\ h[mid] \in Nat /\ h[mid] >= 2 /\ h[outer] = h[mid] - 1 /\ h[inner] = h[mid] - 1 - b
      /\ h[far] = h[mid] - 2
  <2>1. h[far] \in Nat /\ h[mid] \in Nat /\ h[outer] \in Nat /\ h[inner] \in Nat
    BY <1>2 DEF Node
  <2>2. LevelOn(t, h, Null, mid, x)
    BY <1>1
  <2>3. Seen(h, Null, outer) = h[outer] /\ Seen(h, Null, inner) = h[inner]
    BY DEF Seen
  <2>4. h[mid] = 1 + Taller(h[outer], h[inner]) /\ b = h[outer] - h[inner]
    BY <2>2, <2>3 DEF LevelOn, IsChild
  <2>6. h[far] = h[mid] - 2
    OBVIOUS
  <2> HIDE DEF far, outer
  <2>7. PICK n \in Nat, i \in Nat, j \in Nat, f \in Nat :
          n = h[mid] /\ i = h[outer] /\ j = h[inner] /\ f = h[far]
    BY <2>1
  <2>8. n = 1 + Taller(i, j) /\ b = i - j /\ f = n - 2
    BY <2>4, <2>6, <2>7
  <2>9. n >= 2 /\ i = n - 1 /\ j = n - 1 - b
    BY <2>8 DEF Taller
  <2>5. QED
    BY <2>7, <2>8, <2>9
<1>5. /\ e \in [Node -> Nat] /\ e[high] = h[mid] - b /\ e[mid] = h[mid] + 1 - b
      /\ \A k \in Node \ {high, mid} : e[k] = h[k]
  BY <1>1, <1>4 DEF Node
<1>6. e[Null] = 0
  BY <1>3, <1>5 DEF Node
<1>7. Seen(e, top, mid) = h[high]
  BY <1>3, <1>4, <1>5 DEF Seen
<1> HIDE DEF e, top
<1>8. e[inner] = h[mid] - 1 - b /\ e[far] = h[mid] - 2 /\ e[outer] = h[mid] - 1
  BY <1>1, <1>2, <1>4, <1>5
<1>9. /\ Seen(e, top, inner) = h[mid] - 1 - b /\ Seen(e, top, far) = h[mid] - 2
      /\ Seen(e, top, outer) = h[mid] - 1 /\ Seen(e, top, high) = h[mid] - b
  BY <1>1, <1>2, <1>3, <1>5, <1>8 DEF Seen
<1>10. LevelOn(u, e, top, high, x)
  <2>1. Sign(x) * u.balance[high] = 1 - b
    BY Signs
  <2>2. Taller(h[mid] - 1 - b, h[mid] - 2) = h[mid] - b - 1
    BY <1>4 DEF Taller
  <2>3. QED
    <3>1. h[mid] - b = 1 + (h[mid] - b - 1) /\ h[mid] - 1 - b - (h[mid] - 2) = 1 - b
      BY <1>4
    <3>2. h[mid] - 2 - (h[mid] - 1 - b) = b - 1
      BY <1>4
    <3>3. 1 - b <= 1 /\ b - 1 <= 1
      OBVIOUS
    <3> HIDE DEF far
    <3>4. QED
      BY <1>1, <1>5, <1>9, <2>1, <2>2, <3>1, <3>2, <3>3 DEF LevelOn
<1>11. LevelOn(u, e, top, mid, x)
  <2>1. Sign(x) * u.balance[mid] = b - 1
    BY Signs
  <2>2. Taller(h[mid] - 1, h[mid] - b) = h[mid] - b
    BY <1>4 DEF Taller
  <2>3. QED
    BY <1>1, <1>4, <1>5, <1>9, <2>1, <2>2 DEF LevelOn
<1>12. ASSUME NEW k \in Keys \ {high, mid} PROVE LevelOn(u, e, top, k, x)
  <2>1. PICK turned \in SUBSET Keys : turned = {high, mid}
    OBVIOUS
  <2>2. LevelOn(t, h, Null, k, x) /\ k \in Keys \ turned /\ high \in turned /\ mid \in turned
    BY <1>12, <2>1
  <2>3. Replaced(t, high, turned, mid, u) /\ Rebalanced(t, turned, u) /\ \A n \in Node \ turned : e[n] = h[n]
    BY <1>1, <1>5, <2>1
  <2>4. QED
    BY <1>2, <1>5, <1>7, <2>2, <2>3, LevelOutside
<1>13. \A k \in Keys : LevelOn(u, e, top, k, x)
  BY <1>10, <1>11, <1>12
<1>14. \A k \in Keys, y \in Side : LevelOn(u, e, top, k, y)
  BY <1>2, <1>5, <1>13, LevelSides
<1>15. Heights(u, e, top)
  BY <1>5, <1>6, <1>14 DEF Heights
<1>16. QED
  BY <1>15 DEF top

\* The heights after a double rotation: the old height is back.
LEMMA DoubleHeights ==
  ASSUME NEW O, NEW t \in Trees(O), NEW u \in Trees(O), NEW x \in Side,
         NEW high \in Keys, NEW mid \in Keys, IsChild(t, high, x, mid),
         NEW low \in Keys, IsChild(t, mid, Other(x), low),
         ChildrenTwice(t, high, x, mid, low, u), Rebalanced(t, {high, mid, low}, u),
         NEW h \in [Node -> Nat], h[Null] = 0,
         \A k \in Keys \ {high} : LevelOn(t, h, Null, k, x),
         h[high] = h[mid], h[t.child[high][Other(x)]] = h[mid] - 2,
         Sign(x) * t.balance[mid] = -1,
         NEW l \in Int, l = Sign(x) * t.balance[low], u.balance[low] = 0,
         u.balance[mid] = Sign(x) * (IF l < 0 THEN - l ELSE 0),
         u.balance[high] = Sign(x) * (IF l > 0 THEN - l ELSE 0)
  PROVE  \E e : Heights(u, e, Null)
<1> DEFINE far == t.child[high][Other(x)]
           outer == t.child[mid][x]
           lx == t.child[low][x]
           lo == t.child[low][Other(x)]
           e == [h EXCEPT ![high] = h[mid] - 1, ![mid] = h[mid] - 1, ![low] = h[mid]]
<1>1. /\ high # mid /\ mid # low /\ low # high
      /\ \A c \in {lx, lo, far, outer} : c \notin {high, mid, low}
      /\ u.child[high][x] = lo /\ u.child[high][Other(x)] = far
      /\ u.child[mid][x] = outer /\ u.child[mid][Other(x)] = lx
      /\ u.child[low][x] = mid /\ u.child[low][Other(x)] = high
      /\ Replaced(t, high, {high, mid, low}, low, u)
  BY DEF ChildrenTwice
<1>2. far \in Node /\ outer \in Node /\ lx \in Node /\ lo \in Node /\ Null \in Node
  BY Sides DEF Trees, Node
<1>3. mid # Null /\ high # Null /\ low # Null
  BY KeysAssumption
<1>4. /\ h[mid] \in Nat /\ h[mid] >= 2 /\ h[outer] = h[mid] - 2 /\ h[low] = h[mid] - 1
      /\ h[far] = h[mid] - 2
      /\ h[lx] = IF l < 0 THEN h[mid] - 3 ELSE h[mid] - 2
      /\ h[lo] = IF l > 0 THEN h[mid] - 3 ELSE h[mid] - 2
      /\ l \in {-1, 0, 1}
  <2>1. h[far] \in Nat /\ h[mid] \in Nat /\ h[outer] \in Nat /\ h[low] \in Nat /\ h[lx] \in Nat /\ h[lo] \in Nat
    BY <1>2 DEF Node
  <2>2. LevelOn(t, h, Null, mid, x) /\ LevelOn(t, h, Null, low, x)
    BY <1>1
  <2>3. \A k \in Node : Seen(h, Null, k) = h[k]
    BY DEF Seen
  <2>4. h[mid] = 1 + Taller(h[outer], h[low]) /\ -1 = h[outer] - h[low]
    BY <1>2, <2>2, <2>3 DEF LevelOn, IsChild, Node
  <2>5. /\ h[low] = 1 + Taller(h[lx], h[lo]) /\ l = h[lx] - h[lo]
        /\ h[lx] - h[lo] <= 1 /\ h[lo] - h[lx] <= 1
    BY <1>2, <2>2, <2>3 DEF LevelOn
  <2>6. h[far] = h[mid] - 2
    OBVIOUS
  <2> HIDE DEF far, outer, lx, lo
  <2>7. PICK n \in Nat, o \in Nat, w \in Nat, f \in Nat, i \in Nat, j \in Nat :
          /\ n = h[mid] /\ o = h[outer] /\ w = h[low] /\ f = h[far]
          /\ i = h[lx] /\ j = h[lo]
    BY <2>1
  <2>8. /\ n = 1 + Taller(o, w) /\ -1 = o - w /\ f = n - 2
        /\ w = 1 + Taller(i, j) /\ l = i - j /\ i - j <= 1 /\ j - i <= 1
    BY <2>4, <2>5, <2>6, <2>7
  <2>9. /\ n >= 2 /\ o = n - 2 /\ w = n - 1
        /\ i = IF l < 0 THEN n - 3 ELSE n - 2
        /\ j = IF l > 0 THEN n - 3 ELSE n - 2
        /\ l \in {-1, 0, 1}
    BY <2>8 DEF Taller
  <2>10. QED
    BY <2>7, <2>8, <2>9
<1>5. /\ e \in [Node -> Nat] /\ e[high] = h[mid] - 1 /\ e[mid] = h[mid] - 1 /\ e[low] = h[mid]
      /\ \A k \in Node \ {high, mid, low} : e[k] = h[k]
  BY <1>1, <1>4 DEF Node
<1>6. e[Null] = 0
  BY <1>2, <1>3, <1>5
<1>7. Seen(e, Null, low) = h[high]
  BY <1>4, <1>5 DEF Seen
<1> HIDE DEF e
<1>8. e[lx] = h[lx] /\ e[lo] = h[lo] /\ e[far] = h[far] /\ e[outer] = h[outer]
  BY <1>1, <1>2, <1>5
<1>9. \A k \in Node : Seen(e, Null, k) = e[k]
  BY DEF Seen
<1>a. high \in Node /\ mid \in Node /\ low \in Node
  BY DEF Node
<1>10. LevelOn(u, e, Null, high, x)
  <2>1. Sign(x) * u.balance[high] = IF l > 0 THEN - l ELSE 0
    BY <1>4, Signs
  <2>2. /\ Taller(h[lo], h[far]) = h[mid] - 2
        /\ h[lo] - h[far] = IF l > 0 THEN - l ELSE 0
    BY <1>4 DEF Taller
  <2>3. Seen(e, Null, u.child[high][x]) = h[lo] /\ Seen(e, Null, u.child[high][Other(x)]) = h[far]
    BY <1>1, <1>2, <1>8, <1>9
  <2>4. QED
    BY <1>4, <1>5, <2>1, <2>2, <2>3 DEF LevelOn
<1>11. LevelOn(u, e, Null, mid, x)
  <2>1. Sign(x) * u.balance[mid] = IF l < 0 THEN - l ELSE 0
    BY <1>4, Signs
  <2>2. /\ Taller(h[outer], h[lx]) = h[mid] - 2
        /\ h[outer] - h[lx] = IF l < 0 THEN - l ELSE 0
    BY <1>4 DEF Taller
  <2>3. Seen(e, Null, u.child[mid][x]) = h[outer] /\ Seen(e, Null, u.child[mid][Other(x)]) = h[lx]
    BY <1>1, <1>2, <1>8, <1>9
  <2>4. QED
    BY <1>4, <1>5, <2>1, <2>2, <2>3 DEF LevelOn
<1>12. LevelOn(u, e, Null, low, x)
  <2>1. Sign(x) * u.balance[low] = 0
    BY Signs
  <2>2. Taller(h[mid] - 1, h[mid] - 1) = h[mid] - 1
    BY DEF Taller
  <2>3. Seen(e, Null, u.child[low][x]) = h[mid] - 1 /\ Seen(e, Null, u.child[low][Other(x)]) = h[mid] - 1
    BY <1>1, <1>5, <1>9, <1>a
  <2>4. QED
    BY <1>4, <1>5, <2>1, <2>2, <2>3 DEF LevelOn
<1>13. ASSUME NEW k \in Keys \ {high, mid, low} PROVE LevelOn(u, e, Null, k, x)
  <2>1. PICK turned \in SUBSET Keys : turned = {high, mid, low}
    OBVIOUS
  <2>2. LevelOn(t, h, Null, k, x) /\ k \in Keys \ turned /\ high \in turned /\ low \in turned
    BY <1>13, <2>1
  <2>3. Replaced(t, high, turned, low, u) /\ Rebalanced(t, turned, u) /\ \A n \in Node \ turned : e[n] = h[n]
    BY <1>1, <1>5, <2>1
  <2>4. QED
    BY <1>5, <1>7, <2>2, <2>3, LevelOutside
<1>14. \A k \in Keys : LevelOn(u, e, Null, k, x)
  BY <1>10, <1>11, <1>12, <1>13
<1>15. \A k \in Keys, y \in Side : LevelOn(u, e, Null, k, y)
  BY <1>2, <1>5, <1>14, LevelSides
<1>16. QED
  BY <1>5, <1>6, <1>15 DEF Heights

\* A rotation in a climb: the tree keeps its keys, and "top" may still have grown.
Lifts(O, t, D, high, up, r) ==
  /\ r.tree \in Trees(O) /\ r = [tree |-> r.tree, top |-> up] /\ r.tree.obj = t.obj
  /\ \E E : SearchTree(r.tree, E) /\ E[r.tree.root] = D[t.root] /\ E[up] = D[high]
  /\ \E e : Heights(r.tree, e, IF r.tree.balance[up] = 0 THEN Null ELSE up)

LEMMA SingleLifts ==
  ASSUME NEW O, NEW t \in Trees(O), NEW D, SearchTree(t, D), NEW x \in Side,
         NEW high \in Keys, NEW mid \in Keys, IsChild(t, high, x, mid),
         NEW h \in [Node -> Nat], h[Null] = 0,
         \A k \in Keys \ {high} : LevelOn(t, h, Null, k, x),
         h[high] = h[mid], h[t.child[high][Other(x)]] = h[mid] - 2,
         Sign(x) * t.balance[high] = 2,
         NEW b \in {0, 1}, Sign(x) * t.balance[mid] = b,
         NEW r, r = Single(t, high, x)
  PROVE  Lifts(O, t, D, high, mid, r)
<1>1. PICK inner \in Node : inner = t.child[mid][Other(x)]
  BY Sides DEF Trees
<1>2. IsChild(t, mid, Other(x), inner) /\ mid = t.child[high][x]
  BY <1>1 DEF IsChild
<1>3. PICK i \in Int : i = 1 - b
  OBVIOUS
<1>4. i = Sign(x) * t.balance[high] - 1 - Max({Sign(x) * t.balance[mid], 0})
  <2>1. Max({b, 0}) = b
    BY MaxOfTwo DEF Taller
  <2>2. Max({Sign(x) * t.balance[mid], 0}) = b
    BY <2>1, Zenon
  <2>3. QED
    BY <1>3, <2>2
<1>5. PICK j \in Int : j = b - 1
  OBVIOUS
<1>6. j = Sign(x) * t.balance[mid] - 1 + Min({i, 0})
  <2>1. Min({i, 0}) = 0
    <3>1. i >= 0 /\ 0 \in Int
      BY <1>3
    <3>2. QED
      BY <3>1, MinOfTwo
  <2>2. QED
    BY <1>5, <2>1
<1>7. PICK u : u = r.tree
  OBVIOUS
<1>a. PICK left \in Int : left = Sign(x) * i
  BY Signs
<1>b. PICK right \in Int : right = Sign(x) * j
  BY Signs
<1>c. SingleWeights(t, high, x, mid, left, right)
  BY <1>4, <1>6, <1>a, <1>b, Zenon DEF SingleWeights
<1>8. /\ r = [tree |-> u, top |-> mid] /\ u \in Trees(O)
      /\ SingleLinks(t, high, x, mid, inner, left, right, u)
  BY <1>1, <1>2, <1>7, <1>c, SingleFields
<1>10. /\ TurnedOnce(t, high, x, mid, inner, u) /\ u.obj = t.obj
       /\ BalancedOnce(t, high, mid, left, right, u)
  BY <1>8, Turning
<1>11. PICK E : E = BelowTurned(t, D, high, x, mid, inner)
  OBVIOUS
<1>12. SearchTree(u, E) /\ E[u.root] = D[t.root] /\ ChildrenOnce(t, high, x, mid, inner, u)
  BY <1>2, <1>8, <1>10, <1>11, SingleShape
<1>13. E[mid] = D[high]
  BY <1>11 DEF BelowTurned, SearchTree, Subtrees, Node
<1>14. high # mid
  BY <1>12 DEF ChildrenOnce
<1>15. /\ u.balance[mid] = Sign(x) * (b - 1) /\ u.balance[high] = Sign(x) * (1 - b)
       /\ Rebalanced(t, {high, mid}, u)
  BY <1>3, <1>5, <1>a, <1>b, <1>10, <1>14 DEF Rebalanced, BalancedOnce
<1>16. u.balance[mid] = 0 <=> b = 1
  <2>1. b = 0 \/ b = 1
    OBVIOUS
  <2>2. QED
    BY <1>15, <2>1, Sides
<1>17. \E e : Heights(u, e, IF b = 1 THEN Null ELSE mid)
  BY <1>2, <1>8, <1>12, <1>15, SingleHeights
<1>18. QED
  BY <1>7, <1>8, <1>10, <1>12, <1>13, <1>16, <1>17 DEF Lifts

LEMMA DoubleLifts ==
  ASSUME NEW O, NEW t \in Trees(O), NEW D, SearchTree(t, D), NEW x \in Side,
         NEW high \in Keys, NEW mid \in Keys, IsChild(t, high, x, mid),
         NEW low \in Keys, IsChild(t, mid, Other(x), low),
         NEW h \in [Node -> Nat], h[Null] = 0,
         \A k \in Keys \ {high} : LevelOn(t, h, Null, k, x),
         h[high] = h[mid], h[t.child[high][Other(x)]] = h[mid] - 2,
         Sign(x) * t.balance[mid] = -1,
         NEW r, r = Double(t, high, x)
  PROVE  Lifts(O, t, D, high, low, r)
<1>1. mid = t.child[high][x] /\ low = t.child[mid][Other(x)]
  BY DEF IsChild
<1>2. PICK l \in Int : l = Sign(x) * t.balance[low]
  BY Signs DEF Trees
<1>3. PICK i \in Int : i = - Max({l, 0}) /\ i = IF l > 0 THEN - l ELSE 0
  BY MaxOfTwo DEF Taller
<1>4. PICK j \in Int : j = - Min({l, 0}) /\ j = IF l < 0 THEN - l ELSE 0
  BY MinOfTwo
<1>a. PICK left \in Int : left = Sign(x) * i
  BY Signs
<1>b. PICK right \in Int : right = Sign(x) * j
  BY Signs
<1>6. PICK u : u = r.tree
  OBVIOUS
<1>c. DoubleWeights(t, x, low, left, right)
  BY <1>2, <1>3, <1>4, <1>a, <1>b, Zenon DEF DoubleWeights
<1>7. /\ r = [tree |-> u, top |-> low] /\ u \in Trees(O) /\ u.obj = t.obj
      /\ TurnedTwice(t, high, x, mid, low, u)
      /\ BalancedTwice(t, high, mid, low, left, right, u)
  BY <1>1, <1>6, <1>c, DoubleFields
<1>8. /\ \E E : SearchTree(u, E) /\ E[u.root] = D[t.root] /\ E[low] = D[high]
      /\ ChildrenTwice(t, high, x, mid, low, u)
  BY <1>7, DoubleShape
<1>9. high # mid /\ mid # low /\ low # high
  BY <1>8 DEF ChildrenTwice
<1>10. /\ u.balance[low] = 0
       /\ u.balance[mid] = Sign(x) * (IF l < 0 THEN - l ELSE 0)
       /\ u.balance[high] = Sign(x) * (IF l > 0 THEN - l ELSE 0)
       /\ Rebalanced(t, {high, mid, low}, u)
  BY <1>3, <1>4, <1>a, <1>b, <1>7, <1>9 DEF Rebalanced, BalancedTwice
<1>11. \E e : Heights(u, e, Null)
  BY <1>2, <1>7, <1>8, <1>10, DoubleHeights
<1>12. QED
  BY <1>6, <1>7, <1>8, <1>10, <1>11 DEF Lifts

(***************************************************************************)
(* One round of the climb.                                                  *)
(***************************************************************************)
LEMMA WeighedShape ==
  ASSUME NEW t, NEW n, NEW v, NEW u, Weighed(t, n, v, u), NEW D, SearchTree(t, D)
  PROVE  SearchTree(u, D) /\ D[u.root] = D[t.root]
  BY DEF Weighed, SearchTree, Subtrees, Links

\* At a node that has "top" on side x below it.
LEMMA GrownUnder ==
  ASSUME NEW O, NEW t \in Trees(O), NEW n \in Keys, NEW p \in Keys, NEW x \in Side,
         IsChild(t, p, x, n), NEW D, SearchTree(t, D), NEW h, Heights(t, h, n)
  PROVE  /\ \A k \in Keys \ {p}, y \in Side : t.child[k][y] # n /\ LevelOn(t, h, Null, k, y)
         /\ LET f == h[t.child[p][Other(x)]]
            IN /\ h[p] = 1 + Taller(h[n] - 1, f) /\ Sign(x) * t.balance[p] = h[n] - 1 - f
               /\ h[n] - 1 - f <= 1 /\ f - h[n] + 1 <= 1
               /\ f \in Nat /\ h[n] \in Nat /\ h[p] \in Nat
         /\ t.child[p][Other(x)] # n
<1>1. t.parent[n] = p /\ n # p /\ n # t.child[p][Other(x)] /\ n # Null
  BY Family, KeysAssumption DEF IsChild
<1>2. ASSUME NEW k \in Keys \ {p}, NEW y \in Side PROVE t.child[k][y] # n
  BY <1>1, <1>2 DEF SearchTree, Links
<1>3. ASSUME NEW k \in Keys \ {p}, NEW y \in Side PROVE LevelOn(t, h, Null, k, y)
  <2>1. LevelOn(t, h, n, k, y)
    BY DEF Heights
  <2>2. \A z \in Side : Seen(h, n, t.child[k][z]) = Seen(h, Null, t.child[k][z])
    BY <1>2 DEF Seen
  <2>3. QED
    BY <2>1, <2>2, Sides DEF LevelOn
<1>4. LevelOn(t, h, n, p, x)
  BY DEF Heights
<1>5. /\ Seen(h, n, t.child[p][x]) = h[n] - 1
      /\ Seen(h, n, t.child[p][Other(x)]) = h[t.child[p][Other(x)]]
  BY <1>1 DEF Seen, IsChild
<1>6. h[t.child[p][Other(x)]] \in Nat /\ h[n] \in Nat /\ h[p] \in Nat
  BY Sides DEF Heights, Trees, Node
<1>7. PICK f \in Nat : f = h[t.child[p][Other(x)]]
  BY <1>6
<1>8. PICK m \in Nat : m = h[n]
  BY <1>6
<1>9. h[p] = 1 + Taller(m - 1, f) /\ Sign(x) * t.balance[p] = m - 1 - f /\ m - 1 - f <= 1 /\ f - (m - 1) <= 1
  BY <1>4, <1>5, <1>7, <1>8 DEF LevelOn
<1>10. f - m + 1 <= 1
  BY <1>9
<1>11. QED
  BY <1>1, <1>2, <1>3, <1>6, <1>7, <1>8, <1>9, <1>10

\* The balance at such a node makes up for the growth, or passes it on.
LEMMA GrowthEnds ==
  ASSUME NEW O, NEW t \in Trees(O), NEW n \in Keys, NEW p \in Keys, NEW x \in Side,
         IsChild(t, p, x, n), NEW D, SearchTree(t, D), NEW h, Heights(t, h, n),
         NEW u \in Trees(O), NEW v, Weighed(t, p, v, u), v = t.balance[p] + Sign(x), v = 0
  PROVE  Heights(u, h, Null)
<1> DEFINE f == h[t.child[p][Other(x)]]
<1>1. /\ h[p] = 1 + Taller(h[n] - 1, f) /\ Sign(x) * t.balance[p] = h[n] - 1 - f
      /\ f \in Nat /\ h[n] \in Nat
  BY GrownUnder
<1> HIDE DEF f
<1>2. Sign(x) * t.balance[p] = -1
  <2>1. t.balance[p] = - Sign(x)
    BY Sides DEF Trees
  <2>2. QED
    BY <2>1, Sides
<1>3. f = h[n] /\ h[p] = 1 + Taller(h[n], f)
  BY <1>1, <1>2 DEF Taller
<1>4. u.balance[p] = v /\ u.child = t.child /\ \A k \in Keys \ {p} : u.balance[k] = t.balance[k]
  BY DEF Weighed
<1>5. LevelOn(u, h, Null, p, x)
  <2>1. Seen(h, Null, t.child[p][x]) = h[n] /\ Seen(h, Null, t.child[p][Other(x)]) = f
    BY DEF Seen, IsChild, f
  <2>2. Sign(x) * u.balance[p] = 0
    BY <1>4, Sides
  <2>3. h[n] - f = 0 /\ f - h[n] = 0
    BY <1>1, <1>3
  <2>4. QED
    BY <1>3, <1>4, <2>1, <2>2, <2>3 DEF LevelOn
<1>6. /\ h \in [Node -> Nat] /\ h[Null] = 0 /\ Null \in Node
  BY DEF Heights, Node
<1>7. ASSUME NEW k \in Keys, NEW y \in Side PROVE LevelOn(u, h, Null, k, y)
  <2>1. CASE k = p
    BY <1>5, <1>6, <2>1, LevelSides
  <2>2. CASE k # p
    <3>1. LevelOn(t, h, Null, k, y)
      BY <2>2, GrownUnder
    <3>2. QED
      BY <1>4, <2>2, <3>1 DEF LevelOn
  <2>3. QED
    BY <2>1, <2>2
<1>8. QED
  BY <1>6, <1>7 DEF Heights

LEMMA GrowthPasses ==
  ASSUME NEW O, NEW t \in Trees(O), NEW n \in Keys, NEW p \in Keys, NEW x \in Side,
         IsChild(t, p, x, n), NEW D, SearchTree(t, D), NEW h, Heights(t, h, n),
         NEW u \in Trees(O), NEW v, Weighed(t, p, v, u), v = t.balance[p] + Sign(x),
         v = 1 \/ v = -1
  PROVE  \E e : Heights(u, e, p)
<1> DEFINE f == h[t.child[p][Other(x)]]
           e == [h EXCEPT ![p] = h[n] + 1]
<1>1. /\ h[p] = 1 + Taller(h[n] - 1, f) /\ Sign(x) * t.balance[p] = h[n] - 1 - f
      /\ h[n] - 1 - f <= 1 /\ f - h[n] + 1 <= 1
      /\ f \in Nat /\ h[n] \in Nat
  BY GrownUnder
<1>2. t.balance[p] = 0 /\ f = h[n] - 1 /\ Sign(x) * v = 1
  <2>1. PICK b \in Int : b = t.balance[p]
    BY DEF Trees
  <2>2. PICK i \in Nat : i = h[n]
    BY <1>1
  <2>3. PICK j \in Nat : j = f
    BY <1>1
  <2>4. Sign(x) * b = i - 1 - j /\ i - 1 - j <= 1 /\ j - i + 1 <= 1
    BY <1>1, <2>1, <2>2, <2>3
  <2>5. v = b + Sign(x) /\ (v = 1 \/ v = -1) /\ (Sign(x) = 1 \/ Sign(x) = -1)
    BY <2>1, Sides
  <2> HIDE DEF f
  <2>6. b = 0 /\ j = i - 1 /\ Sign(x) * v = 1
    <3>1. PICK s \in {1, -1} : s = Sign(x)
      BY <2>5
    <3>2. s * b = i - 1 - j /\ v = b + s
      BY <2>4, <2>5, <3>1
    <3>3. b = 0 /\ j = i - 1 /\ s * v = 1
      <4>1. CASE s = 1
        <5>1. v = b + 1 /\ b = i - 1 - j
          BY <3>2, <4>1
        <5>2. b = 0 /\ j = i - 1
          BY <2>4, <2>5, <5>1
        <5>3. QED
          BY <4>1, <5>1, <5>2
      <4>2. CASE s = -1
        <5>1. s * b = - b
          BY <4>2
        <5>2. v = b - 1 /\ - b = i - 1 - j
          BY <3>2, <4>2, <5>1
        <5>3. b = 0 /\ j = i - 1
          BY <2>4, <2>5, <5>2
        <5>4. v = -1
          BY <5>2, <5>3
        <5>5. QED
          BY <4>2, <5>3, <5>4
      <4>3. QED
        BY <4>1, <4>2
    <3>4. QED
      BY <3>1, <3>3
  <2>7. QED
    BY <2>1, <2>2, <2>3, <2>6
<1>3. h[p] = h[n]
  <2> HIDE DEF f
  <2>1. QED
    BY <1>1, <1>2 DEF Taller
<1>4. u.balance[p] = v /\ u.child = t.child /\ \A k \in Keys \ {p} : u.balance[k] = t.balance[k]
  BY DEF Weighed
<1>5. p # Null /\ n # p /\ t.child[p][Other(x)] # p /\ p \in Node
      /\ t.parent[n] = p /\ t.child[p][Other(x)] \in Node
  <2>1. n # p /\ t.parent[n] = p
    BY Family DEF IsChild
  <2>2. t.child[p][Other(x)] \in Keys => t.child[p][Other(x)] # p
    BY Sides, Family
  <2>3. QED
    BY <2>1, <2>2, KeysAssumption, Sides DEF Node, Trees
<1>6. /\ e \in [Node -> Nat] /\ e[Null] = 0 /\ e[p] = h[n] + 1
      /\ \A k \in Node \ {p} : e[k] = h[k]
  BY <1>1, <1>5 DEF Heights, Node
<1> HIDE DEF e
<1>7. LevelOn(u, e, p, p, x)
  <2>1. Seen(e, p, t.child[p][x]) = h[n] /\ Seen(e, p, t.child[p][Other(x)]) = f
    BY <1>5, <1>6 DEF Seen, IsChild, Node
  <2>2. Taller(h[n], f) = h[n] /\ h[n] - f = 1 /\ f - h[n] = -1
    <3> HIDE DEF f
    <3>1. QED
      BY <1>1, <1>2 DEF Taller
  <2>3. e[p] = 1 + h[n]
    BY <1>1, <1>6
  <2> HIDE DEF f
  <2>4. QED
    BY <1>2, <1>4, <2>1, <2>2, <2>3 DEF LevelOn
<1>8. ASSUME NEW k \in Keys, NEW y \in Side PROVE LevelOn(u, e, p, k, y)
  <2>1. CASE k = p
    BY <1>5, <1>6, <1>7, <2>1, LevelSides
  <2>2. CASE k # p
    <3>1. LevelOn(t, h, Null, k, y)
      BY <2>2, GrownUnder
    <3>2. ASSUME NEW z \in Side PROVE Seen(e, p, t.child[k][z]) = Seen(h, Null, t.child[k][z])
      <4>1. t.child[k][z] \in Node
        BY DEF Trees
      <4>2. CASE t.child[k][z] = p
        <5>1. h[n] \in Nat
          BY <1>1
        <5>2. QED
          BY <1>3, <1>5, <1>6, <4>2, <5>1 DEF Seen
      <4>3. CASE t.child[k][z] # p
        BY <1>6, <4>1, <4>3 DEF Seen
      <4>4. QED
        BY <4>2, <4>3
    <3>3. e[k] = h[k] /\ u.balance[k] = t.balance[k]
      BY <1>4, <1>6, <2>2 DEF Node
    <3>4. QED
      BY <1>4, <3>1, <3>2, <3>3, Sides DEF LevelOn
  <2>3. QED
    BY <2>1, <2>2
<1>9. QED
  BY <1>6, <1>8 DEF Heights

\* Where a climb is after i rounds: the keys R and the objects are those of the start,
\* and more than i of the keys are below "top".
Climbing(O, R, ob, c, i) ==
  /\ c = [tree |-> c.tree, top |-> c.top]
  /\ c.tree \in Trees(O) /\ c.top \in Node /\ c.tree.obj = ob
  /\ \E D, h : /\ SearchTree(c.tree, D) /\ Heights(c.tree, h, c.top) /\ D[c.tree.root] = R
               /\ c.top \in Keys => Cardinality(D[c.top]) > i

LEMMA MoreBelow ==
  ASSUME NEW D \in [Node -> SUBSET Keys], NEW n \in Keys, NEW p \in Keys,
         \A k \in D[n] : k \in D[p], p \in D[p], p \notin D[n],
         NEW i \in Nat, Cardinality(D[n]) > i
  PROVE  Cardinality(D[p]) > i + 1
<1>1. IsFiniteSet(D[p]) /\ IsFiniteSet(D[n])
  BY FS_Subset, KeysAssumption DEF Node
<1>2. D[n] \in SUBSET D[p] /\ D[n] # D[p]
  OBVIOUS
<1>3. Cardinality(D[n]) <= Cardinality(D[p]) /\ Cardinality(D[n]) # Cardinality(D[p])
  BY <1>1, <1>2, FS_Subset
<1>4. Cardinality(D[n]) \in Nat /\ Cardinality(D[p]) \in Nat
  BY <1>1, FS_CardinalityType
<1>5. QED
  BY <1>3, <1>4

LEMMA ClimbStops ==
  ASSUME NEW O, NEW R, NEW ob, NEW c, NEW i \in Nat, Climbing(O, R, ob, c, i),
         c.top = Null \/ c.tree.parent[c.top] = Null
  PROVE  Climbing(O, R, ob, ClimbOnce(c), i + 1)
<1>1. PICK t, n : t = c.tree /\ n = c.top
  OBVIOUS
<1>2. /\ c = [tree |-> t, top |-> n] /\ t \in Trees(O) /\ n \in Node /\ t.obj = ob
      /\ n = Null \/ t.parent[n] = Null
  BY <1>1 DEF Climbing
<1>3. PICK D, h : SearchTree(t, D) /\ Heights(t, h, n) /\ D[t.root] = R
  BY <1>1 DEF Climbing
<1>4. ClimbOnce(c) = [c EXCEPT !.top = Null]
  BY <1>1, <1>2, Zenon DEF ClimbOnce
<1>5. ClimbOnce(c) = [tree |-> t, top |-> Null]
  BY <1>2, <1>4
<1>6. ASSUME NEW k \in Keys, NEW y \in Side PROVE t.child[k][y] # n \/ n = Null
  BY <1>2, <1>3, KeysAssumption DEF SearchTree, Links, Node
<1>7. ASSUME NEW k \in Keys, NEW y \in Side PROVE LevelOn(t, h, Null, k, y)
  <2>1. LevelOn(t, h, n, k, y)
    BY <1>3 DEF Heights
  <2>2. \A z \in Side : Seen(h, n, t.child[k][z]) = Seen(h, Null, t.child[k][z])
    BY <1>6 DEF Seen
  <2>3. QED
    BY <2>1, <2>2, Sides DEF LevelOn
<1>8. Heights(t, h, Null)
  BY <1>3, <1>7 DEF Heights
<1>9. PICK d : d = ClimbOnce(c)
  OBVIOUS
<1>10. d = [tree |-> t, top |-> Null] /\ d.tree = t /\ d.top = Null
  BY <1>5, <1>9
<1>11. d.top \in Node /\ d.top \notin Keys
  BY <1>10, KeysAssumption DEF Node
<1>12. Climbing(O, R, ob, d, i + 1)
  BY <1>2, <1>3, <1>8, <1>10, <1>11 DEF Climbing
<1>13. QED
  BY <1>9, <1>12

LEMMA Turns ==
  ASSUME NEW O, NEW t \in Trees(O), NEW n \in Keys, NEW p \in Keys, NEW x \in Side,
         IsChild(t, p, x, n), NEW D, SearchTree(t, D), NEW h, Heights(t, h, n),
         NEW u \in Trees(O), NEW v, Weighed(t, p, v, u), v = t.balance[p] + Sign(x),
         v \notin {-1, 0, 1}
  PROVE  \E up \in Keys : Lifts(O, u, D, p, up, BalanceNode(u, p))
<1> DEFINE far == t.child[p][Other(x)]
<1>1. /\ h[p] = 1 + Taller(h[n] - 1, h[far]) /\ Sign(x) * t.balance[p] = h[n] - 1 - h[far]
      /\ h[n] - 1 - h[far] <= 1 /\ h[far] - h[n] + 1 <= 1
      /\ h[far] \in Nat /\ h[n] \in Nat
  BY GrownUnder
<1>2. h[far] = h[n] - 2 /\ h[p] = h[n] /\ Sign(x) * v = 2 /\ (v = 2 <=> x = "right")
  <2>1. PICK b \in Int : b = t.balance[p]
    BY DEF Trees
  <2>2. PICK i \in Nat, j \in Nat : i = h[n] /\ j = h[far]
    BY <1>1
  <2>3. PICK s \in {1, -1} : s = Sign(x) /\ (s = 1 <=> x = "right")
    BY DEF Side, Sign
  <2>4. s * b = i - 1 - j /\ i - 1 - j <= 1 /\ j - i + 1 <= 1 /\ h[p] = 1 + Taller(i - 1, j)
    BY <1>1, <2>1, <2>2, <2>3
  <2>5. v = b + s /\ v \notin {-1, 0, 1}
    BY <2>1, <2>3
  <2>6. j = i - 2 /\ s * v = 2 /\ (v = 2 <=> s = 1)
    <3>1. CASE s = 1
      <4>1. b = i - 1 - j /\ v = b + 1
        BY <2>4, <2>5, <3>1
      <4>2. b = 1 /\ j = i - 2 /\ v = 2
        BY <2>4, <2>5, <4>1
      <4>3. QED
        BY <3>1, <4>2
    <3>2. CASE s = -1
      <4>1. s * b = - b
        BY <3>2
      <4>2. - b = i - 1 - j /\ v = b - 1
        BY <2>4, <2>5, <3>2, <4>1
      <4>3. b = -1 /\ j = i - 2 /\ v = -2
        BY <2>4, <2>5, <4>2
      <4>4. QED
        BY <3>2, <4>3
    <3>3. QED
      BY <3>1, <3>2
  <2> HIDE DEF far
  <2>7. h[p] = i
    BY <2>4, <2>6 DEF Taller
  <2>8. QED
    BY <2>2, <2>3, <2>6, <2>7
<1>3. u.balance[p] = v /\ u.child = t.child /\ u.root = t.root /\ u.obj = t.obj
      /\ \A k \in Keys \ {p} : u.balance[k] = t.balance[k]
  BY DEF Weighed
<1>4. SearchTree(u, D) /\ D[u.root] = D[t.root]
  BY WeighedShape
<1>5. IsChild(u, p, x, n) /\ n # p
  <2>1. n # p
    BY Family DEF IsChild
  <2>2. QED
    BY <1>3, <2>1 DEF IsChild
<1>6. \A k \in Keys \ {p} : LevelOn(u, h, Null, k, x)
  <2>1. ASSUME NEW k \in Keys \ {p} PROVE LevelOn(u, h, Null, k, x)
    <3>1. LevelOn(t, h, Null, k, x)
      BY GrownUnder
    <3>2. QED
      BY <1>3, <3>1 DEF LevelOn
  <2>2. QED
    BY <2>1
<1>7. h[p] = h[n] /\ h[u.child[p][Other(x)]] = h[n] - 2
  BY <1>2, <1>3
<1>8. h \in [Node -> Nat] /\ h[Null] = 0
  BY DEF Heights
<1> HIDE DEF far
<1>9. BalanceNode(u, p) = IF Sign(x) * u.balance[n] >= 0 THEN Single(u, p, x) ELSE Double(u, p, x)
  <2>1. (IF u.balance[p] = 2 THEN "right" ELSE "left") = x
    BY <1>2, <1>3 DEF Side
  <2>2. u.child[p][x] = n
    BY <1>5 DEF IsChild
  <2>3. QED
    BY <2>1, <2>2, Zenon DEF BalanceNode
<1>10. PICK r : r = BalanceNode(u, p)
  OBVIOUS
<1>11. PICK m \in Int : m = Sign(x) * u.balance[n]
  BY Signs DEF Trees
<1>12. /\ m \in {-1, 0, 1}
       /\ m = -1 => \E low \in Keys : IsChild(u, n, Other(x), low)
  <2>1. LevelOn(u, h, Null, n, x)
    BY <1>5, <1>6
  <2>2. \A k \in Node : Seen(h, Null, k) = h[k]
    BY DEF Seen
  <2>3. PICK lx \in Node, lo \in Node : lx = u.child[n][x] /\ lo = u.child[n][Other(x)]
    BY Sides DEF Trees
  <2>4. m = h[lx] - h[lo] /\ h[lx] - h[lo] <= 1 /\ h[lo] - h[lx] <= 1
    BY <1>11, <2>1, <2>2, <2>3 DEF LevelOn
  <2>5. PICK i \in Nat, j \in Nat : i = h[lx] /\ j = h[lo]
    BY <1>8
  <2>6. m \in {-1, 0, 1} /\ (m = -1 => j # 0)
    BY <2>4, <2>5
  <2>7. QED
    BY <1>8, <2>3, <2>5, <2>6 DEF IsChild, Node
<1>13. CASE m = -1
  <2>1. r = Double(u, p, x)
    BY <1>9, <1>10, <1>11, <1>13
  <2>2. PICK low \in Keys : IsChild(u, n, Other(x), low)
    BY <1>12, <1>13
  <2>3. Lifts(O, u, D, p, low, r)
    BY <1>4, <1>5, <1>6, <1>7, <1>8, <1>11, <1>13, <2>1, <2>2, DoubleLifts
  <2>4. QED
    BY <1>10, <2>3
<1>14. CASE m # -1
  <2>1. m \in {0, 1}
    BY <1>12, <1>14
  <2>2. m >= 0
    BY <2>1
  <2>3. r = Single(u, p, x)
    BY <1>9, <1>10, <1>11, <2>2
  <2>4. Sign(x) * u.balance[p] = 2
    BY <1>2, <1>3
  <2>5. Lifts(O, u, D, p, n, r)
    BY <1>4, <1>5, <1>6, <1>7, <1>8, <1>11, <2>1, <2>3, <2>4, SingleLifts
  <2>6. QED
    BY <1>10, <2>5
<1>15. QED
  BY <1>13, <1>14

\* What a round does when the grown node has a parent.
GrowingRound(c, t, n, p, u, v, r) ==
  /\ c = [tree |-> t, top |-> n] /\ p = t.parent[n]
  /\ u = [t EXCEPT !.balance[p] = @ + Sign(ParentSide(t, n))]
  /\ v = u.balance[p] /\ r = BalanceNode(u, p)

LEMMA ClimbCases ==
  ASSUME NEW c, NEW t, NEW n \in Keys, NEW p \in Keys, NEW u, NEW v, NEW r,
         GrowingRound(c, t, n, p, u, v, r)
  PROVE  /\ v = 0 => ClimbOnce(c) = [tree |-> u, top |-> Null]
         /\ v = 1 \/ v = -1 => ClimbOnce(c) = [tree |-> u, top |-> p]
         /\ v \notin {-1, 0, 1} =>
              ClimbOnce(c) = IF r.tree.balance[r.top] = 0 THEN [r EXCEPT !.top = Null] ELSE r
<1>1. n # Null /\ p # Null
  BY KeysAssumption
<1>2. c.tree = t /\ c.top = n
  BY DEF GrowingRound
<1>3. ClimbOnce(c) = CASE v = 0 -> [tree |-> u, top |-> Null]
                       [] v \in {-1, 1} -> [tree |-> u, top |-> p]
                       [] OTHER -> IF r.tree.balance[r.top] = 0 THEN [r EXCEPT !.top = Null] ELSE r
  BY <1>1, <1>2, Zenon DEF ClimbOnce, GrowingRound
<1>4. QED
  BY <1>3

LEMMA ClimbGoesOn ==
  ASSUME NEW O, NEW R, NEW ob, NEW c, NEW i \in Nat, Climbing(O, R, ob, c, i),
         c.top # Null, c.tree.parent[c.top] # Null
  PROVE  Climbing(O, R, ob, ClimbOnce(c), i + 1)
<1>1. PICK t, n : t = c.tree /\ n = c.top
  OBVIOUS
<1>2. PICK p : p = t.parent[n]
  OBVIOUS
<1>3. c = [tree |-> t, top |-> n] /\ t \in Trees(O) /\ n \in Keys /\ t.obj = ob
  BY <1>1 DEF Climbing, Node
<1>4. p \in Keys
  BY <1>1, <1>2, <1>3 DEF Trees, Node
<1>5. PICK D, h : /\ SearchTree(t, D) /\ Heights(t, h, n) /\ D[t.root] = R
                  /\ Cardinality(D[n]) > i
  BY <1>1, <1>3 DEF Climbing
<1>6. PICK x \in Side : IsChild(t, p, x, n) /\ n = t.child[p][x]
  BY <1>2, <1>3, <1>4, <1>5 DEF SearchTree, Links, IsChild
<1>7. x = ParentSide(t, n) /\ \A k \in D[n] : k \in D[p]
  BY <1>3, <1>4, <1>5, <1>6, Family
<1>8. p \in D[p] /\ p \notin D[n]
  BY <1>3, <1>4, <1>5, <1>6, Family
<1>9. D \in [Node -> SUBSET Keys]
  BY <1>5 DEF SearchTree, Subtrees
<1>10. Cardinality(D[p]) > i + 1
  BY <1>3, <1>4, <1>5, <1>7, <1>8, <1>9, MoreBelow
<1>11. PICK v \in Int : v = t.balance[p] + Sign(x)
  BY <1>3, <1>4, Sides DEF Trees
<1>12. PICK u : u = [t EXCEPT !.balance[p] = v]
  OBVIOUS
<1>13. u \in Trees(O) /\ Weighed(t, p, v, u)
  BY <1>3, <1>4, <1>11, <1>12, WeighedFields
<1>14. u = [t EXCEPT !.balance[p] = @ + Sign(x)]
  BY <1>3, <1>4, <1>11, <1>12 DEF Trees
<1>15. v = u.balance[p] /\ u.obj = ob
  BY <1>3, <1>4, <1>13 DEF Weighed
<1>16. PICK r : r = BalanceNode(u, p)
  OBVIOUS
<1>17. /\ v = 0 => ClimbOnce(c) = [tree |-> u, top |-> Null]
       /\ v = 1 \/ v = -1 => ClimbOnce(c) = [tree |-> u, top |-> p]
       /\ v \notin {-1, 0, 1} =>
            ClimbOnce(c) = IF r.tree.balance[r.top] = 0 THEN [r EXCEPT !.top = Null] ELSE r
  <2>1. GrowingRound(c, t, n, p, u, v, r)
    BY <1>2, <1>3, <1>7, <1>14, <1>15, <1>16 DEF GrowingRound
  <2>2. QED
    BY <1>3, <1>4, <2>1, ClimbCases
<1>18. SearchTree(u, D) /\ D[u.root] = R
  BY <1>5, <1>13, WeighedShape
<1>19. PICK d : d = ClimbOnce(c)
  OBVIOUS
<1>20. CASE v = 0
  <2>1. d = [tree |-> u, top |-> Null] /\ d.tree = u /\ d.top = Null
    BY <1>17, <1>19, <1>20
  <2>2. Heights(u, h, Null)
    BY <1>3, <1>4, <1>5, <1>6, <1>11, <1>13, <1>20, GrowthEnds
  <2>3. d.top \in Node /\ d.top \notin Keys
    BY <2>1, KeysAssumption DEF Node
  <2>4. QED
    BY <1>13, <1>15, <1>18, <1>19, <2>1, <2>2, <2>3 DEF Climbing
<1>21. CASE v = 1 \/ v = -1
  <2>1. d = [tree |-> u, top |-> p] /\ d.tree = u /\ d.top = p
    BY <1>17, <1>19, <1>21
  <2>2. PICK e : Heights(u, e, p)
    BY <1>3, <1>4, <1>5, <1>6, <1>11, <1>13, <1>21, GrowthPasses
  <2>3. QED
    BY <1>4, <1>10, <1>13, <1>15, <1>18, <1>19, <2>1, <2>2 DEF Climbing, Node
<1>22. CASE v \notin {-1, 0, 1}
  <2>1. \E up \in Keys : Lifts(O, u, D, p, up, BalanceNode(u, p))
    BY <1>3, <1>4, <1>5, <1>6, <1>11, <1>13, <1>22, Turns
  <2>2. PICK up \in Keys : Lifts(O, u, D, p, up, r)
    BY <1>16, <2>1
  <2>3. PICK w : w = r.tree
    OBVIOUS
  <2>4. /\ w \in Trees(O) /\ r = [tree |-> w, top |-> up] /\ w.obj = ob
        /\ \E E : SearchTree(w, E) /\ E[w.root] = D[u.root] /\ E[up] = D[p]
        /\ \E e : Heights(w, e, IF w.balance[up] = 0 THEN Null ELSE up)
    BY <1>15, <2>2, <2>3 DEF Lifts
  <2>5. PICK E : SearchTree(w, E) /\ E[w.root] = R /\ Cardinality(E[up]) > i + 1
    BY <1>10, <1>18, <2>4
  <2>6. PICK e : Heights(w, e, IF w.balance[up] = 0 THEN Null ELSE up)
    BY <2>4
  <2>7. PICK top : top = IF w.balance[up] = 0 THEN Null ELSE up
    OBVIOUS
  <2>8. d = [tree |-> w, top |-> top] /\ d.tree = w /\ d.top = top
    BY <1>17, <1>19, <1>22, <2>4, <2>7
  <2>9. top \in Node /\ (top \in Keys => top = up)
    BY <2>7, KeysAssumption DEF Node
  <2>10. Climbing(O, R, ob, d, i + 1)
    BY <2>4, <2>5, <2>6, <2>7, <2>8, <2>9 DEF Climbing
  <2>11. QED
    BY <1>19, <2>10
<1>23. QED
  BY <1>20, <1>21, <1>22

\* The rounds of a climb, and where they end.
LEMMA ClimbRounds ==
  ASSUME NEW t, NEW n, NEW N \in Nat, N = Cardinality(Keys)
  PROVE  \E f : /\ f[0] = [tree |-> t, top |-> n]
                /\ \A i \in 0 .. N : i < N => f[i + 1] = ClimbOnce(f[i])
                /\ Climb(t, n) = f[N].tree
<1> DEFINE Is(f, m) == f = [i \in 0 .. m |-> IF i = 0 THEN [tree |-> t, top |-> n] ELSE ClimbOnce(f[i - 1])]
           A == {m \in Nat : \E f : Is(f, m)}
<1>1. 0 \in A
  <2>1. PICK f : f = [i \in 0 .. 0 |-> [tree |-> t, top |-> n]]
    OBVIOUS
  <2>2. f = [i \in 0 .. 0 |-> IF i = 0 THEN [tree |-> t, top |-> n] ELSE ClimbOnce(f[i - 1])]
    BY <2>1
  <2>3. QED
    BY <2>2
<1>2. ASSUME NEW m \in A PROVE m + 1 \in A
  <2>1. m \in Nat /\ m + 1 \in Nat
    OBVIOUS
  <2>2. PICK f : Is(f, m)
    OBVIOUS
  <2>3. PICK g : g = [i \in 0 .. m + 1 |-> IF i = m + 1 THEN ClimbOnce(f[m]) ELSE f[i]]
    OBVIOUS
  <2>4. ASSUME NEW i \in 0 .. m + 1
        PROVE  g[i] = IF i = 0 THEN [tree |-> t, top |-> n] ELSE ClimbOnce(g[i - 1])
    <3>1. CASE i = m + 1
      <4>1. i # 0 /\ i - 1 = m /\ m \in 0 .. m + 1 /\ m # m + 1
        BY <2>1, <3>1
      <4>2. QED
        BY <2>3, <3>1, <4>1
    <3>2. CASE i # m + 1
      <4>1. i \in 0 .. m
        BY <2>1, <3>2
      <4>2. g[i] = f[i]
        BY <2>3, <3>2
      <4>3. f[i] = IF i = 0 THEN [tree |-> t, top |-> n] ELSE ClimbOnce(f[i - 1])
        BY <2>2, <4>1
      <4>4. i # 0 => i - 1 \in 0 .. m + 1 /\ i - 1 # m + 1
        BY <2>1, <4>1
      <4>5. i # 0 => g[i - 1] = f[i - 1]
        BY <2>3, <4>4
      <4>6. QED
        BY <4>2, <4>3, <4>5
    <3>3. QED
      BY <3>1, <3>2
  <2>5. g = [i \in 0 .. m + 1 |-> IF i = 0 THEN [tree |-> t, top |-> n] ELSE ClimbOnce(g[i - 1])]
    BY <2>3, <2>4
  <2>6. QED
    BY <2>1, <2>5
<1>3. N \in A
  <2>1. A \in SUBSET Nat
    OBVIOUS
  <2> HIDE DEF A
  <2>2. QED
    BY <1>1, <1>2, <2>1, SetInduction
<1> DEFINE round == CHOOSE f : Is(f, N)
<1>4. Is(round, N)
  BY <1>3
<1>5. Climb(t, n) = round[N].tree
  BY Zenon DEF Climb
<1> HIDE DEF round
<1>6. round[0] = [tree |-> t, top |-> n]
  BY <1>4
<1>7. ASSUME NEW i \in 0 .. N, i < N PROVE round[i + 1] = ClimbOnce(round[i])
  <2>1. i + 1 \in 0 .. N /\ i + 1 # 0 /\ i + 1 - 1 = i
    BY <1>7
  <2>2. QED
    BY <1>4, <2>1
<1>8. QED
  BY <1>5, <1>6, <1>7

(***************************************************************************)
(* A good tree of the keys R, and that a climb makes one.                    *)
(***************************************************************************)
Good(O, t, R) ==
  /\ t \in Trees(O)
  /\ \E D, h : SearchTree(t, D) /\ Heights(t, h, Null) /\ D[t.root] = R

LEMMA ClimbKeeps ==
  ASSUME NEW O, NEW R, NEW ob, NEW t, NEW n, Climbing(O, R, ob, [tree |-> t, top |-> n], 0)
  PROVE  Good(O, Climb(t, n), R) /\ Climb(t, n).obj = ob
<1>1. PICK N \in Nat : N = Cardinality(Keys)
  BY FS_CardinalityType, KeysAssumption
<1>2. PICK f : /\ f[0] = [tree |-> t, top |-> n]
               /\ \A i \in 0 .. N : i < N => f[i + 1] = ClimbOnce(f[i])
               /\ Climb(t, n) = f[N].tree
  BY <1>1, ClimbRounds
<1> DEFINE A == {i \in Nat : i <= N => Climbing(O, R, ob, f[i], i)}
<1>3. 0 \in A
  BY <1>2
<1>4. ASSUME NEW i \in A PROVE i + 1 \in A
  <2>1. i \in Nat /\ i + 1 \in Nat
    OBVIOUS
  <2>2. SUFFICES ASSUME i + 1 <= N PROVE Climbing(O, R, ob, f[i + 1], i + 1)
    BY <2>1
  <2>3. i <= N /\ i < N /\ i \in 0 .. N
    BY <2>1, <2>2
  <2>4. Climbing(O, R, ob, f[i], i) /\ f[i + 1] = ClimbOnce(f[i])
    BY <1>2, <2>3
  <2>5. PICK c : c = f[i]
    OBVIOUS
  <2>6. CASE c.top = Null \/ c.tree.parent[c.top] = Null
    BY <2>1, <2>4, <2>5, <2>6, ClimbStops
  <2>7. CASE c.top # Null /\ c.tree.parent[c.top] # Null
    BY <2>1, <2>4, <2>5, <2>7, ClimbGoesOn
  <2>8. QED
    BY <2>6, <2>7
<1>5. N \in A
  <2>1. A \in SUBSET Nat
    OBVIOUS
  <2> HIDE DEF A
  <2>2. QED
    BY <1>3, <1>4, <2>1, SetInduction
<1>6. PICK c : c = f[N]
  OBVIOUS
<1>7. Climbing(O, R, ob, c, N)
  BY <1>5, <1>6
<1>8. PICK D, h : /\ SearchTree(c.tree, D) /\ Heights(c.tree, h, c.top) /\ D[c.tree.root] = R
                  /\ c.top \in Keys => Cardinality(D[c.top]) > N
  BY <1>7 DEF Climbing
<1>9. c.top = Null
  <2>1. SUFFICES ASSUME c.top \in Keys PROVE FALSE
    BY <1>7 DEF Climbing, Node
  <2>2. D[c.top] \in SUBSET Keys
    BY <1>8, <2>1 DEF SearchTree, Subtrees, Node
  <2>3. Cardinality(D[c.top]) <= N /\ IsFiniteSet(D[c.top])
    BY <1>1, <2>2, FS_Subset, KeysAssumption
  <2>4. Cardinality(D[c.top]) \in Nat
    BY <2>3, FS_CardinalityType
  <2>5. QED
    BY <1>8, <2>1, <2>3, <2>4
<1>10. QED
  BY <1>2, <1>6, <1>7, <1>8, <1>9 DEF Climbing, Good

(***************************************************************************)
(* Induction over a tree, and what it shows of the functions that go down.   *)
(***************************************************************************)
LEMMA Lower ==
  ASSUME NEW O, NEW t \in Trees(O), NEW h, Heights(t, h, Null), NEW n \in Keys, NEW x \in Side
  PROVE  h[t.child[n][x]] < h[n] /\ h[n] \in Nat /\ h[t.child[n][x]] \in Nat
<1>1. PICK a \in Node, b \in Node : a = t.child[n][x] /\ b = t.child[n][Other(x)]
  BY Sides DEF Trees
<1>2. Seen(h, Null, a) = h[a] /\ Seen(h, Null, b) = h[b]
  BY DEF Seen
<1>3. PICK i \in Nat, j \in Nat : i = h[a] /\ j = h[b]
  BY DEF Heights
<1>4. LevelOn(t, h, Null, n, x)
  BY DEF Heights
<1>5. h[n] = 1 + Taller(i, j)
  BY <1>1, <1>2, <1>3, <1>4 DEF LevelOn
<1>6. QED
  BY <1>1, <1>3, <1>5 DEF Taller

LEMMA TreeInduction ==
  ASSUME NEW O, NEW t \in Trees(O), NEW h, Heights(t, h, Null), NEW S, Null \in S,
         \A n \in Keys : (\A x \in Side : t.child[n][x] \in S) => n \in S
  PROVE  \A n \in Node : n \in S
<1> DEFINE A == {i \in Nat : \A n \in Node : h[n] <= i => n \in S}
<1>1. h \in [Node -> Nat]
  BY DEF Heights
<1>2. 0 \in A
  <2>1. ASSUME NEW n \in Keys PROVE ~ (h[n] <= 0)
    <3>1. "left" \in Side
      BY DEF Side
    <3>2. h[t.child[n]["left"]] < h[n] /\ h[n] \in Nat /\ h[t.child[n]["left"]] \in Nat
      BY <3>1, Lower
    <3>3. QED
      BY <3>2
  <2>2. QED
    BY <2>1 DEF Node
<1>3. ASSUME NEW i \in A PROVE i + 1 \in A
  <2>1. SUFFICES ASSUME NEW n \in Keys, h[n] <= i + 1 PROVE n \in S
    BY DEF Node
  <2>2. ASSUME NEW x \in Side PROVE t.child[n][x] \in S
    <3>1. h[t.child[n][x]] < h[n] /\ h[n] \in Nat /\ h[t.child[n][x]] \in Nat
      BY Lower
    <3>2. h[t.child[n][x]] <= i
      BY <2>1, <3>1
    <3>3. t.child[n][x] \in Node
      BY DEF Trees
    <3>4. QED
      BY <3>2, <3>3
  <2>3. QED
    BY <2>2
<1>4. ASSUME NEW i \in Nat PROVE i \in A
  <2>1. A \in SUBSET Nat
    OBVIOUS
  <2> HIDE DEF A
  <2>2. QED
    BY <1>2, <1>3, <2>1, SetInduction
<1>5. QED
  BY <1>1, <1>4

\* Subtrees lie within each other.
LEMMA Nested ==
  ASSUME NEW O, NEW t \in Trees(O), NEW D, SearchTree(t, D), NEW h, Heights(t, h, Null)
  PROVE  \A n \in Node : \A m \in D[n] : \A k \in D[m] : k \in D[n]
<1> DEFINE S == {n \in Node : \A m \in D[n] : \A k \in D[m] : k \in D[n]}
<1>1. Null \in S
  BY DEF SearchTree, Subtrees, Node
<1>2. ASSUME NEW n \in Keys, \A x \in Side : t.child[n][x] \in S PROVE n \in S
  <2>1. ASSUME NEW m \in D[n], NEW k \in D[m] PROVE k \in D[n]
    <3>1. m \in Keys
      BY DEF SearchTree, Subtrees, Node
    <3>2. k \in Keys
      BY <3>1 DEF SearchTree, Subtrees, Node
    <3>3. CASE m = n
      BY <3>3
    <3>4. CASE m # n
      <4>1. PICK x \in Side : m \in D[t.child[n][x]]
        BY <3>1, <3>4 DEF SearchTree, Subtrees
      <4>2. k \in D[t.child[n][x]]
        BY <1>2, <4>1
      <4>3. QED
        BY <3>2, <4>2 DEF SearchTree, Subtrees
    <3>5. QED
      BY <3>3, <3>4
  <2>2. QED
    BY <2>1 DEF Node
<1> HIDE DEF S
<1>3. \A n \in Node : n \in S
  BY <1>1, <1>2, TreeInduction
<1>4. QED
  BY <1>3 DEF S

\* A key is below a node where it is Toward.
LEMMA BelowToward ==
  ASSUME NEW t, NEW D, SearchTree(t, D), NEW n \in Keys, NEW k \in Keys, k # n
  PROVE  k \in D[n] <=> k \in D[t.child[n][Toward(n, k)]]
<1>1. Toward(n, k) \in Side
  BY DEF Toward, Side
<1>2. ASSUME NEW x \in Side, k \in D[t.child[n][x]] PROVE x = Toward(n, k)
  <2>1. OnSide(x, n, k)
    BY <1>2 DEF SearchTree, Subtrees
  <2>2. QED
    BY <2>1, SidesOrdered
<1>3. QED
  BY <1>1, <1>2 DEF SearchTree, Subtrees

LEMMA DictGetFinds ==
  ASSUME NEW O, NEW t \in Trees(O), NEW D, SearchTree(t, D), NEW h, Heights(t, h, Null), NEW k \in Keys
  PROVE  DictGet(t, k) = IF k \in D[t.root] THEN k ELSE Null
<1> DEFINE Is(f) == f = [n \in Node |-> IF n \in {Null, k} THEN n ELSE f[t.child[n][Toward(n, k)]]]
           w == [n \in Node |-> IF k \in D[n] THEN k ELSE Null]
           below == CHOOSE f : Is(f)
<1>1. \A n \in Keys : t.child[n][Toward(n, k)] \in Node /\ Toward(n, k) \in Side
  BY DEF Trees, Toward, Side
<1>2. Is(w)
  <2>1. ASSUME NEW n \in Node
        PROVE  (IF k \in D[n] THEN k ELSE Null) =
               IF n \in {Null, k} THEN n ELSE w[t.child[n][Toward(n, k)]]
    <3>1. CASE n = Null
      BY <3>1 DEF SearchTree, Subtrees
    <3>2. CASE n = k
      BY <3>2 DEF SearchTree, Subtrees
    <3>3. CASE n \notin {Null, k}
      <4>1. n \in Keys /\ k # n
        BY <3>3 DEF Node
      <4>2. k \in D[n] <=> k \in D[t.child[n][Toward(n, k)]]
        BY <4>1, BelowToward
      <4>3. w[t.child[n][Toward(n, k)]] = IF k \in D[t.child[n][Toward(n, k)]] THEN k ELSE Null
        BY <1>1, <4>1
      <4>4. QED
        BY <3>3, <4>2, <4>3
    <3>4. QED
      BY <3>1, <3>2, <3>3
  <2>2. QED
    BY <2>1
<1>3. Is(below)
  BY <1>2
<1>4. DictGet(t, k) = below[t.root]
  BY Zenon DEF DictGet
<1> DEFINE S == {n \in Node : below[n] = w[n]}
<1> HIDE DEF below
<1>5. Null \in S
  BY <1>3, <1>2 DEF Node
<1>6. ASSUME NEW n \in Keys, \A x \in Side : t.child[n][x] \in S PROVE n \in S
  <2>1. n \in Node
    BY DEF Node
  <2>2. below[t.child[n][Toward(n, k)]] = w[t.child[n][Toward(n, k)]]
    BY <1>1, <1>6
  <2> HIDE DEF w
  <2>3. /\ below[n] = IF n \in {Null, k} THEN n ELSE below[t.child[n][Toward(n, k)]]
        /\ w[n] = IF n \in {Null, k} THEN n ELSE w[t.child[n][Toward(n, k)]]
    BY <1>2, <1>3, <2>1
  <2>4. QED
    BY <2>1, <2>2, <2>3
<1> HIDE DEF S
<1>7. \A n \in Node : n \in S
  BY <1>5, <1>6, TreeInduction
<1>8. t.root \in Node
  BY DEF Trees
<1>9. below[t.root] = w[t.root]
  BY <1>7, <1>8 DEF S
<1>10. QED
  BY <1>4, <1>8, <1>9

(***************************************************************************)
(* Where a new key is added.                                                *)
(***************************************************************************)
Ends(t, D, key, n, p) ==
  /\ p \in D[n] /\ t.child[p][Toward(p, key)] = Null
  /\ \A q \in D[n], x \in Side : p \in D[t.child[q][x]] => x = Toward(q, key)

LEMMA TowardSide ==
  ASSUME NEW n, NEW k  PROVE Toward(n, k) \in Side
  BY DEF Toward, Side

\* The nodes below the children of a node are others, and those of the one child are
\* not those of the other.
LEMMA Apart ==
  ASSUME NEW O, NEW t \in Trees(O), NEW D, SearchTree(t, D), NEW n \in Keys, NEW x \in Side, NEW y \in Side,
         NEW m \in D[t.child[n][x]], m \in D[t.child[n][y]]
  PROVE  x = y /\ m # n /\ m \in Keys
<1>1. m \in Keys
  BY DEF SearchTree, Subtrees, Trees
<1>2. OnSide(x, n, m) /\ OnSide(y, n, m)
  BY DEF SearchTree, Subtrees
<1>3. QED
  BY <1>1, <1>2, SidesOrdered

LEMMA EndsBelow ==
  ASSUME NEW O, NEW t \in Trees(O), NEW D, SearchTree(t, D), NEW h, Heights(t, h, Null),
         NEW key, NEW n \in Keys, NEW c, c = t.child[n][Toward(n, key)],
         NEW p, IF c = Null THEN p = n ELSE Ends(t, D, key, c, p)
  PROVE  Ends(t, D, key, n, p)
<1>1. n \in D[n] /\ n \in Node /\ Toward(n, key) \in Side /\ c \in Node
  BY TowardSide DEF SearchTree, Subtrees, Node, Trees
<1>2. CASE c = Null
  <2>1. ASSUME NEW q \in D[n], NEW x \in Side, n \in D[t.child[q][x]] PROVE FALSE
    <3>1. q \in Keys
      BY <1>1 DEF SearchTree, Subtrees
    <3>2. PICK d : d = t.child[q][x]
      OBVIOUS
    <3>3. d \in Keys
      BY <2>1, <3>1, <3>2 DEF SearchTree, Subtrees, Node, Trees
    <3>4. q \in D[d]
      BY <2>1, <3>2, <3>3, Nested DEF Node
    <3>5. q \notin D[d]
      BY <3>1, <3>2, <3>3, Family
    <3>6. QED
      BY <3>4, <3>5
  <2>2. QED
    BY <1>1, <1>2, <2>1 DEF Ends
<1>3. CASE c # Null
  <2>1. c \in Keys /\ Ends(t, D, key, c, p)
    BY <1>1, <1>3 DEF Node
  <2>2. p \in D[c] /\ p \in D[n] /\ p \in Keys
    BY <1>1, <2>1 DEF Ends, SearchTree, Subtrees
  <2>3. ASSUME NEW q \in D[n], NEW x \in Side, p \in D[t.child[q][x]] PROVE x = Toward(q, key)
    <3>1. q \in Keys
      BY <1>1 DEF SearchTree, Subtrees
    <3>2. CASE q = n
      BY <1>1, <2>2, <2>3, <3>2, Apart
    <3>3. CASE q \in D[c]
      BY <2>1, <2>3, <3>3 DEF Ends
    <3>4. CASE q # n /\ q \notin D[c]
      <4>1. PICK y \in Side : q \in D[t.child[n][y]]
        BY <3>1, <3>4 DEF SearchTree, Subtrees
      <4>2. p \in D[q]
        BY <2>2, <2>3, <3>1 DEF SearchTree, Subtrees
      <4>3. t.child[n][y] \in Node
        BY DEF Trees
      <4>4. p \in D[t.child[n][y]]
        BY <4>1, <4>2, <4>3, Nested
      <4>5. y = Toward(n, key)
        BY <1>1, <2>2, <4>4, Apart
      <4>6. QED
        BY <3>4, <4>1, <4>5
    <3>5. QED
      BY <3>2, <3>3, <3>4
  <2>4. QED
    BY <2>1, <2>2, <2>3 DEF Ends
<1>4. QED
  BY <1>2, <1>3

LEMMA AddingPositionEnds ==
  ASSUME NEW O, NEW t \in Trees(O), NEW D, SearchTree(t, D), NEW h, Heights(t, h, Null),
         NEW key, t.root # Null
  PROVE  Ends(t, D, key, t.root, AddingPosition(t, key))
<1> DEFINE Down(n) == t.child[n][Toward(n, key)]
           Follows(f, n) == f[n] = IF Down(n) = Null THEN n ELSE f[Down(n)]
           Is(f) == f = [n \in Keys |-> IF Down(n) = Null THEN n ELSE f[Down(n)]]
           S == {n \in Node : \E f : \A m \in D[n] : Follows(f, m)}
<1>1. \A n \in Keys : Down(n) \in Node
  BY TowardSide DEF Trees
<1>2. \A n \in Keys : \A m \in D[n] : m \in Keys
  BY DEF SearchTree, Subtrees, Node
<1>3. ASSUME NEW n \in Keys, Down(n) # Null
      PROVE  Down(n) \in Keys /\ Down(n) \in D[n]
  <2>1. Down(n) \in Keys
    BY <1>1, <1>3 DEF Node
  <2>2. QED
    BY <2>1, TowardSide, Family
<1>4. ASSUME NEW n \in Node, NEW m \in D[n], Down(m) # Null PROVE Down(m) \in D[n]
  <2>1. m \in Keys
    BY DEF SearchTree, Subtrees, Node
  <2>2. QED
    BY <1>3, <1>4, <2>1, Nested
<1> HIDE DEF Down
<1>5. Null \in S
  BY DEF Node, SearchTree, Subtrees
<1>6. ASSUME NEW n \in Keys, \A x \in Side : t.child[n][x] \in S PROVE n \in S
  <2>1. "left" \in Side /\ "right" \in Side /\ \A x \in Side : x = "left" \/ x = "right"
    BY DEF Side
  <2>2. PICK l \in Node, r \in Node : l = t.child[n]["left"] /\ r = t.child[n]["right"]
    BY <2>1 DEF Trees
  <2>3. PICK fl, fr : (\A m \in D[l] : Follows(fl, m)) /\ (\A m \in D[r] : Follows(fr, m))
    BY <1>6, <2>1, <2>2
  <2> DEFINE on(m) == IF m \in D[l] THEN fl[m] ELSE IF m \in D[r] THEN fr[m] ELSE m
             g == [m \in Keys |-> IF m = n THEN (IF Down(n) = Null THEN n ELSE on(Down(n))) ELSE on(m)]
  <2>4. \A m \in D[l] : m \notin D[r] /\ m # n
    <3>1. ASSUME NEW m \in D[l] PROVE m # n
      BY <2>1, <2>2, Apart
    <3>2. ASSUME NEW m \in D[l], m \in D[r] PROVE FALSE
      BY <2>1, <2>2, <3>2, Apart
    <3>3. QED
      BY <3>1, <3>2
  <2>5. \A m \in D[r] : m # n
    BY <2>1, <2>2, Apart
  <2>6. \A m \in D[n] : m = n \/ m \in D[l] \/ m \in D[r]
    BY <1>2, <2>1, <2>2 DEF SearchTree, Subtrees
  <2>7. ASSUME NEW m \in D[n] PROVE Follows(g, m)
    <3>1. m \in Keys
      BY <1>2
    <3>2. Down(m) # Null => Down(m) \in Keys /\ (m \in D[l] => Down(m) \in D[l])
                            /\ (m \in D[r] => Down(m) \in D[r])
      BY <1>3, <1>4, <3>1
    <3>3. CASE m = n
      <4>1. Down(n) # Null => Down(n) # n
        <5>1. Down(n) = l \/ Down(n) = r
          BY <2>1, <2>2, TowardSide DEF Down
        <5>2. Down(n) # Null => Down(n) \in D[Down(n)]
          BY <1>3 DEF SearchTree, Subtrees
        <5>3. QED
          BY <2>4, <2>5, <5>1, <5>2
      <4>2. g[n] = IF Down(n) = Null THEN n ELSE on(Down(n))
        OBVIOUS
      <4>3. Down(n) # Null => g[Down(n)] = on(Down(n))
        BY <3>2, <3>3, <4>1
      <4>4. QED
        BY <3>3, <4>2, <4>3
    <3>4. CASE m \in D[l]
      <4>1. g[m] = fl[m]
        BY <2>4, <3>1, <3>4
      <4>2. Down(m) # Null => g[Down(m)] = fl[Down(m)]
        BY <2>4, <3>2, <3>4
      <4>3. Follows(fl, m)
        BY <2>3, <3>4
      <4> HIDE DEF g
      <4>4. QED
        BY <4>1, <4>2, <4>3
    <3>5. CASE m \in D[r]
      <4>1. g[m] = fr[m]
        BY <2>4, <2>5, <3>1, <3>5
      <4>2. Down(m) # Null => g[Down(m)] = fr[Down(m)]
        BY <2>4, <2>5, <3>2, <3>5
      <4>3. Follows(fr, m)
        BY <2>3, <3>5
      <4> HIDE DEF g
      <4>4. QED
        BY <4>1, <4>2, <4>3
    <3>6. QED
      BY <2>6, <3>3, <3>4, <3>5
  <2>8. QED
    BY <2>7 DEF Node
<1> HIDE DEF S
<1>7. \A n \in Node : n \in S
  BY <1>5, <1>6, TreeInduction
<1>8. t.root \in Keys
  BY DEF Trees, Node
<1>9. PICK f : \A m \in D[t.root] : Follows(f, m)
  BY <1>7, <1>8 DEF S, Node
<1>10. PICK g : g = [m \in Keys |-> IF m \in D[t.root] THEN f[m] ELSE m]
  OBVIOUS
<1>11. Is(g)
  <2>1. ASSUME NEW m \in Keys PROVE g[m] = IF Down(m) = Null THEN m ELSE g[Down(m)]
    <3>1. CASE m \in D[t.root]
      <4>1. g[m] = f[m] /\ Follows(f, m)
        BY <1>9, <1>10, <3>1
      <4>2. Down(m) # Null => g[Down(m)] = f[Down(m)]
        BY <1>3, <1>4, <1>8, <1>10, <3>1 DEF Node
      <4>3. QED
        BY <4>1, <4>2
    <3>2. CASE m \notin D[t.root]
      <4>1. Down(m) = Null
        BY <3>2, TowardSide DEF Down, SearchTree, Links
      <4>2. QED
        BY <1>10, <3>2, <4>1
    <3>3. QED
      BY <3>1, <3>2
  <2>2. QED
    BY <1>10, <2>1
<1> DEFINE below == CHOOSE w : Is(w)
<1>12. Is(below)
  BY <1>11
<1>13. AddingPosition(t, key) = below[t.root]
  BY Zenon DEF AddingPosition, Down
<1> HIDE DEF below
<1> DEFINE T == {n \in Node : n = Null \/ Ends(t, D, key, n, below[n])}
<1>14. Null \in T
  BY DEF Node
<1>15. ASSUME NEW n \in Keys, \A x \in Side : t.child[n][x] \in T PROVE n \in T
  <2>1. PICK c : c = t.child[n][Toward(n, key)]
    OBVIOUS
  <2>2. c \in T /\ Down(n) = c
    BY <1>15, <2>1, TowardSide DEF Down
  <2>3. below[n] = IF c = Null THEN n ELSE below[c]
    BY <1>12, <2>2
  <2>4. PICK p : p = below[n]
    OBVIOUS
  <2>5. IF c = Null THEN p = n ELSE Ends(t, D, key, c, p)
    BY <2>2, <2>3, <2>4
  <2>6. Ends(t, D, key, n, p)
    BY <2>1, <2>5, EndsBelow
  <2>7. QED
    BY <2>4, <2>6 DEF Node
<1> HIDE DEF T
<1>16. \A n \in Node : n \in T
  BY <1>14, <1>15, TreeInduction
<1>17. QED
  BY <1>8, <1>13, <1>16, KeysAssumption DEF T, Node

(***************************************************************************)
(* dict_set.                                                                *)
(***************************************************************************)

\* A key that is not in the tree is below no other.
LEMMA Unlinked ==
  ASSUME NEW O, NEW t \in Trees(O), NEW D, SearchTree(t, D), NEW h, Heights(t, h, Null),
         NEW key \in Keys, key \notin D[t.root]
  PROVE  /\ t.parent[key] = Null /\ \A x \in Side : t.child[key][x] = Null
         /\ D[key] = {key}
         /\ \A n \in Node : key \in D[n] => n = key
         /\ h[key] = 1
<1>1. t.parent[key] = Null /\ \A x \in Side : t.child[key][x] = Null
  BY DEF SearchTree, Links
<1>2. D[key] = {key}
  <2>1. \A m \in Keys : m \in D[key] <=> m = key
    BY <1>1 DEF SearchTree, Subtrees
  <2>2. D[key] \in SUBSET Keys
    BY DEF SearchTree, Subtrees, Node
  <2>3. QED
    BY <2>1, <2>2
<1>3. ASSUME NEW n \in Keys, key \in D[n] PROVE n = key
  <2>1. CASE n \in D[t.root]
    <3>1. t.root \in Node
      BY DEF Trees
    <3>2. QED
      BY <1>3, <2>1, <3>1, Nested
  <2>2. CASE n \notin D[t.root]
    <3>1. \A x \in Side : D[t.child[n][x]] = {}
      BY <2>2 DEF SearchTree, Links, Subtrees
    <3>2. QED
      BY <1>3, <3>1 DEF SearchTree, Subtrees
  <2>3. QED
    BY <2>1, <2>2
<1>4. D[Null] = {}
  BY DEF SearchTree, Subtrees
<1>5. h[key] = 1
  <2>1. "left" \in Side
    BY DEF Side
  <2>2. LevelOn(t, h, Null, key, "left") /\ h[Null] = 0
    BY <2>1 DEF Heights
  <2>3. t.child[key]["left"] = Null /\ t.child[key][Other("left")] = Null
    BY <1>1, <2>1, Sides
  <2>4. QED
    BY <2>2, <2>3 DEF LevelOn, Seen, Taller
<1>6. QED
  BY <1>1, <1>2, <1>3, <1>4, <1>5 DEF Node

\* A first key.
LEMMA FirstKey ==
  ASSUME NEW O, NEW t \in Trees(O), NEW R, Good(O, t, R), t.root = Null, NEW key \in Keys,
         NEW u, u = [t EXCEPT !.root = key]
  PROVE  Good(O, u, {key}) /\ u.obj = t.obj /\ R = {}
<1>1. PICK D, h : SearchTree(t, D) /\ Heights(t, h, Null) /\ D[t.root] = R
  BY DEF Good
<1>2. /\ u \in Trees(O) /\ u.root = key /\ u.parent = t.parent /\ u.child = t.child
      /\ u.balance = t.balance /\ u.obj = t.obj
  BY DEF Trees, Node
<1>3. R = {} /\ D[t.root] = {}
  BY <1>1 DEF SearchTree, Subtrees
<1>4. D[key] = {key} /\ \A k \in Keys : t.parent[k] = Null /\ \A x \in Side : t.child[k][x] = Null
  <2>1. \A k \in Keys : k \notin D[t.root]
    BY <1>3
  <2>2. QED
    BY <1>1, <2>1, Unlinked
<1>5. SearchTree(u, D)
  <2>1. Subtrees(u, D)
    BY <1>1, <1>2 DEF SearchTree, Subtrees
  <2>2. Links(u, D)
    BY <1>2, <1>4, KeysAssumption DEF Links
  <2>3. QED
    BY <2>1, <2>2 DEF SearchTree
<1>6. Heights(u, h, Null)
  BY <1>1, <1>2 DEF Heights, LevelOn
<1>7. QED
  BY <1>2, <1>3, <1>4, <1>5, <1>6 DEF Good

LEMMA KeyAdded ==
  ASSUME NEW O, NEW t \in Trees(O), NEW D, SearchTree(t, D), NEW h, Heights(t, h, Null),
         NEW key \in Keys, key \notin D[t.root],
         NEW p, Ends(t, D, key, t.root, p),
         NEW u, u = Hung(t, p, Toward(p, key), key)
  PROVE  Climbing(O, D[t.root] \cup {key}, t.obj, [tree |-> u, top |-> key], 0)
<1>1. t.root \in Node /\ D \in [Node -> SUBSET Keys] /\ D[Null] = {}
  BY DEF SearchTree, Subtrees, Trees
<1>2. p \in D[t.root] /\ p \in Keys /\ t.root \in Keys /\ t.root # Null
  BY <1>1, KeysAssumption DEF Ends, Node
<1>3. PICK x \in Side : x = Toward(p, key)
  BY TowardSide
<1>4. p # key /\ t.child[p][x] = Null /\ OnSide(x, p, key)
  BY <1>2, <1>3, SidesOrdered DEF Ends
<1>5. u \in Trees(O) /\ HungOn(t, p, x, key, u)
  BY <1>2, <1>3, HungFields DEF Node
<1>6. /\ u.root = t.root /\ u.balance = t.balance /\ u.obj = t.obj
      /\ \A k \in Keys : u.parent[k] = IF k = key THEN p ELSE t.parent[k]
      /\ \A k \in Keys, y \in Side : u.child[k][y] = IF k = p /\ y = x THEN key ELSE t.child[k][y]
  BY <1>5 DEF HungOn
<1>7. /\ t.parent[key] = Null /\ \A y \in Side : t.child[key][y] = Null
      /\ D[key] = {key}
      /\ \A n \in Node : key \in D[n] => n = key
      /\ h[key] = 1
  BY Unlinked
<1>8. PICK E : E = [n \in Node |-> IF p \in D[n] THEN D[n] \cup {key} ELSE D[n]]
  OBVIOUS
<1>9. /\ E \in [Node -> SUBSET Keys] /\ E[Null] = {}
      /\ \A n \in Node : E[n] = IF p \in D[n] THEN D[n] \cup {key} ELSE D[n]
  BY <1>1, <1>8, KeysAssumption DEF Node
<1>10. E[key] = {key} /\ E[t.root] = D[t.root] \cup {key}
  BY <1>1, <1>2, <1>4, <1>7, <1>9 DEF Node
<1>11. \A n \in Node, m \in Keys : m # key => (m \in E[n] <=> m \in D[n])
  BY <1>9
<1>12. \A n \in Keys : key \in E[n] <=> n = key \/ p \in D[n]
  BY <1>7, <1>9 DEF Node
<1>13. ASSUME NEW n \in Keys, NEW m \in Keys
       PROVE  m \in E[n] <=> m = n \/ \E y \in Side : m \in E[u.child[n][y]]
  <2>1. \A y \in Side : t.child[n][y] \in Node /\ u.child[n][y] \in Node
    BY <1>5 DEF Trees
  <2>2. CASE m # key
    <3>1. ASSUME NEW y \in Side PROVE m \in E[u.child[n][y]] <=> m \in D[t.child[n][y]]
      <4>1. CASE n = p /\ y = x
        BY <1>1, <1>4, <1>6, <1>10, <2>2, <4>1
      <4>2. CASE ~ (n = p /\ y = x)
        BY <1>6, <1>11, <2>1, <2>2, <4>2
      <4>3. QED
        BY <4>1, <4>2
    <3>2. m \in E[n] <=> m \in D[n]
      BY <1>11, <2>2 DEF Node
    <3>3. QED
      BY <3>1, <3>2 DEF SearchTree, Subtrees
  <2>3. CASE m = key
    <3>1. CASE n = p
      <4>1. u.child[n][x] = key /\ p \in D[n]
        BY <1>2, <1>6, <3>1 DEF SearchTree, Subtrees
      <4>2. QED
        BY <1>10, <1>12, <2>3, <4>1
    <3>2. CASE n # p
      <4>1. ASSUME NEW y \in Side PROVE key \in E[u.child[n][y]] <=> p \in D[t.child[n][y]]
        <5>1. u.child[n][y] = t.child[n][y]
          BY <1>6, <3>2
        <5>2. t.child[n][y] # key
          BY <1>2, <1>7, KeysAssumption DEF SearchTree, Links
        <5>3. CASE t.child[n][y] = Null
          BY <1>1, <1>9, <5>1, <5>3
        <5>4. CASE t.child[n][y] \in Keys
          BY <1>12, <5>1, <5>2, <5>4
        <5>5. QED
          BY <2>1, <5>3, <5>4 DEF Node
      <4>2. p \in D[n] <=> \E y \in Side : p \in D[t.child[n][y]]
        BY <1>2, <3>2 DEF SearchTree, Subtrees
      <4>3. QED
        BY <1>12, <2>3, <4>1, <4>2
    <3>3. QED
      BY <3>1, <3>2
  <2>4. QED
    BY <2>2, <2>3
<1>14. ASSUME NEW n \in Keys, NEW y \in Side, NEW m \in E[u.child[n][y]] PROVE OnSide(y, n, m)
  <2>1. u.child[n][y] \in Node /\ t.child[n][y] \in Node
    BY <1>5 DEF Trees
  <2>2. m \in Keys
    BY <1>9, <2>1
  <2>3. CASE n = p /\ y = x
    BY <1>4, <1>6, <1>10, <2>3
  <2>4. CASE ~ (n = p /\ y = x)
    <3>1. m \in E[t.child[n][y]]
      BY <1>6, <2>4
    <3>2. CASE m # key
      BY <1>11, <2>1, <2>2, <3>1, <3>2 DEF SearchTree, Subtrees
    <3>3. CASE m = key
      <4>1. t.child[n][y] \in Keys
        BY <1>9, <2>1, <3>1 DEF Node
      <4>2. t.child[n][y] # key
        BY <1>7, KeysAssumption DEF SearchTree, Links
      <4>3. p \in D[t.child[n][y]]
        BY <1>12, <3>1, <3>3, <4>1, <4>2
      <4>4. n \in D[t.root]
        BY <4>1, Family
      <4>5. y = Toward(n, key)
        BY <4>3, <4>4 DEF Ends
      <4>6. n # key
        BY <4>4
      <4>7. QED
        BY <3>3, <4>5, <4>6, SidesOrdered
    <3>4. QED
      BY <3>2, <3>3
  <2>5. QED
    BY <2>3, <2>4
<1>15. Subtrees(u, E)
  BY <1>9, <1>13, <1>14 DEF Subtrees
<1>16. Links(u, E)
  <2>1. ASSUME NEW n \in Keys, NEW y \in Side, u.child[n][y] \in Keys PROVE u.parent[u.child[n][y]] = n
    <3>1. CASE n = p /\ y = x
      BY <1>6, <3>1
    <3>2. CASE ~ (n = p /\ y = x)
      <4>1. u.child[n][y] = t.child[n][y]
        BY <1>6, <3>2
      <4>2. t.child[n][y] # key
        BY <1>7, KeysAssumption DEF SearchTree, Links
      <4>3. QED
        BY <1>6, <2>1, <4>1, <4>2 DEF SearchTree, Links
    <3>3. QED
      BY <3>1, <3>2
  <2>2. ASSUME NEW k \in Keys, u.parent[k] \in Keys PROVE \E y \in Side : u.child[u.parent[k]][y] = k
    <3>1. CASE k = key
      BY <1>2, <1>6, <3>1
    <3>2. CASE k # key
      <4>1. u.parent[k] = t.parent[k]
        BY <1>6, <3>2
      <4>2. PICK y \in Side : t.child[t.parent[k]][y] = k
        BY <2>2, <4>1 DEF SearchTree, Links
      <4>3. ~ (t.parent[k] = p /\ y = x)
        BY <1>4, <4>2, KeysAssumption
      <4>4. QED
        BY <1>6, <2>2, <4>1, <4>2, <4>3
    <3>3. QED
      BY <3>1, <3>2
  <2>3. ASSUME NEW k \in E[u.root] PROVE u.parent[k] = Null <=> k = u.root
    <3>1. k \in D[t.root] \/ k = key
      BY <1>6, <1>10
    <3>2. CASE k = key
      BY <1>2, <1>6, <3>2, KeysAssumption DEF SearchTree, Subtrees
    <3>3. CASE k # key
      <4>1. k \in D[t.root] /\ k \in Keys
        BY <1>1, <3>1, <3>3
      <4>2. QED
        BY <1>6, <3>3, <4>1 DEF SearchTree, Links
    <3>4. QED
      BY <3>2, <3>3
  <2>4. ASSUME NEW k \in Keys \ E[u.root] PROVE u.parent[k] = Null /\ \A y \in Side : u.child[k][y] = Null
    <3>1. k # key /\ k \notin D[t.root] /\ k # p
      BY <1>2, <1>6, <1>10
    <3>2. QED
      BY <1>6, <3>1 DEF SearchTree, Links
  <2>5. QED
    BY <2>1, <2>2, <2>3, <2>4 DEF Links
<1>17. Heights(u, h, key)
  <2>1. h \in [Node -> Nat] /\ h[Null] = 0 /\ key # Null
    BY KeysAssumption DEF Heights
  <2>2. ASSUME NEW n \in Keys, NEW y \in Side PROVE LevelOn(u, h, key, n, y)
    <3>1. ASSUME NEW z \in Side PROVE Seen(h, key, u.child[n][z]) = Seen(h, Null, t.child[n][z])
      <4>1. CASE n = p /\ z = x
        BY <1>4, <1>6, <1>7, <2>1, <4>1 DEF Seen
      <4>2. CASE ~ (n = p /\ z = x)
        <5>1. t.child[n][z] # key
          BY <1>7, KeysAssumption DEF SearchTree, Links
        <5>2. QED
          BY <1>6, <4>2, <5>1 DEF Seen
      <4>3. QED
        BY <4>1, <4>2
    <3>2. LevelOn(t, h, Null, n, y)
      BY DEF Heights
    <3>3. QED
      BY <1>6, <3>1, <3>2, Sides DEF LevelOn
  <2>3. QED
    BY <2>1, <2>2 DEF Heights
<1>18. Cardinality(E[key]) > 0
  <2>1. Cardinality({key}) = 1
    BY FS_Singleton
  <2>2. QED
    BY <1>10, <2>1
<1>19. PICK c : c = [tree |-> u, top |-> key]
  OBVIOUS
<1>20. c = [tree |-> c.tree, top |-> c.top] /\ c.tree = u /\ c.top = key
  BY <1>19
<1>21. Climbing(O, D[t.root] \cup {key}, t.obj, c, 0)
  <2>1. SearchTree(u, E) /\ E[u.root] = D[t.root] \cup {key}
    BY <1>6, <1>10, <1>15, <1>16 DEF SearchTree
  <2>2. QED
    BY <1>5, <1>6, <1>17, <1>18, <1>20, <2>1 DEF Climbing, Node
<1>22. QED
  BY <1>19, <1>21

LEMMA InitGood ==
  ASSUME NEW O, Null \in O
  PROVE  Good(O, DictInit, {}) /\ DictInit.obj = [k \in Keys |-> Null]
<1>1. PICK t : t = DictInit
  OBVIOUS
<1>2. /\ t \in Trees(O) /\ t.root = Null /\ t.obj = [k \in Keys |-> Null]
      /\ \A k \in Keys : t.parent[k] = Null /\ t.balance[k] = 0 /\ \A x \in Side : t.child[k][x] = Null
  BY <1>1 DEF DictInit, Trees, Node
<1>3. PICK D : D = [n \in Node |-> IF n = Null THEN {} ELSE {n}]
  OBVIOUS
<1>4. PICK h : h = [n \in Node |-> IF n = Null THEN 0 ELSE 1]
  OBVIOUS
<1>5. /\ D \in [Node -> SUBSET Keys] /\ D[Null] = {} /\ D[t.root] = {}
      /\ \A n \in Keys : D[n] = {n}
  BY <1>2, <1>3, KeysAssumption DEF Node
<1>6. /\ h \in [Node -> Nat] /\ h[Null] = 0 /\ \A n \in Keys : h[n] = 1
  BY <1>4, KeysAssumption DEF Node
<1>7. SearchTree(t, D)
  <2>1. Subtrees(t, D)
    BY <1>2, <1>5 DEF Subtrees
  <2>2. Links(t, D)
    BY <1>2, <1>5, KeysAssumption DEF Links
  <2>3. QED
    BY <2>1, <2>2 DEF SearchTree
<1>8. Heights(t, h, Null)
  <2>1. ASSUME NEW n \in Keys, NEW x \in Side PROVE LevelOn(t, h, Null, n, x)
    <3>1. Sign(x) * t.balance[n] = 0
      BY <1>2, Sides
    <3>2. t.child[n][x] = Null /\ t.child[n][Other(x)] = Null
      BY <1>2, Sides
    <3>3. Seen(h, Null, Null) = 0 /\ Taller(0, 0) = 0 /\ h[n] = 1
      BY <1>6 DEF Seen, Taller
    <3>4. QED
      BY <3>1, <3>2, <3>3 DEF LevelOn
  <2>2. QED
    BY <1>6, <2>1 DEF Heights
<1>9. QED
  BY <1>1, <1>2, <1>5, <1>7, <1>8 DEF Good

LEMMA DictGetGood ==
  ASSUME NEW O, NEW t, NEW R, Good(O, t, R), NEW k \in Keys
  PROVE  DictGet(t, k) = IF k \in R THEN k ELSE Null
<1>1. PICK D, h : SearchTree(t, D) /\ Heights(t, h, Null) /\ D[t.root] = R
  BY DEF Good
<1>2. t \in Trees(O)
  BY DEF Good
<1>3. QED
  BY <1>1, <1>2, DictGetFinds

LEMMA MembersGood ==
  ASSUME NEW O, NEW t, NEW R, Good(O, t, R)
  PROVE  Members(t) = R
<1>1. R \in SUBSET Keys
  BY DEF Good, SearchTree, Subtrees, Trees
<1>2. \A k \in Keys : DictGet(t, k) # Null <=> k \in R
  BY DictGetGood, KeysAssumption
<1>3. QED
  BY <1>1, <1>2, Zenon DEF Members

LEMMA DictSetKeeps ==
  ASSUME NEW O, NEW t, NEW R, Good(O, t, R), NEW key \in Keys, key \notin R, NEW v \in O
  PROVE  /\ Good(O, DictSet(t, key, v), R \cup {key})
         /\ DictSet(t, key, v).obj = [t.obj EXCEPT ![key] = v]
<1>1. PICK D, h : SearchTree(t, D) /\ Heights(t, h, Null) /\ D[t.root] = R
  BY DEF Good
<1>2. t \in Trees(O)
  BY DEF Good
<1>3. PICK new : new = [t EXCEPT !.obj[key] = v]
  OBVIOUS
<1>4. /\ new \in Trees(O) /\ new.root = t.root /\ new.parent = t.parent /\ new.child = t.child
      /\ new.balance = t.balance /\ new.obj = [t.obj EXCEPT ![key] = v]
  BY <1>2, <1>3 DEF Trees
<1>5. SearchTree(new, D) /\ D[new.root] = R
  BY <1>1, <1>4 DEF SearchTree, Subtrees, Links
<1>6. Heights(new, h, Null)
  BY <1>1, <1>4 DEF Heights, LevelOn
<1>7. Good(O, new, R)
  BY <1>4, <1>5, <1>6 DEF Good
<1>8. CASE t.root = Null
  <2>1. DictSet(t, key, v) = [new EXCEPT !.root = key]
    <3>1. DictGet(t, key) = Null
      BY DictGetGood
    <3>2. QED
      BY <1>3, <1>8, <3>1, Zenon DEF DictSet
  <2>2. PICK u : u = [new EXCEPT !.root = key]
    OBVIOUS
  <2>3. Good(O, u, {key}) /\ u.obj = new.obj /\ R = {}
    BY <1>4, <1>7, <1>8, <2>2, FirstKey
  <2>4. R \cup {key} = {key}
    BY <2>3
  <2>5. DictSet(t, key, v) = u
    BY <2>1, <2>2
  <2>6. QED
    BY <1>4, <2>3, <2>4, <2>5
<1>9. CASE t.root # Null
  <2>1. DictGet(t, key) = Null
    BY DictGetGood
  <2>2. PICK p : p = AddingPosition(t, key)
    OBVIOUS
  <2>3. PICK u : u = Hung(new, p, Toward(p, key), key)
    OBVIOUS
  <2>4. DictSet(t, key, v) = Climb(u, key)
    BY <1>3, <1>9, <2>1, <2>2, <2>3, Zenon DEF DictSet
  <2>5. Ends(t, D, key, t.root, p)
    BY <1>1, <1>2, <1>9, <2>2, AddingPositionEnds
  <2>6. Ends(new, D, key, new.root, p)
    BY <1>4, <2>5 DEF Ends
  <2>7. key \notin D[new.root]
    BY <1>5
  <2>8. Climbing(O, D[new.root] \cup {key}, new.obj, [tree |-> u, top |-> key], 0)
    BY <1>4, <1>5, <1>6, <2>3, <2>6, <2>7, KeyAdded
  <2>9. Good(O, Climb(u, key), D[new.root] \cup {key}) /\ Climb(u, key).obj = new.obj
    BY <2>8, ClimbKeeps
  <2>10. QED
    BY <1>4, <1>5, <2>4, <2>9
<1>10. QED
  BY <1>8, <1>9

(***************************************************************************)
(* What node_isbalanced measures.                                           *)
(***************************************************************************)
LEMMA BelowIs ==
  ASSUME NEW O, NEW t \in Trees(O), NEW D, SearchTree(t, D), NEW h, Heights(t, h, Null), NEW n \in Node
  PROVE  Below(t, n) = D[n]
<1> DEFINE Is(f) == f = [m \in Node |-> IF m = Null THEN {} ELSE {m} \cup f[t.child[m]["left"]] \cup f[t.child[m]["right"]]]
           under == CHOOSE f : Is(f)
<1>1. "left" \in Side /\ "right" \in Side /\ \A x \in Side : x = "left" \/ x = "right"
  BY DEF Side
<1>2. D \in [Node -> SUBSET Keys] /\ D[Null] = {}
  BY DEF SearchTree, Subtrees
<1>3. ASSUME NEW m \in Node
      PROVE  D[m] = IF m = Null THEN {} ELSE {m} \cup D[t.child[m]["left"]] \cup D[t.child[m]["right"]]
  <2>1. CASE m = Null
    BY <1>2, <2>1
  <2>2. CASE m # Null
    <3>1. m \in Keys
      BY <2>2 DEF Node
    <3>2. PICK l \in Node, r \in Node : l = t.child[m]["left"] /\ r = t.child[m]["right"]
      BY <1>1, <3>1 DEF Trees
    <3>3. \A k \in Keys : k \in D[m] <=> k = m \/ k \in D[l] \/ k \in D[r]
      BY <1>1, <3>1, <3>2 DEF SearchTree, Subtrees
    <3>4. D[m] \in SUBSET Keys /\ D[l] \in SUBSET Keys /\ D[r] \in SUBSET Keys
      BY <1>2
    <3>5. D[m] = {m} \cup D[l] \cup D[r]
      BY <3>1, <3>3, <3>4
    <3>6. QED
      BY <2>2, <3>2, <3>5
  <2>3. QED
    BY <2>1, <2>2
<1>4. Is(D)
  BY <1>2, <1>3
<1>5. Is(under)
  BY <1>4
<1>6. Below(t, n) = under[n]
  BY Zenon DEF Below
<1> HIDE DEF under
<1> DEFINE S == {m \in Node : under[m] = D[m]}
<1>7. Null \in S
  BY <1>2, <1>5 DEF Node
<1>8. ASSUME NEW m \in Keys, \A x \in Side : t.child[m][x] \in S PROVE m \in S
  <2>1. m \in Node /\ m # Null
    BY KeysAssumption DEF Node
  <2>2. under[t.child[m]["left"]] = D[t.child[m]["left"]] /\ under[t.child[m]["right"]] = D[t.child[m]["right"]]
    BY <1>1, <1>8
  <2>3. under[m] = {m} \cup under[t.child[m]["left"]] \cup under[t.child[m]["right"]]
    BY <1>5, <2>1
  <2>4. D[m] = {m} \cup D[t.child[m]["left"]] \cup D[t.child[m]["right"]]
    BY <1>3, <2>1
  <2>5. under[m] = D[m]
    BY <2>2, <2>3, <2>4, Zenon
  <2>6. QED
    BY <2>1, <2>5
<1> HIDE DEF S
<1>9. n \in S
  BY <1>7, <1>8, TreeInduction
<1>10. QED
  BY <1>6, <1>9 DEF S

LEMMA HeightIs ==
  ASSUME NEW O, NEW t \in Trees(O), NEW h, Heights(t, h, Null), NEW n \in Node
  PROVE  Height(t, n) = h[n]
<1> DEFINE Is(f) == f = [m \in Node |-> IF m = Null THEN 0 ELSE 1 + Max({f[t.child[m][s]] : s \in Side})]
           tall == CHOOSE f : Is(f)
<1>1. "left" \in Side /\ "right" \in Side /\ \A x \in Side : x = "left" \/ x = "right"
  BY DEF Side
<1>2. h \in [Node -> Nat] /\ h[Null] = 0
  BY DEF Heights
<1>3. ASSUME NEW m \in Node
      PROVE  h[m] = IF m = Null THEN 0 ELSE 1 + Max({h[t.child[m][s]] : s \in Side})
  <2>1. CASE m = Null
    BY <1>2, <2>1
  <2>2. CASE m # Null
    <3>1. m \in Keys
      BY <2>2 DEF Node
    <3>2. PICK l \in Node, r \in Node : l = t.child[m]["left"] /\ r = t.child[m]["right"]
      BY <1>1, <3>1 DEF Trees
    <3>3. PICK i \in Nat, j \in Nat : i = h[l] /\ j = h[r]
      BY <1>2
    <3>4. {h[t.child[m][s]] : s \in Side} = {i, j}
      BY <1>1, <3>2, <3>3
    <3>5. LevelOn(t, h, Null, m, "left")
      BY <1>1, <3>1 DEF Heights
    <3>6. h[m] = 1 + Taller(i, j)
      <4>1. t.child[m][Other("left")] = r /\ t.child[m]["left"] = l
        BY <3>2 DEF Other
      <4>2. Seen(h, Null, l) = i /\ Seen(h, Null, r) = j
        BY <3>3 DEF Seen
      <4>3. QED
        BY <3>5, <4>1, <4>2 DEF LevelOn
    <3>7. Max({i, j}) = Taller(i, j)
      BY MaxOfTwo
    <3>8. QED
      BY <2>2, <3>4, <3>6, <3>7
  <2>3. QED
    BY <2>1, <2>2
<1>4. Is(h)
  <2>1. h = [m \in Node |-> h[m]]
    BY <1>2
  <2> DEFINE e == [m \in Node |-> IF m = Null THEN 0 ELSE 1 + Max({h[t.child[m][s]] : s \in Side})]
  <2>2. \A m \in Node : e[m] = h[m]
    BY <1>3, Zenon
  <2>3. e = [m \in Node |-> e[m]]
    BY Zenon
  <2> HIDE DEF e
  <2>4. h = e
    BY <2>1, <2>2, <2>3
  <2>5. QED
    BY <2>4, Zenon DEF e
<1>5. Is(tall)
  <2> HIDE DEF Is
  <2>1. QED
    BY <1>4, Zenon
<1>6. Height(t, n) = tall[n]
  BY Zenon DEF Height
<1> HIDE DEF tall
<1> DEFINE S == {m \in Node : tall[m] = h[m]}
<1>a. ASSUME NEW m \in Node
      PROVE  tall[m] = IF m = Null THEN 0 ELSE 1 + Max({tall[t.child[m][s]] : s \in Side})
  BY <1>5, Zenon
<1>7. Null \in S
  BY <1>2, <1>a DEF Node
<1>8. ASSUME NEW m \in Keys, \A x \in Side : t.child[m][x] \in S PROVE m \in S
  <2>1. m \in Node /\ m # Null
    BY KeysAssumption DEF Node
  <2>2. \A x \in Side : tall[t.child[m][x]] = h[t.child[m][x]]
    BY <1>8
  <2>3. {tall[t.child[m][s]] : s \in Side} = {h[t.child[m][s]] : s \in Side}
    BY <2>2
  <2>4. tall[m] = 1 + Max({tall[t.child[m][s]] : s \in Side})
    BY <1>a, <2>1
  <2>5. h[m] = 1 + Max({h[t.child[m][s]] : s \in Side})
    BY <1>3, <2>1
  <2>6. tall[m] = h[m]
    BY <2>3, <2>4, <2>5, Zenon
  <2>7. QED
    BY <2>1, <2>6
<1> HIDE DEF S
<1>9. n \in S
  BY <1>7, <1>8, TreeInduction
<1>10. QED
  BY <1>6, <1>9 DEF S

LEMMA GoodBalanced ==
  ASSUME NEW O, NEW t, NEW R, Good(O, t, R), NEW k \in Members(t),
         NEW left, left = t.child[k]["left"], NEW right, right = t.child[k]["right"]
  PROVE  /\ t.balance[k] = Height(t, right) - Height(t, left)
         /\ t.balance[k] \in -1 .. 1
         /\ \A m \in Below(t, left) : k < m
         /\ \A m \in Below(t, right) : m < k
         /\ \A m \in {left, right} \ {Null} : t.parent[m] = k
         /\ t.parent[k] = Null <=> t.root = k
<1>1. PICK D, h : SearchTree(t, D) /\ Heights(t, h, Null) /\ D[t.root] = R
  BY DEF Good
<1>2. t \in Trees(O)
  BY DEF Good
<1>3. k \in Keys /\ k \in R
  BY MembersGood DEF Members
<1>4. "left" \in Side /\ "right" \in Side /\ Other("right") = "left" /\ Sign("right") = 1
  BY DEF Side, Other, Sign
<1>5. left \in Node /\ right \in Node
  BY <1>2, <1>3, <1>4 DEF Trees
<1>6. Height(t, right) = h[right] /\ Height(t, left) = h[left] /\ Below(t, left) = D[left] /\ Below(t, right) = D[right]
  BY <1>1, <1>2, <1>5, HeightIs, BelowIs
<1>7. /\ t.balance[k] = h[right] - h[left] /\ h[right] - h[left] <= 1 /\ h[left] - h[right] <= 1
      /\ h[left] \in Nat /\ h[right] \in Nat
  <2>1. LevelOn(t, h, Null, k, "right")
    BY <1>1, <1>3, <1>4 DEF Heights
  <2>2. Seen(h, Null, left) = h[left] /\ Seen(h, Null, right) = h[right]
    BY DEF Seen
  <2>3. t.balance[k] \in Int /\ h[left] \in Nat /\ h[right] \in Nat
    BY <1>1, <1>2, <1>3, <1>5 DEF Trees, Heights
  <2>4. QED
    BY <1>4, <2>1, <2>2, <2>3 DEF LevelOn
<1>8. t.balance[k] \in -1 .. 1
  BY <1>7
<1>9. (\A m \in D[left] : k < m) /\ (\A m \in D[right] : m < k)
  BY <1>1, <1>3, <1>4 DEF SearchTree, Subtrees, OnSide
<1>10. \A m \in {left, right} \ {Null} : t.parent[m] = k
  BY <1>1, <1>3, <1>4, <1>5 DEF SearchTree, Links, Node
<1>11. t.parent[k] = Null <=> t.root = k
  BY <1>1, <1>3 DEF SearchTree, Links
<1>12. QED
  BY <1>6, <1>7, <1>8, <1>9, <1>10, <1>11

(***************************************************************************)
(* The labels.                                                              *)
(***************************************************************************)
Label == [type : {"address", "constant"}, val : Nat]
Objects == Label \cup {Null}
Defined == {k \in Keys : labels.obj[k] # Null}
IsAddress(k) == labels.obj[k] # Null /\ labels.obj[k].type = "address"

\* The tree is a good one of the labels that have an object, and those that are
\* addresses are where the source defines them.
LabelsInv ==
  /\ Good(Objects, labels, Defined)
  /\ source.places \in [Keys -> Nat \cup {Null}]
  /\ \A k \in Keys : source.places[k] = IF IsAddress(k) THEN labels.obj[k].val ELSE Null

LEMMA NoLabel == Null \notin Label /\ Null \notin Nat
  BY AssemblerAssumption DEF Label

LEMMA Labels ==
  ASSUME LabelsInv
  PROVE  /\ labels \in Trees(Objects) /\ labels.obj \in [Keys -> Objects]
         /\ \A k \in Keys : DictGet(labels, k) = Null <=> labels.obj[k] = Null
         /\ \A k \in Keys : labels.obj[k] # Null => labels.obj[k] \in Label
<1>1. labels \in Trees(Objects) /\ labels.obj \in [Keys -> Objects]
  BY DEF LabelsInv, Good, Trees
<1>2. ASSUME NEW k \in Keys PROVE DictGet(labels, k) = Null <=> labels.obj[k] = Null
  <2>1. DictGet(labels, k) = IF k \in Defined THEN k ELSE Null
    BY DictGetGood DEF LabelsInv
  <2>2. QED
    BY <2>1, KeysAssumption DEF Defined
<1>3. QED
  BY <1>1, <1>2 DEF Objects

LEMMA LabelsInit == Init => LabelsInv
<1>1. SUFFICES ASSUME Init PROVE LabelsInv
  OBVIOUS
<1>2. labels = DictInit /\ source.places = [k \in Keys |-> Null]
  <2>1. labels = DictInit /\ source = [places |-> [k \in Keys |-> Null], refs |-> {}]
    BY <1>1 DEF Init
  <2>2. QED
    BY <2>1
<1>3. Good(Objects, labels, {}) /\ labels.obj = [k \in Keys |-> Null]
  BY <1>2, InitGood DEF Objects
<1>4. Defined = {}
  BY <1>3 DEF Defined
<1>5. QED
  BY <1>2, <1>3, <1>4 DEF LabelsInv, IsAddress

LEMMA LabelsAdded ==
  ASSUME LabelsInv, NEW name \in Keys, NEW type \in {"address", "constant"}, NEW val \in Nat,
         AddLabel(name, type, val),
         source'.places = IF type = "address" THEN [source.places EXCEPT ![name] = val] ELSE source.places
  PROVE  /\ LabelsInv'
         /\ labels.obj[name] = Null
         /\ labels'.obj = [labels.obj EXCEPT ![name] = [type |-> type, val |-> val]]
<1>1. PICK v : v = [type |-> type, val |-> val]
  OBVIOUS
<1>2. v \in Label /\ v \in Objects /\ v # Null /\ v.type = type /\ v.val = val
  BY <1>1, NoLabel DEF Label, Objects
<1>3. DictGet(labels, name) = Null /\ labels' = DictSet(labels, name, v)
  BY <1>1 DEF AddLabel
<1>4. labels.obj[name] = Null /\ labels.obj \in [Keys -> Objects]
  BY <1>3, Labels
<1>5. name \notin Defined
  BY <1>4 DEF Defined
<1>6. /\ Good(Objects, DictSet(labels, name, v), Defined \cup {name})
      /\ DictSet(labels, name, v).obj = [labels.obj EXCEPT ![name] = v]
  <2>1. PICK t, R : t = labels /\ R = Defined
    OBVIOUS
  <2>2. Good(Objects, t, R) /\ name \notin R
    BY <1>5, <2>1 DEF LabelsInv
  <2>3. /\ Good(Objects, DictSet(t, name, v), R \cup {name})
        /\ DictSet(t, name, v).obj = [t.obj EXCEPT ![name] = v]
    BY <1>2, <2>2, DictSetKeeps
  <2>4. QED
    BY <2>1, <2>3
<1>7. Good(Objects, labels', Defined \cup {name}) /\ labels'.obj = [labels.obj EXCEPT ![name] = v]
  BY <1>3, <1>6
<1>8. \A k \in Keys : labels'.obj[k] = IF k = name THEN v ELSE labels.obj[k]
  BY <1>4, <1>7
<1>9. Defined' = Defined \cup {name}
  BY <1>2, <1>8 DEF Defined
<1>10. /\ source'.places \in [Keys -> Nat \cup {Null}]
       /\ \A k \in Keys : source'.places[k] = IF k = name /\ type = "address" THEN val ELSE source.places[k]
  BY DEF LabelsInv
<1>11. ASSUME NEW k \in Keys
       PROVE  source'.places[k] = IF labels'.obj[k] # Null /\ labels'.obj[k].type = "address"
                                  THEN labels'.obj[k].val ELSE Null
  <2>1. source.places[k] = IF labels.obj[k] # Null /\ labels.obj[k].type = "address"
                           THEN labels.obj[k].val ELSE Null
    BY DEF LabelsInv, IsAddress
  <2>2. CASE k = name
    BY <1>2, <1>4, <1>8, <1>10, <2>1, <2>2
  <2>3. CASE k # name
    BY <1>8, <1>10, <2>1, <2>3
  <2>4. QED
    BY <2>2, <2>3
<1>12. LabelsInv'
  BY <1>7, <1>9, <1>10, <1>11 DEF LabelsInv, IsAddress
<1>13. QED
  BY <1>1, <1>4, <1>7, <1>12

LEMMA LabelsSame ==
  ASSUME LabelsInv, labels' = labels, source'.places = source.places
  PROVE  LabelsInv'
  BY DEF LabelsInv, IsAddress, Defined

(***************************************************************************)
(* The lines, their fixups and what was patched.                            *)
(***************************************************************************)
Fixes == [adr : Nat, size : {Byte, Word, Long}, relTo : Nat, label : Keys]
Refs == [kind : Kinds, label : Used, op : Nat]
FixOf(r) == [adr |-> At(r), size |-> ShapeOf(r.kind).size,
             relTo |-> r.op + 2 + (IF r.kind = "movem" THEN 2 ELSE 0), label |-> r.label]
Width(f) == IF f.size = Long THEN 4 ELSE 1

\* The fixups are of references, in the order of their addresses, apart from each other
\* and behind what was patched.
LinesInv ==
  /\ pos \in Nat
  /\ source = [places |-> source.places, refs |-> source.refs] /\ source.refs \in SUBSET Refs
  /\ fixups \in Seq(Fixes)
  /\ \A i \in 1 .. Len(fixups) : \E r \in source.refs : fixups[i] = FixOf(r)
  /\ \A i \in 1 .. Len(fixups) : fixups[i].adr + Width(fixups[i]) <= pos
  /\ \A i, j \in 1 .. Len(fixups) : i < j => fixups[i].adr + Width(fixups[i]) <= fixups[j].adr
  /\ \A a \in DOMAIN image, i \in 1 .. Len(fixups) : a # fixups[i].adr

\* Every reference is a constant, waits for its fixup or is done.
Valued(r) == IsLong(r) /\ labels.obj[r.label] # Null /\ labels.obj[r.label].type = "constant"
Waits(r) == \E i \in 1 .. Len(fixups) : fixups[i] = FixOf(r)
Done(r) ==
  /\ At(r) \in DOMAIN image /\ IsAddress(r.label)
  /\ image[At(r)] = IF IsLong(r) THEN labels.obj[r.label].val
                    ELSE labels.obj[r.label].val - FixOf(r).relTo
RefsInv == \A r \in source.refs : Valued(r) \/ Waits(r) \/ Done(r)

PhaseInv ==
  /\ phase = "pass1" => /\ image = <<>>
                        /\ table = [first |-> 0, bytes |-> <<>>, last |-> -1]
  /\ phase \in {"file", "reading", "ready"} => fixups = <<>>

CodeInv == LabelsInv /\ LinesInv /\ RefsInv /\ PhaseInv

LEMMA Shapes ==
  ASSUME NEW kind \in Kinds, NEW s, s = ShapeOf(kind)
  PROVE  /\ s = Shape(s.length, s.at, s.size, s.pc)
         /\ s.at \in Nat /\ s.length \in Nat /\ s.size \in {Byte, Word, Long} /\ s.pc \in Nat
         /\ s.at + (IF s.size = Long THEN 4 ELSE 1) <= s.length
         /\ s.size = Long <=> kind \in {"data", "absolute"}
         /\ kind \notin {"data", "absolute", "btst"} =>
              s.pc = 2 + (IF kind = "movem" THEN 2 ELSE 0)
<1>1. kind \in {"data", "absolute", "short", "branch", "index", "relative", "movem", "btst"}
  BY AssemblerAssumption
<1> USE DEF Byte, Word, Long
<1>2. CASE kind = "data"
  BY <1>2 DEF ShapeOf, Shape
<1>3. CASE kind = "absolute"
  BY <1>3 DEF ShapeOf, Shape
<1>4. CASE kind = "short"
  BY <1>4 DEF ShapeOf, Shape
<1>5. CASE kind = "branch"
  BY <1>5 DEF ShapeOf, Shape
<1>6. CASE kind = "index"
  BY <1>6 DEF ShapeOf, Shape
<1>7. CASE kind = "relative"
  BY <1>7 DEF ShapeOf, Shape
<1>8. CASE kind = "movem"
  BY <1>8 DEF ShapeOf, Shape
<1>9. CASE kind = "btst"
  BY <1>9 DEF ShapeOf, Shape
<1>10. QED
  BY <1>1, <1>2, <1>3, <1>4, <1>5, <1>6, <1>7, <1>8, <1>9

LEMMA FixFields ==
  ASSUME NEW r \in Refs, NEW f, f = FixOf(r)
  PROVE  /\ f \in Fixes /\ f.adr = At(r) /\ f.label = r.label /\ At(r) \in Nat /\ r.label \in Keys
         /\ f.size = Long <=> IsLong(r)
         /\ f.relTo = r.op + 2 + (IF r.kind = "movem" THEN 2 ELSE 0)
         /\ f.relTo \in Nat
<1>1. r.kind \in Kinds /\ r.label \in Used /\ r.op \in Nat
  BY DEF Refs
<1>2. r.label \in Keys
  BY <1>1, AssemblerAssumption
<1>3. PICK s : s = ShapeOf(r.kind)
  OBVIOUS
<1>4. s.at \in Nat /\ s.size \in {Byte, Word, Long} /\ (s.size = Long <=> r.kind \in {"data", "absolute"})
  BY <1>1, <1>3, Shapes
<1>5. At(r) = r.op + s.at /\ At(r) \in Nat
  BY <1>1, <1>3, <1>4 DEF At
<1>6. f = [adr |-> At(r), size |-> s.size, relTo |-> r.op + 2 + (IF r.kind = "movem" THEN 2 ELSE 0), label |-> r.label]
  BY <1>3 DEF FixOf
<1>7. r.op + 2 + (IF r.kind = "movem" THEN 2 ELSE 0) \in Nat
  BY <1>1
<1>8. QED
  BY <1>2, <1>4, <1>5, <1>6, <1>7 DEF Fixes, IsLong

LEMMA CodeInit == Init => CodeInv
<1>1. SUFFICES ASSUME Init PROVE LinesInv /\ RefsInv /\ PhaseInv
  BY LabelsInit DEF CodeInv
<1>2. /\ phase = "pass1" /\ pos = 0 /\ fixups = <<>> /\ image = <<>>
      /\ table = [first |-> 0, bytes |-> <<>>, last |-> -1]
  BY <1>1 DEF Init
<1>3. source = [places |-> [k \in Keys |-> Null], refs |-> {}]
  BY <1>1 DEF Init
<1>4. source = [places |-> source.places, refs |-> source.refs] /\ source.refs = {}
  BY <1>3
<1>5. LinesInv
  BY <1>2, <1>4 DEF LinesInv
<1>6. QED
  BY <1>2, <1>4, <1>5 DEF RefsInv, PhaseInv

\* Lines that define a label, or leave space.
LEMMA LinesDefine ==
  ASSUME CodeInv, phase = "pass1", NEW name \in Keys, NEW type \in {"address", "constant"}, NEW val \in Nat,
         AddLabel(name, type, val),
         source' = IF type = "address" THEN [source EXCEPT !.places[name] = val] ELSE source,
         UNCHANGED <<phase, pos, fixups, image, table>>
  PROVE  CodeInv'
<1>1. source'.refs = source.refs /\ source' = [places |-> source'.places, refs |-> source'.refs]
      /\ source'.places = IF type = "address" THEN [source.places EXCEPT ![name] = val] ELSE source.places
  BY DEF CodeInv, LinesInv
<1>2. /\ LabelsInv' /\ labels.obj[name] = Null
      /\ labels'.obj = [labels.obj EXCEPT ![name] = [type |-> type, val |-> val]]
  BY <1>1, LabelsAdded DEF CodeInv
<1>3. \A k \in Keys : labels.obj[k] # Null => labels'.obj[k] = labels.obj[k]
  BY <1>2, Labels DEF CodeInv
<1>4. LinesInv'
  BY <1>1 DEF CodeInv, LinesInv
<1>5. RefsInv'
  <2>1. SUFFICES ASSUME NEW r \in source.refs PROVE Valued(r)' \/ Waits(r)'
    BY <1>1 DEF RefsInv
  <2>2. ~ Done(r)
    BY DEF CodeInv, PhaseInv, Done
  <2>3. r.label \in Keys
    BY FixFields DEF CodeInv, LinesInv
  <2>4. Valued(r) \/ Waits(r)
    BY <2>2 DEF CodeInv, RefsInv
  <2>5. Valued(r) => Valued(r)'
    BY <1>3, <2>3 DEF Valued
  <2>6. Waits(r) => Waits(r)'
    BY DEF Waits
  <2>7. QED
    BY <2>4, <2>5, <2>6
<1>6. PhaseInv'
  BY DEF CodeInv, PhaseInv
<1>7. QED
  BY <1>2, <1>4, <1>5, <1>6 DEF CodeInv

LEMMA LinesSpace ==
  ASSUME CodeInv, NEW n \in Nat, pos' = pos + n, UNCHANGED <<phase, labels, fixups, image, table, source>>
  PROVE  CodeInv'
<1>1. LabelsInv'
  BY LabelsSame DEF CodeInv
<1>2. pos' \in Nat /\ \A i \in 1 .. Len(fixups) : fixups[i].adr + Width(fixups[i]) <= pos + n
  <2>1. pos \in Nat
    BY DEF CodeInv, LinesInv
  <2>2. ASSUME NEW i \in 1 .. Len(fixups) PROVE fixups[i].adr + Width(fixups[i]) <= pos + n
    <3>1. fixups[i].adr \in Nat
      <4>1. fixups[i] \in Fixes
        BY DEF CodeInv, LinesInv
      <4>2. QED
        BY <4>1 DEF Fixes
    <3>2. fixups[i].adr + Width(fixups[i]) <= pos
      BY DEF CodeInv, LinesInv
    <3>3. Width(fixups[i]) \in Nat
      BY DEF Width
    <3>4. QED
      BY <2>1, <3>1, <3>2, <3>3
  <2>3. QED
    BY <2>1, <2>2
<1>3. LinesInv'
  BY <1>2 DEF CodeInv, LinesInv
<1>4. RefsInv' /\ PhaseInv'
  BY DEF CodeInv, RefsInv, PhaseInv, Valued, Waits, Done, IsAddress
<1>5. QED
  BY <1>1, <1>3, <1>4 DEF CodeInv

LEMMA LinesRefer ==
  ASSUME CodeInv, NEW kind \in Kinds, NEW name \in Used, Reference(kind, name)
  PROVE  CodeInv'
<1>1. PICK r : r = [kind |-> kind, label |-> name, op |-> pos]
  OBVIOUS
<1>2. PICK s : s = ShapeOf(kind)
  OBVIOUS
<1>3. PICK f : f = FixOf(r)
  OBVIOUS
<1>4. pos \in Nat /\ r \in Refs
  BY <1>1 DEF CodeInv, LinesInv, Refs
<1>5. /\ f \in Fixes /\ f.adr = pos + s.at /\ f.label = name /\ name \in Keys
      /\ f.size = Long <=> IsLong(r)
  BY <1>1, <1>2, <1>3, <1>4, FixFields DEF At
<1>6. f = [adr |-> pos + s.at, size |-> s.size, relTo |-> RelTo(kind), label |-> name]
  BY <1>1, <1>2, <1>3 DEF FixOf, At, RelTo
<1>7. f.size = s.size
  BY <1>6
<1>8. /\ s.at \in Nat /\ s.length \in Nat /\ s.at + Width(f) <= s.length
  BY <1>2, <1>7, Shapes DEF Width
<1>9. PICK value \in BOOLEAN : value = (kind \in {"data", "absolute"} /\ IsConstant(name))
  OBVIOUS
<1>10. /\ phase = "pass1" /\ pos' = pos + s.length
       /\ fixups' = IF value THEN fixups ELSE Append(fixups, f)
       /\ source' = [source EXCEPT !.refs = @ \cup {r}]
       /\ UNCHANGED <<phase, labels, image, table>>
  BY <1>1, <1>2, <1>6, <1>9 DEF Reference, Line
<1>11. /\ source'.refs = source.refs \cup {r} /\ source'.places = source.places
       /\ source' = [places |-> source'.places, refs |-> source'.refs]
  BY <1>10 DEF CodeInv, LinesInv
<1>12. LabelsInv'
  BY <1>10, <1>11, LabelsSame DEF CodeInv
<1>13. image = <<>> /\ image' = <<>>
  BY <1>10 DEF CodeInv, PhaseInv
<1>14. /\ fixups \in Seq(Fixes)
       /\ \A i \in 1 .. Len(fixups) : fixups[i].adr + Width(fixups[i]) <= pos
       /\ \A i, j \in 1 .. Len(fixups) : i < j => fixups[i].adr + Width(fixups[i]) <= fixups[j].adr
       /\ \A i \in 1 .. Len(fixups) : \E q \in source.refs : fixups[i] = FixOf(q)
  BY DEF CodeInv, LinesInv
<1>15. Width(f) \in Nat /\ \A i \in 1 .. Len(fixups) : fixups[i].adr \in Nat /\ Width(fixups[i]) \in Nat
  <2>1. ASSUME NEW i \in 1 .. Len(fixups) PROVE fixups[i].adr \in Nat
    <3>1. fixups[i] \in Fixes
      BY <1>14
    <3>2. QED
      BY <3>1 DEF Fixes
  <2>2. QED
    BY <2>1 DEF Width
<1>16. pos' \in Nat /\ pos + s.at + Width(f) <= pos' /\ pos <= pos'
  BY <1>4, <1>8, <1>10, <1>15
<1>17. \A i \in 1 .. Len(fixups) : fixups[i].adr + Width(fixups[i]) <= pos'
                                  /\ fixups[i].adr + Width(fixups[i]) <= f.adr
  BY <1>4, <1>5, <1>8, <1>14, <1>15, <1>16
<1>18. LinesInv'
  <2>1. CASE value
    BY <1>4, <1>10, <1>11, <1>13, <1>14, <1>16, <1>17, <2>1 DEF LinesInv, CodeInv
  <2>2. CASE ~ value
    <3>1. PICK n \in Nat : n = Len(fixups)
      BY <1>14
    <3>2. fixups' = Append(fixups, f)
      BY <1>10, <2>2
    <3>3. /\ fixups' \in Seq(Fixes) /\ Len(fixups') = n + 1
          /\ \A i \in 1 .. n + 1 : fixups'[i] = IF i = n + 1 THEN f ELSE fixups[i]
      BY <1>5, <1>14, <3>1, <3>2
    <3>4. \A i \in 1 .. n + 1 : i = n + 1 \/ i \in 1 .. n
      BY <3>1
    <3>5. \A i \in 1 .. n + 1 : \E q \in source'.refs : fixups'[i] = FixOf(q)
      BY <1>3, <1>11, <1>14, <3>1, <3>3, <3>4
    <3>6. \A i \in 1 .. n + 1 : fixups'[i].adr + Width(fixups'[i]) <= pos'
      BY <1>5, <1>16, <1>17, <3>1, <3>3, <3>4
    <3>7. ASSUME NEW i \in 1 .. n + 1, NEW j \in 1 .. n + 1, i < j
          PROVE  fixups'[i].adr + Width(fixups'[i]) <= fixups'[j].adr
      <4>1. i \in 1 .. n /\ i # n + 1
        BY <3>1, <3>7
      <4>2. CASE j = n + 1
        BY <1>17, <3>1, <3>3, <4>1, <4>2
      <4>3. CASE j # n + 1
        BY <1>14, <3>1, <3>3, <3>4, <3>7, <4>1, <4>3
      <4>4. QED
        BY <4>2, <4>3
    <3>8. source'.refs \in SUBSET Refs
      BY <1>4, <1>11 DEF CodeInv, LinesInv
    <3>9. QED
      BY <1>11, <1>13, <1>16, <3>3, <3>5, <3>6, <3>7, <3>8 DEF LinesInv
  <2>3. QED
    BY <2>1, <2>2
<1>19. RefsInv'
  <2>1. ASSUME NEW q \in source.refs PROVE Valued(q)' \/ Waits(q)'
    <3>1. ~ Done(q)
      BY <1>13 DEF Done
    <3>2. Valued(q) \/ Waits(q)
      BY <3>1 DEF CodeInv, RefsInv
    <3>3. Valued(q) => Valued(q)'
      BY <1>10 DEF Valued
    <3>4. Waits(q) => Waits(q)'
      <4>1. SUFFICES ASSUME NEW i \in 1 .. Len(fixups), fixups[i] = FixOf(q)
                     PROVE  i \in 1 .. Len(fixups') /\ fixups'[i] = fixups[i]
        BY DEF Waits
      <4>2. QED
        BY <1>5, <1>10, <1>14
    <3>5. QED
      BY <3>2, <3>3, <3>4
  <2>2. Valued(r)' \/ Waits(r)'
    <3>1. CASE value
      <4>1. DictGet(labels, name) # Null /\ labels.obj[name].type = "constant" /\ IsLong(r)
        BY <1>1, <1>9, <3>1 DEF IsConstant, IsLong
      <4>2. labels.obj[name] # Null
        BY <1>5, <4>1, Labels DEF CodeInv
      <4>3. QED
        BY <1>1, <1>10, <4>1, <4>2 DEF Valued
    <3>2. CASE ~ value
      <4>1. Len(fixups') \in Nat /\ Len(fixups') >= 1 /\ fixups'[Len(fixups')] = f
        BY <1>5, <1>10, <1>14, <3>2
      <4>2. QED
        BY <1>3, <4>1 DEF Waits
    <3>3. QED
      BY <3>1, <3>2
  <2>3. QED
    BY <1>11, <2>1, <2>2 DEF RefsInv
<1>20. PhaseInv'
  BY <1>10 DEF CodeInv, PhaseInv
<1>21. QED
  BY <1>12, <1>18, <1>19, <1>20 DEF CodeInv

\* The second pass patches the first fixup that waits.
LEMMA Patched ==
  ASSUME CodeInv, Resolve
  PROVE  \E f \in Fixes, val \in Nat :
           /\ f = Head(fixups) /\ fixups # <<>> /\ fixups[1] = f
           /\ IsAddress(f.label) /\ labels.obj[f.label].val = val
           /\ f.adr \in Nat /\ f.relTo \in Nat /\ f.label \in Keys
           /\ image' = [a \in DOMAIN image \cup {f.adr} |->
                          IF a = f.adr THEN (IF f.size = Long THEN val ELSE val - f.relTo) ELSE image[a]]
           /\ table' = IF f.size = Long THEN Relocate(f.adr) ELSE table
           /\ fixups' = Tail(fixups)
           /\ phase = "pass2"
           /\ UNCHANGED <<phase, pos, labels, reader, applied, source>>
<1>1. fixups \in Seq(Fixes) /\ fixups # <<>>
  BY DEF CodeInv, LinesInv, Resolve
<1>2. PICK f : f = Head(fixups)
  OBVIOUS
<1>3. f \in Fixes /\ fixups[1] = f
  BY <1>1, <1>2
<1>4. f.adr \in Nat /\ f.relTo \in Nat /\ f.label \in Keys
  BY <1>3 DEF Fixes
<1>5. PICK val : val = labels.obj[f.label].val
  OBVIOUS
<1>6. DictGet(labels, f.label) # Null /\ labels.obj[f.label].type = "address"
  BY <1>2 DEF Resolve, Resolvable
<1>7. labels.obj[f.label] # Null /\ labels.obj[f.label] \in Label
  BY <1>4, <1>6, Labels DEF CodeInv
<1>8. val \in Nat
  BY <1>5, <1>7 DEF Label
<1>9. IsAddress(f.label)
  BY <1>6, <1>7 DEF IsAddress
<1>10. /\ image' = [a \in DOMAIN image \cup {f.adr} |->
                          IF a = f.adr THEN (IF f.size = Long THEN val ELSE val - f.relTo) ELSE image[a]]
       /\ table' = IF f.size = Long THEN Relocate(f.adr) ELSE table
       /\ fixups' = Tail(fixups) /\ phase = "pass2"
       /\ UNCHANGED <<phase, pos, labels, reader, applied, source>>
  BY <1>2, <1>5 DEF Resolve
<1>11. QED
  BY <1>1, <1>2, <1>3, <1>4, <1>5, <1>8, <1>9, <1>10

LEMMA Tailed ==
  ASSUME NEW S, NEW s \in Seq(S), s # <<>>
  PROVE  /\ Len(s) \in Nat /\ Len(s) >= 1 /\ Tail(s) \in Seq(S) /\ Len(Tail(s)) = Len(s) - 1
         /\ \A i \in 1 .. Len(Tail(s)) : i + 1 \in 1 .. Len(s) /\ Tail(s)[i] = s[i + 1]
         /\ \A i \in 1 .. Len(s) : i = 1 \/ (i - 1 \in 1 .. Len(Tail(s)) /\ Tail(s)[i - 1] = s[i])
<1>1. Len(s) \in Nat /\ Len(s) >= 1 /\ Tail(s) \in Seq(S) /\ Len(Tail(s)) = Len(s) - 1
  OBVIOUS
<1>2. \A i \in 1 .. Len(Tail(s)) : i + 1 \in 1 .. Len(s) /\ Tail(s)[i] = s[i + 1]
  BY <1>1
<1>3. ASSUME NEW i \in 1 .. Len(s), i # 1
      PROVE  i - 1 \in 1 .. Len(Tail(s)) /\ Tail(s)[i - 1] = s[i]
  <2>1. i - 1 \in 1 .. Len(Tail(s)) /\ (i - 1) + 1 = i
    BY <1>1, <1>3
  <2>2. QED
    BY <1>2, <2>1
<1>4. QED
  BY <1>1, <1>2, <1>3

LEMMA LinesPatched == ASSUME CodeInv, Resolve PROVE CodeInv'
<1>1. PICK f \in Fixes, val \in Nat :
           /\ f = Head(fixups) /\ fixups # <<>> /\ fixups[1] = f
           /\ IsAddress(f.label) /\ labels.obj[f.label].val = val
           /\ f.adr \in Nat /\ f.relTo \in Nat /\ f.label \in Keys
           /\ image' = [a \in DOMAIN image \cup {f.adr} |->
                          IF a = f.adr THEN (IF f.size = Long THEN val ELSE val - f.relTo) ELSE image[a]]
           /\ fixups' = Tail(fixups)
           /\ phase = "pass2"
           /\ UNCHANGED <<phase, pos, labels, source>>
  BY Patched
<1>2. /\ DOMAIN image' = DOMAIN image \cup {f.adr}
      /\ \A a \in DOMAIN image : image'[a] = image[a]
  <2>1. PICK D, g, a, x : D = DOMAIN image /\ g = image /\ a = f.adr /\ x = image'
    OBVIOUS
  <2>2. a \notin D
    <3>1. 1 \in 1 .. Len(fixups)
      BY <1>1, Tailed DEF CodeInv, LinesInv
    <3>2. QED
      BY <1>1, <2>1, <3>1 DEF CodeInv, LinesInv
  <2>3. QED
    BY <1>1, <2>1, <2>2
<1>3. fixups \in Seq(Fixes) /\ \A a \in DOMAIN image, i \in 1 .. Len(fixups) : a # fixups[i].adr
  BY DEF CodeInv, LinesInv
<1>4. Len(fixups) \in Nat /\ Len(fixups) >= 1
  BY <1>1, <1>3, Tailed
<1>5. f.adr \notin DOMAIN image
  BY <1>1, <1>3, <1>4
<1>6. image'[f.adr] = IF f.size = Long THEN val ELSE val - f.relTo
  BY <1>1, <1>5
<1>7. LabelsInv'
  BY <1>1, LabelsSame DEF CodeInv
<1>8. LinesInv'
  <2>1. /\ pos' \in Nat /\ source' = [places |-> source'.places, refs |-> source'.refs]
        /\ source'.refs \in SUBSET Refs
    BY <1>1 DEF CodeInv, LinesInv
  <2>2. /\ Tail(fixups) \in Seq(Fixes) /\ Len(Tail(fixups)) = Len(fixups) - 1
        /\ \A i \in 1 .. Len(Tail(fixups)) : i + 1 \in 1 .. Len(fixups) /\ Tail(fixups)[i] = fixups[i + 1]
    BY <1>1, <1>3, Tailed
  <2>3. \A i \in 1 .. Len(fixups') : \E r \in source'.refs : fixups'[i] = FixOf(r)
    BY <1>1, <2>2 DEF CodeInv, LinesInv
  <2>4. \A i \in 1 .. Len(fixups') : fixups'[i].adr + Width(fixups'[i]) <= pos'
    BY <1>1, <2>2 DEF CodeInv, LinesInv
  <2>5. ASSUME NEW i \in 1 .. Len(fixups'), NEW j \in 1 .. Len(fixups'), i < j
        PROVE  fixups'[i].adr + Width(fixups'[i]) <= fixups'[j].adr
    <3>1. i + 1 < j + 1 /\ i + 1 \in 1 .. Len(fixups) /\ j + 1 \in 1 .. Len(fixups)
      BY <1>1, <2>2, <2>5
    <3>2. fixups[i + 1].adr + Width(fixups[i + 1]) <= fixups[j + 1].adr
      BY <3>1 DEF CodeInv, LinesInv
    <3>3. QED
      BY <1>1, <2>2, <3>2
  <2>6. ASSUME NEW a \in DOMAIN image', NEW i \in 1 .. Len(fixups') PROVE a # fixups'[i].adr
    <3>1. i + 1 \in 1 .. Len(fixups) /\ fixups'[i] = fixups[i + 1] /\ 1 < i + 1 /\ 1 \in 1 .. Len(fixups)
      BY <1>1, <1>4, <2>2
    <3>2. CASE a \in DOMAIN image
      BY <1>3, <3>1, <3>2
    <3>3. CASE a = f.adr
      <4>1. f.adr + Width(f) <= fixups[i + 1].adr
        BY <1>1, <3>1 DEF CodeInv, LinesInv
      <4>2. Width(f) \in {1, 4}
        BY DEF Width
      <4>3. fixups[i + 1].adr \in Nat
        <5>1. fixups[i + 1] \in Fixes
          BY <1>3, <3>1
        <5>2. QED
          BY <5>1 DEF Fixes
      <4>4. QED
        BY <1>1, <3>1, <3>3, <4>1, <4>2, <4>3
    <3>4. QED
      BY <1>2, <3>2, <3>3
  <2>7. QED
    BY <1>1, <2>1, <2>2, <2>3, <2>4, <2>5, <2>6 DEF LinesInv
<1>9. RefsInv'
  <2>1. SUFFICES ASSUME NEW q \in source.refs PROVE (Valued(q) \/ Waits(q) \/ Done(q))'
    BY <1>1 DEF RefsInv
  <2>2. q \in Refs
    BY DEF CodeInv, LinesInv
  <2>3. Valued(q) => Valued(q)'
    BY <1>1 DEF Valued
  <2>4. Done(q) => Done(q)'
    BY <1>1, <1>2 DEF Done, IsAddress
  <2>5. ASSUME Waits(q) PROVE Waits(q)' \/ Done(q)'
    <3>1. PICK i \in 1 .. Len(fixups) : fixups[i] = FixOf(q)
      BY <2>5 DEF Waits
    <3>2. i = 1 \/ (i - 1 \in 1 .. Len(Tail(fixups)) /\ Tail(fixups)[i - 1] = fixups[i])
      BY <1>1, <1>3, Tailed
    <3>3. CASE i = 1
      <4>1. f = FixOf(q) /\ f.adr = At(q) /\ f.label = q.label /\ (f.size = Long <=> IsLong(q))
        BY <1>1, <2>2, <3>1, <3>3, FixFields
      <4>2. IsAddress(q.label)' /\ labels'.obj[q.label].val = val
        BY <1>1, <4>1 DEF IsAddress
      <4>3. image'[At(q)] = IF IsLong(q) THEN val ELSE val - FixOf(q).relTo
        BY <1>6, <4>1
      <4>4. QED
        BY <1>2, <4>1, <4>2, <4>3 DEF Done
    <3>4. CASE i # 1
      BY <1>1, <3>1, <3>2, <3>4 DEF Waits
    <3>5. QED
      BY <3>3, <3>4
  <2>6. QED
    BY <2>3, <2>4, <2>5 DEF CodeInv, RefsInv
<1>10. PhaseInv'
  BY <1>1 DEF PhaseInv
<1>11. QED
  BY <1>7, <1>8, <1>9, <1>10 DEF CodeInv

LEMMA LinesSame ==
  ASSUME CodeInv, UNCHANGED <<pos, labels, fixups, image, source>>, PhaseInv'
  PROVE  CodeInv'
<1>1. LabelsInv'
  BY LabelsSame DEF CodeInv
<1>2. LinesInv' /\ RefsInv'
  BY DEF CodeInv, LinesInv, RefsInv, Valued, Waits, Done, IsAddress
<1>3. QED
  BY <1>1, <1>2 DEF CodeInv

LEMMA CodeNext == ASSUME CodeInv, [Next]_vars PROVE CodeInv'
<1>1. pos \in Nat
  BY DEF CodeInv, LinesInv
<1>2. ASSUME NEW name \in Keys, LabelLine(name) PROVE CodeInv'
  BY <1>1, <1>2, LinesDefine DEF LabelLine, Line
<1>3. ASSUME NEW name \in Used, Equ(name) PROVE CodeInv'
  BY <1>3, LinesDefine, AssemblerAssumption DEF Equ, Line
<1>4. ASSUME Error PROVE CodeInv'
  <2>1. PhaseInv'
    BY <1>4 DEF PhaseInv, Error
  <2>2. QED
    BY <1>4, <2>1, LinesSame DEF Error
<1>5. ASSUME NEW n \in Gaps, Ds(n) PROVE CodeInv'
  BY <1>5, LinesSpace, AssemblerAssumption DEF Ds
<1>6. ASSUME NEW kind \in Kinds, NEW name \in Used, Reference(kind, name) PROVE CodeInv'
  BY <1>6, LinesRefer
<1>7. CASE EndOfSource
  <2>1. PhaseInv'
    BY <1>7 DEF PhaseInv, EndOfSource
  <2>2. QED
    BY <1>7, <2>1, LinesSame DEF EndOfSource
<1>8. CASE Finish
  <2>1. PhaseInv'
    BY <1>8 DEF PhaseInv, Finish
  <2>2. QED
    BY <1>8, <2>1, LinesSame DEF Finish
<1>9. CASE FirstFixup
  <2>1. PhaseInv'
    <3>1. phase' \in {"ready", "reading"} /\ fixups' = <<>>
      BY <1>9 DEF FirstFixup, Relocated, CodeInv, PhaseInv
    <3>2. QED
      BY <3>1 DEF PhaseInv
  <2>2. QED
    BY <1>9, <2>1, LinesSame DEF FirstFixup
<1>10. CASE NextFixup
  <2>1. PhaseInv'
    <3>1. phase' \in {"ready", "reading"} /\ fixups' = <<>>
      BY <1>10 DEF NextFixup, Relocated, CodeInv, PhaseInv
    <3>2. QED
      BY <3>1 DEF PhaseInv
  <2>2. QED
    BY <1>10, <2>1, LinesSame DEF NextFixup
<1>11. CASE UNCHANGED vars
  <2>1. PhaseInv'
    BY <1>11 DEF CodeInv, PhaseInv, vars
  <2>2. QED
    BY <1>11, <2>1, LinesSame DEF vars
<1>12. QED
  BY <1>2, <1>3, <1>4, <1>5, <1>6, <1>7, <1>8, <1>9, <1>10, <1>11, LinesPatched
    DEF Next, Redefinition, BadReference, Unresolved

LEMMA CodeInvariant == Spec => []CodeInv
<1>1. Init => CodeInv
  BY CodeInit
<1>2. CodeInv /\ [Next]_vars => CodeInv'
  BY CodeNext
<1>3. QED
  BY <1>1, <1>2, PTL DEF Spec

\* The table of SymbolTable.tla is the objects of the labels.
SymTab == [k \in Keys |-> IF DictGet(labels, k) = Null THEN Null ELSE labels.obj[k]]

LEMMA ObjectsOf ==
  ASSUME NEW t, NEW R, Good(Objects, t, R), R = {k \in Keys : t.obj[k] # Null}
  PROVE  [k \in Keys |-> IF DictGet(t, k) = Null THEN Null ELSE t.obj[k]] = t.obj
<1>1. t.obj \in [Keys -> Objects]
  BY DEF Good, Trees
<1>2. ASSUME NEW k \in Keys PROVE DictGet(t, k) = Null <=> t.obj[k] = Null
  BY DictGetGood, KeysAssumption
<1>3. \A k \in Keys : (IF DictGet(t, k) = Null THEN Null ELSE t.obj[k]) = t.obj[k]
  BY <1>2
<1>4. QED
  BY <1>1, <1>3

LEMMA TableIsObjects == CodeInv => SymTab = labels.obj
<1>1. SUFFICES ASSUME CodeInv PROVE SymTab = labels.obj
  OBVIOUS
<1>2. PICK t, R : t = labels /\ R = Defined
  OBVIOUS
<1>3. Good(Objects, t, R) /\ R = {k \in Keys : t.obj[k] # Null}
  BY <1>1, <1>2 DEF CodeInv, LabelsInv, Defined
<1>4. [k \in Keys |-> IF DictGet(t, k) = Null THEN Null ELSE t.obj[k]] = t.obj
  BY <1>3, ObjectsOf
<1>5. QED
  BY <1>2, <1>4 DEF SymTab

LEMMA TableThen == CodeInv' => SymTab' = labels'.obj
<1>1. SUFFICES ASSUME CodeInv' PROVE SymTab' = labels'.obj
  OBVIOUS
<1>2. PICK t, R : t = labels' /\ R = Defined'
  OBVIOUS
<1>3. Good(Objects, t, R) /\ R = {k \in Keys : t.obj[k] # Null}
  BY <1>1, <1>2 DEF CodeInv, LabelsInv, Defined
<1>4. [k \in Keys |-> IF DictGet(t, k) = Null THEN Null ELSE t.obj[k]] = t.obj
  BY <1>3, ObjectsOf
<1>5. QED
  BY <1>2, <1>4 DEF SymTab

LEMMA TableInit == Init => SymTab = [k \in Keys |-> Null]
<1>1. SUFFICES ASSUME Init PROVE SymTab = [k \in Keys |-> Null]
  OBVIOUS
<1>2. labels = DictInit
  BY <1>1 DEF Init
<1>3. labels.obj = [k \in Keys |-> Null]
  BY <1>2 DEF DictInit
<1>4. QED
  BY <1>1, <1>3, TableIsObjects, CodeInit

LEMMA TableAdded ==
  ASSUME CodeInv, CodeInv', NEW name \in Keys, NEW type \in {"address", "constant"}, NEW val \in Nat,
         AddLabel(name, type, val),
         source'.places = IF type = "address" THEN [source.places EXCEPT ![name] = val] ELSE source.places
  PROVE  /\ SymTab[name] = Null /\ SymTab'[name] # Null
         /\ SymTab' = [SymTab EXCEPT ![name] = SymTab'[name]]
<1>1. SymTab = labels.obj
  BY TableIsObjects
<1>2. SymTab' = labels'.obj
  BY TableThen
<1>3. /\ labels.obj[name] = Null
      /\ labels'.obj = [labels.obj EXCEPT ![name] = [type |-> type, val |-> val]]
  BY LabelsAdded DEF CodeInv
<1>4. [type |-> type, val |-> val] # Null
  BY NoLabel DEF Label
<1>5. labels.obj \in [Keys -> Objects]
  BY Labels DEF CodeInv
<1>6. labels'.obj[name] = [type |-> type, val |-> val]
  BY <1>3, <1>5
<1>7. QED
  BY <1>1, <1>2, <1>3, <1>4, <1>6

Defining(n) == Symbols!Define(n, SymTab'[n])

\* Every step of the assembler is a definition of the symbol table or leaves it alone.
LEMMA TableNext == ASSUME CodeInv, [Next]_vars PROVE [\E n \in Keys : Defining(n)]_SymTab
<1>1. CodeInv'
  BY CodeNext
<1>2. pos \in Nat /\ source = [places |-> source.places, refs |-> source.refs]
  BY DEF CodeInv, LinesInv
<1>3. ASSUME NEW name \in Keys, LabelLine(name) PROVE Defining(name)
  <2>1. source'.places = [source.places EXCEPT ![name] = pos]
    BY <1>2, <1>3 DEF LabelLine
  <2>2. AddLabel(name, "address", pos)
    BY <1>3 DEF LabelLine
  <2>3. /\ SymTab[name] = Null /\ SymTab'[name] # Null
        /\ SymTab' = [SymTab EXCEPT ![name] = SymTab'[name]]
    BY <1>1, <1>2, <2>1, <2>2, TableAdded
  <2>4. QED
    BY <2>3 DEF Defining, Symbols!Define, SymTab
<1>4. ASSUME NEW name \in Used, Equ(name) PROVE name \in Keys /\ Defining(name)
  <2>1. source'.places = source.places /\ name \in Keys
    BY <1>4, AssemblerAssumption DEF Equ
  <2>2. AddLabel(name, "constant", 0)
    BY <1>4 DEF Equ
  <2>3. /\ SymTab[name] = Null /\ SymTab'[name] # Null
        /\ SymTab' = [SymTab EXCEPT ![name] = SymTab'[name]]
    BY <1>1, <2>1, <2>2, TableAdded
  <2>4. QED
    BY <2>1, <2>3 DEF Defining, Symbols!Define, SymTab
<1>5. ASSUME labels' = labels PROVE SymTab' = SymTab
  BY <1>5 DEF SymTab
<1>6. Error => labels' = labels
  BY DEF Error
<1>7. CASE \E name \in Keys : LabelLine(name) \/ Redefinition(name)
  <2>1. PICK name \in Keys : LabelLine(name) \/ Redefinition(name)
    BY <1>7
  <2>2. CASE LabelLine(name)
    BY <1>3, <2>2
  <2>3. CASE Redefinition(name)
    BY <1>5, <1>6, <2>3 DEF Redefinition
  <2>4. QED
    BY <2>1, <2>2, <2>3
<1>8. CASE \E name \in Used : Equ(name)
  <2>1. PICK name \in Used : Equ(name)
    BY <1>8
  <2>2. name \in Keys /\ Defining(name)
    BY <1>4, <2>1
  <2>3. QED
    BY <2>2
<1>9. CASE \E length \in Gaps : Ds(length)
  BY <1>5, <1>9 DEF Ds
<1>10. CASE \E kind \in Kinds, name \in Used : Reference(kind, name) \/ BadReference(kind, name)
  BY <1>5, <1>6, <1>10 DEF Reference, BadReference
<1>11. CASE EndOfSource \/ Resolve \/ Unresolved \/ Finish \/ FirstFixup \/ NextFixup \/ UNCHANGED vars
  <2>1. labels' = labels
    BY <1>6, <1>11 DEF EndOfSource, Resolve, Unresolved, Finish, FirstFixup, NextFixup, vars
  <2>2. QED
    BY <1>5, <2>1
<1>12. QED
  BY <1>7, <1>8, <1>9, <1>10, <1>11 DEF Next

\* dict_get finds every label with the value add_label gave it, and no other: the
\* assembler implements the symbol table.
THEOREM LabelsAreKept == Spec => SymbolsKept
<1>1. Init => Symbols!Init
  BY TableInit DEF Symbols!Init, SymTab
<1>2. CodeInv /\ [Next]_vars => [Symbols!Defines]_SymTab
  BY TableNext DEF Symbols!Defines, Defining, SymTab
<1>. QED
  BY <1>1, <1>2, CodeInvariant, PTL DEF Spec, SymbolsKept, Symbols!Spec, SymTab

\* The tree is balanced as node_isbalanced asserts, a search tree, and its parent
\* pointers lead back, through all the rotations of dict_set.
THEOREM TreeIsBalanced == Spec => []Balanced
<1>1. CodeInv => Balanced
  <2>1. SUFFICES ASSUME CodeInv PROVE Balanced
    OBVIOUS
  <2>2. PICK t, R, O : t = labels /\ R = Defined /\ O = Objects
    OBVIOUS
  <2>3. Good(O, t, R)
    BY <2>1, <2>2 DEF CodeInv, LabelsInv
  <2>4. ASSUME NEW k \in Members(t), NEW left, left = t.child[k]["left"],
               NEW right, right = t.child[k]["right"]
        PROVE  /\ t.balance[k] = Height(t, right) - Height(t, left)
               /\ t.balance[k] \in -1 .. 1
               /\ \A m \in Below(t, left) : k < m
               /\ \A m \in Below(t, right) : m < k
               /\ \A m \in {left, right} \ {Null} : t.parent[m] = k
               /\ t.parent[k] = Null <=> t.root = k
    BY <2>3, <2>4, GoodBalanced
  <2>5. SUFFICES ASSUME NEW k \in Members(labels)
                 PROVE  LET left == labels.child[k]["left"]
                            right == labels.child[k]["right"]
                        IN /\ labels.balance[k] = Height(labels, right) - Height(labels, left)
                           /\ labels.balance[k] \in -1 .. 1
                           /\ \A m \in Below(labels, left) : k < m
                           /\ \A m \in Below(labels, right) : m < k
                           /\ \A m \in {left, right} \ {Null} : labels.parent[m] = k
                           /\ labels.parent[k] = Null <=> labels.root = k
    BY DEF Balanced
  <2>6. PICK left, right : left = t.child[k]["left"] /\ right = t.child[k]["right"]
    OBVIOUS
  <2>7. k \in Members(t)
    BY <2>2
  <2>8. /\ t.balance[k] = Height(t, right) - Height(t, left)
        /\ t.balance[k] \in -1 .. 1
        /\ \A m \in Below(t, left) : k < m
        /\ \A m \in Below(t, right) : m < k
        /\ \A m \in {left, right} \ {Null} : t.parent[m] = k
        /\ t.parent[k] = Null <=> t.root = k
    BY <2>4, <2>6, <2>7
  <2>9. QED
    BY <2>2, <2>6, <2>8
<1>2. QED
  BY <1>1, CodeInvariant, PTL

\* A program that was assembled without an error leads the processor to the labels.
THEOREM ProgramReachesItsLabels == Spec => []LabelsReached
<1>1. CodeInv => LabelsReached
  <2>1. SUFFICES ASSUME CodeInv, phase = "ready", NEW r \in AddressRefs
                 PROVE  IF IsLong(r) THEN image[At(r)] = source.places[r.label]
                        ELSE r.kind = "btst" \/ (r.kind = "short" /\ image[At(r)] = 0)
                               \/ r.op + ShapeOf(r.kind).pc + image[At(r)] = source.places[r.label]
    BY Zenon DEF LabelsReached
  <2>2. r \in source.refs /\ source.places[r.label] # Null /\ r \in Refs
    BY <2>1 DEF AddressRefs, CodeInv, LinesInv
  <2>3. r.label \in Keys /\ r.op \in Nat /\ r.kind \in Kinds
    BY <2>2, FixFields DEF Refs
  <2>4. IsAddress(r.label) /\ source.places[r.label] = labels.obj[r.label].val
    BY <2>1, <2>2, <2>3 DEF CodeInv, LabelsInv
  <2>5. ~ Valued(r)
    BY <2>4 DEF Valued, IsAddress
  <2>6. ~ Waits(r)
    BY <2>1 DEF Waits, CodeInv, PhaseInv
  <2>7. Done(r)
    BY <2>1, <2>2, <2>5, <2>6 DEF CodeInv, RefsInv
  <2>8. PICK val : val = labels.obj[r.label].val
    OBVIOUS
  <2>9. val \in Nat
    BY <2>1, <2>3, <2>4, <2>8, Labels DEF CodeInv, IsAddress, Label
  <2>10. PICK s : s = ShapeOf(r.kind)
    OBVIOUS
  <2>11. s.pc \in Nat /\ (~ IsLong(r) /\ r.kind # "btst" => s.pc = 2 + (IF r.kind = "movem" THEN 2 ELSE 0))
    BY <2>3, <2>10, Shapes DEF IsLong
  <2>12. FixOf(r).relTo = r.op + 2 + (IF r.kind = "movem" THEN 2 ELSE 0)
    BY <2>2, FixFields
  <2>13. image[At(r)] = IF IsLong(r) THEN val ELSE val - FixOf(r).relTo
    BY <2>7, <2>8 DEF Done
  <2>14. CASE IsLong(r)
    BY <2>4, <2>8, <2>13, <2>14
  <2>15. CASE ~ IsLong(r) /\ r.kind # "btst"
    <3>0. PICK m \in Nat, op \in Nat, pc \in Nat :
            m = (IF r.kind = "movem" THEN 2 ELSE 0) /\ op = r.op /\ pc = s.pc
      BY <2>3, <2>11
    <3>1. PICK rel, x : rel = FixOf(r).relTo /\ x = image[At(r)]
      OBVIOUS
    <3>2. pc = 2 + m /\ rel = op + 2 + m /\ x = val - rel
      BY <2>11, <2>12, <2>13, <2>15, <3>0, <3>1
    <3>3. op + pc + x = val
      BY <2>9, <3>0, <3>2
    <3>4. QED
      BY <2>4, <2>8, <2>10, <2>15, <3>0, <3>1, <3>3
  <2>16. CASE ~ IsLong(r) /\ r.kind = "btst"
    BY <2>16
  <2>17. QED
    BY <2>14, <2>15, <2>16
<1>2. QED
  BY <1>1, CodeInvariant, PTL

(***************************************************************************)
(* The relocation table of the places p, in order: byte e[i] + 1 is the first *)
(* of the distance from the i-th place to the next.                         *)
(***************************************************************************)
Spaced(p) == p \in Seq(Nat) /\ \A i, j \in 1 .. Len(p) : i < j => p[i] + 4 <= p[j]
Ones(d) == (d - 1) \div 254
Coded(d, x, y, b) ==
  /\ y = x + Ones(d) + 1 /\ y <= Len(b)
  /\ \A m \in x + 1 .. y - 1 : b[m] = 1
  /\ b[y] = d - 254 * Ones(d)
Table(p, e, b) ==
  /\ b \in Seq(Nat) /\ e \in [1 .. Len(p) -> Nat] /\ (p # <<>> => e[1] = 0)
  /\ \A i \in 1 .. Len(p) - 1 : Coded(p[i + 1] - p[i], e[i], e[i + 1], b)
End(p, e) == IF p = <<>> THEN 0 ELSE e[Len(p)]

LEMMA Appended ==
  ASSUME NEW S, NEW s \in Seq(S), NEW a \in S, NEW t, t = Append(s, a)
  PROVE  /\ Len(s) \in Nat /\ t \in Seq(S) /\ Len(t) = Len(s) + 1 /\ t[Len(s) + 1] = a /\ t # <<>>
         /\ \A i \in 1 .. Len(s) : t[i] = s[i]
  OBVIOUS

LEMMA OnesBounds ==
  ASSUME NEW d \in Nat, d >= 4
  PROVE  /\ Ones(d) \in Nat /\ 1 <= d - 254 * Ones(d) /\ d - 254 * Ones(d) <= 254
         /\ d > 254 /\ d % 254 = 1 <=> d - 254 * Ones(d) = 1
<1>1. PICK q \in Nat, c \in Nat : c = d - 1 /\ q = c \div 254
  OBVIOUS
<1>2. q \in Nat /\ 254 * q <= c /\ c < 254 * q + 254
  BY <1>1
<1>3. Ones(d) = q
  BY <1>1 DEF Ones
<1>4. d = 254 * q + 1 => d % 254 = 1 /\ d > 254
  BY <1>2
<1>5. d % 254 = 1 => d = 254 * q + 1
  BY <1>1, <1>2
<1>6. QED
  BY <1>1, <1>2, <1>3, <1>4, <1>5

LEMMA DistanceIsCoded ==
  ASSUME NEW d \in Nat, d >= 4, NEW b \in Seq(Nat), NEW c, c = b \o DistanceBytes(d)
  PROVE  /\ c \in Seq(Nat) /\ Len(c) = Len(b) + Ones(d) + 1
         /\ Coded(d, Len(b), Len(c), c)
         /\ \A m \in 1 .. Len(b) : c[m] = b[m]
<1>0. PICK n \in Nat : n = Ones(d)
  BY OnesBounds
<1>1. PICK last \in Nat, len \in Nat : n = Ones(d) /\ last = d - 254 * n /\ len = Len(b)
  BY <1>0, OnesBounds
<1>2. PICK o : o = [i \in 1 .. n |-> 1]
  OBVIOUS
<1>3. DistanceBytes(d) = o \o <<last>>
  BY <1>1, <1>2 DEF DistanceBytes, Ones
<1>4. o \in Seq(Nat) /\ Len(o) = n /\ \A i \in 1 .. n : o[i] = 1
  BY <1>1, <1>2
<1>5. PICK q : q = o \o <<last>>
  OBVIOUS
<1>6. <<last>> \in Seq(Nat) /\ Len(<<last>>) = 1 /\ <<last>>[1] = last
  BY <1>1
<1>7. q \in Seq(Nat) /\ Len(q) = n + 1 /\ q[n + 1] = last /\ \A i \in 1 .. n : q[i] = 1
  <2>1. /\ q \in Seq(Nat) /\ Len(q) = Len(o) + Len(<<last>>)
        /\ \A i \in 1 .. Len(o) + Len(<<last>>) : q[i] = IF i <= Len(o) THEN o[i] ELSE <<last>>[i - Len(o)]
    <3>1. /\ o \o <<last>> \in Seq(Nat) /\ Len(o \o <<last>>) = Len(o) + Len(<<last>>)
          /\ \A i \in 1 .. Len(o) + Len(<<last>>) : (o \o <<last>>)[i] = IF i <= Len(o) THEN o[i] ELSE <<last>>[i - Len(o)]
      BY <1>4, <1>6, ConcatProperties, Zenon
    <3>2. QED
      BY <1>5, <3>1, Zenon
  <2>2. n + 1 \in 1 .. n + 1 /\ (n + 1) - n = 1 /\ ~ (n + 1 <= n) /\ \A i \in 1 .. n : i \in 1 .. n + 1 /\ i <= n
    BY <1>1
  <2>3. QED
    BY <1>4, <1>6, <2>1, <2>2
<1>8. c = b \o q
  BY <1>3, <1>5
<1>9. /\ c \in Seq(Nat) /\ Len(c) = len + n + 1
      /\ \A m \in 1 .. len : c[m] = b[m]
      /\ \A m \in 1 .. n + 1 : c[len + m] = q[m]
  <2>1. /\ c \in Seq(Nat) /\ Len(c) = len + (n + 1)
        /\ \A i \in 1 .. len + (n + 1) : c[i] = IF i <= len THEN b[i] ELSE q[i - len]
    <3>1. b \in Seq(Nat) /\ q \in Seq(Nat) /\ Len(b) = len /\ Len(q) = n + 1
      BY <1>1, <1>7
    <3>2. /\ b \o q \in Seq(Nat) /\ Len(b \o q) = Len(b) + Len(q)
          /\ \A i \in 1 .. Len(b) + Len(q) : (b \o q)[i] = IF i <= Len(b) THEN b[i] ELSE q[i - Len(b)]
      BY <3>1, ConcatProperties, Zenon
    <3>3. QED
      BY <1>8, <3>1, <3>2, Zenon
  <2>2. /\ \A i \in 1 .. len : i \in 1 .. len + (n + 1) /\ i <= len
        /\ \A i \in 1 .. n + 1 : len + i \in 1 .. len + (n + 1) /\ ~ (len + i <= len) /\ (len + i) - len = i
    <3>1. PICK k \in Nat : k = n + 1
      BY <1>1
    <3>2. /\ \A i \in 1 .. len : i \in 1 .. len + k /\ i <= len
          /\ \A i \in 1 .. k : len + i \in 1 .. len + k /\ ~ (len + i <= len) /\ (len + i) - len = i
      <4>1. ASSUME NEW i \in 1 .. k PROVE len + i \in 1 .. len + k /\ ~ (len + i <= len) /\ (len + i) - len = i
        BY <1>1, <4>1
      <4>2. ASSUME NEW i \in 1 .. len PROVE i \in 1 .. len + k /\ i <= len
        BY <1>1, <3>1, <4>2
      <4>3. QED
        BY <4>1, <4>2, Zenon
    <3>3. QED
      BY <3>1, <3>2, Zenon
  <2>3. ASSUME NEW m \in 1 .. len PROVE c[m] = b[m]
    BY <2>1, <2>2, Zenon
  <2>4. ASSUME NEW m \in 1 .. n + 1 PROVE c[len + m] = q[m]
    <3>1. c[len + m] = IF len + m <= len THEN b[len + m] ELSE q[(len + m) - len]
      BY <2>1, <2>2, Zenon
    <3>2. ~ (len + m <= len) /\ (len + m) - len = m
      BY <2>2
    <3>3. QED
      BY <3>1, <3>2, Zenon
  <2>5. len + (n + 1) = len + n + 1
    BY <1>1
  <2>6. QED
    BY <2>1, <2>3, <2>4, <2>5
<1>10. c[len + n + 1] = last
  <2>1. n + 1 \in 1 .. n + 1 /\ len + (n + 1) = len + n + 1
    BY <1>1
  <2>2. QED
    BY <1>7, <1>9, <2>1
<1>11. ASSUME NEW m \in len + 1 .. len + n PROVE c[m] = 1
  <2>1. m - len \in 1 .. n /\ m - len \in 1 .. n + 1 /\ len + (m - len) = m
    BY <1>1, <1>11
  <2>2. QED
    BY <1>7, <1>9, <2>1
<1>12. (len + n + 1) - 1 = len + n
  BY <1>1
<1>13. len + n + 1 <= Len(c)
  BY <1>1, <1>9
<1>14. Coded(d, len, len + n + 1, c)
  BY <1>1, <1>10, <1>11, <1>12, <1>13, Zenon DEF Coded
<1>15. QED
  BY <1>1, <1>9, <1>14, Zenon

LEMMA CodedKept ==
  ASSUME NEW d \in Nat, d >= 4, NEW x \in Nat, NEW y, NEW b \in Seq(Nat), NEW c \in Seq(Nat), Coded(d, x, y, b),
         Len(b) <= Len(c), \A m \in 1 .. Len(b) : c[m] = b[m]
  PROVE  Coded(d, x, y, c)
<1>1. PICK n \in Nat : n = Ones(d)
  BY OnesBounds
<1>2. y = x + n + 1 /\ y <= Len(b) /\ Len(b) \in Nat /\ Len(c) \in Nat
  <2>1. y = x + n + 1 /\ y <= Len(b)
    BY <1>1, Zenon DEF Coded
  <2>2. QED
    BY <2>1, LenProperties
<1>2a. y \in 1 .. Len(b)
  BY <1>1, <1>2
<1>3. \A m \in x + 1 .. y - 1 : m \in 1 .. Len(b)
  BY <1>1, <1>2
<1>4. y <= Len(c)
  BY <1>2
<1>5. QED
  BY <1>2, <1>2a, <1>3, <1>4 DEF Coded

LEMMA TableKept ==
  ASSUME NEW p, Spaced(p), NEW e, NEW b, Table(p, e, b), NEW c \in Seq(Nat),
         Len(b) <= Len(c), \A m \in 1 .. Len(b) : c[m] = b[m]
  PROVE  Table(p, e, c)
<1>1. ASSUME NEW i \in 1 .. Len(p) - 1 PROVE Coded(p[i + 1] - p[i], e[i], e[i + 1], c)
  <2>1. p \in Seq(Nat) /\ i \in 1 .. Len(p) /\ i + 1 \in 1 .. Len(p)
    BY <1>1 DEF Spaced
  <2>2. p[i] \in Nat /\ p[i + 1] \in Nat /\ p[i] + 4 <= p[i + 1]
    BY <2>1 DEF Spaced
  <2>3. PICK d : d = p[i + 1] - p[i]
    OBVIOUS
  <2>4. d \in Nat /\ d >= 4
    BY <2>2, <2>3
  <2>5. e[i] \in Nat /\ b \in Seq(Nat) /\ Coded(d, e[i], e[i + 1], b)
    BY <2>1, <2>3 DEF Table
  <2>6. QED
    BY <2>3, <2>4, <2>5, CodedKept
<1>2. QED
  BY <1>1 DEF Table

LEMMA TableStarts ==
  ASSUME NEW a \in Nat
  PROVE  /\ Spaced(<<a>>) /\ Table(<<a>>, <<0>>, <<>>) /\ End(<<a>>, <<0>>) = 0
<1>1. <<a>> \in Seq(Nat) /\ Len(<<a>>) = 1 /\ <<a>> # <<>> /\ <<0>>[1] = 0
  OBVIOUS
<1>2. <<0>> \in [1 .. Len(<<a>>) -> Nat]
  OBVIOUS
<1>3. <<>> \in Seq(Nat) /\ \A i \in 1 .. Len(<<a>>) - 1 : FALSE
  BY <1>1
<1>4. QED
  BY <1>1, <1>2, <1>3 DEF Spaced, Table, End

LEMMA SpacedGrows ==
  ASSUME NEW p, Spaced(p), NEW a \in Nat, \A i \in 1 .. Len(p) : p[i] + 4 <= a
  PROVE  Spaced(Append(p, a))
<1>0. PICK n, q : n = Len(p) /\ q = Append(p, a)
  OBVIOUS
<1>1. n \in Nat /\ n = Len(p) /\ q = Append(p, a) /\ p \in Seq(Nat)
  BY <1>0 DEF Spaced
<1>2. /\ q \in Seq(Nat) /\ Len(q) = n + 1 /\ q[n + 1] = a
      /\ \A i \in 1 .. n : q[i] = p[i]
  BY <1>1, Appended
<1>3. ASSUME NEW i \in 1 .. n + 1, NEW j \in 1 .. n + 1, i < j PROVE q[i] + 4 <= q[j]
  <2>1. i \in 1 .. n
    BY <1>1, <1>3
  <2>2. CASE j = n + 1
    BY <1>1, <1>2, <2>1, <2>2
  <2>3. CASE j # n + 1
    <3>1. j \in 1 .. n
      BY <1>1, <2>3
    <3>2. QED
      BY <1>1, <1>2, <1>3, <2>1, <3>1 DEF Spaced
  <2>4. QED
    BY <2>2, <2>3
<1>4. QED
  BY <1>1, <1>2, <1>3 DEF Spaced

\* The bytes b of the places p and the distance to one more, a.
Grown(p, e, b, a, c) ==
  /\ Spaced(p) /\ p # <<>> /\ Table(p, e, b) /\ Len(b) = End(p, e)
  /\ a \in Nat /\ p[Len(p)] + 4 <= a /\ c = b \o DistanceBytes(a - p[Len(p)])

LEMMA TableGrows ==
  ASSUME NEW p, NEW e, NEW b, NEW a, NEW c, Grown(p, e, b, a, c)
  PROVE  \E f : Table(Append(p, a), f, c) /\ Len(c) = End(Append(p, a), f)
<1>0a. /\ Spaced(p) /\ p # <<>> /\ Table(p, e, b) /\ Len(b) = End(p, e)
       /\ a \in Nat /\ p[Len(p)] + 4 <= a /\ c = b \o DistanceBytes(a - p[Len(p)])
  BY Zenon DEF Grown
<1>0. PICK n, q : n = Len(p) /\ q = Append(p, a)
  OBVIOUS
<1>1. n \in Nat /\ n = Len(p) /\ q = Append(p, a) /\ p \in Seq(Nat)
  BY <1>0, <1>0a DEF Spaced
<1>2. /\ q \in Seq(Nat) /\ Len(q) = n + 1 /\ q[n + 1] = a
      /\ \A i \in 1 .. n : q[i] = p[i]
      /\ q # <<>> /\ n >= 1
  <2>1. a \in Nat /\ p \in Seq(Nat) /\ q = Append(p, a) /\ n = Len(p)
    BY <1>0a, <1>1
  <2>2. /\ q \in Seq(Nat) /\ Len(q) = Len(p) + 1 /\ q[Len(p) + 1] = a /\ q # <<>>
        /\ \A i \in 1 .. Len(p) : q[i] = p[i]
    BY <2>1, Appended
  <2>3. n >= 1
    BY <1>0a, <2>1
  <2>4. QED
    BY <2>1, <2>2, <2>3, Zenon
<1>3. b \in Seq(Nat) /\ e \in [1 .. n -> Nat] /\ e[1] = 0 /\ Len(b) = e[n]
  BY <1>0a, <1>1 DEF Table, End
<1>4. p[n] \in Nat
  BY <1>0a, <1>1, <1>2 DEF Spaced
<1>5. PICK d \in Nat : d = a - p[n] /\ d >= 4
  BY <1>0a, <1>1, <1>4
<1>6. /\ c \in Seq(Nat) /\ Len(c) = Len(b) + Ones(d) + 1 /\ Coded(d, Len(b), Len(c), c)
      /\ \A m \in 1 .. Len(b) : c[m] = b[m]
  <2>1. c = b \o DistanceBytes(d)
    BY <1>0a, <1>1, <1>5
  <2>2. QED
    BY <1>3, <1>5, <2>1, DistanceIsCoded
<1>7. Ones(d) \in Nat
  BY <1>5, OnesBounds
<1>8. Len(b) <= Len(c)
  BY <1>3, <1>6, <1>7
<1>9. Table(p, e, c)
  BY <1>0a, <1>3, <1>6, <1>8, TableKept
<1>10. PICK f : f = [i \in 1 .. n + 1 |-> IF i = n + 1 THEN Len(c) ELSE e[i]]
  OBVIOUS
<1>11. /\ f \in [1 .. n + 1 -> Nat] /\ f[n + 1] = Len(c)
       /\ \A i \in 1 .. n : i # n + 1 /\ i \in 1 .. n + 1 /\ f[i] = e[i]
  <2>1. ASSUME NEW i \in 1 .. n PROVE i # n + 1 /\ i \in 1 .. n + 1
    BY <1>1, <2>1
  <2>2. ASSUME NEW i \in 1 .. n + 1 PROVE (IF i = n + 1 THEN Len(c) ELSE e[i]) \in Nat
    <3>1. i = n + 1 \/ i \in 1 .. n
      BY <1>1, <2>2
    <3>2. Len(c) \in Nat
      BY <1>6
    <3>3. QED
      BY <1>3, <3>1, <3>2
  <2>3. n + 1 \in 1 .. n + 1
    BY <1>1
  <2>4. QED
    BY <1>10, <2>1, <2>2, <2>3
<1>12. f[1] = 0
  BY <1>2, <1>3, <1>11
<1>13. ASSUME NEW i \in 1 .. n PROVE Coded(q[i + 1] - q[i], f[i], f[i + 1], c)
  <2>1. CASE i = n
    <3>1. q[i + 1] - q[i] = d /\ f[i] = Len(b) /\ f[i + 1] = Len(c)
      BY <1>1, <1>2, <1>3, <1>5, <1>11, <2>1
    <3>2. QED
      BY <1>6, <3>1
  <2>2. CASE i # n
    <3>1. i + 1 \in 1 .. n /\ i \in 1 .. n - 1
      BY <1>1, <2>2
    <3>2. q[i + 1] = p[i + 1] /\ q[i] = p[i] /\ f[i] = e[i] /\ f[i + 1] = e[i + 1]
      BY <1>2, <1>11, <3>1
    <3>3. Coded(p[i + 1] - p[i], e[i], e[i + 1], c)
      BY <1>1, <1>9, <3>1 DEF Table
    <3>4. QED
      BY <3>2, <3>3
  <2>3. QED
    BY <2>1, <2>2
<1>14. (n + 1) - 1 = n
  BY <1>1
<1>15. Table(q, f, c)
  BY <1>2, <1>6, <1>11, <1>12, <1>13, <1>14 DEF Table
<1>16. Len(c) = End(q, f)
  BY <1>2, <1>11 DEF End
<1>17. QED
  BY <1>1, <1>15, <1>16

(***************************************************************************)
(* Reading the table.  Until a distance whose last byte reads as a chained one *)
(* the reader follows the places; after it, it is lost behind a place that it   *)
(* has missed.                                                              *)
(***************************************************************************)
Misread(p, i) == p[i + 1] - p[i] > 254 /\ (p[i + 1] - p[i]) % 254 = 1
Unwritable(p) == p # <<>> /\ (p[1] = 0 \/ \E i \in 1 .. Len(p) - 1 : Misread(p, i))
Right(p, s) == ~ Unwritable(p) <=> Range(s) = Range(p) /\ Len(s) = Len(p)

Following(p, e, k, at, next, s) ==
  /\ k \in 1 .. Len(p) /\ s \in Seq(Nat) /\ Len(s) = k
  /\ \A i \in 1 .. k : s[i] = p[i]
  /\ at = p[k] /\ next = e[k] + 1
  /\ p[1] # 0 /\ \A i \in 1 .. k - 1 : ~ Misread(p, i)
Lost(p, j, at, next, s, b) ==
  /\ j \in 1 .. Len(p) - 1 /\ Misread(p, j)
  /\ s \in Seq(Nat) /\ \A i \in 1 .. Len(s) : s[i] # p[j + 1]
  /\ at \in Nat /\ at > p[j + 1] /\ next \in 1 .. Len(b)
Closed(p, e, b) ==
  p # <<>> /\ Spaced(p) /\ Table(p, e, b) /\ Len(b) = e[Len(p)] + 1 /\ b[Len(b)] = 0

\* The first byte that is not one, from "next" on.
Stops(b, next, i) ==
  i \in next .. Len(b) /\ b[i] # 1 /\ \A m \in next .. i - 1 : b[m] = 1

LEMMA LeastOf ==
  ASSUME NEW S \in SUBSET Nat, S # {}
  PROVE  \E low \in S : \A m \in S : low <= m
<1>1. SUFFICES ASSUME \A low \in S : \E m \in S : ~ (low <= m) PROVE FALSE
  OBVIOUS
<1>2. PICK A : A = {n \in Nat : \A m \in S : n <= m}
  OBVIOUS
<1>3. A \in SUBSET Nat /\ 0 \in A
  BY <1>2
<1>4. ASSUME NEW n \in A PROVE n + 1 \in A
  <2>1. n \in Nat /\ n \notin S /\ \A m \in S : n <= m
    BY <1>1, <1>2
  <2>2. \A m \in S : n + 1 <= m
    BY <2>1
  <2>3. QED
    BY <1>2, <2>1, <2>2
<1>5. \A n \in Nat : n \in A
  BY <1>3, <1>4, SetInduction
<1>6. PICK s \in S : TRUE
  OBVIOUS
<1>7. s + 1 \in A /\ s \in Nat
  BY <1>5
<1>8. s + 1 <= s
  BY <1>2, <1>7
<1>9. QED
  BY <1>7, <1>8

LEMMA FirstNotOne ==
  ASSUME NEW b \in Seq(Nat), NEW next \in 1 .. Len(b), b[Len(b)] = 0,
         NEW i, i = Min({m \in next .. Len(b) : b[m] # 1})
  PROVE  Stops(b, next, i)
<1>1. PICK n \in Nat : n = Len(b)
  OBVIOUS
<1>2. PICK S : S = {m \in next .. n : b[m] # 1}
  OBVIOUS
<1>3. n \in S /\ S \in SUBSET Nat
  BY <1>1, <1>2
<1>4. PICK low \in S : \A m \in S : low <= m
  BY <1>3, LeastOf
<1>5. i \in S /\ \A m \in S : i <= m
  <2>1. i = CHOOSE x \in S : \A m \in S : x <= m
    BY <1>1, <1>2 DEF Min
  <2>2. QED
    BY <1>4, <2>1
<1>6. QED
  <2>1. i \in next .. n /\ b[i] # 1
    BY <1>2, <1>5
  <2>2. ASSUME NEW m \in next .. i - 1 PROVE b[m] = 1
    <3>1. m \in next .. n /\ ~ (i <= m)
      BY <1>1, <2>1, <2>2
    <3>2. QED
      BY <1>2, <1>5, <3>1
  <2>3. QED
    BY <1>1, <2>1, <2>2 DEF Stops

\* The distance from the k-th place a to the next, c: n bytes of one and the byte l.
Distance(p, e, b, k, a, c, x, y, n, l) ==
  /\ k + 1 \in 1 .. Len(p) /\ k \in 1 .. Len(p) - 1
  /\ a = p[k] /\ c = p[k + 1] /\ x = e[k] /\ y = e[k + 1]
  /\ c = a + 254 * n + l /\ 1 <= l
  /\ y = x + n + 1 /\ y \in 1 .. Len(b)
  /\ \A m \in x + 1 .. x + n : b[m] = 1
  /\ b[y] = l
  /\ Misread(p, k) <=> l = 1

LEMMA NextDistance ==
  ASSUME NEW p, NEW e, NEW b, Closed(p, e, b), NEW k \in 1 .. Len(p), k # Len(p)
  PROVE  \E a \in Nat, c \in Nat, x \in Nat, y \in Nat, n \in Nat, l \in Nat : Distance(p, e, b, k, a, c, x, y, n, l)
<1>1. p \in Seq(Nat) /\ b \in Seq(Nat) /\ e \in [1 .. Len(p) -> Nat]
  BY DEF Closed, Spaced, Table
<1>2. PICK len \in Nat, size \in Nat : len = Len(p) /\ size = Len(b)
  BY <1>1
<1>3. k + 1 \in 1 .. len /\ k \in 1 .. len - 1 /\ k < k + 1 /\ k \in 1 .. len
  BY <1>2
<1>4. p[k] \in Nat /\ p[k + 1] \in Nat /\ e[k] \in Nat
  <2>1. k \in 1 .. Len(p) /\ k + 1 \in 1 .. Len(p)
    BY <1>2, <1>3
  <2>2. QED
    BY <1>1, <2>1, ElementOfSeq
<1>5. p[k] + 4 <= p[k + 1]
  BY <1>2, <1>3 DEF Closed, Spaced
<1>6. PICK d \in Nat : d = p[k + 1] - p[k] /\ d >= 4
  BY <1>4, <1>5
<1>7. PICK n \in Nat : n = Ones(d)
  BY <1>6, OnesBounds
<1>8. PICK l \in Nat : l = d - 254 * n /\ 1 <= l /\ l <= 254
  BY <1>6, <1>7, OnesBounds
<1>9. d > 254 /\ d % 254 = 1 <=> l = 1
  <2>1. d > 254 /\ d % 254 = 1 <=> d - 254 * Ones(d) = 1
    BY <1>6, OnesBounds, Zenon
  <2>2. d - 254 * Ones(d) = l
    BY <1>7, <1>8
  <2>3. QED
    BY <2>1, <2>2, Zenon
<1>10. Coded(d, e[k], e[k + 1], b)
  BY <1>2, <1>3, <1>6 DEF Closed, Table
<1>11. PICK x \in Nat, y \in Nat, a \in Nat, c \in Nat :
         x = e[k] /\ y = e[k + 1] /\ a = p[k] /\ c = p[k + 1]
  BY <1>1, <1>2, <1>3, <1>4
<1>12. y = x + n + 1 /\ y <= size /\ (\A m \in x + 1 .. y - 1 : b[m] = 1) /\ b[y] = l
  BY <1>2, <1>7, <1>8, <1>10, <1>11, Zenon DEF Coded
<1>13. y - 1 = x + n /\ y \in 1 .. size
  BY <1>2, <1>12
<1>14. Misread(p, k) <=> l = 1
  BY <1>6, <1>9, Zenon DEF Misread
<1>15. c = a + 254 * n + l
  <2>1. d = c - a
    BY <1>6, <1>11
  <2>2. QED
    BY <1>8, <1>11, <2>1
<1>16. Distance(p, e, b, k, a, c, x, y, n, l)
  BY <1>2, <1>3, <1>8, <1>11, <1>12, <1>13, <1>14, <1>15, Zenon DEF Distance
<1>17. QED
  BY <1>16

LEMMA FollowingStops ==
  ASSUME NEW p, NEW e, NEW b, Closed(p, e, b), NEW k, NEW at, NEW next, NEW s,
         Following(p, e, k, at, next, s), NEW i, Stops(b, next, i), b[i] = 0
  PROVE  Right(p, s)
<1>1. p \in Seq(Nat) /\ b \in Seq(Nat) /\ e \in [1 .. Len(p) -> Nat] /\ p # <<>>
  BY DEF Closed, Spaced, Table
<1>2. PICK len \in Nat, size \in Nat : len = Len(p) /\ size = Len(b)
  BY <1>1
<1>3. k \in 1 .. len /\ s \in Seq(Nat) /\ Len(s) = k /\ \A m \in 1 .. k : s[m] = p[m]
  BY <1>2 DEF Following
<1>4. CASE k = len
  <2>1. s = p
    BY <1>1, <1>2, <1>3, <1>4, SeqEqual
  <2>2. ~ Unwritable(p)
    BY <1>2, <1>4 DEF Following, Unwritable
  <2>3. QED
    BY <2>1, <2>2 DEF Right
<1>5. CASE k # len
  <2>0. PICK a \in Nat, c \in Nat, x \in Nat, y \in Nat, n \in Nat, l \in Nat :
          Distance(p, e, b, k, a, c, x, y, n, l)
    BY <1>2, <1>3, <1>5, NextDistance
  <2>1. /\ k \in 1 .. Len(p) - 1 /\ y \in 1 .. Len(b) /\ b[y] = l
        /\ \A m \in x + 1 .. x + n : b[m] = 1
        /\ Misread(p, k) <=> l = 1
    BY <2>0 DEF Distance
  <2>2. x = e[k] /\ y = x + n + 1 /\ 1 <= l
    BY <2>0 DEF Distance
  <2>3. next = x + 1 /\ i \in x + 1 .. size /\ b[i] # 1 /\ \A m \in x + 1 .. i - 1 : b[m] = 1
    BY <1>2, <2>2 DEF Following, Stops
  <2>4. i > x + n
    <3>1. i \in x + 1 .. size /\ x \in Nat /\ n \in Nat /\ size \in Nat /\ b[i] # 1
      BY <1>2, <2>0, <2>3
    <3>2. ~ (i \in x + 1 .. x + n)
      BY <2>1, <3>1
    <3>3. QED
      BY <3>1, <3>2
  <2>5. i # y
    BY <2>1, <2>2
  <2>6. i \in Nat /\ y \in x + 1 .. i - 1
    BY <2>2, <2>3, <2>4, <2>5
  <2>7. l = 1
    BY <2>1, <2>2, <2>3, <2>6
  <2>8. Unwritable(p)
    BY <1>1, <2>1, <2>7 DEF Unwritable
  <2>9. QED
    BY <1>2, <1>3, <1>5, <2>8 DEF Right
<1>6. QED
  BY <1>4, <1>5

\* The next byte that is not one is no end: the reader relocates "to".
GoesOn(b, at, next, s, i, to, t) ==
  Stops(b, next, i) /\ b[i] # 0 /\ to = at + 254 * (i - next) + b[i] /\ t = Append(s, to)

LEMMA FollowingGoesOn ==
  ASSUME NEW p, NEW e, NEW b, Closed(p, e, b), NEW k, NEW at, NEW next, NEW s,
         Following(p, e, k, at, next, s), NEW i, NEW at2, NEW s2, GoesOn(b, at, next, s, i, at2, s2)
  PROVE  \/ \E j : Following(p, e, j, at2, i + 1, s2)
         \/ \E j : Lost(p, j, at2, i + 1, s2, b)
<1>0a. Stops(b, next, i) /\ b[i] # 0 /\ at2 = at + 254 * (i - next) + b[i] /\ s2 = Append(s, at2)
  BY Zenon DEF GoesOn
<1>1. p \in Seq(Nat) /\ b \in Seq(Nat) /\ e \in [1 .. Len(p) -> Nat] /\ p # <<>>
  BY DEF Closed, Spaced, Table
<1>2. PICK len \in Nat, size \in Nat : len = Len(p) /\ size = Len(b)
  BY <1>1
<1>3. /\ k \in 1 .. len /\ s \in Seq(Nat) /\ Len(s) = k /\ (\A m \in 1 .. k : s[m] = p[m])
      /\ at = p[k] /\ next = e[k] + 1
      /\ p[1] # 0 /\ \A m \in 1 .. k - 1 : ~ Misread(p, m)
  BY <1>2 DEF Following
<1>4. k # len
  <2>1. SUFFICES ASSUME k = len PROVE FALSE
    OBVIOUS
  <2>2. size = e[len] + 1 /\ b[size] = 0 /\ next = size
    BY <1>2, <1>3, <2>1 DEF Closed
  <2>3. i = size
    BY <1>0a, <1>2, <2>2 DEF Stops
  <2>4. QED
    BY <1>0a, <2>2, <2>3
<1>0. PICK a \in Nat, c \in Nat, x \in Nat, y \in Nat, n \in Nat, l \in Nat :
          Distance(p, e, b, k, a, c, x, y, n, l)
  BY <1>2, <1>3, <1>4, NextDistance
<1>5. /\ k + 1 \in 1 .. len /\ k \in 1 .. len - 1 /\ y \in 1 .. size /\ b[y] = l
      /\ \A m \in x + 1 .. x + n : b[m] = 1
      /\ Misread(p, k) <=> l = 1
  BY <1>0, <1>2 DEF Distance
<1>6. x = e[k] /\ y = e[k + 1] /\ y = x + n + 1 /\ a = p[k] /\ c = p[k + 1] /\ 1 <= l
  BY <1>0 DEF Distance
<1>7. /\ next = x + 1 /\ i \in x + 1 .. size /\ b[i] # 1
      /\ \A m \in x + 1 .. i - 1 : b[m] = 1
  BY <1>0a, <1>2, <1>3, <1>6 DEF Stops
<1>8. i \in 1 .. size /\ i \in Nat /\ i > x + n
  <2>1. i \in 1 .. size /\ i \in Nat
    <3>1. i \in x + 1 .. size /\ x \in Nat /\ size \in Nat
      BY <1>0, <1>2, <1>7
    <3>2. QED
      BY <3>1
  <2>2. ASSUME i <= x + n PROVE FALSE
    <3>1. i \in x + 1 .. x + n
      BY <1>0, <1>6, <1>7, <2>1, <2>2
    <3>2. QED
      BY <1>5, <1>6, <1>7, <3>1
  <2>3. QED
    BY <1>0, <1>6, <2>1, <2>2
<1>9. PICK v \in Nat : v = b[i] /\ v # 0
  BY <1>0a, <1>1, <1>2, <1>8
<1>10. at2 = a + 254 * (i - (x + 1)) + v
  BY <1>0a, <1>3, <1>6, <1>7, <1>9
<1>11. c = a + 254 * n + l
  BY <1>0 DEF Distance
<1>12. at2 \in Nat
  BY <1>0, <1>8, <1>9, <1>10
<1>13. /\ s2 \in Seq(Nat) /\ Len(s2) = k + 1 /\ s2[k + 1] = at2
       /\ \A m \in 1 .. k : s2[m] = p[m]
  BY <1>0a, <1>3, <1>12, Appended
<1>14. CASE l # 1
  <2>1. i = y
    <3>1. b[y] # 1 /\ y >= x + 1
      BY <1>5, <1>6, <1>14
    <3>2. ~ (y \in x + 1 .. i - 1)
      BY <1>7, <3>1
    <3>3. QED
      BY <1>6, <1>8, <3>1, <3>2
  <2>2. v = l /\ at2 = c
    <3>1. v = l
      BY <1>5, <1>6, <1>9, <2>1
    <3>2. i - (x + 1) = n
      BY <1>6, <2>1
    <3>3. QED
      BY <1>10, <1>11, <3>1, <3>2
  <2>3. ASSUME NEW m \in 1 .. k + 1 PROVE s2[m] = p[m]
    <3>1. m = k + 1 \/ m \in 1 .. k
      BY <1>2, <1>3, <2>3
    <3>2. QED
      BY <1>6, <1>13, <2>2, <3>1
  <2>4. ASSUME NEW m \in 1 .. (k + 1) - 1 PROVE ~ Misread(p, m)
    <3>1. m = k \/ m \in 1 .. k - 1
      BY <1>2, <1>3, <2>4
    <3>2. QED
      BY <1>3, <1>5, <1>14, <3>1
  <2>5. Following(p, e, k + 1, at2, i + 1, s2)
    <3>1. k + 1 \in 1 .. Len(p) /\ Len(s2) = k + 1 /\ s2 \in Seq(Nat)
      BY <1>2, <1>5, <1>13
    <3>2. at2 = p[k + 1] /\ i + 1 = e[k + 1] + 1
      BY <1>6, <2>1, <2>2
    <3>3. p[1] # 0
      BY <1>3
    <3>4. QED
      BY <2>3, <2>4, <3>1, <3>2, <3>3, Zenon DEF Following
  <2>6. QED
    BY <2>5
<1>15. CASE l = 1
  <2>1. i # y
    BY <1>5, <1>6, <1>7, <1>15
  <2>2. i - (x + 1) >= n + 1
    BY <1>0, <1>6, <1>8, <2>1
  <2>3. at2 > c
    BY <1>0, <1>8, <1>9, <1>10, <1>11, <1>15, <2>2
  <2>4. i # size
    BY <1>2, <1>9 DEF Closed
  <2>5. i + 1 \in 1 .. size
    BY <1>2, <1>8, <2>4
  <2>6. ASSUME NEW m \in 1 .. k PROVE p[m] # c
    <3>1. m \in 1 .. len /\ k + 1 \in 1 .. len /\ m < k + 1
      BY <1>2, <1>3, <1>5, <2>6
    <3>2. p[m] + 4 <= p[k + 1]
      BY <1>2, <3>1 DEF Closed, Spaced
    <3>3. p[m] \in Nat
      BY <1>1, <1>2, <3>1
    <3>4. QED
      BY <1>6, <3>2, <3>3
  <2>7. ASSUME NEW m \in 1 .. k + 1 PROVE s2[m] # c
    <3>1. m = k + 1 \/ m \in 1 .. k
      BY <1>2, <1>3, <2>7
    <3>2. CASE m = k + 1
      BY <1>6, <1>12, <1>13, <2>3, <3>2
    <3>3. CASE m \in 1 .. k
      BY <1>13, <2>6, <3>3
    <3>4. QED
      BY <3>1, <3>2, <3>3
  <2>8. Lost(p, k, at2, i + 1, s2, b)
    BY <1>2, <1>5, <1>6, <1>12, <1>13, <1>15, <2>3, <2>5, <2>7 DEF Lost
  <2>9. QED
    BY <2>8
<1>16. QED
  BY <1>14, <1>15

LEMMA LostStays ==
  ASSUME NEW p, NEW e, NEW b, Closed(p, e, b), NEW j, NEW at, NEW next, NEW s,
         Lost(p, j, at, next, s, b), NEW i, Stops(b, next, i)
  PROVE  /\ Right(p, s)
         /\ b[i] # 0 => Lost(p, j, at + 254 * (i - next) + b[i], i + 1,
                             Append(s, at + 254 * (i - next) + b[i]), b)
<1>1. p \in Seq(Nat) /\ b \in Seq(Nat) /\ p # <<>>
  BY DEF Closed, Spaced, Table
<1>2. PICK len \in Nat, size \in Nat : len = Len(p) /\ size = Len(b)
  BY <1>1
<1>3. /\ j \in 1 .. len - 1 /\ Misread(p, j) /\ s \in Seq(Nat) /\ next \in 1 .. size
      /\ \A m \in 1 .. Len(s) : s[m] # p[j + 1]
  BY <1>2 DEF Lost
<1>4. j + 1 \in 1 .. len
  BY <1>2, <1>3
<1>5. PICK at1 \in Nat, c \in Nat : at1 = at /\ c = p[j + 1] /\ at1 > c
  <2>1. at \in Nat /\ at > p[j + 1]
    BY DEF Lost
  <2>2. p[j + 1] \in Nat
    BY <1>1, <1>2, <1>4
  <2>3. QED
    BY <2>1, <2>2
<1>6. Right(p, s)
  <2>1. Unwritable(p)
    BY <1>1, <1>2, <1>3 DEF Unwritable
  <2>2. p[j + 1] \in Range(p)
    BY <1>1, <1>2, <1>4 DEF Range
  <2>3. p[j + 1] \notin Range(s)
    BY <1>3 DEF Range
  <2>4. QED
    BY <2>1, <2>2, <2>3 DEF Right
<1>7. ASSUME b[i] # 0
      PROVE  Lost(p, j, at + 254 * (i - next) + b[i], i + 1, Append(s, at + 254 * (i - next) + b[i]), b)
  <2>1. i \in next .. size
    BY <1>2 DEF Stops
  <2>2. i \in 1 .. size /\ i \in Nat /\ i >= next /\ next \in Nat
    BY <1>2, <1>3, <2>1
  <2>3. PICK v \in Nat : v = b[i]
    BY <1>1, <1>2, <2>2
  <2>4. PICK to : to = at1 + 254 * (i - next) + v
    OBVIOUS
  <2>5. to \in Nat /\ to > c
    BY <1>5, <2>2, <2>3, <2>4
  <2>6. i # size
    BY <1>2, <1>7 DEF Closed
  <2>7. i + 1 \in 1 .. size
    BY <1>2, <2>2, <2>6
  <2>8. PICK t : t = Append(s, to)
    OBVIOUS
  <2>9. /\ Len(s) \in Nat /\ t \in Seq(Nat) /\ Len(t) = Len(s) + 1 /\ t[Len(s) + 1] = to
        /\ \A m \in 1 .. Len(s) : t[m] = s[m]
    BY <1>3, <2>5, <2>8, Appended
  <2>10. ASSUME NEW m \in 1 .. Len(t) PROVE t[m] # c
    <3>1. m = Len(s) + 1 \/ m \in 1 .. Len(s)
      BY <2>9, <2>10
    <3>2. CASE m = Len(s) + 1
      BY <1>5, <2>5, <2>9, <3>2
    <3>3. CASE m \in 1 .. Len(s)
      BY <1>3, <1>5, <2>9, <3>3
    <3>4. QED
      BY <3>1, <3>2, <3>3
  <2>11. Lost(p, j, to, i + 1, t, b)
    BY <1>2, <1>3, <1>5, <2>5, <2>7, <2>9, <2>10 DEF Lost
  <2>12. QED
    BY <1>5, <2>3, <2>4, <2>8, <2>11
<1>8. QED
  BY <1>6, <1>7

(***************************************************************************)
(* The relocations.  p is the addresses that were relocated so far.          *)
(***************************************************************************)
Covered(p) == \A r \in source.refs : IsLong(r) => Valued(r) \/ Waits(r) \/ At(r) \in Range(p)
FromRefs(p) == \A i \in 1 .. Len(p) : \E r \in source.refs : IsLong(r) /\ IsAddress(r.label) /\ At(r) = p[i]
Ahead(p) == \A i \in 1 .. Len(p), j \in 1 .. Len(fixups) : p[i] + 4 <= fixups[j].adr
FirstIs(p) == table.first = IF p = <<>> THEN 0 ELSE p[1]

Writing(p, e) ==
  /\ table = [first |-> table.first, bytes |-> table.bytes, last |-> table.last]
  /\ table.last = IF p = <<>> THEN -1 ELSE p[Len(p)]
  /\ Table(p, e, table.bytes) /\ Len(table.bytes) = End(p, e)
Reading(p, e) ==
  \/ \E k : Following(p, e, k, reader.at, reader.next, applied)
  \/ \E j : Lost(p, j, reader.at, reader.next, applied, table.bytes)
Stage(p, e) ==
  \/ phase = "pass2" /\ applied = <<>> /\ FirstIs(p) /\ Writing(p, e)
  \/ phase = "file" /\ applied = <<>> /\ FirstIs(p) /\ (p # <<>> => Closed(p, e, table.bytes))
  \/ phase = "reading" /\ Closed(p, e, table.bytes) /\ Reading(p, e)
  \/ phase = "ready" /\ Right(p, applied)

Places(p, e) == Spaced(p) /\ Covered(p) /\ FromRefs(p) /\ Ahead(p) /\ Stage(p, e)
PlacesInv ==
  /\ phase = "pass1" => applied = <<>>
  /\ phase \in {"pass2", "file", "reading", "ready"} => \E p, e : Places(p, e)

LEMMA PlacesKept ==
  ASSUME NEW p, Covered(p), FromRefs(p), Ahead(p), UNCHANGED <<labels, source, fixups>>
  PROVE  Covered(p)' /\ FromRefs(p)' /\ Ahead(p)'
  BY DEF Covered, FromRefs, Ahead, Valued, Waits, IsAddress

\* At the end of the source nothing is relocated.
LEMMA PlacesBegin == ASSUME CodeInv, PlacesInv, EndOfSource PROVE PlacesInv'
<1>1. /\ image = <<>> /\ table = [first |-> 0, bytes |-> <<>>, last |-> -1] /\ applied = <<>>
      /\ phase' = "pass2" /\ UNCHANGED <<labels, source, fixups, table, applied, image>>
  BY DEF EndOfSource, CodeInv, PhaseInv, PlacesInv
<1>2. PICK p : p = <<>>
  OBVIOUS
<1>3. p \in Seq(Nat) /\ Len(p) = 0 /\ 1 .. Len(p) = {}
  BY <1>2
<1>4. Spaced(p) /\ FromRefs(p) /\ Ahead(p)
  BY <1>3 DEF Spaced, FromRefs, Ahead
<1>5. Covered(p)
  BY <1>1 DEF Covered, CodeInv, RefsInv, Done
<1>6. PICK e : e = [i \in 1 .. Len(p) |-> 0]
  OBVIOUS
<1>7. e \in [1 .. Len(p) -> Nat] /\ 1 .. Len(p) - 1 = {} /\ <<>> \in Seq(Nat) /\ Len(<<>>) = 0
  BY <1>3, <1>6
<1>8. Table(p, e, <<>>) /\ End(p, e) = 0
  BY <1>2, <1>7 DEF Table, End
<1>9. table'.first = 0 /\ table'.bytes = <<>> /\ table'.last = -1 /\
      table' = [first |-> table'.first, bytes |-> table'.bytes, last |-> table'.last]
  BY <1>1
<1>10. Stage(p, e)'
  BY <1>1, <1>2, <1>7, <1>8, <1>9 DEF Stage, FirstIs, Writing
<1>11. Places(p, e)'
  BY <1>1, <1>4, <1>5, <1>10, PlacesKept DEF Places
<1>12. QED
  BY <1>1, <1>11 DEF PlacesInv

\* The second pass relocates the fixup it patches, or it is no pointer.
LEMMA PlacesPatched == ASSUME CodeInv, PlacesInv, Resolve PROVE PlacesInv'
<1>1. PICK f \in Fixes, val \in Nat :
           /\ f = Head(fixups) /\ fixups # <<>> /\ fixups[1] = f
           /\ IsAddress(f.label) /\ labels.obj[f.label].val = val
           /\ f.adr \in Nat /\ f.relTo \in Nat /\ f.label \in Keys
           /\ table' = IF f.size = Long THEN Relocate(f.adr) ELSE table
           /\ fixups' = Tail(fixups)
           /\ phase = "pass2"
           /\ UNCHANGED <<phase, labels, applied, source>>
  BY Patched
<1>2. PICK p, e : Places(p, e)
  BY <1>1 DEF PlacesInv
<1>3. Spaced(p) /\ applied = <<>> /\ FirstIs(p) /\ Writing(p, e) /\ p \in Seq(Nat)
  BY <1>1, <1>2 DEF Places, Stage, Spaced
<1>4. fixups \in Seq(Fixes) /\ source.refs \in SUBSET Refs
  BY DEF CodeInv, LinesInv
<1>5. /\ Len(fixups) >= 1 /\ Len(fixups) \in Nat
      /\ \A i \in 1 .. Len(fixups') : i + 1 \in 1 .. Len(fixups) /\ fixups'[i] = fixups[i + 1]
      /\ \A i \in 1 .. Len(fixups) : i = 1 \/ (i - 1 \in 1 .. Len(fixups') /\ fixups'[i - 1] = fixups[i])
  BY <1>1, <1>4, Tailed
<1>6. PICK a \in Nat : a = f.adr
  BY <1>1
<1>7. \A i \in 1 .. Len(p) : p[i] + 4 <= a
  BY <1>1, <1>2, <1>5, <1>6 DEF Places, Ahead
<1>8. ASSUME NEW q, Range(p) \subseteq Range(q), f.size = Long => a \in Range(q) PROVE Covered(q)'
  <2>1. SUFFICES ASSUME NEW r \in source.refs, IsLong(r)
                 PROVE  Valued(r)' \/ Waits(r)' \/ At(r) \in Range(q)
    BY <1>1 DEF Covered
  <2>2. Valued(r) => Valued(r)'
    BY <1>1 DEF Valued
  <2>3. ASSUME Waits(r) PROVE Waits(r)' \/ At(r) \in Range(q)
    <3>1. PICK i \in 1 .. Len(fixups) : fixups[i] = FixOf(r)
      BY <2>3 DEF Waits
    <3>2. CASE i = 1
      <4>1. r \in Refs /\ f = FixOf(r)
        BY <1>1, <1>4, <2>1, <3>1, <3>2
      <4>2. f.adr = At(r) /\ f.size = Long
        BY <2>1, <4>1, FixFields
      <4>3. QED
        BY <1>6, <1>8, <4>2
    <3>3. CASE i # 1
      BY <1>5, <3>1, <3>3 DEF Waits
    <3>4. QED
      BY <3>2, <3>3
  <2>4. Valued(r) \/ Waits(r) \/ At(r) \in Range(p)
    BY <1>2, <2>1 DEF Places, Covered
  <2>5. QED
    BY <1>8, <2>2, <2>3, <2>4
<1>9. ASSUME NEW i \in 1 .. Len(p), NEW j \in 1 .. Len(fixups') PROVE p[i] + 4 <= fixups'[j].adr
  BY <1>2, <1>5, <1>9 DEF Places, Ahead
<1>10. CASE f.size # Long
  <2>1. Covered(p)'
    BY <1>8, <1>10
  <2>2. FromRefs(p)'
    BY <1>1, <1>2 DEF Places, FromRefs, IsAddress
  <2>3. Ahead(p)'
    BY <1>9 DEF Ahead
  <2>4. Stage(p, e)'
    BY <1>1, <1>3, <1>10 DEF Stage, FirstIs, Writing
  <2>5. QED
    BY <1>1, <1>3, <2>1, <2>2, <2>3, <2>4 DEF PlacesInv, Places
<1>11. CASE f.size = Long
  <2>1. PICK q : q = Append(p, a)
    OBVIOUS
  <2>2. /\ Len(p) \in Nat /\ q \in Seq(Nat) /\ Len(q) = Len(p) + 1 /\ q[Len(p) + 1] = a /\ q # <<>>
        /\ \A i \in 1 .. Len(p) : q[i] = p[i]
    BY <1>3, <2>1, Appended
  <2>3. \A i \in 1 .. Len(q) : i = Len(p) + 1 \/ i \in 1 .. Len(p)
    BY <2>2
  <2>4. Spaced(q)
    BY <1>3, <1>7, <2>1, SpacedGrows
  <2>5. Covered(q)'
    <3>1. ASSUME NEW x \in Range(p) PROVE x \in Range(q)
      <4>1. PICK i \in 1 .. Len(p) : x = p[i]
        BY <1>3, <3>1 DEF Range
      <4>2. i \in 1 .. Len(q) /\ q[i] = x
        BY <2>2, <4>1
      <4>3. QED
        BY <2>2, <4>2 DEF Range
    <3>2. a \in Range(q)
      <4>1. Len(p) + 1 \in 1 .. Len(q)
        BY <2>2
      <4>2. QED
        BY <2>2, <4>1 DEF Range
    <3>3. QED
      BY <1>8, <3>1, <3>2
  <2>6. FromRefs(q)'
    <3>1. SUFFICES ASSUME NEW i \in 1 .. Len(q)
                   PROVE  \E r \in source.refs : IsLong(r) /\ IsAddress(r.label) /\ At(r) = q[i]
      BY <1>1 DEF FromRefs, IsAddress
    <3>2. CASE i \in 1 .. Len(p)
      BY <1>2, <2>2, <3>2 DEF Places, FromRefs
    <3>3. CASE i = Len(p) + 1
      <4>1. 1 \in 1 .. Len(fixups)
        BY <1>5
      <4>2. PICK r \in source.refs : f = FixOf(r)
        BY <1>1, <4>1 DEF CodeInv, LinesInv
      <4>3. IsLong(r) /\ f.label = r.label /\ At(r) = a
        BY <1>4, <1>6, <1>11, <4>2, FixFields
      <4>4. QED
        BY <1>1, <2>2, <3>3, <4>3
    <3>4. QED
      BY <2>3, <3>2, <3>3
  <2>7. Ahead(q)'
    <3>1. SUFFICES ASSUME NEW i \in 1 .. Len(q), NEW j \in 1 .. Len(fixups') PROVE q[i] + 4 <= fixups'[j].adr
      BY DEF Ahead
    <3>2. CASE i \in 1 .. Len(p)
      BY <1>9, <2>2, <3>2
    <3>3. CASE i = Len(p) + 1
      <4>1. j + 1 \in 1 .. Len(fixups) /\ fixups'[j] = fixups[j + 1] /\ 1 \in 1 .. Len(fixups) /\ 1 < j + 1
        BY <1>5, <3>1
      <4>2. f.adr + Width(f) <= fixups[j + 1].adr
        BY <1>1, <4>1 DEF CodeInv, LinesInv
      <4>3. Width(f) = 4
        BY <1>11 DEF Width
      <4>4. QED
        BY <1>6, <2>2, <3>3, <4>1, <4>2, <4>3
    <3>4. QED
      BY <2>3, <3>2, <3>3
  <2>8. table' = Relocate(a)
    BY <1>1, <1>6, <1>11
  <2>9. \E g : Stage(q, g)'
    <3>1. CASE p = <<>>
      <4>1. q = <<a>>
        BY <2>1, <3>1
      <4>2. table.bytes = <<>>
        <5>1. table.bytes \in Seq(Nat) /\ Len(table.bytes) = 0
          BY <1>3, <3>1 DEF Writing, Table, End
        <5>2. QED
          BY <5>1, EmptySeq
      <4>3. table.last = -1
        BY <1>3, <3>1 DEF Writing
      <4>4. table' = [table EXCEPT !.first = a, !.last = a]
        BY <2>8, <4>3 DEF Relocate
      <4>5. table' = [first |-> a, bytes |-> <<>>, last |-> a]
        BY <1>3, <4>2, <4>4 DEF Writing
      <4>6. /\ table'.first = a /\ table'.last = a /\ table'.bytes = <<>>
            /\ table' = [first |-> table'.first, bytes |-> table'.bytes, last |-> table'.last]
        BY <4>5
      <4>7. Table(q, <<0>>, table'.bytes) /\ Len(table'.bytes) = End(q, <<0>>)
        BY <4>1, <4>6, TableStarts, EmptySeq
      <4>8. q # <<>> /\ q[1] = a /\ q[Len(q)] = a
        BY <4>1
      <4>9. Stage(q, <<0>>)'
        BY <1>1, <1>3, <4>6, <4>7, <4>8 DEF Stage, FirstIs, Writing
      <4>10. QED
        BY <4>9
    <3>2. CASE p # <<>>
      <4>1. Len(p) \in 1 .. Len(p) /\ 1 \in 1 .. Len(p) /\ p[Len(p)] \in Nat
        BY <1>3, <2>2, <3>2
      <4>2. table.last = p[Len(p)]
        BY <1>3, <3>2 DEF Writing
      <4>3. table' = [table EXCEPT !.bytes = @ \o DistanceBytes(a - p[Len(p)]), !.last = a]
        BY <2>8, <4>1, <4>2 DEF Relocate
      <4>4. PICK c : c = table.bytes \o DistanceBytes(a - p[Len(p)])
        OBVIOUS
      <4>5. table' = [first |-> table.first, bytes |-> c, last |-> a]
        BY <1>3, <4>3, <4>4 DEF Writing
      <4>6. /\ table'.first = table.first /\ table'.last = a /\ table'.bytes = c
            /\ table' = [first |-> table'.first, bytes |-> table'.bytes, last |-> table'.last]
        BY <4>5
      <4>7. PICK g : Table(q, g, c) /\ Len(c) = End(q, g)
        <5>1. PICK b : b = table.bytes
          OBVIOUS
        <5>2. Table(p, e, b) /\ Len(b) = End(p, e) /\ p[Len(p)] + 4 <= a /\ c = b \o DistanceBytes(a - p[Len(p)])
          BY <1>3, <1>7, <4>1, <4>4, <5>1 DEF Writing
        <5>3. \E g : Table(Append(p, a), g, c) /\ Len(c) = End(Append(p, a), g)
          <6>1. Spaced(p) /\ p # <<>> /\ a \in Nat
            BY <1>3, <1>6, <3>2
          <6>2. Grown(p, e, b, a, c)
            BY <5>2, <6>1, Zenon DEF Grown
          <6>3. QED
            BY <6>2, TableGrows
        <5>4. QED
          BY <2>1, <5>3, Zenon
      <4>8. q # <<>> /\ q[1] = p[1] /\ q[Len(q)] = a
        BY <2>2, <4>1
      <4>9. table.first = p[1]
        BY <1>3, <3>2 DEF FirstIs
      <4>10. Stage(q, g)'
        BY <1>1, <1>3, <4>6, <4>7, <4>8, <4>9 DEF Stage, FirstIs, Writing
      <4>11. QED
        BY <4>10
    <3>3. QED
      BY <3>1, <3>2
  <2>10. PICK g : Stage(q, g)'
    BY <2>9
  <2>11. QED
    BY <1>1, <2>4, <2>5, <2>6, <2>7, <2>10 DEF PlacesInv, Places
<1>12. QED
  BY <1>10, <1>11

LEMMA FollowingInside ==
  ASSUME NEW p, NEW e, NEW b, Closed(p, e, b), NEW k, NEW at, NEW next, NEW s,
         Following(p, e, k, at, next, s)
  PROVE  next \in 1 .. Len(b)
<1>1. b \in Seq(Nat) /\ e \in [1 .. Len(p) -> Nat]
  BY DEF Closed, Table
<1>2. k \in 1 .. Len(p) /\ next = e[k] + 1
  BY DEF Following
<1>3. CASE k = Len(p)
  <2>1. PICK x \in Nat, size \in Nat : x = e[k] /\ size = Len(b)
    BY <1>1, <1>2
  <2>2. size = x + 1 /\ next = x + 1
    BY <1>2, <1>3, <2>1 DEF Closed
  <2>3. QED
    BY <2>1, <2>2
<1>4. CASE k # Len(p)
  <2>1. PICK a \in Nat, c \in Nat, x \in Nat, y \in Nat, n \in Nat, l \in Nat :
          Distance(p, e, b, k, a, c, x, y, n, l)
    BY <1>2, <1>4, NextDistance
  <2>2. x = e[k] /\ y = x + n + 1 /\ y \in 1 .. Len(b)
    BY <2>1 DEF Distance
  <2>3. PICK size \in Nat : size = Len(b)
    BY <1>1
  <2>4. y \in 1 .. size /\ next = x + 1
    BY <1>2, <2>2, <2>3
  <2>5. QED
    BY <2>1, <2>2, <2>3, <2>4
<1>5. QED
  BY <1>3, <1>4

\* Finish closes the table with a byte of zero.
LEMMA TableCloses ==
  ASSUME NEW p, Spaced(p), p # <<>>, NEW e, NEW b, Table(p, e, b), Len(b) = End(p, e),
         NEW c, c = Append(b, 0)
  PROVE  Closed(p, e, c)
<1>1. b \in Seq(Nat)
  BY DEF Table
<1>2. /\ c \in Seq(Nat) /\ Len(c) = Len(b) + 1 /\ c[Len(b) + 1] = 0 /\ Len(b) \in Nat
      /\ \A i \in 1 .. Len(b) : c[i] = b[i]
  BY <1>1, Appended
<1>3. Len(b) <= Len(c)
  BY <1>2
<1>4. Table(p, e, c)
  BY <1>2, <1>3, TableKept
<1>5. Len(b) = e[Len(p)]
  BY DEF End
<1>6. QED
  BY <1>2, <1>4, <1>5 DEF Closed

LEMMA PlacesFinished == ASSUME PlacesInv, Finish PROVE PlacesInv'
<1>1. /\ phase = "pass2" /\ phase' = "file"
      /\ table' = IF table.last < 0 THEN table ELSE [table EXCEPT !.bytes = Append(@, 0)]
      /\ UNCHANGED <<labels, source, fixups, applied>>
  BY DEF Finish
<1>2. PICK p, e : Places(p, e)
  BY <1>1 DEF PlacesInv
<1>3. Spaced(p) /\ applied = <<>> /\ FirstIs(p) /\ Writing(p, e) /\ p \in Seq(Nat)
  BY <1>1, <1>2 DEF Places, Stage, Spaced
<1>4. CASE p = <<>>
  <2>1. table.last = -1
    BY <1>3, <1>4 DEF Writing
  <2>2. table' = table
    BY <1>1, <2>1
  <2>3. Stage(p, e)'
    BY <1>1, <1>3, <1>4, <2>2 DEF Stage, FirstIs
  <2>4. QED
    BY <1>1, <1>2, <2>3, PlacesKept DEF PlacesInv, Places
<1>5. CASE p # <<>>
  <2>1. Len(p) \in 1 .. Len(p)
    BY <1>3, <1>5
  <2>2. PICK last \in Nat : last = table.last
    BY <1>3, <1>5, <2>1 DEF Writing
  <2>3. ~ (table.last < 0)
    BY <2>2
  <2>4. table' = [first |-> table.first, bytes |-> Append(table.bytes, 0), last |-> table.last]
    BY <1>1, <1>3, <2>3 DEF Writing
  <2>5. table'.first = table.first /\ table'.bytes = Append(table.bytes, 0)
    BY <2>4
  <2>6. Closed(p, e, table'.bytes)
    <3>1. PICK b, c : b = table.bytes /\ c = Append(b, 0)
      OBVIOUS
    <3>2. Table(p, e, b) /\ Len(b) = End(p, e)
      BY <1>3, <3>1 DEF Writing
    <3>3. Closed(p, e, c)
      BY <1>3, <1>5, <3>1, <3>2, TableCloses
    <3>4. QED
      BY <2>5, <3>1, <3>3
  <2>7. Stage(p, e)'
    BY <1>1, <1>3, <2>5, <2>6 DEF Stage, FirstIs
  <2>8. QED
    BY <1>1, <1>2, <2>7, PlacesKept DEF PlacesInv, Places
<1>6. QED
  BY <1>4, <1>5

LEMMA PlacesFirst == ASSUME PlacesInv, FirstFixup PROVE PlacesInv'
<1>1. phase = "file" /\ UNCHANGED <<labels, source, fixups, table>>
  BY DEF FirstFixup
<1>2. PICK p, e : Places(p, e)
  BY <1>1 DEF PlacesInv
<1>3. Spaced(p) /\ applied = <<>> /\ FirstIs(p) /\ (p # <<>> => Closed(p, e, table.bytes)) /\ p \in Seq(Nat)
  BY <1>1, <1>2 DEF Places, Stage, Spaced
<1>4. CASE table.first = 0
  <2>1. phase' = "ready" /\ applied' = applied
    BY <1>4 DEF FirstFixup
  <2>2. CASE p = <<>>
    <3>1. Right(p, applied)
      BY <1>3, <2>2 DEF Right, Unwritable
    <3>2. Stage(p, e)'
      BY <2>1, <3>1 DEF Stage
    <3>3. QED
      BY <1>1, <1>2, <2>1, <3>2, PlacesKept DEF PlacesInv, Places
  <2>3. CASE p # <<>>
    <3>1. p[1] = 0
      BY <1>3, <1>4, <2>3 DEF FirstIs
    <3>2. Len(p) # 0 /\ Len(<<>>) = 0
      BY <1>3, <2>3
    <3>3. Right(p, applied)
      BY <1>3, <2>3, <3>1, <3>2 DEF Right, Unwritable
    <3>4. Stage(p, e)'
      BY <2>1, <3>3 DEF Stage
    <3>5. QED
      BY <1>1, <1>2, <2>1, <3>4, PlacesKept DEF PlacesInv, Places
  <2>4. QED
    BY <2>2, <2>3
<1>5. CASE table.first # 0
  <2>1. phase' = "reading" /\ applied' = Append(applied, table.first) /\ reader' = [at |-> table.first, next |-> 1]
    BY <1>5 DEF FirstFixup, Relocated
  <2>2. p # <<>> /\ table.first = p[1]
    BY <1>3, <1>5 DEF FirstIs
  <2>3. 1 \in 1 .. Len(p) /\ p[1] \in Nat
    BY <1>3, <2>2
  <2>4. applied' = <<p[1]>> /\ reader'.at = p[1] /\ reader'.next = 1
    BY <1>3, <2>1, <2>2
  <2>5. e[1] = 0 /\ Closed(p, e, table.bytes)
    BY <1>3, <2>2 DEF Closed, Table
  <2>6. Following(p, e, 1, p[1], 1, <<p[1]>>)
    <3>1. <<p[1]>> \in Seq(Nat) /\ Len(<<p[1]>>) = 1 /\ <<p[1]>>[1] = p[1] /\ 1 = e[1] + 1
      BY <2>3, <2>5
    <3>2. \A i \in 1 .. 1 : i = 1
      OBVIOUS
    <3>3. \A i \in 1 .. 1 - 1 : FALSE
      OBVIOUS
    <3>4. p[1] # 0
      BY <1>5, <2>2
    <3>5. QED
      BY <2>3, <3>1, <3>2, <3>3, <3>4, Zenon DEF Following
  <2>7. Stage(p, e)'
    BY <1>1, <2>1, <2>4, <2>5, <2>6 DEF Stage, Reading
  <2>8. QED
    BY <1>1, <1>2, <2>1, <2>7, PlacesKept DEF PlacesInv, Places
<1>6. QED
  BY <1>4, <1>5

LEMMA PlacesNext == ASSUME PlacesInv, NextFixup PROVE PlacesInv'
<1>1. phase = "reading" /\ UNCHANGED <<labels, source, fixups, table>>
  BY DEF NextFixup
<1>2. PICK p, e : Places(p, e)
  BY <1>1 DEF PlacesInv
<1>3. Spaced(p) /\ Closed(p, e, table.bytes) /\ Reading(p, e)
  BY <1>1, <1>2 DEF Places, Stage
<1>4. PICK b, at, next, s : b = table.bytes /\ at = reader.at /\ next = reader.next /\ s = applied
  OBVIOUS
<1>5. PICK i : i = Min({m \in next .. Len(b) : b[m] # 1})
  OBVIOUS
<1>6. PICK at2 : at2 = at + 254 * (i - next) + b[i]
  OBVIOUS
<1>7. /\ b[i] = 0 => phase' = "ready" /\ applied' = applied
      /\ b[i] # 0 => /\ reader' = [at |-> at2, next |-> i + 1] /\ applied' = Append(s, at2)
                     /\ phase' = "reading"
  BY <1>4, <1>5, <1>6 DEF NextFixup, Relocated
<1>8. Closed(p, e, b) /\ ((\E k : Following(p, e, k, at, next, s)) \/ (\E j : Lost(p, j, at, next, s, b)))
  BY <1>3, <1>4 DEF Reading
<1>9. next \in 1 .. Len(b)
  BY <1>8, FollowingInside DEF Lost
<1>10. Stops(b, next, i)
  <2>1. b \in Seq(Nat) /\ b[Len(b)] = 0
    BY <1>8 DEF Closed, Table
  <2>2. QED
    BY <1>5, <1>9, <2>1, FirstNotOne
<1>11. CASE b[i] = 0
  <2>1. Right(p, s)
    BY <1>8, <1>10, <1>11, FollowingStops, LostStays
  <2>2. Stage(p, e)'
    BY <1>4, <1>7, <1>11, <2>1 DEF Stage
  <2>3. QED
    BY <1>1, <1>2, <1>7, <1>11, <2>2, PlacesKept DEF PlacesInv, Places
<1>12. CASE b[i] # 0
  <2>1. PICK s2 : s2 = Append(s, at2)
    OBVIOUS
  <2>2. \/ \E j : Following(p, e, j, at2, i + 1, s2)
        \/ \E j : Lost(p, j, at2, i + 1, s2, b)
    <3>1. CASE \E k : Following(p, e, k, at, next, s)
      <4>1. PICK k : Following(p, e, k, at, next, s)
        BY <3>1
      <4>2. GoesOn(b, at, next, s, i, at2, s2)
        BY <1>6, <1>10, <1>12, <2>1, Zenon DEF GoesOn
      <4>3. QED
        BY <1>8, <4>1, <4>2, FollowingGoesOn
    <3>2. CASE \E j : Lost(p, j, at, next, s, b)
      <4>1. PICK j : Lost(p, j, at, next, s, b)
        BY <3>2
      <4>2. Lost(p, j, at2, i + 1, s2, b)
        BY <1>6, <1>8, <1>10, <1>12, <2>1, <4>1, LostStays
      <4>3. QED
        BY <4>2
    <3>3. QED
      BY <1>8, <3>1, <3>2
  <2>3. reader'.at = at2 /\ reader'.next = i + 1 /\ applied' = s2 /\ phase' = "reading" /\ table'.bytes = b
    BY <1>1, <1>4, <1>7, <1>12, <2>1
  <2>4. Reading(p, e)'
    BY <2>2, <2>3, Zenon DEF Reading
  <2>5. Stage(p, e)'
    BY <1>8, <2>3, <2>4 DEF Stage
  <2>6. QED
    BY <1>1, <1>2, <2>3, <2>5, PlacesKept DEF PlacesInv, Places
<1>13. QED
  BY <1>11, <1>12

LEMMA PlacesSame ==
  ASSUME PlacesInv, UNCHANGED <<phase, labels, source, fixups, table, reader, applied>>
  PROVE  PlacesInv'
<1>1. (phase = "pass1" => applied = <<>>)'
  BY DEF PlacesInv
<1>2. ASSUME phase \in {"pass2", "file", "reading", "ready"} PROVE \E p, e : Places(p, e)'
  <2>1. PICK p, e : Places(p, e)
    BY <1>2 DEF PlacesInv
  <2>2. Stage(p, e)'
    BY <2>1 DEF Places, Stage, FirstIs, Writing, Reading
  <2>3. Places(p, e)'
    BY <2>1, <2>2, PlacesKept DEF Places
  <2>4. QED
    BY <2>3
<1>3. QED
  BY <1>1, <1>2 DEF PlacesInv

LEMMA PlacesNow == ASSUME CodeInv, PlacesInv, [Next]_vars PROVE PlacesInv'
<1>1. ASSUME phase = "pass1", phase' = "pass1", applied' = applied PROVE PlacesInv'
  BY <1>1 DEF PlacesInv
<1>2. ASSUME Error PROVE PlacesInv'
  BY <1>2 DEF PlacesInv, Error
<1>3. CASE \E name \in Keys : LabelLine(name) \/ Redefinition(name)
  BY <1>1, <1>2, <1>3 DEF LabelLine, Redefinition, Line
<1>4. CASE \E name \in Used : Equ(name)
  BY <1>1, <1>4 DEF Equ, Line
<1>5. CASE \E length \in Gaps : Ds(length)
  BY <1>1, <1>5 DEF Ds, Line
<1>6. CASE \E kind \in Kinds, name \in Used : Reference(kind, name) \/ BadReference(kind, name)
  <2>1. PICK kind \in Kinds, name \in Used : Reference(kind, name) \/ BadReference(kind, name)
    BY <1>6
  <2>2. CASE Reference(kind, name)
    BY <1>1, <2>2 DEF Reference, Line
  <2>3. CASE BadReference(kind, name)
    BY <1>2, <2>3 DEF BadReference
  <2>4. QED
    BY <2>1, <2>2, <2>3
<1>7. CASE Unresolved
  BY <1>2, <1>7 DEF Unresolved
<1>8. CASE UNCHANGED vars
  BY <1>8, PlacesSame DEF vars
<1>9. QED
  BY <1>3, <1>4, <1>5, <1>6, <1>7, <1>8, PlacesBegin, PlacesPatched, PlacesFinished, PlacesFirst, PlacesNext
    DEF Next

LEMMA PlacesInvariant == Spec => []PlacesInv
<1>1. Init => PlacesInv
  BY DEF Init, PlacesInv
<1>2. CodeInv /\ PlacesInv /\ [Next]_vars => PlacesInv'
  BY PlacesNow
<1>3. QED
  BY <1>1, <1>2, CodeInvariant, PTL DEF Spec

\* In a program that is ready the places are the pointers.
LEMMA PlacesArePointers ==
  ASSUME CodeInv, phase = "ready", NEW p, Covered(p), FromRefs(p), p \in Seq(Nat)
  PROVE  Pointers = Range(p)
<1>1. fixups = <<>> /\ source.refs \in SUBSET Refs
  BY DEF CodeInv, PhaseInv, LinesInv
<1>2. ASSUME NEW r \in source.refs
      PROVE  r.label \in Keys /\ (source.places[r.label] # Null <=> IsAddress(r.label))
  <2>1. r.label \in Keys
    BY <1>1, FixFields
  <2>2. source.places[r.label] = IF IsAddress(r.label) THEN labels.obj[r.label].val ELSE Null
    BY <2>1 DEF CodeInv, LabelsInv
  <2>3. IsAddress(r.label) => labels.obj[r.label].val \in Nat
    BY <2>1, Labels DEF CodeInv, IsAddress, Label
  <2>4. QED
    BY <2>1, <2>2, <2>3, NoLabel
<1>3. ASSUME NEW x \in Pointers PROVE x \in Range(p)
  <2>1. PICK r \in source.refs : source.places[r.label] # Null /\ IsLong(r) /\ x = At(r)
    BY <1>3 DEF Pointers, AddressRefs
  <2>2. IsAddress(r.label)
    BY <1>2, <2>1
  <2>3. ~ Valued(r) /\ ~ Waits(r)
    BY <1>1, <2>2 DEF Valued, Waits, IsAddress
  <2>4. QED
    BY <2>1, <2>3 DEF Covered
<1>4. ASSUME NEW x \in Range(p) PROVE x \in Pointers
  <2>1. PICK i \in 1 .. Len(p) : x = p[i]
    BY <1>4 DEF Range
  <2>2. PICK r \in source.refs : IsLong(r) /\ IsAddress(r.label) /\ At(r) = x
    BY <2>1 DEF FromRefs
  <2>3. r \in AddressRefs
    BY <1>2, <2>2 DEF AddressRefs
  <2>4. QED
    BY <2>2, <2>3 DEF Pointers
<1>5. QED
  BY <1>3, <1>4

LEMMA SpacedCount == ASSUME NEW p, Spaced(p) PROVE Cardinality(Range(p)) = Len(p)
<1>1. p \in Seq(Nat) /\ DOMAIN p = 1 .. Len(p)
  BY DEF Spaced
<1>2. PICK S, n : S = Range(p) /\ n = Len(p)
  OBVIOUS
<1>2a. n \in Nat
  BY <1>1, <1>2, LenProperties
<1>3. p \in [1 .. n -> S] /\ \A t \in S : \E i \in 1 .. n : p[i] = t
  BY <1>1, <1>2 DEF Range
<1>4. ASSUME NEW i \in 1 .. n, NEW j \in 1 .. n, p[i] = p[j] PROVE i = j
  <2>1. p[i] \in Nat /\ p[j] \in Nat
    BY <1>1, <1>2
  <2>2. ~ (p[i] + 4 <= p[j]) /\ ~ (p[j] + 4 <= p[i])
    BY <1>4, <2>1
  <2>3. ~ (i < j) /\ ~ (j < i)
    BY <1>2, <2>2 DEF Spaced
  <2>4. QED
    BY <1>2, <1>2a, <2>3
<1>5. p \in Bijection(1 .. n, S)
  BY <1>3, <1>4 DEF Bijection, Injection, Surjection, IsInjective
<1>6. ExistsBijection(1 .. n, S)
  BY <1>5 DEF ExistsBijection
<1>7. QED
  BY <1>2, <1>2a, <1>6, FS_CountingElements

\* The greatest of the places before the k-th is the one before it.
LEMMA PlaceBefore ==
  ASSUME NEW p, Spaced(p), NEW k \in 1 .. Len(p), NEW before, before = {b \in Range(p) : b < p[k]}
  PROVE  /\ k = 1 => before = {}
         /\ k # 1 => before # {} /\ Max(before) = p[k - 1]
<1>1. p \in Seq(Nat) /\ DOMAIN p = 1 .. Len(p)
  BY DEF Spaced
<1>2. PICK n \in Nat : n = Len(p)
  BY <1>1, LenProperties
<1>3. ASSUME NEW b \in before PROVE \E i \in 1 .. n : b = p[i] /\ i < k
  <2>1. PICK i \in 1 .. n : b = p[i]
    BY <1>1, <1>2, <1>3 DEF Range
  <2>2. p[i] \in Nat /\ p[k] \in Nat /\ p[i] < p[k]
    BY <1>1, <1>2, <1>3, <2>1
  <2>3. ~ (p[k] + 4 <= p[i]) /\ i # k
    BY <2>2
  <2>4. ~ (k < i)
    BY <1>2, <2>3 DEF Spaced
  <2>5. i < k
    BY <1>2, <2>3, <2>4
  <2>6. QED
    BY <2>1, <2>5
<1>4. CASE k = 1
  BY <1>2, <1>3, <1>4
<1>5. CASE k # 1
  <2>1. k - 1 \in 1 .. n /\ k - 1 < k
    BY <1>2, <1>5
  <2>2. p[k - 1] \in Nat /\ p[k] \in Nat /\ p[k - 1] + 4 <= p[k]
    BY <1>1, <1>2, <2>1 DEF Spaced
  <2>3. p[k - 1] \in before
    <3>1. p[k - 1] \in Range(p)
      BY <1>1, <1>2, <2>1, Zenon DEF Range
    <3>2. p[k - 1] < p[k]
      BY <2>2
    <3>3. QED
      BY <3>1, <3>2
  <2>4. ASSUME NEW b \in before PROVE b \in Nat /\ p[k - 1] >= b
    <3>1. PICK i \in 1 .. n : b = p[i] /\ i < k
      BY <1>3
    <3>2. p[i] \in Nat
      BY <1>1, <1>2, <3>1
    <3>3. i = k - 1 \/ i < k - 1
      BY <1>2, <3>1
    <3>4. CASE i < k - 1
      <4>1. p[i] + 4 <= p[k - 1]
        BY <1>2, <2>1, <3>1, <3>4 DEF Spaced
      <4>2. QED
        BY <2>2, <3>1, <3>2, <4>1
    <3>5. QED
      BY <2>2, <3>1, <3>2, <3>3, <3>4
  <2>5. \E x \in before : \A y \in before : x >= y
    BY <2>3, <2>4
  <2>6. PICK x \in before : x = Max(before) /\ \A y \in before : x >= y
    BY <2>5 DEF Max
  <2>7. x >= p[k - 1] /\ p[k - 1] >= x /\ x \in Nat
    BY <2>3, <2>4, <2>6
  <2>8. QED
    BY <1>5, <2>2, <2>3, <2>6, <2>7
<1>6. QED
  BY <1>4, <1>5

LEMMA UnreadableIs ==
  ASSUME NEW p, Spaced(p), Pointers = Range(p)
  PROVE  Unreadable <=> Unwritable(p)
<1>1. p \in Seq(Nat) /\ DOMAIN p = 1 .. Len(p)
  BY DEF Spaced
<1>2. PICK n \in Nat : n = Len(p)
  BY <1>1, LenProperties
<1>3. \A x : x \in Range(p) <=> \E i \in 1 .. n : x = p[i]
  BY <1>1, <1>2 DEF Range
<1>4. 0 \in Pointers <=> p # <<>> /\ p[1] = 0
  <2>1. ASSUME NEW i \in 1 .. n, p[i] = 0 PROVE p # <<>> /\ p[1] = 0
    <3>1. p[1] \in Nat /\ 1 \in 1 .. n
      BY <1>1, <1>2, <2>1
    <3>2. ~ (p[1] + 4 <= p[i])
      BY <2>1, <3>1
    <3>3. ~ (1 < i)
      BY <1>2, <3>1, <3>2 DEF Spaced
    <3>4. i = 1
      BY <1>2, <3>3
    <3>5. QED
      BY <1>1, <1>2, <2>1, <3>4
  <2>2. ASSUME p # <<>>, p[1] = 0 PROVE \E i \in 1 .. n : 0 = p[i]
    <3>1. 1 \in 1 .. n
      BY <1>1, <1>2, <2>2
    <3>2. QED
      BY <2>2, <3>1
  <2>3. QED
    BY <1>3, <2>1, <2>2
<1>5. ASSUME NEW a \in Pointers, NEW before, before = {b \in Pointers : b < a},
             before # {}, a - Max(before) > 254, (a - Max(before)) % 254 = 1
      PROVE  \E i \in 1 .. Len(p) - 1 : Misread(p, i)
  <2>1. PICK k \in 1 .. n : a = p[k]
    BY <1>3
  <2>2. before = {b \in Range(p) : b < p[k]}
    BY <1>5, <2>1
  <2>3. k # 1 /\ Max(before) = p[k - 1]
    BY <1>2, <1>5, <2>2, PlaceBefore
  <2>4. k - 1 \in 1 .. Len(p) - 1 /\ (k - 1) + 1 = k
    BY <1>2, <2>3
  <2>5. Misread(p, k - 1)
    BY <1>5, <2>1, <2>3, <2>4, Zenon DEF Misread
  <2>6. QED
    BY <2>4, <2>5
<1>6. ASSUME NEW i \in 1 .. Len(p) - 1, Misread(p, i)
      PROVE  \E a \in Pointers : LET before == {b \in Pointers : b < a}
                                 IN before # {} /\ a - Max(before) > 254 /\ (a - Max(before)) % 254 = 1
  <2>1. i + 1 \in 1 .. n /\ i + 1 # 1 /\ (i + 1) - 1 = i
    BY <1>2
  <2>2. PICK before : before = {b \in Pointers : b < p[i + 1]}
    OBVIOUS
  <2>3. before = {b \in Range(p) : b < p[i + 1]}
    BY <2>2
  <2>4. before # {} /\ Max(before) = p[(i + 1) - 1]
    <3>1. i + 1 \in 1 .. Len(p) /\ i + 1 # 1
      BY <1>2, <2>1
    <3>2. QED
      BY <2>3, <3>1, PlaceBefore, Zenon
  <2>5. p[i + 1] - Max(before) > 254 /\ (p[i + 1] - Max(before)) % 254 = 1
    BY <1>6, <2>1, <2>4, Zenon DEF Misread
  <2>6. p[i + 1] \in Pointers
    BY <1>3, <2>1
  <2>7. QED
    BY <2>2, <2>4, <2>5, <2>6, Zenon
<1>7. (\E i \in 1 .. Len(p) - 1 : Misread(p, i)) => p # <<>>
  BY <1>1
<1>8. QED
  BY <1>4, <1>5, <1>6, <1>7, Zenon DEF Unreadable, Unwritable

\* Unless the table cannot be read, the loader and the disassembler relocate the
\* address of every label in the program, once, and nothing else.
THEOREM EveryPointerIsRelocated == Spec => []PointersRelocated
<1>1. CodeInv /\ PlacesInv => PointersRelocated
  <2>1. SUFFICES ASSUME CodeInv, PlacesInv, phase = "ready"
                 PROVE  ~ Unreadable <=> /\ Range(applied) = Pointers
                                         /\ Len(applied) = Cardinality(Pointers)
    BY Zenon DEF PointersRelocated
  <2>2. PICK p, e : Places(p, e)
    BY <2>1 DEF PlacesInv
  <2>3. Spaced(p) /\ Covered(p) /\ FromRefs(p) /\ Right(p, applied) /\ p \in Seq(Nat)
    BY <2>1, <2>2 DEF Places, Stage, Spaced
  <2>4. Pointers = Range(p)
    BY <2>1, <2>3, PlacesArePointers
  <2>5. Unreadable <=> Unwritable(p)
    BY <2>3, <2>4, UnreadableIs
  <2>6. Cardinality(Pointers) = Len(p)
    BY <2>3, <2>4, SpacedCount
  <2>7. QED
    BY <2>3, <2>4, <2>5, <2>6, Zenon DEF Right
<1>2. QED
  BY <1>1, CodeInvariant, PlacesInvariant, PTL
=============================================================================
