-------------------------------- MODULE Avl --------------------------------
(***************************************************************************)
(* The AVL trees of src/filebench/fb_avl.c, in which a fileset keeps its   *)
(* free, existing and non-existing entries.  A node is its key (fse_index  *)
(* in fileset_entry_compare()), so that comparing two nodes is comparing   *)
(* two numbers; the links, the child index and the balance are the fields  *)
(* of avl_node and are read and written as the code reads and writes them. *)
(* Keys are only ever compared, so a state numbers the nodes of the tree   *)
(* 2, 4, 6, ... in key order and leaves an odd number for every gap.       *)
(*                                                                         *)
(* The operators take and return the memory of one tree,                   *)
(*   root, num                     avl_root and avl_numnodes               *)
(*   child, parent, xchild, bal    the four fields of every avl_node.      *)
(* Callers serialise all of it (fs_pick_lock), so an operation is a step.  *)
(* The operators recur along the links, so nothing is proved here.         *)
(***************************************************************************)
EXTENDS Integers, Sequences, Functions

CONSTANTS
  NULL,        \* the null pointer, a number that is no key
  MaxNodes,    \* bound: the nodes of the tree
  MaxShift     \* bound: how far one update moves a key

ASSUME BoundsAssumption == MaxNodes \in Nat /\ MaxShift \in Nat /\ NULL = 0

Keys == 1..(2 * MaxNodes + 1)

\* The avl_node_t on the stack of avl_remove().
Tmp == -1

VARIABLE avl

\* The nodes, each with the fields of struct avl_node: on LP64 its parent, child
\* index and balance share a word, which the accessors take apart.
Nodes == Keys \cup {Tmp}

\* A node that is in no tree: avl_insert() writes all of its fields before any
\* is read.
NoLinks == [c \in {0, 1} |-> NULL]

avl_create ==
  [root |-> NULL, num |-> 0,
   child |-> [n \in Nodes |-> NoLinks], parent |-> [n \in Nodes |-> NULL],
   xchild |-> [n \in Nodes |-> 0], bal |-> [n \in Nodes |-> 0]]

avl_child2balance(c) == IF c = 0 THEN -1 ELSE 1

avl_balance2child(b) == IF b = 1 THEN 1 ELSE 0

\* The fields of a node given up: nothing reads them again.
Forget(m, n) == [m EXCEPT !.child[n] = NoLinks, !.parent[n] = NULL,
                          !.xchild[n] = 0, !.bal[n] = 0]

-----------------------------------------------------------------------------
(* Searching.                                                              *)

\* Down the children of one side from n as far as they go.
RECURSIVE Deepest(_, _, _)
Deepest(m, n, side) ==
  IF m.child[n][side] = NULL THEN n ELSE Deepest(m, m.child[n][side], side)

avl_first(m) == IF m.root = NULL THEN NULL ELSE Deepest(m, m.root, 0)

avl_last(m) == IF m.root = NULL THEN NULL ELSE Deepest(m, m.root, 1)

\* Up from n until an ancestor is reached from its child on the given side.
RECURSIVE Ascend(_, _, _)
Ascend(m, n, from) ==
  IF m.parent[n] = NULL \/ m.xchild[n] = from THEN m.parent[n]
  ELSE Ascend(m, m.parent[n], from)

avl_walk(m, n, left) ==
  IF m.child[n][left] # NULL THEN Deepest(m, m.child[n][left], 1 - left)
  ELSE Ascend(m, n, 1 - left)

\* An avl_index_t: the node the search ended at and the side it left it by.
RECURSIVE FindFrom(_, _, _, _, _)
FindFrom(m, n, prev, side, k) ==
  IF n = NULL THEN [found |-> NULL, node |-> prev, child |-> side]
  ELSE IF n = k THEN [found |-> n, node |-> NULL, child |-> 0]
  ELSE LET c == avl_balance2child(IF k < n THEN -1 ELSE 1)
       IN  FindFrom(m, m.child[n][c], n, c, k)

avl_find(m, k) == FindFrom(m, m.root, NULL, 0, k)

\* As avl_nearest() would be with its test of the side turned around.
avl_nearestOtherSide(m, where, direction) ==
  IF where.node = NULL THEN NULL
  ELSE IF where.child = direction THEN where.node
  ELSE avl_walk(m, where.node, direction)

avl_nearest(m, where, direction) ==
  IF where.node = NULL THEN NULL
  ELSE IF where.child # direction THEN where.node
  ELSE avl_walk(m, where.node, direction)

\* fileset_find_entry(): the entry with this index, else the next higher one,
\* else the lowest.
fileset_find_entry(m, k) ==
  LET where == avl_find(m, k)
      after == avl_nearest(m, where, 1)
  IN  IF where.found # NULL THEN where.found
      ELSE IF after # NULL THEN after
      ELSE avl_first(m)

-----------------------------------------------------------------------------
(* Rotation, insertion and removal.                                        *)

\* Hang n (perhaps NULL) below p on side c.
Attach(m, p, c, n) ==
  LET m1 == [m EXCEPT !.child[p][c] = n]
  IN  IF n = NULL THEN m1 ELSE [m1 EXCEPT !.parent[n] = p, !.xchild[n] = c]

\* Put n where a subtree of parent p, or the whole tree, was.
Replace(m, p, c, n) ==
  LET m1 == [m EXCEPT !.parent[n] = p, !.xchild[n] = c]
  IN  IF p # NULL THEN [m1 EXCEPT !.child[p][c] = n] ELSE [m1 EXCEPT !.root = n]

\* Case 1 of avl_rotation(): the child is not heavy on the inner side.
RotateOnce(m, node, left, right_heavy) ==
  LET right == 1 - left
      child == m.child[node][left]
      child_bal == m.bal[child] + right_heavy
      m1 == Attach(m, node, left, m.child[child][right])
      m2 == Replace(m1, m.parent[node], m.xchild[node], child)
      m3 == Attach(m2, child, right, node)
  IN  [m |-> [m3 EXCEPT !.bal[node] = -child_bal, !.bal[child] = child_bal],
       shorter |-> child_bal = 0]

\* Case 2: the child is heavy on the inner side.
RotateTwice(m, node, left, right_heavy) ==
  LET right == 1 - left
      child == m.child[node][left]
      gchild == m.child[child][right]
      gbal == m.bal[gchild]
      m1 == Attach(m, node, left, m.child[gchild][right])
      m2 == Attach(m1, child, right, m.child[gchild][left])
      m3 == Replace(m2, m.parent[node], m.xchild[node], gchild)
      m4 == Attach(Attach(m3, gchild, left, child), gchild, right, node)
  IN  [m |-> [m4 EXCEPT !.bal[child] = IF gbal = right_heavy THEN -right_heavy ELSE 0,
                        !.bal[node] = IF gbal = -right_heavy THEN right_heavy ELSE 0,
                        !.bal[gchild] = 0],
       shorter |-> TRUE]

\* As avl_rotation() would be if it never reported a subtree as shorter.
avl_rotationSameHeight(m, node, balance) ==
  LET left == IF balance < 0 THEN 0 ELSE 1
      right_heavy == IF balance < 0 THEN 1 ELSE -1
  IN  [m |-> IF m.bal[m.child[node][left]] # right_heavy
             THEN RotateOnce(m, node, left, right_heavy).m
             ELSE RotateTwice(m, node, left, right_heavy).m,
       shorter |-> FALSE]

\* Restore the balance at node, whose new balance would be -2 or 2.
avl_rotation(m, node, balance) ==
  LET left == IF balance < 0 THEN 0 ELSE 1
      right_heavy == IF balance < 0 THEN 1 ELSE -1
  IN  IF m.bal[m.child[node][left]] # right_heavy
      THEN RotateOnce(m, node, left, right_heavy)
      ELSE RotateTwice(m, node, left, right_heavy)

\* The walk back up of avl_insert(), after node's child on side c grew.
RECURSIVE Grown(_, _, _)
Grown(m, node, c) ==
  LET old == m.bal[node]
      new == old + avl_child2balance(c)
      m1 == [m EXCEPT !.bal[node] = new]
  IN  IF node = NULL THEN m
      ELSE IF new = 0 THEN m1
      ELSE IF old # 0 THEN avl_rotation(m, node, new).m
      ELSE Grown(m1, m.parent[node], m.xchild[node])

avl_insert(m, n, where) ==
  LET m1 == [Forget(m, n) EXCEPT !.num = @ + 1]
  IN  Grown(Replace(m1, where.node, where.child, n), where.node, where.child)

\* As avl_insert_here() would be without reversing the direction.
avl_insert_hereForward(m, n, here, direction) ==
  IF m.child[here][direction] = NULL
  THEN avl_insert(m, n, [node |-> here, child |-> direction])
  ELSE avl_insert(m, n, [node |-> Deepest(m, m.child[here][direction], 1 - direction),
                         child |-> direction])

avl_insert_here(m, n, here, direction) ==
  IF m.child[here][direction] = NULL
  THEN avl_insert(m, n, [node |-> here, child |-> direction])
  ELSE avl_insert(m, n, [node |-> Deepest(m, m.child[here][direction], 1 - direction),
                         child |-> 1 - direction])

avl_add(m, n) ==
  LET where == avl_find(m, n)
  IN  IF where.found # NULL THEN m ELSE avl_insert(m, n, where)

\* The loop at the end of avl_remove(): node's child on side c got shorter.
RECURSIVE Shrunk(_, _, _)
Shrunk(m, node, c) ==
  LET old == m.bal[node]
      new == old - avl_child2balance(c)
      m1 == [m EXCEPT !.bal[node] = new]
      Above(rot) == IF rot.shorter THEN Shrunk(rot.m, m.parent[node], m.xchild[node]) ELSE rot.m
  IN  IF node = NULL THEN m
      ELSE IF old = 0 THEN m1
      ELSE IF new = 0 THEN Shrunk(m1, m.parent[node], m.xchild[node])
      ELSE Above(avl_rotation(m, node, new))

\* Tmp becomes node, and node becomes delete.
MoveUp(m, node, delete) ==
  LET Copied(f) == [f EXCEPT ![Tmp] = f[node], ![node] = f[delete]]
  IN  [m EXCEPT !.child = Copied(@), !.parent = Copied(@),
                !.xchild = Copied(@), !.bal = Copied(@)]

\* A child of delete that moved up would be its own child.
NotOwnChild(m, node, left) ==
  IF m.child[node][left] = node THEN [m EXCEPT !.child[node][left] = Tmp] ELSE m

\* The children of node have it as their parent.
Adopt(m, node) ==
  [m EXCEPT !.parent[m.child[node][0]] = node, !.parent[m.child[node][1]] = node]

\* Tmp in its place, with at most one child.
PlaceTmp(m) ==
  LET c == IF m.child[Tmp][1] # NULL THEN 1 ELSE 0
      m1 == [m EXCEPT !.child[m.parent[Tmp]][m.xchild[Tmp]] = Tmp]
  IN  IF m.child[Tmp][c] = NULL THEN m1 ELSE [m1 EXCEPT !.parent[m.child[Tmp][c]] = Tmp]

\* The first part of avl_remove(): a node with two children gives its place to
\* its neighbour on the taller side, and Tmp takes the neighbour's place.
SwapWithNeighbour(m, delete) ==
  LET left == avl_balance2child(m.bal[delete])
      node == Deepest(m, m.child[delete][left], 1 - left)
      m1 == NotOwnChild(MoveUp(m, node, delete), node, left)
  IN  PlaceTmp(Adopt(Replace(m1, m.parent[delete], m.xchild[delete], node), node))

\* The rest: take out a node with at most one child.
Unlink(m, delete) ==
  LET p == m.parent[delete]
      c == m.xchild[delete]
      node == IF m.child[delete][0] # NULL THEN m.child[delete][0] ELSE m.child[delete][1]
      m1 == [m EXCEPT !.num = @ - 1]
      m2 == IF node = NULL THEN m1 ELSE [m1 EXCEPT !.parent[node] = p, !.xchild[node] = c]
  IN  IF m.num = 0 THEN m
      ELSE IF p = NULL THEN [m2 EXCEPT !.root = node]
      ELSE Shrunk([m2 EXCEPT !.child[p][c] = node], p, c)

avl_remove(m, delete) ==
  IF m.child[delete][0] # NULL /\ m.child[delete][1] # NULL
  THEN Forget(Forget(Unlink(SwapWithNeighbour(m, delete), Tmp), Tmp), delete)
  ELSE Forget(Unlink(m, delete), delete)

AVL_REINSERT(m, n) == avl_add(avl_remove(m, n), n)

\* An update is called with a node whose key has changed from k to j: the node
\* in k's place is now j.
Renamed(m, k, j) ==
  LET New(n) == IF n = k THEN j ELSE n
      Moved(f, w(_)) == [n \in Nodes |-> IF n = j THEN w(f[k])
                                         ELSE IF n = k THEN f[j] ELSE w(f[n])]
      Pair(p) == [c \in {0, 1} |-> New(p[c])]
      Same(x) == x
  IN  [m EXCEPT !.root = New(@), !.child = Moved(@, Pair), !.parent = Moved(@, New),
                !.xchild = Moved(@, Same), !.bal = Moved(@, Same)]

\* The neighbour of n on a side is missing or compares as it should.
BeforeNext(m, n) == avl_walk(m, n, 1) = NULL \/ n <= avl_walk(m, n, 1)
AfterPrev(m, n) == avl_walk(m, n, 0) = NULL \/ n >= avl_walk(m, n, 0)

avl_update_lt(m, n) ==
  IF BeforeNext(m, n) /\ ~AfterPrev(m, n) THEN AVL_REINSERT(m, n) ELSE m

avl_update_gt(m, n) ==
  IF AfterPrev(m, n) /\ ~BeforeNext(m, n) THEN AVL_REINSERT(m, n) ELSE m

avl_update(m, n) ==
  IF ~AfterPrev(m, n) \/ ~BeforeNext(m, n) THEN AVL_REINSERT(m, n) ELSE m

-----------------------------------------------------------------------------
(* Destroying: a post-order walk that a cookie remembers between calls.  A  *)
(* cookie is the parent of the node returned last and the side it is on;   *)
(* ok is FALSE once the code would log an inconsistency.                   *)

\* The tail of avl_destroy_nodes() from the label done on.
Destroyed(m, node, parent, ok) ==
  [m |-> m, node |-> node,
   cookie |-> [parent |-> parent, child |-> IF parent = NULL THEN 1 ELSE m.xchild[node]],
   ok |-> ok /\ (parent = NULL => node = m.root)]

\* The label check_right_side.
CheckRightSide(m, node, parent, ok) ==
  LET r == m.child[node][1]
  IN  IF r # NULL
      THEN Destroyed(m, r, node, ok /\ m.bal[node] = 1 /\ m.child[r] = NoLinks)
      ELSE Destroyed(m, node, parent, ok /\ m.bal[node] <= 0)

avl_destroy_nodes_first(m) ==
  IF avl_first(m) = NULL
  THEN [m |-> m, node |-> NULL, cookie |-> [parent |-> NULL, child |-> 1], ok |-> TRUE]
  ELSE CheckRightSide(m, avl_first(m), m.parent[avl_first(m)], TRUE)

avl_destroy_nodes(m, cookie) ==
  LET parent == cookie.parent
      m1 == [m EXCEPT !.child[parent][cookie.child] = NULL, !.num = @ - 1]
      node == Deepest(m1, m1.child[parent][1], 0)
      above == IF node = m1.child[parent][1] THEN parent ELSE m1.parent[node]
  IN  IF parent = NULL
      THEN [m |-> [m EXCEPT !.root = NULL, !.num = 0], node |-> NULL, cookie |-> cookie,
            ok |-> m.root # NULL => m.num = 1]
      ELSE IF cookie.child = 1 \/ m1.child[parent][1] = NULL
      THEN Destroyed(m1, parent, m1.parent[parent], m.num > 1)
      ELSE CheckRightSide(m1, node, above, m.num > 1)

\* The loop of the example above avl_destroy_nodes(): the nodes it frees, in
\* order, whether the routine stayed content, and the tree it leaves.
RECURSIVE FreeNodes(_, _)
FreeNodes(step, freed) ==
  IF step.node = NULL THEN [freed |-> freed, ok |-> step.ok, m |-> step.m]
  ELSE LET next == avl_destroy_nodes(step.m, step.cookie)
       IN  FreeNodes([next EXCEPT !.ok = @ /\ step.ok], Append(freed, step.node))

-----------------------------------------------------------------------------
(* The callers: fileset_populate() and fileset_move_entry() add and remove *)
(* entries; the other operations of the interface are used as its header   *)
(* says they may be.                                                       *)

RECURSIVE InOrder(_, _)
InOrder(m, n) ==
  IF n = NULL THEN <<>>
  ELSE InOrder(m, m.child[n][0]) \o <<n>> \o InOrder(m, m.child[n][1])

\* The nodes numbered 2, 4, 6, ... in order again.
Renumbered(m) ==
  LET order == InOrder(m, m.root)
      Old(n) == IF n \in Nat /\ n % 2 = 0 /\ n \div 2 \in DOMAIN order
                THEN order[n \div 2] ELSE Tmp
      rank == [n \in Range(order) |-> 2 * CHOOSE i \in DOMAIN order : order[i] = n]
      New(n) == IF n \in DOMAIN rank THEN rank[n] ELSE NULL
  IN  [root |-> New(m.root), num |-> m.num,
       child |-> [n \in Nodes |-> [c \in {0, 1} |-> New(m.child[Old(n)][c])]],
       parent |-> [n \in Nodes |-> New(m.parent[Old(n)])],
       xchild |-> [n \in Nodes |-> m.xchild[Old(n)]],
       bal |-> [n \in Nodes |-> m.bal[Old(n)]]]

Present == {2 * i : i \in 1..avl.num}

\* The gaps a new key can fall into, while there is room.
Absent == IF avl.num < MaxNodes THEN {2 * i + 1 : i \in 0..avl.num} ELSE {}

\* The calls: what they are given and the set they should leave.
Calls ==
  [op : {"add"}, key : Present \cup Absent, to : {NULL}]
    \cup [op : {"remove"}, key : Present, to : {NULL}]
    \cup [op : {"before", "after"}, key : Absent, to : Present]
    \cup [op : {"update", "update_lt", "update_gt"}, key : Present, to : Absent]

\* What a caller may ask for: the node named as neighbour is the neighbour, and
\* the key moves the way the call says.
Allowed(c) ==
  CASE c.op = "before" -> c.to = c.key + 1
    [] c.op = "after" -> c.to = c.key - 1
    [] c.op = "update" -> c.to \in (c.key - MaxShift)..(c.key + MaxShift)
    [] c.op = "update_lt" -> c.to \in (c.key - MaxShift)..(c.key - 1)
    [] c.op = "update_gt" -> c.to \in (c.key + 1)..(c.key + MaxShift)
    [] OTHER -> TRUE

\* The tree each call leaves.
After(c) ==
  CASE c.op = "add" -> avl_add(avl, c.key)
    [] c.op = "remove" -> avl_remove(avl, c.key)
    [] c.op = "before" -> avl_insert_here(avl, c.key, c.to, 0)
    [] c.op = "after" -> avl_insert_here(avl, c.key, c.to, 1)
    [] c.op = "update" -> avl_update(Renamed(avl, c.key, c.to), c.to)
    [] c.op = "update_lt" -> avl_update_lt(Renamed(avl, c.key, c.to), c.to)
    [] c.op = "update_gt" -> avl_update_gt(Renamed(avl, c.key, c.to), c.to)

Init == avl = avl_create

Next == \E c \in Calls : Allowed(c) /\ avl' = Renumbered(After(c))

Spec == Init /\ [][Next]_avl

-----------------------------------------------------------------------------
(* Properties.                                                             *)

\* The set of keys a call should leave.
Expected(c) ==
  CASE c.op = "remove" -> Present \ {c.key}
    [] c.op \in {"update", "update_lt", "update_gt"} -> (Present \ {c.key}) \cup {c.to}
    [] OTHER -> Present \cup {c.key}

\* avl_destroy_nodes() hands out every node exactly once, after its children,
\* meets none of the inconsistencies it looks for, and leaves an empty tree.
DestroyFreesEach ==
  LET end == FreeNodes(avl_destroy_nodes_first(avl), <<>>)
  IN  /\ end.ok
      /\ end.m.num = 0 /\ end.m.root = NULL
      /\ Len(end.freed) = avl.num /\ Range(end.freed) = Present
      /\ \A i, j \in DOMAIN end.freed : avl.parent[end.freed[i]] = end.freed[j] => i < j

\* The tree m has these keys, in order.
Keeps(m, order, keys) ==
  /\ \A i \in 2..Len(order) : order[i - 1] < order[i]
  /\ Range(order) = keys
  /\ m.num = Len(order)

\* Every operation, with all its rotations, changes the set of keys exactly as
\* its caller expects, and keeps them in order, and the destruction of the tree
\* frees each node once.
OperationsExact ==
  /\ DestroyFreesEach
  /\ \A c \in {d \in Calls : Allowed(d)} :
       \A m \in {After(c)} : Keeps(m, InOrder(m, m.root), Expected(c))

RECURSIVE Height(_, _)
Height(m, n) ==
  IF n = NULL THEN 0
  ELSE LET l == Height(m, m.child[n][0])
           r == Height(m, m.child[n][1])
       IN  1 + IF l > r THEN l ELSE r

\* Every parent link and child index mirrors the child link it belongs to and
\* every stored balance is the difference of the heights below, at most one:
\* what the rotations of the next insertion or removal rely on.
WellFormed ==
  /\ avl.root # NULL => avl.parent[avl.root] = NULL
  /\ \A n \in Present :
       /\ \A c \in {0, 1} :
            LET k == avl.child[n][c]
            IN  k # NULL => avl.parent[k] = n /\ avl.xchild[k] = c
       /\ avl.bal[n] \in -1..1
       /\ avl.bal[n] = Height(avl, avl.child[n][1]) - Height(avl, avl.child[n][0])

\* The least member of S, or NULL.
Least(S) == IF S = {} THEN NULL ELSE CHOOSE k \in S : \A j \in S : k <= j

\* The greatest member of S, or NULL.
Greatest(S) == IF S = {} THEN NULL ELSE CHOOSE k \in S : \A j \in S : j <= k

\* fileset_find_entry() returns the entry at or after the index, starting over
\* at the lowest, and the walks and avl_nearest() return the neighbours, none
\* of which compares keys on the way up: it is how the search of fileset_pick()
\* for an entry that is not busy comes by all of them.
LookupsAgree ==
  /\ avl_last(avl) = Greatest(Present)
  /\ \A k \in 1..(2 * avl.num + 1) :
       LET where == avl_find(avl, k)
           next == Least({j \in Present : j > k})
           prev == Greatest({j \in Present : j < k})
       IN  IF k \in Present
           THEN /\ where.found = k /\ fileset_find_entry(avl, k) = k
                /\ avl_walk(avl, k, 1) = next /\ avl_walk(avl, k, 0) = prev
           ELSE /\ avl_nearest(avl, where, 1) = next /\ avl_nearest(avl, where, 0) = prev
                /\ fileset_find_entry(avl, k) = IF next # NULL THEN next ELSE Least(Present)
=============================================================================
