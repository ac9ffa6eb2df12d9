----------------------------- MODULE TimerProofs -----------------------------
(***************************************************************************)
(* Theorems about Timer: with any number of timers, whatever they are      *)
(* started with and however wide the clock is, the pointer heap is a       *)
(* complete tree of the timers that are armed, ordered by their times, and *)
(* so the timers implement TimerSet, if the application starts no timer    *)
(* that is armed.  Timer ends, and with it what is claimed, where an armed *)
(* timer with m_time 0 is stopped or destroyed.                            *)
(*                                                                         *)
(* A heap is described by the function a that says which node is at which  *)
(* place (Shape).  Each heap operation is first shown to give the shape of *)
(* another such function, and then the order is looked at on the functions *)
(* alone.                                                                  *)
(***************************************************************************)
EXTENDS Timer, Concatenation

-----------------------------------------------------------------------------
(* Places in a complete binary tree *)

(* place k is a child of place j *)
Below(j, k) == k = 2 * j \/ k = 2 * j + 1

(* the parent of a place, and which child it is *)
LEMMA Half ==
  ASSUME NEW k \in Nat, k > 1
  PROVE  /\ k \div 2 \in Nat /\ k \div 2 >= 1 /\ k \div 2 < k /\ Below(k \div 2, k)
         /\ k % 2 = 1 <=> k = 2 * (k \div 2) + 1
         /\ k % 2 # 1 <=> k = 2 * (k \div 2)
  BY DEF Below

(* ... is the only one *)
LEMMA BelowIsHalf ==
  ASSUME NEW j \in Nat, NEW k \in Nat, Below(j, k)
  PROVE  k \div 2 = j /\ (j >= 1 => k > 1)
  BY DEF Below

(* family relations, as far as they are used *)
LEMMA Family ==
  ASSUME NEW j \in Nat, NEW k \in Nat, j >= 1, Below(j, k)
  PROVE  /\ j < k /\ k > 1
         /\ \A i \in Nat : Below(i, k) => i = j
         /\ \A i \in Nat : Below(i, j) => i < j /\ i < k
         /\ \A i \in Nat : Below(k, i) => k < i /\ j < i
  BY DEF Below

(* the node at a place of a tree of n nodes *)
Node(a, n, k) == IF k \in 1 .. n THEN a[k] ELSE NULL

(* nodes at different places differ *)
Places(a, n) ==
  /\ n \in Nat
  /\ a \in [1 .. n -> Timers]
  /\ \A i, j \in 1 .. n : a[i] = a[j] => i = j

(* the pointers down, and up, are those of the tree *)
Downward(left, right, a, n) ==
  \A k \in 1 .. n : left[a[k]] = Node(a, n, 2 * k) /\ right[a[k]] = Node(a, n, 2 * k + 1)

Upward(parent, a, n) ==
  /\ n >= 1 => parent[a[1]] = NULL
  /\ \A j, k \in 1 .. n : Below(j, k) => parent[a[k]] = a[j]

(* a with the nodes at j and m exchanged *)
Exchanged(a, j, m) == [a EXCEPT ![j] = a[m], ![m] = a[j]]

(* the same nodes, at whatever places *)
Same(b, a, n) == \A t \in Timers : (\E k \in 1 .. n : b[k] = t) <=> (\E k \in 1 .. n : a[k] = t)

(* an exchange keeps the nodes *)
LEMMA ExchangedPlaces ==
  ASSUME NEW n, NEW a, Places(a, n), NEW j \in 1 .. n, NEW m \in 1 .. n, j # m
  PROVE  /\ Places(Exchanged(a, j, m), n)
         /\ Exchanged(a, j, m)[j] = a[m] /\ Exchanged(a, j, m)[m] = a[j]
         /\ \A k \in 1 .. n : k # j /\ k # m => Exchanged(a, j, m)[k] = a[k]
         /\ Same(Exchanged(a, j, m), a, n)
<1> DEFINE b == Exchanged(a, j, m)
<1>1. n \in Nat /\ a \in [1 .. n -> Timers] /\ \A i, k \in 1 .. n : a[i] = a[k] => i = k
  BY DEF Places
<1>2. b \in [1 .. n -> Timers]
  BY <1>1 DEF Exchanged
<1>3. b[j] = a[m] /\ b[m] = a[j] /\ \A k \in 1 .. n : k # j /\ k # m => b[k] = a[k]
  BY <1>1 DEF Exchanged
<1> HIDE DEF b
<1>4. \A i, k \in 1 .. n : b[i] = b[k] => i = k
  BY <1>1, <1>3
<1>5. Places(b, n)
  BY <1>1, <1>2, <1>4 DEF Places
<1>6. Same(b, a, n)
  BY <1>3 DEF Same
<1> QED
  BY <1>3, <1>5, <1>6 DEF b

-----------------------------------------------------------------------------
(* heap_node_swap, on the functions *)

(* pointers down, when p at j and c at m, below j, change places *)
LEMMA DownSwapped ==
  ASSUME NEW n, NEW a, Places(a, n), NEW j \in 1 .. n, NEW m \in 1 .. n, Below(j, m),
         NEW left, NEW right, Downward(left, right, a, n),
         NEW l, NEW r,
         l[a[j]] = left[a[m]], r[a[j]] = right[a[m]],
         m = 2 * j => l[a[m]] = a[j] /\ r[a[m]] = right[a[j]],
         m = 2 * j + 1 => l[a[m]] = left[a[j]] /\ r[a[m]] = a[j],
         \A i \in 1 .. n : i # j /\ i # m =>
            /\ l[a[i]] = IF j = 2 * i THEN a[m] ELSE left[a[i]]
            /\ r[a[i]] = IF j = 2 * i + 1 THEN a[m] ELSE right[a[i]]
  PROVE  Downward(l, r, Exchanged(a, j, m), n)
<1> DEFINE b == Exchanged(a, j, m)
<1>1. j < m /\ j # m /\ n \in Nat /\ j \in Nat /\ m \in Nat /\ j >= 1
  BY DEF Places, Below
<1>2. /\ b[j] = a[m] /\ b[m] = a[j]
      /\ \A k \in 1 .. n : k # j /\ k # m => b[k] = a[k]
  <2>1. a \in [1 .. n -> Timers]
    BY DEF Places
  <2> QED
    BY <1>1, <2>1 DEF Exchanged
<1> HIDE DEF b
<1>3. Node(b, n, j) = a[m] /\ Node(b, n, m) = a[j]
  BY <1>2 DEF Node
<1>4. ASSUME NEW k \in Nat, k # j, k # m PROVE Node(b, n, k) = Node(a, n, k)
  BY <1>2, <1>4 DEF Node
<1>5. \A k \in 1 .. n : left[a[k]] = Node(a, n, 2 * k) /\ right[a[k]] = Node(a, n, 2 * k + 1)
  BY DEF Downward
<1>6. ASSUME NEW k \in 1 .. n
      PROVE  l[b[k]] = Node(b, n, 2 * k) /\ r[b[k]] = Node(b, n, 2 * k + 1)
  <2>0. k \in Nat /\ 2 * k \in Nat /\ 2 * k + 1 \in Nat /\ k >= 1
    OBVIOUS
  <2>1. CASE k = j
    <3>1. CASE m = 2 * j
      <4>1. 2 * j + 1 # j /\ 2 * j + 1 # m
        BY <1>1, <3>1
      <4>2. Node(b, n, 2 * j + 1) = Node(a, n, 2 * j + 1)
        BY <1>4, <2>0, <2>1, <4>1
      <4> QED
        BY <1>2, <1>3, <1>5, <2>1, <3>1, <4>2
    <3>2. CASE m = 2 * j + 1
      <4>1. 2 * j # j /\ 2 * j # m
        BY <1>1, <3>2
      <4>2. Node(b, n, 2 * j) = Node(a, n, 2 * j)
        BY <1>4, <2>0, <2>1, <4>1
      <4> QED
        BY <1>2, <1>3, <1>5, <2>1, <3>2, <4>2
    <3> QED
      BY <3>1, <3>2 DEF Below
  <2>2. CASE k = m
    <3>1. 2 * m # j /\ 2 * m # m /\ 2 * m + 1 # j /\ 2 * m + 1 # m
      BY <1>1
    <3> QED
      BY <1>2, <1>4, <1>5, <2>0, <2>2, <3>1
  <2>3. CASE k # j /\ k # m
    <3>1. 2 * k # m /\ 2 * k + 1 # m
      BY <1>1, <2>0, <2>3 DEF Below
    <3>2. b[k] = a[k]
      BY <1>2, <2>3
    <3>3. l[a[k]] = Node(b, n, 2 * k)
      BY <1>3, <1>4, <1>5, <2>0, <2>3, <3>1
    <3>4. r[a[k]] = Node(b, n, 2 * k + 1)
      BY <1>3, <1>4, <1>5, <2>0, <2>3, <3>1
    <3> QED
      BY <3>2, <3>3, <3>4
  <2> QED
    BY <2>1, <2>2, <2>3
<1> QED
  BY <1>6 DEF Downward, b

(* pointers up *)
LEMMA UpSwapped ==
  ASSUME NEW n, NEW a, Places(a, n), NEW j \in 1 .. n, NEW m \in 1 .. n, Below(j, m),
         NEW parent, Upward(parent, a, n), NULL \notin Timers,
         NEW l, NEW r, Downward(l, r, Exchanged(a, j, m), n),
         NEW u, \A t \in Timers :
                  u[t] = IF t \in {l[a[j]], r[a[j]]} THEN a[j]
                         ELSE IF t \in {l[a[m]], r[a[m]]} THEN a[m]
                         ELSE IF t = a[m] THEN parent[a[j]] ELSE parent[t]
  PROVE  Upward(u, Exchanged(a, j, m), n)
<1> DEFINE b == Exchanged(a, j, m)
<1>1. j < m /\ j # m /\ n \in Nat /\ j \in Nat /\ m \in Nat /\ j >= 1
  BY DEF Places, Below
<1>2. /\ b[j] = a[m] /\ b[m] = a[j]
      /\ \A k \in 1 .. n : k # j /\ k # m => b[k] = a[k]
  <2>1. a \in [1 .. n -> Timers]
    BY DEF Places
  <2> QED
    BY <1>1, <2>1 DEF Exchanged
<1>10. Places(b, n)
  BY <1>1, ExchangedPlaces
<1> HIDE DEF b
<1>3. \A i, k \in 1 .. n : b[i] = b[k] => i = k
  BY <1>10 DEF Places
<1>4. \A k \in 1 .. n : b[k] \in Timers
  BY <1>10 DEF Places
<1>5. \A k \in 1 .. n : l[b[k]] = Node(b, n, 2 * k) /\ r[b[k]] = Node(b, n, 2 * k + 1)
  BY DEF Downward, b
(* who is a child in the new tree *)
<1>6. ASSUME NEW x \in 1 .. n, NEW k \in 1 .. n
      PROVE  b[k] \in {l[b[x]], r[b[x]]} <=> Below(x, k)
  <2>1. l[b[x]] = Node(b, n, 2 * x) /\ r[b[x]] = Node(b, n, 2 * x + 1)
    BY <1>5
  <2>2. ASSUME NEW y \in Nat PROVE b[k] = Node(b, n, y) <=> k = y
    BY <1>3, <1>4 DEF Node
  <2>3. 2 * x \in Nat /\ 2 * x + 1 \in Nat
    OBVIOUS
  <2> QED
    BY <2>1, <2>2, <2>3 DEF Below
<1>7. ASSUME NEW k \in 1 .. n
      PROVE  u[b[k]] = IF Below(m, k) THEN a[j]
                       ELSE IF Below(j, k) THEN a[m]
                       ELSE IF k = j THEN parent[a[j]] ELSE parent[b[k]]
  <2>1. b[k] \in {l[a[j]], r[a[j]]} <=> Below(m, k)
    BY <1>2, <1>6
  <2>2. b[k] \in {l[a[m]], r[a[m]]} <=> Below(j, k)
    BY <1>2, <1>6
  <2>3. b[k] = a[m] <=> k = j
    BY <1>2, <1>3
  <2> QED
    BY <1>4, <2>1, <2>2, <2>3
<1>8. ASSUME n >= 1 PROVE u[b[1]] = NULL
  <2>1. 1 \in 1 .. n /\ ~Below(m, 1) /\ ~Below(j, 1)
    BY <1>1, <1>8 DEF Below
  <2>2. CASE j = 1
    BY <1>7, <2>1, <2>2, <1>8 DEF Upward
  <2>3. CASE j # 1
    <3>1. b[1] = a[1]
      BY <1>1, <1>2, <2>1, <2>3
    <3> QED
      BY <1>7, <1>8, <2>1, <2>3, <3>1 DEF Upward
  <2> QED
    BY <2>2, <2>3
<1>9. ASSUME NEW i \in 1 .. n, NEW k \in 1 .. n, Below(i, k) PROVE u[b[k]] = b[i]
  <2>1. \A x \in 1 .. n : Below(x, k) => x = i
    BY <1>9 DEF Below
  <2>2. CASE i = m
    BY <1>2, <1>7, <1>9, <2>2
  <2>3. CASE i = j
    <3>1. ~Below(m, k)
      BY <1>1, <2>1, <2>3
    <3> QED
      BY <1>2, <1>7, <1>9, <2>3, <3>1
  <2>4. CASE i # m /\ i # j
    <3>1. ~Below(m, k) /\ ~Below(j, k)
      BY <2>1, <2>4
    <3>2. b[i] = a[i] /\ parent[a[k]] = a[i]
      BY <1>2, <1>9, <2>4 DEF Upward
    <3>3. CASE k = j
      BY <1>7, <3>1, <3>2, <3>3
    <3>4. CASE k # j
      <4>1. k # m
        BY <2>4, <2>1
      <4>2. b[k] = a[k]
        BY <1>2, <3>4, <4>1
      <4> QED
        BY <1>7, <3>1, <3>2, <3>4, <4>2
    <3> QED
      BY <3>3, <3>4
  <2> QED
    BY <2>2, <2>3, <2>4
<1> QED
  BY <1>8, <1>9 DEF Upward, b

-----------------------------------------------------------------------------
(* heap_node_swap, on the heap *)

Nodes == Timers \cup {NULL}

Heaps == [min : Nodes, nelts : Nat, left : [Timers -> Nodes], right : [Timers -> Nodes],
          parent : [Timers -> Nodes]]

(* the heap is the complete tree of the nodes a *)
Shape(h, a) ==
  /\ h \in Heaps
  /\ Places(a, h.nelts)
  /\ h.min = Node(a, h.nelts, 1)
  /\ Downward(h.left, h.right, a, h.nelts)
  /\ Upward(h.parent, a, h.nelts)

(* what each step of heap_node_swap changes *)
LEMMA ReplaceIs ==
  ASSUME NEW h \in Heaps, NEW old \in Timers, NEW new \in Nodes
  PROVE  /\ Replace(h, old, new) \in Heaps
         /\ Replace(h, old, new).nelts = h.nelts
         /\ Replace(h, old, new).parent = h.parent
         /\ Replace(h, old, new).min = IF h.parent[old] = NULL THEN new ELSE h.min
         /\ \A t \in Timers :
              /\ Replace(h, old, new).left[t] =
                   IF t = h.parent[old] /\ h.left[t] = old THEN new ELSE h.left[t]
              /\ Replace(h, old, new).right[t] =
                   IF t = h.parent[old] /\ h.left[t] # old THEN new ELSE h.right[t]
<1> DEFINE up == h.parent[old]
<1>1. /\ h.min \in Nodes /\ h.nelts \in Nat /\ h.left \in [Timers -> Nodes]
      /\ h.right \in [Timers -> Nodes] /\ h.parent \in [Timers -> Nodes]
  BY DEF Heaps
<1>2. up \in Nodes /\ NULL \notin Timers
  BY <1>1, NullAssumption
<1> HIDE DEF up
<1>3. CASE up = NULL
  <2>1. Replace(h, old, new) = [h EXCEPT !.min = new]
    BY <1>3 DEF Replace, up
  <2> QED
    BY <1>1, <1>2, <1>3, <2>1 DEF Heaps, up
<1>4. CASE up # NULL /\ h.left[up] = old
  <2>1. Replace(h, old, new) = [h EXCEPT !.left[up] = new]
    BY <1>4 DEF Replace, up
  <2> QED
    BY <1>1, <1>2, <1>4, <2>1 DEF Heaps, up
<1>5. CASE up # NULL /\ h.left[up] # old
  <2>1. Replace(h, old, new) = [h EXCEPT !.right[up] = new]
    BY <1>5 DEF Replace, up
  <2> QED
    BY <1>1, <1>2, <1>5, <2>1 DEF Heaps, up
<1> QED
  BY <1>3, <1>4, <1>5

LEMMA AdoptIs ==
  ASSUME NEW h \in Heaps, NEW node \in Timers
  PROVE  /\ Adopt(h, node) \in Heaps
         /\ Adopt(h, node).nelts = h.nelts /\ Adopt(h, node).min = h.min
         /\ Adopt(h, node).left = h.left /\ Adopt(h, node).right = h.right
         /\ \A t \in Timers :
              Adopt(h, node).parent[t] =
                IF t \in {h.left[node], h.right[node]} THEN node ELSE h.parent[t]
  BY DEF Adopt, Heaps, Nodes

(* what heap_node_swap as a whole changes *)
LEMMA SwapIs ==
  ASSUME NEW h \in Heaps, NEW p \in Timers, NEW c \in Timers, p # c
  PROVE  /\ Swap(h, p, c) \in Heaps
         /\ Swap(h, p, c).nelts = h.nelts
         /\ Swap(h, p, c).min = IF h.parent[p] = NULL THEN c ELSE h.min
         /\ Swap(h, p, c).left[p] = h.left[c] /\ Swap(h, p, c).right[p] = h.right[c]
         /\ Swap(h, p, c).left[c] = IF h.left[p] = c THEN p ELSE h.left[p]
         /\ Swap(h, p, c).right[c] = IF h.left[p] = c THEN h.right[p] ELSE p
         /\ \A t \in Timers : t # p /\ t # c =>
              /\ Swap(h, p, c).left[t] =
                   IF t = h.parent[p] /\ h.left[t] = p THEN c ELSE h.left[t]
              /\ Swap(h, p, c).right[t] =
                   IF t = h.parent[p] /\ h.left[t] # p THEN c ELSE h.right[t]
         /\ \A t \in Timers :
              Swap(h, p, c).parent[t] =
                IF t \in {Swap(h, p, c).left[p], Swap(h, p, c).right[p]} THEN p
                ELSE IF t \in {Swap(h, p, c).left[c], Swap(h, p, c).right[c]} THEN c
                ELSE IF t = c THEN h.parent[p] ELSE h.parent[t]
<1> DEFINE leftChild == h.left[p] = c
           top == Replace(h, p, c)
           l == IF leftChild THEN p ELSE h.left[p]
           r == IF leftChild THEN h.right[p] ELSE p
           moved == [top EXCEPT !.left[c] = l, !.right[c] = r, !.parent[c] = h.parent[p],
                                !.left[p] = h.left[c], !.right[p] = h.right[c]]
           inner == Adopt(moved, c)
           s == Swap(h, p, c)
<1>1. /\ h.min \in Nodes /\ h.nelts \in Nat /\ h.left \in [Timers -> Nodes]
      /\ h.right \in [Timers -> Nodes] /\ h.parent \in [Timers -> Nodes]
      /\ p \in Nodes /\ c \in Nodes
  BY DEF Heaps, Nodes
<1>2. l \in Nodes /\ r \in Nodes /\ h.parent[p] \in Nodes /\ h.left[c] \in Nodes /\ h.right[c] \in Nodes
  BY <1>1
<1>3. /\ top \in Heaps /\ top.nelts = h.nelts /\ top.parent = h.parent
      /\ top.min = IF h.parent[p] = NULL THEN c ELSE h.min
      /\ \A t \in Timers :
           /\ top.left[t] = IF t = h.parent[p] /\ h.left[t] = p THEN c ELSE h.left[t]
           /\ top.right[t] = IF t = h.parent[p] /\ h.left[t] # p THEN c ELSE h.right[t]
  BY <1>1, ReplaceIs
<1>4. s = Adopt(inner, p)
  BY DEF Swap
<1> HIDE DEF top, l, r, s
<1>5. /\ top.min \in Nodes /\ top.nelts \in Nat /\ top.left \in [Timers -> Nodes]
      /\ top.right \in [Timers -> Nodes] /\ top.parent \in [Timers -> Nodes]
  BY <1>3 DEF Heaps
<1>6. moved \in Heaps
  BY <1>2, <1>3, <1>5 DEF Heaps
<1>7. /\ moved.min = top.min /\ moved.nelts = top.nelts
      /\ moved.left[c] = l /\ moved.right[c] = r
      /\ moved.left[p] = h.left[c] /\ moved.right[p] = h.right[c]
      /\ \A t \in Timers : t # p /\ t # c =>
           moved.left[t] = top.left[t] /\ moved.right[t] = top.right[t]
      /\ \A t \in Timers : moved.parent[t] = IF t = c THEN h.parent[p] ELSE top.parent[t]
  BY <1>3, <1>5 DEF Heaps
<1> HIDE DEF moved
<1>8. /\ inner \in Heaps /\ inner.nelts = moved.nelts /\ inner.min = moved.min
      /\ inner.left = moved.left /\ inner.right = moved.right
      /\ \A t \in Timers :
           inner.parent[t] = IF t \in {moved.left[c], moved.right[c]} THEN c ELSE moved.parent[t]
  BY <1>6, AdoptIs
<1> HIDE DEF inner
<1>9. /\ s \in Heaps /\ s.nelts = inner.nelts /\ s.min = inner.min
      /\ s.left = inner.left /\ s.right = inner.right
      /\ \A t \in Timers :
           s.parent[t] = IF t \in {inner.left[p], inner.right[p]} THEN p ELSE inner.parent[t]
  <2> DEFINE g == Adopt(inner, p)
  <2>1. inner \in Heaps
    BY <1>8
  <2>2. /\ g \in Heaps /\ g.nelts = inner.nelts /\ g.min = inner.min
        /\ g.left = inner.left /\ g.right = inner.right
        /\ \A t \in Timers :
             g.parent[t] = IF t \in {inner.left[p], inner.right[p]} THEN p ELSE inner.parent[t]
    BY <2>1, AdoptIs
  <2> QED
    BY <1>4, <2>2
<1>10. s.left = moved.left /\ s.right = moved.right /\ s.min = top.min /\ s.nelts = h.nelts
  BY <1>3, <1>7, <1>8, <1>9
<1>11. \A t \in Timers :
         s.parent[t] = IF t \in {s.left[p], s.right[p]} THEN p
                       ELSE IF t \in {s.left[c], s.right[c]} THEN c
                       ELSE IF t = c THEN h.parent[p] ELSE h.parent[t]
  BY <1>3, <1>7, <1>8, <1>9
<1>12. \A t \in Timers : t # p /\ t # c =>
         /\ s.left[t] = IF t = h.parent[p] /\ h.left[t] = p THEN c ELSE h.left[t]
         /\ s.right[t] = IF t = h.parent[p] /\ h.left[t] # p THEN c ELSE h.right[t]
  BY <1>3, <1>7, <1>10
<1>13. /\ s.left[p] = h.left[c] /\ s.right[p] = h.right[c] /\ s.left[c] = l /\ s.right[c] = r
  BY <1>7, <1>10
<1> QED
  BY <1>3, <1>9, <1>10, <1>11, <1>12, <1>13 DEF s, l, r

(* what is known of a heap with a shape *)
LEMMA ShapeIs ==
  ASSUME NEW h, NEW a, Shape(h, a)
  PROVE  /\ h \in Heaps /\ Places(a, h.nelts) /\ h.nelts \in Nat
         /\ \A k \in 1 .. h.nelts :
              /\ a[k] \in Timers
              /\ h.left[a[k]] = Node(a, h.nelts, 2 * k)
              /\ h.right[a[k]] = Node(a, h.nelts, 2 * k + 1)
              /\ h.parent[a[k]] = NULL <=> k = 1
         /\ \A j, k \in 1 .. h.nelts :
              /\ a[j] = a[k] => j = k
              /\ Below(j, k) => h.parent[a[k]] = a[j]
<1> DEFINE n == h.nelts
<1>1. /\ h \in Heaps /\ Places(a, n) /\ n \in Nat /\ a \in [1 .. n -> Timers]
      /\ \A j, k \in 1 .. n : a[j] = a[k] => j = k
      /\ \A k \in 1 .. n : h.left[a[k]] = Node(a, n, 2 * k) /\ h.right[a[k]] = Node(a, n, 2 * k + 1)
      /\ \A j, k \in 1 .. n : Below(j, k) => h.parent[a[k]] = a[j]
      /\ n >= 1 => h.parent[a[1]] = NULL
  BY DEF Shape, Places, Downward, Upward
<1> HIDE DEF n
<1>2. ASSUME NEW k \in 1 .. n PROVE h.parent[a[k]] = NULL <=> k = 1
  <2>1. CASE k = 1
    BY <1>1, <2>1
  <2>2. CASE k # 1
    <3>1. k \div 2 \in 1 .. n /\ Below(k \div 2, k)
      BY <1>1, <2>2, Half
    <3>2. h.parent[a[k]] = a[k \div 2] /\ a[k \div 2] \in Timers
      BY <1>1, <3>1
    <3> QED
      BY <2>2, <3>2, NullAssumption
  <2> QED
    BY <2>1, <2>2
<1> QED
  BY <1>1, <1>2 DEF n

(* two nodes, one below the other, change places, and nothing else *)
LEMMA SwapShape ==
  ASSUME NEW h, NEW a, Shape(h, a), NEW j \in 1 .. h.nelts, NEW m \in 1 .. h.nelts, Below(j, m)
  PROVE  /\ Shape(Swap(h, a[j], a[m]), Exchanged(a, j, m))
         /\ Swap(h, a[j], a[m]).nelts = h.nelts
<1> DEFINE n == h.nelts
           p == a[j]
           c == a[m]
           s == Swap(h, p, c)
           b == Exchanged(a, j, m)
<1>1. j < m /\ j # m /\ n \in Nat /\ j \in Nat /\ m \in Nat /\ j >= 1
  BY ShapeIs DEF Below
<1>2. /\ h \in Heaps /\ Places(a, n) /\ p \in Timers /\ c \in Timers /\ p # c
      /\ Downward(h.left, h.right, a, n) /\ Upward(h.parent, a, n) /\ h.min = Node(a, n, 1)
  BY <1>1, ShapeIs DEF Shape
<1>3. /\ \A k \in 1 .. n :
           /\ a[k] \in Timers
           /\ h.left[a[k]] = Node(a, n, 2 * k)
           /\ h.right[a[k]] = Node(a, n, 2 * k + 1)
           /\ h.parent[a[k]] = NULL <=> k = 1
      /\ \A i, k \in 1 .. n :
           /\ a[i] = a[k] => i = k
           /\ Below(i, k) => h.parent[a[k]] = a[i]
  BY ShapeIs
<1>4. h.left[p] = c <=> m = 2 * j
  <2>1. h.left[p] = Node(a, n, 2 * j)
    BY <1>3
  <2>2. CASE m = 2 * j
    BY <2>1, <2>2 DEF Node
  <2>3. CASE m = 2 * j + 1
    <3>1. 2 * j \in 1 .. n /\ 2 * j # m
      BY <1>1, <2>3
    <3> QED
      BY <1>3, <2>1, <3>1 DEF Node
  <2> QED
    BY <2>2, <2>3 DEF Below
<1>5. /\ s \in Heaps /\ s.nelts = n
      /\ s.min = IF h.parent[p] = NULL THEN c ELSE h.min
      /\ s.left[p] = h.left[c] /\ s.right[p] = h.right[c]
      /\ s.left[c] = IF h.left[p] = c THEN p ELSE h.left[p]
      /\ s.right[c] = IF h.left[p] = c THEN h.right[p] ELSE p
      /\ \A t \in Timers : t # p /\ t # c =>
           /\ s.left[t] = IF t = h.parent[p] /\ h.left[t] = p THEN c ELSE h.left[t]
           /\ s.right[t] = IF t = h.parent[p] /\ h.left[t] # p THEN c ELSE h.right[t]
      /\ \A t \in Timers :
           s.parent[t] = IF t \in {s.left[p], s.right[p]} THEN p
                         ELSE IF t \in {s.left[c], s.right[c]} THEN c
                         ELSE IF t = c THEN h.parent[p] ELSE h.parent[t]
  <2>1. h \in Heaps /\ p \in Timers /\ c \in Timers /\ p # c
    BY <1>2
  <2> HIDE DEF p, c
  <2> QED
    BY <2>1, SwapIs
<1> HIDE DEF s
<1>6. Places(b, n)
  BY <1>1, <1>2, ExchangedPlaces
(* the parent of p, if it has one *)
<1>7. ASSUME NEW i \in 1 .. n, i # j, i # m
      PROVE  /\ s.left[a[i]] = IF j = 2 * i THEN a[m] ELSE h.left[a[i]]
             /\ s.right[a[i]] = IF j = 2 * i + 1 THEN a[m] ELSE h.right[a[i]]
  <2>1. a[i] \in Timers /\ a[i] # p /\ a[i] # c
    BY <1>3, <1>7
  <2>2. a[i] = h.parent[p] <=> Below(i, j)
    <3>1. CASE j = 1
      <4>1. h.parent[p] = NULL /\ ~Below(i, j)
        BY <1>3, <3>1 DEF Below
      <4> QED
        BY <2>1, <4>1, NullAssumption
    <3>2. CASE j # 1
      <4>1. j \div 2 \in 1 .. n /\ Below(j \div 2, j)
        BY <1>1, <3>2, Half
      <4>2. h.parent[p] = a[j \div 2]
        BY <1>3, <4>1
      <4>3. Below(i, j) => i = j \div 2
        BY <1>1, <1>7, BelowIsHalf
      <4> QED
        BY <1>3, <4>1, <4>2, <4>3
    <3> QED
      BY <3>1, <3>2
  <2>3. Below(i, j) => (h.left[a[i]] = p <=> j = 2 * i)
    <3>1. h.left[a[i]] = Node(a, n, 2 * i)
      BY <1>3
    <3>2. CASE j = 2 * i
      BY <3>1, <3>2 DEF Node
    <3>3. CASE j = 2 * i + 1
      <4>1. 2 * i \in 1 .. n /\ 2 * i # j
        BY <1>1, <1>7, <3>3
      <4> QED
        BY <1>3, <3>1, <3>3, <4>1 DEF Node
    <3> QED
      BY <3>2, <3>3 DEF Below
  <2>4. j = 2 * i + 1 => j # 2 * i
    BY <1>1
  <2> QED
    BY <1>5, <2>1, <2>2, <2>3, <2>4 DEF Below
<1>8. Downward(s.left, s.right, b, n)
  <2>1. m = 2 * j => s.left[c] = p /\ s.right[c] = h.right[p]
    BY <1>4, <1>5
  <2>2. m = 2 * j + 1 => s.left[c] = h.left[p] /\ s.right[c] = p
    BY <1>1, <1>4, <1>5
  <2> DEFINE l == s.left
             r == s.right
             left == h.left
             right == h.right
  <2>3. l[p] = left[c] /\ r[p] = right[c]
    BY <1>5
  <2> HIDE DEF l, r, left, right
  <2> QED
    BY <1>2, <1>7, <2>1, <2>2, <2>3, DownSwapped DEF l, r, left, right
<1>9. Upward(s.parent, b, n)
  BY <1>2, <1>5, <1>8, UpSwapped, NullAssumption
<1>10. s.min = Node(b, n, 1)
  <2>1. \A k \in 1 .. n : k # j /\ k # m => b[k] = a[k]
    BY <1>1, <1>2, ExchangedPlaces
  <2>2. b[j] = c
    BY <1>1, <1>2, ExchangedPlaces
  <2>3. 1 \in 1 .. n /\ 1 # m
    BY <1>1
  <2> QED
    BY <1>2, <1>3, <1>5, <2>1, <2>2, <2>3 DEF Node
<1> QED
  BY <1>5, <1>6, <1>8, <1>9, <1>10 DEF Shape, s

-----------------------------------------------------------------------------
(* NodeAt finds the node at every place *)

(* f gives the nodes on the way to place k *)
Walks(f, h, k) ==
  f = [i \in 1 .. k |->
         IF i = 1 THEN h.min
         ELSE LET p == f[i \div 2]
              IN  IF p = NULL THEN NULL
                  ELSE IF i % 2 = 1 THEN h.right[p] ELSE h.left[p]]

(* NodeAt is the end of that way *)
LEMMA NodeAtWalks ==
  ASSUME NEW h, NEW k, \E f : Walks(f, h, k)
  PROVE  \E f : Walks(f, h, k) /\ NodeAt(h, k) = f[k]
<1> DEFINE f == CHOOSE f : Walks(f, h, k)
<1>1. Walks(f, h, k)
  OBVIOUS
<1>2. NodeAt(h, k) = f[k]
  BY Zenon DEF NodeAt, Walks
<1> QED
  BY <1>1, <1>2

(* one step of the way *)
LEMMA NextNode ==
  ASSUME NEW h, NEW a, Shape(h, a), NEW i \in Nat, i > 1,
         NEW p, p = Node(a, h.nelts, i \div 2)
  PROVE  Node(a, h.nelts, i) = IF p = NULL THEN NULL
                               ELSE IF i % 2 = 1 THEN h.right[p] ELSE h.left[p]
<1> DEFINE n == h.nelts
           j == i \div 2
<1>1. j \in Nat /\ j >= 1 /\ j < i /\ (i % 2 = 1 <=> i = 2 * j + 1) /\ (i % 2 # 1 <=> i = 2 * j)
  BY Half
<1>2. n \in Nat /\ \A k \in 1 .. n : /\ a[k] \in Timers
                                     /\ h.left[a[k]] = Node(a, n, 2 * k)
                                     /\ h.right[a[k]] = Node(a, n, 2 * k + 1)
  BY ShapeIs
<1>3. CASE p = NULL
  <2>1. ~(j \in 1 .. n)
    BY <1>2, <1>3, NullAssumption DEF Node
  <2>2. ~(i \in 1 .. n)
    BY <1>1, <1>2, <2>1
  <2> QED
    BY <1>3, <2>2 DEF Node
<1>4. CASE p # NULL
  <2>1. j \in 1 .. n /\ p = a[j]
    BY <1>4 DEF Node
  <2>2. h.left[p] = Node(a, n, 2 * j) /\ h.right[p] = Node(a, n, 2 * j + 1)
    BY <1>2, <2>1
  <2> QED
    BY <1>1, <1>4, <2>2
<1> QED
  BY <1>3, <1>4

(* the path k of heap_insert and heap_remove ends at the node at place k *)
LEMMA NodeAtIs ==
  ASSUME NEW h, NEW a, Shape(h, a), NEW k \in Nat, k >= 1
  PROVE  NodeAt(h, k) = Node(a, h.nelts, k)
<1> DEFINE n == h.nelts
           g == [i \in 1 .. k |-> Node(a, n, i)]
<1>1. ASSUME NEW i \in 1 .. k
      PROVE  /\ i = 1 => Node(a, n, i) = h.min
             /\ i # 1 => i \div 2 \in 1 .. k /\ i \div 2 < i /\ i \in Nat /\ i > 1
  <2>1. i # 1 => i \div 2 \in 1 .. k /\ i \div 2 < i /\ i \in Nat /\ i > 1
    BY Half
  <2> QED
    BY <2>1 DEF Shape
<1>2. Walks(g, h, k)
  <2>1. ASSUME NEW i \in 1 .. k
        PROVE  g[i] = IF i = 1 THEN h.min
                      ELSE LET p == g[i \div 2]
                           IN  IF p = NULL THEN NULL
                               ELSE IF i % 2 = 1 THEN h.right[p] ELSE h.left[p]
    <3>1. CASE i = 1
      BY <1>1, <3>1
    <3>2. CASE i # 1
      <4> DEFINE p == g[i \div 2]
      <4>1. i \div 2 \in 1 .. k /\ i \in Nat /\ i > 1
        BY <1>1, <3>2
      <4>2. p = Node(a, h.nelts, i \div 2)
        BY <4>1
      <4>3. g[i] = Node(a, h.nelts, i)
        OBVIOUS
      <4> HIDE DEF p, g
      <4>4. Node(a, h.nelts, i) = IF p = NULL THEN NULL
                                  ELSE IF i % 2 = 1 THEN h.right[p] ELSE h.left[p]
        BY <4>1, <4>2, NextNode
      <4> QED
        BY <3>2, <4>3, <4>4 DEF p
    <3> QED
      BY <3>1, <3>2
  <2>2. g = [i \in 1 .. k |-> g[i]]
    OBVIOUS
  <2> HIDE DEF g
  <2> QED
    BY <2>1, <2>2 DEF Walks
<1>3. PICK f : Walks(f, h, k) /\ NodeAt(h, k) = f[k]
  BY <1>2, NodeAtWalks
<1>4. \A i \in 1 .. k :
        f[i] = IF i = 1 THEN h.min
               ELSE IF f[i \div 2] = NULL THEN NULL
               ELSE IF i % 2 = 1 THEN h.right[f[i \div 2]] ELSE h.left[f[i \div 2]]
  BY <1>3 DEF Walks
<1> DEFINE T == {i \in 1 .. k : f[i] # Node(a, n, i)}
<1>5. T = {}
  <2> SUFFICES ASSUME T # {} PROVE FALSE
    OBVIOUS
  <2>1. PICK i \in T : \A x \in T : i <= x
    <3>1. T \subseteq Nat
      OBVIOUS
    <3> HIDE DEF T
    <3> QED
      BY <3>1, LeastNumber
  <2>2. i \in 1 .. k /\ f[i] # Node(a, n, i)
    OBVIOUS
  <2>3. i # 1
    BY <1>1, <1>4, <2>2
  <2>4. i \div 2 \in 1 .. k /\ i \div 2 < i /\ i \in Nat /\ i > 1
    BY <1>1, <2>2, <2>3
  <2>5. i \div 2 \notin T
    BY <2>1, <2>4
  <2> DEFINE p == f[i \div 2]
  <2>6. p = Node(a, h.nelts, i \div 2)
    BY <2>4, <2>5
  <2>7. f[i] = IF p = NULL THEN NULL ELSE IF i % 2 = 1 THEN h.right[p] ELSE h.left[p]
    BY <1>4, <2>2, <2>3
  <2> HIDE DEF p
  <2>8. Node(a, h.nelts, i) = IF p = NULL THEN NULL
                              ELSE IF i % 2 = 1 THEN h.right[p] ELSE h.left[p]
    BY <2>4, <2>6, NextNode
  <2> QED
    BY <2>2, <2>7, <2>8
<1>6. k \in 1 .. k
  OBVIOUS
<1> QED
  BY <1>3, <1>5, <1>6

-----------------------------------------------------------------------------
(* Order *)

(* no node runs after one of its children *)
Ordered(a, n, tm) == \A j, k \in 1 .. n : Below(j, k) => tm[a[j]] <= tm[a[k]]

(* around place m: its parent does not run after its children *)
Spans(a, n, tm, m) ==
  \A i, k \in 1 .. n : Below(i, m) /\ Below(m, k) => tm[a[i]] <= tm[a[k]]

(* all is ordered, but that the node at m may have to go up *)
MayRise(a, n, tm, m) ==
  /\ m \in 1 .. n
  /\ \A j, k \in 1 .. n : Below(j, k) /\ k # m => tm[a[j]] <= tm[a[k]]
  /\ Spans(a, n, tm, m)

(* or down *)
MaySink(a, n, tm, m) ==
  /\ m \in 1 .. n
  /\ \A j, k \in 1 .. n : Below(j, k) /\ j # m => tm[a[j]] <= tm[a[k]]
  /\ Spans(a, n, tm, m)

(* a node that goes up one place need only go on going up *)
LEMMA Rise ==
  ASSUME NEW n, NEW a, Places(a, n), NEW tm \in [Timers -> Nat], NEW m, MayRise(a, n, tm, m),
         NEW j \in 1 .. n, Below(j, m), tm[a[m]] < tm[a[j]]
  PROVE  MayRise(Exchanged(a, j, m), n, tm, j)
<1> DEFINE b == Exchanged(a, j, m)
<1>1. m \in 1 .. n /\ n \in Nat /\ j < m
  BY DEF MayRise, Places, Below
<1>2. b[j] = a[m] /\ b[m] = a[j] /\ \A k \in 1 .. n : k # j /\ k # m => b[k] = a[k]
  BY <1>1, ExchangedPlaces
<1> HIDE DEF b
<1> DEFINE v(k) == tm[a[k]]
           w(k) == tm[b[k]]
<1>3. \A k \in 1 .. n : v(k) \in Nat
  BY DEF Places
<1>4. w(j) = v(m) /\ w(m) = v(j) /\ \A k \in 1 .. n : k # j /\ k # m => w(k) = v(k)
  BY <1>2
<1>5. /\ \A i, k \in 1 .. n : Below(i, k) /\ k # m => v(i) <= v(k)
      /\ \A i, k \in 1 .. n : Below(i, m) /\ Below(m, k) => v(i) <= v(k)
  BY DEF MayRise, Spans
<1>6. v(m) < v(j)
  OBVIOUS
<1> HIDE DEF v, w
<1>7. ASSUME NEW x \in 1 .. n, NEW k \in 1 .. n, Below(x, k), k # j PROVE w(x) <= w(k)
  <2>1. CASE x = j
    <3>1. k # j /\ (k # m => v(j) <= v(k))
      BY <1>5, <1>7, <2>1
    <3> QED
      BY <1>1, <1>3, <1>4, <1>6, <2>1, <3>1
  <2>2. CASE x = m
    <3>1. k # m /\ v(j) <= v(k)
      BY <1>1, <1>5, <1>7, <2>2 DEF Below
    <3> QED
      BY <1>4, <1>7, <2>2, <3>1
  <2>3. CASE x # j /\ x # m
    <3>1. k # m
      BY <1>1, <1>7, <2>3 DEF Below
    <3> QED
      BY <1>4, <1>5, <1>7, <2>3, <3>1
  <2> QED
    BY <2>1, <2>2, <2>3
<1>8. ASSUME NEW i \in 1 .. n, NEW k \in 1 .. n, Below(i, j), Below(j, k) PROVE w(i) <= w(k)
  <2>1. i # j /\ i # m /\ j # m /\ k # j
    BY <1>1, <1>8 DEF Below
  <2>2. w(i) = v(i) /\ v(i) <= v(j)
    BY <1>4, <1>5, <1>8, <2>1
  <2>3. k # m => v(j) <= v(k)
    BY <1>5, <1>8
  <2> QED
    BY <1>1, <1>3, <1>4, <2>1, <2>2, <2>3
<1> QED
  BY <1>7, <1>8 DEF MayRise, Spans, w, b

(* a node that goes down, in place of its first child, need only go on going down *)
LEMMA Sink ==
  ASSUME NEW n, NEW a, Places(a, n), NEW tm \in [Timers -> Nat], NEW m, MaySink(a, n, tm, m),
         NEW c \in 1 .. n, Below(m, c), tm[a[c]] < tm[a[m]],
         \A k \in 1 .. n : Below(m, k) => tm[a[c]] <= tm[a[k]]
  PROVE  MaySink(Exchanged(a, m, c), n, tm, c)
<1> DEFINE b == Exchanged(a, m, c)
<1>1. m \in 1 .. n /\ n \in Nat /\ m < c
  BY DEF MaySink, Places, Below
<1>2. b[m] = a[c] /\ b[c] = a[m] /\ \A k \in 1 .. n : k # m /\ k # c => b[k] = a[k]
  BY <1>1, ExchangedPlaces
<1> HIDE DEF b
<1> DEFINE v(k) == tm[a[k]]
           w(k) == tm[b[k]]
<1>3. \A k \in 1 .. n : v(k) \in Nat
  BY DEF Places
<1>4. w(m) = v(c) /\ w(c) = v(m) /\ \A k \in 1 .. n : k # m /\ k # c => w(k) = v(k)
  BY <1>2
<1>5. /\ \A i, k \in 1 .. n : Below(i, k) /\ i # m => v(i) <= v(k)
      /\ \A i, k \in 1 .. n : Below(i, m) /\ Below(m, k) => v(i) <= v(k)
  BY DEF MaySink, Spans
<1>6. v(c) < v(m) /\ \A k \in 1 .. n : Below(m, k) => v(c) <= v(k)
  OBVIOUS
<1> HIDE DEF v, w
<1>7. ASSUME NEW x \in 1 .. n, NEW k \in 1 .. n, Below(x, k), x # c PROVE w(x) <= w(k)
  <2>1. CASE x = m
    <3>1. k # m /\ v(c) <= v(k)
      BY <1>1, <1>6, <1>7, <2>1 DEF Below
    <3> QED
      BY <1>1, <1>3, <1>4, <1>6, <2>1, <3>1
  <2>2. CASE x # m /\ k = m
    <3>1. v(x) <= v(c)
      BY <1>5, <1>7, <2>2
    <3> QED
      BY <1>4, <1>7, <2>2, <3>1
  <2>3. CASE x # m /\ k # m
    <3>1. k # c
      BY <1>1, <1>7, <2>3 DEF Below
    <3> QED
      BY <1>4, <1>5, <1>7, <2>3, <3>1
  <2> QED
    BY <2>1, <2>2, <2>3
<1>8. ASSUME NEW i \in 1 .. n, NEW k \in 1 .. n, Below(i, c), Below(c, k) PROVE w(i) <= w(k)
  <2>1. i = m /\ k # c /\ k # m
    BY <1>1, <1>8 DEF Below
  <2>2. v(c) <= v(k)
    BY <1>1, <1>5, <1>8
  <2> QED
    BY <1>4, <2>1, <2>2
<1> QED
  BY <1>7, <1>8 DEF MaySink, Spans, w, b

-----------------------------------------------------------------------------
(* The loops *)

(* f is what N turns of F make of x *)
Iterated(f, S, F, x, N) ==
  f \in [0 .. N -> S] /\ f[0] = x /\ \A i \in 1 .. N : f[i] = F[f[i - 1]]

LEMMA Iterates ==
  ASSUME NEW S, NEW F \in [S -> S], NEW x \in S, NEW N \in Nat
  PROVE  \E f : Iterated(f, S, F, x, N)
<1> DEFINE Chain(f, n) == f \in [0 .. n -> S] /\ f[0] = x /\ \A i \in 1 .. n : f[i] = F[f[i - 1]]
           G == {n \in Nat : \E f : Chain(f, n)}
<1>1. 0 \in G
  <2> DEFINE f == [i \in 0 .. 0 |-> x]
  <2>1. Chain(f, 0)
    OBVIOUS
  <2> QED
    BY <2>1
<1>2. ASSUME NEW n \in G PROVE n + 1 \in G
  <2>1. PICK f : Chain(f, n)
    OBVIOUS
  <2> DEFINE g == [i \in 0 .. n + 1 |-> IF i = n + 1 THEN F[f[n]] ELSE f[i]]
  <2>2. n \in Nat /\ f[n] \in S /\ F[f[n]] \in S
    BY <2>1
  <2>3. g \in [0 .. n + 1 -> S]
    BY <2>1, <2>2
  <2>4. g[0] = x
    BY <2>1, <2>2
  <2>5. ASSUME NEW i \in 1 .. n + 1 PROVE g[i] = F[g[i - 1]]
    <3>1. i - 1 \in 0 .. n /\ i - 1 # n + 1 /\ i - 1 \in 0 .. n + 1
      BY <2>2
    <3>2. g[i - 1] = f[i - 1]
      BY <3>1
    <3>3. CASE i = n + 1
      BY <2>2, <3>2, <3>3
    <3>4. CASE i # n + 1
      <4>1. i \in 1 .. n /\ g[i] = f[i]
        BY <2>2, <3>4
      <4> QED
        BY <2>1, <3>2, <4>1
    <3> QED
      BY <3>3, <3>4
  <2>6. Chain(g, n + 1)
    BY <2>3, <2>4, <2>5
  <2> HIDE DEF g, Chain
  <2> QED
    BY <2>2, <2>6
<1>3. G = Nat
  <2>1. G \subseteq Nat
    OBVIOUS
  <2> HIDE DEF G
  <2> QED
    BY <1>1, <1>2, <2>1, Induction
<1>4. PICK f : Chain(f, N)
  BY <1>3
<1> QED
  BY <1>4 DEF Iterated

(* one turn of the loop up *)
RiseOnce(g, node, tm) ==
  IF g.parent[node] # NULL /\ Less(tm, node, g.parent[node])
    THEN Swap(g, g.parent[node], node) ELSE g

RisesBy(up, h, node, tm) ==
  up = [i \in 0 .. h.nelts |->
          IF i = 0 THEN h
          ELSE LET g == up[i - 1]
                   p == g.parent[node]
               IN  IF p # NULL /\ Less(tm, node, p) THEN Swap(g, p, node) ELSE g]

LEMMA RiseTyped ==
  ASSUME NEW g \in Heaps, NEW node \in Timers, NEW tm \in [Timers -> Nat]
  PROVE  RiseOnce(g, node, tm) \in Heaps
<1> DEFINE p == g.parent[node]
<1>1. p \in Timers \cup {NULL}
  BY DEF Heaps, Nodes
<1> HIDE DEF p
<1>2. CASE p # NULL /\ Less(tm, node, p)
  <2>1. p \in Timers /\ p # node
    BY <1>1, <1>2 DEF Less
  <2>2. Swap(g, p, node) \in Heaps
    BY <2>1, SwapIs
  <2> QED
    BY <1>2, <2>2 DEF RiseOnce, p
<1>3. CASE ~(p # NULL /\ Less(tm, node, p))
  BY <1>3 DEF RiseOnce, p
<1> QED
  BY <1>2, <1>3

LEMMA RisesExist ==
  ASSUME NEW h \in Heaps, NEW node \in Timers, NEW tm \in [Timers -> Nat]
  PROVE  \E f : /\ SiftUp(h, node, tm) = f[h.nelts]
                /\ f[0] = h
                /\ \A i \in 1 .. h.nelts : f[i] = RiseOnce(f[i - 1], node, tm)
<1> DEFINE F == [g \in Heaps |-> RiseOnce(g, node, tm)]
           N == h.nelts
<1>1. N \in Nat
  BY DEF Heaps
<1>2. F \in [Heaps -> Heaps]
  BY RiseTyped
<1>3. PICK f : f \in [0 .. N -> Heaps] /\ f[0] = h /\ \A i \in 1 .. N : f[i] = F[f[i - 1]]
  <2> HIDE DEF F, N
  <2>1. \E f : Iterated(f, Heaps, F, h, N)
    BY <1>1, <1>2, Iterates
  <2> QED
    BY <2>1 DEF Iterated
<1>4. RisesBy(f, h, node, tm)
  <2>1. ASSUME NEW i \in 0 .. N, i # 0
        PROVE  f[i] = LET g == f[i - 1]
                          p == g.parent[node]
                      IN  IF p # NULL /\ Less(tm, node, p) THEN Swap(g, p, node) ELSE g
    <3>1. i \in 1 .. N /\ i - 1 \in 0 .. N
      BY <1>1, <2>1
    <3>2. f[i] = RiseOnce(f[i - 1], node, tm)
      BY <1>3, <3>1
    <3> QED
      BY <3>2 DEF RiseOnce
  <2>2. f = [i \in 0 .. N |-> f[i]]
    BY <1>3
  <2> QED
    BY <1>3, <2>1, <2>2 DEF RisesBy
<1> DEFINE u == CHOOSE up : RisesBy(up, h, node, tm)
<1>5. RisesBy(u, h, node, tm)
  BY <1>4
<1>6. SiftUp(h, node, tm) = u[N]
  BY Zenon DEF SiftUp, RisesBy
<1> HIDE DEF u
<1>7. u[0] = h
  BY <1>1, <1>5 DEF RisesBy
<1>8. ASSUME NEW i \in 1 .. N PROVE u[i] = RiseOnce(u[i - 1], node, tm)
  <2>1. i \in 0 .. N /\ i # 0
    BY <1>1
  <2>2. u[i] = LET g == u[i - 1]
                   p == g.parent[node]
               IN  IF p # NULL /\ Less(tm, node, p) THEN Swap(g, p, node) ELSE g
    BY <1>5, <2>1 DEF RisesBy
  <2> QED
    BY <2>2 DEF RiseOnce
<1> QED
  BY <1>6, <1>7, <1>8

(* after i turns: node went up i places, or is where it belongs *)
Rising(g, i, a, n, node, tm) ==
  \E b, k : /\ Shape(g, b) /\ g.nelts = n
            /\ Same(b, a, n)
            /\ MayRise(b, n, tm, k) /\ b[k] = node
            /\ Ordered(b, n, tm) \/ k + i <= n

LEMMA SameSame ==
  ASSUME NEW a, NEW b, NEW c, NEW n, Same(b, a, n), Same(c, b, n)
  PROVE  Same(c, a, n)
BY DEF Same

LEMMA RisingStep ==
  ASSUME NEW tm \in [Timers -> Nat], NEW n, NEW a, NEW node \in Timers, NEW i \in Nat, NEW g,
         Rising(g, i, a, n, node, tm)
  PROVE  Rising(RiseOnce(g, node, tm), i + 1, a, n, node, tm)
<1>1. PICK b, k : /\ Shape(g, b) /\ g.nelts = n
                  /\ Same(b, a, n)
                  /\ MayRise(b, n, tm, k) /\ b[k] = node
                  /\ Ordered(b, n, tm) \/ k + i <= n
  BY DEF Rising
<1> DEFINE p == g.parent[node]
<1>2. /\ k \in 1 .. n /\ n \in Nat /\ Places(b, n)
      /\ \A x \in 1 .. n : b[x] \in Timers /\ (g.parent[b[x]] = NULL <=> x = 1)
      /\ \A j, x \in 1 .. n : Below(j, x) => g.parent[b[x]] = b[j]
  BY <1>1, ShapeIs DEF MayRise
<1>3. CASE k = 1
  <2>1. p = NULL
    BY <1>1, <1>2, <1>3
  <2>2. Ordered(b, n, tm)
    <3>1. \A j, x \in 1 .. n : Below(j, x) => x # 1
      BY DEF Below
    <3> QED
      BY <1>1, <1>3, <3>1 DEF MayRise, Ordered
  <2>3. RiseOnce(g, node, tm) = g
    BY <2>1 DEF RiseOnce
  <2> QED
    BY <1>1, <2>2, <2>3 DEF Rising
<1>4. CASE k # 1
  <2> DEFINE j == k \div 2
  <2>1. j \in 1 .. n /\ Below(j, k) /\ j < k
    BY <1>2, <1>4, Half
  <2>2. p = b[j] /\ p \in Timers /\ p # NULL
    BY <1>1, <1>2, <2>1, NullAssumption
  <2> HIDE DEF j
  <2>3. CASE Less(tm, node, p)
    <3>1. RiseOnce(g, node, tm) = Swap(g, b[j], b[k])
      BY <1>1, <2>2, <2>3 DEF RiseOnce
    <3>2. tm[b[k]] < tm[b[j]]
      BY <1>1, <2>2, <2>3 DEF Less
    <3> DEFINE c == Exchanged(b, j, k)
    <3>3. Shape(Swap(g, b[j], b[k]), c) /\ Swap(g, b[j], b[k]).nelts = n
      BY <1>1, <1>2, <2>1, SwapShape
    <3>4. MayRise(c, n, tm, j)
      BY <1>1, <1>2, <2>1, <3>2, Rise
    <3>5. c[j] = node
      BY <1>1, <1>2, <2>1, ExchangedPlaces
    <3>6. Same(c, b, n)
      BY <1>2, <2>1, ExchangedPlaces
    <3>7. Same(c, a, n)
      BY <1>1, <3>6, SameSame
    <3>8. j + (i + 1) <= n
      <4>1. ~Ordered(b, n, tm)
        <5>1. tm[b[k]] \in Nat /\ tm[b[j]] \in Nat
          BY <1>2, <2>1
        <5> QED
          BY <1>2, <2>1, <3>2, <5>1 DEF Ordered
      <4> QED
        BY <1>1, <1>2, <2>1, <4>1
    <3> QED
      BY <3>1, <3>3, <3>4, <3>5, <3>7, <3>8 DEF Rising
  <2>4. CASE ~Less(tm, node, p)
    <3>1. RiseOnce(g, node, tm) = g
      BY <2>4 DEF RiseOnce
    <3>2. tm[b[j]] <= tm[b[k]]
      BY <1>1, <1>2, <2>1, <2>2, <2>4 DEF Less
    <3>3. \A x \in 1 .. n : Below(x, k) => x = j
      BY <1>2, <2>1 DEF Below
    <3>4. Ordered(b, n, tm)
      BY <1>1, <3>2, <3>3 DEF MayRise, Ordered
    <3> QED
      BY <1>1, <3>1, <3>4 DEF Rising
  <2> QED
    BY <2>3, <2>4
<1> QED
  BY <1>3, <1>4

(* the same nodes, in order *)
Settled(g, h, a, tm) ==
  \E b : /\ Shape(g, b) /\ g.nelts = h.nelts
         /\ Same(b, a, h.nelts) /\ Ordered(b, h.nelts, tm)

(* the loop that walks up ends in an ordered tree *)
LEMMA SiftUpSettles ==
  ASSUME NEW tm \in [Timers -> Nat], NEW h, NEW a, Shape(h, a), NEW m, MayRise(a, h.nelts, tm, m)
  PROVE  Settled(SiftUp(h, a[m], tm), h, a, tm)
<1> DEFINE n == h.nelts
           node == a[m]
<1>1. h \in Heaps /\ n \in Nat /\ m \in 1 .. n /\ node \in Timers
  BY ShapeIs DEF MayRise
<1>2. PICK f : /\ SiftUp(h, node, tm) = f[n] /\ f[0] = h
               /\ \A i \in 1 .. n : f[i] = RiseOnce(f[i - 1], node, tm)
  <2> HIDE DEF node
  <2> QED
    BY <1>1, RisesExist
<1> DEFINE G == {i \in Nat : i <= n => Rising(f[i], i, a, n, node, tm)}
<1>3. 0 \in G
  <2>1. Same(a, a, n) /\ m + 0 <= n
    BY <1>1 DEF Same
  <2>2. Rising(h, 0, a, n, node, tm)
    BY <2>1 DEF Rising
  <2> QED
    BY <1>2, <2>2
<1>4. ASSUME NEW i \in G PROVE i + 1 \in G
  <2> SUFFICES ASSUME i + 1 <= n PROVE Rising(f[i + 1], i + 1, a, n, node, tm)
    OBVIOUS
  <2>1. i \in Nat /\ i <= n /\ i + 1 \in 1 .. n /\ (i + 1) - 1 = i
    BY <1>1
  <2>2. Rising(f[i], i, a, n, node, tm)
    BY <2>1
  <2>3. f[i + 1] = RiseOnce(f[i], node, tm)
    BY <1>2, <2>1
  <2> HIDE DEF node, G
  <2>4. Rising(RiseOnce(f[i], node, tm), i + 1, a, n, node, tm)
    BY <1>1, <2>1, <2>2, RisingStep
  <2> QED
    BY <2>3, <2>4
<1>5. G = Nat
  <2>1. G \subseteq Nat
    OBVIOUS
  <2> HIDE DEF G
  <2> QED
    BY <1>3, <1>4, <2>1, Induction
<1>6. Rising(f[n], n, a, n, node, tm)
  BY <1>1, <1>5
<1>7. PICK b, k : /\ Shape(f[n], b) /\ f[n].nelts = n
                  /\ Same(b, a, n)
                  /\ MayRise(b, n, tm, k) /\ b[k] = node
                  /\ Ordered(b, n, tm) \/ k + n <= n
  BY <1>6 DEF Rising
<1>8. k \in 1 .. n
  BY <1>7 DEF MayRise
<1>9. Ordered(b, n, tm)
  BY <1>1, <1>7, <1>8
<1> QED
  BY <1>2, <1>7, <1>9 DEF Settled

(* the one of two that runs first *)
Lower(tm, best, c) == IF c # NULL /\ Less(tm, c, best) THEN c ELSE best

LEMMA SmallestIsLower ==
  ASSUME NEW h, NEW node, NEW tm
  PROVE  Smallest(h, node, tm) = Lower(tm, Lower(tm, node, h.left[node]), h.right[node])
BY DEF Smallest, Lower

(* s is the node at k, or that child of it which runs first, and before it *)
First(b, n, tm, k, s) ==
  \/ s = b[k] /\ \A c \in 1 .. n : Below(k, c) => tm[b[k]] <= tm[b[c]]
  \/ \E c \in 1 .. n : /\ Below(k, c) /\ s = b[c] /\ tm[b[c]] < tm[b[k]]
                       /\ \A x \in 1 .. n : Below(k, x) => tm[b[c]] <= tm[b[x]]

LEMMA SmallestIsFirst ==
  ASSUME NEW tm \in [Timers -> Nat], NEW h, NEW a, Shape(h, a), NEW k \in 1 .. h.nelts
  PROVE  First(a, h.nelts, tm, k, Smallest(h, a[k], tm))
<1> DEFINE n == h.nelts
           l == Node(a, n, 2 * k)
           r == Node(a, n, 2 * k + 1)
           s == Lower(tm, Lower(tm, a[k], l), r)
<1>1. /\ n \in Nat /\ k \in Nat /\ h.left[a[k]] = l /\ h.right[a[k]] = r
      /\ \A x \in 1 .. n : a[x] \in Timers /\ a[x] # NULL /\ tm[a[x]] \in Nat
  BY ShapeIs, NullAssumption
<1>2. Smallest(h, a[k], tm) = s
  BY <1>1, SmallestIsLower
<1> HIDE DEF n
<1>3. \A x \in 1 .. n : Below(k, x) => x = 2 * k \/ x = 2 * k + 1
  BY DEF Below
<1>4. k \in 1 .. n /\ Below(k, 2 * k) /\ Below(k, 2 * k + 1)
  BY DEF Below, n
<1>5. CASE 2 * k + 1 \in 1 .. n
  <2>1. 2 * k \in 1 .. n /\ l = a[2 * k] /\ r = a[2 * k + 1]
    BY <1>1, <1>5 DEF Node
  <2> DEFINE vk == tm[a[k]]
             vl == tm[a[2 * k]]
             vr == tm[a[2 * k + 1]]
  <2>2. vk \in Nat /\ vl \in Nat /\ vr \in Nat /\ l # NULL /\ r # NULL
    BY <1>1, <1>4, <1>5, <2>1
  <2>3. s = IF vl < vk THEN IF vr < vl THEN a[2 * k + 1] ELSE a[2 * k]
            ELSE IF vr < vk THEN a[2 * k + 1] ELSE a[k]
    BY <2>1, <2>2 DEF Lower, Less
  <2>4. \A x \in 1 .. n : Below(k, x) => tm[a[x]] = vl \/ tm[a[x]] = vr
    BY <1>3
  <2> HIDE DEF vk, vl, vr, s, l, r
  <2>5. CASE vl < vk /\ ~(vr < vl)
    <3>1. s = a[2 * k] /\ vl <= vr /\ vl <= vl
      BY <2>2, <2>3, <2>5
    <3> QED
      BY <1>2, <1>4, <2>1, <2>4, <2>5, <3>1 DEF First, n, vk, vl
  <2>6. CASE vr < vk /\ (vl < vk => vr < vl)
    <3>1. s = a[2 * k + 1] /\ vr <= vr /\ vr <= vl
      BY <2>2, <2>3, <2>6
    <3> QED
      BY <1>2, <1>4, <1>5, <2>4, <2>6, <3>1 DEF First, n, vk, vr
  <2>7. CASE ~(vl < vk) /\ ~(vr < vk)
    <3>1. s = a[k] /\ vk <= vr /\ vk <= vl
      BY <2>2, <2>3, <2>7
    <3> QED
      BY <1>2, <2>4, <3>1 DEF First, n, vk
  <2> QED
    BY <2>2, <2>5, <2>6, <2>7
<1>6. CASE ~(2 * k + 1 \in 1 .. n) /\ 2 * k \in 1 .. n
  <2>1. l = a[2 * k] /\ r = NULL
    BY <1>6 DEF Node
  <2> DEFINE vk == tm[a[k]]
             vl == tm[a[2 * k]]
  <2>2. vk \in Nat /\ vl \in Nat /\ l # NULL
    BY <1>1, <1>4, <1>6, <2>1
  <2>3. s = IF vl < vk THEN a[2 * k] ELSE a[k]
    BY <2>1, <2>2 DEF Lower, Less
  <2>4. \A x \in 1 .. n : Below(k, x) => tm[a[x]] = vl
    BY <1>3, <1>6
  <2> HIDE DEF vk, vl, s, l, r
  <2>5. CASE vl < vk
    <3>1. s = a[2 * k] /\ vl <= vl
      BY <2>2, <2>3, <2>5
    <3> QED
      BY <1>2, <1>4, <1>6, <2>4, <2>5, <3>1 DEF First, n, vk, vl
  <2>6. CASE ~(vl < vk)
    <3>1. s = a[k] /\ vk <= vl
      BY <2>2, <2>3, <2>6
    <3> QED
      BY <1>2, <2>4, <3>1 DEF First, n, vk
  <2> QED
    BY <2>5, <2>6
<1>7. CASE ~(2 * k \in 1 .. n)
  <2>1. ~(2 * k + 1 \in 1 .. n)
    BY <1>1, <1>4, <1>7
  <2>2. l = NULL /\ r = NULL
    BY <1>7, <2>1 DEF Node
  <2>3. s = a[k]
    BY <2>2 DEF Lower
  <2>4. \A x \in 1 .. n : ~Below(k, x)
    BY <1>3, <1>7, <2>1
  <2> QED
    BY <1>2, <2>3, <2>4 DEF First, n
<1> QED
  BY <1>5, <1>6, <1>7

(* one turn of the loop down *)
SinkOnce(g, node, tm) ==
  IF Smallest(g, node, tm) # node THEN Swap(g, node, Smallest(g, node, tm)) ELSE g

SinksBy(down, h, node, tm) ==
  down = [i \in 0 .. h.nelts |->
            IF i = 0 THEN h
            ELSE LET g == down[i - 1]
                     s == Smallest(g, node, tm)
                 IN  IF s # node THEN Swap(g, node, s) ELSE g]

LEMMA SinkTyped ==
  ASSUME NEW g \in Heaps, NEW node \in Timers, NEW tm
  PROVE  SinkOnce(g, node, tm) \in Heaps
<1> DEFINE s == Smallest(g, node, tm)
<1>1. g.left[node] \in Nodes /\ g.right[node] \in Nodes
  BY DEF Heaps
<1>2. s \in Timers
  BY <1>1, SmallestIsLower DEF Lower, Nodes
<1> HIDE DEF s
<1>3. s # node => Swap(g, node, s) \in Heaps
  BY <1>2, SwapIs
<1> QED
  BY <1>3 DEF SinkOnce, s

LEMMA SinksExist ==
  ASSUME NEW h \in Heaps, NEW node \in Timers, NEW tm
  PROVE  \E f : /\ SiftDown(h, node, tm) = f[h.nelts]
                /\ f[0] = h
                /\ \A i \in 1 .. h.nelts : f[i] = SinkOnce(f[i - 1], node, tm)
<1> DEFINE F == [g \in Heaps |-> SinkOnce(g, node, tm)]
           N == h.nelts
<1>1. N \in Nat
  BY DEF Heaps
<1>2. F \in [Heaps -> Heaps]
  BY SinkTyped
<1>3. PICK f : f \in [0 .. N -> Heaps] /\ f[0] = h /\ \A i \in 1 .. N : f[i] = F[f[i - 1]]
  <2> HIDE DEF F, N
  <2>1. \E f : Iterated(f, Heaps, F, h, N)
    BY <1>1, <1>2, Iterates
  <2> QED
    BY <2>1 DEF Iterated
<1>4. SinksBy(f, h, node, tm)
  <2>1. ASSUME NEW i \in 0 .. N, i # 0
        PROVE  f[i] = LET g == f[i - 1]
                          s == Smallest(g, node, tm)
                      IN  IF s # node THEN Swap(g, node, s) ELSE g
    <3>1. i \in 1 .. N /\ i - 1 \in 0 .. N
      BY <1>1, <2>1
    <3>2. f[i] = SinkOnce(f[i - 1], node, tm)
      BY <1>3, <3>1
    <3> QED
      BY <3>2 DEF SinkOnce
  <2>2. f = [i \in 0 .. N |-> f[i]]
    BY <1>3
  <2> QED
    BY <1>3, <2>1, <2>2 DEF SinksBy
<1> DEFINE u == CHOOSE down : SinksBy(down, h, node, tm)
<1>5. SinksBy(u, h, node, tm)
  BY <1>4
<1>6. SiftDown(h, node, tm) = u[N]
  BY Zenon DEF SiftDown, SinksBy
<1> HIDE DEF u
<1>7. u[0] = h
  BY <1>1, <1>5 DEF SinksBy
<1>8. ASSUME NEW i \in 1 .. N PROVE u[i] = SinkOnce(u[i - 1], node, tm)
  <2>1. i \in 0 .. N /\ i # 0
    BY <1>1
  <2>2. u[i] = LET g == u[i - 1]
                   s == Smallest(g, node, tm)
               IN  IF s # node THEN Swap(g, node, s) ELSE g
    BY <1>5, <2>1 DEF SinksBy
  <2> QED
    BY <2>2 DEF SinkOnce
<1> QED
  BY <1>6, <1>7, <1>8

(* a node that may only have to go up stays *)
LEMMA SiftDownStays ==
  ASSUME NEW tm \in [Timers -> Nat], NEW h, NEW a, Shape(h, a), NEW m, MayRise(a, h.nelts, tm, m)
  PROVE  SiftDown(h, a[m], tm) = h
<1> DEFINE n == h.nelts
           node == a[m]
<1>1. h \in Heaps /\ n \in Nat /\ m \in 1 .. n /\ \A x \in 1 .. n : a[x] \in Timers
  BY ShapeIs DEF MayRise
<1>2. PICK f : /\ SiftDown(h, node, tm) = f[n] /\ f[0] = h
               /\ \A i \in 1 .. n : f[i] = SinkOnce(f[i - 1], node, tm)
  <2>1. node \in Timers
    BY <1>1
  <2> HIDE DEF node
  <2> QED
    BY <1>1, <2>1, SinksExist
<1>3. SinkOnce(h, node, tm) = h
  <2>1. First(a, n, tm, m, Smallest(h, node, tm))
    BY <1>1, SmallestIsFirst
  <2>2. ASSUME NEW c \in 1 .. n, Below(m, c) PROVE ~(tm[a[c]] < tm[a[m]])
    <3>1. c # m
      BY <1>1, <2>2 DEF Below
    <3>2. tm[a[m]] <= tm[a[c]]
      BY <1>1, <2>2, <3>1 DEF MayRise
    <3>3. tm[a[m]] \in Nat /\ tm[a[c]] \in Nat
      BY <1>1
    <3> QED
      BY <3>2, <3>3
  <2>3. Smallest(h, node, tm) = node
    BY <2>1, <2>2 DEF First
  <2> QED
    BY <2>3 DEF SinkOnce
<1> DEFINE G == {i \in Nat : i <= n => f[i] = h}
<1>4. 0 \in G
  BY <1>2
<1>5. ASSUME NEW i \in G PROVE i + 1 \in G
  <2> SUFFICES ASSUME i + 1 <= n PROVE f[i + 1] = h
    OBVIOUS
  <2>1. i \in Nat /\ i <= n /\ i + 1 \in 1 .. n /\ (i + 1) - 1 = i
    BY <1>1
  <2>2. f[i + 1] = SinkOnce(f[i], node, tm) /\ f[i] = h
    BY <1>2, <2>1
  <2> QED
    BY <1>3, <2>2
<1>6. G = Nat
  <2>1. G \subseteq Nat
    OBVIOUS
  <2> HIDE DEF G
  <2> QED
    BY <1>4, <1>5, <2>1, Induction
<1> QED
  BY <1>1, <1>2, <1>6

(* after i turns: node went down i places, or is where it belongs *)
Sinking(g, i, a, n, node, tm) ==
  \E b, k : /\ Shape(g, b) /\ g.nelts = n
            /\ Same(b, a, n)
            /\ MaySink(b, n, tm, k) /\ b[k] = node
            /\ Ordered(b, n, tm) \/ k > i

LEMMA SinkingStep ==
  ASSUME NEW tm \in [Timers -> Nat], NEW n, NEW a, NEW node \in Timers, NEW i \in Nat, NEW g,
         Sinking(g, i, a, n, node, tm)
  PROVE  Sinking(SinkOnce(g, node, tm), i + 1, a, n, node, tm)
<1>1. PICK b, k : /\ Shape(g, b) /\ g.nelts = n
                  /\ Same(b, a, n)
                  /\ MaySink(b, n, tm, k) /\ b[k] = node
                  /\ Ordered(b, n, tm) \/ k > i
  BY DEF Sinking
<1> DEFINE s == Smallest(g, node, tm)
<1>2. /\ k \in 1 .. n /\ n \in Nat /\ Places(b, n)
      /\ \A x \in 1 .. n : b[x] \in Timers /\ tm[b[x]] \in Nat
      /\ \A j, x \in 1 .. n : b[j] = b[x] => j = x
  BY <1>1, ShapeIs DEF MaySink
<1>3. First(b, n, tm, k, s)
  BY <1>1, <1>2, SmallestIsFirst
<1>4. CASE s = b[k] /\ \A c \in 1 .. n : Below(k, c) => tm[b[k]] <= tm[b[c]]
  <2>1. SinkOnce(g, node, tm) = g
    BY <1>1, <1>4 DEF SinkOnce
  <2>2. Ordered(b, n, tm)
    BY <1>1, <1>4 DEF MaySink, Ordered
  <2> QED
    BY <1>1, <2>1, <2>2 DEF Sinking
<1>5. ASSUME NEW c \in 1 .. n, Below(k, c), s = b[c], tm[b[c]] < tm[b[k]],
             \A x \in 1 .. n : Below(k, x) => tm[b[c]] <= tm[b[x]]
      PROVE  Sinking(SinkOnce(g, node, tm), i + 1, a, n, node, tm)
  <2> DEFINE d == Exchanged(b, k, c)
  <2>1. k < c /\ k # c /\ b[c] # b[k]
    BY <1>2, <1>5 DEF Below
  <2>2. SinkOnce(g, node, tm) = Swap(g, b[k], b[c])
    BY <1>1, <1>5, <2>1 DEF SinkOnce
  <2>3. Shape(Swap(g, b[k], b[c]), d) /\ Swap(g, b[k], b[c]).nelts = n
    BY <1>1, <1>2, <1>5, SwapShape
  <2>4. MaySink(d, n, tm, c)
    BY <1>1, <1>2, <1>5, Sink
  <2>5. d[c] = node
    BY <1>1, <1>2, <2>1, ExchangedPlaces
  <2>6. Same(d, b, n)
    BY <1>2, <2>1, ExchangedPlaces
  <2>7. Same(d, a, n)
    BY <1>1, <2>6, SameSame
  <2>8. c > i + 1
    <3>1. ~Ordered(b, n, tm)
      <4>1. tm[b[k]] \in Nat /\ tm[b[c]] \in Nat
        BY <1>2
      <4> QED
        BY <1>2, <1>5, <4>1 DEF Ordered
    <3> QED
      BY <1>1, <1>2, <2>1, <3>1
  <2> QED
    BY <2>2, <2>3, <2>4, <2>5, <2>7, <2>8 DEF Sinking
<1> QED
  BY <1>3, <1>4, <1>5 DEF First

LEMMA SiftDownSettles ==
  ASSUME NEW tm \in [Timers -> Nat], NEW h, NEW a, Shape(h, a), NEW m, MaySink(a, h.nelts, tm, m)
  PROVE  \E b, k : /\ Shape(SiftDown(h, a[m], tm), b) /\ SiftDown(h, a[m], tm).nelts = h.nelts
                   /\ Same(b, a, h.nelts) /\ Ordered(b, h.nelts, tm)
                   /\ k \in 1 .. h.nelts /\ b[k] = a[m]
<1> DEFINE n == h.nelts
           node == a[m]
<1>1. h \in Heaps /\ n \in Nat /\ m \in 1 .. n /\ node \in Timers
  BY ShapeIs DEF MaySink
<1>2. PICK f : /\ SiftDown(h, node, tm) = f[n] /\ f[0] = h
               /\ \A i \in 1 .. n : f[i] = SinkOnce(f[i - 1], node, tm)
  <2> HIDE DEF node
  <2> QED
    BY <1>1, SinksExist
<1> DEFINE G == {i \in Nat : i <= n => Sinking(f[i], i, a, n, node, tm)}
<1>3. 0 \in G
  <2>1. Same(a, a, n) /\ m > 0
    BY <1>1 DEF Same
  <2>2. Sinking(h, 0, a, n, node, tm)
    BY <2>1 DEF Sinking
  <2> QED
    BY <1>2, <2>2
<1>4. ASSUME NEW i \in G PROVE i + 1 \in G
  <2> SUFFICES ASSUME i + 1 <= n PROVE Sinking(f[i + 1], i + 1, a, n, node, tm)
    OBVIOUS
  <2>1. i \in Nat /\ i <= n /\ i + 1 \in 1 .. n /\ (i + 1) - 1 = i
    BY <1>1
  <2>2. Sinking(f[i], i, a, n, node, tm)
    BY <2>1
  <2>3. f[i + 1] = SinkOnce(f[i], node, tm)
    BY <1>2, <2>1
  <2> HIDE DEF node, G
  <2>4. Sinking(SinkOnce(f[i], node, tm), i + 1, a, n, node, tm)
    BY <1>1, <2>1, <2>2, SinkingStep
  <2> QED
    BY <2>3, <2>4
<1>5. G = Nat
  <2>1. G \subseteq Nat
    OBVIOUS
  <2> HIDE DEF G
  <2> QED
    BY <1>3, <1>4, <2>1, Induction
<1>6. Sinking(f[n], n, a, n, node, tm)
  BY <1>1, <1>5
<1>7. PICK b, k : /\ Shape(f[n], b) /\ f[n].nelts = n
                  /\ Same(b, a, n)
                  /\ MaySink(b, n, tm, k) /\ b[k] = node
                  /\ Ordered(b, n, tm) \/ k > n
  BY <1>6 DEF Sinking
<1>8. k \in 1 .. n
  BY <1>7 DEF MaySink
<1>9. Ordered(b, n, tm)
  BY <1>1, <1>7, <1>8
<1> QED
  BY <1>2, <1>7, <1>8, <1>9

(* an ordered tree is one in which no node has to go up *)
LEMMA OrderedMayRise ==
  ASSUME NEW tm \in [Timers -> Nat], NEW n, NEW b, Places(b, n), Ordered(b, n, tm), NEW k \in 1 .. n
  PROVE  MayRise(b, n, tm, k)
<1>1. \A x \in 1 .. n : tm[b[x]] \in Nat
  BY DEF Places
<1>2. Spans(b, n, tm, k)
  BY <1>1 DEF Ordered, Spans
<1> QED
  BY <1>2 DEF Ordered, MayRise

(* wherever the node may have to go, the two loops put it there *)
LEMMA SettleSettles ==
  ASSUME NEW tm \in [Timers -> Nat], NEW h, NEW a, Shape(h, a), NEW m,
         MayRise(a, h.nelts, tm, m) \/ MaySink(a, h.nelts, tm, m)
  PROVE  Settled(Settle(h, a[m], tm), h, a, tm)
<1> DEFINE n == h.nelts
           g == SiftDown(h, a[m], tm)
<1>1. CASE MayRise(a, n, tm, m)
  <2>1. Settle(h, a[m], tm) = SiftUp(h, a[m], tm)
    BY <1>1, SiftDownStays DEF Settle
  <2>2. Settled(SiftUp(h, a[m], tm), h, a, tm)
    BY <1>1, SiftUpSettles
  <2> QED
    BY <2>1, <2>2
<1>2. CASE MaySink(a, n, tm, m)
  <2>1. PICK b, k : /\ Shape(g, b) /\ g.nelts = n
                    /\ Same(b, a, n) /\ Ordered(b, n, tm)
                    /\ k \in 1 .. n /\ b[k] = a[m]
    BY <1>2, SiftDownSettles
  <2> HIDE DEF g
  <2>2. MayRise(b, g.nelts, tm, k)
    BY <2>1, ShapeIs, OrderedMayRise
  <2>3. Settled(SiftUp(g, b[k], tm), g, b, tm)
    BY <2>1, <2>2, SiftUpSettles
  <2>4. PICK c : /\ Shape(SiftUp(g, b[k], tm), c) /\ SiftUp(g, b[k], tm).nelts = g.nelts
                 /\ Same(c, b, g.nelts) /\ Ordered(c, g.nelts, tm)
    BY <2>3 DEF Settled
  <2>5. Same(c, a, n)
    BY <2>1, <2>4, SameSame
  <2>6. Settle(h, a[m], tm) = SiftUp(g, b[k], tm)
    BY <2>1 DEF Settle, g
  <2> QED
    BY <2>1, <2>4, <2>5, <2>6 DEF Settled
<1> QED
  BY <1>1, <1>2

-----------------------------------------------------------------------------
(* heap_insert *)

(* a node behind the last one *)
Grown(a, n, node) == [i \in 1 .. n + 1 |-> IF i = n + 1 THEN node ELSE a[i]]

(* the times of all but one *)
AgreeBut(tm, tm0, node) == \A t \in Timers : t # node => tm[t] = tm0[t]

(* node is at no place *)
Absent(a, n, node) == \A i \in 1 .. n : a[i] # node

(* with one node more the places, the pointers down and up, and the order *)
LEMMA GrownIs ==
  ASSUME NEW n, NEW a, Places(a, n), NEW node \in Timers, Absent(a, n, node)
  PROVE  /\ Places(Grown(a, n, node), n + 1)
         /\ Grown(a, n, node)[n + 1] = node
         /\ \A i \in 1 .. n : Grown(a, n, node)[i] = a[i]
<1> DEFINE b == Grown(a, n, node)
<1>1. n \in Nat /\ a \in [1 .. n -> Timers] /\ \A i, k \in 1 .. n : a[i] = a[k] => i = k
  BY DEF Places
<1>2. \A i \in 1 .. n + 1 : i # n + 1 => i \in 1 .. n
  BY <1>1
<1>3. b[n + 1] = node /\ \A i \in 1 .. n : b[i] = a[i]
  BY <1>1 DEF Grown
<1>4. b \in [1 .. n + 1 -> Timers]
  BY <1>1, <1>2 DEF Grown
<1> HIDE DEF b
<1>5. \A i, k \in 1 .. n + 1 : b[i] = b[k] => i = k
  BY <1>1, <1>2, <1>3 DEF Absent
<1> QED
  BY <1>1, <1>3, <1>4, <1>5 DEF Places, b

LEMMA GrownDown ==
  ASSUME NEW n, NEW a, Places(a, n), NEW node \in Timers, Absent(a, n, node),
         NEW left, NEW right, Downward(left, right, a, n),
         NEW l, NEW r, l[node] = NULL, r[node] = NULL,
         \A i \in 1 .. n : /\ l[a[i]] = IF n + 1 = 2 * i THEN node ELSE left[a[i]]
                           /\ r[a[i]] = IF n + 1 = 2 * i + 1 THEN node ELSE right[a[i]]
  PROVE  Downward(l, r, Grown(a, n, node), n + 1)
<1> DEFINE b == Grown(a, n, node)
           m == n + 1
<1>1. n \in Nat /\ m \in Nat /\ m \in 1 .. m /\ n < m
  BY DEF Places
<1>2. b[m] = node /\ \A i \in 1 .. n : b[i] = a[i]
  BY GrownIs
<1>3. \A i \in 1 .. n : /\ l[a[i]] = IF m = 2 * i THEN node ELSE left[a[i]]
                        /\ r[a[i]] = IF m = 2 * i + 1 THEN node ELSE right[a[i]]
  OBVIOUS
<1>4. \A i \in 1 .. m : i # m => i \in 1 .. n
  BY <1>1
<1>5. \A i \in 1 .. n : i \in 1 .. m /\ i # m
  BY <1>1
<1> HIDE DEF b, m
<1>6. Node(b, m, m) = node /\ \A k \in Nat : k # m => Node(b, m, k) = Node(a, n, k)
  BY <1>1, <1>2, <1>4, <1>5 DEF Node
<1>7. ASSUME NEW i \in 1 .. m PROVE l[b[i]] = Node(b, m, 2 * i) /\ r[b[i]] = Node(b, m, 2 * i + 1)
  <2>1. 2 * i \in Nat /\ 2 * i + 1 \in Nat
    BY <1>1
  <2>2. CASE i = m
    <3>1. ~(2 * m \in 1 .. m) /\ ~(2 * m + 1 \in 1 .. m)
      BY <1>1
    <3> QED
      BY <1>2, <2>2, <3>1 DEF Node
  <2>3. CASE i # m
    <3>1. i \in 1 .. n /\ b[i] = a[i]
      BY <1>2, <1>4, <2>3
    <3>2. left[a[i]] = Node(a, n, 2 * i) /\ right[a[i]] = Node(a, n, 2 * i + 1)
      BY <3>1 DEF Downward
    <3> QED
      BY <1>3, <1>6, <2>1, <3>1, <3>2
  <2> QED
    BY <2>2, <2>3
<1> QED
  BY <1>7 DEF Downward, b, m

LEMMA GrownUp ==
  ASSUME NEW n, NEW a, Places(a, n), NEW node \in Timers, Absent(a, n, node),
         NEW parent, Upward(parent, a, n),
         NEW u, u[node] = IF n = 0 THEN NULL ELSE a[(n + 1) \div 2],
         \A i \in 1 .. n : u[a[i]] = parent[a[i]]
  PROVE  Upward(u, Grown(a, n, node), n + 1)
<1> DEFINE b == Grown(a, n, node)
           m == n + 1
<1>1. n \in Nat /\ m \in Nat /\ m \in 1 .. m /\ n < m
  BY DEF Places
<1>2. b[m] = node /\ \A i \in 1 .. n : b[i] = a[i]
  BY GrownIs
<1>3. \A i \in 1 .. m : i # m => i \in 1 .. n
  BY <1>1
<1>4. u[node] = IF n = 0 THEN NULL ELSE a[m \div 2]
  OBVIOUS
<1>5. u[b[1]] = NULL
  <2>1. CASE n = 0
    <3>1. m = 1
      BY <2>1
    <3> QED
      BY <1>2, <1>4, <2>1, <3>1
  <2>2. CASE n # 0
    <3>1. 1 \in 1 .. n /\ n >= 1
      BY <1>1, <2>2
    <3> QED
      BY <1>2, <3>1 DEF Upward
  <2> QED
    BY <2>1, <2>2
<1> HIDE DEF b, m
<1>6. ASSUME NEW j \in 1 .. m, NEW k \in 1 .. m, Below(j, k) PROVE u[b[k]] = b[j]
  <2>1. j # m /\ j \in 1 .. n
    BY <1>1, <1>3, <1>6 DEF Below
  <2>2. CASE k = m
    <3>1. m \div 2 = j
      BY <1>1, <1>6, <2>2, BelowIsHalf
    <3>2. n # 0
      BY <1>1, <2>1
    <3> QED
      BY <1>2, <1>4, <2>1, <2>2, <3>1, <3>2
  <2>3. CASE k # m
    <3>1. k \in 1 .. n
      BY <1>3, <2>3
    <3> QED
      BY <1>2, <1>6, <2>1, <3>1 DEF Upward
  <2> QED
    BY <2>2, <2>3
<1> QED
  BY <1>5, <1>6 DEF Upward, b, m

LEMMA GrownOrder ==
  ASSUME NEW n, NEW a, Places(a, n), NEW node \in Timers, Absent(a, n, node),
         NEW tm0, Ordered(a, n, tm0), NEW tm, AgreeBut(tm, tm0, node)
  PROVE  MayRise(Grown(a, n, node), n + 1, tm, n + 1)
<1> DEFINE b == Grown(a, n, node)
           m == n + 1
<1>1. n \in Nat /\ m \in Nat /\ m \in 1 .. m /\ n < m
  BY DEF Places
<1>2. b[m] = node /\ \A i \in 1 .. n : b[i] = a[i]
  BY GrownIs
<1>3. \A i \in 1 .. m : i # m => i \in 1 .. n
  BY <1>1
<1>4. \A i \in 1 .. n : tm[a[i]] = tm0[a[i]]
  BY DEF Places, Absent, AgreeBut
<1> HIDE DEF b, m
<1>5. ASSUME NEW j \in 1 .. m, NEW k \in 1 .. m, Below(j, k), k # m PROVE tm[b[j]] <= tm[b[k]]
  <2>1. j \in 1 .. n /\ k \in 1 .. n
    BY <1>1, <1>3, <1>5 DEF Below
  <2>2. tm0[a[j]] <= tm0[a[k]]
    BY <1>5, <2>1 DEF Ordered
  <2> QED
    BY <1>2, <1>4, <2>1, <2>2
<1>6. \A k \in 1 .. m : ~Below(m, k)
  BY <1>1 DEF Below
<1> QED
  BY <1>1, <1>5, <1>6 DEF MayRise, Spans, b, m

(* pointers of a node that is not in the tree do not matter *)
LEMMA ClearShape ==
  ASSUME NEW h, NEW a, Shape(h, a), NEW node \in Timers, Absent(a, h.nelts, node)
  PROVE  Shape(Clear(h, node), a) /\ Clear(h, node).nelts = h.nelts
<1> DEFINE g == Clear(h, node)
           n == h.nelts
<1>1. /\ h \in Heaps /\ h.min \in Nodes /\ h.nelts \in Nat /\ h.left \in [Timers -> Nodes]
      /\ h.right \in [Timers -> Nodes] /\ h.parent \in [Timers -> Nodes]
  BY DEF Shape, Heaps
<1>2. /\ g \in Heaps /\ g.nelts = n /\ g.min = h.min
      /\ g.left[node] = NULL /\ g.right[node] = NULL /\ g.parent[node] = NULL
      /\ \A t \in Timers : t # node =>
           g.left[t] = h.left[t] /\ g.right[t] = h.right[t] /\ g.parent[t] = h.parent[t]
  BY <1>1 DEF Clear, Heaps, Nodes
<1> HIDE DEF g
<1>3. \A i \in 1 .. n : a[i] \in Timers /\ a[i] # node
  BY ShapeIs DEF Absent
<1>4. /\ Places(a, n) /\ h.min = Node(a, n, 1) /\ Downward(h.left, h.right, a, n)
      /\ Upward(h.parent, a, n)
  BY DEF Shape
<1>5. Downward(g.left, g.right, a, n)
  BY <1>2, <1>3, <1>4 DEF Downward
<1>6. Upward(g.parent, a, n)
  <2>1. n >= 1 => 1 \in 1 .. n
    BY <1>1
  <2> QED
    BY <1>2, <1>3, <1>4, <2>1 DEF Upward
<1> QED
  BY <1>2, <1>4, <1>5, <1>6 DEF Shape, g

(* the pointer to place k is set to node; q is the node above *)
LEMMA LinkIs ==
  ASSUME NEW h, NEW a, Shape(h, a), NEW k \in Nat, k >= 1, k <= h.nelts + 1, NEW node \in Nodes
  PROVE  /\ Link(h, k, node) \in Heaps
         /\ Link(h, k, node).nelts = h.nelts /\ Link(h, k, node).parent = h.parent
         /\ Link(h, k, node).min = IF k = 1 THEN node ELSE h.min
         /\ \A t \in Timers : Absent(a, h.nelts, t) =>
              Link(h, k, node).left[t] = h.left[t] /\ Link(h, k, node).right[t] = h.right[t]
         /\ \A i \in 1 .. h.nelts :
              /\ Link(h, k, node).left[a[i]] = IF k = 2 * i THEN node ELSE h.left[a[i]]
              /\ Link(h, k, node).right[a[i]] = IF k = 2 * i + 1 THEN node ELSE h.right[a[i]]
<1> DEFINE n == h.nelts
           g == Link(h, k, node)
<1>1. /\ h \in Heaps /\ h.min \in Nodes /\ n \in Nat /\ h.left \in [Timers -> Nodes]
      /\ h.right \in [Timers -> Nodes] /\ h.parent \in [Timers -> Nodes]
  BY DEF Shape, Heaps
<1>2. \A i, j \in 1 .. n : a[i] \in Timers /\ (a[i] = a[j] => i = j)
  BY ShapeIs
<1>3. CASE k = 1
  <2>1. g = [h EXCEPT !.min = node]
    BY <1>3 DEF Link
  <2>2. \A i \in 1 .. n : k # 2 * i /\ k # 2 * i + 1
    BY <1>3
  <2> QED
    BY <1>1, <1>3, <2>1, <2>2 DEF Heaps
<1>4. CASE k # 1
  <2> DEFINE j == k \div 2
             q == NodeAt(h, j)
  <2>1. /\ j \in Nat /\ j >= 1 /\ j < k
        /\ (k % 2 = 1 <=> k = 2 * j + 1) /\ (k % 2 # 1 <=> k = 2 * j)
    BY <1>4, Half
  <2>2. j \in 1 .. n
    BY <1>1, <2>1
  <2>3. q = a[j]
    BY <2>1, <2>2, NodeAtIs DEF Node
  <2>4. q \in Timers
    BY <1>2, <2>2, <2>3
  <2>5. \A i \in 1 .. n : (k = 2 * i => i = j) /\ (k = 2 * i + 1 => i = j)
    BY <2>1
  <2>6. \A i \in 1 .. n : a[i] = q <=> i = j
    BY <1>2, <2>2, <2>3
  <2>7. \A t \in Timers : Absent(a, n, t) => t # q
    BY <2>2, <2>3 DEF Absent
  <2>8. CASE k % 2 = 1
    <3>1. g = [h EXCEPT !.right[q] = node]
      BY <1>4, <2>8 DEF Link
    <3> HIDE DEF q, j, g
    <3>2. /\ g \in Heaps /\ g.nelts = n /\ g.parent = h.parent /\ g.min = h.min
          /\ g.left = h.left
          /\ \A t \in Timers : g.right[t] = IF t = q THEN node ELSE h.right[t]
      BY <1>1, <2>4, <3>1 DEF Heaps
    <3>3. k = 2 * j + 1 /\ \A i \in 1 .. n : k # 2 * i
      BY <2>1, <2>8
    <3>4. \A i \in 1 .. n : /\ g.left[a[i]] = IF k = 2 * i THEN node ELSE h.left[a[i]]
                            /\ g.right[a[i]] = IF k = 2 * i + 1 THEN node ELSE h.right[a[i]]
      BY <1>2, <2>5, <2>6, <3>2, <3>3
    <3>5. \A t \in Timers : Absent(a, n, t) => g.left[t] = h.left[t] /\ g.right[t] = h.right[t]
      BY <2>7, <3>2
    <3> QED
      BY <1>4, <3>2, <3>4, <3>5 DEF g
  <2>9. CASE k % 2 # 1
    <3>1. g = [h EXCEPT !.left[q] = node]
      BY <1>4, <2>9 DEF Link
    <3> HIDE DEF q, j, g
    <3>2. /\ g \in Heaps /\ g.nelts = n /\ g.parent = h.parent /\ g.min = h.min
          /\ g.right = h.right
          /\ \A t \in Timers : g.left[t] = IF t = q THEN node ELSE h.left[t]
      BY <1>1, <2>4, <3>1 DEF Heaps
    <3>3. k = 2 * j /\ \A i \in 1 .. n : k # 2 * i + 1
      BY <2>1, <2>9
    <3>4. \A i \in 1 .. n : /\ g.left[a[i]] = IF k = 2 * i THEN node ELSE h.left[a[i]]
                            /\ g.right[a[i]] = IF k = 2 * i + 1 THEN node ELSE h.right[a[i]]
      BY <1>2, <2>5, <2>6, <3>2, <3>3
    <3>5. \A t \in Timers : Absent(a, n, t) => g.left[t] = h.left[t] /\ g.right[t] = h.right[t]
      BY <2>7, <3>2
    <3> QED
      BY <1>4, <3>2, <3>4, <3>5 DEF g
  <2> QED
    BY <2>8, <2>9
<1> QED
  BY <1>3, <1>4

(* h is a heap, ordered by tm, of the nodes in S *)
HeapOf(h, tm, S) ==
  \E a : /\ Shape(h, a) /\ Ordered(a, h.nelts, tm)
         /\ \A t \in Timers : (\E k \in 1 .. h.nelts : a[k] = t) <=> t \in S

(* the node linked in at the end of the tree *)
Linked(h, node) ==
  [Link(Clear(h, node), h.nelts + 1, node) EXCEPT
     !.parent[node] = IF h.nelts + 1 = 1 THEN NULL
                      ELSE NodeAt(Clear(h, node), (h.nelts + 1) \div 2),
     !.nelts = h.nelts + 1]

LEMMA InsertIsSift ==
  ASSUME NEW h, NEW node, NEW tm
  PROVE  HeapInsert(h, node, tm) = SiftUp(Linked(h, node), node, tm)
BY DEF HeapInsert, Linked

(* the new node is at the end of the tree *)
LEMMA LinkedShape ==
  ASSUME NEW h, NEW a, Shape(h, a), NEW node \in Timers, Absent(a, h.nelts, node)
  PROVE  Shape(Linked(h, node), Grown(a, h.nelts, node)) /\ Linked(h, node).nelts = h.nelts + 1
<1> DEFINE n == h.nelts
           k == n + 1
           c == Clear(h, node)
           d == Link(c, k, node)
           q == IF k = 1 THEN NULL ELSE NodeAt(c, k \div 2)
           g == Linked(h, node)
           b == Grown(a, n, node)
<1>1. Shape(c, a) /\ c.nelts = n
  BY ClearShape
<1>2. /\ c.left[node] = NULL /\ c.right[node] = NULL
  BY DEF Clear, Shape, Heaps
<1>3. g = [d EXCEPT !.parent[node] = q, !.nelts = k]
  BY DEF Linked
<1> HIDE DEF c, g
<1>4. /\ c \in Heaps /\ Places(a, n) /\ n \in Nat /\ c.min = Node(a, n, 1)
      /\ Downward(c.left, c.right, a, n) /\ Upward(c.parent, a, n)
      /\ \A i \in 1 .. n : a[i] \in Timers /\ a[i] # node
  BY <1>1, ShapeIs DEF Shape, Absent
<1>5. k \in Nat /\ k >= 1 /\ k <= c.nelts + 1 /\ node \in Nodes
  BY <1>1, <1>4 DEF Nodes
<1>6. /\ d \in Heaps /\ d.nelts = n /\ d.parent = c.parent
      /\ d.min = IF k = 1 THEN node ELSE c.min
      /\ d.left[node] = NULL /\ d.right[node] = NULL
      /\ \A i \in 1 .. n : /\ d.left[a[i]] = IF k = 2 * i THEN node ELSE c.left[a[i]]
                           /\ d.right[a[i]] = IF k = 2 * i + 1 THEN node ELSE c.right[a[i]]
  <2> HIDE DEF k
  <2>1. /\ d \in Heaps /\ d.nelts = c.nelts /\ d.parent = c.parent
        /\ d.min = IF k = 1 THEN node ELSE c.min
        /\ \A t \in Timers : Absent(a, c.nelts, t) =>
             d.left[t] = c.left[t] /\ d.right[t] = c.right[t]
        /\ \A i \in 1 .. c.nelts :
             /\ d.left[a[i]] = IF k = 2 * i THEN node ELSE c.left[a[i]]
             /\ d.right[a[i]] = IF k = 2 * i + 1 THEN node ELSE c.right[a[i]]
    BY <1>1, <1>5, LinkIs
  <2> QED
    BY <1>1, <1>2, <2>1
<1> HIDE DEF d
<1>7. q = (IF n = 0 THEN NULL ELSE a[k \div 2]) /\ q \in Nodes
  <2>1. CASE n = 0
    BY <2>1 DEF Nodes
  <2>2. CASE n # 0
    <3>1. k > 1 /\ k \in Nat /\ k # 1
      BY <1>4, <2>2
    <3> DEFINE j == k \div 2
    <3>2. j \in Nat /\ j >= 1 /\ j < k
      BY <3>1, Half
    <3>3. j \in 1 .. n
      BY <1>4, <3>2
    <3> HIDE DEF j
    <3>4. NodeAt(c, j) = a[j]
      BY <1>1, <3>2, <3>3, NodeAtIs DEF Node
    <3> QED
      BY <1>4, <2>2, <3>1, <3>3, <3>4 DEF Nodes, j
  <2> QED
    BY <2>1, <2>2
<1> HIDE DEF q
<1>8. /\ g \in Heaps /\ g.nelts = k /\ g.min = d.min /\ g.left = d.left /\ g.right = d.right
      /\ g.parent[node] = q /\ \A i \in 1 .. n : g.parent[a[i]] = c.parent[a[i]]
  <2> HIDE DEF k
  <2> QED
    BY <1>3, <1>4, <1>5, <1>6, <1>7 DEF Heaps
<1>9. Places(b, k)
  BY <1>4, GrownIs
<1>10. Downward(g.left, g.right, b, k)
  <2> DEFINE l == g.left
             r == g.right
             left == c.left
             right == c.right
  <2>1. /\ l[node] = NULL /\ r[node] = NULL
        /\ \A i \in 1 .. n : /\ l[a[i]] = IF n + 1 = 2 * i THEN node ELSE left[a[i]]
                             /\ r[a[i]] = IF n + 1 = 2 * i + 1 THEN node ELSE right[a[i]]
    BY <1>6, <1>8
  <2>2. Downward(left, right, a, n)
    BY <1>4
  <2> HIDE DEF l, r, left, right
  <2>3. Downward(l, r, Grown(a, n, node), n + 1)
    BY <1>4, <2>1, <2>2, GrownDown
  <2> QED
    BY <2>3 DEF l, r
<1>11. Upward(g.parent, b, k)
  <2> DEFINE u == g.parent
             parent == c.parent
  <2>1. u[node] = (IF n = 0 THEN NULL ELSE a[(n + 1) \div 2]) /\ \A i \in 1 .. n : u[a[i]] = parent[a[i]]
    BY <1>7, <1>8
  <2>2. Upward(parent, a, n)
    BY <1>4
  <2> HIDE DEF u, parent
  <2>3. Upward(u, Grown(a, n, node), n + 1)
    BY <1>4, <2>1, <2>2, GrownUp
  <2> QED
    BY <2>3 DEF u
<1>12. g.min = Node(b, k, 1)
  <2>1. b[k] = node /\ \A i \in 1 .. n : b[i] = a[i]
    BY <1>4, GrownIs
  <2>2. CASE n = 0
    <3>1. k = 1
      BY <2>2
    <3> QED
      BY <1>6, <1>8, <2>1, <3>1 DEF Node
  <2>3. CASE n # 0
    <3>1. 1 \in 1 .. n /\ 1 \in 1 .. k /\ k # 1
      BY <1>4, <2>3
    <3> QED
      BY <1>4, <1>6, <1>8, <2>1, <3>1 DEF Node
  <2> QED
    BY <2>2, <2>3
<1> QED
  BY <1>8, <1>9, <1>10, <1>11, <1>12 DEF Shape, g

(* heap_insert adds the node, and nothing else *)
LEMMA InsertIs ==
  ASSUME NEW h, NEW tm0, NEW S, HeapOf(h, tm0, S), NEW node \in Timers, node \notin S,
         NEW tm \in [Timers -> Nat], AgreeBut(tm, tm0, node)
  PROVE  HeapOf(HeapInsert(h, node, tm), tm, S \cup {node})
<1> DEFINE n == h.nelts
           g == Linked(h, node)
<1>1. PICK a : /\ Shape(h, a) /\ Ordered(a, n, tm0)
               /\ \A t \in Timers : (\E k \in 1 .. n : a[k] = t) <=> t \in S
  BY DEF HeapOf
<1>2. Absent(a, n, node)
  BY <1>1 DEF Absent
<1> DEFINE b == Grown(a, n, node)
           k == n + 1
<1>3. Shape(g, b) /\ g.nelts = k
  BY <1>1, <1>2, LinkedShape
<1>4. Places(a, n) /\ n \in Nat
  BY <1>1, ShapeIs
<1>5. MayRise(b, k, tm, k)
  BY <1>1, <1>2, <1>4, GrownOrder
<1>6. b[k] = node /\ \A i \in 1 .. n : b[i] = a[i]
  BY <1>2, <1>4, GrownIs
<1> HIDE DEF g, b
<1>7. HeapInsert(h, node, tm) = SiftUp(g, b[k], tm)
  BY <1>6, InsertIsSift DEF g
<1>8. MayRise(b, g.nelts, tm, k)
  BY <1>3, <1>5
<1> HIDE DEF k
<1>9. Settled(SiftUp(g, b[k], tm), g, b, tm)
  BY <1>3, <1>8, SiftUpSettles
<1>10. PICK c : /\ Shape(SiftUp(g, b[k], tm), c) /\ SiftUp(g, b[k], tm).nelts = k
                /\ Same(c, b, k) /\ Ordered(c, k, tm)
  BY <1>3, <1>9 DEF Settled
<1>11. ASSUME NEW t \in Timers
       PROVE  (\E i \in 1 .. k : c[i] = t) <=> t \in S \cup {node}
  <2>1. (\E i \in 1 .. k : c[i] = t) <=> (\E i \in 1 .. k : b[i] = t)
    BY <1>10 DEF Same
  <2>2. k \in 1 .. k /\ \A i \in 1 .. k : i = k \/ i \in 1 .. n
    BY <1>4 DEF k
  <2>3. \A i \in 1 .. n : i \in 1 .. k
    BY <1>4 DEF k
  <2>4. (\E i \in 1 .. k : b[i] = t) <=> t = node \/ (\E i \in 1 .. n : a[i] = t)
    BY <1>6, <2>2, <2>3
  <2> QED
    BY <1>1, <2>1, <2>4
<1> QED
  BY <1>7, <1>10, <1>11 DEF HeapOf

-----------------------------------------------------------------------------
(* heap_remove *)

(* without the last node *)
Shrunk(a, n) == [i \in 1 .. n - 1 |-> a[i]]

(* the last node is unlinked *)
Cut(h) == [Link(h, h.nelts, NULL) EXCEPT !.nelts = h.nelts - 1]

(* what is left is the tree without its last place *)
LEMMA CutShape ==
  ASSUME NEW h, NEW a, Shape(h, a), h.nelts >= 1
  PROVE  /\ Shape(Cut(h), Shrunk(a, h.nelts)) /\ Cut(h).nelts = h.nelts - 1
         /\ h.nelts - 1 \in Nat
         /\ \A i \in 1 .. h.nelts - 1 : i \in 1 .. h.nelts /\ Shrunk(a, h.nelts)[i] = a[i]
         /\ Absent(Shrunk(a, h.nelts), h.nelts - 1, a[h.nelts])
<1> DEFINE n == h.nelts
           m == n - 1
           d == Link(h, n, NULL)
           g == Cut(h)
           b == Shrunk(a, n)
<1>1. /\ h \in Heaps /\ n \in Nat /\ h.min = Node(a, n, 1) /\ a \in [1 .. n -> Timers]
      /\ \A i, j \in 1 .. n : a[i] \in Timers /\ (a[i] = a[j] => i = j)
      /\ Downward(h.left, h.right, a, n) /\ Upward(h.parent, a, n)
  BY ShapeIs DEF Shape, Places
<1>2. n >= 1 /\ n <= h.nelts + 1 /\ NULL \in Nodes
  BY <1>1 DEF Nodes
<1>3. /\ d \in Heaps /\ d.nelts = n /\ d.parent = h.parent
      /\ d.min = IF n = 1 THEN NULL ELSE h.min
      /\ \A i \in 1 .. n : /\ d.left[a[i]] = IF n = 2 * i THEN NULL ELSE h.left[a[i]]
                           /\ d.right[a[i]] = IF n = 2 * i + 1 THEN NULL ELSE h.right[a[i]]
  <2> DEFINE k == n
             node == NULL
  <2>1. k \in Nat /\ k >= 1 /\ k <= h.nelts + 1 /\ node \in Nodes
    BY <1>1, <1>2
  <2> HIDE DEF k, node
  <2>2. /\ Link(h, k, node) \in Heaps
        /\ Link(h, k, node).nelts = h.nelts /\ Link(h, k, node).parent = h.parent
        /\ Link(h, k, node).min = IF k = 1 THEN node ELSE h.min
        /\ \A t \in Timers : Absent(a, h.nelts, t) =>
             Link(h, k, node).left[t] = h.left[t] /\ Link(h, k, node).right[t] = h.right[t]
        /\ \A i \in 1 .. h.nelts :
             /\ Link(h, k, node).left[a[i]] = IF k = 2 * i THEN node ELSE h.left[a[i]]
             /\ Link(h, k, node).right[a[i]] = IF k = 2 * i + 1 THEN node ELSE h.right[a[i]]
    BY <2>1, LinkIs
  <2> QED
    BY <2>2 DEF k, node
<1>4. g = [d EXCEPT !.nelts = m]
  BY DEF Cut
<1>5. m \in Nat /\ m = n - 1 /\ \A i \in 1 .. m : i \in 1 .. n /\ i # n
  BY <1>1
<1>6. \A i \in 1 .. m : b[i] = a[i]
  BY <1>5 DEF Shrunk
<1>7. b \in [1 .. m -> Timers]
  BY <1>1, <1>5 DEF Shrunk
<1> HIDE DEF d, g, b
<1>8. /\ g \in Heaps /\ g.nelts = m /\ g.min = d.min /\ g.left = d.left /\ g.right = d.right
      /\ g.parent = h.parent
  BY <1>3, <1>4, <1>5 DEF Heaps
<1>9. Places(b, m)
  BY <1>1, <1>5, <1>6, <1>7 DEF Places
<1>10. Absent(b, m, a[n])
  <2>1. n \in 1 .. n
    BY <1>1
  <2> QED
    BY <1>1, <1>5, <1>6, <2>1 DEF Absent
<1>11. ASSUME NEW k \in Nat PROVE Node(b, m, k) = IF k = n THEN NULL ELSE Node(a, n, k)
  <2>1. k \in 1 .. m <=> k \in 1 .. n /\ k # n
    BY <1>1, <1>5
  <2> QED
    BY <1>6, <2>1 DEF Node
<1>12. Downward(g.left, g.right, b, m)
  <2> SUFFICES ASSUME NEW i \in 1 .. m
               PROVE  g.left[b[i]] = Node(b, m, 2 * i) /\ g.right[b[i]] = Node(b, m, 2 * i + 1)
    BY DEF Downward
  <2>1. 2 * i \in Nat /\ 2 * i + 1 \in Nat /\ i \in 1 .. n /\ b[i] = a[i]
    BY <1>5, <1>6
  <2>2. h.left[a[i]] = Node(a, n, 2 * i) /\ h.right[a[i]] = Node(a, n, 2 * i + 1)
    BY <1>1, <2>1 DEF Downward
  <2> HIDE DEF n, m
  <2> QED
    BY <1>3, <1>8, <1>11, <2>1, <2>2
<1>13. Upward(g.parent, b, m)
  <2>1. m >= 1 => g.parent[b[1]] = NULL
    <3> SUFFICES ASSUME m >= 1 PROVE g.parent[b[1]] = NULL
      OBVIOUS
    <3>1. 1 \in 1 .. m
      BY <1>5
    <3> QED
      BY <1>1, <1>2, <1>6, <1>8, <3>1 DEF Upward
  <2>2. ASSUME NEW j \in 1 .. m, NEW k \in 1 .. m, Below(j, k) PROVE g.parent[b[k]] = b[j]
    BY <1>1, <1>5, <1>6, <1>8, <2>2 DEF Upward
  <2> QED
    BY <2>1, <2>2 DEF Upward
<1>14. g.min = Node(b, m, 1)
  <2>1. 1 \in Nat
    OBVIOUS
  <2> QED
    BY <1>1, <1>3, <1>8, <1>11, <2>1
<1> QED
  BY <1>5, <1>6, <1>8, <1>9, <1>10, <1>12, <1>13, <1>14 DEF Shape, g, b

(* the node last takes the place of another *)
LEMMA PutIs ==
  ASSUME NEW h \in Heaps, NEW last \in Timers, NEW node \in Timers, last # node,
         node \notin {h.left[node], h.right[node]}, last \notin {h.left[node], h.right[node]},
         h.parent[node] # last
  PROVE  /\ PutInPlace(h, last, node) \in Heaps
         /\ PutInPlace(h, last, node).nelts = h.nelts
         /\ PutInPlace(h, last, node).min = IF h.parent[node] = NULL THEN last ELSE h.min
         /\ PutInPlace(h, last, node).left[last] = h.left[node]
         /\ PutInPlace(h, last, node).right[last] = h.right[node]
         /\ PutInPlace(h, last, node).parent[last] = h.parent[node]
         /\ \A t \in Timers : t # last =>
              /\ PutInPlace(h, last, node).left[t] =
                   IF t = h.parent[node] /\ h.left[t] = node THEN last ELSE h.left[t]
              /\ PutInPlace(h, last, node).right[t] =
                   IF t = h.parent[node] /\ h.left[t] # node THEN last ELSE h.right[t]
              /\ PutInPlace(h, last, node).parent[t] =
                   IF t \in {h.left[node], h.right[node]} THEN last ELSE h.parent[t]
<1> DEFINE copied == [h EXCEPT !.left[last] = h.left[node], !.right[last] = h.right[node],
                               !.parent[last] = h.parent[node]]
           adopted == Adopt(copied, last)
           g == PutInPlace(h, last, node)
<1>1. /\ h.min \in Nodes /\ h.nelts \in Nat /\ h.left \in [Timers -> Nodes]
      /\ h.right \in [Timers -> Nodes] /\ h.parent \in [Timers -> Nodes]
      /\ last \in Nodes
  BY DEF Heaps, Nodes
<1>2. /\ copied \in Heaps /\ copied.nelts = h.nelts /\ copied.min = h.min
      /\ copied.left[last] = h.left[node] /\ copied.right[last] = h.right[node]
      /\ copied.parent[last] = h.parent[node]
      /\ \A t \in Timers : t # last =>
           /\ copied.left[t] = h.left[t] /\ copied.right[t] = h.right[t]
           /\ copied.parent[t] = h.parent[t]
  BY <1>1 DEF Heaps
<1>3. g = Replace(adopted, node, last)
  BY DEF PutInPlace
<1> HIDE DEF copied, g
<1>4. /\ adopted \in Heaps /\ adopted.nelts = copied.nelts /\ adopted.min = copied.min
      /\ adopted.left = copied.left /\ adopted.right = copied.right
      /\ \A t \in Timers :
           adopted.parent[t] =
             IF t \in {copied.left[last], copied.right[last]} THEN last ELSE copied.parent[t]
  <2>1. copied \in Heaps
    BY <1>2
  <2> QED
    BY <2>1, AdoptIs
<1> HIDE DEF adopted
<1>5. adopted.parent[node] = h.parent[node] /\ adopted.parent[last] = h.parent[node]
  BY <1>2, <1>4
<1> DEFINE r == Replace(adopted, node, last)
<1>6. /\ r \in Heaps /\ r.nelts = adopted.nelts /\ r.parent = adopted.parent
      /\ r.min = IF adopted.parent[node] = NULL THEN last ELSE adopted.min
      /\ \A t \in Timers :
           /\ r.left[t] = IF t = adopted.parent[node] /\ adopted.left[t] = node
                          THEN last ELSE adopted.left[t]
           /\ r.right[t] = IF t = adopted.parent[node] /\ adopted.left[t] # node
                           THEN last ELSE adopted.right[t]
  <2>1. adopted \in Heaps /\ last \in Nodes
    BY <1>1, <1>4
  <2> QED
    BY <2>1, ReplaceIs
<1> HIDE DEF r
<1>7. g = r
  BY <1>3 DEF r
<1>8. /\ r.nelts = h.nelts /\ r.min = (IF h.parent[node] = NULL THEN last ELSE h.min)
      /\ r.left[last] = h.left[node] /\ r.right[last] = h.right[node]
      /\ r.parent[last] = h.parent[node]
  BY <1>2, <1>4, <1>5, <1>6
<1>9. \A t \in Timers : t # last =>
        /\ r.left[t] = IF t = h.parent[node] /\ h.left[t] = node THEN last ELSE h.left[t]
        /\ r.right[t] = IF t = h.parent[node] /\ h.left[t] # node THEN last ELSE h.right[t]
        /\ r.parent[t] = IF t \in {h.left[node], h.right[node]} THEN last ELSE h.parent[t]
  BY <1>2, <1>4, <1>5, <1>6
<1> QED
  BY <1>6, <1>7, <1>8, <1>9 DEF g

(* ... and on the functions *)
Put(a, p, last) == [a EXCEPT ![p] = last]

LEMMA PutPlaces ==
  ASSUME NEW n, NEW a, Places(a, n), NEW p \in 1 .. n, NEW last \in Timers, Absent(a, n, last)
  PROVE  /\ Places(Put(a, p, last), n)
         /\ Put(a, p, last)[p] = last
         /\ \A i \in 1 .. n : i # p => Put(a, p, last)[i] = a[i]
         /\ Absent(Put(a, p, last), n, a[p])
<1> DEFINE b == Put(a, p, last)
<1>1. n \in Nat /\ a \in [1 .. n -> Timers] /\ \A i, k \in 1 .. n : a[i] = a[k] => i = k
  BY DEF Places
<1>2. b \in [1 .. n -> Timers] /\ b[p] = last /\ \A i \in 1 .. n : i # p => b[i] = a[i]
  BY <1>1 DEF Put
<1> HIDE DEF b
<1>3. \A i, k \in 1 .. n : b[i] = b[k] => i = k
  BY <1>1, <1>2 DEF Absent
<1>4. Absent(b, n, a[p])
  BY <1>1, <1>2 DEF Absent
<1> QED
  BY <1>1, <1>2, <1>3, <1>4 DEF Places, b

LEMMA PutDown ==
  ASSUME NEW n, NEW a, Places(a, n), NEW p \in 1 .. n, NEW last \in Timers, Absent(a, n, last),
         NEW left, NEW right, Downward(left, right, a, n),
         NEW l, NEW r, l[last] = left[a[p]], r[last] = right[a[p]],
         \A i \in 1 .. n : i # p =>
            /\ l[a[i]] = IF p = 2 * i THEN last ELSE left[a[i]]
            /\ r[a[i]] = IF p = 2 * i + 1 THEN last ELSE right[a[i]]
  PROVE  Downward(l, r, Put(a, p, last), n)
<1> DEFINE b == Put(a, p, last)
<1>1. b[p] = last /\ \A i \in 1 .. n : i # p => b[i] = a[i]
  BY PutPlaces
<1> HIDE DEF b
<1>2. \A k \in Nat : Node(b, n, k) = IF k = p THEN last ELSE Node(a, n, k)
  BY <1>1 DEF Node
<1>3. \A k \in 1 .. n : left[a[k]] = Node(a, n, 2 * k) /\ right[a[k]] = Node(a, n, 2 * k + 1)
  BY DEF Downward
<1>4. ASSUME NEW i \in 1 .. n PROVE l[b[i]] = Node(b, n, 2 * i) /\ r[b[i]] = Node(b, n, 2 * i + 1)
  <2>1. 2 * i \in Nat /\ 2 * i + 1 \in Nat
    BY DEF Places
  <2>2. CASE i = p
    <3>1. 2 * p # p /\ 2 * p + 1 # p
      BY DEF Places
    <3> QED
      BY <1>1, <1>2, <1>3, <2>1, <2>2, <3>1
  <2>3. CASE i # p
    BY <1>1, <1>2, <1>3, <2>1, <2>3
  <2> QED
    BY <2>2, <2>3
<1> QED
  BY <1>4 DEF Downward, b

LEMMA PutUp ==
  ASSUME NEW n, NEW a, Places(a, n), NEW p \in 1 .. n, NEW last \in Timers, Absent(a, n, last),
         NEW parent, Upward(parent, a, n),
         NEW u, u[last] = parent[a[p]],
         \A i \in 1 .. n : i # p => u[a[i]] = IF Below(p, i) THEN last ELSE parent[a[i]]
  PROVE  Upward(u, Put(a, p, last), n)
<1> DEFINE b == Put(a, p, last)
<1>1. b[p] = last /\ \A i \in 1 .. n : i # p => b[i] = a[i]
  BY PutPlaces
<1>2. n \in Nat
  BY DEF Places
<1> HIDE DEF b
<1>3. ASSUME n >= 1 PROVE u[b[1]] = NULL
  <2>1. 1 \in 1 .. n /\ ~Below(p, 1) /\ parent[a[1]] = NULL
    BY <1>2, <1>3 DEF Below, Upward
  <2> QED
    BY <1>1, <2>1
<1>4. ASSUME NEW j \in 1 .. n, NEW k \in 1 .. n, Below(j, k) PROVE u[b[k]] = b[j]
  <2>1. parent[a[k]] = a[j] /\ j # k
    BY <1>4 DEF Upward, Below
  <2>2. CASE k = p
    BY <1>1, <2>1, <2>2
  <2>3. CASE k # p
    <3>1. Below(p, k) <=> j = p
      BY <1>4 DEF Below
    <3> QED
      BY <1>1, <2>1, <2>3, <3>1
  <2> QED
    BY <2>2, <2>3
<1> QED
  BY <1>3, <1>4 DEF Upward, b

(* the last node may be too late for its new place or too early, not both *)
LEMMA PutOrder ==
  ASSUME NEW n, NEW a, Places(a, n), NEW p \in 1 .. n, NEW last \in Timers, Absent(a, n, last),
         NEW tm0 \in [Timers -> Nat], Ordered(a, n, tm0),
         NEW tm \in [Timers -> Nat], AgreeBut(tm, tm0, a[p])
  PROVE  \/ MayRise(Put(a, p, last), n, tm, p)
         \/ MaySink(Put(a, p, last), n, tm, p)
<1> DEFINE b == Put(a, p, last)
<1>1. /\ n \in Nat /\ a \in [1 .. n -> Timers] /\ Places(b, n)
      /\ \A i \in 1 .. n : i # p => b[i] = a[i] /\ a[i] # a[p]
  <2>1. Places(b, n) /\ \A i \in 1 .. n : i # p => b[i] = a[i]
    BY PutPlaces
  <2>2. n \in Nat /\ a \in [1 .. n -> Timers] /\ \A i \in 1 .. n : i # p => a[i] # a[p]
    BY DEF Places
  <2> QED
    BY <2>1, <2>2
<1>2. \A i \in 1 .. n : b[i] \in Timers
  BY <1>1 DEF Places
<1> HIDE DEF b
<1> DEFINE v(i) == tm[b[i]]
           w(i) == tm0[a[i]]
<1>3. \A i \in 1 .. n : v(i) \in Nat /\ (i # p => v(i) = w(i))
  BY <1>1, <1>2 DEF AgreeBut
<1>4. \A i, k \in 1 .. n : Below(i, k) => w(i) <= w(k)
  BY DEF Ordered
<1>10. \A i \in 1 .. n : w(i) \in Nat
  BY <1>1
<1> HIDE DEF v, w
<1>5. \A i, k \in 1 .. n : Below(i, k) => i # k
  BY DEF Below
<1>6. \A i, k \in 1 .. n : Below(i, k) /\ i # p /\ k # p => v(i) <= v(k)
  BY <1>3, <1>4
<1>7. ASSUME NEW i \in 1 .. n, NEW k \in 1 .. n, Below(i, p), Below(p, k) PROVE v(i) <= v(k)
  <2>1. i # p /\ k # p /\ v(i) = w(i) /\ v(k) = w(k)
    BY <1>3, <1>5, <1>7
  <2>2. w(i) <= w(p) /\ w(p) <= w(k)
    BY <1>4, <1>7
  <2>3. w(i) \in Nat /\ w(k) \in Nat /\ w(p) \in Nat
    BY <1>3, <1>10, <2>1
  <2> QED
    BY <2>1, <2>2, <2>3
<1>8. CASE \E i \in 1 .. n : Below(i, p) /\ ~(v(i) <= v(p))
  <2>1. PICK i \in 1 .. n : Below(i, p) /\ v(p) < v(i)
    BY <1>3, <1>8
  <2>2. ASSUME NEW k \in 1 .. n, Below(p, k) PROVE v(p) <= v(k)
    <3>1. v(i) <= v(k)
      BY <1>7, <2>1, <2>2
    <3> QED
      BY <1>3, <2>1, <3>1
  <2>3. \A j, k \in 1 .. n : Below(j, k) /\ k # p => v(j) <= v(k)
    BY <1>6, <2>2
  <2> QED
    BY <1>7, <2>3 DEF MayRise, Spans, v, b
<1>9. CASE \A i \in 1 .. n : Below(i, p) => v(i) <= v(p)
  <2>1. \A j, k \in 1 .. n : Below(j, k) /\ j # p => v(j) <= v(k)
    BY <1>6, <1>9
  <2> QED
    BY <1>7, <2>1 DEF MaySink, Spans, v, b
<1> QED
  BY <1>8, <1>9

(* PutInPlace gives node's place to the last node, and changes nothing else *)
LEMMA PutShape ==
  ASSUME NEW h, NEW a, Shape(h, a), NEW p \in 1 .. h.nelts, NEW last \in Timers,
         Absent(a, h.nelts, last)
  PROVE  /\ Shape(PutInPlace(h, last, a[p]), Put(a, p, last))
         /\ PutInPlace(h, last, a[p]).nelts = h.nelts
<1> DEFINE n == h.nelts
           node == a[p]
           b == Put(a, p, last)
           g == PutInPlace(h, last, node)
           left == h.left
           right == h.right
           parent == h.parent
<1>1. /\ h \in Heaps /\ Places(a, n) /\ n \in Nat
      /\ Downward(left, right, a, n) /\ Upward(parent, a, n) /\ h.min = Node(a, n, 1)
  BY ShapeIs DEF Shape
<1>2. /\ \A k \in 1 .. n :
           /\ a[k] \in Timers /\ a[k] # last
           /\ left[a[k]] = Node(a, n, 2 * k)
           /\ right[a[k]] = Node(a, n, 2 * k + 1)
           /\ parent[a[k]] = NULL <=> k = 1
      /\ \A i, k \in 1 .. n :
           /\ a[i] = a[k] => i = k
           /\ Below(i, k) => parent[a[k]] = a[i]
  BY ShapeIs DEF Absent
<1>3. \A k \in Nat, i \in 1 .. n : a[i] = Node(a, n, k) <=> i = k
  BY <1>2, NullAssumption DEF Node
<1>4. \A k \in Nat : Node(a, n, k) # last
  BY <1>2, NullAssumption DEF Node
<1>5. \A i, k \in 1 .. n : /\ 2 * i \in Nat /\ 2 * i + 1 \in Nat /\ 2 * i # i /\ 2 * i + 1 # i
                           /\ ~(k = 2 * i /\ k = 2 * i + 1)
  BY <1>1
<1>6. \A i \in 1 .. n : a[i] \in {left[node], right[node]} <=> Below(p, i)
  BY <1>2, <1>3, <1>5 DEF Below
<1>7. node \in Timers /\ last # node /\ node \notin {left[node], right[node]}
      /\ last \notin {left[node], right[node]}
  BY <1>2, <1>4, <1>5, <1>6 DEF Below
<1>8. \A i \in 1 .. n : a[i] = parent[node] <=> Below(i, p)
  <2>1. CASE p = 1
    <3>1. parent[node] = NULL /\ \A i \in 1 .. n : ~Below(i, p)
      BY <1>2, <2>1 DEF Below
    <3> QED
      BY <1>2, <3>1, NullAssumption
  <2>2. CASE p # 1
    <3>1. p \div 2 \in 1 .. n /\ Below(p \div 2, p)
      BY <1>1, <2>2, Half
    <3>2. parent[node] = a[p \div 2]
      BY <1>2, <3>1
    <3>3. \A i \in 1 .. n : Below(i, p) => i = p \div 2
      BY <1>1, BelowIsHalf
    <3> HIDE DEF node
    <3> QED
      BY <1>2, <3>1, <3>2, <3>3
  <2> QED
    BY <2>1, <2>2
<1>9. parent[node] # last
  <2>1. CASE p = 1
    BY <1>2, <2>1, NullAssumption
  <2>2. CASE p # 1
    <3>1. p \div 2 \in 1 .. n /\ Below(p \div 2, p)
      BY <1>1, <2>2, Half
    <3> QED
      BY <1>2, <3>1
  <2> QED
    BY <2>1, <2>2
<1> HIDE DEF node
<1>10. /\ g \in Heaps /\ g.nelts = n
       /\ g.min = IF parent[node] = NULL THEN last ELSE h.min
       /\ g.left[last] = left[node] /\ g.right[last] = right[node]
       /\ g.parent[last] = parent[node]
       /\ \A t \in Timers : t # last =>
            /\ g.left[t] = IF t = parent[node] /\ left[t] = node THEN last ELSE left[t]
            /\ g.right[t] = IF t = parent[node] /\ left[t] # node THEN last ELSE right[t]
            /\ g.parent[t] = IF t \in {left[node], right[node]} THEN last ELSE parent[t]
  BY <1>1, <1>7, <1>9, PutIs
<1> HIDE DEF g, left, right, parent
<1>11. Places(b, n) /\ b[p] = last /\ \A i \in 1 .. n : i # p => b[i] = a[i]
  BY <1>1, PutPlaces
<1>12. ASSUME NEW i \in 1 .. n, i # p
       PROVE  /\ g.left[a[i]] = IF p = 2 * i THEN last ELSE left[a[i]]
              /\ g.right[a[i]] = IF p = 2 * i + 1 THEN last ELSE right[a[i]]
              /\ g.parent[a[i]] = IF Below(p, i) THEN last ELSE parent[a[i]]
  <2>1. left[a[i]] = node <=> p = 2 * i
    BY <1>2, <1>3, <1>5 DEF node
  <2>2. a[i] = parent[node] <=> p = 2 * i \/ p = 2 * i + 1
    BY <1>8 DEF Below
  <2>3. ~(p = 2 * i /\ p = 2 * i + 1)
    BY <1>5
  <2>4. a[i] \in Timers /\ a[i] # last
    BY <1>2
  <2> QED
    BY <1>6, <1>10, <2>1, <2>2, <2>3, <2>4
<1>13. Downward(g.left, g.right, b, n)
  <2> DEFINE l == g.left
             r == g.right
  <2>1. l[last] = left[a[p]] /\ r[last] = right[a[p]]
    BY <1>10 DEF node
  <2>2. \A i \in 1 .. n : i # p =>
            /\ l[a[i]] = IF p = 2 * i THEN last ELSE left[a[i]]
            /\ r[a[i]] = IF p = 2 * i + 1 THEN last ELSE right[a[i]]
    BY <1>12
  <2> HIDE DEF l, r
  <2>3. Downward(l, r, Put(a, p, last), n)
    BY <1>1, <2>1, <2>2, PutDown
  <2> QED
    BY <2>3 DEF l, r
<1>14. Upward(g.parent, b, n)
  <2> DEFINE u == g.parent
  <2>1. u[last] = parent[a[p]]
    BY <1>10 DEF node
  <2>2. \A i \in 1 .. n : i # p => u[a[i]] = IF Below(p, i) THEN last ELSE parent[a[i]]
    BY <1>12
  <2> HIDE DEF u
  <2>3. Upward(u, Put(a, p, last), n)
    BY <1>1, <2>1, <2>2, PutUp
  <2> QED
    BY <2>3 DEF u
<1>15. g.min = Node(b, n, 1)
  <2>1. 1 \in 1 .. n /\ (parent[node] = NULL <=> p = 1)
    BY <1>1, <1>2 DEF node
  <2> QED
    BY <1>1, <1>10, <1>11, <2>1 DEF Node
<1> QED
  BY <1>10, <1>11, <1>13, <1>14, <1>15 DEF Shape, g, node

LEMMA RemoveBy ==
  ASSUME NEW h, NEW node, NEW tm, h.nelts # 0
  PROVE  /\ NodeAt(h, h.nelts) = node => HeapRemove(h, node, tm) = Clear(Cut(h), node)
         /\ NodeAt(h, h.nelts) # node =>
              HeapRemove(h, node, tm) =
                Clear(Settle(PutInPlace(Cut(h), NodeAt(h, h.nelts), node), NodeAt(h, h.nelts), tm), node)
  BY DEF HeapRemove, Cut

(* heap_remove takes the node out, and nothing else *)
LEMMA RemoveIs ==
  ASSUME NEW h, NEW tm0 \in [Timers -> Nat], NEW S, HeapOf(h, tm0, S),
         NEW node \in Timers, node \in S,
         NEW tm \in [Timers -> Nat], AgreeBut(tm, tm0, node)
  PROVE  HeapOf(HeapRemove(h, node, tm), tm, S \ {node})
<1> DEFINE n == h.nelts
           m == n - 1
           last == NodeAt(h, n)
           c == Cut(h)
<1>1. PICK a : /\ Shape(h, a) /\ Ordered(a, n, tm0)
               /\ \A t \in Timers : (\E k \in 1 .. n : a[k] = t) <=> t \in S
  BY DEF HeapOf
<1> DEFINE b == Shrunk(a, n)
<1>2. PICK p \in 1 .. n : a[p] = node
  BY <1>1
<1>3. /\ n \in Nat /\ n >= 1 /\ n # 0 /\ n \in 1 .. n
      /\ \A i, k \in 1 .. n : a[i] \in Timers /\ (a[i] = a[k] => i = k)
  BY <1>1, ShapeIs
<1>4. last = a[n]
  BY <1>1, <1>3, NodeAtIs DEF Node
<1>5. /\ Shape(c, b) /\ c.nelts = m /\ m \in Nat
      /\ \A i \in 1 .. m : i \in 1 .. n /\ b[i] = a[i]
      /\ Absent(b, m, a[n])
  BY <1>1, <1>3, CutShape
<1>6. \A i \in 1 .. n : i \in 1 .. m \/ i = n
  BY <1>3
<1>7. \A i \in 1 .. m : i # n
  BY <1>3
<1>8. /\ last = node => HeapRemove(h, node, tm) = Clear(c, node)
      /\ last # node => HeapRemove(h, node, tm) = Clear(Settle(PutInPlace(c, last, node), last, tm), node)
  BY <1>3, RemoveBy
<1> HIDE DEF c, b, last
<1>9. Ordered(b, m, tm0)
  BY <1>1, <1>5 DEF Ordered
<1>10. Places(b, m)
  BY <1>5, ShapeIs
<1>11. CASE p = n
  <2> DEFINE g == Clear(c, node)
  <2>1. HeapRemove(h, node, tm) = g
    BY <1>2, <1>4, <1>8, <1>11
  <2>2. Absent(b, c.nelts, node)
    BY <1>2, <1>5, <1>11
  <2>3. Shape(g, b) /\ g.nelts = m
    BY <1>5, <2>2, ClearShape
  <2> HIDE DEF g
  <2>4. Ordered(b, m, tm)
    <3>1. \A i \in 1 .. m : b[i] \in Timers /\ b[i] # node
      BY <1>5, <1>10, <2>2 DEF Places, Absent
    <3> QED
      BY <1>9, <3>1 DEF Ordered, AgreeBut
  <2>5. ASSUME NEW t \in Timers PROVE (\E i \in 1 .. m : b[i] = t) <=> t \in S \ {node}
    <3>1. (\E i \in 1 .. m : b[i] = t) <=> (\E i \in 1 .. n : a[i] = t /\ i # n)
      BY <1>5, <1>6, <1>7
    <3>2. \A i \in 1 .. n : i # n <=> a[i] # node
      BY <1>2, <1>3, <1>11
    <3> QED
      BY <1>1, <3>1, <3>2
  <2> QED
    BY <2>1, <2>3, <2>4, <2>5 DEF HeapOf
<1>12. CASE p # n
  <2> DEFINE r == PutInPlace(c, last, b[p])
             d == Put(b, p, last)
             s == Settle(r, last, tm)
             g == Clear(s, node)
  <2>1. p \in 1 .. m /\ b[p] = node /\ last # node /\ last \in Timers
    BY <1>2, <1>3, <1>4, <1>5, <1>6, <1>12
  <2>2. HeapRemove(h, node, tm) = g
    BY <1>8, <2>1
  <2>3. Absent(b, m, last) /\ Absent(b, c.nelts, last) /\ p \in 1 .. c.nelts
    BY <1>4, <1>5, <2>1
  <2>4. Shape(r, d) /\ r.nelts = m
    BY <1>5, <2>1, <2>3, PutShape
  <2>5. /\ d[p] = last /\ \A i \in 1 .. m : i # p => d[i] = b[i]
        /\ Absent(d, m, node)
    BY <1>10, <2>1, <2>3, PutPlaces
  <2>6. AgreeBut(tm, tm0, b[p])
    BY <2>1
  <2> HIDE DEF r, d
  <2>7. MayRise(d, m, tm, p) \/ MaySink(d, m, tm, p)
    BY <1>9, <1>10, <2>1, <2>3, <2>6, PutOrder DEF d
  <2>8. MayRise(d, r.nelts, tm, p) \/ MaySink(d, r.nelts, tm, p)
    BY <2>4, <2>7
  <2>9. Settled(Settle(r, d[p], tm), r, d, tm)
    BY <2>4, <2>8, SettleSettles
  <2>10. Settled(s, r, d, tm)
    BY <2>5, <2>9
  <2> HIDE DEF s
  <2>11. PICK e : Shape(s, e) /\ s.nelts = m /\ Same(e, d, m) /\ Ordered(e, m, tm)
    BY <2>4, <2>10 DEF Settled
  <2>12. Absent(e, s.nelts, node)
    BY <2>5, <2>11 DEF Absent, Same
  <2>13. Shape(g, e) /\ g.nelts = m
    BY <2>11, <2>12, ClearShape
  <2>14. ASSUME NEW t \in Timers PROVE (\E i \in 1 .. m : e[i] = t) <=> t \in S \ {node}
    <3>1. (\E i \in 1 .. m : e[i] = t) <=> (\E i \in 1 .. m : d[i] = t)
      BY <2>11 DEF Same
    <3>2. (\E i \in 1 .. m : d[i] = t) <=> (\E i \in 1 .. n : a[i] = t /\ i # p)
      BY <1>3, <1>4, <1>5, <1>6, <1>7, <1>12, <2>1, <2>5
    <3>3. \A i \in 1 .. n : i # p <=> a[i] # node
      BY <1>2, <1>3
    <3> QED
      BY <1>1, <3>1, <3>2, <3>3
  <2> HIDE DEF g
  <2> QED
    BY <2>2, <2>11, <2>13, <2>14 DEF HeapOf
<1> QED
  BY <1>11, <1>12

(* the root of a heap is its first node *)
LEMMA RootIs ==
  ASSUME NEW h, NEW tm \in [Timers -> Nat], NEW S \in SUBSET Timers, HeapOf(h, tm, S)
  PROVE  /\ h.min = NULL => S = {}
         /\ h.min # NULL => h.min \in S /\ \A t \in S : tm[h.min] <= tm[t]
<1> DEFINE n == h.nelts
<1>1. PICK a : /\ Shape(h, a) /\ Ordered(a, n, tm)
               /\ \A t \in Timers : (\E k \in 1 .. n : a[k] = t) <=> t \in S
  BY DEF HeapOf
<1>2. n \in Nat /\ \A k \in 1 .. n : a[k] \in Timers /\ tm[a[k]] \in Nat
  BY <1>1, ShapeIs
<1>3. h.min = Node(a, n, 1)
  BY <1>1 DEF Shape
<1>4. CASE n = 0
  <2>1. h.min = NULL /\ S = {}
    BY <1>1, <1>3, <1>4 DEF Node
  <2> QED
    BY <2>1
<1>5. CASE n # 0
  <2>1. 1 \in 1 .. n
    BY <1>2, <1>5
  <2>2. h.min = a[1] /\ h.min \in S /\ h.min # NULL
    BY <1>1, <1>2, <1>3, <2>1, NullAssumption DEF Node
  <2> DEFINE T == {k \in 1 .. n : ~(tm[a[1]] <= tm[a[k]])}
  <2>3. T = {}
    <3> SUFFICES ASSUME T # {} PROVE FALSE
      OBVIOUS
    <3>1. PICK k \in T : \A x \in T : k <= x
      <4>1. T \subseteq Nat
        OBVIOUS
      <4> HIDE DEF T
      <4> QED
        BY <4>1, LeastNumber
    <3>2. k \in 1 .. n /\ ~(tm[a[1]] <= tm[a[k]]) /\ k # 1 /\ k \in Nat /\ k > 1
      BY <1>2, <2>1
    <3> DEFINE j == k \div 2
    <3>3. j \in Nat /\ j >= 1 /\ j < k /\ Below(j, k)
      BY <3>2, Half
    <3>4. j \in 1 .. n /\ j \notin T
      BY <1>2, <3>1, <3>2, <3>3
    <3>5. tm[a[1]] <= tm[a[j]] /\ tm[a[j]] <= tm[a[k]]
      BY <1>1, <3>2, <3>3, <3>4 DEF Ordered
    <3> HIDE DEF j
    <3> QED
      BY <1>2, <2>1, <3>2, <3>4, <3>5
  <2>4. \A k \in 1 .. n : tm[h.min] <= tm[a[k]]
    BY <2>2, <2>3
  <2> QED
    BY <1>1, <2>2, <2>4
<1> QED
  BY <1>4, <1>5

-----------------------------------------------------------------------------
(* The timers *)

(* The heap is a complete tree, ordered by the times, of the timers that    *)
(* are armed, which are live, and of those stop() left in it.  Where m_time *)
(* is not 0, stop() and the destructor have something to take out.          *)
InTree == armed \cup behind

TimerInv ==
  /\ now \in 0 .. ClockMod - 1
  /\ time \in [Timers -> 0 .. ClockMod - 1]
  /\ repeat \in [Timers -> 0 .. ClockMod - 1]
  /\ live \in [Timers -> BOOLEAN]
  /\ turn \in 0 .. MaxTurns
  /\ armed \in SUBSET Timers /\ behind \in SUBSET Timers
  /\ \A t \in Timers : (time[t] # 0 => t \in armed) /\ (t \in armed => live[t])
  /\ HeapOf(heap, time, InTree)

LEMMA StoredFits ==
  ASSUME NEW x \in Nat
  PROVE  Stored(x) \in 0 .. ClockMod - 1
<1> DEFINE M == ClockMod
<1>1. M \in Nat /\ M > 0
  BY ClockAssumption
<1> HIDE DEF M
<1>2. x % M \in 0 .. M - 1
  BY <1>1
<1> QED
  BY <1>2 DEF Stored, M

LEMMA DeadlineFits ==
  ASSUME NEW delay \in Nat, NEW clock \in 0 .. ClockMod - 1
  PROVE  Deadline(delay, clock) \in 0 .. ClockMod - 1
<1>1. delay + clock \in Nat
  BY ClockAssumption
<1> QED
  BY <1>1, StoredFits DEF Deadline

LEMMA NextClockFits ==
  ASSUME NEW clock \in 0 .. ClockMod - 1
  PROVE  (clock + 1) % ClockMod \in 0 .. ClockMod - 1
<1>1. clock + 1 \in Nat
  BY ClockAssumption
<1> QED
  BY <1>1, StoredFits DEF Stored

LEMMA EmptyIsHeap ==
  ASSUME NEW tm
  PROVE  HeapOf(EmptyHeap, tm, {})
<1> DEFINE a == [i \in 1 .. 0 |-> NULL]
           h == EmptyHeap
<1>1. \A i : i \notin 1 .. 0
  OBVIOUS
<1>2. h \in Heaps /\ h.nelts = 0 /\ h.min = NULL
  BY DEF EmptyHeap, Heaps, Nodes
<1>3. Places(a, 0)
  BY <1>1 DEF Places
<1> HIDE DEF a, h
<1>4. Shape(h, a)
  BY <1>1, <1>2, <1>3 DEF Shape, Node, Downward, Upward
<1>5. Ordered(a, 0, tm)
  BY <1>1 DEF Ordered
<1> QED
  BY <1>1, <1>2, <1>4, <1>5 DEF HeapOf, h

LEMMA InitTimerInv == TimerInit => TimerInv
<1> SUFFICES ASSUME TimerInit PROVE TimerInv
  OBVIOUS
<1>1. ClockMod \in Nat /\ ClockMod > 0 /\ MaxTurns \in Nat
  BY ClockAssumption
<1>2. /\ now \in 0 .. ClockMod - 1 /\ turn \in 0 .. MaxTurns
      /\ time \in [Timers -> 0 .. ClockMod - 1] /\ repeat \in [Timers -> 0 .. ClockMod - 1]
      /\ live \in [Timers -> BOOLEAN] /\ \A t \in Timers : time[t] = 0
      /\ armed = {} /\ behind = {}
  BY <1>1 DEF TimerInit
<1>3. InTree = {}
  BY <1>2 DEF InTree
<1>4. HeapOf(heap, time, InTree)
  BY <1>3, EmptyIsHeap DEF TimerInit
<1> QED
  BY <1>2, <1>4 DEF TimerInv

(* m_time of a timer is set, which is put into the heap *)
LEMMA Arming ==
  ASSUME NEW h, NEW tm0 \in [Timers -> 0 .. ClockMod - 1], NEW S \in SUBSET Timers,
         HeapOf(h, tm0, S), NEW t \in Timers, t \notin S, NEW d \in 0 .. ClockMod - 1
  PROVE  HeapOf(HeapInsert(h, t, [tm0 EXCEPT ![t] = d]), [tm0 EXCEPT ![t] = d], S \cup {t})
<1> DEFINE tm == [tm0 EXCEPT ![t] = d]
<1>1. tm \in [Timers -> Nat] /\ AgreeBut(tm, tm0, t)
  BY ClockAssumption DEF AgreeBut
<1> HIDE DEF tm
<1>2. HeapOf(HeapInsert(h, t, tm), tm, S \cup {t})
  BY <1>1, InsertIs
<1> QED
  BY <1>2 DEF tm

(* m_time of a timer is cleared, which is taken out of the heap *)
LEMMA Disarming ==
  ASSUME TimerInv, NEW t \in armed
  PROVE  HeapOf(HeapRemove(heap, t, [time EXCEPT ![t] = 0]), [time EXCEPT ![t] = 0],
                InTree \ {t})
<1> DEFINE tm == [time EXCEPT ![t] = 0]
<1>1. /\ time \in [Timers -> Nat] /\ tm \in [Timers -> Nat] /\ AgreeBut(tm, time, t)
      /\ t \in Timers /\ t \in InTree
  BY ClockAssumption DEF AgreeBut, TimerInv, InTree
<1> HIDE DEF tm
<1>2. HeapOf(HeapRemove(heap, t, tm), tm, InTree \ {t})
  BY <1>1, RemoveIs DEF TimerInv
<1> QED
  BY <1>2 DEF tm

(* the order of a heap depends on the times of its nodes only *)
LEMMA HeapOfSame ==
  ASSUME NEW h, NEW tm0, NEW tm, NEW S \in SUBSET Timers, HeapOf(h, tm0, S),
         \A t \in S : tm[t] = tm0[t]
  PROVE  HeapOf(h, tm, S)
<1>1. PICK a : /\ Shape(h, a) /\ Ordered(a, h.nelts, tm0)
               /\ \A t \in Timers : (\E k \in 1 .. h.nelts : a[k] = t) <=> t \in S
  BY DEF HeapOf
<1>2. \A k \in 1 .. h.nelts : a[k] \in S
  BY <1>1, ShapeIs
<1>3. Ordered(a, h.nelts, tm)
  BY <1>1, <1>2 DEF Ordered
<1> QED
  BY <1>1, <1>3 DEF HeapOf

LEMMA CreateStep ==
  ASSUME TimerInv, NEW t \in Timers, Create(t)
  PROVE  TimerInv'
<1>1. /\ ~live[t] /\ live' = [live EXCEPT ![t] = TRUE] /\ time' = [time EXCEPT ![t] = 0]
      /\ repeat' = [repeat EXCEPT ![t] = 0] /\ UNCHANGED <<heap, now, turn, armed, behind>>
  BY DEF Create
<1>2. time[t] = 0
  BY <1>1 DEF TimerInv
<1>3. time' = time /\ InTree' = InTree
  BY <1>1, <1>2 DEF TimerInv, InTree
<1>4. live' \in [Timers -> BOOLEAN] /\ \A u \in Timers : live[u] => live'[u]
  BY <1>1 DEF TimerInv
<1>5. repeat' \in [Timers -> 0 .. ClockMod - 1]
  BY <1>1, ClockAssumption DEF TimerInv
<1>6. \A u \in Timers : (time'[u] # 0 => u \in armed') /\ (u \in armed' => live'[u])
  BY <1>1, <1>3, <1>4 DEF TimerInv
<1>7. HeapOf(heap', time', InTree')
  BY <1>1, <1>3 DEF TimerInv
<1> QED
  BY <1>1, <1>3, <1>4, <1>5, <1>6, <1>7 DEF TimerInv

LEMMA StartStep ==
  ASSUME ~Restart, TimerInv, behind = {}, NEW t \in Timers, Start(t)
  PROVE  TimerInv'
<1>1. /\ live[t] /\ t \notin armed /\ armed' = armed \cup {t}
      /\ UNCHANGED <<now, live, turn, behind>>
  BY DEF Start
<1>2. PICK s \in Starts[t] :
        /\ time' = [time EXCEPT ![t] = Deadline(s.timeout, now)]
        /\ repeat' = [repeat EXCEPT ![t] = Stored(s.repeat)]
        /\ heap' = HeapInsert(heap, t, time')
  BY DEF Start
<1>3. s.timeout \in Nat /\ s.repeat \in Nat
  BY StartAssumption
<1> DEFINE d == Deadline(s.timeout, now)
<1>4. d \in 0 .. ClockMod - 1 /\ Stored(s.repeat) \in 0 .. ClockMod - 1
  BY <1>3, DeadlineFits, StoredFits DEF TimerInv
<1> HIDE DEF d
<1>5. InTree \in SUBSET Timers /\ t \notin InTree /\ InTree' = InTree \cup {t}
  BY <1>1 DEF InTree, TimerInv
<1>6. HeapOf(HeapInsert(heap, t, [time EXCEPT ![t] = d]), [time EXCEPT ![t] = d], InTree \cup {t})
  <2>1. time \in [Timers -> 0 .. ClockMod - 1] /\ HeapOf(heap, time, InTree)
    BY DEF TimerInv
  <2> QED
    BY <1>4, <1>5, <2>1, Arming
<1>7. HeapOf(heap', time', InTree')
  BY <1>2, <1>5, <1>6 DEF d
<1>8. /\ time' \in [Timers -> 0 .. ClockMod - 1] /\ \A u \in Timers : u # t => time'[u] = time[u]
      /\ repeat' \in [Timers -> 0 .. ClockMod - 1]
  BY <1>2, <1>4 DEF TimerInv, d
<1>9. \A u \in Timers : (time'[u] # 0 => u \in armed') /\ (u \in armed' => live'[u])
  BY <1>1, <1>8 DEF TimerInv
<1>10. armed' \in SUBSET Timers /\ behind' \in SUBSET Timers
  BY <1>1 DEF TimerInv
<1> QED
  BY <1>1, <1>7, <1>8, <1>9, <1>10 DEF TimerInv

(* stop() and the destructor *)
LEMMA DisarmIs ==
  ASSUME TimerInv, behind = {}, NEW t \in Timers, Disarm(t)
  PROVE  /\ HeapOf(heap', time', InTree')
         /\ time' \in [Timers -> 0 .. ClockMod - 1] /\ time'[t] = 0
         /\ \A u \in Timers : u # t => time'[u] = time[u]
         /\ armed' = armed \ {t} /\ behind' \in SUBSET Timers
<1>1. /\ time' = [time EXCEPT ![t] = 0] /\ armed' = armed \ {t}
      /\ heap' = IF time[t] = 0 THEN heap ELSE HeapRemove(heap, t, time')
      /\ behind' = IF t \in armed /\ time[t] = 0 THEN behind \cup {t} ELSE behind
  BY DEF Disarm, Forget
<1>2. 0 \in 0 .. ClockMod - 1
  BY ClockAssumption
<1>3. /\ time' \in [Timers -> 0 .. ClockMod - 1] /\ time'[t] = 0
      /\ \A u \in Timers : u # t => time'[u] = time[u]
  BY <1>1, <1>2 DEF TimerInv
<1>4. behind' \in SUBSET Timers
  BY <1>1 DEF TimerInv
<1>5. CASE time[t] = 0
  <2>1. time' = time /\ heap' = heap
    BY <1>1, <1>5 DEF TimerInv
  <2>2. InTree' = InTree
    BY <1>1, <1>5 DEF InTree
  <2> QED
    BY <1>1, <1>3, <1>4, <2>1, <2>2 DEF TimerInv
<1>6. CASE time[t] # 0
  <2>1. t \in armed /\ behind' = {}
    BY <1>1, <1>6 DEF TimerInv
  <2>2. InTree' = InTree \ {t}
    BY <1>1, <2>1 DEF InTree
  <2>3. HeapOf(HeapRemove(heap, t, [time EXCEPT ![t] = 0]), [time EXCEPT ![t] = 0],
               InTree \ {t})
    BY <2>1, Disarming
  <2> QED
    BY <1>1, <1>3, <1>4, <1>6, <2>2, <2>3
<1> QED
  BY <1>5, <1>6

LEMMA StopStep ==
  ASSUME TimerInv, behind = {}, NEW t \in Timers, Stop(t)
  PROVE  TimerInv'
<1>1. Disarm(t) /\ UNCHANGED <<now, repeat, live, turn>>
  BY DEF Stop
<1>2. /\ HeapOf(heap', time', InTree')
      /\ time' \in [Timers -> 0 .. ClockMod - 1] /\ time'[t] = 0
      /\ \A u \in Timers : u # t => time'[u] = time[u]
      /\ armed' = armed \ {t} /\ behind' \in SUBSET Timers
  BY <1>1, DisarmIs
<1>3. \A u \in Timers : (time'[u] # 0 => u \in armed') /\ (u \in armed' => live'[u])
  BY <1>1, <1>2 DEF TimerInv
<1> QED
  BY <1>1, <1>2, <1>3 DEF TimerInv

LEMMA DestroyStep ==
  ASSUME TimerInv, behind = {}, NEW t \in Timers, Destroy(t)
  PROVE  TimerInv'
<1>1. Disarm(t) /\ live' = [live EXCEPT ![t] = FALSE] /\ UNCHANGED <<now, repeat, turn>>
  BY DEF Destroy
<1>2. /\ HeapOf(heap', time', InTree')
      /\ time' \in [Timers -> 0 .. ClockMod - 1] /\ time'[t] = 0
      /\ \A u \in Timers : u # t => time'[u] = time[u]
      /\ armed' = armed \ {t} /\ behind' \in SUBSET Timers
  BY <1>1, DisarmIs
<1>3. live' \in [Timers -> BOOLEAN] /\ \A u \in Timers : u # t => live'[u] = live[u]
  BY <1>1 DEF TimerInv
<1>4. \A u \in Timers : (time'[u] # 0 => u \in armed') /\ (u \in armed' => live'[u])
  BY <1>2, <1>3 DEF TimerInv
<1> QED
  BY <1>1, <1>2, <1>3, <1>4 DEF TimerInv

LEMMA RunStep ==
  ASSUME TimerInv, behind = {}, Run
  PROVE  TimerInv'
<1> DEFINE t == heap.min
           removed == HeapRemove(heap, t, time)
<1>1. /\ turn < MaxTurns /\ t # NULL /\ turn' = turn + 1 /\ UNCHANGED <<repeat, live, behind>>
  BY DEF Run, TurnLeft, RootIsDue
<1>2. PICK clock \in {now, (now + 1) % ClockMod} :
        /\ now' = clock
        /\ IF repeat[t] > 0
           THEN /\ time' = [time EXCEPT ![t] = Deadline(repeat[t], clock)]
                /\ heap' = HeapInsert(removed, t, time')
                /\ UNCHANGED armed
           ELSE /\ time' = [time EXCEPT ![t] = 0]
                /\ heap' = removed
                /\ armed' = armed \ {t}
  BY DEF Run
<1>3. clock \in 0 .. ClockMod - 1
  BY <1>2, NextClockFits DEF TimerInv
<1>4. time \in [Timers -> Nat] /\ armed \in SUBSET Timers /\ HeapOf(heap, time, armed)
  <2>1. InTree = armed
    BY DEF InTree
  <2> QED
    BY <2>1, ClockAssumption DEF TimerInv
<1>5. t \in armed /\ t \in Timers /\ live[t]
  BY <1>1, <1>4, RootIs DEF TimerInv
<1> HIDE DEF t
<1>6. AgreeBut(time, time, t)
  BY DEF AgreeBut
<1> DEFINE S == armed \ {t}
<1>7. HeapOf(removed, time, S)
  BY <1>4, <1>5, <1>6, RemoveIs
<1> HIDE DEF removed
<1>8. /\ HeapOf(heap', time', armed') /\ time' \in [Timers -> 0 .. ClockMod - 1]
      /\ \A u \in Timers : u # t => time'[u] = time[u]
      /\ armed' \in SUBSET armed /\ (t \notin armed' => time'[t] = 0)
      /\ \A u \in Timers : u # t => (u \in armed => u \in armed')
  <2>1. CASE repeat[t] > 0
    <3> DEFINE d == Deadline(repeat[t], clock)
    <3>1. d \in 0 .. ClockMod - 1
      <4>1. repeat[t] \in Nat
        BY <1>5, ClockAssumption DEF TimerInv
      <4> QED
        BY <1>3, <4>1, DeadlineFits
    <3>2. time' = [time EXCEPT ![t] = d] /\ heap' = HeapInsert(removed, t, time') /\ armed' = armed
      BY <1>2, <2>1
    <3> HIDE DEF d
    <3>3. /\ S \in SUBSET Timers /\ t \notin S /\ S \cup {t} = armed
          /\ time \in [Timers -> 0 .. ClockMod - 1]
      BY <1>5 DEF TimerInv
    <3> HIDE DEF S
    <3>4. HeapOf(HeapInsert(removed, t, [time EXCEPT ![t] = d]), [time EXCEPT ![t] = d], S \cup {t})
      BY <1>5, <1>7, <3>1, <3>3, Arming
    <3>5. HeapOf(heap', time', armed')
      BY <3>2, <3>3, <3>4
    <3> QED
      BY <1>5, <3>1, <3>2, <3>3, <3>5
  <2>2. CASE ~(repeat[t] > 0)
    <3>1. time' = [time EXCEPT ![t] = 0] /\ heap' = removed /\ armed' = S
      BY <1>2, <2>2
    <3>2. 0 \in 0 .. ClockMod - 1
      BY ClockAssumption
    <3>3. /\ time' \in [Timers -> 0 .. ClockMod - 1] /\ time'[t] = 0
          /\ \A u \in Timers : u # t => time'[u] = time[u]
      BY <1>5, <3>1, <3>2 DEF TimerInv
    <3>4. HeapOf(removed, time', S)
      <4>1. S \in SUBSET Timers /\ \A u \in S : time'[u] = time[u]
        BY <1>4, <3>3
      <4> HIDE DEF S
      <4> QED
        BY <1>7, <4>1, HeapOfSame
    <3> QED
      BY <3>1, <3>3, <3>4
  <2> QED
    BY <2>1, <2>2
<1>9. \A u \in Timers : (time'[u] # 0 => u \in armed') /\ (u \in armed' => live'[u])
  BY <1>1, <1>5, <1>8 DEF TimerInv
<1>10. turn' \in 0 .. MaxTurns
  BY <1>1, ClockAssumption DEF TimerInv
<1>11. armed' \in SUBSET Timers /\ behind' \in SUBSET Timers /\ InTree' = armed'
  BY <1>1, <1>4, <1>8 DEF InTree
<1>12. HeapOf(heap', time', InTree')
  BY <1>8, <1>11
<1> QED
  BY <1>1, <1>2, <1>3, <1>8, <1>9, <1>10, <1>11, <1>12 DEF TimerInv

LEMMA TimerStep ==
  ASSUME ~Restart, TimerInv, [TimerNext]_vars
  PROVE  TimerInv'
<1>1. CASE UNCHANGED vars
  BY <1>1 DEF vars, TimerInv, InTree
<1>2. ASSUME behind = {}, NEW t \in Timers, Create(t) PROVE TimerInv'
  BY <1>2, CreateStep
<1>3. ASSUME behind = {}, NEW t \in Timers, Start(t) PROVE TimerInv'
  BY <1>3, StartStep
<1>4. ASSUME behind = {}, NEW t \in Timers, Stop(t) PROVE TimerInv'
  BY <1>4, StopStep
<1>5. ASSUME behind = {}, NEW t \in Timers, Destroy(t) PROVE TimerInv'
  BY <1>5, DestroyStep
<1>6. CASE behind = {} /\ Run
  BY <1>6, RunStep
<1>7. CASE UpdateReturns
  <2>1. 0 \in 0 .. MaxTurns
    BY ClockAssumption
  <2> QED
    BY <1>7, <2>1 DEF UpdateReturns, TimerInv, InTree
<1>8. CASE Tick
  <2>1. (now + 1) % ClockMod \in 0 .. ClockMod - 1
    BY NextClockFits DEF TimerInv
  <2> QED
    BY <1>8, <2>1 DEF Tick, TimerInv, InTree
<1> QED
  BY <1>1, <1>2, <1>3, <1>4, <1>5, <1>6, <1>7, <1>8 DEF TimerNext

(* TimerInv holds in every state, if no timer is started while it is armed: *)
(* start, stop, delete and update leave an ordered heap of the armed timers. *)
THEOREM TimerInvAlways ==
  ASSUME ~Restart
  PROVE  TimerSpec => []TimerInv
<1>1. TimerInit => TimerInv
  BY InitTimerInv
<1>2. TimerInv /\ [TimerNext]_vars => TimerInv'
  BY TimerStep
<1> QED
  BY <1>1, <1>2, PTL DEF TimerSpec

-----------------------------------------------------------------------------
(* What the invariant says *)

(* the nodes of the tree and the places they are found at *)
LEMMA InHeapIs ==
  ASSUME NEW a, Shape(heap, a)
  PROVE  /\ \A k \in 1 .. heap.nelts : NodeAt(heap, k) = a[k]
         /\ InHeap = {a[k] : k \in 1 .. heap.nelts}
<1>1. heap.nelts \in Nat
  BY ShapeIs
<1>2. ASSUME NEW k \in 1 .. heap.nelts PROVE NodeAt(heap, k) = a[k]
  <2>1. k \in Nat /\ k >= 1
    BY <1>1
  <2> QED
    BY <2>1, NodeAtIs DEF Node
<1> QED
  BY <1>2 DEF InHeap

(* a tree has no more places than there are timers ... *)
LEMMA TreeFits ==
  ASSUME NEW n, NEW a, Places(a, n)
  PROVE  n \in 0 .. Cardinality(Timers)
<1>1. n \in Nat /\ a \in Injection(1 .. n, Timers)
  BY DEF Places, Injection, IsInjective
<1>2. IsFiniteSet(Timers)
  BY TimersAssumption
<1>3. Cardinality(1 .. n) <= Cardinality(Timers)
  BY <1>1, <1>2, FS_Injection
<1>4. Cardinality(1 .. n) = n
  BY <1>1, FS_Interval
<1>5. Cardinality(Timers) \in Nat
  BY <1>2, FS_CardinalityType
<1> QED
  BY <1>1, <1>3, <1>4, <1>5

(* ... and as many nodes as places *)
LEMMA TreeCount ==
  ASSUME NEW n, NEW a, Places(a, n)
  PROVE  Cardinality({a[k] : k \in 1 .. n}) = n
<1> DEFINE T == {a[k] : k \in 1 .. n}
<1>1. n \in Nat
  BY DEF Places
<1>2. a \in Bijection(1 .. n, T)
  BY DEF Places, Bijection, Injection, IsInjective, Surjection
<1>3. ExistsBijection(1 .. n, T)
  BY <1>2 DEF ExistsBijection
<1>4. IsFiniteSet(1 .. n) /\ Cardinality(1 .. n) = n
  BY <1>1, FS_Interval
<1> HIDE DEF T
<1>5. Cardinality(T) = n
  BY <1>3, <1>4, FS_Bijection
<1> QED
  BY <1>5 DEF T

LEMMA InvTyped == TimerInv => TimerTypeOK
<1> SUFFICES ASSUME TimerInv PROVE TimerTypeOK
  OBVIOUS
<1>1. PICK a : Shape(heap, a)
  BY DEF TimerInv, HeapOf
<1>2. heap \in Heaps /\ heap.nelts \in 0 .. Cardinality(Timers)
  BY <1>1, ShapeIs, TreeFits
<1>3. heap \in [min : Timers \cup {NULL}, nelts : 0 .. Cardinality(Timers),
                left : [Timers -> Timers \cup {NULL}],
                right : [Timers -> Timers \cup {NULL}],
                parent : [Timers -> Timers \cup {NULL}]]
  BY <1>2 DEF Heaps, Nodes
<1> QED
  BY <1>3 DEF TimerInv, TimerTypeOK

LEMMA InvComplete == TimerInv => CompleteTree
<1> SUFFICES ASSUME TimerInv PROVE CompleteTree
  OBVIOUS
<1> DEFINE n == heap.nelts
<1>1. PICK a : Shape(heap, a)
  BY DEF TimerInv, HeapOf
<1>2. /\ Places(a, n) /\ n \in Nat
      /\ \A k \in 1 .. n :
           /\ a[k] \in Timers
           /\ heap.left[a[k]] = Node(a, n, 2 * k)
           /\ heap.right[a[k]] = Node(a, n, 2 * k + 1)
           /\ heap.parent[a[k]] = NULL <=> k = 1
      /\ \A j, k \in 1 .. n : Below(j, k) => heap.parent[a[k]] = a[j]
  BY <1>1, ShapeIs
<1>3. heap.min = Node(a, n, 1)
  BY <1>1 DEF Shape
<1>4. (\A k \in 1 .. n : NodeAt(heap, k) = a[k]) /\ InHeap = {a[k] : k \in 1 .. n}
  BY <1>1, InHeapIs
<1>5. NULL \notin InHeap
  BY <1>2, <1>4, NullAssumption
<1>6. Cardinality(InHeap) = n
  BY <1>2, <1>4, TreeCount
<1>7. n = 0 => heap.min = NULL
  BY <1>3 DEF Node
<1>8. ASSUME NEW k \in 1 .. n
      PROVE  /\ heap.parent[a[k]] = IF k = 1 THEN NULL ELSE NodeAt(heap, k \div 2)
             /\ 2 * k > n => heap.left[a[k]] = NULL
             /\ 2 * k + 1 > n => heap.right[a[k]] = NULL
  <2>1. ASSUME k # 1 PROVE heap.parent[a[k]] = NodeAt(heap, k \div 2)
    <3> DEFINE j == k \div 2
    <3>1. j \in 1 .. n /\ Below(j, k)
      BY <1>2, <2>1, Half
    <3> HIDE DEF j
    <3>2. heap.parent[a[k]] = NodeAt(heap, j)
      BY <1>2, <1>4, <3>1
    <3> QED
      BY <3>2 DEF j
  <2>2. 2 * k > n => ~(2 * k \in 1 .. n)
    BY <1>2
  <2>3. 2 * k + 1 > n => ~(2 * k + 1 \in 1 .. n)
    BY <1>2
  <2>4. (2 * k > n => heap.left[a[k]] = NULL) /\ (2 * k + 1 > n => heap.right[a[k]] = NULL)
    BY <1>2, <2>2, <2>3 DEF Node
  <2> QED
    BY <1>2, <2>1, <2>4
<1> HIDE DEF n
<1>9. \A k \in 1 .. n :
        /\ heap.parent[NodeAt(heap, k)] = IF k = 1 THEN NULL ELSE NodeAt(heap, k \div 2)
        /\ 2 * k > n => heap.left[NodeAt(heap, k)] = NULL
        /\ 2 * k + 1 > n => heap.right[NodeAt(heap, k)] = NULL
  BY <1>4, <1>8
<1> QED
  BY <1>5, <1>6, <1>7, <1>9 DEF CompleteTree, n

LEMMA InvArmed == TimerInv => InHeapIffArmed
<1> SUFFICES ASSUME TimerInv PROVE InHeapIffArmed
  OBVIOUS
<1>1. PICK a : /\ Shape(heap, a)
               /\ \A t \in Timers : (\E k \in 1 .. heap.nelts : a[k] = t) <=> t \in InTree
  BY DEF TimerInv, HeapOf
<1>2. InHeap = {a[k] : k \in 1 .. heap.nelts} /\ \A k \in 1 .. heap.nelts : a[k] \in Timers
  BY <1>1, InHeapIs, ShapeIs
<1>3. InTree = {t \in armed : live[t]} \cup behind /\ InTree \subseteq Timers
  BY DEF InTree, TimerInv
<1>4. InHeap = InTree
  BY <1>1, <1>2, <1>3
<1> QED
  BY <1>3, <1>4 DEF InHeapIffArmed

(* Pointers point to nodes, m_time and the clock keep to their width and    *)
(* update() makes no more than MaxTurns callbacks.                          *)
THEOREM TimerTypeCorrect ==
  ASSUME ~Restart
  PROVE  TimerSpec => []TimerTypeOK
  BY TimerInvAlways, InvTyped, PTL

(* The heap is the complete binary tree that Heap.h says it is, its         *)
(* pointers up agree with those down, and no node is in it twice.           *)
THEOREM CompleteTreeAlways ==
  ASSUME ~Restart
  PROVE  TimerSpec => []CompleteTree
  BY TimerInvAlways, InvComplete, PTL

(* A timer is in the heap exactly while it is armed, but for the armed      *)
(* timer with m_time 0 that stop() or the destructor leaves in it, at which *)
(* the model ends.                                                          *)
THEOREM InHeapIffArmedAlways ==
  ASSUME ~Restart
  PROVE  TimerSpec => []InHeapIffArmed
  BY TimerInvAlways, InvArmed, PTL

-----------------------------------------------------------------------------
(* The timers implement TimerSet *)

(* update() looks at the first of the timers that are armed *)
LEMMA RootKept ==
  ASSUME TimerInv, behind = {}
  PROVE  /\ heap.min = NULL => armed = {}
         /\ heap.min # NULL => heap.min \in armed /\ \A t \in armed : time[heap.min] <= time[t]
<1>1. time \in [Timers -> Nat] /\ armed \in SUBSET Timers /\ HeapOf(heap, time, armed)
  <2>1. InTree = armed
    BY DEF InTree
  <2> QED
    BY <2>1, ClockAssumption DEF TimerInv
<1> QED
  BY <1>1, RootIs

LEMMA DisarmRefines ==
  ASSUME TimerInv, NEW t \in Timers, Stop(t) \/ Destroy(t)
  PROVE  Promise!SetDisarm(t)
<1>1. live[t] /\ Disarm(t) /\ UNCHANGED <<now, repeat, turn>>
  BY DEF Stop, Destroy
<1>2. /\ time' = [time EXCEPT ![t] = 0] /\ armed' = armed \ {t}
      /\ behind' = IF t \in armed /\ time[t] = 0 THEN behind \cup {t} ELSE behind
  BY <1>1 DEF Disarm, Forget
<1>3. live' \in {live, [live EXCEPT ![t] = FALSE]}
  BY DEF Stop, Destroy
<1> QED
  BY <1>1, <1>2, <1>3 DEF Promise!SetDisarm

LEMMA RunRefines ==
  ASSUME TimerInv, behind = {}, Run
  PROVE  heap.min \in Timers /\ Promise!SetRun(heap.min)
<1> DEFINE t == heap.min
<1>1. /\ turn < MaxTurns /\ t # NULL /\ now >= time[t]
      /\ turn' = turn + 1 /\ UNCHANGED <<repeat, live, behind>>
  BY DEF Run, TurnLeft, RootIsDue
<1>2. t \in armed /\ t \in Timers /\ \A u \in armed : time[t] <= time[u]
  BY <1>1, RootKept DEF TimerInv
<1>3. t \in Promise!Due
  BY <1>1, <1>2 DEF Promise!Due
<1>4. PICK clock \in {now, (now + 1) % ClockMod} :
        /\ now' = clock
        /\ IF repeat[t] > 0
           THEN time' = [time EXCEPT ![t] = Deadline(repeat[t], clock)] /\ armed' = armed
           ELSE time' = [time EXCEPT ![t] = 0] /\ armed' = armed \ {t}
  BY DEF Run
<1>5. /\ time' = [time EXCEPT ![t] = IF repeat[t] > 0 THEN Promise!Deadline(repeat[t], now') ELSE 0]
      /\ armed' = IF repeat[t] > 0 THEN armed ELSE armed \ {t}
  BY <1>4 DEF Deadline, Stored, Promise!Deadline
<1> QED
  BY <1>1, <1>2, <1>3, <1>4, <1>5 DEF Promise!SetRun

LEMMA ReturnRefines ==
  ASSUME TimerInv, behind = {}, UpdateReturns
  PROVE  Promise!SetReturn
<1>1. /\ turn > 0 /\ turn' = 0 /\ UNCHANGED <<now, time, repeat, live, armed, behind>>
      /\ ~TurnLeft \/ ~RootIsDue
  BY DEF UpdateReturns
<1>2. ~TurnLeft => turn = MaxTurns
  BY ClockAssumption DEF TurnLeft, TimerInv
<1>3. ASSUME ~RootIsDue PROVE Promise!Due = {}
  <2>1. \A t \in armed : time[t] \in Nat /\ now \in Nat
    BY ClockAssumption DEF TimerInv
  <2>2. \A t \in armed : ~(now >= time[t])
    BY <1>3, <2>1, RootKept DEF RootIsDue
  <2> QED
    BY <2>2 DEF Promise!Due, TimerInv
<1> QED
  BY <1>1, <1>2, <1>3 DEF Promise!SetReturn

LEMMA InitRefines == TimerInit => Promise!SetInit
  BY DEF TimerInit, Promise!SetInit

LEMMA StepRefines ==
  ASSUME ~Restart, TimerInv, [TimerNext]_vars
  PROVE  [Promise!SetNext]_(Promise!avars)
<1>1. CASE UNCHANGED vars
  BY <1>1 DEF vars, Promise!avars
<1>2. ASSUME behind = {}, NEW t \in Timers, Create(t) PROVE Promise!SetNext
  BY <1>2 DEF Create, Promise!SetCreate, Promise!SetNext
<1>3. ASSUME behind = {}, NEW t \in Timers, Start(t) PROVE Promise!SetNext
  <2>1. Promise!SetStart(t)
    BY <1>3 DEF Start, Deadline, Stored, Promise!SetStart, Promise!Deadline
  <2> QED
    BY <1>3, <2>1 DEF Promise!SetNext
<1>4. ASSUME behind = {}, NEW t \in Timers, Stop(t) \/ Destroy(t) PROVE Promise!SetNext
  BY <1>4, DisarmRefines DEF Promise!SetNext
<1>5. CASE behind = {} /\ Run
  BY <1>5, RunRefines DEF Promise!SetNext
<1>6. CASE behind = {} /\ UpdateReturns
  BY <1>6, ReturnRefines DEF Promise!SetNext
<1>7. CASE behind = {} /\ Tick
  BY <1>7 DEF Tick, Promise!SetTick, Promise!SetNext
<1> QED
  BY <1>1, <1>2, <1>3, <1>4, <1>5, <1>6, <1>7 DEF TimerNext

(* update() runs the timers that are due, the earliest first, returns only  *)
(* when none is due or its turns are used up, and runs none that was        *)
(* stopped or deleted: the timers with their heap implement TimerSet, where *)
(* due and earliest are comparisons of readings of a clock that wraps, and  *)
(* which promises no more once an armed timer with m_time 0 was stopped.    *)
THEOREM TimerSetRefined ==
  ASSUME ~Restart
  PROVE  TimerSpec => ImplementsTimerSet
<1>1. TimerInit => Promise!SetInit
  BY InitRefines
<1>2. TimerInv /\ [TimerNext]_vars => [Promise!SetNext]_(Promise!avars)
  BY StepRefines
<1> QED
  BY <1>1, <1>2, TimerInvAlways, PTL DEF TimerSpec, ImplementsTimerSet, Promise!SetSpec
=============================================================================
