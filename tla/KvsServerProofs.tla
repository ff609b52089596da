-------------------------- MODULE KvsServerProofs --------------------------
(***************************************************************************)
(* Proofs about KvsServer, for any sets of job threads, managers, keys and *)
(* values, any commands, any hash function and any capacity of the pipes.  *)
(* First what the functions of KvsTable do to the nodes of a table, at the *)
(* end that KvsServer implements AtomicStore.                              *)
(***************************************************************************)
EXTENDS KvsServer, SequenceTheorems, WellFoundedInduction, TLAPS

-----------------------------------------------------------------------------
(* Sequences.                                                              *)

\* The sequence with one more element in front.
LEMMA FrontProperties ==
  ASSUME NEW S, NEW s \in Seq(S), NEW x \in S
  PROVE  /\ <<x>> \o s \in Seq(S) /\ Len(<<x>> \o s) = Len(s) + 1 /\ Len(s) \in Nat
         /\ (<<x>> \o s)[1] = x
         /\ \A i \in 2 .. Len(s) + 1 : (<<x>> \o s)[i] = s[i - 1]
<1>1. <<x>> \in Seq(S) /\ Len(<<x>>) = 1 /\ <<x>>[1] = x
  OBVIOUS
<1>2. Len(s) \in Nat
  BY LenProperties
<1>3. /\ <<x>> \o s \in Seq(S) /\ Len(<<x>> \o s) = 1 + Len(s)
      /\ \A i \in 1 .. 1 + Len(s) : (<<x>> \o s)[i] = IF i <= 1 THEN <<x>>[i] ELSE s[i - 1]
  BY <1>1, ConcatProperties
<1> QED BY <1>1, <1>2, <1>3

\* The sequence without its i-th element.
LEMMA RemoveAtProperties ==
  ASSUME NEW S, NEW s \in Seq(S), NEW i \in 1 .. Len(s)
  PROVE  /\ RemoveAt(s, i) \in Seq(S) /\ Len(RemoveAt(s, i)) = Len(s) - 1 /\ Len(s) \in Nat
         /\ \A j \in 1 .. Len(s) - 1 : RemoveAt(s, i)[j] = IF j < i THEN s[j] ELSE s[j + 1]
<1> DEFINE a == SubSeq(s, 1, i - 1)
           b == SubSeq(s, i + 1, Len(s))
<1>1. Len(s) \in Nat /\ \A j \in 1 .. Len(s) : s[j] \in S
  BY LenProperties
<1>2. a \in Seq(S) /\ Len(a) = i - 1 /\ \A j \in 1 .. i - 1 : a[j] = s[j]
  <2>1. /\ a \in Seq(S) /\ Len(a) = (IF 1 <= i - 1 THEN i - 1 - 1 + 1 ELSE 0)
        /\ \A j \in 1 .. i - 1 - 1 + 1 : a[j] = s[1 + j - 1]
    BY <1>1, SubSeqProperties
  <2> HIDE DEF a
  <2> QED BY <1>1, <2>1
<1>3. b \in Seq(S) /\ Len(b) = Len(s) - i /\ \A j \in 1 .. Len(s) - i : b[j] = s[i + j]
  <2>1. /\ b \in Seq(S) /\ Len(b) = (IF i + 1 <= Len(s) THEN Len(s) - (i + 1) + 1 ELSE 0)
        /\ \A j \in 1 .. Len(s) - (i + 1) + 1 : b[j] = s[i + 1 + j - 1]
    BY <1>1, SubSeqProperties
  <2> HIDE DEF b
  <2> QED BY <1>1, <2>1
<1>4. RemoveAt(s, i) = a \o b
  BY DEF RemoveAt
<1> HIDE DEF a, b
<1>5. /\ a \o b \in Seq(S) /\ Len(a \o b) = Len(s) - 1
      /\ \A j \in 1 .. Len(s) - 1 : (a \o b)[j] = IF j < i THEN s[j] ELSE s[j + 1]
  <2>1. /\ a \o b \in Seq(S) /\ Len(a \o b) = Len(a) + Len(b)
        /\ \A j \in 1 .. Len(a) + Len(b) : (a \o b)[j] =
              IF j <= Len(a) THEN a[j] ELSE b[j - Len(a)]
    BY <1>2, <1>3, ConcatProperties
  <2>2. ASSUME NEW j \in 1 .. i - 1 PROVE (a \o b)[j] = s[j]
    BY <1>1, <1>2, <1>3, <2>1
  <2>3. ASSUME NEW j \in i .. Len(s) - 1 PROVE (a \o b)[j] = s[j + 1]
    <3>1. j - (i - 1) \in 1 .. Len(s) - i /\ i + (j - (i - 1)) = j + 1
      BY <1>1
    <3>2. (a \o b)[j] = b[j - (i - 1)]
      BY <1>1, <1>2, <1>3, <2>1
    <3>3. b[j - (i - 1)] = s[i + (j - (i - 1))]
      BY <1>3, <3>1
    <3> QED BY <3>1, <3>2, <3>3
  <2>4. ASSUME NEW j \in 1 .. Len(s) - 1
        PROVE  (a \o b)[j] = IF j < i THEN s[j] ELSE s[j + 1]
    <3>1. CASE j < i
      <4>1. j \in 1 .. i - 1
        BY <1>1, <3>1
      <4> QED BY <2>2, <3>1, <4>1
    <3>2. CASE ~(j < i)
      <4>1. j \in i .. Len(s) - 1
        BY <1>1, <3>2
      <4> QED BY <2>3, <3>2, <4>1
    <3> QED BY <3>1, <3>2
  <2> QED BY <1>1, <1>2, <1>3, <2>1, <2>4
<1> QED BY <1>1, <1>4, <1>5

-----------------------------------------------------------------------------
(* Lookups.                                                                *)

IsTable(store) == store \in [Buckets -> Seq(Node)] /\ WellFormed(store)

\* The bucket of a key is a sequence of nodes.
LEMMA BucketOfKey ==
  ASSUME NEW store \in [Buckets -> Seq(Node)], NEW k \in Keys
  PROVE  /\ hash[k] \in Buckets /\ store[hash[k]] \in Seq(Node)
         /\ Len(store[hash[k]]) \in Nat /\ DOMAIN store[hash[k]] = 1 .. Len(store[hash[k]])
         /\ \A i \in 1 .. Len(store[hash[k]]) : store[hash[k]][i] \in Node
<1>1. hash[k] \in Buckets
  BY HashAssumption DEF Buckets
<1>2. store[hash[k]] \in Seq(Node)
  BY <1>1
<1> QED BY <1>1, <1>2, LenProperties

\* The search stops at the only node that has the key.
LEMMA NodeIs ==
  ASSUME NEW store, IsTable(store), NEW k \in Keys,
         NEW i \in 1 .. Len(store[hash[k]]), store[hash[k]][i].key = k
  PROVE  /\ Found(store, k) /\ Position(store, k) = i /\ NodeOf(store, k) = store[hash[k]][i]
<1>1. /\ hash[k] \in Buckets /\ DOMAIN store[hash[k]] = 1 .. Len(store[hash[k]])
      /\ Len(store[hash[k]]) \in Nat
  BY BucketOfKey DEF IsTable
<1>2. Positions(store, k) = {i}
  BY <1>1 DEF Positions, IsTable, WellFormed
<1>3. Min({i}) = i
  BY <1>1 DEF Min
<1> QED BY <1>2, <1>3 DEF Found, Position, NodeOf

\* And it finds such a node whenever there is one.
LEMMA FoundNode ==
  ASSUME NEW store, IsTable(store), NEW k \in Keys
  PROVE  /\ Found(store, k) <=> \E i \in 1 .. Len(store[hash[k]]) : store[hash[k]][i].key = k
         /\ Found(store, k) => /\ Position(store, k) \in 1 .. Len(store[hash[k]])
                               /\ NodeOf(store, k) = store[hash[k]][Position(store, k)]
                               /\ NodeOf(store, k) \in Node /\ NodeOf(store, k).key = k
<1>1. /\ DOMAIN store[hash[k]] = 1 .. Len(store[hash[k]])
      /\ \A i \in 1 .. Len(store[hash[k]]) : store[hash[k]][i] \in Node
  BY BucketOfKey DEF IsTable
<1>2. Found(store, k) <=> \E i \in 1 .. Len(store[hash[k]]) : store[hash[k]][i].key = k
  BY <1>1 DEF Found, Positions
<1>3. ASSUME Found(store, k)
      PROVE  /\ Position(store, k) \in 1 .. Len(store[hash[k]])
             /\ NodeOf(store, k) = store[hash[k]][Position(store, k)]
             /\ NodeOf(store, k) \in Node /\ NodeOf(store, k).key = k
  <2>1. PICK i \in 1 .. Len(store[hash[k]]) : store[hash[k]][i].key = k
    BY <1>2, <1>3
  <2> QED BY <2>1, <1>1, NodeIs
<1> QED BY <1>2, <1>3

\* What a table and another one say of a key when their buckets hold the same
\* node for it, or both none.
LEMMA SameNode ==
  ASSUME NEW t, IsTable(t), NEW u, IsTable(u), NEW k \in Keys,
         \A i \in 1 .. Len(t[hash[k]]) : t[hash[k]][i].key = k =>
           \E j \in 1 .. Len(u[hash[k]]) : u[hash[k]][j] = t[hash[k]][i],
         \A j \in 1 .. Len(u[hash[k]]) : u[hash[k]][j].key = k =>
           \E i \in 1 .. Len(t[hash[k]]) : t[hash[k]][i].key = k
  PROVE  /\ Found(u, k) <=> Found(t, k)
         /\ Found(t, k) => NodeOf(u, k) = NodeOf(t, k)
<1>1. Found(u, k) <=> Found(t, k)
  BY FoundNode
<1>2. ASSUME Found(t, k) PROVE NodeOf(u, k) = NodeOf(t, k)
  <2>1. /\ Position(t, k) \in 1 .. Len(t[hash[k]]) /\ NodeOf(t, k).key = k
        /\ NodeOf(t, k) = t[hash[k]][Position(t, k)]
    BY <1>2, FoundNode
  <2>2. PICK j \in 1 .. Len(u[hash[k]]) : u[hash[k]][j] = NodeOf(t, k)
    BY <2>1
  <2> QED BY <2>1, <2>2, NodeIs
<1> QED BY <1>1, <1>2

-----------------------------------------------------------------------------
(* The functions that change the table.                                    *)

\* A table whose nodes are changed in place, but not their keys, stays one.
LEMMA SameKeys ==
  ASSUME NEW store, IsTable(store), NEW u \in [Buckets -> Seq(Node)],
         \A c \in Buckets : Len(u[c]) = Len(store[c]),
         \A c \in Buckets : \A i \in 1 .. Len(store[c]) : u[c][i].key = store[c][i].key
  PROVE  IsTable(u)
<1>1. \A c \in Buckets : DOMAIN u[c] = DOMAIN store[c] /\ DOMAIN store[c] = 1 .. Len(store[c])
  BY LenProperties DEF IsTable
<1>2. \A c \in Buckets : \A i \in DOMAIN u[c] : hash[u[c][i].key] = c
  BY <1>1 DEF IsTable, WellFormed
<1>3. ASSUME NEW c \in Buckets, NEW i \in DOMAIN u[c], NEW j \in DOMAIN u[c],
             u[c][i].key = u[c][j].key
      PROVE  i = j
  BY <1>1, <1>3 DEF IsTable, WellFormed
<1> QED BY <1>2, <1>3 DEF IsTable, WellFormed

\* A node is replaced by another one of the same key.
LEMMA SetNodeProperties ==
  ASSUME NEW store, IsTable(store), NEW k \in Keys, Found(store, k),
         NEW node \in Node, node.key = k
  PROVE  /\ IsTable(SetNode(store, k, node))
         /\ \A j \in Keys : Found(SetNode(store, k, node), j) <=> Found(store, j)
         /\ \A j \in Keys : Found(store, j) =>
              NodeOf(SetNode(store, k, node), j) = IF j = k THEN node ELSE NodeOf(store, j)
<1> DEFINE u == SetNode(store, k, node)
           b == hash[k]
           p == Position(store, k)
<1>1. /\ b \in Buckets /\ store \in [Buckets -> Seq(Node)] /\ store[b] \in Seq(Node)
      /\ p \in 1 .. Len(store[b]) /\ store[b][p].key = k
  BY BucketOfKey, FoundNode DEF IsTable
<1>2. u = [store EXCEPT ![b] = [store[b] EXCEPT ![p] = node]]
  BY DEF SetNode
<1>3. /\ [store[b] EXCEPT ![p] = node] \in Seq(Node)
      /\ Len([store[b] EXCEPT ![p] = node]) = Len(store[b])
      /\ \A i \in 1 .. Len(store[b]) :
           [store[b] EXCEPT ![p] = node][i] = IF i = p THEN node ELSE store[b][i]
  BY <1>1, ExceptSeq
<1>4. /\ u \in [Buckets -> Seq(Node)] /\ \A c \in Buckets \ {b} : u[c] = store[c]
      /\ Len(u[b]) = Len(store[b])
      /\ \A i \in 1 .. Len(store[b]) : u[b][i] = IF i = p THEN node ELSE store[b][i]
  BY <1>1, <1>2, <1>3
<1> HIDE DEF u, b, p
<1>5. \A c \in Buckets : /\ DOMAIN store[c] = 1 .. Len(store[c])
                          /\ DOMAIN u[c] = 1 .. Len(u[c])
                          /\ Len(u[c]) = Len(store[c])
  BY <1>1, <1>4, LenProperties
<1>6. \A c \in Buckets : \A i \in 1 .. Len(store[c]) : u[c][i].key = store[c][i].key
  BY <1>1, <1>4
<1>7. IsTable(u)
  BY <1>4, <1>5, <1>6, SameKeys
<1>8. u[b][p] = node /\ p \in 1 .. Len(u[b])
  BY <1>1, <1>4
<1>9. Found(u, k) /\ NodeOf(u, k) = node
  BY <1>7, <1>8, NodeIs DEF b
<1>10. ASSUME NEW j \in Keys, j # k
       PROVE  /\ Found(u, j) <=> Found(store, j)
              /\ Found(store, j) => NodeOf(u, j) = NodeOf(store, j)
  <2>1. hash[j] \in Buckets /\ Len(u[hash[j]]) = Len(store[hash[j]])
    BY <1>5, BucketOfKey, <1>1
  <2>2. \A i \in 1 .. Len(store[hash[j]]) :
          /\ store[hash[j]][i].key = j => u[hash[j]][i] = store[hash[j]][i]
          /\ u[hash[j]][i].key = store[hash[j]][i].key
    BY <1>1, <1>4, <1>6, <1>10, <2>1
  <2> QED BY <1>7, <2>1, <2>2, SameNode
<1> QED BY <1>7, <1>9, <1>10 DEF u

\* A node is put at the head of the bucket of a key that has none.
LEMMA InsertProperties ==
  ASSUME NEW store, IsTable(store), NEW k \in Keys, ~Found(store, k),
         NEW node \in Node, node.key = k,
         NEW u, u \in [Buckets -> Seq(Node)],
         \A c \in Buckets \ {hash[k]} : u[c] = store[c],
         u[hash[k]] = <<node>> \o store[hash[k]]
  PROVE  /\ IsTable(u)
         /\ Found(u, k) /\ NodeOf(u, k) = node
         /\ \A j \in Keys \ {k} : /\ Found(u, j) <=> Found(store, j)
                                  /\ Found(store, j) => NodeOf(u, j) = NodeOf(store, j)
<1>0. PICK b \in Buckets : b = hash[k]
  BY BucketOfKey DEF IsTable
<1> DEFINE n == Len(store[b])
<1>1. /\ store \in [Buckets -> Seq(Node)]
      /\ \A i \in 1 .. n : store[b][i].key # k
      /\ \A c \in Buckets \ {b} : u[c] = store[c]
      /\ Len(u[b]) = n + 1 /\ u[b][1] = node
      /\ \A i \in 2 .. n + 1 : u[b][i] = store[b][i - 1]
  <2>1. store \in [Buckets -> Seq(Node)] /\ store[b] \in Seq(Node)
    BY DEF IsTable
  <2>2. \A i \in 1 .. n : store[b][i].key # k
    BY <1>0, FoundNode
  <2> QED BY <1>0, <2>1, <2>2, FrontProperties
<1>2. n \in Nat
  BY <1>1, LenProperties
<1>3. \A c \in Buckets : DOMAIN store[c] = 1 .. Len(store[c]) /\ DOMAIN u[c] = 1 .. Len(u[c])
  BY <1>1, LenProperties
<1>4. \A x \in DOMAIN u[b] : x = 1 \/ x \in 2 .. n + 1
  BY <1>2, <1>3
<1>5. \A x \in 2 .. n + 1 : /\ x - 1 \in 1 .. n /\ x - 1 \in DOMAIN store[b]
                            /\ u[b][x] = store[b][x - 1]
  BY <1>0, <1>1, <1>2, <1>3
<1>6. \A i \in DOMAIN store[b] : hash[store[b][i].key] = b
  BY DEF IsTable, WellFormed
<1>7. \A i, j \in DOMAIN store[b] : store[b][i].key = store[b][j].key => i = j
  BY DEF IsTable, WellFormed
<1>8. \A x \in 2 .. n + 1 : u[b][x].key # k /\ hash[u[b][x].key] = b
  BY <1>0, <1>1, <1>5, <1>6
<1>9. \A c \in Buckets : \A i \in DOMAIN u[c] : hash[u[c][i].key] = c
  <2>1. ASSUME NEW c \in Buckets, NEW i \in DOMAIN u[c], c # b PROVE hash[u[c][i].key] = c
    BY <1>0, <1>1, <2>1 DEF IsTable, WellFormed
  <2>2. \A i \in DOMAIN u[b] : hash[u[b][i].key] = b
    BY <1>0, <1>1, <1>4, <1>8
  <2> QED BY <2>1, <2>2
<1>10. \A x, y \in 2 .. n + 1 : u[b][x].key = u[b][y].key => x = y
  <2> SUFFICES ASSUME NEW x \in 2 .. n + 1, NEW y \in 2 .. n + 1, u[b][x].key = u[b][y].key
               PROVE  x = y
    OBVIOUS
  <2>1. /\ x - 1 \in DOMAIN store[b] /\ u[b][x] = store[b][x - 1]
        /\ y - 1 \in DOMAIN store[b] /\ u[b][y] = store[b][y - 1]
    BY <1>5
  <2>2. store[b][x - 1].key = store[b][y - 1].key
    BY <2>1
  <2>3. x - 1 = y - 1
    BY <1>7, <2>1, <2>2
  <2> QED BY <1>2, <2>3
<1>11. \A c \in Buckets : \A i, j \in DOMAIN u[c] : u[c][i].key = u[c][j].key => i = j
  <2>1. ASSUME NEW c \in Buckets, NEW i \in DOMAIN u[c], NEW j \in DOMAIN u[c], c # b,
               u[c][i].key = u[c][j].key
        PROVE  i = j
    BY <1>0, <1>1, <2>1 DEF IsTable, WellFormed
  <2>2. ASSUME NEW i \in DOMAIN u[b], NEW j \in DOMAIN u[b], u[b][i].key = u[b][j].key
        PROVE  i = j
    <3>1. CASE i = 1
      BY <1>0, <1>1, <1>4, <1>8, <2>2, <3>1
    <3>2. CASE j = 1
      BY <1>0, <1>1, <1>4, <1>8, <2>2, <3>2
    <3>3. CASE i \in 2 .. n + 1 /\ j \in 2 .. n + 1
      BY <1>10, <2>2, <3>3
    <3> QED BY <1>4, <3>1, <3>2, <3>3
  <2> QED BY <2>1, <2>2
<1>12. IsTable(u)
  BY <1>9, <1>11 DEF IsTable, WellFormed
<1>13. Found(u, k) /\ NodeOf(u, k) = node
  <2>1. 1 \in 1 .. Len(u[b])
    BY <1>0, <1>1, <1>2
  <2> QED BY <1>12, <2>1, NodeIs
<1>14. ASSUME NEW j \in Keys \ {k}
       PROVE  /\ Found(u, j) <=> Found(store, j)
              /\ Found(store, j) => NodeOf(u, j) = NodeOf(store, j)
  <2> DEFINE c == hash[j]
  <2>1. c \in Buckets
    BY BucketOfKey, <1>1
  <2>2. ASSUME NEW i \in 1 .. Len(store[c]), store[c][i].key = j
        PROVE  \E x \in 1 .. Len(u[c]) : u[c][x] = store[c][i]
    <3>1. CASE c # b
      BY <1>0, <1>1, <2>1, <3>1
    <3>2. CASE c = b
      <4>1. i + 1 \in 2 .. n + 1 /\ i + 1 \in 1 .. Len(u[b]) /\ (i + 1) - 1 = i
        BY <1>0, <1>1, <1>2, <3>2
      <4>2. u[b][i + 1] = store[b][i]
        BY <1>0, <1>1, <4>1
      <4> QED BY <3>2, <4>1, <4>2
    <3> QED BY <3>1, <3>2
  <2>3. ASSUME NEW x \in 1 .. Len(u[c]), u[c][x].key = j
        PROVE  \E i \in 1 .. Len(store[c]) : store[c][i].key = j
    <3>1. CASE c # b
      BY <1>0, <1>1, <2>1, <2>3, <3>1
    <3>2. CASE c = b
      <4>1. x \in 2 .. n + 1
        BY <1>0, <1>1, <1>2, <2>3, <3>2
      <4> QED BY <1>5, <2>3, <3>2, <4>1
    <3> QED BY <3>1, <3>2
  <2> QED BY <1>12, <2>2, <2>3, SameNode
<1> QED BY <1>12, <1>13, <1>14

\* A node is unlinked.
LEMMA DeleteProperties ==
  ASSUME NEW store, IsTable(store), NEW k \in Keys,
         NEW u, u = delete_pair(store, k)
  PROVE  /\ IsTable(u) /\ ~Found(u, k)
         /\ \A j \in Keys \ {k} : /\ Found(u, j) <=> Found(store, j)
                                  /\ Found(store, j) => NodeOf(u, j) = NodeOf(store, j)
<1>1. CASE ~Found(store, k)
  BY <1>1 DEF delete_pair
<1>2. CASE Found(store, k)
  <2> DEFINE b == hash[k]
             p == Position(store, k)
             n == Len(store[b])
  <2>1. /\ b \in Buckets /\ store \in [Buckets -> Seq(Node)] /\ store[b] \in Seq(Node)
        /\ p \in 1 .. n /\ store[b][p].key = k /\ n \in Nat
    BY <1>2, BucketOfKey, FoundNode DEF IsTable
  <2>2. u = [store EXCEPT ![b] = RemoveAt(store[b], p)]
    BY <1>2 DEF delete_pair
  <2>3. /\ RemoveAt(store[b], p) \in Seq(Node) /\ Len(RemoveAt(store[b], p)) = n - 1
        /\ \A j \in 1 .. n - 1 :
             RemoveAt(store[b], p)[j] = IF j < p THEN store[b][j] ELSE store[b][j + 1]
    BY <2>1, RemoveAtProperties
  <2>4. /\ u \in [Buckets -> Seq(Node)] /\ \A c \in Buckets \ {b} : u[c] = store[c]
        /\ Len(u[b]) = n - 1
        /\ \A j \in 1 .. n - 1 : u[b][j] = IF j < p THEN store[b][j] ELSE store[b][j + 1]
    <3> HIDE DEF b, p
    <3> QED BY <2>1, <2>2, <2>3
  <2>5. u \in [Buckets -> Seq(Node)] /\ \A c \in Buckets \ {hash[k]} : u[c] = store[c]
    BY <2>4
  <2>6. PICK f : f = [j \in 1 .. n - 1 |-> IF j < p THEN j ELSE j + 1]
    OBVIOUS
  <2>7. \A j \in 1 .. n - 1 : f[j] \in 1 .. n /\ f[j] # p /\ u[b][j] = store[b][f[j]]
    <3> HIDE DEF b, p
    <3> SUFFICES ASSUME NEW j \in 1 .. n - 1
                 PROVE  f[j] \in 1 .. n /\ f[j] # p /\ u[b][j] = store[b][f[j]]
      OBVIOUS
    <3>1. CASE j < p
      BY <2>1, <2>4, <2>6, <3>1
    <3>2. CASE ~(j < p)
      BY <2>1, <2>4, <2>6, <3>2
    <3> QED BY <3>1, <3>2
  <2>8. \A i, j \in 1 .. n - 1 : f[i] = f[j] => i = j
    <3> HIDE DEF b, p, n
    <3> QED BY <2>1, <2>6
  <2>9. \A i \in 1 .. n : i # p => \E j \in 1 .. n - 1 : u[b][j] = store[b][i]
    <3> HIDE DEF b, p
    <3> SUFFICES ASSUME NEW i \in 1 .. n, i # p
                 PROVE  \E j \in 1 .. n - 1 : u[b][j] = store[b][i]
      OBVIOUS
    <3>1. CASE i < p
      <4>1. i \in 1 .. n - 1
        BY <2>1, <3>1
      <4> QED BY <2>4, <3>1, <4>1
    <3>2. CASE i > p
      <4>1. i - 1 \in 1 .. n - 1 /\ ~(i - 1 < p) /\ (i - 1) + 1 = i
        BY <2>1, <3>2
      <4>2. u[b][i - 1] = store[b][(i - 1) + 1]
        BY <2>4, <4>1
      <4> QED BY <4>1, <4>2
    <3> QED BY <2>1, <3>1, <3>2
  <2>10. \A c \in Buckets : DOMAIN store[c] = 1 .. Len(store[c]) /\ DOMAIN u[c] = 1 .. Len(u[c])
    BY <2>1, <2>4, LenProperties
  <2>11. IsTable(u)
    <3>1. \A c \in Buckets : \A i \in DOMAIN u[c] : hash[u[c][i].key] = c
      <4>1. ASSUME NEW c \in Buckets, NEW i \in DOMAIN u[c], c # b PROVE hash[u[c][i].key] = c
        BY <2>5, <4>1 DEF IsTable, WellFormed
      <4>2. ASSUME NEW i \in DOMAIN u[b] PROVE hash[u[b][i].key] = b
        <5>1. i \in 1 .. n - 1
          BY <2>1, <2>4, <2>10
        <5>2. f[i] \in DOMAIN store[b] /\ u[b][i] = store[b][f[i]]
          BY <2>1, <2>7, <2>10, <5>1
        <5> QED BY <2>1, <5>2 DEF IsTable, WellFormed
      <4> QED BY <4>1, <4>2
    <3>2. \A c \in Buckets : \A i, j \in DOMAIN u[c] : u[c][i].key = u[c][j].key => i = j
      <4>1. ASSUME NEW c \in Buckets, NEW i \in DOMAIN u[c], NEW j \in DOMAIN u[c], c # b,
                   u[c][i].key = u[c][j].key
            PROVE  i = j
        BY <2>5, <4>1 DEF IsTable, WellFormed
      <4>2. ASSUME NEW i \in DOMAIN u[b], NEW j \in DOMAIN u[b], u[b][i].key = u[b][j].key
            PROVE  i = j
        <5>1. i \in 1 .. n - 1 /\ j \in 1 .. n - 1
          BY <2>1, <2>4, <2>10
        <5>2. /\ f[i] \in DOMAIN store[b] /\ u[b][i] = store[b][f[i]]
              /\ f[j] \in DOMAIN store[b] /\ u[b][j] = store[b][f[j]]
          BY <2>1, <2>7, <2>10, <5>1
        <5>3. f[i] = f[j]
          BY <2>1, <4>2, <5>2 DEF IsTable, WellFormed
        <5> QED BY <2>8, <5>1, <5>3
      <4> QED BY <4>1, <4>2
    <3> QED BY <2>4, <3>1, <3>2 DEF IsTable, WellFormed
  <2>12. \A i \in 1 .. n : store[b][i].key = k => i = p
    BY <2>1, <2>10 DEF IsTable, WellFormed
  <2>13. \A j \in 1 .. Len(u[b]) : f[j] \in 1 .. n /\ f[j] # p /\ u[b][j] = store[b][f[j]]
    <3>1. 1 .. Len(u[b]) = 1 .. n - 1
      BY <2>4
    <3> QED BY <2>7, <3>1
  <2>14. ~Found(u, k)
    <3>1. \A j \in 1 .. Len(u[b]) : u[b][j].key # k
      BY <2>12, <2>13
    <3> QED BY <2>11, <3>1, FoundNode
  <2>15. ASSUME NEW j \in Keys \ {k}
         PROVE  /\ Found(u, j) <=> Found(store, j)
                /\ Found(store, j) => NodeOf(u, j) = NodeOf(store, j)
    <3>1. hash[j] \in Buckets
      BY <2>1, BucketOfKey
    <3>2. ASSUME NEW i \in 1 .. Len(store[hash[j]]), store[hash[j]][i].key = j
          PROVE  \E x \in 1 .. Len(u[hash[j]]) : u[hash[j]][x] = store[hash[j]][i]
      <4>1. CASE hash[j] # b
        BY <2>4, <3>1, <3>2, <4>1
      <4>2. CASE hash[j] = b
        <5>1. i \in 1 .. n /\ i # p
          BY <2>1, <3>2, <4>2
        <5>2. PICK x \in 1 .. n - 1 : u[b][x] = store[b][i]
          BY <2>9, <5>1
        <5>3. x \in 1 .. Len(u[b])
          BY <2>4
        <5> QED BY <4>2, <5>2, <5>3
      <4> QED BY <4>1, <4>2
    <3>3. ASSUME NEW x \in 1 .. Len(u[hash[j]]), u[hash[j]][x].key = j
          PROVE  \E i \in 1 .. Len(store[hash[j]]) : store[hash[j]][i].key = j
      <4>1. CASE hash[j] # b
        BY <2>4, <3>1, <3>3, <4>1
      <4>2. CASE hash[j] = b
        BY <2>13, <3>3, <4>2
      <4> QED BY <4>1, <4>2
    <3> QED BY <2>11, <3>2, <3>3, SameNode
  <2> QED BY <2>11, <2>14, <2>15
<1> QED BY <1>1, <1>2

-----------------------------------------------------------------------------
(* What the rest of the server sees of a table: whether a key is there,    *)
(* its value and its subscribers.                                          *)

\* The empty table.
LEMMA EmptyTableProperties ==
  /\ IsTable(EmptyTable)
  /\ \A k \in Keys : ~Found(EmptyTable, k)
<1>1. EmptyTable \in [Buckets -> Seq(Node)] /\ \A b \in Buckets : Len(EmptyTable[b]) = 0
  BY EmptySeq DEF EmptyTable
<1>2. IsTable(EmptyTable)
  BY <1>1 DEF EmptyTable, IsTable, WellFormed
<1>3. ASSUME NEW k \in Keys PROVE ~Found(EmptyTable, k)
  <2>1. 1 .. Len(EmptyTable[hash[k]]) = {}
    BY <1>1, <1>2, BucketOfKey DEF IsTable
  <2> QED BY <1>2, <2>1, FoundNode
<1> QED BY <1>2, <1>3

\* The value that a lookup yields, and Missing only for an absent key.
LEMMA ReadProperties ==
  ASSUME NEW store, IsTable(store), NEW k \in Keys
  PROVE  /\ read_pair(store, k) \in Values \cup {Missing}
         /\ read_pair(store, k) = Missing <=> ~Found(store, k)
         /\ notified(store, k) \in Seq(Fds)
<1>1. Found(store, k) => NodeOf(store, k).value \in Values /\ NodeOf(store, k).notif_pipes \in Seq(Fds)
  BY FoundNode DEF Node
<1>2. <<>> \in Seq(Fds)
  BY EmptySeq
<1> QED BY <1>1, <1>2, MissingAssumption DEF read_pair, notified

\* write_pair changes the value of one key and nobody's subscriptions: a new
\* node has none.
LEMMA WriteProperties ==
  ASSUME NEW store, IsTable(store), NEW k \in Keys, NEW v \in Values,
         NEW u, u = write_pair(store, k, v)
  PROVE  /\ IsTable(u)
         /\ \A j \in Keys : read_pair(u, j) = IF j = k THEN v ELSE read_pair(store, j)
         /\ \A f : Subscriptions(u, f) = Subscriptions(store, f)
<1> DEFINE new == [key |-> k, value |-> v, notif_pipes |-> <<>>]
           set == [NodeOf(store, k) EXCEPT !.value = v]
<1>1. CASE Found(store, k)
  <2>1. NodeOf(store, k) \in Node /\ NodeOf(store, k).key = k
    BY <1>1, FoundNode
  <2>2. /\ set \in Node /\ set.key = k /\ set.value = v
        /\ set.notif_pipes = NodeOf(store, k).notif_pipes
    BY <2>1 DEF Node
  <2>3. u = SetNode(store, k, set)
    BY <1>1 DEF write_pair
  <2> HIDE DEF set
  <2>4. /\ IsTable(u)
        /\ \A j \in Keys : Found(u, j) <=> Found(store, j)
        /\ \A j \in Keys : Found(store, j) =>
             NodeOf(u, j) = IF j = k THEN set ELSE NodeOf(store, j)
    BY <1>1, <2>2, <2>3, SetNodeProperties
  <2>5. \A j \in Keys : read_pair(u, j) = IF j = k THEN v ELSE read_pair(store, j)
    BY <1>1, <2>2, <2>4 DEF read_pair
  <2>6. \A j \in Keys : Found(u, j) => NodeOf(u, j).notif_pipes = NodeOf(store, j).notif_pipes
    BY <1>1, <2>2, <2>4
  <2> QED BY <2>4, <2>5, <2>6 DEF Subscriptions
<1>2. CASE ~Found(store, k)
  <2>1. new \in Node /\ new.key = k /\ new.value = v /\ new.notif_pipes = <<>>
    BY EmptySeq DEF Node
  <2>2. u = [store EXCEPT ![hash[k]] = <<new>> \o store[hash[k]]]
    BY <1>2 DEF write_pair
  <2>3. hash[k] \in Buckets /\ store \in [Buckets -> Seq(Node)]
    BY BucketOfKey DEF IsTable
  <2> HIDE DEF new
  <2>4. <<new>> \o store[hash[k]] \in Seq(Node)
    BY <2>1, <2>3, FrontProperties
  <2>5. /\ u \in [Buckets -> Seq(Node)]
        /\ \A c \in Buckets \ {hash[k]} : u[c] = store[c]
        /\ u[hash[k]] = <<new>> \o store[hash[k]]
    BY <2>2, <2>3, <2>4
  <2>6. /\ IsTable(u)
        /\ Found(u, k) /\ NodeOf(u, k) = new
        /\ \A j \in Keys \ {k} : /\ Found(u, j) <=> Found(store, j)
                                 /\ Found(store, j) => NodeOf(u, j) = NodeOf(store, j)
    BY <1>2, <2>1, <2>5, InsertProperties
  <2>7. \A j \in Keys : read_pair(u, j) = IF j = k THEN v ELSE read_pair(store, j)
    BY <2>1, <2>6 DEF read_pair
  <2>8. \A f : ~Listed(NodeOf(u, k).notif_pipes, f)
    BY <2>1, <2>6 DEF Listed
  <2> QED BY <1>2, <2>6, <2>7, <2>8 DEF Subscriptions
<1> QED BY <1>1, <1>2

\* delete_pair removes one key and its subscriptions.
LEMMA DeleteContents ==
  ASSUME NEW store, IsTable(store), NEW k \in Keys,
         NEW u, u = delete_pair(store, k)
  PROVE  /\ IsTable(u)
         /\ \A j \in Keys : read_pair(u, j) = IF j = k THEN Missing ELSE read_pair(store, j)
         /\ \A f : Subscriptions(u, f) = Subscriptions(store, f) \ {k}
<1>1. /\ IsTable(u) /\ ~Found(u, k)
      /\ \A j \in Keys \ {k} : /\ Found(u, j) <=> Found(store, j)
                               /\ Found(store, j) => NodeOf(u, j) = NodeOf(store, j)
  BY DeleteProperties
<1> QED BY <1>1 DEF read_pair, Subscriptions

\* Min is the least element of a set of numbers.
LEMMA MinOfNumbers ==
  ASSUME NEW T, T \subseteq Nat, T # {}
  PROVE  Min(T) \in T /\ \A y \in T : Min(T) <= y
<1>1. \E x \in T : \A y \in T : ~ (<<y, x>> \in OpToRel(<, Nat))
  BY NatLessThanWellFounded, WFMin
<1>2. PICK x \in T : \A y \in T : ~ (<<y, x>> \in OpToRel(<, Nat))
  BY <1>1
<1>3. ASSUME NEW y \in T PROVE x <= y
  <2>1. <<y, x>> \in Nat \X Nat /\ ~ (<<y, x>> \in OpToRel(<, Nat))
    BY <1>2
  <2>2. ~ (y < x)
    BY <2>1 DEF OpToRel
  <2> QED BY <2>2
<1> QED BY <1>3 DEF Min

\* Removing a descriptor from a list leaves only descriptors that were in it.
LEMMA RemovePipe ==
  ASSUME NEW pipes \in Seq(Fds), NEW f
  PROVE  /\ remove_notif_pipe(pipes, f) \in Seq(Fds)
         /\ \A g : Listed(remove_notif_pipe(pipes, f), g) => Listed(pipes, g)
<1>1. CASE ~Listed(pipes, f)
  BY <1>1 DEF remove_notif_pipe
<1>2. CASE Listed(pipes, f)
  <2> DEFINE T == {i \in DOMAIN pipes : pipes[i] = f}
             p == Min(T)
             r == RemoveAt(pipes, p)
  <2>1. DOMAIN pipes = 1 .. Len(pipes) /\ Len(pipes) \in Nat
    BY LenProperties
  <2>2. T \subseteq Nat /\ T # {}
    BY <1>2, <2>1 DEF Listed
  <2>3. p \in T
    BY <2>2, MinOfNumbers
  <2>4. p \in 1 .. Len(pipes)
    BY <2>1, <2>3
  <2>5. remove_notif_pipe(pipes, f) = r
    BY <1>2 DEF remove_notif_pipe
  <2> HIDE DEF p
  <2>6. /\ r \in Seq(Fds) /\ Len(r) = Len(pipes) - 1
        /\ \A j \in 1 .. Len(pipes) - 1 : r[j] = IF j < p THEN pipes[j] ELSE pipes[j + 1]
    BY <2>4, RemoveAtProperties
  <2> HIDE DEF r, T
  <2>7. ASSUME NEW g, Listed(r, g) PROVE Listed(pipes, g)
    <3>1. PICK j \in DOMAIN r : r[j] = g
      BY <2>7 DEF Listed
    <3>2. j \in 1 .. Len(pipes) - 1
      BY <2>6, LenProperties
    <3>3. j \in 1 .. Len(pipes) /\ j + 1 \in 1 .. Len(pipes)
      BY <2>1, <3>2
    <3>4. r[j] = pipes[j] \/ r[j] = pipes[j + 1]
      BY <2>6, <3>2
    <3> QED BY <2>1, <3>1, <3>3, <3>4 DEF Listed
  <2> QED BY <2>5, <2>6, <2>7
<1> QED BY <1>1, <1>2

\* A node gets another list of subscribers.
LEMMA SetPipes ==
  ASSUME NEW store, IsTable(store), NEW k \in Keys, Found(store, k),
         NEW node \in Node, node.key = k, node.value = NodeOf(store, k).value,
         NEW u, u = SetNode(store, k, node)
  PROVE  /\ IsTable(u)
         /\ \A j \in Keys : read_pair(u, j) = read_pair(store, j)
         /\ \A f : Subscriptions(u, f) =
                     {j \in Keys : IF j = k THEN Listed(node.notif_pipes, f)
                                           ELSE j \in Subscriptions(store, f)}
<1>1. /\ IsTable(u)
      /\ \A j \in Keys : Found(u, j) <=> Found(store, j)
      /\ \A j \in Keys : Found(store, j) =>
           NodeOf(u, j) = IF j = k THEN node ELSE NodeOf(store, j)
  BY SetNodeProperties
<1>2. \A j \in Keys : read_pair(u, j) = read_pair(store, j)
  BY <1>1 DEF read_pair
<1>3. ASSUME NEW f
      PROVE  Subscriptions(u, f) = {j \in Keys : IF j = k THEN Listed(node.notif_pipes, f)
                                                         ELSE j \in Subscriptions(store, f)}
  BY <1>1 DEF Subscriptions
<1> QED BY <1>1, <1>2, <1>3

\* SUBSCRIBE changes no value and adds at most one key to one descriptor.
LEMMA SubscribeProperties ==
  ASSUME NEW store, IsTable(store), NEW k \in Keys, NEW f \in Fds,
         NEW u, u = execute_subscribe(store, k, f).table
  PROVE  /\ IsTable(u)
         /\ \A j \in Keys : read_pair(u, j) = read_pair(store, j)
         /\ \A g : Subscriptions(u, g) \subseteq
                     Subscriptions(store, g) \cup (IF g = f THEN {k} ELSE {})
<1>1. CASE ~Found(store, k)
  BY <1>1 DEF execute_subscribe
<1>2. CASE Found(store, k)
  <2> DEFINE old == NodeOf(store, k).notif_pipes
             pipes == add_notif_pipe(old, f)
             node == [NodeOf(store, k) EXCEPT !.notif_pipes = pipes]
  <2>1. NodeOf(store, k) \in Node /\ NodeOf(store, k).key = k /\ old \in Seq(Fds)
    BY <1>2, FoundNode DEF Node
  <2>2. /\ pipes \in Seq(Fds) /\ Len(pipes) = Len(old) + 1 /\ Len(old) \in Nat
        /\ pipes[1] = f /\ \A i \in 2 .. Len(old) + 1 : pipes[i] = old[i - 1]
    BY <2>1, FrontProperties DEF add_notif_pipe
  <2>3. u = SetNode(store, k, node)
    BY <1>2 DEF execute_subscribe
  <2>4. /\ node \in Node /\ node.key = k /\ node.value = NodeOf(store, k).value
        /\ node.notif_pipes = pipes
    BY <2>1, <2>2 DEF Node
  <2> HIDE DEF node, pipes, old
  <2>5. ASSUME NEW g, g # f, Listed(pipes, g) PROVE Listed(old, g)
    <3>1. PICK i \in DOMAIN pipes : pipes[i] = g
      BY <2>5 DEF Listed
    <3>2. i \in 2 .. Len(old) + 1
      BY <2>2, <2>5, <3>1, LenProperties
    <3>3. i - 1 \in 1 .. Len(old)
      BY <2>2, <3>2
    <3>4. i - 1 \in DOMAIN old
      BY <2>1, <3>3, LenProperties
    <3> QED BY <2>2, <3>1, <3>2, <3>4 DEF Listed
  <2>6. /\ IsTable(u)
        /\ \A j \in Keys : read_pair(u, j) = read_pair(store, j)
        /\ \A g : Subscriptions(u, g) =
                    {j \in Keys : IF j = k THEN Listed(pipes, g) ELSE j \in Subscriptions(store, g)}
    BY <1>2, <2>3, <2>4, SetPipes
  <2>7. \A g : Listed(old, g) => k \in Subscriptions(store, g)
    BY <1>2 DEF Subscriptions, old
  <2> QED BY <2>5, <2>6, <2>7
<1> QED BY <1>1, <1>2

\* UNSUBSCRIBE changes no value and adds no subscription.
LEMMA UnsubscribeProperties ==
  ASSUME NEW store, IsTable(store), NEW k \in Keys, NEW f,
         NEW u, u = execute_unsubscribe(store, k, f).table
  PROVE  /\ IsTable(u)
         /\ \A j \in Keys : read_pair(u, j) = read_pair(store, j)
         /\ \A g : Subscriptions(u, g) \subseteq Subscriptions(store, g)
<1>1. CASE ~(Found(store, k) /\ Listed(NodeOf(store, k).notif_pipes, f))
  BY <1>1 DEF execute_unsubscribe
<1>2. CASE Found(store, k) /\ Listed(NodeOf(store, k).notif_pipes, f)
  <2> DEFINE old == NodeOf(store, k).notif_pipes
             pipes == remove_notif_pipe(old, f)
             node == [NodeOf(store, k) EXCEPT !.notif_pipes = pipes]
  <2>1. NodeOf(store, k) \in Node /\ NodeOf(store, k).key = k /\ old \in Seq(Fds)
    BY <1>2, FoundNode DEF Node
  <2>2. pipes \in Seq(Fds) /\ \A g : Listed(pipes, g) => Listed(old, g)
    BY <2>1, RemovePipe
  <2>3. u = SetNode(store, k, node)
    BY <1>2 DEF execute_unsubscribe
  <2>4. /\ node \in Node /\ node.key = k /\ node.value = NodeOf(store, k).value
        /\ node.notif_pipes = pipes
    BY <2>1, <2>2 DEF Node
  <2> HIDE DEF node, pipes, old
  <2>5. /\ IsTable(u)
        /\ \A j \in Keys : read_pair(u, j) = read_pair(store, j)
        /\ \A g : Subscriptions(u, g) =
                    {j \in Keys : IF j = k THEN Listed(pipes, g) ELSE j \in Subscriptions(store, g)}
    BY <1>2, <2>3, <2>4, SetPipes
  <2>6. \A g : Listed(old, g) => k \in Subscriptions(store, g)
    BY <1>2 DEF Subscriptions, old
  <2> QED BY <2>2, <2>5, <2>6
<1> QED BY <1>1, <1>2

\* Nodes keep their place, key and value, and lose subscribers.
LEMMA FewerPipes ==
  ASSUME NEW store, IsTable(store), NEW u \in [Buckets -> Seq(Node)],
         \A c \in Buckets : Len(u[c]) = Len(store[c]),
         \A c \in Buckets : \A i \in 1 .. Len(store[c]) :
           /\ u[c][i].key = store[c][i].key /\ u[c][i].value = store[c][i].value
           /\ \A g : Listed(u[c][i].notif_pipes, g) => Listed(store[c][i].notif_pipes, g)
  PROVE  /\ IsTable(u)
         /\ \A j \in Keys : read_pair(u, j) = read_pair(store, j)
         /\ \A g : Subscriptions(u, g) \subseteq Subscriptions(store, g)
<1>1. IsTable(u)
  BY SameKeys
<1>2. ASSUME NEW k \in Keys
      PROVE  /\ Found(u, k) <=> Found(store, k)
             /\ Found(store, k) =>
                  /\ NodeOf(u, k).value = NodeOf(store, k).value
                  /\ \A g : Listed(NodeOf(u, k).notif_pipes, g) =>
                              Listed(NodeOf(store, k).notif_pipes, g)
  <2>1. hash[k] \in Buckets
    BY BucketOfKey DEF IsTable
  <2>2. Found(u, k) <=> Found(store, k)
    BY <1>1, <2>1, FoundNode
  <2>3. ASSUME Found(store, k)
        PROVE  \E i \in 1 .. Len(store[hash[k]]) :
                  NodeOf(store, k) = store[hash[k]][i] /\ NodeOf(u, k) = u[hash[k]][i]
    <3>1. PICK i \in 1 .. Len(store[hash[k]]) : store[hash[k]][i].key = k
      BY <2>3, FoundNode
    <3>2. i \in 1 .. Len(u[hash[k]]) /\ u[hash[k]][i].key = k
      BY <2>1, <3>1
    <3> QED BY <1>1, <3>1, <3>2, NodeIs
  <2> QED BY <2>1, <2>2, <2>3
<1>3. \A j \in Keys : read_pair(u, j) = read_pair(store, j)
  BY <1>2 DEF read_pair
<1>4. \A g : Subscriptions(u, g) \subseteq Subscriptions(store, g)
  BY <1>2 DEF Subscriptions
<1> QED BY <1>1, <1>3, <1>4

\* DISCONNECT changes no value and adds no subscription.
LEMMA DisconnectProperties ==
  ASSUME NEW store, IsTable(store), NEW f,
         NEW u, u = execute_disconnect(store, f).table
  PROVE  /\ IsTable(u)
         /\ \A j \in Keys : read_pair(u, j) = read_pair(store, j)
         /\ \A g : Subscriptions(u, g) \subseteq Subscriptions(store, g)
<1> DEFINE stop(i) == store[i] = <<>> \/ ~Listed(store[i][1].notif_pipes, f)
           reached == {i \in Buckets : \A j \in 0 .. i : ~stop(j)}
           head(i) == [store[i] EXCEPT ![1].notif_pipes = remove_notif_pipe(@, f)]
<1>1. u = [i \in Buckets |-> IF i \in reached THEN head(i) ELSE store[i]]
  BY DEF execute_disconnect
<1>2. \A i \in reached : i \in Buckets /\ store[i] # <<>>
  BY DEF Buckets
<1>3. \A i \in Buckets : /\ store[i] \in Seq(Node) /\ Len(store[i]) \in Nat
                         /\ \A x \in 1 .. Len(store[i]) : store[i][x] \in Node
  BY LenProperties DEF IsTable
<1> HIDE DEF stop, reached
<1>4. ASSUME NEW i \in reached
      PROVE  /\ head(i) \in Seq(Node) /\ Len(head(i)) = Len(store[i])
             /\ \A x \in 1 .. Len(store[i]) :
                  /\ head(i)[x].key = store[i][x].key /\ head(i)[x].value = store[i][x].value
                  /\ \A g : Listed(head(i)[x].notif_pipes, g) => Listed(store[i][x].notif_pipes, g)
  <2> DEFINE first == store[i][1]
             node == [first EXCEPT !.notif_pipes = remove_notif_pipe(@, f)]
  <2>1. i \in Buckets /\ store[i] \in Seq(Node) /\ 1 \in 1 .. Len(store[i])
    BY <1>2, <1>3, EmptySeq
  <2>2. first \in Node /\ first.notif_pipes \in Seq(Fds)
    BY <1>3, <2>1 DEF Node
  <2>3. /\ remove_notif_pipe(first.notif_pipes, f) \in Seq(Fds)
        /\ \A g : Listed(remove_notif_pipe(first.notif_pipes, f), g) => Listed(first.notif_pipes, g)
    BY <2>2, RemovePipe
  <2>4. /\ node \in Node /\ node.key = first.key /\ node.value = first.value
        /\ \A g : Listed(node.notif_pipes, g) => Listed(first.notif_pipes, g)
    BY <2>2, <2>3 DEF Node
  <2>5. head(i) = [store[i] EXCEPT ![1] = node]
    OBVIOUS
  <2> HIDE DEF node
  <2>6. /\ [store[i] EXCEPT ![1] = node] \in Seq(Node)
        /\ Len([store[i] EXCEPT ![1] = node]) = Len(store[i])
        /\ \A x \in 1 .. Len(store[i]) :
             [store[i] EXCEPT ![1] = node][x] = IF x = 1 THEN node ELSE store[i][x]
    BY <2>1, <2>4, ExceptSeq
  <2> HIDE DEF head
  <2> QED BY <2>4, <2>5, <2>6
<1> HIDE DEF head
<1>5. /\ u \in [Buckets -> Seq(Node)]
      /\ \A c \in Buckets : u[c] = IF c \in reached THEN head(c) ELSE store[c]
  BY <1>1, <1>3, <1>4
<1>6. \A c \in Buckets : Len(u[c]) = Len(store[c])
  BY <1>4, <1>5
<1>7. \A c \in Buckets : \A i \in 1 .. Len(store[c]) :
         /\ u[c][i].key = store[c][i].key /\ u[c][i].value = store[c][i].value
         /\ \A g : Listed(u[c][i].notif_pipes, g) => Listed(store[c][i].notif_pipes, g)
  BY <1>4, <1>5
<1> QED BY <1>5, <1>6, <1>7, FewerPipes

\* What SHOW and BACKUP print of a bucket: its keys with their values.
LEMMA PairsOfBucket ==
  ASSUME NEW store, IsTable(store), NEW b \in Buckets
  PROVE  PairsIn(store[b]) =
           {<<k, read_pair(store, k)>> : k \in {x \in Keys : hash[x] = b /\ Found(store, x)}}
<1>1. DOMAIN store[b] = 1 .. Len(store[b]) /\ \A i \in 1 .. Len(store[b]) : store[b][i] \in Node
  BY LenProperties DEF IsTable
<1>2. ASSUME NEW i \in DOMAIN store[b]
      PROVE  /\ store[b][i].key \in Keys /\ hash[store[b][i].key] = b
             /\ Found(store, store[b][i].key)
             /\ store[b][i].value = read_pair(store, store[b][i].key)
  <2>1. store[b][i].key \in Keys /\ hash[store[b][i].key] = b
    BY <1>1 DEF IsTable, WellFormed, Node
  <2>2. i \in 1 .. Len(store[hash[store[b][i].key]])
    BY <1>1, <2>1
  <2> QED BY <2>1, <2>2, NodeIs DEF read_pair
<1>3. ASSUME NEW k \in Keys, hash[k] = b, Found(store, k)
      PROVE  \E i \in DOMAIN store[b] :
               store[b][i].key = k /\ store[b][i].value = read_pair(store, k)
  BY <1>1, <1>3, FoundNode DEF read_pair
<1>4. ASSUME NEW x \in PairsIn(store[b])
      PROVE  x \in {<<k, read_pair(store, k)>> : k \in {y \in Keys : hash[y] = b /\ Found(store, y)}}
  <2>1. PICK i \in DOMAIN store[b] : x = <<store[b][i].key, store[b][i].value>>
    BY <1>4 DEF PairsIn
  <2> QED BY <1>2, <2>1
<1>5. ASSUME NEW k \in Keys, hash[k] = b, Found(store, k)
      PROVE  <<k, read_pair(store, k)>> \in PairsIn(store[b])
  BY <1>3, <1>5 DEF PairsIn
<1> QED BY <1>4, <1>5

-----------------------------------------------------------------------------
(* The inductive invariant.                                                *)

Writes(t) == cmd[t].cmd \in {"WRITE", "DELETE"}
InLock(t) == pc[t] \in {"body", "unlock"}

\* Who owns the lock, read off the threads: a job owns it while it is in the
\* body of its command, a manager at least as long.
LockHeldRight ==
  /\ writer # NoThread => readers = {}
  /\ \A t \in Jobs : writer = t <=> InLock(t) /\ Writes(t)
  /\ \A t \in Jobs : t \in readers <=> InLock(t) /\ ~Writes(t)
  /\ \A m \in Managers : pc[m] = "body" => writer = m

\* A job asks for the lock that its command needs, and notifies as a writer.
JobsAtWork ==
  \A t \in Jobs :
    /\ pc[t] \in {"idle", "wrlock", "rdlock", "body", "unlock"}
    /\ cmd[t] \in JobCommands \cup {NoCommand}
    /\ pc[t] = "idle" <=> cmd[t] = NoCommand
    /\ pc[t] = "wrlock" => Writes(t)
    /\ pc[t] = "rdlock" => ~Writes(t)
    /\ outbox[t] # <<>> => pc[t] = "body" /\ Writes(t)

\* What is left of a batch.
BatchLeft ==
  \A t \in Jobs : pc[t] # "idle" =>
    /\ cmd[t].cmd = "WRITE" => rest[t] \in Seq(Keys \X Values)
    /\ cmd[t].cmd \in {"READ", "DELETE"} => rest[t] \in Seq(Keys)
    /\ cmd[t].cmd = "SHOW" => rest[t] \in Seq({<<b>> : b \in Buckets})

\* A manager that works on a request has a client, and never notifies.
ManagersAtWork ==
  \A m \in Managers :
    /\ pc[m] \in {"idle", "wrlock", "body", "reply", "close"}
    /\ pc[m] # "idle" => f_notif[m] \in Fds
    /\ pc[m] \in {"wrlock", "body"} => cmd[m] \in Requests
    /\ outbox[m] = <<>>

ControlInv == /\ TypeOK /\ LockHeldRight /\ JobsAtWork /\ BatchLeft
              /\ ManagersAtWork /\ TableWellFormed

\* A notification that is not written yet carries the current value.
OutboxCurrent ==
  \A t \in Jobs : \A i \in DOMAIN outbox[t] :
    outbox[t][i].value = read_pair(table, outbox[t][i].key)

\* Nothing is remembered of a descriptor's earlier client.
ClosedUntold == \A f \in Fds : fd[f] = "closed" => \A k \in Keys : last[f][k] = NoNotif

ToldInv == OutboxCurrent /\ ClosedUntold /\ ToldCurrentValue

-----------------------------------------------------------------------------
(* Commands.                                                               *)

\* The parts of a command.
LEMMA CommandParts ==
  ASSUME NEW c \in JobCommands
  PROVE  /\ c # NoCommand
         /\ \/ c.cmd = "WRITE" /\ c.args \in Seq(Keys \X Values)
            \/ c.cmd \in {"READ", "DELETE"} /\ c.args \in Seq(Keys)
            \/ c.cmd \in {"SHOW", "BACKUP"} /\ c.args = <<>>
<1> QED BY KvsServerAssumption, CommandsAssumption DEF Batches

\* The batch that a command starts with.
LEMMA BatchStarts ==
  ASSUME NEW c \in JobCommands, NEW b,
         b = IF c.cmd = "SHOW" THEN [i \in 1 .. TABLE_SIZE |-> <<i - 1>>] ELSE c.args
  PROVE  /\ b \in Seq((Keys \X Values) \cup Keys \cup {<<x>> : x \in Buckets})
         /\ c.cmd = "WRITE" => b \in Seq(Keys \X Values)
         /\ c.cmd \in {"READ", "DELETE"} => b \in Seq(Keys)
         /\ c.cmd = "SHOW" => b \in Seq({<<x>> : x \in Buckets})
<1> DEFINE All == (Keys \X Values) \cup Keys \cup {<<x>> : x \in Buckets}
<1>1. CASE c.cmd = "SHOW"
  <2>1. TABLE_SIZE \in Nat
    BY HashAssumption
  <2>2. b \in [1 .. TABLE_SIZE -> {<<x>> : x \in Buckets}]
    BY <1>1, <2>1 DEF Buckets
  <2>3. b \in Seq({<<x>> : x \in Buckets})
    BY <2>1, <2>2, SeqDef
  <2>4. b \in Seq(All)
    BY <2>3, SeqMonotonic
  <2> QED BY <1>1, <2>3, <2>4
<1>2. CASE c.cmd # "SHOW"
  <2>1. b = c.args
    BY <1>2
  <2>2. c.cmd = "WRITE" => b \in Seq(Keys \X Values)
    BY <2>1, CommandParts
  <2>3. c.cmd \in {"READ", "DELETE"} => b \in Seq(Keys)
    BY <2>1, CommandParts
  <2>4. c.cmd \in {"SHOW", "BACKUP"} => b = <<>>
    BY <2>1, CommandParts
  <2>5. b \in Seq(All)
    <3>1. CASE c.cmd = "WRITE"
      BY <2>2, <3>1, SeqMonotonic
    <3>2. CASE c.cmd \in {"READ", "DELETE"}
      BY <2>3, <3>2, SeqMonotonic
    <3>3. CASE c.cmd \in {"SHOW", "BACKUP"}
      BY <2>4, <3>3, EmptySeq
    <3> QED BY <3>1, <3>2, <3>3, CommandParts
  <2> QED BY <1>2, <2>2, <2>3, <2>5
<1> QED BY <1>1, <1>2

\* The notifications of a change go to the key's subscribers.
Notifying(pipes, k, v) == [i \in DOMAIN pipes |-> [fd |-> pipes[i], key |-> k, value |-> v]]

\* They are well formed, and each subscriber has one.
LEMMA NotifyingProperties ==
  ASSUME NEW pipes \in Seq(Fds), NEW k \in Keys, NEW v \in Values \cup {Missing}
  PROVE  LET o == Notifying(pipes, k, v)
         IN  /\ o \in Seq(Notifications)
             /\ \A i \in DOMAIN o : o[i].key = k /\ o[i].value = v
             /\ \A f : Listed(pipes, f) => \E i \in DOMAIN o : o[i].fd = f
<1> DEFINE o == Notifying(pipes, k, v)
<1>1. DOMAIN pipes = 1 .. Len(pipes) /\ Len(pipes) \in Nat /\ \A i \in 1 .. Len(pipes) : pipes[i] \in Fds
  BY LenProperties
<1>2. o \in [1 .. Len(pipes) -> Notifications]
  BY <1>1 DEF Notifications, Notifying
<1>3. o \in Seq(Notifications)
  BY <1>1, <1>2, SeqDef
<1>4. DOMAIN o = DOMAIN pipes
  BY DEF Notifying
<1>5. \A i \in DOMAIN pipes : o[i].key = k /\ o[i].value = v /\ o[i].fd = pipes[i]
  BY DEF Notifying
<1> HIDE DEF o
<1> QED BY <1>3, <1>4, <1>5 DEF Listed, o

\* NotifyAll queues one notification for every subscriber, all of them of the
\* changed key with the value given.
LEMMA NotifyAllProperties ==
  ASSUME NEW k \in Keys, NEW v \in Values \cup {Missing}, IsTable(table)
  PROVE  LET o == Notifying(notified(table, k), k, v)
         IN  /\ o \in Seq(Notifications)
             /\ \A i \in DOMAIN o : o[i].key = k /\ o[i].value = v
             /\ \A f : k \in Subscriptions(table, f) => \E i \in DOMAIN o : o[i].fd = f
<1> DEFINE pipes == notified(table, k)
           o == Notifying(pipes, k, v)
<1>1. pipes \in Seq(Fds)
  BY ReadProperties
<1>2. /\ o \in Seq(Notifications)
      /\ \A i \in DOMAIN o : o[i].key = k /\ o[i].value = v
      /\ \A f : Listed(pipes, f) => \E i \in DOMAIN o : o[i].fd = f
  BY <1>1, NotifyingProperties
<1>3. \A f : k \in Subscriptions(table, f) => Listed(pipes, f)
  BY DEF Subscriptions, notified
<1> HIDE DEF o, pipes
<1> QED BY <1>2, <1>3 DEF o, pipes

-----------------------------------------------------------------------------
(* The control invariant.                                                  *)

\* The start: the table is empty and nobody does anything.
LEMMA InitControl == Init => ControlInv
<1> SUFFICES ASSUME Init PROVE ControlInv
  OBVIOUS
<1>1. IsTable(table)
  BY EmptyTableProperties DEF Init
<1>2. TypeOK
  <2>1. \A S : <<>> \in Seq(S)
    BY EmptySeq
  <2>2. table \in [Buckets -> Seq(Node)]
    BY <1>1 DEF IsTable
  <2> QED BY <2>1, <2>2, KvsServerAssumption DEF Init, TypeOK, Threads, NoContents
<1>3. LockHeldRight /\ JobsAtWork /\ BatchLeft /\ ManagersAtWork
  BY KvsServerAssumption DEF Init, Threads, LockHeldRight, InLock, JobsAtWork, BatchLeft, ManagersAtWork
<1> QED BY <1>1, <1>2, <1>3 DEF ControlInv, IsTable, TableWellFormed

\* What a job takes from its batch.
LEMMA NextOfBatch ==
  ASSUME ControlInv, NEW t \in Jobs
  PROVE  /\ InBatch(t, "WRITE") =>
              /\ Head(rest[t])[1] \in Keys /\ Head(rest[t])[2] \in Values
              /\ Tail(rest[t]) \in Seq(Keys \X Values)
         /\ InBatch(t, "DELETE") \/ InBatch(t, "READ") =>
              Head(rest[t]) \in Keys /\ Tail(rest[t]) \in Seq(Keys)
         /\ InBatch(t, "SHOW") =>
              /\ Head(rest[t])[1] \in Buckets
              /\ Tail(rest[t]) \in Seq({<<b>> : b \in Buckets})
<1>1. ASSUME InBatch(t, "WRITE")
      PROVE  /\ Head(rest[t])[1] \in Keys /\ Head(rest[t])[2] \in Values
             /\ Tail(rest[t]) \in Seq(Keys \X Values)
  <2>1. rest[t] \in Seq(Keys \X Values) /\ rest[t] # <<>>
    BY <1>1 DEF InBatch, ControlInv, BatchLeft
  <2>2. Head(rest[t]) \in Keys \X Values /\ Tail(rest[t]) \in Seq(Keys \X Values)
    BY <2>1, HeadTailProperties
  <2> QED BY <2>2
<1>2. ASSUME InBatch(t, "DELETE") \/ InBatch(t, "READ")
      PROVE  Head(rest[t]) \in Keys /\ Tail(rest[t]) \in Seq(Keys)
  <2>1. rest[t] \in Seq(Keys) /\ rest[t] # <<>>
    BY <1>2 DEF InBatch, ControlInv, BatchLeft
  <2> QED BY <2>1, HeadTailProperties
<1>3. ASSUME InBatch(t, "SHOW")
      PROVE  /\ Head(rest[t])[1] \in Buckets
             /\ Tail(rest[t]) \in Seq({<<b>> : b \in Buckets})
  <2>1. rest[t] \in Seq({<<b>> : b \in Buckets}) /\ rest[t] # <<>>
    BY <1>3 DEF InBatch, ControlInv, BatchLeft
  <2>2. Head(rest[t]) \in {<<b>> : b \in Buckets} /\ Tail(rest[t]) \in Seq({<<b>> : b \in Buckets})
    BY <2>1, HeadTailProperties
  <2> QED BY <2>2
<1> QED BY <1>1, <1>2, <1>3

\* Every request leaves a table, with the values it had.
LEMMA RequestKeepsTable ==
  ASSUME ControlInv, NEW m \in Managers, Subscribe(m) \/ Unsubscribe(m) \/ Disconnect(m)
  PROVE  /\ IsTable(table')
         /\ \A k \in Keys : read_pair(table', k) = read_pair(table, k)
         /\ \A f : Subscriptions(table', f) \subseteq Subscriptions(table, f) \cup
                     (IF Subscribe(m) /\ f = f_notif[m] THEN {cmd[m].key} ELSE {})
<1> USE DEF ControlInv
<1>1. /\ IsTable(table) /\ pc[m] = "body" /\ f_notif[m] \in Fds /\ cmd[m] \in Requests
  BY DEF IsTable, TypeOK, TableWellFormed, ManagersAtWork, Subscribe, Unsubscribe, Disconnect, InRequest
<1>2. cmd[m].op \in {"SUBSCRIBE", "UNSUBSCRIBE"} => cmd[m].key \in Keys
  BY <1>1 DEF Requests
<1>3. CASE Subscribe(m)
  <2>1. cmd[m].key \in Keys /\ table' = execute_subscribe(table, cmd[m].key, f_notif[m]).table
    BY <1>2, <1>3 DEF Subscribe, InRequest, Answer
  <2> QED BY <1>1, <1>3, <2>1, SubscribeProperties
<1>4. CASE Unsubscribe(m)
  <2>1. cmd[m].key \in Keys /\ table' = execute_unsubscribe(table, cmd[m].key, f_notif[m]).table
    BY <1>2, <1>4 DEF Unsubscribe, InRequest, Answer
  <2> QED BY <1>1, <2>1, UnsubscribeProperties
<1>5. CASE Disconnect(m)
  <2>1. table' = execute_disconnect(table, f_notif[m]).table
    BY <1>5 DEF Disconnect, Answer
  <2> QED BY <1>1, <2>1, DisconnectProperties
<1> QED BY <1>3, <1>4, <1>5

\* The table changes only in the bodies of WRITE, DELETE and requests.
LEMMA NextTable ==
  ASSUME ControlInv, [Next]_vars
  PROVE  IsTable(table')
<1>0. IsTable(table)
  BY DEF ControlInv, TypeOK, TableWellFormed, IsTable
<1>1. CASE UNCHANGED table
  BY <1>0, <1>1
<1>2. ASSUME NEW t \in Jobs, WritePair(t) PROVE IsTable(table')
  BY <1>0, <1>2, NextOfBatch, WriteProperties DEF WritePair
<1>3. ASSUME NEW t \in Jobs, DeletePair(t) PROVE IsTable(table')
  BY <1>0, <1>3, NextOfBatch, DeleteContents DEF DeletePair
<1>4. ASSUME NEW m \in Managers, Subscribe(m) \/ Unsubscribe(m) \/ Disconnect(m)
      PROVE  IsTable(table')
  BY <1>4, RequestKeepsTable
<1>5. \/ UNCHANGED table
      \/ \E t \in Jobs : WritePair(t) \/ DeletePair(t)
      \/ \E m \in Managers : Subscribe(m) \/ Unsubscribe(m) \/ Disconnect(m)
  BY DEF Next, vars, Batch, Serve, ReadKey, ShowBucket, BatchDone, ForkBackup, Notify, Unlock,
         RdLock, WrLock, JobCommand, Reply, Close, EndOfRequests, ClientDies, Connect, Request,
         ClientReads
<1> QED BY <1>1, <1>2, <1>3, <1>4, <1>5

\* Types.
LEMMA NextTypes ==
  ASSUME ControlInv, [Next]_vars
  PROVE  TypeOK'
<1> USE DEF Threads, Goto, lockVars, threadVars, sessionVars
<1>0. TypeOK /\ table' \in [Buckets -> Seq(Node)] /\ IsTable(table)
  BY NextTable DEF ControlInv, IsTable, TableWellFormed, TypeOK
<1>1. ASSUME NEW t \in Jobs, WritePair(t) PROVE TypeOK'
  <2>1. PICK k \in Keys, v \in Values \cup {Missing} : k = Head(rest[t])[1] /\ v = Head(rest[t])[2]
    BY <1>1, NextOfBatch DEF WritePair
  <2> DEFINE o == Notifying(notified(table, k), k, v)
  <2>2. o \in Seq(Notifications) /\ outbox' = [outbox EXCEPT ![t] = o]
    <3>1. IsTable(table) /\ NotifyAll(t, k, v)
      BY <1>0, <1>1, <2>1 DEF WritePair
    <3>2. o \in Seq(Notifications)
      BY <3>1, NotifyAllProperties
    <3> QED BY <3>1, <3>2 DEF NotifyAll, Notifying
  <2>3. Tail(rest[t]) \in Seq((Keys \X Values) \cup Keys \cup {<<b>> : b \in Buckets})
    <3>1. Tail(rest[t]) \in Seq(Keys \X Values)
      BY <1>1, NextOfBatch DEF WritePair
    <3> QED BY <3>1, SeqMonotonic
  <2>4. rest' = [rest EXCEPT ![t] = Tail(rest[t])]
        /\ UNCHANGED <<lockVars, pc, cmd, output, sessionVars, base>>
    BY <1>1 DEF WritePair
  <2> HIDE DEF o
  <2> QED BY <1>0, <2>2, <2>3, <2>4 DEF TypeOK
<1>2. ASSUME NEW t \in Jobs, DeletePair(t) PROVE TypeOK'
  <2>1. PICK k \in Keys, v \in Values \cup {Missing} : k = Head(rest[t]) /\ v = Missing
    BY <1>2, NextOfBatch DEF DeletePair
  <2> DEFINE o == Notifying(notified(table, k), k, v)
  <2>2. o \in Seq(Notifications) /\ outbox' = [outbox EXCEPT ![t] = o]
    <3>1. IsTable(table) /\ NotifyAll(t, k, v)
      BY <1>0, <1>2, <2>1 DEF DeletePair
    <3>2. o \in Seq(Notifications)
      BY <3>1, NotifyAllProperties
    <3> QED BY <3>1, <3>2 DEF NotifyAll, Notifying
  <2>3. Tail(rest[t]) \in Seq((Keys \X Values) \cup Keys \cup {<<b>> : b \in Buckets})
    <3>1. Tail(rest[t]) \in Seq(Keys)
      BY <1>2, NextOfBatch DEF DeletePair
    <3> QED BY <3>1, SeqMonotonic
  <2>4. rest' = [rest EXCEPT ![t] = Tail(rest[t])]
        /\ output' = [output EXCEPT ![t] =
             IF Found(table, k) THEN output[t] ELSE output[t] \cup {<<k, Missing>>}]
        /\ UNCHANGED <<lockVars, pc, cmd, sessionVars, base>>
    BY <1>2, <2>1 DEF DeletePair
  <2> HIDE DEF o
  <2>5. output' \in [Threads -> SUBSET (Keys \X (Values \cup {Missing}))]
    BY <1>0, <2>4 DEF TypeOK
  <2> QED BY <1>0, <2>2, <2>3, <2>4, <2>5 DEF TypeOK
<1>3. ASSUME NEW t \in Jobs, ReadKey(t) PROVE TypeOK'
  <2> DEFINE k == Head(rest[t])
  <2>1. k \in Keys /\ Tail(rest[t]) \in Seq(Keys)
    BY <1>3, NextOfBatch DEF ReadKey
  <2>2. Tail(rest[t]) \in Seq((Keys \X Values) \cup Keys \cup {<<b>> : b \in Buckets})
    BY <2>1, SeqMonotonic
  <2>3. rest' = [rest EXCEPT ![t] = Tail(rest[t])]
        /\ output' = [output EXCEPT ![t] = output[t] \cup {<<k, read_pair(table, k)>>}]
        /\ UNCHANGED <<table, lockVars, pc, cmd, outbox, sessionVars, base>>
    BY <1>3 DEF ReadKey
  <2>4. read_pair(table, k) \in Values \cup {Missing}
    BY <1>0, <2>1, ReadProperties
  <2>5. output' \in [Threads -> SUBSET (Keys \X (Values \cup {Missing}))]
    BY <1>0, <2>1, <2>3, <2>4 DEF TypeOK
  <2> QED BY <1>0, <2>2, <2>3, <2>5 DEF TypeOK
<1>4. ASSUME NEW t \in Jobs, ShowBucket(t) PROVE TypeOK'
  <2> DEFINE b == Head(rest[t])[1]
  <2>1. b \in Buckets /\ Tail(rest[t]) \in Seq({<<x>> : x \in Buckets})
    BY <1>4, NextOfBatch DEF ShowBucket
  <2>2. Tail(rest[t]) \in Seq((Keys \X Values) \cup Keys \cup {<<x>> : x \in Buckets})
    BY <2>1, SeqMonotonic
  <2>3. rest' = [rest EXCEPT ![t] = Tail(rest[t])]
        /\ output' = [output EXCEPT ![t] = output[t] \cup PairsIn(table[b])]
        /\ UNCHANGED <<table, lockVars, pc, cmd, outbox, sessionVars, base>>
    BY <1>4 DEF ShowBucket
  <2>4. PairsIn(table[b]) \subseteq Keys \X (Values \cup {Missing})
    BY <1>0, <2>1, PairsOfBucket, ReadProperties
  <2>5. output' \in [Threads -> SUBSET (Keys \X (Values \cup {Missing}))]
    BY <1>0, <2>3, <2>4 DEF TypeOK
  <2> QED BY <1>0, <2>2, <2>3, <2>5 DEF TypeOK
<1>5. ASSUME NEW t \in Jobs, BatchDone(t) PROVE TypeOK'
  BY <1>0, <1>5 DEF BatchDone, TypeOK
<1>6. ASSUME NEW t \in Jobs, ForkBackup(t) PROVE TypeOK'
  <2>1. \A b \in Buckets : PairsIn(table[b]) \subseteq Keys \X (Values \cup {Missing})
    BY <1>0, PairsOfBucket, ReadProperties
  <2>2. Pairs(table) \subseteq Keys \X (Values \cup {Missing})
    BY <2>1 DEF Pairs
  <2> QED BY <1>0, <1>6, <2>2 DEF ForkBackup, TypeOK
<1>7. ASSUME NEW t \in Jobs, Notify(t) PROVE TypeOK'
  <2> DEFINE n == Head(outbox[t])
  <2>1. n \in Notifications /\ Tail(outbox[t]) \in Seq(Notifications)
    BY <1>0, <1>7, HeadTailProperties DEF Notify, TypeOK
  <2>2. PICK f \in Fds, k \in Keys, v \in Values \cup {Missing} :
          n.fd = f /\ n.key = k /\ n.value = v
    BY <2>1 DEF Notifications
  <2>3. /\ outbox' = [outbox EXCEPT ![t] = Tail(outbox[t])]
        /\ UNCHANGED <<table, lockVars, pc, cmd, rest, output, f_notif, fd, reply, base>>
        /\ \/ /\ unread[f] < NotifCapacity
              /\ unread' = [unread EXCEPT ![f] = unread[f] + 1]
              /\ last' = [last EXCEPT ![f] = [last[f] EXCEPT ![k] = v]]
           \/ UNCHANGED <<unread, last>>
    BY <1>7, <2>2 DEF Notify
  <2> HIDE DEF n
  <2>4. /\ unread \in [Fds -> 0 .. NotifCapacity] /\ NotifCapacity \in Nat
        /\ last \in [Fds -> [Keys -> Values \cup {Missing, NoNotif}]]
    BY <1>0, KvsServerAssumption DEF TypeOK
  <2>5. unread' \in [Fds -> 0 .. NotifCapacity]
    <3>1. unread[f] \in 0 .. NotifCapacity
      BY <2>4
    <3>2. unread[f] < NotifCapacity => unread[f] + 1 \in 0 .. NotifCapacity
      BY <2>4, <3>1
    <3> QED BY <2>3, <2>4, <3>2
  <2>6. last' \in [Fds -> [Keys -> Values \cup {Missing, NoNotif}]]
    <3>1. [last[f] EXCEPT ![k] = v] \in [Keys -> Values \cup {Missing, NoNotif}]
      BY <2>4
    <3> QED BY <2>3, <2>4, <3>1
  <2> QED BY <1>0, <2>1, <2>3, <2>5, <2>6 DEF TypeOK
<1>8. ASSUME NEW t \in Jobs, Unlock(t) PROVE TypeOK'
  BY <1>0, <1>8 DEF Unlock, TypeOK, NoContents
<1>9. ASSUME NEW t \in Jobs, RdLock(t) PROVE TypeOK'
  BY <1>0, <1>9 DEF RdLock, TypeOK
<1>10. ASSUME NEW t \in Threads, WrLock(t) PROVE TypeOK'
  <2>1. Contents(table) \in [Keys -> Values \cup {Missing}]
    BY <1>0, ReadProperties DEF Contents
  <2> QED BY <1>0, <1>10, <2>1 DEF WrLock, TypeOK
<1>11. ASSUME NEW t \in Jobs, NEW c \in JobCommands, JobCommand(t, c) PROVE TypeOK'
  <2>1. PICK b : b = IF c.cmd = "SHOW" THEN [i \in 1 .. TABLE_SIZE |-> <<i - 1>>] ELSE c.args
    OBVIOUS
  <2>2. b \in Seq((Keys \X Values) \cup Keys \cup {<<x>> : x \in Buckets})
    BY <2>1, BatchStarts
  <2>3. /\ rest' = [rest EXCEPT ![t] = b] /\ cmd' = [cmd EXCEPT ![t] = c]
        /\ output' = [output EXCEPT ![t] = {}]
        /\ pc' = [pc EXCEPT ![t] = IF c.cmd \in {"WRITE", "DELETE"} THEN "wrlock" ELSE "rdlock"]
        /\ UNCHANGED <<table, lockVars, outbox, sessionVars, base>>
    BY <1>11, <2>1 DEF JobCommand
  <2> QED BY <1>0, <2>2, <2>3 DEF TypeOK
<1>12. ASSUME NEW m \in Managers, Subscribe(m) \/ Unsubscribe(m) \/ Disconnect(m) PROVE TypeOK'
  <2>1. f_notif[m] \in Fds /\ cmd[m] \in Requests
    BY <1>12 DEF ControlInv, ManagersAtWork, Subscribe, Unsubscribe, Disconnect, InRequest
  <2>2. last' \in [Fds -> [Keys -> Values \cup {Missing, NoNotif}]]
    <3>1. last \in [Fds -> [Keys -> Values \cup {Missing, NoNotif}]]
      BY <1>0 DEF TypeOK
    <3>2. CASE Subscribe(m)
      <4>1. PICK f \in Fds, k \in Keys : f = f_notif[m] /\ k = cmd[m].key
        BY <2>1, <3>2 DEF Subscribe, InRequest, Requests
      <4>2. last' = [last EXCEPT ![f] = [last[f] EXCEPT ![k] = NoNotif]]
        BY <3>2, <4>1 DEF Subscribe
      <4> QED BY <3>1, <4>2
    <3> QED BY <1>12, <3>1, <3>2 DEF Unsubscribe, Disconnect
  <2>3. /\ writer' \in {NoThread, writer}
        /\ reply' \in {[reply EXCEPT ![m] = "1"], [reply EXCEPT ![m] = "0"]}
        /\ cmd' = [cmd EXCEPT ![m] = NoCommand]
        /\ pc' \in {[pc EXCEPT ![m] = "reply"], [pc EXCEPT ![m] = "close"]}
        /\ UNCHANGED <<readers, rest, outbox, output, f_notif, fd, unread, base>>
    BY <1>12 DEF Subscribe, Unsubscribe, Disconnect, Answer
  <2> QED BY <1>0, <2>2, <2>3 DEF TypeOK
<1>13. ASSUME NEW m \in Managers, Reply(m) PROVE TypeOK'
  BY <1>0, <1>13 DEF Reply, TypeOK
<1>14. ASSUME NEW m \in Managers, Close(m) PROVE TypeOK'
  <2>1. f_notif[m] \in Fds /\ NotifCapacity \in Nat
    BY <1>14, KvsServerAssumption DEF Close, ControlInv, ManagersAtWork
  <2> QED BY <1>0, <1>14, <2>1 DEF Close, TypeOK
<1>15. ASSUME NEW m \in Managers, EndOfRequests(m) PROVE TypeOK'
  BY <1>0, <1>15 DEF EndOfRequests, TypeOK, Requests
<1>16. ASSUME NEW m \in Managers, ClientDies(m) PROVE TypeOK'
  BY <1>0, <1>16 DEF ClientDies, TypeOK
<1>17. ASSUME NEW m \in Managers, NEW f \in Fds, Connect(m, f) PROVE TypeOK'
  BY <1>0, <1>17 DEF Connect, TypeOK
<1>18. ASSUME NEW m \in Managers, NEW r \in Requests, Request(m, r) PROVE TypeOK'
  BY <1>0, <1>18 DEF Request, TypeOK
<1>19. ASSUME NEW f \in Fds, ClientReads(f) PROVE TypeOK'
  BY <1>0, <1>19, KvsServerAssumption DEF ClientReads, TypeOK
<1>20. CASE UNCHANGED vars
  BY <1>0, <1>20 DEF vars, TypeOK
<1> QED BY <1>1, <1>2, <1>3, <1>4, <1>5, <1>6, <1>7, <1>8, <1>9, <1>10, <1>11, <1>12, <1>13,
           <1>14, <1>15, <1>16, <1>17, <1>18, <1>19, <1>20 DEF Next, Batch, Serve

\* Ownership of the lock.
LEMMA NextLocks ==
  ASSUME ControlInv, [Next]_vars
  PROVE  LockHeldRight'
<1> USE KvsServerAssumption
    DEF Threads, Goto, lockVars, threadVars, sessionVars, ControlInv, TypeOK,
        LockHeldRight, InLock, Writes, JobsAtWork, ManagersAtWork
<1>1. ASSUME NEW t \in Jobs, WritePair(t) PROVE LockHeldRight'
  BY <1>1 DEF WritePair, InBatch, NotifyAll
<1>2. ASSUME NEW t \in Jobs, DeletePair(t) PROVE LockHeldRight'
  BY <1>2 DEF DeletePair, InBatch, NotifyAll
<1>3. ASSUME NEW t \in Jobs, ReadKey(t) PROVE LockHeldRight'
  BY <1>3 DEF ReadKey, InBatch
<1>4. ASSUME NEW t \in Jobs, ShowBucket(t) PROVE LockHeldRight'
  BY <1>4 DEF ShowBucket, InBatch
<1>5. ASSUME NEW t \in Jobs, BatchDone(t) PROVE LockHeldRight'
  BY <1>5 DEF BatchDone
<1>6. ASSUME NEW t \in Jobs, ForkBackup(t) PROVE LockHeldRight'
  BY <1>6 DEF ForkBackup
<1>7. ASSUME NEW t \in Jobs, Notify(t) PROVE LockHeldRight'
  BY <1>7 DEF Notify
<1>8. ASSUME NEW t \in Jobs, Unlock(t) PROVE LockHeldRight'
  BY <1>8 DEF Unlock
<1>9. ASSUME NEW t \in Jobs, RdLock(t) PROVE LockHeldRight'
  BY <1>9 DEF RdLock
<1>10. ASSUME NEW t \in Threads, WrLock(t) PROVE LockHeldRight'
  BY <1>10 DEF WrLock
<1>11. ASSUME NEW t \in Jobs, NEW c \in JobCommands, JobCommand(t, c) PROVE LockHeldRight'
  BY <1>11 DEF JobCommand
<1>12. ASSUME NEW m \in Managers, Subscribe(m) PROVE LockHeldRight'
  BY <1>12 DEF Subscribe, InRequest, Answer
<1>13. ASSUME NEW m \in Managers, Unsubscribe(m) PROVE LockHeldRight'
  BY <1>13 DEF Unsubscribe, InRequest, Answer
<1>14. ASSUME NEW m \in Managers, Disconnect(m) PROVE LockHeldRight'
  BY <1>14 DEF Disconnect, InRequest, Answer
<1>15. ASSUME NEW m \in Managers, Reply(m) PROVE LockHeldRight'
  BY <1>15 DEF Reply
<1>16. ASSUME NEW m \in Managers, Close(m) PROVE LockHeldRight'
  BY <1>16 DEF Close
<1>17. ASSUME NEW m \in Managers, EndOfRequests(m) PROVE LockHeldRight'
  BY <1>17 DEF EndOfRequests
<1>18. ASSUME NEW m \in Managers, ClientDies(m) PROVE LockHeldRight'
  BY <1>18 DEF ClientDies
<1>19. ASSUME NEW m \in Managers, NEW f \in Fds, Connect(m, f) PROVE LockHeldRight'
  BY <1>19 DEF Connect
<1>20. ASSUME NEW m \in Managers, NEW r \in Requests, Request(m, r) PROVE LockHeldRight'
  BY <1>20 DEF Request
<1>21. ASSUME NEW f \in Fds, ClientReads(f) PROVE LockHeldRight'
  BY <1>21 DEF ClientReads
<1>22. CASE UNCHANGED vars
  BY <1>22 DEF vars
<1> QED BY <1>1, <1>2, <1>3, <1>4, <1>5, <1>6, <1>7, <1>8, <1>9, <1>10, <1>11, <1>12, <1>13,
           <1>14, <1>15, <1>16, <1>17, <1>18, <1>19, <1>20, <1>21, <1>22 DEF Next, Batch, Serve

\* What job threads do.
LEMMA NextJobs ==
  ASSUME ControlInv, [Next]_vars
  PROVE  JobsAtWork'
<1> USE KvsServerAssumption
    DEF Threads, Goto, lockVars, threadVars, sessionVars, ControlInv, TypeOK,
        JobsAtWork, Writes
<1>1. ASSUME NEW t \in Jobs, WritePair(t) PROVE JobsAtWork'
  BY <1>1 DEF WritePair, InBatch, NotifyAll
<1>2. ASSUME NEW t \in Jobs, DeletePair(t) PROVE JobsAtWork'
  BY <1>2 DEF DeletePair, InBatch, NotifyAll
<1>3. ASSUME NEW t \in Jobs, ReadKey(t) PROVE JobsAtWork'
  BY <1>3 DEF ReadKey, InBatch
<1>4. ASSUME NEW t \in Jobs, ShowBucket(t) PROVE JobsAtWork'
  BY <1>4 DEF ShowBucket, InBatch
<1>5. ASSUME NEW t \in Jobs, BatchDone(t) PROVE JobsAtWork'
  BY <1>5 DEF BatchDone
<1>6. ASSUME NEW t \in Jobs, ForkBackup(t) PROVE JobsAtWork'
  BY <1>6 DEF ForkBackup
<1>7. ASSUME NEW t \in Jobs, Notify(t) PROVE JobsAtWork'
  BY <1>7 DEF Notify
<1>8. ASSUME NEW t \in Jobs, Unlock(t) PROVE JobsAtWork'
  BY <1>8 DEF Unlock
<1>9. ASSUME NEW t \in Jobs, RdLock(t) PROVE JobsAtWork'
  BY <1>9 DEF RdLock
<1>10. ASSUME NEW t \in Threads, WrLock(t) PROVE JobsAtWork'
  BY <1>10 DEF WrLock
<1>11. ASSUME NEW t \in Jobs, NEW c \in JobCommands, JobCommand(t, c) PROVE JobsAtWork'
  BY <1>11 DEF JobCommand
<1>12. ASSUME NEW m \in Managers, Subscribe(m) PROVE JobsAtWork'
  BY <1>12 DEF Subscribe, InRequest, Answer
<1>13. ASSUME NEW m \in Managers, Unsubscribe(m) PROVE JobsAtWork'
  BY <1>13 DEF Unsubscribe, InRequest, Answer
<1>14. ASSUME NEW m \in Managers, Disconnect(m) PROVE JobsAtWork'
  BY <1>14 DEF Disconnect, InRequest, Answer
<1>15. ASSUME NEW m \in Managers, Reply(m) PROVE JobsAtWork'
  BY <1>15 DEF Reply
<1>16. ASSUME NEW m \in Managers, Close(m) PROVE JobsAtWork'
  BY <1>16 DEF Close
<1>17. ASSUME NEW m \in Managers, EndOfRequests(m) PROVE JobsAtWork'
  BY <1>17 DEF EndOfRequests
<1>18. ASSUME NEW m \in Managers, ClientDies(m) PROVE JobsAtWork'
  BY <1>18 DEF ClientDies
<1>19. ASSUME NEW m \in Managers, NEW f \in Fds, Connect(m, f) PROVE JobsAtWork'
  BY <1>19 DEF Connect
<1>20. ASSUME NEW m \in Managers, NEW r \in Requests, Request(m, r) PROVE JobsAtWork'
  BY <1>20 DEF Request
<1>21. ASSUME NEW f \in Fds, ClientReads(f) PROVE JobsAtWork'
  BY <1>21 DEF ClientReads
<1>22. CASE UNCHANGED vars
  BY <1>22 DEF vars
<1> QED BY <1>1, <1>2, <1>3, <1>4, <1>5, <1>6, <1>7, <1>8, <1>9, <1>10, <1>11, <1>12, <1>13,
           <1>14, <1>15, <1>16, <1>17, <1>18, <1>19, <1>20, <1>21, <1>22 DEF Next, Batch, Serve

\* The batches of the job threads.
LEMMA NextBatches ==
  ASSUME ControlInv, [Next]_vars
  PROVE  BatchLeft'
<1> USE KvsServerAssumption
    DEF Threads, Goto, lockVars, threadVars, sessionVars, ControlInv, TypeOK,
        BatchLeft, JobsAtWork
<1>1. ASSUME NEW t \in Jobs, WritePair(t) PROVE BatchLeft'
  <2>1. Tail(rest[t]) \in Seq(Keys \X Values)
    BY <1>1, NextOfBatch DEF WritePair
  <2>2. /\ rest' = [rest EXCEPT ![t] = Tail(rest[t])] /\ UNCHANGED <<pc, cmd>>
        /\ cmd[t].cmd = "WRITE"
    BY <1>1 DEF WritePair, InBatch
  <2> QED BY <2>1, <2>2
<1>2. ASSUME NEW t \in Jobs, DeletePair(t) PROVE BatchLeft'
  <2>1. Tail(rest[t]) \in Seq(Keys)
    BY <1>2, NextOfBatch DEF DeletePair
  <2>2. /\ rest' = [rest EXCEPT ![t] = Tail(rest[t])] /\ UNCHANGED <<pc, cmd>>
        /\ cmd[t].cmd = "DELETE"
    BY <1>2 DEF DeletePair, InBatch
  <2> QED BY <2>1, <2>2
<1>3. ASSUME NEW t \in Jobs, ReadKey(t) PROVE BatchLeft'
  <2>1. Tail(rest[t]) \in Seq(Keys)
    BY <1>3, NextOfBatch DEF ReadKey
  <2>2. /\ rest' = [rest EXCEPT ![t] = Tail(rest[t])] /\ UNCHANGED <<pc, cmd>>
        /\ cmd[t].cmd = "READ"
    BY <1>3 DEF ReadKey, InBatch
  <2> QED BY <2>1, <2>2
<1>4. ASSUME NEW t \in Jobs, ShowBucket(t) PROVE BatchLeft'
  <2>1. Tail(rest[t]) \in Seq({<<b>> : b \in Buckets})
    BY <1>4, NextOfBatch DEF ShowBucket
  <2>2. /\ rest' = [rest EXCEPT ![t] = Tail(rest[t])] /\ UNCHANGED <<pc, cmd>>
        /\ cmd[t].cmd = "SHOW"
    BY <1>4 DEF ShowBucket, InBatch
  <2> QED BY <2>1, <2>2
<1>5. ASSUME NEW t \in Jobs, BatchDone(t) PROVE BatchLeft'
  BY <1>5 DEF BatchDone
<1>6. ASSUME NEW t \in Jobs, ForkBackup(t) PROVE BatchLeft'
  BY <1>6 DEF ForkBackup
<1>7. ASSUME NEW t \in Jobs, Notify(t) PROVE BatchLeft'
  BY <1>7 DEF Notify
<1>8. ASSUME NEW t \in Jobs, Unlock(t) PROVE BatchLeft'
  BY <1>8 DEF Unlock
<1>9. ASSUME NEW t \in Jobs, RdLock(t) PROVE BatchLeft'
  BY <1>9 DEF RdLock
<1>10. ASSUME NEW t \in Threads, WrLock(t) PROVE BatchLeft'
  BY <1>10 DEF WrLock
<1>11. ASSUME NEW t \in Jobs, NEW c \in JobCommands, JobCommand(t, c) PROVE BatchLeft'
  <2>1. PICK b : b = IF c.cmd = "SHOW" THEN [i \in 1 .. TABLE_SIZE |-> <<i - 1>>] ELSE c.args
    OBVIOUS
  <2>2. /\ rest' = [rest EXCEPT ![t] = b] /\ cmd' = [cmd EXCEPT ![t] = c]
        /\ pc' \in {[pc EXCEPT ![t] = "wrlock"], [pc EXCEPT ![t] = "rdlock"]}
    BY <1>11, <2>1 DEF JobCommand
  <2>3. /\ c.cmd = "WRITE" => b \in Seq(Keys \X Values)
        /\ c.cmd \in {"READ", "DELETE"} => b \in Seq(Keys)
        /\ c.cmd = "SHOW" => b \in Seq({<<x>> : x \in Buckets})
    BY <2>1, BatchStarts
  <2> QED BY <2>2, <2>3
<1>12. ASSUME NEW m \in Managers, Subscribe(m) PROVE BatchLeft'
  BY <1>12 DEF Subscribe, InRequest, Answer
<1>13. ASSUME NEW m \in Managers, Unsubscribe(m) PROVE BatchLeft'
  BY <1>13 DEF Unsubscribe, InRequest, Answer
<1>14. ASSUME NEW m \in Managers, Disconnect(m) PROVE BatchLeft'
  BY <1>14 DEF Disconnect, InRequest, Answer
<1>15. ASSUME NEW m \in Managers, Reply(m) PROVE BatchLeft'
  BY <1>15 DEF Reply
<1>16. ASSUME NEW m \in Managers, Close(m) PROVE BatchLeft'
  BY <1>16 DEF Close
<1>17. ASSUME NEW m \in Managers, EndOfRequests(m) PROVE BatchLeft'
  BY <1>17 DEF EndOfRequests
<1>18. ASSUME NEW m \in Managers, ClientDies(m) PROVE BatchLeft'
  BY <1>18 DEF ClientDies
<1>19. ASSUME NEW m \in Managers, NEW f \in Fds, Connect(m, f) PROVE BatchLeft'
  BY <1>19 DEF Connect
<1>20. ASSUME NEW m \in Managers, NEW r \in Requests, Request(m, r) PROVE BatchLeft'
  BY <1>20 DEF Request
<1>21. ASSUME NEW f \in Fds, ClientReads(f) PROVE BatchLeft'
  BY <1>21 DEF ClientReads
<1>22. CASE UNCHANGED vars
  BY <1>22 DEF vars
<1> QED BY <1>1, <1>2, <1>3, <1>4, <1>5, <1>6, <1>7, <1>8, <1>9, <1>10, <1>11, <1>12, <1>13,
           <1>14, <1>15, <1>16, <1>17, <1>18, <1>19, <1>20, <1>21, <1>22 DEF Next, Batch, Serve

\* What managers do.
LEMMA NextManagers ==
  ASSUME ControlInv, [Next]_vars
  PROVE  ManagersAtWork'
<1> USE KvsServerAssumption
    DEF Threads, Goto, lockVars, threadVars, sessionVars, ControlInv, TypeOK,
        ManagersAtWork, JobsAtWork, Requests
<1>1. ASSUME NEW t \in Jobs, WritePair(t) PROVE ManagersAtWork'
  BY <1>1 DEF WritePair, InBatch, NotifyAll
<1>2. ASSUME NEW t \in Jobs, DeletePair(t) PROVE ManagersAtWork'
  BY <1>2 DEF DeletePair, InBatch, NotifyAll
<1>3. ASSUME NEW t \in Jobs, ReadKey(t) PROVE ManagersAtWork'
  BY <1>3 DEF ReadKey, InBatch
<1>4. ASSUME NEW t \in Jobs, ShowBucket(t) PROVE ManagersAtWork'
  BY <1>4 DEF ShowBucket, InBatch
<1>5. ASSUME NEW t \in Jobs, BatchDone(t) PROVE ManagersAtWork'
  BY <1>5 DEF BatchDone
<1>6. ASSUME NEW t \in Jobs, ForkBackup(t) PROVE ManagersAtWork'
  BY <1>6 DEF ForkBackup
<1>7. ASSUME NEW t \in Jobs, Notify(t) PROVE ManagersAtWork'
  BY <1>7 DEF Notify
<1>8. ASSUME NEW t \in Jobs, Unlock(t) PROVE ManagersAtWork'
  BY <1>8 DEF Unlock
<1>9. ASSUME NEW t \in Jobs, RdLock(t) PROVE ManagersAtWork'
  BY <1>9 DEF RdLock
<1>10. ASSUME NEW t \in Threads, WrLock(t) PROVE ManagersAtWork'
  BY <1>10 DEF WrLock
<1>11. ASSUME NEW t \in Jobs, NEW c \in JobCommands, JobCommand(t, c) PROVE ManagersAtWork'
  BY <1>11 DEF JobCommand
<1>12. ASSUME NEW m \in Managers, Subscribe(m) PROVE ManagersAtWork'
  BY <1>12 DEF Subscribe, InRequest, Answer
<1>13. ASSUME NEW m \in Managers, Unsubscribe(m) PROVE ManagersAtWork'
  BY <1>13 DEF Unsubscribe, InRequest, Answer
<1>14. ASSUME NEW m \in Managers, Disconnect(m) PROVE ManagersAtWork'
  BY <1>14 DEF Disconnect, InRequest, Answer
<1>15. ASSUME NEW m \in Managers, Reply(m) PROVE ManagersAtWork'
  BY <1>15 DEF Reply
<1>16. ASSUME NEW m \in Managers, Close(m) PROVE ManagersAtWork'
  BY <1>16 DEF Close
<1>17. ASSUME NEW m \in Managers, EndOfRequests(m) PROVE ManagersAtWork'
  BY <1>17 DEF EndOfRequests
<1>18. ASSUME NEW m \in Managers, ClientDies(m) PROVE ManagersAtWork'
  BY <1>18 DEF ClientDies
<1>19. ASSUME NEW m \in Managers, NEW f \in Fds, Connect(m, f) PROVE ManagersAtWork'
  BY <1>19 DEF Connect
<1>20. ASSUME NEW m \in Managers, NEW r \in Requests, Request(m, r) PROVE ManagersAtWork'
  BY <1>20 DEF Request
<1>21. ASSUME NEW f \in Fds, ClientReads(f) PROVE ManagersAtWork'
  BY <1>21 DEF ClientReads
<1>22. CASE UNCHANGED vars
  BY <1>22 DEF vars
<1> QED BY <1>1, <1>2, <1>3, <1>4, <1>5, <1>6, <1>7, <1>8, <1>9, <1>10, <1>11, <1>12, <1>13,
           <1>14, <1>15, <1>16, <1>17, <1>18, <1>19, <1>20, <1>21, <1>22 DEF Next, Batch, Serve

\* The control invariant holds in every state.
LEMMA Control == Spec => []ControlInv
<1>1. ASSUME ControlInv, [Next]_vars PROVE ControlInv'
  <2>1. TableWellFormed'
    BY <1>1, NextTable DEF IsTable, TableWellFormed
  <2> QED BY <1>1, <2>1, NextTypes, NextLocks, NextJobs, NextBatches, NextManagers DEF ControlInv
<1> QED BY InitControl, <1>1, PTL DEF Spec

\* Types.
THEOREM TypeCorrect == Spec => []TypeOK
<1> QED BY Control, PTL DEF ControlInv

\* No step of a thread leaves a node in the wrong bucket or a key twice.
THEOREM TableStaysWellFormed == Spec => []TableWellFormed
<1> QED BY Control, PTL DEF ControlInv

\* A thread changes the table, or prints from it, only inside the lock.
THEOREM LockAlwaysProtects == Spec => []LockProtectsTable
<1>1. ControlInv => LockProtectsTable
  BY DEF ControlInv, TypeOK, LockHeldRight, JobsAtWork, ManagersAtWork, LockProtectsTable, InLock,
         Writes, Threads
<1> QED BY Control, <1>1, PTL

-----------------------------------------------------------------------------
(* What subscribers were told.                                             *)

\* The start: nobody was told anything.
LEMMA InitTold == Init => ToldInv
<1>1. \A k \in Keys : Init => ~Found(table, k)
  BY EmptyTableProperties DEF Init
<1> QED BY <1>1 DEF Init, ToldInv, OutboxCurrent, ClosedUntold, ToldCurrentValue, Subscriptions, Threads

\* A change of a key while nobody else notifies: all its subscribers are to
\* be told the new value.
LEMMA ChangeTells ==
  ASSUME ControlInv, ToldInv, NEW t \in Jobs, \A x \in Jobs : outbox[x] = <<>>,
         NEW k \in Keys, NEW v \in Values \cup {Missing}, NotifyAll(t, k, v),
         \A j \in Keys : read_pair(table', j) = IF j = k THEN v ELSE read_pair(table, j),
         \A f : Subscriptions(table', f) \subseteq Subscriptions(table, f),
         UNCHANGED <<fd, last>>
  PROVE  ToldInv'
<1> DEFINE o == Notifying(notified(table, k), k, v)
<1>1. /\ o \in Seq(Notifications)
      /\ outbox' = [outbox EXCEPT ![t] = o]
      /\ \A i \in DOMAIN o : o[i].key = k /\ o[i].value = v
      /\ \A f : k \in Subscriptions(table, f) => \E i \in DOMAIN o : o[i].fd = f
  <2>1. IsTable(table)
    BY DEF ControlInv, TypeOK, TableWellFormed, IsTable
  <2>2. outbox' = [outbox EXCEPT ![t] = o]
    BY DEF NotifyAll, Notifying
  <2> QED BY <2>1, <2>2, NotifyAllProperties
<1> HIDE DEF o
<1>2. outbox'[t] = o /\ \A x \in Jobs \ {t} : outbox'[x] = <<>>
  BY <1>1 DEF ControlInv, TypeOK, Threads
<1>3. OutboxCurrent'
  BY <1>1, <1>2 DEF OutboxCurrent
<1>4. ClosedUntold'
  BY DEF ToldInv, ClosedUntold
<1>5. ASSUME NEW f \in Fds, fd[f] = "open", NEW j \in Subscriptions(table', f)
      PROVE  \/ last[f][j] \in {NoNotif, read_pair(table', j)}
             \/ \E x \in Jobs : \E i \in DOMAIN outbox'[x] :
                  outbox'[x][i].fd = f /\ outbox'[x][i].key = j
  <2>1. j \in Subscriptions(table, f) /\ j \in Keys
    BY <1>5 DEF Subscriptions
  <2>2. CASE j = k
    BY <1>1, <1>2, <2>1, <2>2
  <2>3. CASE j # k
    BY <1>5, <2>1, <2>3 DEF ToldInv, ToldCurrentValue
  <2> QED BY <2>2, <2>3
<1>6. ToldCurrentValue'
  BY <1>5 DEF ToldCurrentValue
<1> QED BY <1>3, <1>4, <1>6 DEF ToldInv

\* A step that changes no value, no outbox and adds no subscription.
LEMMA NothingToTell ==
  ASSUME ToldInv,
         \A k \in Keys : read_pair(table', k) = read_pair(table, k),
         UNCHANGED outbox, OutboxCurrent => OutboxCurrent',
         \A f \in Fds : fd'[f] \in {"open", "closed"} => fd'[f] = fd[f] /\ last'[f] = last[f],
         \A f \in Fds : Subscriptions(table', f) \subseteq Subscriptions(table, f)
  PROVE  ToldInv'
<1>1. OutboxCurrent'
  BY DEF ToldInv
<1>2. ClosedUntold'
  BY DEF ToldInv, ClosedUntold
<1>3. ASSUME NEW f \in Fds, fd'[f] = "open", NEW k \in Subscriptions(table', f)
      PROVE  \/ last'[f][k] \in {NoNotif, read_pair(table', k)}
             \/ \E x \in Jobs : \E i \in DOMAIN outbox'[x] :
                  outbox'[x][i].fd = f /\ outbox'[x][i].key = k
  <2>1. k \in Subscriptions(table, f) /\ k \in Keys
    BY <1>3 DEF Subscriptions
  <2> QED BY <1>3, <2>1 DEF ToldInv, ToldCurrentValue
<1>4. ToldCurrentValue'
  BY <1>3 DEF ToldCurrentValue
<1> QED BY <1>1, <1>2, <1>4 DEF ToldInv

\* Notifications are about keys.
LEMMA OutboxKeys ==
  ASSUME ControlInv
  PROVE  \A x \in Jobs : \A i \in DOMAIN outbox[x] : outbox[x][i].key \in Keys
<1> SUFFICES ASSUME NEW x \in Jobs, NEW i \in DOMAIN outbox[x] PROVE outbox[x][i].key \in Keys
  OBVIOUS
<1>1. outbox[x] \in Seq(Notifications)
  BY DEF ControlInv, TypeOK, Threads
<1>2. outbox[x][i] \in Notifications
  BY <1>1, LenProperties
<1> QED BY <1>2 DEF Notifications

\* Every step keeps subscribers told.
LEMMA NextTold ==
  ASSUME ControlInv, ToldInv, [Next]_vars
  PROVE  ToldInv'
<1>0. IsTable(table)
  BY DEF ControlInv, TypeOK, TableWellFormed, IsTable
<1>1. ASSUME NEW t \in Jobs, InBatch(t, "WRITE") \/ InBatch(t, "DELETE")
      PROVE  \A x \in Jobs : outbox[x] = <<>>
  <2>1. writer = t /\ outbox[t] = <<>>
    BY <1>1 DEF ControlInv, LockHeldRight, InLock, Writes, InBatch
  <2>2. \A x \in Jobs : outbox[x] # <<>> => writer = x
    BY DEF ControlInv, LockHeldRight, JobsAtWork, InLock, Writes
  <2> QED BY <2>1, <2>2
<1>2. ASSUME NEW t \in Jobs, WritePair(t) PROVE ToldInv'
  <2>1. PICK k \in Keys, v \in Values : k = Head(rest[t])[1] /\ v = Head(rest[t])[2]
    BY <1>2, NextOfBatch DEF WritePair
  <2>2. /\ table' = write_pair(table, k, v) /\ NotifyAll(t, k, v)
        /\ UNCHANGED <<fd, last>> /\ \A x \in Jobs : outbox[x] = <<>>
    BY <1>1, <1>2, <2>1 DEF WritePair, sessionVars
  <2>3. /\ \A j \in Keys : read_pair(table', j) = IF j = k THEN v ELSE read_pair(table, j)
        /\ \A f : Subscriptions(table', f) = Subscriptions(table, f)
    BY <1>0, <2>2, WriteProperties
  <2> QED BY <2>2, <2>3, ChangeTells
<1>3. ASSUME NEW t \in Jobs, DeletePair(t) PROVE ToldInv'
  <2>1. PICK k \in Keys : k = Head(rest[t])
    BY <1>3, NextOfBatch DEF DeletePair
  <2>2. /\ table' = delete_pair(table, k) /\ NotifyAll(t, k, Missing)
        /\ UNCHANGED <<fd, last>> /\ \A x \in Jobs : outbox[x] = <<>>
    BY <1>1, <1>3, <2>1 DEF DeletePair, sessionVars
  <2>3. /\ \A j \in Keys : read_pair(table', j) = IF j = k THEN Missing ELSE read_pair(table, j)
        /\ \A f : Subscriptions(table', f) \subseteq Subscriptions(table, f)
    BY <1>0, <2>2, DeleteContents
  <2> QED BY <2>2, <2>3, ChangeTells
<1>4. ASSUME NEW t \in Jobs, Notify(t) PROVE ToldInv'
  <2> DEFINE n == Head(outbox[t])
  <2>1. /\ outbox[t] \in Seq(Notifications) /\ outbox[t] # <<>> /\ Len(outbox[t]) \in Nat
        /\ DOMAIN outbox[t] = 1 .. Len(outbox[t])
    BY <1>4, LenProperties DEF Notify, ControlInv, TypeOK, Threads
  <2>2. /\ n \in Notifications /\ n = outbox[t][1] /\ 1 \in DOMAIN outbox[t]
        /\ Tail(outbox[t]) \in Seq(Notifications)
        /\ Len(Tail(outbox[t])) = Len(outbox[t]) - 1
        /\ \A i \in 1 .. Len(Tail(outbox[t])) : Tail(outbox[t])[i] = outbox[t][i + 1]
    BY <2>1, HeadTailProperties, EmptySeq
  <2>3. PICK g \in Fds, k \in Keys, v \in Values \cup {Missing} :
          n.fd = g /\ n.key = k /\ n.value = v
    BY <2>2 DEF Notifications
  <2>4. /\ outbox' = [outbox EXCEPT ![t] = Tail(outbox[t])]
        /\ UNCHANGED <<table, fd>>
        /\ IF fd[g] = "open" THEN last' = [last EXCEPT ![g] = [last[g] EXCEPT ![k] = v]]
                             ELSE last' = last
    BY <1>4, <2>3 DEF Notify
  <2>5. v = read_pair(table, k)
    BY <2>2, <2>3 DEF ToldInv, OutboxCurrent
  <2> DEFINE o == outbox[t]
             r == Tail(o)
  <2>6. /\ \A i \in DOMAIN r : i + 1 \in DOMAIN o /\ r[i] = o[i + 1]
        /\ \A i \in DOMAIN o : i # 1 => i - 1 \in DOMAIN r /\ r[i - 1] = o[i]
    <3>1. DOMAIN r = 1 .. Len(o) - 1
      BY <2>2, LenProperties
    <3>2. \A i \in 1 .. Len(o) - 1 : i + 1 \in 1 .. Len(o)
      BY <2>1
    <3>3. \A i \in 1 .. Len(o) : i # 1 => i - 1 \in 1 .. Len(o) - 1 /\ (i - 1) + 1 = i
      BY <2>1
    <3> QED BY <2>1, <2>2, <3>1, <3>2, <3>3
  <2>7. outbox'[t] = r /\ \A x \in Jobs \ {t} : outbox'[x] = outbox[x]
    BY <2>4 DEF ControlInv, TypeOK, Threads
  <2> HIDE DEF n, o, r
  <2>8. OutboxCurrent'
    <3> SUFFICES ASSUME NEW x \in Jobs, NEW i \in DOMAIN outbox'[x]
                 PROVE  outbox'[x][i].value = read_pair(table, outbox'[x][i].key)
      BY <2>4 DEF OutboxCurrent
    <3>1. CASE x = t
      BY <2>6, <2>7, <3>1 DEF ToldInv, OutboxCurrent, o
    <3>2. CASE x # t
      BY <2>7, <3>2 DEF ToldInv, OutboxCurrent
    <3> QED BY <3>1, <3>2
  <2>9. ClosedUntold'
    BY <2>4 DEF ToldInv, ClosedUntold, ControlInv, TypeOK
  <2>10. ASSUME NEW f \in Fds, fd[f] = "open", NEW j \in Subscriptions(table, f)
         PROVE  \/ last'[f][j] \in {NoNotif, read_pair(table, j)}
                \/ \E x \in Jobs : \E i \in DOMAIN outbox'[x] :
                     outbox'[x][i].fd = f /\ outbox'[x][i].key = j
    <3>0. j \in Keys /\ last \in [Fds -> [Keys -> Values \cup {Missing, NoNotif}]]
      BY <2>10 DEF Subscriptions, ControlInv, TypeOK
    <3>1. CASE f = g /\ j = k
      BY <2>4, <2>5, <2>10, <3>0, <3>1
    <3>2. CASE ~(f = g /\ j = k)
      <4>1. last'[f][j] = last[f][j]
        BY <2>4, <3>0, <3>2
      <4>2. ASSUME NEW x \in Jobs, NEW i \in DOMAIN outbox[x],
                   outbox[x][i].fd = f, outbox[x][i].key = j
            PROVE  \E y \in DOMAIN outbox'[x] : outbox'[x][y].fd = f /\ outbox'[x][y].key = j
        <5>1. CASE x = t
          <6>1. i # 1
            BY <2>2, <2>3, <3>2, <4>2, <5>1
          <6> QED BY <2>6, <2>7, <4>2, <5>1, <6>1 DEF o
        <5>2. CASE x # t
          BY <2>7, <4>2, <5>2
        <5> QED BY <5>1, <5>2
      <4> QED BY <2>10, <4>1, <4>2 DEF ToldInv, ToldCurrentValue
    <3> QED BY <3>1, <3>2
  <2>11. ToldCurrentValue'
    BY <2>4, <2>10 DEF ToldCurrentValue
  <2> QED BY <2>8, <2>9, <2>11 DEF ToldInv
<1>5. ASSUME NEW m \in Managers, Subscribe(m) PROVE ToldInv'
  <2>1. PICK g \in Fds, k \in Keys : g = f_notif[m] /\ k = cmd[m].key
    BY <1>5 DEF ControlInv, ManagersAtWork, Subscribe, InRequest, Requests
  <2>2. /\ \A j \in Keys : read_pair(table', j) = read_pair(table, j)
        /\ \A f \in Fds : \A j \in Subscriptions(table', f) :
             j \in Subscriptions(table, f) \/ (f = g /\ j = k)
    BY <1>5, <2>1, RequestKeepsTable
  <2>3. last' = [last EXCEPT ![g] = [last[g] EXCEPT ![k] = NoNotif]] /\ UNCHANGED <<outbox, fd>>
    BY <1>5, <2>1 DEF Subscribe, Answer
  <2>4. last \in [Fds -> [Keys -> Values \cup {Missing, NoNotif}]]
    BY DEF ControlInv, TypeOK
  <2>5. \A f \in Fds, j \in Keys :
          last'[f][j] = IF f = g /\ j = k THEN NoNotif ELSE last[f][j]
    BY <2>3, <2>4
  <2>6. OutboxCurrent'
    BY OutboxKeys, <2>2, <2>3 DEF ToldInv, OutboxCurrent
  <2>7. ClosedUntold'
    BY <2>3, <2>5 DEF ToldInv, ClosedUntold
  <2>8. ASSUME NEW f \in Fds, fd[f] = "open", NEW j \in Subscriptions(table', f)
        PROVE  \/ last'[f][j] \in {NoNotif, read_pair(table', j)}
               \/ \E x \in Jobs : \E i \in DOMAIN outbox[x] :
                    outbox[x][i].fd = f /\ outbox[x][i].key = j
    <3>1. j \in Keys
      BY <2>8 DEF Subscriptions
    <3> QED BY <2>2, <2>5, <2>8, <3>1 DEF ToldInv, ToldCurrentValue
  <2>9. ToldCurrentValue'
    BY <2>3, <2>8 DEF ToldCurrentValue
  <2> QED BY <2>6, <2>7, <2>9 DEF ToldInv
<1>6. ASSUME NEW m \in Managers, Unsubscribe(m) \/ Disconnect(m) PROVE ToldInv'
  <2>1. /\ \A k \in Keys : read_pair(table', k) = read_pair(table, k)
        /\ \A f : Subscriptions(table', f) \subseteq Subscriptions(table, f)
    <3>1. ~Subscribe(m)
      BY <1>6 DEF Subscribe, Unsubscribe, Disconnect, InRequest
    <3> QED BY <1>6, <3>1, RequestKeepsTable
  <2>2. UNCHANGED <<outbox, fd, last>>
    BY <1>6 DEF Unsubscribe, Disconnect, Answer
  <2>3. OutboxCurrent => OutboxCurrent'
    BY OutboxKeys, <2>1, <2>2 DEF OutboxCurrent
  <2> QED BY <2>1, <2>2, <2>3, NothingToTell
<1>7. ASSUME NEW m \in Managers, Close(m) PROVE ToldInv'
  <2>1. PICK g \in Fds : g = f_notif[m]
    BY <1>7 DEF ControlInv, ManagersAtWork, Close
  <2>2. /\ fd' = [fd EXCEPT ![g] = "closed"] /\ last' = [last EXCEPT ![g] = [k \in Keys |-> NoNotif]]
        /\ UNCHANGED <<table, outbox>>
    BY <1>7, <2>1 DEF Close
  <2>3. /\ fd'[g] = "closed" /\ \A k \in Keys : last'[g][k] = NoNotif
        /\ \A f \in Fds \ {g} : fd'[f] = fd[f] /\ last'[f] = last[f]
    BY <2>2 DEF ControlInv, TypeOK
  <2>4. OutboxCurrent' /\ ClosedUntold'
    BY <2>2, <2>3 DEF ToldInv, OutboxCurrent, ClosedUntold
  <2>5. ToldCurrentValue'
    BY <2>2, <2>3 DEF ToldInv, ToldCurrentValue
  <2> QED BY <2>4, <2>5 DEF ToldInv
<1>8. ASSUME NEW m \in Managers, NEW g \in Fds, Connect(m, g) PROVE ToldInv'
  <2>1. /\ fd[g] = "closed" /\ fd' = [fd EXCEPT ![g] = "open"]
        /\ UNCHANGED <<table, outbox, last>>
    BY <1>8 DEF Connect, threadVars
  <2>2. \A f \in Fds : fd'[f] = IF f = g THEN "open" ELSE fd[f]
    BY <2>1 DEF ControlInv, TypeOK
  <2>3. OutboxCurrent' /\ ClosedUntold'
    BY <2>1, <2>2 DEF ToldInv, OutboxCurrent, ClosedUntold
  <2>4. \A k \in Keys : last[g][k] = NoNotif
    BY <2>1 DEF ToldInv, ClosedUntold
  <2>5. ToldCurrentValue'
    BY <2>1, <2>2, <2>4 DEF ToldInv, ToldCurrentValue, Subscriptions
  <2> QED BY <2>3, <2>5 DEF ToldInv
<1>9. ASSUME NEW m \in Managers, ClientDies(m) PROVE ToldInv'
  <2>1. PICK g : g = f_notif[m]
    OBVIOUS
  <2>2. fd' = [fd EXCEPT ![g] = "broken"] /\ UNCHANGED <<table, outbox, last>>
    BY <1>9, <2>1 DEF ClientDies, threadVars
  <2>3. \A f \in Fds : fd'[f] \in {"open", "closed"} => fd'[f] = fd[f]
    BY <2>2 DEF ControlInv, TypeOK
  <2>4. OutboxCurrent' /\ ClosedUntold'
    BY <2>2, <2>3 DEF ToldInv, OutboxCurrent, ClosedUntold
  <2>5. ToldCurrentValue'
    BY <2>2, <2>3 DEF ToldInv, ToldCurrentValue
  <2> QED BY <2>4, <2>5 DEF ToldInv
<1>10. CASE UNCHANGED <<table, outbox, fd, last>>
  BY <1>10 DEF ToldInv, OutboxCurrent, ClosedUntold, ToldCurrentValue
<1>11. \/ UNCHANGED <<table, outbox, fd, last>>
       \/ \E t \in Jobs : WritePair(t) \/ DeletePair(t) \/ Notify(t)
       \/ \E m \in Managers :
            Subscribe(m) \/ Unsubscribe(m) \/ Disconnect(m) \/ Close(m) \/ ClientDies(m)
       \/ \E m \in Managers, g \in Fds : Connect(m, g)
  BY DEF Next, vars, Batch, Serve, ReadKey, ShowBucket, BatchDone, ForkBackup, Unlock, RdLock,
         WrLock, JobCommand, Reply, EndOfRequests, Request, ClientReads, threadVars, sessionVars
<1> QED BY <1>2, <1>3, <1>4, <1>5, <1>6, <1>7, <1>8, <1>9, <1>10, <1>11

\* What a live subscriber was last told of a key is its value, unless the
\* thread that changed the key is still notifying.
THEOREM SubscribersTold == Spec => []ToldCurrentValue
<1>1. Init => ToldInv
  BY InitTold
<1>2. ControlInv /\ ToldInv /\ [Next]_vars => ToldInv'
  BY NextTold
<1>3. ToldInv => ToldCurrentValue
  BY DEF ToldInv
<1> QED BY Control, <1>1, <1>2, <1>3, PTL DEF Spec

-----------------------------------------------------------------------------
(***************************************************************************)
(* KvsServer implements AtomicStore: whatever threads run at the same time *)
(* and whatever clients do, a command of a job takes effect at once, when  *)
(* its thread unlocks.  The invariant says, of every job that executes a   *)
(* command, what the elements it has taken from its batch so far have done *)
(* to the table, compared with the table when it got the lock, and what    *)
(* they have printed.                                                      *)
(***************************************************************************)

\* The elements that a command goes over; how many thread t has taken, and
\* the i-th of them.
Whole(c)    == IF c.cmd = "SHOW" THEN [i \in 1 .. TABLE_SIZE |-> <<i - 1>>] ELSE c.args
Done(t)     == Len(Whole(cmd[t])) - Len(rest[t])
Taken(t, i) == Whole(cmd[t])[i]

\* What is left is the end of the batch, and all of it before the lock.
InOrder(t) ==
  /\ Done(t) \in 0 .. Len(Whole(cmd[t]))
  /\ \A i \in 1 .. Len(rest[t]) : rest[t][i] = Taken(t, Done(t) + i)
  /\ pc[t] \in {"wrlock", "rdlock"} => Done(t) = 0 /\ output[t] = {}
  /\ pc[t] = "unlock" /\ cmd[t].cmd # "BACKUP" => rest[t] = <<>>

\* A key has the value of the last pair taken for it, or the one it had.
WrittenSoFar(t) ==
  /\ output[t] = {}
  /\ \A k \in Keys :
       \/ /\ \A i \in 1 .. Done(t) : Taken(t, i)[1] # k
          /\ read_pair(table, k) = base[k]
       \/ \E i \in 1 .. Done(t) :
            /\ Taken(t, i)[1] = k /\ Taken(t, i)[2] = read_pair(table, k)
            /\ \A j \in 1 .. Done(t) : Taken(t, j)[1] = k => j <= i

\* The keys taken are gone, the others as they were; those printed were not in
\* the table, or no longer.
DeletedSoFar(t) ==
  /\ \A k \in Keys :
       read_pair(table, k) = IF \E i \in 1 .. Done(t) : Taken(t, i) = k THEN Missing ELSE base[k]
  /\ output[t] = {<<k, Missing>> : k \in
       {x \in Keys : \E i \in 1 .. Done(t) :
          /\ Taken(t, i) = x
          /\ base[x] = Missing \/ \E j \in 1 .. i - 1 : Taken(t, j) = x}}

ReadSoFar(t) ==
  output[t] = {<<k, read_pair(table, k)>> : k \in
    {x \in Keys : \E i \in 1 .. Done(t) : Taken(t, i) = x}}

ShownSoFar(t) ==
  output[t] = {<<k, read_pair(table, k)>> : k \in
    {x \in Keys : hash[x] < Done(t) /\ read_pair(table, x) # Missing}}

BackedUp(t) ==
  pc[t] = "unlock" =>
    output[t] = {<<k, read_pair(table, k)>> : k \in {x \in Keys : read_pair(table, x) # Missing}}

Progress(t) ==
  /\ pc[t] # "idle" => InOrder(t)
  /\ InLock(t) => /\ cmd[t].cmd = "WRITE" => WrittenSoFar(t)
                  /\ cmd[t].cmd = "DELETE" => DeletedSoFar(t)
                  /\ cmd[t].cmd = "READ" => ReadSoFar(t)
                  /\ cmd[t].cmd = "SHOW" => ShownSoFar(t)
                  /\ cmd[t].cmd = "BACKUP" => BackedUp(t)

BatchInv == \A t \in Jobs : Progress(t)

-----------------------------------------------------------------------------
\* The elements of a command.
LEMMA WholeParts ==
  ASSUME NEW c \in JobCommands
  PROVE  /\ Len(Whole(c)) \in Nat
         /\ c.cmd = "WRITE" => \A i \in 1 .. Len(Whole(c)) : Whole(c)[i] \in Keys \X Values
         /\ c.cmd \in {"READ", "DELETE"} => \A i \in 1 .. Len(Whole(c)) : Whole(c)[i] \in Keys
         /\ c.cmd = "SHOW" =>
              /\ Len(Whole(c)) = TABLE_SIZE
              /\ \A i \in 1 .. Len(Whole(c)) : Whole(c)[i] = <<i - 1>>
         /\ c.cmd # "SHOW" => Whole(c) = c.args /\ DOMAIN c.args = 1 .. Len(c.args)
<1>1. CASE c.cmd = "WRITE"
  <2>1. Whole(c) = c.args /\ c.args \in Seq(Keys \X Values)
    BY <1>1, CommandParts DEF Whole
  <2> QED BY <1>1, <2>1, LenProperties
<1>2. CASE c.cmd \in {"READ", "DELETE"}
  <2>1. Whole(c) = c.args /\ c.args \in Seq(Keys)
    BY <1>2, CommandParts DEF Whole
  <2> QED BY <1>2, <2>1, LenProperties
<1>3. CASE c.cmd = "SHOW"
  <2>1. Whole(c) = [i \in 1 .. TABLE_SIZE |-> <<i - 1>>] /\ TABLE_SIZE \in Nat
    BY <1>3, HashAssumption DEF Whole
  <2>2. Whole(c) \in Seq({<<x>> : x \in Buckets})
    BY <1>3, <2>1, BatchStarts
  <2>3. Len(Whole(c)) = TABLE_SIZE
    <3>1. DOMAIN Whole(c) = 1 .. TABLE_SIZE
      BY <2>1
    <3>2. DOMAIN Whole(c) = 1 .. Len(Whole(c)) /\ Len(Whole(c)) \in Nat
      BY <2>2, LenProperties
    <3> QED BY <2>1, <3>1, <3>2
  <2>4. \A i \in 1 .. TABLE_SIZE : Whole(c)[i] = <<i - 1>>
    BY <2>1
  <2> QED BY <1>3, <2>1, <2>3, <2>4
<1>4. CASE c.cmd = "BACKUP"
  <2>1. Whole(c) = <<>> /\ c.args = <<>>
    BY <1>4, CommandParts DEF Whole
  <2>2. Len(<<>>) = 0 /\ DOMAIN <<>> = 1 .. 0
    BY EmptySeq
  <2> QED BY <1>4, <2>1, <2>2
<1> QED BY <1>1, <1>2, <1>3, <1>4, CommandParts

\* A writer is alone in the lock; beside a reader nothing writes.
LEMMA AloneInLock ==
  ASSUME ControlInv, NEW t \in Jobs, InLock(t)
  PROVE  /\ cmd[t] \in JobCommands
         /\ Writes(t) => writer = t /\ readers = {} /\ \A x \in Jobs \ {t} : ~InLock(x)
         /\ ~Writes(t) => writer = NoThread /\ t \in readers
<1> QED BY KvsServerAssumption DEF ControlInv, LockHeldRight, JobsAtWork, TypeOK, InLock, Threads

\* What t has left is a sequence.
LEMMA RestIsSeq ==
  ASSUME ControlInv, NEW t \in Jobs
  PROVE  \E S : rest[t] \in Seq(S)
<1> QED BY DEF ControlInv, TypeOK, Threads

\* t takes the next element of its batch.
LEMMA TakesNext ==
  ASSUME ControlInv, NEW t \in Jobs, pc[t] = "body", Progress(t), rest[t] # <<>>,
         rest'[t] = Tail(rest[t]), cmd'[t] = cmd[t], pc'[t] = pc[t]
  PROVE  /\ InOrder(t)' /\ Done(t) \in Nat /\ Done(t)' = Done(t) + 1
         /\ Done(t) + 1 \in 1 .. Len(Whole(cmd[t]))
         /\ Head(rest[t]) = Taken(t, Done(t) + 1)
         /\ \A i : Taken(t, i)' = Taken(t, i)
<1> DEFINE n == Len(Whole(cmd[t]))
           r == rest[t]
<1>1. n \in Nat /\ cmd[t] \in JobCommands
  BY WholeParts, AloneInLock DEF InLock
<1>2. PICK S : r \in Seq(S)
  BY RestIsSeq
<1>3. /\ Len(r) \in Nat /\ Len(r) # 0 /\ Len(Tail(r)) = Len(r) - 1 /\ Head(r) = r[1]
      /\ \A i \in 1 .. Len(r) - 1 : Tail(r)[i] = r[i + 1]
  BY <1>2, HeadTailProperties, EmptySeq
<1>4. /\ n - Len(r) \in 0 .. n
      /\ \A i \in 1 .. Len(r) : r[i] = Whole(cmd[t])[n - Len(r) + i]
  BY DEF Progress, InOrder, Done, Taken
<1>5. Done(t) = n - Len(r) /\ Done(t)' = n - (Len(r) - 1)
  BY <1>3 DEF Done
<1>6. \A i : Taken(t, i)' = Taken(t, i)
  BY DEF Taken
<1> HIDE DEF n, r
<1>7. Done(t) \in Nat /\ Done(t)' = Done(t) + 1 /\ Done(t) + 1 \in 1 .. n /\ Done(t)' \in 0 .. n
  BY <1>1, <1>3, <1>4, <1>5
<1>8. Head(r) = Taken(t, Done(t) + 1)
  BY <1>1, <1>3, <1>4, <1>5 DEF Taken
<1>9. ASSUME NEW i \in 1 .. Len(r) - 1 PROVE Tail(r)[i] = Taken(t, Done(t)' + i)
  <2>1. i + 1 \in 1 .. Len(r) /\ n - Len(r) + (i + 1) = Done(t)' + i
    BY <1>1, <1>3, <1>5
  <2>2. r[i + 1] = Whole(cmd[t])[n - Len(r) + (i + 1)]
    BY <1>4, <2>1
  <2> QED BY <1>3, <2>1, <2>2 DEF Taken
<1>10. InOrder(t)'
  BY <1>3, <1>6, <1>7, <1>9 DEF InOrder, r, n
<1> QED BY <1>6, <1>7, <1>8, <1>10 DEF n, r

\* A job that does not move keeps its progress, if the table keeps its values
\* while it is in the lock.
LEMMA ProgressKept ==
  ASSUME NEW x \in Jobs, Progress(x),
         pc'[x] = pc[x], cmd'[x] = cmd[x], rest'[x] = rest[x], output'[x] = output[x],
         InLock(x) => base' = base /\ \A k \in Keys : read_pair(table', k) = read_pair(table, k)
  PROVE  Progress(x)'
<1>1. Done(x)' = Done(x) /\ \A i : Taken(x, i)' = Taken(x, i)
  BY DEF Done, Taken
<1>2. InOrder(x) => InOrder(x)'
  BY <1>1 DEF InOrder
<1>3. ASSUME InLock(x)
      PROVE  /\ WrittenSoFar(x) => WrittenSoFar(x)'
             /\ DeletedSoFar(x) => DeletedSoFar(x)'
             /\ ReadSoFar(x) => ReadSoFar(x)'
             /\ ShownSoFar(x) => ShownSoFar(x)'
             /\ BackedUp(x) => BackedUp(x)'
  <2>1. WrittenSoFar(x) => WrittenSoFar(x)'
    BY <1>1, <1>3 DEF WrittenSoFar
  <2>2. DeletedSoFar(x) => DeletedSoFar(x)'
    BY <1>1, <1>3 DEF DeletedSoFar
  <2>3. ReadSoFar(x) => ReadSoFar(x)'
    BY <1>1, <1>3 DEF ReadSoFar
  <2>4. ShownSoFar(x) => ShownSoFar(x)'
    BY <1>1, <1>3 DEF ShownSoFar
  <2>5. BackedUp(x) => BackedUp(x)'
    BY <1>1, <1>3 DEF BackedUp
  <2> QED BY <2>1, <2>2, <2>3, <2>4, <2>5
<1>4. InLock(x)' <=> InLock(x)
  BY DEF InLock
<1> QED BY <1>2, <1>3, <1>4 DEF Progress

-----------------------------------------------------------------------------
(* One element of a batch.                                                 *)

\* WRITE.
LEMMA WriteProgress ==
  ASSUME ControlInv, NEW t \in Jobs, Progress(t), WritePair(t)
  PROVE  Progress(t)'
<1>1. PICK k \in Keys, v \in Values : k = Head(rest[t])[1] /\ v = Head(rest[t])[2]
  BY NextOfBatch DEF WritePair
<1>2. /\ pc[t] = "body" /\ cmd[t].cmd = "WRITE" /\ rest[t] # <<>>
      /\ table' = write_pair(table, k, v)
      /\ rest' = [rest EXCEPT ![t] = Tail(rest[t])]
      /\ UNCHANGED <<pc, cmd, output, base>>
  BY <1>1 DEF WritePair, InBatch
<1>3. /\ rest'[t] = Tail(rest[t]) /\ cmd'[t] = cmd[t] /\ pc'[t] = pc[t]
      /\ output'[t] = output[t]
  BY <1>2 DEF ControlInv, TypeOK, Threads
<1>4. /\ InOrder(t)' /\ Done(t) \in Nat /\ Done(t)' = Done(t) + 1
      /\ Head(rest[t]) = Taken(t, Done(t) + 1)
      /\ \A i : Taken(t, i)' = Taken(t, i)
  BY <1>2, <1>3, TakesNext
<1>5. \A j \in Keys : read_pair(table', j) = IF j = k THEN v ELSE read_pair(table, j)
  <2>1. IsTable(table)
    BY DEF ControlInv, TypeOK, TableWellFormed, IsTable
  <2> QED BY <1>2, <2>1, WriteProperties
<1>6. WrittenSoFar(t)
  BY <1>2 DEF Progress, InLock
<1>7. WrittenSoFar(t)'
  <2> DEFINE n == Done(t)
  <2>1. /\ n \in Nat /\ Done(t)' = n + 1 /\ n + 1 \in 1 .. n + 1
        /\ \A i \in 1 .. n + 1 : i <= n + 1 /\ (i # n + 1 => i \in 1 .. n)
        /\ \A i \in 1 .. n : i \in 1 .. n + 1 /\ i # n + 1
    BY <1>4
  <2>2. Taken(t, n + 1)[1] = k /\ Taken(t, n + 1)[2] = v
    BY <1>1, <1>4
  <2> HIDE DEF n
  <2>3. ASSUME NEW j \in Keys
        PROVE  \/ /\ \A i \in 1 .. n + 1 : Taken(t, i)[1] # j
                  /\ read_pair(table', j) = base[j]
               \/ \E i \in 1 .. n + 1 :
                    /\ Taken(t, i)[1] = j /\ Taken(t, i)[2] = read_pair(table', j)
                    /\ \A x \in 1 .. n + 1 : Taken(t, x)[1] = j => x <= i
    <3>1. CASE j = k
      BY <1>5, <2>1, <2>2, <3>1
    <3>2. CASE j # k
      <4>1. read_pair(table', j) = read_pair(table, j)
        BY <1>5, <3>2
      <4>2. \A i \in 1 .. n + 1 : Taken(t, i)[1] = j => i \in 1 .. n
        BY <2>1, <2>2, <3>2
      <4> QED BY <1>6, <2>1, <4>1, <4>2 DEF WrittenSoFar, n
    <3> QED BY <3>1, <3>2
  <2> QED BY <1>2, <1>3, <1>4, <1>6, <2>1, <2>3 DEF WrittenSoFar
<1> QED BY <1>2, <1>3, <1>4, <1>7 DEF Progress, InLock

\* DELETE.
LEMMA DeleteProgress ==
  ASSUME ControlInv, NEW t \in Jobs, Progress(t), DeletePair(t)
  PROVE  Progress(t)'
<1>1. PICK k \in Keys : k = Head(rest[t])
  BY NextOfBatch DEF DeletePair
<1>2. /\ pc[t] = "body" /\ cmd[t].cmd = "DELETE" /\ rest[t] # <<>>
      /\ table' = delete_pair(table, k)
      /\ rest' = [rest EXCEPT ![t] = Tail(rest[t])]
      /\ output' = [output EXCEPT ![t] =
           IF Found(table, k) THEN output[t] ELSE output[t] \cup {<<k, Missing>>}]
      /\ UNCHANGED <<pc, cmd, base>>
  BY <1>1 DEF DeletePair, InBatch
<1>3. IsTable(table)
  BY DEF ControlInv, TypeOK, TableWellFormed, IsTable
<1>4. /\ rest'[t] = Tail(rest[t]) /\ cmd'[t] = cmd[t] /\ pc'[t] = pc[t]
      /\ output'[t] = IF read_pair(table, k) # Missing THEN output[t]
                                                       ELSE output[t] \cup {<<k, Missing>>}
  BY <1>2, <1>3, ReadProperties DEF ControlInv, TypeOK, Threads
<1>5. /\ InOrder(t)' /\ Done(t) \in Nat /\ Done(t)' = Done(t) + 1
      /\ Head(rest[t]) = Taken(t, Done(t) + 1)
      /\ \A i : Taken(t, i)' = Taken(t, i)
  BY <1>2, <1>4, TakesNext
<1>6. \A j \in Keys : read_pair(table', j) = IF j = k THEN Missing ELSE read_pair(table, j)
  BY <1>2, <1>3, DeleteContents
<1>7. DeletedSoFar(t)
  BY <1>2 DEF Progress, InLock
<1>8. DeletedSoFar(t)'
  <2> DEFINE n == Done(t)
             Gone(j, m) == \E i \in 1 .. m : Taken(t, i) = j
             Absent(j, m) == \E i \in 1 .. m :
               Taken(t, i) = j /\ (base[j] = Missing \/ \E y \in 1 .. i - 1 : Taken(t, y) = j)
  <2>1. /\ n \in Nat /\ Done(t)' = n + 1 /\ n + 1 \in 1 .. n + 1 /\ (n + 1) - 1 = n
        /\ \A i \in 1 .. n + 1 : i # n + 1 => i \in 1 .. n
        /\ \A i \in 1 .. n : i \in 1 .. n + 1
    BY <1>5
  <2>2. Taken(t, n + 1) = k
    BY <1>1, <1>5
  <2>3. /\ \A j \in Keys : read_pair(table, j) = IF Gone(j, n) THEN Missing ELSE base[j]
        /\ output[t] = {<<j, Missing>> : j \in {x \in Keys : Absent(x, n)}}
    BY <1>7 DEF DeletedSoFar
  <2> HIDE DEF n
  <2>4. \A j \in Keys : Gone(j, n + 1) <=> Gone(j, n) \/ j = k
    BY <2>1, <2>2
  <2>5. \A j \in Keys : Absent(j, n + 1) <=>
          Absent(j, n) \/ (j = k /\ (base[j] = Missing \/ Gone(j, n)))
    BY <2>1, <2>2
  <2> HIDE DEF Gone, Absent
  <2>6. \A j \in Keys : read_pair(table', j) = IF Gone(j, n + 1) THEN Missing ELSE base[j]
    BY <1>6, <2>3, <2>4
  <2>7. read_pair(table, k) = Missing <=> base[k] = Missing \/ Gone(k, n)
    BY <2>3
  <2>8. {x \in Keys : Absent(x, n + 1)} =
          {x \in Keys : Absent(x, n)} \cup (IF read_pair(table, k) = Missing THEN {k} ELSE {})
    BY <2>5, <2>7
  <2>9. output'[t] = {<<j, Missing>> : j \in {x \in Keys : Absent(x, n + 1)}}
    BY <1>4, <2>3, <2>8
  <2> QED BY <1>2, <1>5, <2>1, <2>6, <2>9 DEF DeletedSoFar, Gone, Absent
<1> QED BY <1>2, <1>4, <1>5, <1>8 DEF Progress, InLock

\* READ.
LEMMA ReadProgress ==
  ASSUME ControlInv, NEW t \in Jobs, Progress(t), ReadKey(t)
  PROVE  Progress(t)'
<1>1. PICK k \in Keys : k = Head(rest[t])
  BY NextOfBatch DEF ReadKey
<1>2. /\ pc[t] = "body" /\ cmd[t].cmd = "READ" /\ rest[t] # <<>>
      /\ rest' = [rest EXCEPT ![t] = Tail(rest[t])]
      /\ output' = [output EXCEPT ![t] = output[t] \cup {<<k, read_pair(table, k)>>}]
      /\ UNCHANGED <<table, pc, cmd>>
  BY <1>1 DEF ReadKey, InBatch
<1>3. /\ rest'[t] = Tail(rest[t]) /\ cmd'[t] = cmd[t] /\ pc'[t] = pc[t]
      /\ output'[t] = output[t] \cup {<<k, read_pair(table, k)>>}
  BY <1>2 DEF ControlInv, TypeOK, Threads
<1>4. /\ InOrder(t)' /\ Done(t) \in Nat /\ Done(t)' = Done(t) + 1
      /\ Head(rest[t]) = Taken(t, Done(t) + 1)
      /\ \A i : Taken(t, i)' = Taken(t, i)
  BY <1>2, <1>3, TakesNext
<1>5. ReadSoFar(t)'
  <2> DEFINE n == Done(t)
             Named(m) == {x \in Keys : \E i \in 1 .. m : Taken(t, i) = x}
  <2>1. /\ n \in Nat /\ Done(t)' = n + 1 /\ n + 1 \in 1 .. n + 1
        /\ \A i \in 1 .. n + 1 : i # n + 1 => i \in 1 .. n
        /\ \A i \in 1 .. n : i \in 1 .. n + 1
    BY <1>4
  <2>2. Taken(t, n + 1) = k
    BY <1>1, <1>4
  <2>3. output[t] = {<<x, read_pair(table, x)>> : x \in Named(n)}
    BY <1>2 DEF Progress, InLock, ReadSoFar
  <2> HIDE DEF n
  <2>4. Named(n + 1) = Named(n) \cup {k}
    BY <2>1, <2>2
  <2> HIDE DEF Named
  <2>5. output'[t] = {<<x, read_pair(table, x)>> : x \in Named(n + 1)}
    BY <1>3, <2>3, <2>4
  <2> QED BY <1>2, <1>4, <2>1, <2>5 DEF ReadSoFar, Named
<1> QED BY <1>2, <1>3, <1>4, <1>5 DEF Progress, InLock

\* SHOW.
LEMMA ShowProgress ==
  ASSUME ControlInv, NEW t \in Jobs, Progress(t), ShowBucket(t)
  PROVE  Progress(t)'
<1>1. PICK b \in Buckets : b = Head(rest[t])[1]
  BY NextOfBatch DEF ShowBucket
<1>2. /\ pc[t] = "body" /\ cmd[t].cmd = "SHOW" /\ rest[t] # <<>>
      /\ rest' = [rest EXCEPT ![t] = Tail(rest[t])]
      /\ output' = [output EXCEPT ![t] = output[t] \cup PairsIn(table[b])]
      /\ UNCHANGED <<table, pc, cmd>>
  BY <1>1 DEF ShowBucket, InBatch
<1>3. /\ rest'[t] = Tail(rest[t]) /\ cmd'[t] = cmd[t] /\ pc'[t] = pc[t]
      /\ output'[t] = output[t] \cup PairsIn(table[b])
  BY <1>2 DEF ControlInv, TypeOK, Threads
<1>4. /\ InOrder(t)' /\ Done(t) \in Nat /\ Done(t)' = Done(t) + 1
      /\ Done(t) + 1 \in 1 .. Len(Whole(cmd[t]))
      /\ Head(rest[t]) = Taken(t, Done(t) + 1)
      /\ \A i : Taken(t, i)' = Taken(t, i)
  BY <1>2, <1>3, TakesNext
<1>5. b = Done(t)
  <2>1. cmd[t] \in JobCommands
    BY <1>2, AloneInLock DEF InLock
  <2>2. Taken(t, Done(t) + 1) = <<Done(t) + 1 - 1>>
    BY <1>2, <1>4, <2>1, WholeParts DEF Taken
  <2> QED BY <1>1, <1>4, <2>2
<1>6. IsTable(table)
  BY DEF ControlInv, TypeOK, TableWellFormed, IsTable
<1>7. PairsIn(table[b]) =
        {<<k, read_pair(table, k)>> :
           k \in {x \in Keys : hash[x] = b /\ read_pair(table, x) # Missing}}
  <2>1. {x \in Keys : hash[x] = b /\ Found(table, x)} =
          {x \in Keys : hash[x] = b /\ read_pair(table, x) # Missing}
    BY <1>6, ReadProperties
  <2> QED BY <1>6, <2>1, PairsOfBucket
<1>8. ShownSoFar(t)'
  <2> DEFINE n == Done(t)
             Seen(m) == {x \in Keys : hash[x] < m /\ read_pair(table, x) # Missing}
             At(m) == {x \in Keys : hash[x] = m /\ read_pair(table, x) # Missing}
  <2>1. output[t] = {<<x, read_pair(table, x)>> : x \in Seen(n)}
    BY <1>2 DEF Progress, InLock, ShownSoFar
  <2>2. PairsIn(table[b]) = {<<x, read_pair(table, x)>> : x \in At(n)}
    BY <1>5, <1>7
  <2>3. n \in Nat /\ Done(t)' = n + 1 /\ \A x \in Keys : hash[x] \in Nat
    BY <1>4, HashAssumption
  <2> HIDE DEF n
  <2>4. Seen(n + 1) = Seen(n) \cup At(n)
    <3>1. \A x \in Keys : hash[x] < n + 1 <=> hash[x] < n \/ hash[x] = n
      BY <2>3
    <3> QED BY <3>1
  <2> HIDE DEF Seen, At
  <2>5. output'[t] = {<<x, read_pair(table, x)>> : x \in Seen(n + 1)}
    BY <1>3, <2>1, <2>2, <2>4
  <2> QED BY <1>2, <2>3, <2>5 DEF ShownSoFar, Seen
<1> QED BY <1>2, <1>3, <1>4, <1>8 DEF Progress, InLock

-----------------------------------------------------------------------------
(* Every step.                                                             *)

\* A command starts.
LEMMA CommandStarts ==
  ASSUME ControlInv, NEW t \in Jobs, NEW c \in JobCommands, JobCommand(t, c)
  PROVE  Progress(t)'
<1>1. /\ pc'[t] \in {"wrlock", "rdlock"} /\ cmd'[t] = c /\ rest'[t] = Whole(c) /\ output'[t] = {}
  BY DEF JobCommand, Goto, Whole, ControlInv, TypeOK, Threads
<1>2. Len(Whole(c)) \in Nat
  BY WholeParts
<1>3. Done(t)' = 0 /\ \A i : Taken(t, i)' = Whole(c)[i]
  BY <1>1, <1>2 DEF Done, Taken
<1>4. \A i \in 1 .. Len(Whole(c)) : 0 + i = i
  BY <1>2
<1>5. InOrder(t)'
  BY <1>1, <1>2, <1>3, <1>4 DEF InOrder
<1> QED BY <1>1, <1>5 DEF Progress, InLock

\* A command gets the lock: nothing is done yet.
LEMMA LockProgress ==
  ASSUME ControlInv, NEW t \in Jobs, Progress(t), WrLock(t) \/ RdLock(t)
  PROVE  Progress(t)'
<1>1. /\ pc[t] \in {"wrlock", "rdlock"} /\ pc'[t] = "body"
      /\ cmd'[t] = cmd[t] /\ rest'[t] = rest[t] /\ output'[t] = output[t] /\ table' = table
      /\ Writes(t) => base' = Contents(table)
  BY DEF WrLock, RdLock, Goto, ControlInv, TypeOK, Threads, JobsAtWork
<1>2. Done(t)' = Done(t) /\ \A i : Taken(t, i)' = Taken(t, i)
  BY <1>1 DEF Done, Taken
<1>3. InOrder(t) /\ Done(t) = 0 /\ output[t] = {}
  BY <1>1 DEF Progress, InOrder
<1>4. InOrder(t)'
  BY <1>1, <1>2, <1>3 DEF InOrder
<1>5. 1 .. Done(t)' = {}
  BY <1>2, <1>3
<1>6. Writes(t) => \A k \in Keys : base'[k] = read_pair(table', k)
  BY <1>1 DEF Contents
<1>7. cmd[t].cmd = "WRITE" => WrittenSoFar(t)'
  BY <1>1, <1>3, <1>5, <1>6 DEF WrittenSoFar, Writes
<1>8. cmd[t].cmd = "DELETE" => DeletedSoFar(t)'
  BY <1>1, <1>3, <1>5, <1>6 DEF DeletedSoFar, Writes
<1>9. ReadSoFar(t)'
  BY <1>1, <1>3, <1>5 DEF ReadSoFar
<1>10. ShownSoFar(t)'
  <2>1. \A k \in Keys : ~(hash[k] < Done(t)')
    BY <1>2, <1>3, HashAssumption
  <2> QED BY <1>1, <1>3, <2>1 DEF ShownSoFar
<1>11. BackedUp(t)'
  BY <1>1 DEF BackedUp
<1> QED BY <1>1, <1>4, <1>7, <1>8, <1>9, <1>10, <1>11 DEF Progress

\* The loop over the batch ends.
LEMMA EndProgress ==
  ASSUME ControlInv, NEW t \in Jobs, Progress(t), BatchDone(t)
  PROVE  Progress(t)'
<1>1. /\ pc[t] = "body" /\ pc'[t] = "unlock" /\ rest[t] = <<>> /\ cmd[t].cmd # "BACKUP"
      /\ UNCHANGED <<cmd, rest, output, table, base>>
  BY DEF BatchDone, Goto, ControlInv, TypeOK, Threads
<1>2. Done(t)' = Done(t) /\ \A i : Taken(t, i)' = Taken(t, i)
  BY <1>1 DEF Done, Taken
<1>3. InOrder(t)'
  BY <1>1, <1>2 DEF Progress, InOrder
<1>4. /\ cmd[t].cmd = "WRITE" => WrittenSoFar(t)'
      /\ cmd[t].cmd = "DELETE" => DeletedSoFar(t)'
      /\ cmd[t].cmd = "READ" => ReadSoFar(t)'
      /\ cmd[t].cmd = "SHOW" => ShownSoFar(t)'
  BY <1>1, <1>2 DEF Progress, InLock, WrittenSoFar, DeletedSoFar, ReadSoFar, ShownSoFar
<1> QED BY <1>1, <1>3, <1>4 DEF Progress

\* BACKUP prints the whole table at once.
LEMMA BackupProgress ==
  ASSUME ControlInv, NEW t \in Jobs, Progress(t), ForkBackup(t)
  PROVE  Progress(t)'
<1>1. /\ pc[t] = "body" /\ pc'[t] = "unlock" /\ cmd[t].cmd = "BACKUP"
      /\ output'[t] = Pairs(table) /\ UNCHANGED <<cmd, rest, table>>
  BY DEF ForkBackup, Goto, ControlInv, TypeOK, Threads
<1>2. Done(t)' = Done(t) /\ \A i : Taken(t, i)' = Taken(t, i)
  BY <1>1 DEF Done, Taken
<1>3. InOrder(t)'
  BY <1>1, <1>2 DEF Progress, InOrder
<1>4. IsTable(table)
  BY DEF ControlInv, TypeOK, TableWellFormed, IsTable
<1>5. \A b \in Buckets : PairsIn(table[b]) =
        {<<k, read_pair(table, k)>> : k \in {x \in Keys : hash[x] = b /\ Found(table, x)}}
  BY <1>4, PairsOfBucket
<1>6. \A k \in Keys : hash[k] \in Buckets /\ (Found(table, k) <=> read_pair(table, k) # Missing)
  BY <1>4, ReadProperties, BucketOfKey DEF IsTable
<1>7. Pairs(table) =
        {<<k, read_pair(table, k)>> : k \in {x \in Keys : read_pair(table, x) # Missing}}
  BY <1>5, <1>6 DEF Pairs
<1>8. BackedUp(t)'
  BY <1>1, <1>7 DEF BackedUp
<1> QED BY <1>1, <1>3, <1>8 DEF Progress

\* Every step of every thread keeps the progress of every job.
LEMMA NextBatchInv ==
  ASSUME ControlInv, BatchInv, [Next]_vars
  PROVE  BatchInv'
<1> DEFINE Still(x) == /\ pc'[x] = pc[x] /\ cmd'[x] = cmd[x]
                       /\ rest'[x] = rest[x] /\ output'[x] = output[x]
           Same == base' = base /\ \A k \in Keys : read_pair(table', k) = read_pair(table, k)
<1>1. ASSUME NEW x \in Jobs, Still(x), InLock(x) => Same PROVE Progress(x)'
  BY <1>1, ProgressKept DEF BatchInv
<1> HIDE DEF Still, Same
<1>2. ASSUME NEW t \in Jobs, Progress(t)', \A x \in Jobs \ {t} : Still(x) /\ (InLock(x) => Same)
      PROVE  BatchInv'
  BY <1>1, <1>2 DEF BatchInv
<1>3. ASSUME \A x \in Jobs : Still(x) /\ (InLock(x) => Same) PROVE BatchInv'
  BY <1>1, <1>3 DEF BatchInv
<1>4. ASSUME NEW t \in Jobs, WritePair(t) \/ DeletePair(t) PROVE BatchInv'
  <2>1. Progress(t)'
    BY <1>4, WriteProgress, DeleteProgress DEF BatchInv
  <2>2. \A x \in Jobs \ {t} : Still(x)
    BY <1>4 DEF Still, WritePair, DeletePair, ControlInv, TypeOK, Threads
  <2>3. \A x \in Jobs \ {t} : ~InLock(x)
    BY <1>4, AloneInLock DEF WritePair, DeletePair, InBatch, InLock, Writes
  <2> QED BY <1>2, <2>1, <2>2, <2>3
<1>5. ASSUME NEW t \in Jobs, ReadKey(t) \/ ShowBucket(t) \/ BatchDone(t) \/ ForkBackup(t)
      PROVE  BatchInv'
  <2>1. Progress(t)'
    BY <1>5, ReadProgress, ShowProgress, EndProgress, BackupProgress DEF BatchInv
  <2>2. \A x \in Jobs \ {t} : Still(x)
    BY <1>5 DEF Still, ReadKey, ShowBucket, BatchDone, ForkBackup, Goto, ControlInv, TypeOK, Threads
  <2>3. Same
    BY <1>5 DEF Same, ReadKey, ShowBucket, BatchDone, ForkBackup
  <2> QED BY <1>2, <2>1, <2>2, <2>3
<1>6. ASSUME NEW t \in Jobs, RdLock(t) PROVE BatchInv'
  <2>1. Progress(t)'
    BY <1>6, LockProgress DEF BatchInv
  <2>2. \A x \in Jobs \ {t} : Still(x)
    BY <1>6 DEF Still, RdLock, Goto, ControlInv, TypeOK, Threads
  <2>3. Same
    BY <1>6 DEF Same, RdLock
  <2> QED BY <1>2, <2>1, <2>2, <2>3
<1>7. ASSUME NEW t \in Jobs, WrLock(t) PROVE BatchInv'
  <2>1. Progress(t)'
    BY <1>7, LockProgress DEF BatchInv
  <2>2. \A x \in Jobs \ {t} : Still(x)
    BY <1>7 DEF Still, WrLock, Goto, ControlInv, TypeOK, Threads
  <2>3. writer = NoThread /\ readers = {}
    BY <1>7 DEF WrLock, ControlInv, LockHeldRight, InLock
  <2>4. \A x \in Jobs : ~InLock(x)
    BY <2>3, AloneInLock, KvsServerAssumption DEF Threads
  <2> QED BY <1>2, <2>1, <2>2, <2>4
<1>8. ASSUME NEW t \in Jobs, NEW c \in JobCommands, JobCommand(t, c) PROVE BatchInv'
  <2>1. Progress(t)'
    BY <1>8, CommandStarts
  <2>2. \A x \in Jobs \ {t} : Still(x)
    BY <1>8 DEF Still, JobCommand, Goto, ControlInv, TypeOK, Threads
  <2>3. Same
    BY <1>8 DEF Same, JobCommand
  <2> QED BY <1>2, <2>1, <2>2, <2>3
<1>9. ASSUME NEW t \in Jobs, Unlock(t) PROVE BatchInv'
  <2>1. Progress(t)'
    <3>1. pc'[t] = "idle"
      BY <1>9 DEF Unlock, Goto, ControlInv, TypeOK, Threads
    <3> QED BY <3>1 DEF Progress, InLock
  <2>2. \A x \in Jobs \ {t} : Still(x)
    BY <1>9 DEF Still, Unlock, Goto, ControlInv, TypeOK, Threads
  <2>3. ASSUME NEW x \in Jobs \ {t}, InLock(x) PROVE Same
    <3>1. writer # t
      BY <2>3, <1>9, AloneInLock DEF Unlock, InLock, ControlInv, LockHeldRight
    <3> QED BY <1>9, <3>1 DEF Same, Unlock
  <2> QED BY <1>2, <2>1, <2>2, <2>3
<1>10. ASSUME NEW m \in Managers, Subscribe(m) \/ Unsubscribe(m) \/ Disconnect(m) PROVE BatchInv'
  <2>1. \A x \in Jobs : Still(x)
    BY <1>10, KvsServerAssumption DEF Still, Subscribe, Unsubscribe, Disconnect, Answer, Goto,
       ControlInv, TypeOK, Threads
  <2>2. Same
    BY <1>10, RequestKeepsTable DEF Same, Subscribe, Unsubscribe, Disconnect, Answer
  <2> QED BY <1>3, <2>1, <2>2
<1>11. ASSUME NEW m \in Managers,
              WrLock(m) \/ Reply(m) \/ Close(m) \/ EndOfRequests(m) \/ ClientDies(m)
       PROVE  BatchInv'
  <2>1. \A x \in Jobs : Still(x)
    BY <1>11, KvsServerAssumption DEF Still, WrLock, Reply, Close, EndOfRequests, ClientDies, Goto,
       threadVars, ControlInv, TypeOK, Threads
  <2>2. Same
    BY <1>11, KvsServerAssumption DEF Same, WrLock, Reply, Close, EndOfRequests, ClientDies
  <2> QED BY <1>3, <2>1, <2>2
<1>12. ASSUME NEW m \in Managers, NEW r \in Requests, Request(m, r) PROVE BatchInv'
  <2>1. \A x \in Jobs : Still(x)
    BY <1>12, KvsServerAssumption DEF Still, Request, Goto, ControlInv, TypeOK, Threads
  <2>2. Same
    BY <1>12 DEF Same, Request
  <2> QED BY <1>3, <2>1, <2>2
<1>13. ASSUME \/ UNCHANGED vars
              \/ \E t \in Jobs : Notify(t)
              \/ \E f \in Fds : ClientReads(f) \/ \E m \in Managers : Connect(m, f)
       PROVE  BatchInv'
  <2>1. UNCHANGED <<pc, cmd, rest, output, table, base>>
    BY <1>13 DEF vars, Notify, ClientReads, Connect, threadVars
  <2> QED BY <1>3, <2>1 DEF Still, Same
<1> QED BY <1>4, <1>5, <1>6, <1>7, <1>8, <1>9, <1>10, <1>11, <1>12, <1>13
        DEF Next, Batch, Serve, Threads

\* The start.
LEMMA InitBatchInv == Init => BatchInv
<1> QED BY DEF Init, BatchInv, Progress, InLock, Threads

\* What each command has done so far, in every reachable state.
LEMMA BatchInvariant == Spec => [](ControlInv /\ BatchInv)
<1>1. Spec => []ControlInv
  BY Control
<1>2. ControlInv /\ BatchInv /\ [Next]_vars => BatchInv'
  BY NextBatchInv
<1>3. Spec /\ []ControlInv => []BatchInv
  BY InitBatchInv, <1>2, PTL DEF Spec
<1> QED BY <1>1, <1>3, PTL

-----------------------------------------------------------------------------
(* A command that is about to unlock has done what AtomicStore says.       *)

\* What AtomicStore sees: the contents, which change when the writer unlocks,
\* the commands and their answers.
Committed == IF writer \in Jobs THEN base ELSE Contents(table)
Executing == [t \in Jobs |-> cmd[t]]
Answered  == [t \in Jobs |-> IF pc[t] = "idle" THEN output[t] ELSE {}]

\* At its end a command has taken all of its elements.
LEMMA AllTaken ==
  ASSUME ControlInv, BatchInv, NEW t \in Jobs, pc[t] = "unlock", cmd[t].cmd # "BACKUP"
  PROVE  Done(t) = Len(Whole(cmd[t])) /\ cmd[t] \in JobCommands
<1>1. rest[t] = <<>>
  BY DEF BatchInv, Progress, InOrder
<1>2. cmd[t] \in JobCommands
  BY AloneInLock DEF InLock
<1>3. Len(Whole(cmd[t])) \in Nat
  BY <1>2, WholeParts
<1>4. Len(rest[t]) = 0
  BY <1>1, EmptySeq
<1> QED BY <1>2, <1>3, <1>4 DEF Done

\* The elements of a WRITE, READ or DELETE are its arguments.
LEMMA ElementsTaken ==
  ASSUME ControlInv, BatchInv, NEW t \in Jobs, pc[t] = "unlock",
         cmd[t].cmd \in {"WRITE", "READ", "DELETE"}
  PROVE  /\ Done(t) = Len(cmd[t].args)
         /\ DOMAIN cmd[t].args = 1 .. Len(cmd[t].args) /\ Len(cmd[t].args) \in Nat
         /\ \A i : Taken(t, i) = cmd[t].args[i]
<1>1. cmd[t] \in JobCommands /\ Done(t) = Len(Whole(cmd[t]))
  BY AllTaken
<1>2. Whole(cmd[t]) = cmd[t].args /\ DOMAIN cmd[t].args = 1 .. Len(cmd[t].args)
  BY <1>1, WholeParts
<1>3. Len(Whole(cmd[t])) \in Nat
  BY <1>1, WholeParts
<1> QED BY <1>1, <1>2, <1>3 DEF Taken

\* WRITE: of the pairs for a key the last one counts.
LEMMA WriteOutcome ==
  ASSUME ControlInv, BatchInv, NEW t \in Jobs, pc[t] = "unlock", cmd[t].cmd = "WRITE"
  PROVE  Contents(table) = Store!Effect(cmd[t]) /\ output[t] = Store!Printed(cmd[t])
<1> DEFINE c == cmd[t]
<1>1. writer = t
  BY AloneInLock DEF InLock, Writes
<1>2. WrittenSoFar(t)
  BY DEF BatchInv, Progress, InLock
<1>3. /\ Done(t) = Len(c.args) /\ DOMAIN c.args = 1 .. Len(c.args) /\ Len(c.args) \in Nat
      /\ \A i : Taken(t, i) = c.args[i]
  BY ElementsTaken
<1>4. ASSUME NEW k \in Keys
      PROVE  read_pair(table, k) =
               IF Store!Written(c, k) = {} THEN base[k]
               ELSE c.args[CHOOSE i \in Store!Written(c, k) :
                             \A j \in Store!Written(c, k) : j <= i][2]
  <2> DEFINE W == Store!Written(c, k)
             a == c.args
             n == Len(c.args)
             val == read_pair(table, k)
  <2>1. W = {i \in 1 .. n : a[i][1] = k} /\ n \in Nat
    BY <1>3 DEF Store!Written
  <2>2. \/ /\ \A i \in 1 .. n : a[i][1] # k
           /\ val = base[k]
        \/ \E i \in 1 .. n :
             a[i][1] = k /\ a[i][2] = val /\ \A j \in 1 .. n : a[j][1] = k => j <= i
    BY <1>2, <1>3 DEF WrittenSoFar
  <2> HIDE DEF W, a, n, val
  <2>3. CASE W = {}
    BY <2>1, <2>2, <2>3 DEF W, a, val
  <2>4. CASE W # {}
    <3>1. PICK i \in W : a[i][2] = val /\ \A j \in W : j <= i
      BY <2>1, <2>2, <2>4
    <3>2. W \subseteq Nat
      BY <2>1
    <3>3. ASSUME NEW x \in W, \A j \in W : j <= x PROVE x = i
      BY <3>1, <3>2, <3>3
    <3>4. i = CHOOSE x \in W : \A j \in W : j <= x
      BY <3>1, <3>3
    <3>5. val = IF W = {} THEN base[k] ELSE a[CHOOSE x \in W : \A j \in W : j <= x][2]
      BY <2>4, <3>1, <3>4
    <3> QED BY <3>5 DEF W, a, val
  <2> QED BY <2>3, <2>4
<1>5. Contents(table) = Store!AfterWrite(c)
  BY <1>1, <1>4 DEF Store!AfterWrite, Contents
<1> QED BY <1>2, <1>5 DEF Store!Effect, Store!Printed, WrittenSoFar

\* DELETE.
LEMMA DeleteOutcome ==
  ASSUME ControlInv, BatchInv, NEW t \in Jobs, pc[t] = "unlock", cmd[t].cmd = "DELETE"
  PROVE  Contents(table) = Store!Effect(cmd[t]) /\ output[t] = Store!Printed(cmd[t])
<1> DEFINE c == cmd[t]
<1>1. writer = t
  BY AloneInLock DEF InLock, Writes
<1>2. DeletedSoFar(t)
  BY DEF BatchInv, Progress, InLock
<1>3. /\ Done(t) = Len(c.args) /\ DOMAIN c.args = 1 .. Len(c.args) /\ Len(c.args) \in Nat
      /\ \A i : Taken(t, i) = c.args[i]
  BY ElementsTaken
<1>4. \A k \in Keys : k \in Store!Named(c) <=> \E i \in DOMAIN c.args : c.args[i] = k
  BY DEF Store!Named
<1>5. Contents(table) = [k \in Keys |-> IF k \in Store!Named(c) THEN Missing ELSE base[k]]
  <2>1. \A k \in Keys :
          read_pair(table, k) = IF k \in Store!Named(c) THEN Missing ELSE base[k]
    BY <1>2, <1>3, <1>4 DEF DeletedSoFar
  <2> QED BY <2>1 DEF Contents
<1>6. Store!NotFound(c) =
        {x \in Keys : \E i \in 1 .. Done(t) :
           Taken(t, i) = x /\ (base[x] = Missing \/ \E j \in 1 .. i - 1 : Taken(t, j) = x)}
  <2>1. Store!Named(c) \subseteq Keys
    <3>1. c \in JobCommands
      BY AllTaken
    <3>2. \A i \in 1 .. Len(c.args) : c.args[i] \in Keys
      BY <3>1, WholeParts
    <3> QED BY <1>3, <3>2 DEF Store!Named
  <2>2. ASSUME NEW x \in Keys
        PROVE  x \in Store!NotFound(c) <=>
                 \E i \in 1 .. Len(c.args) :
                   c.args[i] = x /\ (base[x] = Missing \/ \E j \in 1 .. i - 1 : c.args[j] = x)
    <3> DEFINE a == c.args
               n == Len(c.args)
    <3>1. x \in Store!NotFound(c) <=>
            /\ \E i \in 1 .. n : a[i] = x
            /\ \/ base[x] = Missing
               \/ \E i, j \in 1 .. n : i # j /\ a[i] = x /\ a[j] = x
      BY <1>1, <1>3, <1>4 DEF Store!NotFound
    <3>2. n \in Nat
      BY <1>3
    <3> HIDE DEF a, n
    <3>3. ASSUME NEW i \in 1 .. n, NEW j \in 1 .. n, i # j, a[i] = x, a[j] = x
          PROVE  \E y \in 1 .. n : a[y] = x /\ \E z \in 1 .. y - 1 : a[z] = x
      <4>1. CASE i < j
        <5>1. i \in 1 .. j - 1
          BY <3>2, <4>1
        <5> QED BY <3>3, <5>1
      <4>2. CASE j < i
        <5>1. j \in 1 .. i - 1
          BY <3>2, <4>2
        <5> QED BY <3>3, <5>1
      <4> QED BY <3>2, <3>3, <4>1, <4>2
    <3>4. ASSUME NEW i \in 1 .. n, NEW j \in 1 .. i - 1, a[i] = x, a[j] = x
          PROVE  \E y, z \in 1 .. n : y # z /\ a[y] = x /\ a[z] = x
      <4>1. j \in 1 .. n /\ i # j
        BY <3>2
      <4> QED BY <3>4, <4>1
    <3> QED BY <3>1, <3>3, <3>4 DEF a, n
  <2>3. Store!NotFound(c) \subseteq Keys
    BY <2>1 DEF Store!NotFound
  <2>4. 1 .. Done(t) = 1 .. Len(c.args)
    BY <1>3
  <2> QED BY <1>3, <2>2, <2>3, <2>4
<1>7. output[t] = {<<k, Missing>> : k \in Store!NotFound(c)}
  BY <1>2, <1>6 DEF DeletedSoFar
<1> QED BY <1>1, <1>5, <1>7 DEF Store!Effect, Store!Printed

\* READ, SHOW and BACKUP.
LEMMA ReadersOutcome ==
  ASSUME ControlInv, BatchInv, NEW t \in Jobs, pc[t] = "unlock",
         cmd[t].cmd \in {"READ", "SHOW", "BACKUP"}
  PROVE  Contents(table) = Store!Effect(cmd[t]) /\ output[t] = Store!Printed(cmd[t])
<1> DEFINE c == cmd[t]
<1>1. writer = NoThread /\ writer \notin Jobs /\ c \in JobCommands
  BY AloneInLock, KvsServerAssumption DEF InLock, Writes, Threads
<1>2. \A k \in Keys : Contents(table)[k] = read_pair(table, k)
  BY DEF Contents
<1>3. CASE c.cmd = "READ"
  <2>1. ReadSoFar(t)
    BY <1>3 DEF BatchInv, Progress, InLock
  <2>2. /\ Done(t) = Len(c.args) /\ DOMAIN c.args = 1 .. Len(c.args)
        /\ \A i : Taken(t, i) = c.args[i]
    BY <1>3, ElementsTaken
  <2>3. \A i \in 1 .. Len(c.args) : c.args[i] \in Keys
    BY <1>1, <1>3, WholeParts
  <2>4. Store!Named(c) = {x \in Keys : \E i \in 1 .. Done(t) : Taken(t, i) = x}
    BY <2>2, <2>3 DEF Store!Named
  <2>5. output[t] = {<<k, Contents(table)[k]>> : k \in Store!Named(c)}
    BY <1>2, <2>1, <2>4 DEF ReadSoFar
  <2> QED BY <1>1, <1>3, <2>5 DEF Store!Effect, Store!Printed
<1>4. CASE c.cmd \in {"SHOW", "BACKUP"}
  <2>1. output[t] = {<<k, read_pair(table, k)>> : k \in {x \in Keys : read_pair(table, x) # Missing}}
    <3>1. CASE c.cmd = "SHOW"
      <4>1. ShownSoFar(t)
        BY <3>1 DEF BatchInv, Progress, InLock
      <4>2. Done(t) = TABLE_SIZE
        BY <3>1, AllTaken, WholeParts
      <4>3. \A x \in Keys : hash[x] < Done(t)
        BY <4>2, HashAssumption
      <4>4. {x \in Keys : hash[x] < Done(t) /\ read_pair(table, x) # Missing} =
              {x \in Keys : read_pair(table, x) # Missing}
        BY <4>3
      <4> QED BY <4>1, <4>4 DEF ShownSoFar
    <3>2. CASE c.cmd = "BACKUP"
      BY <3>2 DEF BatchInv, Progress, InLock, BackedUp
    <3> QED BY <1>4, <3>1, <3>2
  <2>2. output[t] = {<<k, Contents(table)[k]>> : k \in {x \in Keys : Contents(table)[x] # Missing}}
    BY <1>2, <2>1
  <2> QED BY <1>1, <1>4, <2>2 DEF Store!Effect, Store!Printed
<1> QED BY <1>3, <1>4

\* Every command, at its end.
LEMMA Outcome ==
  ASSUME ControlInv, BatchInv, NEW t \in Jobs, pc[t] = "unlock"
  PROVE  Contents(table) = Store!Effect(cmd[t]) /\ output[t] = Store!Printed(cmd[t])
<1>1. cmd[t] \in JobCommands
  BY AloneInLock DEF InLock
<1> QED BY <1>1, WriteOutcome, DeleteOutcome, ReadersOutcome, CommandParts

-----------------------------------------------------------------------------
(* The refinement.                                                         *)

\* A step that AtomicStore does not see.
LEMMA StoreStutters ==
  ASSUME UNCHANGED <<Committed, Executing, Answered>>
  PROVE  UNCHANGED Store!storeVars
<1> QED BY DEF Store!storeVars, Committed, Executing, Answered

\* A job that keeps its command, its pc and its output keeps its answer.
LEMMA JobsStill ==
  ASSUME \A t \in Jobs : /\ cmd'[t] = cmd[t]
                         /\ (IF pc'[t] = "idle" THEN output'[t] ELSE {}) =
                              (IF pc[t] = "idle" THEN output[t] ELSE {})
  PROVE  Executing' = Executing /\ Answered' = Answered
<1> QED BY DEF Executing, Answered

\* The contents change for nobody else while a job writes, and a job that gets
\* the lock for writing starts from them.
LEMMA ContentsWait ==
  ASSUME ControlInv,
         \/ writer \in Jobs /\ writer' = writer /\ base' = base
         \/ writer \notin Jobs /\ writer' \notin Jobs /\ Contents(table)' = Contents(table)
         \/ writer \notin Jobs /\ writer' \in Jobs /\ base' = Contents(table)
  PROVE  Committed' = Committed
<1> QED BY DEF Committed

\* A command begins when run_job calls its function.
LEMMA CommandRefines ==
  ASSUME ControlInv, NEW t \in Jobs, NEW c \in JobCommands, JobCommand(t, c)
  PROVE  Store!StoreBegin(t, c)
<1>1. cmd[t] = NoCommand
  BY DEF JobCommand, ControlInv, JobsAtWork
<1>2. Committed' = Committed
  BY DEF JobCommand, lockVars, Committed
<1>3. Executing' = [Executing EXCEPT ![t] = c]
  BY DEF JobCommand, Executing, ControlInv, TypeOK, Threads
<1>4. Answered' = [Answered EXCEPT ![t] = {}]
  BY DEF JobCommand, Goto, Answered, ControlInv, TypeOK, Threads
<1>5. Executing[t] = NoCommand
  BY <1>1 DEF Executing
<1> QED BY <1>2, <1>3, <1>4, <1>5 DEF Store!StoreBegin, Committed, Executing, Answered

\* It takes effect when its thread unlocks.
LEMMA UnlockRefines ==
  ASSUME ControlInv, BatchInv, NEW t \in Jobs, Unlock(t)
  PROVE  Store!StoreExecute(t)
<1>1. /\ pc[t] = "unlock" /\ pc' = [pc EXCEPT ![t] = "idle"]
      /\ cmd' = [cmd EXCEPT ![t] = NoCommand] /\ UNCHANGED <<table, output>>
      /\ IF writer = t THEN writer' = NoThread ELSE writer' = writer
  BY DEF Unlock, Goto
<1>2. cmd[t] # NoCommand
  BY <1>1, AloneInLock, CommandParts DEF InLock
<1>3. Contents(table) = Store!Effect(cmd[t]) /\ output[t] = Store!Printed(cmd[t])
  BY <1>1, Outcome
<1>4. writer' \notin Jobs
  <2>1. writer = t \/ writer = NoThread
    BY <1>1, AloneInLock DEF InLock
  <2> QED BY <1>1, <2>1, KvsServerAssumption DEF Threads
<1>5. Committed' = Contents(table)
  BY <1>1, <1>4 DEF Committed, Contents
<1>6. Executing' = [Executing EXCEPT ![t] = NoCommand] /\ Executing[t] = cmd[t]
  BY <1>1 DEF Executing, ControlInv, TypeOK, Threads
<1>7. Answered' = [Answered EXCEPT ![t] = output[t]]
  BY <1>1 DEF Answered, ControlInv, TypeOK, Threads
<1> QED BY <1>2, <1>3, <1>5, <1>6, <1>7
        DEF Store!StoreExecute, Committed, Executing, Answered

\* The other steps of a job change nothing that AtomicStore sees: the table of
\* a writer is not seen before it unlocks.
LEMMA JobStutters ==
  ASSUME ControlInv, NEW t \in Jobs,
         \/ WritePair(t) \/ DeletePair(t) \/ ReadKey(t) \/ ShowBucket(t) \/ BatchDone(t)
         \/ ForkBackup(t) \/ Notify(t) \/ RdLock(t) \/ WrLock(t)
  PROVE  UNCHANGED Store!storeVars
<1>1. Executing' = Executing /\ Answered' = Answered
  <2>1. CASE Notify(t)
    BY <2>1 DEF Notify, Executing, Answered
  <2>2. CASE ~Notify(t)
    <3>1. pc[t] # "idle" /\ pc'[t] # "idle" /\ cmd' = cmd
      BY <2>2 DEF WritePair, DeletePair, ReadKey, ShowBucket, BatchDone, ForkBackup, RdLock, WrLock,
         InBatch, Goto, ControlInv, TypeOK, Threads
    <3>2. \A x \in Jobs \ {t} : pc'[x] = pc[x] /\ output'[x] = output[x]
      BY <2>2 DEF WritePair, DeletePair, ReadKey, ShowBucket, BatchDone, ForkBackup, RdLock, WrLock,
         InBatch, Goto, ControlInv, TypeOK, Threads
    <3> QED BY <3>1, <3>2, JobsStill
  <2> QED BY <2>1, <2>2
<1>2. Committed' = Committed
  <2>1. CASE WritePair(t) \/ DeletePair(t)
    <3>1. writer = t
      BY <2>1, AloneInLock DEF WritePair, DeletePair, InBatch, InLock, Writes
    <3> QED BY <2>1, <3>1, ContentsWait DEF WritePair, DeletePair, lockVars
  <2>2. CASE ReadKey(t) \/ ShowBucket(t) \/ BatchDone(t) \/ ForkBackup(t) \/ Notify(t) \/ RdLock(t)
    BY <2>2 DEF ReadKey, ShowBucket, BatchDone, ForkBackup, Notify, RdLock, lockVars, Committed
  <2>3. CASE WrLock(t)
    <3>1. pc[t] = "wrlock" /\ writer' = t /\ base' = Contents(table) /\ (writer = NoThread \/ writer = t)
      BY <2>3 DEF WrLock
    <3>2. writer \notin Jobs
      BY <3>1, KvsServerAssumption DEF ControlInv, LockHeldRight, InLock, Threads
    <3> QED BY <3>1, <3>2, ContentsWait
  <2> QED BY <2>1, <2>2, <2>3
<1> QED BY <1>1, <1>2, StoreStutters

\* So do the steps of the managers and their clients: subscriptions are not
\* part of the contents.
LEMMA ManagerStutters ==
  ASSUME ControlInv, NEW m \in Managers,
         \/ WrLock(m) \/ Serve(m) \/ ClientDies(m)
         \/ (\E f \in Fds : Connect(m, f)) \/ (\E r \in Requests : Request(m, r))
  PROVE  UNCHANGED Store!storeVars
<1>1. m \notin Jobs /\ NoThread \notin Jobs
  BY KvsServerAssumption DEF Threads
<1>2. Executing' = Executing /\ Answered' = Answered
  <2>1. \A x \in Jobs : pc'[x] = pc[x] /\ cmd'[x] = cmd[x] /\ output'[x] = output[x]
    BY <1>1 DEF WrLock, Serve, Subscribe, Unsubscribe, Disconnect, Answer, Reply, Close,
       EndOfRequests, ClientDies, Connect, Request, Goto, threadVars, ControlInv, TypeOK, Threads
  <2> QED BY <2>1, JobsStill
<1>3. CASE Subscribe(m) \/ Unsubscribe(m) \/ Disconnect(m)
  <2>1. writer = m /\ writer' \in {NoThread, writer}
    BY <1>3 DEF Subscribe, Unsubscribe, Disconnect, InRequest, Answer, ControlInv, LockHeldRight
  <2>2. Contents(table)' = Contents(table)
    BY <1>3, RequestKeepsTable DEF Subscribe, Unsubscribe, Disconnect, Answer, Contents
  <2> QED BY <1>1, <1>2, <2>1, <2>2, ContentsWait, StoreStutters
<1>4. CASE WrLock(m)
  <2>1. writer \notin Jobs /\ writer' \notin Jobs /\ table' = table
    BY <1>1, <1>4 DEF WrLock
  <2> QED BY <1>2, <2>1, ContentsWait, StoreStutters
<1>5. ASSUME UNCHANGED <<table, writer, base>> PROVE UNCHANGED Store!storeVars
  BY <1>2, <1>5, StoreStutters DEF Committed
<1>6. CASE \/ Reply(m) \/ Close(m) \/ EndOfRequests(m) \/ ClientDies(m)
           \/ (\E f \in Fds : Connect(m, f)) \/ (\E r \in Requests : Request(m, r))
  BY <1>5, <1>6 DEF Reply, Close, EndOfRequests, ClientDies, Connect, Request, lockVars
<1> QED BY <1>3, <1>4, <1>6 DEF Serve

\* A whole WRITE, READ, DELETE, SHOW or BACKUP is atomic: the threads, the lock
\* and the clients implement the store that executes a command in one step.
THEOREM CommandsAreAtomic == Spec => CommandsAtomic
<1>1. Init => Store!StoreInit
  <2> SUFFICES ASSUME Init PROVE Store!StoreInit
    OBVIOUS
  <2>1. Contents(table) = [k \in Keys |-> Missing]
    <3>1. \A k \in Keys : read_pair(table, k) = Missing
      BY EmptyTableProperties DEF Init, read_pair
    <3> QED BY <3>1 DEF Contents
  <2>2. writer \notin Jobs
    BY KvsServerAssumption DEF Init, Threads
  <2> QED BY <2>1, <2>2 DEF Init, Store!StoreInit, Threads
<1>2. ControlInv /\ BatchInv /\ [Next]_vars => [Store!StoreNext]_(Store!storeVars)
  <2> SUFFICES ASSUME ControlInv, BatchInv, [Next]_vars
               PROVE  Store!StoreNext \/ UNCHANGED Store!storeVars
    OBVIOUS
  <2>1. ASSUME NEW t \in Jobs, Batch(t) \/ RdLock(t) \/ WrLock(t)
        PROVE  Store!StoreNext \/ UNCHANGED Store!storeVars
    BY <2>1, UnlockRefines, JobStutters DEF Batch, Store!StoreNext
  <2>2. ASSUME NEW t \in Jobs, NEW c \in JobCommands, JobCommand(t, c) PROVE Store!StoreNext
    BY <2>2, CommandRefines DEF Store!StoreNext
  <2>3. CASE (\E f \in Fds : ClientReads(f)) \/ UNCHANGED vars
    <3>1. UNCHANGED <<Committed, Executing, Answered>>
      BY <2>3 DEF ClientReads, vars, lockVars, threadVars, Committed, Executing, Answered
    <3> QED BY <3>1, StoreStutters
  <2> QED BY <2>1, <2>2, <2>3, ManagerStutters DEF Next, Threads
<1> QED BY <1>1, <1>2, BatchInvariant, PTL DEF Spec, CommandsAtomic, Store!StoreSpec
=============================================================================
