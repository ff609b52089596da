------------------------------ MODULE KvsTable ------------------------------
(***************************************************************************)
(* The hash table of SO/projeto_2/src/server/kvs.c as a value: table[i] is *)
(* the list of bucket i, head first, and a node carries the key, the value *)
(* and the descriptors subscribed to the key, most recent first.  Each     *)
(* function of kvs.c is an operator from the table before the call to the  *)
(* table after it and, where the code uses it, to its return code.         *)
(***************************************************************************)
EXTENDS Naturals, Sequences, SequencesExt, FiniteSetsExt

CONSTANTS Keys, Values, Fds,
          TABLE_SIZE,   \* number of buckets
          hash,         \* hash[k]: the bucket of key k
          Missing       \* what a lookup of an absent key yields

\* hash() is -1 for a key that starts with neither a letter nor a digit, and
\* the code then reads table[-1]; such keys are outside this model.
ASSUME HashAssumption ==
  /\ TABLE_SIZE \in Nat \ {0}
  /\ hash \in [Keys -> 0 .. TABLE_SIZE - 1]

ASSUME MissingAssumption == Missing \notin Values

Buckets == 0 .. TABLE_SIZE - 1

Node == [key: Keys, value: Values, notif_pipes: Seq(Fds)]

EmptyTable == [i \in Buckets |-> <<>>]

-----------------------------------------------------------------------------
\* The list positions that hold key k, and the one at which a search stops.
Positions(table, k) == {i \in DOMAIN table[hash[k]] : table[hash[k]][i].key = k}
Found(table, k)     == Positions(table, k) # {}
Position(table, k)  == Min(Positions(table, k))
NodeOf(table, k)    == table[hash[k]][Position(table, k)]

SetNode(table, k, node) == [table EXCEPT ![hash[k]][Position(table, k)] = node]

\* (Faulty variants for mutation: the key is stored for the value; the list is
\* not searched first.)
write_pair_key(table, k, v) ==
  IF Found(table, k)
  THEN SetNode(table, k, [NodeOf(table, k) EXCEPT !.value = v])
  ELSE [table EXCEPT ![hash[k]] =
          <<[key |-> k, value |-> k, notif_pipes |-> <<>>]>> \o @]
write_pair_insert(table, k, v) ==
  [table EXCEPT ![hash[k]] = <<[key |-> k, value |-> v, notif_pipes |-> <<>>]>> \o @]

\* write_pair: overwrite in place, or insert a new node without subscribers at
\* the head of its bucket.
write_pair(table, k, v) ==
  IF Found(table, k)
  THEN SetNode(table, k, [NodeOf(table, k) EXCEPT !.value = v])
  ELSE [table EXCEPT ![hash[k]] =
          <<[key |-> k, value |-> v, notif_pipes |-> <<>>]>> \o @]

\* read_pair
read_pair(table, k) == IF Found(table, k) THEN NodeOf(table, k).value ELSE Missing

\* delete_pair: unlink the node; its subscriptions go with it.
delete_pair(table, k) ==
  IF Found(table, k)
  THEN [table EXCEPT ![hash[k]] = RemoveAt(@, Position(table, k))]
  ELSE table

\* The descriptors that write_pair and delete_pair notify, in order.
notified(table, k) == IF Found(table, k) THEN NodeOf(table, k).notif_pipes ELSE <<>>

-----------------------------------------------------------------------------
\* add_notif_pipe does not look for fd in the list.
add_notif_pipe(pipes, fd) == <<fd>> \o pipes

\* remove_notif_pipe removes the first occurrence of fd; it fails (-1 on an
\* empty list, 1 on another) when there is none.
Listed(pipes, fd) == \E i \in DOMAIN pipes : pipes[i] = fd
remove_notif_pipe(pipes, fd) ==
  IF Listed(pipes, fd)
  THEN RemoveAt(pipes, Min({i \in DOMAIN pipes : pipes[i] = fd}))
  ELSE pipes

\* execute_subscribe: 1 when the key is not in the table.
execute_subscribe(table, k, fd) ==
  IF Found(table, k)
  THEN [rc |-> 0, table |-> SetNode(table, k,
                 [NodeOf(table, k) EXCEPT !.notif_pipes = add_notif_pipe(@, fd)])]
  ELSE [rc |-> 1, table |-> table]

\* execute_unsubscribe: 1 when the key is absent or fd not subscribed to it.
execute_unsubscribe(table, k, fd) ==
  IF Found(table, k) /\ Listed(NodeOf(table, k).notif_pipes, fd)
  THEN [rc |-> 0, table |-> SetNode(table, k,
                 [NodeOf(table, k) EXCEPT !.notif_pipes = remove_notif_pipe(@, fd)])]
  ELSE [rc |-> 1, table |-> table]

\* execute_disconnect walks the buckets up to the first empty one and removes
\* fd from the HEAD node of each; the first head without fd makes it fail, with
\* the removals before it done.
execute_disconnect(table, fd) ==
  LET stop(i)   == table[i] = <<>> \/ ~Listed(table[i][1].notif_pipes, fd)
      reached   == {i \in Buckets : \A j \in 0 .. i : ~stop(j)}
      next      == Cardinality(reached)
  IN [rc    |-> IF next \in Buckets /\ table[next] # <<>> THEN 1 ELSE 0,
      table |-> [i \in Buckets |->
                   IF i \in reached
                   THEN [table[i] EXCEPT ![1].notif_pipes = remove_notif_pipe(@, fd)]
                   ELSE table[i]]]

-----------------------------------------------------------------------------
\* The key-value pairs that SHOW and BACKUP print, per bucket and in all.
PairsIn(bucket) == {<<bucket[i].key, bucket[i].value>> : i \in DOMAIN bucket}
Pairs(table)    == UNION {PairsIn(table[b]) : b \in Buckets}

\* The table as the function from keys to values that it stands for.
Contents(table) == [k \in Keys |-> read_pair(table, k)]

\* The keys whose subscribers include fd.
Subscriptions(table, fd) ==
  {k \in Keys : Found(table, k) /\ Listed(NodeOf(table, k).notif_pipes, fd)}

\* Every node lies in the bucket of its key, and no key has two nodes.
WellFormed(table) ==
  /\ \A b \in Buckets : \A i \in DOMAIN table[b] : hash[table[b][i].key] = b
  /\ \A b \in Buckets : \A i, j \in DOMAIN table[b] :
       table[b][i].key = table[b][j].key => i = j
=============================================================================
