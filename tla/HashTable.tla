------------------------------ MODULE HashTable ------------------------------
(***************************************************************************)
(* The client's hash table (ClientDLL/hash.cpp, without DUPLICATE_KEYS):   *)
(* an array of chains, each a sequence of buckets, and a count.  Every     *)
(* function is an operator from a table to its result.                     *)
(***************************************************************************)
EXTENDS Integers, SequencesExt

CONSTANTS Null, HashOf(_), Less(_, _)   \* NULL; hash(); strcmp(..) < 0

hash_construct_table(size) ==
    [size |-> size, count |-> 0, chain |-> [val \in 0 .. size - 1 |-> <<>>]]

Val(key, table) == HashOf(key) % table.size
ChainOf(key, table) == table.chain[Val(key, table)]

\* Where the key's bucket is in its chain; 0 if there is none.
At(key, table) == SelectInSeq(ChainOf(key, table), LAMBDA b : b.key = key)

hash_lookup(key, table) ==
    LET i == At(key, table) IN IF i = 0 THEN Null ELSE ChainOf(key, table)[i].data

\* A new bucket takes the place of the chain.
hash_insert_(key, data, table, mallocFails) ==
    [result |-> data,
     table |-> [table EXCEPT !.chain[Val(key, table)] = <<[key |-> key, data |-> data]>>,
                             !.count = @ + 1]]

\* A known key keeps its bucket; a new one's goes to the head of the chain.
\* malloc may fail: then the table stays as it is.
hash_insert(key, data, table, mallocFails) ==
    LET i == At(key, table)
        val == Val(key, table)
    IN  IF i # 0 THEN
            [result |-> hash_lookup(key, table),
             table |-> [table EXCEPT !.chain[val][i].data = data]]
        ELSE IF mallocFails THEN [result |-> Null, table |-> table]
        ELSE [result |-> data,
              table |-> [table EXCEPT !.chain[val] = <<[key |-> key, data |-> data]>> \o @,
                                      !.count = @ + 1]]

hash_del(key, table) ==
    LET i == At(key, table) IN
    [result |-> hash_lookup(key, table),
     table |-> IF i = 0 THEN table
               ELSE [table EXCEPT !.chain[Val(key, table)] = RemoveAt(@, i),
                                  !.count = @ - 1]]

\* The first bucket of each chain only.
hash_enumerate_(table) ==
    FlattenSeq([i \in 1 .. table.size |->
        SubSeq(table.chain[i - 1], 1, IF table.chain[i - 1] = <<>> THEN 0 ELSE 1)])

\* The buckets, in the order func is called for them.  The next one is looked
\* up before the call, so that func may delete the one it is called for.
hash_enumerate(table) == FlattenSeq([i \in 1 .. table.size |-> table.chain[i - 1]])

\* With key_comp: an order in which no bucket stands before one with a lesser key.
qsort(s) ==
    LET order == CHOOSE p \in Bijection(DOMAIN s, DOMAIN s) :
                     \A i, j \in DOMAIN s : i < j => ~ Less(s[p[j]].key, s[p[i]].key)
    IN  [i \in DOMAIN s |-> s[order[i]]]

\* As many buckets as count says are sorted, and passed to func.
hash_sorted_enum(table) ==
    IF table.count = 0 THEN <<>>
    ELSE qsort(SubSeq(hash_enumerate(table), 1, table.count))

\* Deletes each bucket while enumerating; function gets what hash_del returns.
free_node(state, bucket) ==
    LET del == hash_del(bucket.key, state.table)
    IN  [table |-> del.table, freed |-> Append(state.freed, del.result)]
hash_free_table(table) ==
    LET emptied == FoldLeft(free_node, [table |-> table, freed |-> <<>>], hash_enumerate(table))
    IN  [table |-> hash_construct_table(0), left |-> emptied.table.count,
         freed |-> emptied.freed]
=============================================================================
