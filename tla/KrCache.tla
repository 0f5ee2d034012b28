------------------------------ MODULE KrCache ------------------------------
(***************************************************************************)
(* krutils/kr_cache.c, a cache that drops what was not used for longest,   *)
(* and krdata/kr_hdi_cache.c above it, which keeps under a key value the   *)
(* table of the historical items computed for it.  The list holds the      *)
(* nodes, the latest used first; the hash table leads from a key to its    *)
(* list node.  The key of a lookup is not chosen by the item: it is the    *)
(* field of the current record that the context's pKeyValue points to, the *)
(* index field of the data item computed last, and NULL at first.          *)
(* Nothing here takes a lock: kr_context.h says the cache needs one when   *)
(* there are several workers.                                              *)
(***************************************************************************)
EXTENDS Integers, FiniteSets, FiniteSetsExt, SequencesExt

CONSTANTS CacheKey,   \* values of an index field
          Item,       \* ids of historical items
          IndexId,    \* ids of indexes, over a field each: positive numbers
          IndexOf,    \* item -> lStatisticsIndex
          CurrRec,    \* records: index -> the value of its field, 0 when
                      \* the record's table does not have the index
          SizeSet,    \* the sizes the cache may be given
          Asker,      \* the workers that use the cache
          MaxNode     \* bound: nodes and tables that exist at a time

VARIABLES list,       \* of [id, key]; the id also names the node's table
          hash,       \* key -> id of its list node, 0 for none
          table,      \* id -> item -> [for, own]: the key the value was
                      \* computed for, and whether the item was looked up
                      \* by the field of its own index
          max_size,
          context,    \* worker -> <<>> or [record, field, done], of which
                      \* field says where pKeyValue points to, and done
                      \* which items have their value for the record
          asking,     \* worker -> <<>> or [key, item, table, own]
          crashed,    \* the process has dereferenced NULL
          recent      \* history: the keys, the latest used first

cacheVars == <<list, hash, table, max_size, context, asking, crashed, recent>>

Null == 0

Unset == [for |-> 0, own |-> FALSE]

NoTable == [h \in Item |-> Unset]

\* kr_hashtable_size of the cache's hash table.
Size(h) == Cardinality({k \in CacheKey : h[k] # 0})

\* Mutant of MoveHead: an entry that is used stays where it is.
MoveHeadNot(l, id) == l

\* kr_list_move_head
MoveHead(l, id) ==
    LET i == SelectInSeq(l, LAMBDA n : n.id = id)
    IN  <<l[i]>> \o RemoveAt(l, i)

\* kr_cache_evict_n_oldest: from the tail; the key leaves the hash table,
\* then the node and what it holds are freed.
EvictNOldest(l, h, n) ==
    LET gone == Min({n, Len(l)})
        dead == SubSeq(l, Len(l) - gone + 1, Len(l))
    IN  [list |-> SubSeq(l, 1, Len(l) - gone),
         hash |-> [k \in CacheKey |-> IF \E i \in DOMAIN dead : dead[i].key = k
                                      THEN 0 ELSE h[k]]]

\* The tables that are still there; what was freed is forgotten.
Kept(l) == [n \in 1 .. MaxNode |-> IF \E i \in DOMAIN l : l[i].id = n THEN table[n] ELSE NoTable]

Touch(k) == <<k>> \o RemoveFirst(recent, k)

---------------------------------------------------------------------------

CacheInit ==
    /\ list = <<>> /\ hash = [k \in CacheKey |-> 0]
    /\ table = [n \in 1 .. MaxNode |-> NoTable]
    /\ max_size \in SizeSet
    /\ context = [w \in Asker |-> <<>>]
    /\ asking = [w \in Asker |-> <<>>]
    /\ crashed = FALSE
    /\ recent = <<>>

\* kr_cache_set_max_size: evicts the difference of the sizes, however many
\* nodes there are.
SetMaxSize(n) ==
    LET e == EvictNOldest(list, hash, max_size - n)
    IN  /\ \A w \in Asker : asking[w] = <<>>
        /\ max_size' = n
        /\ IF max_size > n THEN list' = e.list /\ hash' = e.hash /\ table' = Kept(e.list)
           ELSE UNCHANGED <<list, hash, table>>
        /\ UNCHANGED <<context, asking, crashed, recent>>

\* The context of worker w, once it is about record r.
SetContext(w, r, field, done) ==
    context' = [context EXCEPT ![w] = <<[record |-> r, field |-> field, done |-> done]>>]

\* kr_context_clean after a request, and the record of the next one.
NewRequest(w, r) ==
    /\ asking[w] = <<>>
    /\ SetContext(w, r, Null, {})
    /\ UNCHANGED <<list, hash, table, max_size, asking, crashed, recent>>

\* The worker is between two items of a request.
Idle(w) == asking[w] = <<>> /\ context[w] # <<>>

\* kr_sdi_compute and kr_ddi_compute, up to what they leave in the context.
ComputeOther(w, x) ==
    /\ Idle(w) /\ context[w][1].record[x] # 0
    /\ SetContext(w, context[w][1].record, x, context[w][1].done)
    /\ UNCHANGED <<list, hash, table, max_size, asking, crashed, recent>>

\* What kr_hdi_get_value asks the cache for, when the item has no value for
\* the record yet.
Request(w, h, id) ==
    LET c == context[w][1]
    IN  [key |-> c.record[c.field], item |-> h, table |-> id, own |-> c.field = IndexOf[h]]

\* The key of the worker's next lookup.
Key(w) == context[w][1].record[context[w][1].field]

\* kr_hdi_cache_get on a hit: kr_cache_get moves the node to the head, and
\* the value of the item is looked up in the table, or made there.
CacheHit(w, h) ==
    /\ Idle(w) /\ h \notin context[w][1].done /\ context[w][1].field # Null
    /\ hash[Key(w)] # 0
    /\ list' = MoveHead(list, hash[Key(w)])
    /\ asking' = [asking EXCEPT ![w] = <<Request(w, h, hash[Key(w)])>>]
    /\ recent' = Touch(Key(w))
    /\ UNCHANGED <<hash, table, max_size, context, crashed>>

\* kr_hdi_cache_get on a miss: the worker makes an empty table ...
CacheMiss(w, h) ==
    /\ Idle(w) /\ h \notin context[w][1].done /\ context[w][1].field # Null
    /\ hash[Key(w)] = 0
    /\ asking' = [asking EXCEPT ![w] = <<Request(w, h, 0)>>]
    /\ UNCHANGED <<list, hash, table, max_size, context, crashed, recent>>

\* A request whose first data item is a historical one: kr_string_hash is
\* given the NULL that kr_context_clean has left.
CacheNull(w, h) ==
    /\ Idle(w) /\ h \notin context[w][1].done /\ context[w][1].field = Null
    /\ crashed' = TRUE
    /\ UNCHANGED <<list, hash, table, max_size, context, asking, recent>>

\* ... and kr_cache_set makes room and puts it in: one node is evicted when
\* the cache is full, more when it is too full.
CacheSet(w) ==
    /\ asking[w] # <<>> /\ asking[w][1].table = 0
    /\ LET k == asking[w][1].key
           n == Size(hash) - max_size
           e == EvictNOldest(list, hash, IF n >= 0 THEN n + 1 ELSE 0)
       IN  \E id \in {Min((1 .. MaxNode) \ {e.list[i].id : i \in DOMAIN e.list})} :
             /\ list' = <<[id |-> id, key |-> k]>> \o e.list
             /\ hash' = [e.hash EXCEPT ![k] = id]
             /\ table' = Kept(e.list)
             /\ asking' = [asking EXCEPT ![w][1].table = id]
             /\ recent' = Touch(k)
    /\ UNCHANGED <<max_size, context, crashed>>

\* kr_hdi_get_value_from_cache: a value that is set is taken ...
UseValue(w) ==
    /\ asking[w] # <<>> /\ asking[w][1].table # 0
    /\ table[asking[w][1].table][asking[w][1].item] # Unset
    /\ LET c == context[w][1]
       IN  SetContext(w, c.record, c.field, c.done \cup {asking[w][1].item})
    /\ asking' = [asking EXCEPT ![w] = <<>>]
    /\ UNCHANGED <<list, hash, table, max_size, crashed, recent>>

\* ... and one that is not is computed, for the field of the item's index,
\* and written to the cache unless the database query fails.  A table
\* without the index leaves it unset, and pKeyValue alone.
ComputeValue(w, ok) ==
    /\ asking[w] # <<>> /\ asking[w][1].table # 0
    /\ LET a   == asking[w][1]
           c   == context[w][1]
           x   == IndexOf[a.item]
           for == c.record[x]
       IN  /\ table[a.table][a.item] = Unset
           /\ table' = IF for # 0 /\ ok
                       THEN [table EXCEPT ![a.table][a.item] = [for |-> for, own |-> a.own]]
                       ELSE table
           /\ SetContext(w, c.record, IF for # 0 THEN x ELSE c.field, c.done \cup {a.item})
    /\ asking' = [asking EXCEPT ![w] = <<>>]
    /\ UNCHANGED <<list, hash, max_size, crashed, recent>>

CacheNext ==
    /\ ~crashed
    /\ \/ \E n \in SizeSet : SetMaxSize(n)
       \/ \E w \in Asker :
            \/ CacheSet(w)
            \/ UseValue(w)
            \/ \E ok \in BOOLEAN : ComputeValue(w, ok)
            \/ \E r \in CurrRec : NewRequest(w, r)
            \/ \E x \in IndexId : ComputeOther(w, x)
            \/ \E h \in Item : CacheHit(w, h) \/ CacheMiss(w, h) \/ CacheNull(w, h)

CacheSpec == CacheInit /\ [][CacheNext]_cacheVars

---------------------------------------------------------------------------
(* Properties *)

\* The list and the hash table hold the same keys, each once, never more of
\* them than the size allows, and they are the keys used last, in that
\* order: whatever is evicted, and however the size is changed, was used
\* before everything that stays.
LeastRecentlyUsed ==
    /\ Len(list) <= max_size
    /\ [i \in DOMAIN list |-> list[i].key] = SubSeq(recent, 1, Len(list))
    /\ \A k \in CacheKey : hash[k] # 0 <=> \E i \in DOMAIN list : list[i] = [id |-> hash[k], key |-> k]

\* A value whose item was looked up by the field of its own index was
\* computed for the key it is found under: no table, or value, of an evicted
\* node is reached again.  Nothing of the kind holds for an item that was
\* looked up by the field that another item had left in pKeyValue, and with a
\* second asker this fails: "need lock while mutli thread" (kr_context.h:19).
CachedForKey ==
    /\ \A i \in DOMAIN list : \A h \in Item :
         table[list[i].id][h].own => table[list[i].id][h].for = list[i].key
    /\ \A w \in Asker : (asking[w] # <<>> /\ asking[w][1].table # 0) =>
         [id |-> asking[w][1].table, key |-> asking[w][1].key] \in ToSet(list)

\* The cache keeps what was used last, and a value that was looked up by its
\* own field is the one for its key.
CacheExact == LeastRecentlyUsed /\ CachedForKey
=============================================================================
