----------------------------- MODULE ClearParams -----------------------------
(***************************************************************************)
(* The Login page's mount effect clears the URL with                       *)
(*     searchParams.forEach((val, key) => searchParams.delete(key))        *)
(* A query is the sequence of its parameter keys; values play no part.     *)
(* URLSearchParams.delete(key) removes every pair with that key.  Web IDL  *)
(* forEach walks an index over the live list and re-reads the list at     *)
(* each step, so a deletion shifts the pairs after it under the index.     *)
(***************************************************************************)
LOCAL INSTANCE SequencesExt
LOCAL INSTANCE Naturals

\* searchParams.delete(k)
DeleteKey(q, k) == Remove(q, k)

\* The forEach loop from index i on, over the live list q.
RECURSIVE ForEachDelete(_, _)
ForEachDelete(q, i) ==
    IF i > Len(q) THEN q
    ELSE ForEachDelete(DeleteKey(q, q[i]), i + 1)

\* The query left in the URL after the mount effect's loop.
ClearedQuery(q) == ForEachDelete(q, 1)

\* All queries of at most n parameters over the keys K.
Queries(K, n) == SeqOf(K, n)

=============================================================================
