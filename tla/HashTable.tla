----------------------------- MODULE HashTable -----------------------------
(***************************************************************************)
(* The chained hash table of hashtable.c, as operators on its buckets.     *)
(* Keys are numbers, as for every table of libproc; hashFunc is the        *)
(* number itself and keyCmp equality.  A null key is a key of 0.           *)
(***************************************************************************)
EXTENDS Naturals, Sequences, FiniteSets, FiniteSetsExt, SequencesExt

CONSTANTS hashSize,
          NULL,
          keyForData(_)   \* the key of a piece of data

Buckets == 0..hashSize - 1

HASH_create_table == [b \in Buckets |-> <<>>]

\* The places of the nodes with the key, in its bucket.
Places(t, key) == {i \in DOMAIN t[key % hashSize] : keyForData(t[key % hashSize][i]) = key}

HASH_find_key(t, key) ==
  IF Places(t, key) = {} THEN NULL ELSE t[key % hashSize][Min(Places(t, key))]

\* Mutant: the node and those after it are unlinked.
HASH_remove_key_Tail(t, key) ==
  IF key = 0 \/ Places(t, key) = {} THEN t
  ELSE [t EXCEPT ![key % hashSize] = SubSeq(@, 1, Min(Places(t, key)) - 1)]

\* HASH_search_internal passes over a node with a null key.
HASH_remove_key(t, key) ==
  IF key = 0 \/ Places(t, key) = {} THEN t ELSE [t EXCEPT ![key % hashSize] = RemoveAt(@, Min(Places(t, key)))]

\* A new node becomes the head of its bucket; an old one stays.
HASH_add_data(t, data) ==
  IF HASH_find_key(t, keyForData(data)) # NULL THEN t
  ELSE [t EXCEPT ![keyForData(data) % hashSize] = <<data>> \o @]
=============================================================================
