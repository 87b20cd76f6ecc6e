--------------------------- MODULE StorageMaps ---------------------------
(***************************************************************************)
(* The storage of a Substrate pallet: a StorageMap or StorageDoubleMap of  *)
(* frame_support is a function whose DOMAIN is the set of keys written so  *)
(* far.  Only what the pallets call is defined; frame_support is not part  *)
(* of the repository, so these operators model it from its use.            *)
(***************************************************************************)
EXTENDS Sequences, Integers

(* insert(key, value): add the key, or overwrite the value it has. *)
Put(map, key, value) ==
  [k \in DOMAIN map \cup {key} |-> IF k = key THEN value ELSE map[k]]

(* take(key): the map once the key is removed. *)
Take(map, key) == [k \in DOMAIN map \ {key} |-> map[k]]

(* A map that is read with a default value (ValueQuery, unwrap_or). *)
GetOr(map, key, default) == IF key \in DOMAIN map THEN map[key] ELSE default

(* An index map (key, 0..n-1) with its counter n is a sequence; adding to  *)
(* it appends.                                                             *)
PushTo(map, key, value) ==
  Put(map, key, Append(GetOr(map, key, <<>>), value))

(* Vec::retain of all elements but e: what is kept of a prefix is extended *)
(* by the next element, unless it is e.                                    *)
Without(queue, e) ==
  LET kept[n \in 0 .. Len(queue)] ==
        IF n = 0 THEN <<>>
        ELSE IF queue[n] = e THEN kept[n - 1] ELSE Append(kept[n - 1], queue[n])
  IN kept[Len(queue)]

EmptyMap == [k \in {} |-> k]
==========================================================================
