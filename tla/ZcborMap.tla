------------------------------ MODULE ZcborMap ------------------------------
(***************************************************************************)
(* The helper of lib/zcbor_utils: a map is decoded by a table of keys, each *)
(* with a callback.                                                        *)
(***************************************************************************)
EXTENDS Cbor

CONSTANTS Keys,              \* the keys of the table
          Decode(_, _, _)    \* what the callback of a key makes of an item and the
                             \* state so far: an error and the state after it

\* The table has an entry for this key.
map_entry_get(key) == \E i \in DOMAIN Keys : Keys[i] = key

\* One turn of the loop: nothing happens after an error, or once as many pairs
\* were decoded as the table has keys; an unknown key is skipped.
MapStep(acc, pair) ==
    LET r == Decode(pair.key, pair.value, acc.st)
    IN  IF acc.err = OK /\ acc.n < Len(Keys) /\ map_entry_get(pair.key)
        THEN [err |-> r.err, st |-> r.st, n |-> acc.n + (IF r.err = OK THEN 1 ELSE 0)]
        ELSE acc

\* An item that is no map, a callback that fails, a map that ends too early or
\* that has too few of the keys is an error; what was decoded before it stays.
zcbor_map_decode(item, st) ==
    IF item.type # "map" THEN Result(EBADMSG, st)
    ELSE LET end == FoldLeft(MapStep, [err |-> OK, st |-> st, n |-> 0], item.pairs)
             missing == IF end.n = 0 /\ item.whole THEN ENOENT ELSE EBADMSG
         IN  Result(IF end.err = OK /\ end.n < Len(Keys) THEN missing ELSE end.err, end.st)
=============================================================================
