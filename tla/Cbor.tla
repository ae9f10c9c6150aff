-------------------------------- MODULE Cbor --------------------------------
(***************************************************************************)
(* CBOR items as the services see them.  An item is a record with a "type". *)
(* A map has its pairs in the order in which they were encoded; "whole" is  *)
(* FALSE when the bytes at hand end before the map does.  Bytes from the    *)
(* middle of a document are an item of type "rest".                        *)
(***************************************************************************)
EXTENDS Integers, Sequences, SequencesExt

Pair(key, value) == [key |-> key, value |-> value]
CborMap(pairs)   == [type |-> "map", pairs |-> pairs, whole |-> TRUE]
CutMap(pairs)    == [type |-> "map", pairs |-> pairs, whole |-> FALSE]
CborRest         == [type |-> "rest"]

OK == 0
ENOENT == 2
EBADMSG == 74

Result(err, st) == [err |-> err, st |-> st]
=============================================================================
