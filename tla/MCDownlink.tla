----------------------------- MODULE MCDownlink -----------------------------
(* Instances of Downlink for TLC. *)
EXTENDS Downlink

\* The layout of a pouch with blocks of the given lengths.
LayoutOf(lengths) ==
    LET end[k \in 0 .. Len(lengths)] ==
            IF k = 0 THEN HeaderLen ELSE end[k - 1] + lengths[k]
    IN  [k \in 1 .. Len(lengths) |-> end[k]]

\* Pouches of one or two blocks, small ones (several fit in one buffer) and ones that
\* fill a buffer.
MCLayouts == {LayoutOf(s) : s \in UNION {[1 .. n -> {3, Cap}] : n \in 1 .. 2}}
\* The same with a block that is too large.
MCLargeLayouts == {LayoutOf(s) : s \in UNION {[1 .. n -> {4, 9}] : n \in 1 .. 2}}
\* Pouches of one to three small blocks.
MCSmallLayouts == {LayoutOf(s) : s \in UNION {[1 .. n -> {3}] : n \in 1 .. 3}}
=============================================================================
