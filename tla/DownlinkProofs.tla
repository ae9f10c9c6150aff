--------------------------- MODULE DownlinkProofs ---------------------------
(***************************************************************************)
(* Safety of Downlink for every size of buffers and headers, every set of  *)
(* layouts and every way in which a pouch is cut into chunks.              *)
(***************************************************************************)
EXTENDS Downlink, SequenceTheorems, TLAPS

(* The invariants that make the properties inductive. *)

\* The layouts of the pouch that arrives, and of none.
Arriving == Layouts \cup {<<>>}

\* No block of the pouch is larger than a buffer.
Fits == \A k \in DOMAIN layout : BlockSize(layout, k) <= Cap

\* What is left of the chunk at hand, and how far the pouch has come.
ChunkInv ==
    /\ layout \in Arriving
    /\ tpc = "idle" => left = 0
    /\ pushed <= PouchEnd(layout) /\ cut <= Len(layout)
    /\ pouch = 0 => ~hasBuf

\* The buffer begins after the last block that was cut and ends before the rest of
\* the chunk.  It is never full, unless its block is too large to be completed or its
\* header is refused.
BufferInv ==
    hasBuf =>
        /\ lo = (IF gotHeader THEN BlockEnd(layout, cut) ELSE 0)
        /\ ~gotHeader => cut = 0
        /\ lo <= hi /\ hi - lo <= Cap
        /\ hi + left <= pushed
        /\ Fits /\ (gotHeader \/ hi < Cap) => hi + left = pushed
        /\ Fits /\ gotHeader => hi - lo < Cap

-----------------------------------------------------------------------------
(* Layouts *)

\* The blocks of a pouch end at positions, one after the other.
LEMMA LayoutFacts ==
    ASSUME NEW l \in Arriving
    PROVE  /\ l \in Seq(Nat) /\ Len(l) \in Nat /\ DOMAIN l = 1 .. Len(l)
           /\ \A k \in 0 .. Len(l) : BlockEnd(l, k) \in Nat
           /\ \A i, j \in 0 .. Len(l) :
                  i < j => BlockEnd(l, i) + SizeField < BlockEnd(l, j)
           /\ PouchEnd(l) \in Nat
<1>0. l \in Seq(Nat)
      BY EmptySeq, DownlinkAssumption DEF Arriving
<1>1. l \in Seq(Nat) /\ Len(l) \in Nat /\ DOMAIN l = 1 .. Len(l)
      BY <1>0
<1>2. \A k \in 0 .. Len(l) : BlockEnd(l, k) \in Nat
      BY <1>1, DownlinkAssumption DEF BlockEnd
<1>3. \A i, j \in 0 .. Len(l) : i < j => BlockEnd(l, i) + SizeField < BlockEnd(l, j)
  <2>1. CASE l \in Layouts
        BY <2>1, DownlinkAssumption
  <2>2. CASE l = <<>>
        BY <2>2
  <2> QED BY <2>1, <2>2 DEF Arriving
<1> QED BY <1>1, <1>2, <1>3 DEF PouchEnd

\* The size field of the block after block k says where that block ends.
LEMMA SizeFieldFacts ==
    ASSUME NEW l \in Arriving, NEW k \in 0 .. Len(l), k < Len(l)
    PROVE  /\ BlockLen(l, BlockEnd(l, k)) = BlockEnd(l, k + 1) - BlockEnd(l, k)
           /\ BlockLen(l, BlockEnd(l, k)) = BlockSize(l, k + 1)
           /\ k + 1 \in DOMAIN l
<1>1. k + 1 \in DOMAIN l /\ (k + 1) - 1 = k
      BY LayoutFacts
<1>2. \A i \in DOMAIN l : BlockEnd(l, i - 1) = BlockEnd(l, k) => i = k + 1
  <2> SUFFICES ASSUME NEW i \in DOMAIN l, i # k + 1
               PROVE  BlockEnd(l, i - 1) # BlockEnd(l, k)
      OBVIOUS
  <2>1. i - 1 \in 0 .. Len(l) /\ i - 1 # k
        BY LayoutFacts
  <2> DEFINE m == i - 1
  <2>2. m \in 0 .. Len(l) /\ m # k
        BY <2>1
  <2> HIDE DEF m
  <2>3. BlockEnd(l, m) # BlockEnd(l, k)
    <3>1. CASE m < k
          BY <2>2, <3>1, LayoutFacts DEF SizeField
    <3>2. CASE k < m
          BY <2>2, <3>2, LayoutFacts DEF SizeField
    <3> QED BY <2>2, <3>1, <3>2, LayoutFacts
  <2> QED BY <2>3 DEF m
<1>3. IsBlockStart(l, BlockEnd(l, k))
      BY <1>1 DEF IsBlockStart
<1>4. BlockAt(l, BlockEnd(l, k)) = k + 1
      BY <1>1, <1>2 DEF BlockAt
<1> QED BY <1>1, <1>3, <1>4 DEF BlockLen, BlockSize

\* What the size field says is a length, wherever it is read.
LEMMA BlockLenType ==
    ASSUME NEW l \in Arriving, NEW p
    PROVE  BlockLen(l, p) \in Nat
<1>1. CASE IsBlockStart(l, p)
  <2> DEFINE k == BlockAt(l, p)
  <2>1. k \in DOMAIN l
        BY <1>1 DEF IsBlockStart, BlockAt
  <2> HIDE DEF k
  <2>2. k \in 0 .. Len(l) /\ k - 1 \in 0 .. Len(l) /\ k - 1 < k
        BY <2>1, LayoutFacts
  <2>3. BlockEnd(l, k) \in Nat /\ BlockEnd(l, k - 1) \in Nat
        /\ BlockEnd(l, k - 1) + SizeField < BlockEnd(l, k)
        BY <2>2, LayoutFacts
  <2> QED BY <1>1, <2>3 DEF BlockLen, BlockSize, SizeField, k
<1>2. CASE ~IsBlockStart(l, p)
      BY <1>2 DEF BlockLen, SizeField
<1> QED BY <1>1, <1>2

-----------------------------------------------------------------------------
(* Reassembly *)

\* The types of what push works on.
PushTypes ==
    /\ pouch \in Nat /\ pushed \in Nat /\ hasBuf \in BOOLEAN /\ lo \in Nat /\ hi \in Nat
    /\ gotHeader \in BOOLEAN /\ left \in Nat /\ cryptoPouch \in Nat
    /\ cut \in Nat /\ arrived \in Nat
    /\ tpc \in {"idle", "push", "submit"}

\* The sizes that a pass of the loop of push computes.  It stores some bytes, and
\* never more than the chunk has or the buffer takes.
LEMMA PassFacts ==
    ASSUME PushTypes, ChunkInv, left > 0, hi - lo < Cap, lo <= hi
    PROVE  /\ Written \in Nat /\ Written <= left
           /\ NewHi \in Nat /\ NewHi = hi + Written /\ NewHi - lo <= Cap
           /\ Written = left \/ NewHi - lo = Cap
           /\ NewLo \in Nat /\ lo <= NewLo
           /\ BlockLen(layout, NewLo) \in Nat
<1>1. /\ Written \in Nat /\ Written <= left
      /\ NewHi \in Nat /\ NewHi = hi + Written /\ NewHi - lo <= Cap
      /\ Written = left \/ NewHi - lo = Cap
      BY DownlinkAssumption DEF PushTypes, Written, NewHi, Min2
<1>2. NewLo \in Nat /\ lo <= NewLo
      BY DownlinkAssumption DEF PushTypes, NewLo
<1>3. BlockLen(layout, NewLo) \in Nat
      BY BlockLenType DEF ChunkInv
<1> QED BY <1>1, <1>2, <1>3

\* Where the blocks begin once the header is parsed: after the blocks that were cut.
LEMMA PassLo ==
    ASSUME PushTypes, ChunkInv, BufferInv, hasBuf
    PROVE  NewLo = BlockEnd(layout, cut)
BY DownlinkAssumption DEF PushTypes, BufferInv, NewLo, BlockEnd

\* A size field that can be read is the one of the next block: the bytes after the
\* last block are no block.
LEMMA PassBlock ==
    ASSUME PushTypes, ChunkInv, BufferInv, hasBuf, left > 0, hi - lo < Cap, SizeKnown
    PROVE  /\ cut < Len(layout) /\ cut + 1 \in DOMAIN layout
           /\ NewLo = BlockEnd(layout, cut)
           /\ BlockLen(layout, NewLo) = BlockEnd(layout, cut + 1) - NewLo
           /\ BlockLen(layout, NewLo) = BlockSize(layout, cut + 1)
           /\ BlockLen(layout, NewLo) > SizeField
<1>1. NewLo = BlockEnd(layout, cut)
      BY PassLo
<1>2. NewHi <= pushed /\ pushed <= PouchEnd(layout) /\ NewHi - NewLo > SizeField
      BY PassFacts DEF PushTypes, ChunkInv, BufferInv, SizeKnown
<1>3. layout \in Arriving /\ cut \in 0 .. Len(layout) /\ Len(layout) \in Nat
      BY LayoutFacts DEF ChunkInv, PushTypes
<1>4. cut # Len(layout)
  <2>1. PouchEnd(layout) = BlockEnd(layout, Len(layout)) /\ PouchEnd(layout) \in Nat
        BY <1>3, LayoutFacts DEF PouchEnd
  <2>2. NewHi \in Nat /\ NewLo \in Nat /\ pushed \in Nat
        BY PassFacts DEF PushTypes, BufferInv
  <2>3. NewLo < PouchEnd(layout)
        BY <1>2, <2>1, <2>2 DEF SizeField
  <2> QED BY <1>1, <2>1, <2>2, <2>3
<1>5. cut < Len(layout)
      BY <1>3, <1>4
<1>6. /\ cut + 1 \in DOMAIN layout
      /\ BlockLen(layout, NewLo) = BlockEnd(layout, cut + 1) - NewLo
      /\ BlockLen(layout, NewLo) = BlockSize(layout, cut + 1)
      BY <1>1, <1>3, <1>5, SizeFieldFacts
<1>7. BlockEnd(layout, cut) + SizeField < BlockEnd(layout, cut + 1)
      BY <1>3, <1>5, LayoutFacts
<1>8. BlockEnd(layout, cut) \in Nat /\ BlockEnd(layout, cut + 1) \in Nat
      BY <1>3, <1>5, LayoutFacts
<1>9. BlockLen(layout, NewLo) > SizeField
      BY <1>1, <1>6, <1>7, <1>8 DEF SizeField
<1> QED BY <1>1, <1>5, <1>6, <1>9

PushInv == PushTypes /\ ChunkInv /\ BufferInv

\* A pass that cuts no block leaves the buffer room for more, unless its block is
\* too large.
LEMMA PushStoreInv ==
    ASSUME PushInv, PushStore
    PROVE  PushInv'
<1>1. PushTypes /\ ChunkInv /\ BufferInv
      BY DEF PushInv
<1>2. /\ hasBuf /\ left > 0 /\ hi - lo < Cap /\ lo <= hi
      BY <1>1 DEF PushStore, BufferInv
<1>3. /\ hi' = NewHi /\ lo' = IF HeaderParsed THEN NewLo ELSE lo
      /\ (gotHeader' = HeaderParsed)
      /\ UNCHANGED <<pouch, layout, pushed, hasBuf, cut, arrived>>
      /\ ~(HeaderParsed /\ SizeKnown /\ SizeAllowed /\ BlockThere)
      BY DEF PushStore
<1>4. left' = IF HeaderParsed /\ (SizeKnown => SizeAllowed) THEN left - Written ELSE 0
      BY DEF PushStore
<1>5. /\ Written \in Nat /\ Written <= left
      /\ NewHi \in Nat /\ NewHi = hi + Written /\ NewHi - lo <= Cap
      /\ Written = left \/ NewHi - lo = Cap
      /\ NewLo \in Nat /\ lo <= NewLo
      BY <1>1, <1>2, PassFacts
<1>6. left' \in Nat /\ NewHi + left' <= pushed
      BY <1>1, <1>2, <1>4, <1>5 DEF PushTypes, BufferInv
<1>7. HeaderParsed => NewLo <= NewHi
      BY <1>1, <1>2, <1>5, DownlinkAssumption DEF HeaderParsed, NewLo, PushTypes
<1>8. (tpc' = "idle" => left' = 0) /\ tpc' \in {"idle", "push", "submit"}
      BY DEF PushStore
<1>9. cryptoPouch' \in Nat /\ gotHeader' \in BOOLEAN
      BY <1>1 DEF PushStore, PushTypes, HeaderParsed
<1>10. PushTypes'
       BY <1>1, <1>3, <1>5, <1>6, <1>8, <1>9 DEF PushTypes
<1>11. ChunkInv'
       BY <1>1, <1>3, <1>8 DEF ChunkInv, PouchEnd, BlockEnd
<1>12. /\ lo' = (IF gotHeader' THEN BlockEnd(layout, cut) ELSE 0)
       /\ ~gotHeader' => cut = 0
       BY <1>1, <1>2, <1>3, PassLo DEF BufferInv, HeaderParsed
<1>13. lo' <= hi' /\ hi' - lo' <= Cap
       BY <1>1, <1>2, <1>3, <1>5, <1>7, DownlinkAssumption DEF PushTypes
<1>14. ASSUME Fits
       PROVE  NewHi + left' = pushed /\ hi' - lo' < Cap
  <2>1. hi + left = pushed
    <3>1. gotHeader \/ hi < Cap
          BY <1>1, <1>2, DownlinkAssumption DEF BufferInv, PushTypes
    <3> QED BY <1>1, <1>2, <1>14, <3>1 DEF BufferInv
  <2>2. CASE ~HeaderParsed
    <3>1. NewHi - lo < HeaderLen /\ HeaderLen <= Cap
          BY <2>2, <1>1, <1>2, <1>5, DownlinkAssumption DEF HeaderParsed, PushTypes
    <3> QED BY <1>1, <1>3, <1>4, <1>5, <2>1, <2>2, <3>1, DownlinkAssumption DEF PushTypes
  <2>3. CASE HeaderParsed
    <3>1. SizeKnown => SizeAllowed
      <4> SUFFICES ASSUME SizeKnown PROVE SizeAllowed
          OBVIOUS
      <4>1. BlockLen(layout, NewLo) = BlockSize(layout, cut + 1) /\ cut + 1 \in DOMAIN layout
            BY <1>1, <1>2, PassBlock
      <4> QED BY <1>14, <4>1 DEF Fits, SizeAllowed
    <3>2. NewHi - NewLo < Cap
      <4>1. CASE ~SizeKnown
            BY <1>5, <4>1, DownlinkAssumption DEF SizeKnown, SizeField
      <4>2. CASE SizeKnown
        <5>1. BlockLen(layout, NewLo) <= Cap /\ BlockLen(layout, NewLo) \in Nat
              BY <1>1, <1>2, <3>1, <4>2, PassFacts DEF SizeAllowed
        <5>2. ~(NewHi - NewLo >= BlockLen(layout, NewLo))
              BY <1>3, <2>3, <3>1, <4>2 DEF BlockThere
        <5> QED BY <1>5, <5>1, <5>2, DownlinkAssumption
      <4> QED BY <4>1, <4>2
    <3>3. left' = left - Written
          BY <1>4, <2>3, <3>1
    <3> QED BY <1>1, <1>3, <1>5, <2>1, <2>3, <3>2, <3>3 DEF PushTypes
  <2> QED BY <2>2, <2>3
<1>15. Fits' <=> Fits
       BY <1>3 DEF Fits, BlockSize, BlockEnd
<1>16. BufferInv'
       BY <1>3, <1>6, <1>12, <1>13, <1>14, <1>15 DEF BufferInv, BlockEnd
<1> QED BY <1>10, <1>11, <1>16 DEF PushInv

\* A pass that completes a block cuts it where it ends.
LEMMA PushCutInv ==
    ASSUME PushInv, PushCut
    PROVE  PushInv'
<1>1. PushTypes /\ ChunkInv /\ BufferInv
      BY DEF PushInv
<1>2. hasBuf /\ left > 0 /\ hi - lo < Cap /\ lo <= hi /\ SizeKnown
      BY <1>1 DEF PushCut, BufferInv
<1>3. /\ hi' = NewHi /\ lo' = NewLo + BlockLen(layout, NewLo)
      /\ left' = left - Written /\ cut' = cut + 1 /\ arrived' = arrived + 1 /\ tpc' = "submit"
      /\ UNCHANGED <<pouch, layout, pushed>>
      /\ BlockLen(layout, NewLo) <= NewHi - NewLo
      BY PassFacts, <1>1, <1>2 DEF PushCut, BlockThere
<1>4. gotHeader' = TRUE
      BY DEF PushCut
<1>5. hasBuf' \in BOOLEAN
      BY DEF PushCut
<1>6. cryptoPouch' \in Nat
      BY <1>1 DEF PushCut, PushTypes
<1>7. /\ Written \in Nat /\ Written <= left
      /\ NewHi \in Nat /\ NewHi = hi + Written /\ NewHi - lo <= Cap
      /\ NewLo \in Nat /\ lo <= NewLo
      /\ BlockLen(layout, NewLo) \in Nat
      BY <1>1, <1>2, PassFacts
<1>8. /\ cut < Len(layout) /\ cut + 1 \in DOMAIN layout
      /\ BlockLen(layout, NewLo) = BlockEnd(layout, cut + 1) - NewLo
      /\ BlockLen(layout, NewLo) > SizeField
      BY <1>1, <1>2, PassBlock
<1>9. Len(layout) \in Nat /\ cut + 1 <= Len(layout) /\ BlockEnd(layout, cut + 1) \in Nat
      BY <1>1, <1>8, LayoutFacts DEF ChunkInv, PushTypes
<1>10. left' \in Nat /\ lo' \in Nat /\ lo' = BlockEnd(layout, cut + 1)
       BY <1>1, <1>3, <1>7, <1>8, <1>9 DEF PushTypes
<1>11. PushTypes'
       BY <1>1, <1>3, <1>4, <1>5, <1>6, <1>7, <1>10 DEF PushTypes
<1>12. ChunkInv'
  <2>1. pouch # 0
        BY <1>1, <1>2 DEF ChunkInv
  <2> QED BY <1>1, <1>3, <1>9, <2>1 DEF ChunkInv, PouchEnd, BlockEnd
<1>13. lo' <= hi' /\ hi' - lo' < Cap /\ hi' + left' = hi + left
       BY <1>1, <1>3, <1>7, <1>8, DownlinkAssumption DEF PushTypes, SizeField
<1>14. lo' = BlockEnd(layout', cut')
       BY <1>3, <1>10
<1>15. hi + left <= pushed /\ (Fits => hi + left = pushed)
  <2>1. gotHeader \/ hi < Cap
        BY <1>1, <1>2, DownlinkAssumption DEF BufferInv, PushTypes
  <2> QED BY <1>1, <1>2, <2>1 DEF BufferInv
<1>16. Fits' <=> Fits
       BY <1>3 DEF Fits, BlockSize, BlockEnd
<1>17. hi' - lo' <= Cap
       BY <1>3, <1>7, <1>10, <1>13, DownlinkAssumption, SMTT(30)
<1>18. BufferInv'
       BY <1>3, <1>4, <1>13, <1>14, <1>15, <1>16, <1>17 DEF BufferInv, BlockEnd
<1> QED BY <1>11, <1>12, <1>18 DEF PushInv

\* A header that is refused stays in the buffer, with the bytes that were stored.
LEMMA RefusedInv ==
    ASSUME PushInv, PushHeaderRefused
    PROVE  PushInv'
<1>1. PushTypes /\ ChunkInv /\ BufferInv
      BY DEF PushInv
<1>2. /\ hasBuf /\ left > 0 /\ hi - lo < Cap /\ lo <= hi /\ ~gotHeader
      BY <1>1 DEF PushHeaderRefused, BufferInv
<1>3. /\ hi' = NewHi /\ left' = 0 /\ tpc' = "idle"
      /\ UNCHANGED <<pouch, layout, pushed, hasBuf, lo, gotHeader, cut, arrived, cryptoPouch>>
      BY DEF PushHeaderRefused
<1>4. /\ Written \in Nat /\ Written <= left
      /\ NewHi \in Nat /\ NewHi = hi + Written /\ NewHi - lo <= Cap
      /\ Written = left \/ NewHi - lo = Cap
      BY <1>1, <1>2, PassFacts
<1>5. PushTypes'
      BY <1>1, <1>3, <1>4 DEF PushTypes
<1>6. ChunkInv'
      BY <1>1, <1>3 DEF ChunkInv, PouchEnd, BlockEnd
<1>7. Fits' <=> Fits
      BY <1>3 DEF Fits, BlockSize, BlockEnd
<1>8. /\ lo = 0 /\ cut = 0 /\ hi + left <= pushed
      /\ Fits => hi + left = pushed
  <2>1. lo = 0
        BY <1>1, <1>2 DEF BufferInv
  <2>2. hi < Cap
        BY <1>1, <1>2, <2>1 DEF PushTypes
  <2> QED BY <1>1, <1>2, <2>1, <2>2 DEF BufferInv
<1>9. /\ NewHi <= Cap /\ NewHi + 0 <= pushed /\ lo <= NewHi
      /\ Fits /\ NewHi < Cap => NewHi + 0 = pushed
      BY <1>1, <1>2, <1>4, <1>8, DownlinkAssumption DEF PushTypes
<1>10. NewHi - lo <= Cap
       BY <1>4
<1>11. BufferInv'
       BY <1>2, <1>3, <1>7, <1>8, <1>9, <1>10 DEF BufferInv, BlockEnd
<1> QED BY <1>5, <1>6, <1>11 DEF PushInv

\* The steps of the work queues leave the reassembly alone.
LEMMA WorkFrame ==
    ASSUME Decrypt \/ Consume
    PROVE  UNCHANGED <<pushVars, cryptoPouch>>
BY DEF Decrypt, DecryptBegin, DecryptFail, DecryptPass, DecryptWake,
       Consume, ConsumeBegin, ConsumeUnlink, ConsumeLook, ConsumeTail, ConsumeHandle,
       ConsumeCheck, queueVars

\* Whatever the chunks, the buffer is what follows the blocks that were cut.
LEMMA PushInvStep ==
    ASSUME PushInv, [Next]_vars
    PROVE  PushInv'
<1>1. PushTypes /\ ChunkInv /\ BufferInv
      BY DEF PushInv
<1>2. CASE Start
  <2>1. /\ pouch' = pouch + 1 /\ layout' \in Arriving
        /\ pushed' = 0 /\ lo' = 0 /\ hi' = 0 /\ cut' = 0
        /\ UNCHANGED <<left, tpc, arrived, cryptoPouch>>
        /\ tpc = "idle"
        BY <1>2 DEF Start, Arriving
  <2>2. gotHeader' = FALSE
        BY <1>2 DEF Start
  <2>3. hasBuf' \in BOOLEAN
        BY <1>2 DEF Start
  <2>4. left = 0
        BY <1>1, <2>1 DEF ChunkInv
  <2>5. PushTypes'
    <3>1. gotHeader' \in BOOLEAN
          BY <2>2
    <3>2. pouch' \in Nat
          BY <1>1, <2>1 DEF PushTypes
    <3> QED BY <1>1, <2>1, <2>3, <3>1, <3>2 DEF PushTypes
  <2>6. PouchEnd(layout') \in Nat /\ Len(layout') \in Nat
        BY <2>1, LayoutFacts
  <2>7. PouchEnd(layout)' \in Nat
        BY <2>6 DEF PouchEnd, BlockEnd
  <2>8. ChunkInv'
    <3>1. pouch' # 0 /\ pushed' <= PouchEnd(layout)' /\ cut' <= Len(layout')
          BY <1>1, <2>1, <2>6, <2>7 DEF PushTypes
    <3>2. layout' \in Arriving' /\ left' = 0
          BY <2>1, <2>4 DEF Arriving
    <3> QED BY <3>1, <3>2 DEF ChunkInv
  <2>9. BufferInv'
        BY <2>1, <2>2, <2>4, DownlinkAssumption DEF BufferInv
  <2> QED BY <2>5, <2>8, <2>9 DEF PushInv
<1>3. ASSUME NEW n \in 1 .. (PouchEnd(layout) - pushed), Push(n)
      PROVE  PushInv'
  <2>0. n \in Nat /\ PouchEnd(layout) \in Nat
        BY <1>1, <1>3, LayoutFacts DEF ChunkInv, PushTypes
  <2>1. /\ pushed' = pushed + n /\ left' = n /\ tpc' = "push" /\ tpc = "idle"
        /\ pushed + n <= PouchEnd(layout)
        /\ UNCHANGED <<pouch, layout, hasBuf, lo, hi, gotHeader, cut, arrived, cryptoPouch>>
        BY <1>3 DEF Push
  <2>2. left = 0
        BY <1>1, <2>1 DEF ChunkInv
  <2>3. PushTypes'
        BY <1>1, <2>0, <2>1 DEF PushTypes
  <2>4. ChunkInv'
        BY <1>1, <2>0, <2>1 DEF ChunkInv, PouchEnd, BlockEnd, PushTypes
  <2>5. Fits' <=> Fits
        BY <2>1 DEF Fits, BlockSize, BlockEnd
  <2>6. BufferInv'
        BY <1>1, <2>0, <2>1, <2>2, <2>5 DEF BufferInv, BlockEnd, PushTypes
  <2> QED BY <2>3, <2>4, <2>6 DEF PushInv
<1>4. CASE PushRefused
  <2>1. /\ left' = 0 /\ tpc' = "idle" /\ left > 0 /\ (~hasBuf \/ hi - lo >= Cap)
        /\ UNCHANGED <<pouch, layout, pushed, hasBuf, lo, hi, gotHeader, cut, arrived, cryptoPouch>>
        BY <1>4 DEF PushRefused
  <2>2. PushTypes'
        BY <1>1, <2>1 DEF PushTypes
  <2>3. ChunkInv'
        BY <1>1, <2>1 DEF ChunkInv, PouchEnd, BlockEnd
  <2>4. Fits' <=> Fits
        BY <2>1 DEF Fits, BlockSize, BlockEnd
  <2>5. BufferInv'
        BY <1>1, <2>1, <2>4, DownlinkAssumption DEF BufferInv, BlockEnd, PushTypes
  <2> QED BY <2>2, <2>3, <2>5 DEF PushInv
<1>5. CASE PushStore
      BY <1>5, PushStoreInv
<1>6. CASE PushCut
      BY <1>6, PushCutInv
<1>7. CASE PushSubmit
  <2>1. /\ tpc' = (IF left = 0 THEN "idle" ELSE "push")
        /\ UNCHANGED <<pouch, layout, pushed, hasBuf, lo, hi, gotHeader, left, cut, arrived,
                       cryptoPouch>>
        BY <1>7 DEF PushSubmit
  <2>2. PushTypes' /\ ChunkInv'
        BY <1>1, <2>1 DEF PushTypes, ChunkInv, PouchEnd, BlockEnd
  <2>3. BufferInv'
        BY <1>1, <2>1 DEF BufferInv, Fits, BlockSize, BlockEnd
  <2> QED BY <2>2, <2>3 DEF PushInv
<1>8. CASE UNCHANGED <<pushVars, cryptoPouch>>
  <2>1. PushTypes' /\ ChunkInv'
        BY <1>1, <1>8 DEF pushVars, PushTypes, ChunkInv, PouchEnd, BlockEnd
  <2>2. BufferInv'
        BY <1>1, <1>8 DEF pushVars, BufferInv, Fits, BlockSize, BlockEnd
  <2> QED BY <2>1, <2>2 DEF PushInv
<1>9. CASE UNCHANGED vars
      BY <1>8, <1>9 DEF vars
<1>10. CASE PushHeaderRefused
       BY <1>10, RefusedInv
<1> QED BY <1>2, <1>3, <1>4, <1>5, <1>6, <1>7, <1>8, <1>9, <1>10, WorkFrame DEF Next, Transport

\* No pouch has arrived.
LEMMA PushInvInit == Init => PushInv
<1> SUFFICES ASSUME Init PROVE PushInv
    OBVIOUS
<1>1. PushTypes
      BY DownlinkAssumption DEF Init, PushTypes
<1>2. layout = <<>> /\ pushed = HeaderLen /\ cut = 0 /\ left = 0 /\ ~hasBuf
      BY DEF Init
<1>3. Len(layout) = 0 /\ PouchEnd(layout) = HeaderLen
      BY <1>2 DEF PouchEnd, BlockEnd
<1>4. ChunkInv
      BY <1>2, <1>3, DownlinkAssumption DEF ChunkInv, Arriving
<1> QED BY <1>1, <1>2, <1>4 DEF PushInv, BufferInv

\* It holds in every state.
LEMMA PushInvHolds == Spec => []PushInv
BY PushInvInit, PushInvStep, PTL DEF Spec

\* Framing: for every header, size of buffers, layout of pouches and partition into
\* chunks, in any interleaving, pouch_downlink_push cuts the pouch where its blocks
\* end, and neither loses nor repeats a byte while blocks fit into buffers.
THEOREM FramingSafe == Spec => []FramingExact
<1>1. PushInv => FramingExact
      BY DEF PushInv, BufferInv, FramingExact, BlocksAreCutAtBoundaries, NoByteLost, Fits
<1> QED BY <1>1, PushInvHolds, PTL

\* The buffer is never overrun.
LEMMA OverrunFree == PushInv => NoOverrun
<1> SUFFICES ASSUME PushInv, hasBuf
             PROVE  lo <= hi /\ hi - lo <= Cap /\ NewHi - lo <= Cap
    BY DEF NoOverrun
<1>1. PushTypes /\ BufferInv
      BY DEF PushInv
<1>2. lo <= hi /\ hi - lo <= Cap
      BY <1>1 DEF BufferInv
<1> QED BY <1>1, <1>2, DownlinkAssumption DEF NewHi, Written, Min2, PushTypes

-----------------------------------------------------------------------------
(* Queues and work items *)

\* A work item holds a block exactly while it works on one.
HandInv ==
    /\ dpc # "crypt" => dbuf = <<>>
    /\ cpc \in {"idle", "check"} => cbuf = <<>>
    /\ cpc \in {"last", "look", "tail", "handle"} => Len(cbuf) = 1

WorkTypes ==
    /\ decryptQ \in Seq(Blocks) /\ consumeQ \in Seq(Blocks) /\ consumed \in Seq(Blocks)
    /\ dbuf \in Seq(Blocks) /\ Len(dbuf) <= 1
    /\ cbuf \in Seq(Blocks) /\ Len(cbuf) <= 1
    /\ dpc \in {"idle", "crypt", "wake"}
    /\ cpc \in {"idle", "last", "look", "tail", "handle", "check"}
    /\ consumeTail \in {"ok", "node", "stray"} /\ lost \in Seq(Blocks)
    /\ bufs \in Int

\* The work items are pending or not.
FlagTypes == decryptWork \in BOOLEAN /\ consumeWork \in BOOLEAN

WorkInv == WorkTypes /\ HandInv

\* The empty queue.
LEMMA EmptyType == <<>> \in Seq(Blocks) /\ Len(<<>>) = 0
BY EmptySeq

\* buf_queue_get: the first block, or NULL, and what stays in the queue.
LEMMA PointerFacts ==
    ASSUME NEW q \in Seq(Blocks)
    PROVE  /\ Pointer(q) \in Seq(Blocks) /\ Rest(q) \in Seq(Blocks)
           /\ Len(Pointer(q)) + Len(Rest(q)) = Len(q)
           /\ Len(Pointer(q)) <= 1
           /\ q # <<>> => Len(Pointer(q)) = 1 /\ Pointer(q) # <<>>
           /\ q = <<>> => Pointer(q) = <<>> /\ Rest(q) = <<>>
           /\ Pointer(q) \o Rest(q) = q
<1>1. CASE q = <<>>
      BY <1>1, EmptyType, ConcatEmptySeq DEF Pointer, Rest
<1>2. CASE q # <<>>
  <2>1. /\ <<Head(q)>> \in Seq(Blocks) /\ Tail(q) \in Seq(Blocks) /\ Len(<<Head(q)>>) = 1
        /\ Len(q) = 1 + Len(Tail(q)) /\ <<Head(q)>> # <<>>
        BY <1>2
  <2>2. <<Head(q)>> \o Tail(q) = q
        BY <1>2
  <2> QED BY <1>2, <2>1, <2>2 DEF Pointer, Rest
<1> QED BY <1>1, <1>2

\* The block that a pass of push cuts.
CutBlock(end) == [pouch |-> pouch, lo |-> NewLo, hi |-> end]

\* A cut block is a block, and joins the decrypt queue: with a new buffer, or with
\* none and the bytes that follow it.
LEMMA CutFacts ==
    ASSUME PushInv, WorkInv, PushCut
    PROVE  \E end \in Nat :
              /\ CutBlock(end) \in Blocks
              /\ decryptQ' = Append(decryptQ, CutBlock(end))
              /\ \/ (hasBuf' = TRUE) /\ bufs' = bufs + 1 /\ end = lo'
                 \/ (hasBuf' = FALSE) /\ bufs' = bufs /\ AllocFails
<1>1. PushTypes /\ ChunkInv /\ BufferInv
      BY DEF PushInv
<1>2. /\ hasBuf /\ left > 0 /\ hi - lo < Cap /\ lo <= hi
      BY <1>1 DEF PushCut, BufferInv
<1>3. NewHi \in Nat /\ NewLo \in Nat /\ pouch \in Nat /\ BlockLen(layout, NewLo) \in Nat
      BY <1>1, <1>2, PassFacts DEF PushTypes
<1>4. lo' \in Nat
      BY <1>3 DEF PushCut
<1>5. \A end \in Nat : CutBlock(end) \in Blocks
      BY <1>3 DEF CutBlock, Blocks
<1>6. \/ /\ (hasBuf' = TRUE) /\ bufs' = bufs + 1 /\ decryptQ' = Append(decryptQ, CutBlock(lo'))
      \/ /\ AllocFails /\ (hasBuf' = FALSE) /\ bufs' = bufs
         /\ decryptQ' = Append(decryptQ, CutBlock(NewHi))
      BY DEF PushCut, CutBlock
<1> QED BY <1>3, <1>4, <1>5, <1>6

\* The transport leaves the work items alone.
LEMMA TransportFrame ==
    ASSUME Transport
    PROVE  UNCHANGED <<consumeQ, consumeTail, consumeWork, dpc, dbuf, cpc, cbuf, consumed, lost>>
BY DEF Transport, Start, Push, PushRefused, PushHeaderRefused, PushStore, PushCut, PushSubmit,
       queueVars, workVars

\* Except for a pass that cuts a block, it leaves the queue alone too; only the
\* start of a pouch and a cut allocate.
LEMMA TransportQueue ==
    ASSUME Transport, ~PushCut
    PROVE  /\ decryptQ' = decryptQ
           /\ Start \/ (bufs' = bufs /\ (hasBuf' = hasBuf))
BY DEF Transport, Start, Push, PushRefused, PushHeaderRefused, PushStore, PushSubmit, queueVars

\* Every step keeps the queues sequences of blocks, and the work items' hands.
LEMMA WorkInvStep ==
    ASSUME PushInv, WorkInv, [Next]_vars
    PROVE  WorkInv'
<1> USE DEF WorkInv
<1>1. CASE Transport
  <2>1. UNCHANGED <<consumeQ, consumeTail, dpc, dbuf, cpc, cbuf, consumed, lost>>
        BY <1>1, TransportFrame
  <2>2. decryptQ' \in Seq(Blocks) /\ bufs' \in Int
    <3>1. CASE PushCut
      <4>1. PICK end \in Nat : /\ CutBlock(end) \in Blocks
                               /\ decryptQ' = Append(decryptQ, CutBlock(end))
                               /\ bufs' = bufs + 1 \/ bufs' = bufs
            BY <3>1, CutFacts
      <4> HIDE DEF CutBlock
      <4> QED BY <4>1 DEF WorkTypes
    <3>2. CASE Start
          BY <3>2 DEF Start, WorkTypes, queueVars
    <3>3. CASE ~PushCut /\ ~Start
          BY <1>1, <3>3, TransportQueue DEF WorkTypes
    <3> QED BY <3>1, <3>2, <3>3
  <2> QED BY <2>1, <2>2 DEF WorkTypes, HandInv
<1>2. CASE DecryptBegin
  <2>1. /\ dbuf' = Pointer(decryptQ) /\ decryptQ' = Rest(decryptQ) /\ dpc' = "crypt"
        /\ UNCHANGED <<consumeQ, consumeTail, cpc, cbuf, consumed, lost, bufs>>
        BY <1>2 DEF DecryptBegin
  <2>2. decryptQ \in Seq(Blocks)
        BY DEF WorkTypes
  <2>3. dbuf' \in Seq(Blocks) /\ Len(dbuf') <= 1 /\ decryptQ' \in Seq(Blocks)
        BY <2>1, <2>2, PointerFacts
  <2> QED BY <2>1, <2>3 DEF WorkTypes, HandInv
<1>3. CASE DecryptFail
      BY <1>3, EmptyType DEF DecryptFail, WorkTypes, HandInv, queueVars
<1>4. CASE DecryptPass
  <2>1. consumeQ \o dbuf \in Seq(Blocks) /\ lost \o dbuf \in Seq(Blocks)
        BY ConcatProperties DEF WorkTypes
  <2>2. consumeQ' \in Seq(Blocks) /\ lost' \in Seq(Blocks) /\ consumeTail' \in {"ok", "node", "stray"}
        BY <1>4, <2>1 DEF DecryptPass, WorkTypes
  <2>3. /\ dbuf' = <<>> /\ dpc' = "wake" /\ UNCHANGED <<decryptQ, cpc, cbuf, consumed, bufs>>
        BY <1>4 DEF DecryptPass
  <2> QED BY <2>2, <2>3, EmptyType DEF WorkTypes, HandInv
<1>5. CASE DecryptWake
      BY <1>5 DEF DecryptWake, WorkTypes, HandInv
<1>6. CASE ConsumeBegin
  <2>1. /\ cbuf' = Pointer(consumeQ) /\ consumeQ' = Rest(consumeQ)
        /\ consumeQ = <<>> => cpc' = "idle"
        /\ consumeQ # <<>> => cpc' \in {"last", "handle"}
        /\ UNCHANGED <<decryptQ, consumeTail, dpc, dbuf, consumed, lost, bufs>>
        BY <1>6 DEF ConsumeBegin
  <2>2. consumeQ \in Seq(Blocks)
        BY DEF WorkTypes
  <2>3. cbuf' \in Seq(Blocks) /\ Len(cbuf') <= 1 /\ consumeQ' \in Seq(Blocks)
        /\ (consumeQ = <<>> => cbuf' = <<>>) /\ (consumeQ # <<>> => Len(cbuf') = 1)
        BY <2>1, <2>2, PointerFacts
  <2> QED BY <2>1, <2>3 DEF WorkTypes, HandInv
<1>7. CASE ConsumeHandle
  <2>1. consumed \o cbuf \in Seq(Blocks)
        BY ConcatProperties DEF WorkTypes
  <2> QED BY <1>7, <2>1, EmptyType DEF ConsumeHandle, WorkTypes, HandInv, queueVars
<1>8. CASE ConsumeCheck
      BY <1>8 DEF ConsumeCheck, WorkTypes, HandInv
<1>9. CASE UNCHANGED vars
      BY <1>9 DEF vars, WorkTypes, HandInv, queueVars, workVars
<1>10. CASE ConsumeUnlink
  <2>1. lost \o consumeQ \in Seq(Blocks)
        BY ConcatProperties DEF WorkTypes
  <2>2. /\ consumeQ' = <<>> /\ lost' = lost \o consumeQ /\ consumeTail' \in {"node", "stray"}
        /\ cpc = "last" /\ cpc' = "look" /\ UNCHANGED <<decryptQ, dpc, dbuf, cbuf, consumed, bufs>>
        BY <1>10 DEF ConsumeUnlink
  <2> QED BY <2>1, <2>2, EmptyType DEF WorkTypes, HandInv
<1>11. CASE ConsumeLook
       BY <1>11 DEF ConsumeLook, WorkTypes, HandInv, queueVars
<1>12. CASE ConsumeTail
       BY <1>12 DEF ConsumeTail, WorkTypes, HandInv
<1> QED BY <1>1, <1>2, <1>3, <1>4, <1>5, <1>6, <1>7, <1>8, <1>9, <1>10, <1>11, <1>12
        DEF Next, Decrypt, Consume

\* The flags of the work items stay flags.
LEMMA FlagStep ==
    ASSUME FlagTypes, [Next]_vars
    PROVE  FlagTypes'
BY DEF FlagTypes, Next, Transport, Start, Push, PushRefused, PushHeaderRefused, PushStore,
       PushCut, PushSubmit,
       Decrypt, DecryptBegin, DecryptFail, DecryptPass, DecryptWake,
       Consume, ConsumeBegin, ConsumeUnlink, ConsumeLook, ConsumeTail, ConsumeHandle,
       ConsumeCheck, queueVars, vars

CoreInv == PushInv /\ WorkInv

\* They hold in every state.
LEMMA CoreInvHolds == Spec => []CoreInv
<1>1. Init => WorkInv
      BY EmptyType DEF Init, WorkInv, WorkTypes, HandInv
<1>2. CoreInv /\ [Next]_vars => CoreInv'
      BY PushInvStep, WorkInvStep DEF CoreInv
<1>3. Init => CoreInv
      BY <1>1, PushInvInit DEF CoreInv
<1> QED BY <1>2, <1>3, PTL DEF Spec

\* Types: for any layouts and sizes every variable keeps its type, and the work
\* items have at most one block each in their hands.
THEOREM TypeCorrect == Spec => []TypeOK
<1>1. Init => FlagTypes
      BY DEF Init, FlagTypes
<1>2. FlagTypes /\ [Next]_vars => FlagTypes'
      BY FlagStep
<1>3. PushInv => layout \in Seq(Nat)
      BY LayoutFacts DEF PushInv, ChunkInv
<1>4. CoreInv /\ FlagTypes => TypeOK
      BY <1>3 DEF CoreInv, PushInv, PushTypes, WorkInv, WorkTypes, FlagTypes, TypeOK
<1> QED BY <1>1, <1>2, <1>4, CoreInvHolds, PTL DEF Spec

-----------------------------------------------------------------------------
(* Work that waits is submitted *)

\* A run of decrypt_blocks that found no block ends without another submit: then a
\* block that came since is about to be submitted, or was.
NullRunInv ==
    dpc = "crypt" /\ dbuf = <<>> /\ decryptQ # <<>> => decryptWork \/ tpc = "submit"

WakeInv == NoLostDecrypt /\ NullRunInv /\ NoLostConsume

\* The steps of the transport: a block that is cut is submitted next.
LEMMA TransportWake ==
    ASSUME WakeInv, Transport
    PROVE  WakeInv'
<1>1. UNCHANGED <<consumeQ, consumeWork, dpc, dbuf, cpc>>
      BY TransportFrame
<1>2. NoLostConsume'
      BY <1>1 DEF WakeInv, NoLostConsume
<1>3. CASE tpc' = "submit"
      BY <1>2, <1>3 DEF WakeInv, NoLostDecrypt, NullRunInv
<1>4. CASE PushSubmit
      BY <1>2, <1>4 DEF PushSubmit, WakeInv, NoLostDecrypt, NullRunInv
<1>5. CASE tpc' # "submit" /\ ~PushSubmit
  <2>1. tpc # "submit" /\ decryptQ' = decryptQ /\ (decryptWork' = decryptWork)
        BY <1>5 DEF Transport, Start, Push, PushRefused, PushHeaderRefused, PushStore, PushCut, queueVars
  <2> QED BY <1>1, <1>2, <2>1 DEF WakeInv, NoLostDecrypt, NullRunInv
<1> QED BY <1>3, <1>4, <1>5

\* The steps of the work queues, when decryption does not fail.
LEMMA WorkWake ==
    ASSUME WorkInv, WakeInv, ~Saead, Decrypt \/ Consume
    PROVE  WakeInv'
<1>1. decryptQ \in Seq(Blocks) /\ consumeQ \in Seq(Blocks)
      BY DEF WorkInv, WorkTypes
<1>2. CASE DecryptBegin
  <2>1. /\ dbuf' = Pointer(decryptQ) /\ decryptQ' = Rest(decryptQ) /\ dpc' = "crypt"
        /\ UNCHANGED <<consumeQ, consumeWork, cpc>> /\ dpc = "idle"
        BY <1>2 DEF DecryptBegin
  <2>2. dbuf' = <<>> => decryptQ' = <<>>
        BY <1>1, <2>1, PointerFacts
  <2> QED BY <2>1, <2>2 DEF WakeInv, NoLostDecrypt, NullRunInv, NoLostConsume
<1>3. CASE DecryptFail
  <2>1. dpc = "crypt" /\ dbuf = <<>> /\ dpc' = "idle" /\ UNCHANGED <<queueVars, tpc, cpc>>
        BY <1>3 DEF DecryptFail, Undecryptable, pushVars
  <2> QED BY <2>1 DEF queueVars, WakeInv, NoLostDecrypt, NullRunInv, NoLostConsume
<1>4. CASE DecryptPass
      BY <1>4 DEF DecryptPass, WakeInv, NoLostDecrypt, NullRunInv, NoLostConsume
<1>5. CASE DecryptWake
  <2>1. /\ consumeWork' /\ (decryptQ # <<>> => decryptWork') /\ dpc' = "idle"
        /\ UNCHANGED decryptQ
        BY <1>5 DEF DecryptWake
  <2> QED BY <2>1 DEF WakeInv, NoLostDecrypt, NullRunInv, NoLostConsume
<1>6. CASE ConsumeBegin
  <2>1. /\ consumeQ' = Rest(consumeQ)
        /\ consumeQ # <<>> => cpc' \in {"last", "handle"}
        /\ UNCHANGED <<decryptQ, decryptWork, dpc, dbuf, tpc>>
        BY <1>6 DEF ConsumeBegin, pushVars
  <2>2. consumeQ = <<>> => consumeQ' = <<>>
        BY <1>1, <2>1, PointerFacts
  <2> QED BY <2>1, <2>2 DEF WakeInv, NoLostDecrypt, NullRunInv, NoLostConsume
<1>7. CASE ConsumeHandle
      BY <1>7 DEF ConsumeHandle, queueVars, pushVars, WakeInv, NoLostDecrypt, NullRunInv,
                  NoLostConsume
<1>8. CASE ConsumeCheck
  <2>1. /\ consumeQ # <<>> => consumeWork'
        /\ UNCHANGED <<consumeQ, decryptQ, decryptWork, dpc, dbuf, tpc>>
        BY <1>8 DEF ConsumeCheck, pushVars
  <2> QED BY <2>1 DEF WakeInv, NoLostDecrypt, NullRunInv, NoLostConsume
<1>9. CASE ConsumeUnlink
      BY <1>9 DEF ConsumeUnlink, pushVars, WakeInv, NoLostDecrypt, NullRunInv, NoLostConsume
<1>10. CASE ConsumeLook
       BY <1>10 DEF ConsumeLook, queueVars, pushVars, WakeInv, NoLostDecrypt, NullRunInv,
                    NoLostConsume
<1>11. CASE ConsumeTail
       BY <1>11 DEF ConsumeTail, pushVars, WakeInv, NoLostDecrypt, NullRunInv, NoLostConsume
<1> QED BY <1>2, <1>3, <1>4, <1>5, <1>6, <1>7, <1>8, <1>9, <1>10, <1>11 DEF Decrypt, Consume

\* Wakeups: however the transport, decrypt_blocks and consume_blocks preempt each
\* other, no block waits for a work item that nobody submits.  With encryption a
\* block that cannot be decrypted ends the run without a submit, so the theorem is
\* about the build without it.
THEOREM WorkSafe ==
    ASSUME ~Saead
    PROVE  Spec => []NoLostWork
<1>1. Init => WakeInv
      BY DEF Init, WakeInv, NoLostDecrypt, NullRunInv, NoLostConsume
<1>2. CoreInv /\ WakeInv /\ [Next]_vars => WakeInv'
  <2> SUFFICES ASSUME CoreInv, WakeInv, [Next]_vars PROVE WakeInv'
      OBVIOUS
  <2>1. CASE UNCHANGED vars
        BY <2>1 DEF vars, pushVars, queueVars, workVars, WakeInv, NoLostDecrypt, NullRunInv,
                    NoLostConsume
  <2> QED BY <2>1, TransportWake, WorkWake DEF Next, CoreInv
<1>3. WakeInv => NoLostWork
      BY DEF WakeInv, NoLostWork
<1> QED BY <1>1, <1>2, <1>3, CoreInvHolds, PTL DEF Spec

-----------------------------------------------------------------------------
(* NULL is never decrypted by cooperative threads *)

\* A submit of decrypt_blocks that is pending, or about to be made, has a block.
SubmitInv ==
    /\ decryptWork \/ tpc = "submit" => decryptQ # <<>>
    /\ DecryptsABlock

\* A work item that was submitted finds its block.
LEMMA SubmitStep ==
    ASSUME Cooperative, CoreInv, SubmitInv, [Next]_vars
    PROVE  SubmitInv'
<1>1. WorkInv /\ PushInv /\ decryptQ \in Seq(Blocks)
      BY DEF CoreInv, WorkInv, WorkTypes
<1>2. CASE Transport
  <2>1. UNCHANGED <<dpc, dbuf>>
        BY <1>2, TransportFrame
  <2>2. CASE PushCut
    <3>1. PICK end \in Nat : decryptQ' = Append(decryptQ, CutBlock(end)) /\ CutBlock(end) \in Blocks
          BY <1>1, <2>2, CutFacts
    <3> HIDE DEF CutBlock
    <3>2. decryptQ' # <<>>
          BY <1>1, <3>1
    <3> QED BY <2>1, <3>2 DEF SubmitInv, DecryptsABlock
  <2>3. CASE ~PushCut
    <3>1. decryptQ' = decryptQ
          BY <1>2, <2>3, TransportQueue
    <3>2. decryptWork' \/ tpc' = "submit" => decryptWork \/ tpc = "submit"
          BY <1>2, <2>3 DEF Transport, Start, Push, PushRefused, PushHeaderRefused, PushStore, PushSubmit, queueVars
    <3> QED BY <2>1, <3>1, <3>2 DEF SubmitInv, DecryptsABlock
  <2> QED BY <2>2, <2>3
<1>3. CASE DecryptBegin
  <2>1. /\ dbuf' = Pointer(decryptQ) /\ ~decryptWork' /\ decryptWork /\ tpc' = tpc
        /\ tpc = "idle"
        BY <1>3 DEF DecryptBegin, DecryptMayRun, TransportBusy, pushVars
  <2>2. decryptQ # <<>>
        BY <2>1 DEF SubmitInv
  <2>3. dbuf' # <<>>
        BY <1>1, <2>1, <2>2, PointerFacts
  <2> QED BY <2>1, <2>3 DEF SubmitInv, DecryptsABlock
<1>4. CASE DecryptFail
      BY <1>4 DEF DecryptFail, SubmitInv, DecryptsABlock, pushVars, queueVars
<1>5. CASE DecryptPass
      BY <1>5 DEF DecryptPass, SubmitInv, DecryptsABlock, pushVars
<1>6. CASE DecryptWake
  <2>1. /\ decryptWork' => decryptWork \/ decryptQ # <<>>
        /\ dpc' = "idle" /\ UNCHANGED <<decryptQ, tpc>>
        BY <1>6 DEF DecryptWake, pushVars
  <2> QED BY <2>1 DEF SubmitInv, DecryptsABlock
<1>7. CASE Consume
      BY <1>7 DEF Consume, ConsumeBegin, ConsumeUnlink, ConsumeLook, ConsumeTail, ConsumeHandle,
                  ConsumeCheck, SubmitInv, DecryptsABlock, pushVars, queueVars
<1>8. CASE UNCHANGED vars
      BY <1>8 DEF vars, pushVars, queueVars, workVars, SubmitInv, DecryptsABlock
<1> QED BY <1>2, <1>3, <1>4, <1>5, <1>6, <1>7, <1>8 DEF Next, Decrypt

\* Accesses: the reassembly buffer is never overrun and decrypt_blocks never handed
\* NULL to the crypto layer, whatever allocations fail and with blocks of any size.
\* The second needs cooperative threads: a preempted push submits what an earlier
\* run has already taken.
THEOREM AccessSafe ==
    ASSUME Cooperative
    PROVE  Spec => []NoInvalidAccess
<1>1. Init => SubmitInv
      BY DEF Init, SubmitInv, DecryptsABlock
<1>2. CoreInv /\ SubmitInv /\ [Next]_vars => SubmitInv'
      BY SubmitStep
<1>3. CoreInv /\ SubmitInv => NoInvalidAccess
      BY OverrunFree DEF CoreInv, SubmitInv, NoInvalidAccess
<1> QED BY <1>1, <1>2, <1>3, CoreInvHolds, PTL DEF Spec

-----------------------------------------------------------------------------
(* Every buffer has an owner *)

Queued == Len(decryptQ) + Len(dbuf) + Len(consumeQ) + Len(cbuf) + Len(lost)
Reassembling == IF hasBuf THEN 1 ELSE 0

\* Buffers without an owner: the ones that the start of a later pouch overwrote.
Leaked == bufs - (Queued + Reassembling)
LeakInv == Leaked = 0 \/ (Leaked >= 1 /\ Leaked <= pouch - 1)

\* The numbers that Leaked is made of.
LEMMA LeakTypes ==
    ASSUME CoreInv
    PROVE  /\ Len(decryptQ) \in Nat /\ Len(dbuf) \in Nat /\ Len(consumeQ) \in Nat
           /\ Len(cbuf) \in Nat /\ Len(lost) \in Nat /\ Queued \in Nat /\ Reassembling \in {0, 1}
           /\ bufs \in Int /\ pouch \in Nat /\ Leaked \in Int
<1>1. /\ Len(decryptQ) \in Nat /\ Len(dbuf) \in Nat /\ Len(consumeQ) \in Nat
      /\ Len(cbuf) \in Nat /\ Len(lost) \in Nat /\ bufs \in Int
      BY DEF CoreInv, WorkInv, WorkTypes
<1>2. pouch \in Nat
      BY DEF CoreInv, PushInv, PushTypes
<1>3. Reassembling \in {0, 1}
      BY DEF Reassembling
<1> QED BY <1>1, <1>2, <1>3 DEF Queued, Leaked

\* How the number of leaked buffers changes.
LEMMA LeakChange ==
    ASSUME bufs \in Int, Queued \in Int, Reassembling \in Int,
           bufs' \in Int, Queued' \in Int, Reassembling' \in Int
    PROVE  /\ bufs' - bufs = (Queued' - Queued) + (Reassembling' - Reassembling)
                 => Leaked' = Leaked
           /\ Queued' = Queued /\ bufs' = bufs + Reassembling'
                 => Leaked' = Leaked + Reassembling
<1> DEFINE q == Queued  r == Reassembling  q1 == Queued'  r1 == Reassembling'
<1>1. /\ q \in Int /\ r \in Int /\ q1 \in Int /\ r1 \in Int
      /\ Leaked = bufs - (q + r) /\ Leaked' = bufs' - (q1 + r1)
      BY DEF Leaked
<1> HIDE DEF q, r, q1, r1
<1>2. /\ bufs' - bufs = (q1 - q) + (r1 - r) => Leaked' = Leaked
      /\ q1 = q /\ bufs' = bufs + r1 => Leaked' = Leaked + r
  <2> DEFINE b == bufs  b1 == bufs'  k == Leaked  k1 == Leaked'
  <2>1. b \in Int /\ b1 \in Int /\ k = b - (q + r) /\ k1 = b1 - (q1 + r1)
        BY <1>1
  <2> HIDE DEF b, b1, k, k1
  <2>2. b1 - b = (q1 - q) + (r1 - r) => k1 = k
        BY <1>1, <2>1
  <2>3. q1 = q /\ b1 = b + r1 => k1 = k + r
        BY <1>1, <2>1
  <2> QED BY <2>2, <2>3 DEF b, b1, k, k1
<1> QED BY <1>2 DEF q, r, q1, r1

\* Nothing is leaked but by the start of a pouch.
LEMMA LeakStep ==
    ASSUME CoreInv, CoreInv', LeakInv, [Next]_vars
    PROVE  LeakInv'
<1>1. WorkInv /\ PushInv
      BY DEF CoreInv
<1>t. /\ Len(decryptQ) \in Nat /\ Len(dbuf) \in Nat /\ Len(consumeQ) \in Nat
      /\ Len(cbuf) \in Nat /\ Len(lost) \in Nat /\ Queued \in Nat /\ Reassembling \in {0, 1}
      /\ bufs \in Int /\ pouch \in Nat /\ Leaked \in Int
      BY LeakTypes
<1>s. /\ decryptQ \in Seq(Blocks) /\ consumeQ \in Seq(Blocks) /\ dbuf \in Seq(Blocks)
      /\ cbuf \in Seq(Blocks) /\ lost \in Seq(Blocks)
      BY <1>1 DEF WorkInv, WorkTypes
<1>7. bufs' \in Int /\ Queued' \in Nat /\ Len(decryptQ') \in Nat /\ Len(dbuf') \in Nat
      /\ Len(consumeQ') \in Nat /\ Len(cbuf') \in Nat /\ Len(lost') \in Nat
  <2>1. WorkTypes'
        BY DEF CoreInv, WorkInv
  <2>2. Len(decryptQ') \in Nat /\ Len(dbuf') \in Nat
        /\ Len(consumeQ') \in Nat /\ Len(cbuf') \in Nat /\ Len(lost') \in Nat /\ bufs' \in Int
        BY <2>1 DEF WorkTypes
  <2> QED BY <2>2 DEF Queued
<1>2. CASE Start
  <2>1. /\ pouch' = pouch + 1 /\ UNCHANGED <<decryptQ, dbuf, consumeQ, cbuf, lost>>
        /\ \/ hasBuf' /\ bufs' = bufs + 1
           \/ ~hasBuf' /\ bufs' = bufs
        BY <1>2 DEF Start, queueVars, workVars
  <2>2. Queued' = Queued /\ bufs' = bufs + Reassembling'
        BY <1>t, <2>1 DEF Queued, Reassembling
  <2>3. Reassembling' \in {0, 1}
        BY DEF Reassembling
  <2>4. Leaked' = Leaked + Reassembling
    <3>1. Reassembling' \in Int /\ Reassembling \in Int /\ Queued' \in Int /\ Queued \in Int
          /\ bufs' \in Int
          BY <1>t, <1>7, <2>3
    <3> QED BY <1>t, <2>2, <3>1, LeakChange
  <2>5. pouch = 0 => Reassembling = 0
        BY <1>1 DEF PushInv, ChunkInv, Reassembling
  <2> QED BY <1>t, <2>1, <2>4, <2>5 DEF LeakInv
<1>3. ASSUME Leaked' = Leaked, pouch' = pouch
      PROVE  LeakInv'
      BY <1>3 DEF LeakInv
<1>4. CASE PushCut
  <2>1. PICK end \in Nat : /\ CutBlock(end) \in Blocks
                           /\ decryptQ' = Append(decryptQ, CutBlock(end))
                           /\ \/ (hasBuf' = TRUE) /\ bufs' = bufs + 1
                              \/ (hasBuf' = FALSE) /\ bufs' = bufs
        BY <1>1, <1>4, CutFacts
  <2> HIDE DEF CutBlock
  <2>2. Len(decryptQ') = Len(decryptQ) + 1
        BY <1>s, <2>1
  <2>3. hasBuf /\ UNCHANGED <<pouch, dbuf, consumeQ, cbuf, lost>>
        BY <1>4 DEF PushCut, workVars
  <2>4. bufs' = bufs + Reassembling' /\ Reassembling = 1 /\ Reassembling' \in {0, 1}
        BY <1>t, <2>1, <2>3 DEF Reassembling
  <2>5. Queued' = Queued + 1
        BY <1>t, <2>2, <2>3 DEF Queued
  <2>6. Reassembling' \in Int /\ Reassembling \in Int /\ Queued' \in Int /\ Queued \in Int
        /\ bufs' \in Int /\ bufs' - bufs = (Queued' - Queued) + (Reassembling' - Reassembling)
        BY <1>t, <1>7, <2>4, <2>5, SMTT(30)
  <2>7. Leaked' = Leaked
        BY <1>t, <2>6, LeakChange
  <2> QED BY <1>3, <2>3, <2>7
<1>5. CASE Transport /\ ~Start /\ ~PushCut
  <2>1. UNCHANGED <<decryptQ, dbuf, consumeQ, cbuf, lost, bufs, hasBuf>>
        BY <1>5, TransportFrame, TransportQueue
  <2>2. pouch' = pouch
        BY <1>5 DEF Transport, Push, PushRefused, PushHeaderRefused, PushStore, PushSubmit
  <2>3. Leaked' = Leaked
        BY <2>1 DEF Leaked, Queued, Reassembling
  <2> QED BY <1>3, <2>2, <2>3
<1>6. ASSUME UNCHANGED <<hasBuf, pouch>>, bufs' - bufs = Queued' - Queued,
             bufs' \in Int, Queued' \in Nat
      PROVE  LeakInv'
  <2>1. Reassembling' = Reassembling
        BY <1>6 DEF Reassembling
  <2>2. Reassembling' \in Int /\ Reassembling \in Int /\ Queued' \in Int /\ Queued \in Int
        /\ bufs' - bufs = (Queued' - Queued) + (Reassembling' - Reassembling)
        BY <1>t, <1>6, <2>1
  <2>3. Leaked' = Leaked
        BY <1>t, <1>6, <2>2, LeakChange
  <2> QED BY <1>3, <1>6, <2>3
<1>8. Decrypt \/ Consume => UNCHANGED <<hasBuf, pouch>>
      BY WorkFrame DEF pushVars
<1>9. CASE DecryptBegin
  <2>1. /\ dbuf' = Pointer(decryptQ) /\ decryptQ' = Rest(decryptQ)
        /\ UNCHANGED <<consumeQ, cbuf, lost, bufs>> /\ dpc = "idle"
        BY <1>9 DEF DecryptBegin
  <2>2. Len(dbuf') + Len(decryptQ') = Len(decryptQ) /\ Len(dbuf) = 0
        BY <1>1, <1>s, <2>1, PointerFacts, EmptyType DEF WorkInv, HandInv
  <2>3. Queued' = Queued
        BY <1>t, <1>7, <2>1, <2>2 DEF Queued
  <2> QED BY <1>6, <1>7, <1>8, <1>9, <1>t, <2>1, <2>3 DEF Decrypt
<1>10. CASE DecryptFail
  <2>1. /\ dbuf' = <<>> /\ UNCHANGED <<decryptQ, consumeQ, cbuf, lost>> /\ bufs' = bufs - Len(dbuf)
        BY <1>10 DEF DecryptFail, queueVars
  <2>2. Queued' = Queued - Len(dbuf)
        BY <1>t, <1>7, <2>1, EmptyType DEF Queued
  <2> QED BY <1>6, <1>7, <1>8, <1>10, <1>t, <2>1, <2>2 DEF Decrypt
<1>11. CASE DecryptPass
  <2>1. /\ dbuf' = <<>> /\ UNCHANGED <<decryptQ, cbuf, bufs>>
        /\ \/ consumeQ' = consumeQ \o dbuf /\ UNCHANGED lost
           \/ lost' = lost \o dbuf /\ UNCHANGED consumeQ
        BY <1>11 DEF DecryptPass
  <2>2. Len(consumeQ') + Len(lost') = Len(consumeQ) + Len(lost) + Len(dbuf)
    <3>1. Len(consumeQ \o dbuf) = Len(consumeQ) + Len(dbuf) /\ Len(lost \o dbuf) = Len(lost) + Len(dbuf)
          BY <1>s, ConcatProperties
    <3>2. CASE consumeQ' = consumeQ \o dbuf /\ UNCHANGED lost
          BY <1>t, <3>1, <3>2
    <3>3. CASE lost' = lost \o dbuf /\ UNCHANGED consumeQ
          BY <1>t, <3>1, <3>3
    <3> QED BY <2>1, <3>2, <3>3
  <2>3. Queued' = Queued
        BY <1>t, <1>7, <2>1, <2>2, EmptyType DEF Queued
  <2> QED BY <1>6, <1>7, <1>8, <1>11, <1>t, <2>1, <2>3 DEF Decrypt
<1>12. CASE DecryptWake
  <2>1. UNCHANGED <<decryptQ, dbuf, consumeQ, cbuf, lost, bufs>>
        BY <1>12 DEF DecryptWake
  <2>2. Queued' = Queued
        BY <2>1 DEF Queued
  <2> QED BY <1>6, <1>7, <1>8, <1>12, <1>t, <2>1, <2>2 DEF Decrypt
<1>13. CASE ConsumeBegin
  <2>1. /\ cbuf' = Pointer(consumeQ) /\ consumeQ' = Rest(consumeQ)
        /\ UNCHANGED <<decryptQ, dbuf, lost, bufs>> /\ cpc = "idle"
        BY <1>13 DEF ConsumeBegin
  <2>2. Len(cbuf') + Len(consumeQ') = Len(consumeQ) /\ Len(cbuf) = 0
        BY <1>1, <1>s, <2>1, PointerFacts, EmptyType DEF WorkInv, HandInv
  <2>3. Queued' = Queued
        BY <1>t, <1>7, <2>1, <2>2 DEF Queued
  <2> QED BY <1>6, <1>7, <1>8, <1>13, <1>t, <2>1, <2>3 DEF Consume
<1>14. CASE ConsumeHandle
  <2>1. /\ cbuf' = <<>> /\ bufs' = bufs - 1 /\ UNCHANGED <<decryptQ, dbuf, consumeQ, lost>>
        /\ Len(cbuf) = 1
        BY <1>1, <1>14 DEF ConsumeHandle, queueVars, WorkInv, HandInv
  <2>2. Queued' = Queued - 1
        BY <1>t, <1>7, <2>1, EmptyType DEF Queued
  <2> QED BY <1>6, <1>7, <1>8, <1>14, <1>t, <2>1, <2>2 DEF Consume
<1>15. CASE ConsumeCheck
  <2>1. UNCHANGED <<decryptQ, dbuf, consumeQ, cbuf, lost, bufs>>
        BY <1>15 DEF ConsumeCheck
  <2>2. Queued' = Queued
        BY <2>1 DEF Queued
  <2> QED BY <1>6, <1>7, <1>8, <1>15, <1>t, <2>1, <2>2 DEF Consume
<1>16. CASE UNCHANGED vars
  <2>1. UNCHANGED <<decryptQ, dbuf, consumeQ, cbuf, lost, bufs, hasBuf, pouch>>
        BY <1>16 DEF vars, pushVars, queueVars, workVars
  <2> QED BY <1>3, <2>1 DEF Leaked, Queued, Reassembling
<1>17. CASE ConsumeUnlink
  <2>1. /\ consumeQ' = <<>> /\ lost' = lost \o consumeQ /\ UNCHANGED <<decryptQ, dbuf, cbuf, bufs>>
        BY <1>17 DEF ConsumeUnlink
  <2>2. Len(lost') = Len(lost) + Len(consumeQ)
        BY <1>s, <2>1, ConcatProperties
  <2>3. Queued' = Queued
        BY <1>t, <1>7, <2>1, <2>2, EmptyType DEF Queued
  <2> QED BY <1>6, <1>7, <1>8, <1>17, <1>t, <2>1, <2>3 DEF Consume
<1>18. CASE ConsumeLook \/ ConsumeTail
  <2>1. UNCHANGED <<decryptQ, dbuf, consumeQ, cbuf, lost, bufs>>
        BY <1>18 DEF ConsumeLook, ConsumeTail, queueVars
  <2>2. Queued' = Queued
        BY <2>1 DEF Queued
  <2> QED BY <1>6, <1>7, <1>8, <1>18, <1>t, <2>1, <2>2 DEF Consume
<1> QED BY <1>2, <1>4, <1>5, <1>9, <1>10, <1>11, <1>12, <1>13, <1>14, <1>15, <1>16, <1>17, <1>18
        DEF Next, Decrypt, Consume

\* Buffers: every buffer that the downlink allocated is queued, in the hands of a
\* work item, the reassembly buffer or out of reach in the torn list, whatever fails;
\* only a pouch that starts forgets one, the reassembly buffer of the pouch before.
THEOREM BuffersSafe == Spec => []BuffersAccounted
<1>1. Init => LeakInv
  <2> SUFFICES ASSUME Init PROVE Leaked = 0
      BY DEF LeakInv
  <2>1. decryptQ = <<>> /\ dbuf = <<>> /\ consumeQ = <<>> /\ cbuf = <<>> /\ lost = <<>>
        /\ bufs = 0 /\ ~hasBuf
        BY DEF Init
  <2>2. Queued = 0 /\ Reassembling = 0
        BY <2>1, EmptyType DEF Queued, Reassembling
  <2> QED BY <2>1, <2>2 DEF Leaked
<1>2. CoreInv /\ CoreInv' /\ LeakInv /\ [Next]_vars => LeakInv'
      BY LeakStep
<1>3. CoreInv /\ LeakInv => BuffersAccounted
  <2> SUFFICES ASSUME CoreInv, LeakInv PROVE BuffersAccounted
      OBVIOUS
  <2> DEFINE owned == Queued + Reassembling
  <2>1. owned \in Nat /\ bufs \in Int /\ pouch \in Nat
        BY LeakTypes
  <2>2. bufs - owned = 0 \/ (bufs - owned >= 1 /\ bufs - owned <= pouch - 1)
        BY DEF LeakInv, Leaked
  <2>3. bufs = owned \/ bufs - owned \in 1 .. pouch - 1
    <3> HIDE DEF owned
    <3> QED BY <2>1, <2>2
  <2> QED BY <2>3 DEF BuffersAccounted, Queued, Reassembling
<1> QED BY <1>1, <1>2, <1>3, CoreInvHolds, PTL DEF Spec

-----------------------------------------------------------------------------
(* Blocks are handed over in the order in which they arrived *)

Precedes(a, b) == a.pouch < b.pouch \/ (a.pouch = b.pouch /\ a.hi <= b.lo)
Ordered(s) == \A i, j \in DOMAIN s : i < j => Precedes(s[i], s[j])

\* Every block in flight is of an earlier pouch, or before the buffer of this one.
Passed(b, p, reassembling, start) ==
    b.pouch < p \/ (b.pouch = p /\ (reassembling => b.hi <= start))
ArrivedInv == \A i \in DOMAIN InFlight : Passed(InFlight[i], pouch, hasBuf, lo)

\* The blocks of two sequences that are joined.
LEMMA ConcatFacts ==
    ASSUME NEW s \in Seq(Blocks), NEW t \in Seq(Blocks)
    PROVE  /\ s \o t \in Seq(Blocks) /\ Len(s \o t) = Len(s) + Len(t)
           /\ \A i \in 1 .. Len(s) + Len(t) :
                 (s \o t)[i] = IF i <= Len(s) THEN s[i] ELSE t[i - Len(s)]
BY ConcatProperties

\* What is left of an ordered sequence when a part of it is dropped is ordered, and
\* has no other blocks.
LEMMA DropPart ==
    ASSUME NEW s \in Seq(Blocks), NEW t \in Seq(Blocks), NEW u \in Seq(Blocks),
           Ordered((s \o t) \o u)
    PROVE  /\ Ordered(s \o u)
           /\ \A i \in DOMAIN (s \o u) : \E j \in DOMAIN ((s \o t) \o u) :
                  (s \o u)[i] = ((s \o t) \o u)[j]
<1> DEFINE whole == (s \o t) \o u
           part == s \o u
           at(i) == IF i <= Len(s) THEN i ELSE i + Len(t)
<1>0. Len(s) \in Nat /\ Len(t) \in Nat /\ Len(u) \in Nat
      OBVIOUS
<1>1. /\ s \o t \in Seq(Blocks) /\ Len(s \o t) = Len(s) + Len(t)
      /\ \A i \in 1 .. Len(s) + Len(t) :
            (s \o t)[i] = IF i <= Len(s) THEN s[i] ELSE t[i - Len(s)]
      BY ConcatProperties
<1>2. /\ part \in Seq(Blocks) /\ Len(part) = Len(s) + Len(u)
      /\ \A i \in 1 .. Len(s) + Len(u) : part[i] = IF i <= Len(s) THEN s[i] ELSE u[i - Len(s)]
      BY ConcatProperties
<1> DEFINE st == s \o t
<1>3. st \in Seq(Blocks) /\ Len(st) = Len(s) + Len(t)
      BY <1>1
<1> HIDE DEF st
<1>4. /\ st \o u \in Seq(Blocks) /\ Len(st \o u) = Len(st) + Len(u)
      /\ \A i \in 1 .. Len(st) + Len(u) :
            (st \o u)[i] = IF i <= Len(st) THEN st[i] ELSE u[i - Len(st)]
      BY <1>3, ConcatFacts
<1>5. whole = st \o u
      BY DEF st
<1> HIDE DEF whole, part
<1>6. DOMAIN part = 1 .. Len(s) + Len(u) /\ DOMAIN whole = 1 .. Len(s) + Len(t) + Len(u)
      BY <1>0, <1>2, <1>3, <1>4, <1>5
<1>7. ASSUME NEW i \in 1 .. Len(s) + Len(u)
      PROVE  at(i) \in 1 .. Len(s) + Len(t) + Len(u) /\ part[i] = whole[at(i)]
  <2>1. CASE i <= Len(s)
    <3>1. i \in 1 .. Len(st) + Len(u) /\ i <= Len(st) /\ i \in 1 .. Len(s) + Len(t)
          BY <1>0, <1>3, <2>1
    <3>2. whole[i] = st[i] /\ st[i] = s[i]
          BY <1>1, <1>4, <1>5, <2>1, <3>1 DEF st
    <3> QED BY <1>0, <1>2, <2>1, <3>2
  <2>2. CASE ~(i <= Len(s))
    <3> DEFINE j == i + Len(t)
    <3>1. j \in 1 .. Len(st) + Len(u) /\ ~(j <= Len(st)) /\ j - Len(st) = i - Len(s)
          BY <1>0, <1>3, <2>2
    <3> HIDE DEF j
    <3>2. whole[j] = u[i - Len(s)]
          BY <1>4, <1>5, <3>1
    <3>3. part[i] = u[i - Len(s)]
          BY <1>2, <2>2
    <3> QED BY <1>0, <2>2, <3>2, <3>3 DEF j
  <2> QED BY <2>1, <2>2
<1>8. \A i, j \in 1 .. Len(s) + Len(u) : i < j => at(i) < at(j)
      BY <1>0
<1> HIDE DEF at
<1>9. Ordered(whole)
      BY DEF whole
<1>10. Ordered(part)
       BY <1>6, <1>7, <1>8, <1>9 DEF Ordered
<1>11. \A i \in DOMAIN part : \E j \in DOMAIN whole : part[i] = whole[j]
       BY <1>6, <1>7
<1> QED BY <1>10, <1>11 DEF part, whole

\* A block that comes after all others keeps the order.
LEMMA AppendOrdered ==
    ASSUME NEW s \in Seq(Blocks), NEW b \in Blocks, Ordered(s),
           \A i \in DOMAIN s : Precedes(s[i], b)
    PROVE  Ordered(Append(s, b))
<1> DEFINE t == Append(s, b)
<1>1. /\ DOMAIN s = 1 .. Len(s) /\ Len(s) \in Nat
      /\ DOMAIN t = 1 .. Len(s) + 1 /\ t[Len(s) + 1] = b
      /\ \A i \in 1 .. Len(s) : t[i] = s[i]
      OBVIOUS
<1> HIDE DEF t
<1>2. ASSUME NEW i \in DOMAIN t, NEW j \in DOMAIN t, i < j
      PROVE  Precedes(t[i], t[j])
  <2>1. i \in 1 .. Len(s) /\ t[i] = s[i]
        BY <1>1, <1>2
  <2>2. CASE j \in 1 .. Len(s)
        BY <1>1, <1>2, <2>1, <2>2 DEF Ordered
  <2>3. CASE j = Len(s) + 1
        BY <1>1, <2>1, <2>3
  <2> QED BY <1>1, <2>2, <2>3
<1>3. Ordered(t)
      BY <1>2 DEF Ordered
<1> QED BY <1>3 DEF t

\* Concatenation of queues of blocks.
LEMMA ConcatAssoc ==
    ASSUME NEW s \in Seq(Blocks), NEW t \in Seq(Blocks), NEW u \in Seq(Blocks)
    PROVE  (s \o t) \o u = s \o (t \o u)
BY ConcatAssociative

\* A queue and the hand that takes its first block, or an empty hand.
LEMMA TakeFirst ==
    ASSUME NEW a \in Seq(Blocks), NEW q \in Seq(Blocks)
    PROVE  (a \o <<>>) \o q = (a \o Pointer(q)) \o Rest(q)
<1> DEFINE p == Pointer(q)
           r == Rest(q)
<1>1. p \in Seq(Blocks) /\ r \in Seq(Blocks) /\ p \o r = q
      BY PointerFacts
<1> HIDE DEF p, r
<1>2. (a \o p) \o r = a \o (p \o r)
      BY <1>1, ConcatAssoc
<1>3. a \o <<>> = a
      BY ConcatEmptySeq
<1> QED BY <1>1, <1>2, <1>3 DEF p, r

\* A hand that puts its block at the end of the queue.
LEMMA PutLast ==
    ASSUME NEW a \in Seq(Blocks), NEW q \in Seq(Blocks), NEW h \in Seq(Blocks)
    PROVE  (a \o (q \o h)) \o <<>> = (a \o q) \o h
<1>1. (a \o q) \o h = a \o (q \o h)
      BY ConcatAssociative
<1> DEFINE w == a \o q
<1>2. w \in Seq(Blocks)
      BY ConcatFacts
<1> HIDE DEF w
<1>3. w \o h \in Seq(Blocks)
      BY <1>2, ConcatFacts
<1> DEFINE v == w \o h
<1>4. v \in Seq(Blocks)
      BY <1>3
<1> HIDE DEF v
<1>5. v \o <<>> = v
      BY <1>4, ConcatEmptySeq
<1> QED BY <1>1, <1>5 DEF v, w

\* The blocks on the far side of decrypt_blocks.
Decrypted == (consumed \o cbuf) \o consumeQ

\* What is in flight is a sequence of blocks.
LEMMA FlightTypes ==
    ASSUME WorkTypes
    PROVE  /\ consumed \o cbuf \in Seq(Blocks) /\ Decrypted \in Seq(Blocks)
           /\ Decrypted \o dbuf \in Seq(Blocks) /\ InFlight \in Seq(Blocks)
           /\ InFlight = (Decrypted \o dbuf) \o decryptQ
<1>1. consumed \o cbuf \in Seq(Blocks)
      BY ConcatFacts DEF WorkTypes
<1> DEFINE a == consumed \o cbuf
<1>2. a \in Seq(Blocks) /\ Decrypted = a \o consumeQ
      BY <1>1 DEF Decrypted
<1> HIDE DEF a
<1>3. Decrypted \in Seq(Blocks)
      BY <1>2, ConcatFacts DEF WorkTypes
<1>4. Decrypted \o dbuf \in Seq(Blocks)
      BY <1>3, ConcatFacts DEF WorkTypes
<1> DEFINE b == Decrypted \o dbuf
<1>5. b \in Seq(Blocks) /\ InFlight = b \o decryptQ
      BY <1>4 DEF InFlight, Decrypted
<1> HIDE DEF b
<1>6. InFlight \in Seq(Blocks)
      BY <1>5, ConcatFacts DEF WorkTypes
<1> QED BY <1>1, <1>3, <1>4, <1>5, <1>6 DEF b

\* The work items pass blocks on in order: unless a block falls out of the list, what
\* is in flight stays the same.
LEMMA PassedOn ==
    ASSUME WorkInv, DecryptBegin \/ DecryptPass \/ DecryptWake \/ Consume,
           lost' = lost, ~ConsumeUnlink
    PROVE  InFlight' = InFlight
<1>1. /\ consumed \in Seq(Blocks) /\ cbuf \in Seq(Blocks) /\ consumeQ \in Seq(Blocks)
      /\ dbuf \in Seq(Blocks) /\ decryptQ \in Seq(Blocks) /\ WorkTypes /\ HandInv
      BY DEF WorkInv, WorkTypes
<1>2. consumed \o cbuf \in Seq(Blocks) /\ Decrypted \in Seq(Blocks)
      BY <1>1, FlightTypes
<1>3. InFlight = (Decrypted \o dbuf) \o decryptQ
      BY DEF InFlight, Decrypted
<1>4. InFlight' = (Decrypted' \o dbuf') \o decryptQ'
      BY DEF InFlight, Decrypted
<1>5. CASE DecryptBegin
  <2>1. /\ dbuf' = Pointer(decryptQ) /\ decryptQ' = Rest(decryptQ) /\ dbuf = <<>>
        /\ UNCHANGED <<consumed, cbuf, consumeQ>>
        BY <1>1, <1>5 DEF DecryptBegin, HandInv
  <2>2. Decrypted' = Decrypted
        BY <2>1 DEF Decrypted
  <2>3. (Decrypted \o <<>>) \o decryptQ = (Decrypted \o Pointer(decryptQ)) \o Rest(decryptQ)
        BY <1>1, <1>2, TakeFirst
  <2> QED BY <1>3, <1>4, <2>1, <2>2, <2>3
<1>6. CASE DecryptPass
  <2>0. /\ dbuf' = <<>> /\ UNCHANGED <<consumed, cbuf, decryptQ>>
        /\ \/ consumeQ' = consumeQ \o dbuf
           \/ lost' = lost \o dbuf /\ consumeQ' = consumeQ
        BY <1>6 DEF DecryptPass
  <2>1. /\ consumeQ' = consumeQ \o dbuf /\ dbuf' = <<>>
        /\ UNCHANGED <<consumed, cbuf, decryptQ>>
    <3>1. CASE lost' = lost \o dbuf /\ consumeQ' = consumeQ
      <4>1. lost \in Seq(Blocks) /\ Len(lost) = Len(lost) + Len(dbuf)
            BY <1>1, <3>1, ConcatProperties DEF WorkTypes
      <4>2. dbuf = <<>>
            BY <1>1, <4>1, EmptySeq
      <4> QED BY <1>1, <2>0, <3>1, <4>2, ConcatEmptySeq
    <3> QED BY <2>0, <3>1
  <2> DEFINE a == consumed \o cbuf
  <2>2. a \in Seq(Blocks) /\ Decrypted = a \o consumeQ
        BY <1>2 DEF Decrypted
  <2>3. Decrypted' = a \o (consumeQ \o dbuf)
        BY <2>1 DEF Decrypted
  <2> HIDE DEF a
  <2>4. (a \o (consumeQ \o dbuf)) \o <<>> = (a \o consumeQ) \o dbuf
        BY <1>1, <2>2, PutLast
  <2> QED BY <1>3, <1>4, <2>1, <2>2, <2>3, <2>4
<1>7. CASE DecryptWake
      BY <1>7 DEF DecryptWake, InFlight
<1>8. CASE ConsumeBegin
  <2>1. /\ cbuf' = Pointer(consumeQ) /\ consumeQ' = Rest(consumeQ) /\ cbuf = <<>>
        /\ UNCHANGED <<consumed, dbuf, decryptQ>>
        BY <1>1, <1>8 DEF ConsumeBegin, HandInv
  <2>2. (consumed \o <<>>) \o consumeQ = (consumed \o Pointer(consumeQ)) \o Rest(consumeQ)
        BY <1>1, TakeFirst
  <2>3. Decrypted' = Decrypted
        BY <2>1, <2>2 DEF Decrypted
  <2> QED BY <1>3, <1>4, <2>1, <2>3
<1>9. CASE ConsumeHandle
  <2>1. /\ consumed' = consumed \o cbuf /\ cbuf' = <<>>
        /\ UNCHANGED <<consumeQ, dbuf, decryptQ>>
        BY <1>9 DEF ConsumeHandle, queueVars
  <2> DEFINE a == consumed \o cbuf
  <2>2. a \in Seq(Blocks)
        BY <1>2
  <2> HIDE DEF a
  <2>3. a \o <<>> = a
        BY <2>2, ConcatEmptySeq
  <2>4. Decrypted' = Decrypted
        BY <2>1, <2>3 DEF Decrypted, a
  <2> QED BY <1>3, <1>4, <2>1, <2>4
<1>10. CASE ConsumeCheck \/ ConsumeLook \/ ConsumeTail
       BY <1>10 DEF ConsumeCheck, ConsumeLook, ConsumeTail, queueVars, InFlight
<1> QED BY <1>5, <1>6, <1>7, <1>8, <1>9, <1>10 DEF Consume

OrderInv == Ordered(InFlight) /\ ArrivedInv

\* A cut appends the block to what is in flight.
LEMMA CutAppends ==
    ASSUME WorkTypes, NEW b \in Blocks, decryptQ' = Append(decryptQ, b),
           UNCHANGED <<consumed, cbuf, consumeQ, dbuf>>
    PROVE  InFlight' = Append(InFlight, b)
<1> DEFINE f == Decrypted \o dbuf
<1>1. f \in Seq(Blocks) /\ InFlight = f \o decryptQ /\ decryptQ \in Seq(Blocks)
      /\ InFlight \in Seq(Blocks) /\ <<b>> \in Seq(Blocks)
      BY FlightTypes DEF WorkTypes
<1>2. InFlight' = f \o decryptQ'
      BY DEF InFlight, Decrypted
<1> HIDE DEF f
<1>3. decryptQ' = decryptQ \o <<b>> /\ Append(InFlight, b) = InFlight \o <<b>>
      BY <1>1, AppendIsConcat
<1>4. (f \o decryptQ) \o <<b>> = f \o (decryptQ \o <<b>>)
      BY <1>1, ConcatAssociative
<1> QED BY <1>1, <1>2, <1>3, <1>4

\* The steps of the transport that cut no block.
LEMMA TransportOrder ==
    ASSUME CoreInv, OrderInv, Transport, ~PushCut
    PROVE  OrderInv'
<1>1. PushTypes /\ BufferInv /\ WorkTypes /\ ChunkInv
      BY DEF CoreInv, PushInv, WorkInv
<1>2. InFlight' = InFlight
      BY TransportFrame, TransportQueue DEF InFlight
<1>3. InFlight \in Seq(Blocks)
      BY <1>1, FlightTypes
<1>4. ASSUME NEW b \in Blocks, Passed(b, pouch, hasBuf, lo)
      PROVE  Passed(b, pouch', hasBuf', lo')
  <2>1. b.pouch \in Nat /\ b.hi \in Nat
        BY <1>4 DEF Blocks
  <2>2. CASE Start
    <3>1. pouch' = pouch + 1 /\ pouch \in Nat
          BY <1>1, <2>2 DEF Start, PushTypes
    <3> QED BY <1>4, <2>1, <3>1 DEF Passed
  <2>3. CASE PushStore
    <3>1. pouch' = pouch /\ (hasBuf' = hasBuf) /\ hasBuf /\ left > 0 /\ hi - lo < Cap
          /\ (lo' = NewLo \/ lo' = lo)
          BY <2>3 DEF PushStore
    <3>2. lo' >= lo /\ lo' \in Nat /\ lo \in Nat
          BY <1>1, <3>1, PassFacts DEF PushTypes, BufferInv
    <3> QED BY <1>4, <2>1, <3>1, <3>2 DEF Passed
  <2>4. CASE ~Start /\ ~PushStore
    <3>1. UNCHANGED <<pouch, hasBuf, lo>>
          BY <2>4 DEF Transport, Push, PushRefused, PushHeaderRefused, PushSubmit
    <3> QED BY <1>4, <3>1 DEF Passed
  <2> QED BY <2>2, <2>3, <2>4
<1>5. \A i \in DOMAIN InFlight : InFlight[i] \in Blocks
      BY <1>3
<1>6. \A i \in DOMAIN InFlight : Passed(InFlight[i], pouch, hasBuf, lo)
      BY DEF OrderInv, ArrivedInv
<1> DEFINE f == InFlight
<1>7. \A i \in DOMAIN f : f[i] \in Blocks /\ Passed(f[i], pouch, hasBuf, lo)
      BY <1>5, <1>6
<1>8. InFlight' = f
      BY <1>2
<1> HIDE DEF f
<1>9. \A i \in DOMAIN f : Passed(f[i], pouch', hasBuf', lo')
      BY <1>4, <1>7
<1> QED BY <1>8, <1>9 DEF OrderInv, ArrivedInv, f, Ordered

\* A block that is cut comes after all that are in flight.
LEMMA CutOrder ==
    ASSUME CoreInv, OrderInv, PushCut
    PROVE  OrderInv'
<1>1. PushTypes /\ BufferInv /\ WorkTypes /\ ChunkInv /\ PushInv /\ WorkInv
      BY DEF CoreInv, PushInv, WorkInv
<1>2. PICK end \in Nat : /\ CutBlock(end) \in Blocks
                         /\ decryptQ' = Append(decryptQ, CutBlock(end))
                         /\ \/ (hasBuf' = TRUE) /\ end = lo'
                            \/ hasBuf' = FALSE
      BY <1>1, CutFacts
<1> DEFINE b == CutBlock(end)
           f == InFlight
<1>3. b \in Blocks /\ b.pouch = pouch /\ b.lo = NewLo /\ b.hi = end
      BY <1>2 DEF CutBlock
<1>4. decryptQ' = Append(decryptQ, b) /\ UNCHANGED <<consumed, cbuf, consumeQ, dbuf>>
      BY <1>2 DEF PushCut, workVars
<1> HIDE DEF b
<1>5. InFlight' = Append(f, b) /\ f \in Seq(Blocks)
      BY <1>1, <1>3, <1>4, CutAppends, FlightTypes
<1>6. Ordered(f) /\ \A i \in DOMAIN f : Passed(f[i], pouch, hasBuf, lo)
      BY DEF OrderInv, ArrivedInv
<1> HIDE DEF f
<1>7. /\ hasBuf /\ pouch' = pouch /\ lo' = NewLo + BlockLen(layout, NewLo)
      /\ left > 0 /\ hi - lo < Cap
      BY DEF PushCut
<1>8. /\ NewLo \in Nat /\ lo <= NewLo /\ lo \in Nat /\ lo' \in Nat /\ NewLo <= lo'
      /\ pouch \in Nat
      BY <1>1, <1>7, PassFacts DEF PushTypes, BufferInv
<1>9. ASSUME NEW i \in DOMAIN f
      PROVE  Precedes(f[i], b) /\ Passed(f[i], pouch', hasBuf', lo')
  <2>1. f[i] \in Blocks /\ Passed(f[i], pouch, hasBuf, lo)
        BY <1>5, <1>6
  <2> DEFINE c == f[i]
  <2>2. c.pouch \in Nat /\ c.hi \in Nat
        BY <2>1 DEF Blocks
  <2>3. c.pouch < pouch \/ (c.pouch = pouch /\ c.hi <= lo)
        BY <1>7, <2>1 DEF Passed
  <2> HIDE DEF c
  <2>4. c.pouch < pouch \/ (c.pouch = pouch /\ c.hi <= NewLo /\ c.hi <= lo')
        BY <1>8, <2>2, <2>3
  <2> QED BY <1>3, <1>7, <2>4 DEF c, Precedes, Passed
<1>10. Ordered(Append(f, b))
       BY <1>3, <1>5, <1>6, <1>9, AppendOrdered
<1>11. Passed(b, pouch', hasBuf', lo')
       BY <1>2, <1>3, <1>7, <1>8 DEF Passed
<1> DEFINE g == Append(f, b)
<1>12. \A i \in DOMAIN g : g[i] = b \/ (i \in DOMAIN f /\ g[i] = f[i])
       BY <1>3, <1>5
<1> HIDE DEF g
<1>13. \A i \in DOMAIN g : Passed(g[i], pouch', hasBuf', lo')
       BY <1>9, <1>11, <1>12
<1> QED BY <1>5, <1>10, <1>13 DEF OrderInv, ArrivedInv, Ordered, g

\* A block in the hands of decrypt_blocks that cannot be decrypted, or that falls out of
\* the list, is dropped out of the middle.
LEMMA FailOrder ==
    ASSUME CoreInv, OrderInv, Decrypt, dbuf' = <<>>,
           UNCHANGED <<consumed, cbuf, consumeQ, decryptQ>>
    PROVE  OrderInv'
<1>1. WorkTypes /\ decryptQ \in Seq(Blocks) /\ dbuf \in Seq(Blocks)
      BY DEF CoreInv, WorkInv, WorkTypes
<1>2. Decrypted \in Seq(Blocks) /\ InFlight = (Decrypted \o dbuf) \o decryptQ
      BY <1>1, FlightTypes
<1>3. dbuf' = <<>> /\ UNCHANGED <<consumed, cbuf, consumeQ, decryptQ, pouch, hasBuf, lo>>
      BY WorkFrame DEF pushVars
<1> DEFINE a == Decrypted
           f == InFlight
           g == Decrypted \o decryptQ
<1>4. a \in Seq(Blocks) /\ InFlight' = (a \o <<>>) \o decryptQ
      BY <1>2, <1>3 DEF InFlight, Decrypted
<1>5. a \o <<>> = a
  <2> HIDE DEF a
  <2> QED BY <1>4, ConcatEmptySeq
<1>6. InFlight' = g
      BY <1>4, <1>5
<1>7. Ordered(f) /\ \A i \in DOMAIN f : Passed(f[i], pouch, hasBuf, lo)
      BY DEF OrderInv, ArrivedInv
<1>8. Ordered(g) /\ \A i \in DOMAIN g : \E j \in DOMAIN f : g[i] = f[j]
      BY <1>1, <1>2, <1>7, DropPart
<1> HIDE DEF f, g
<1>9. \A i \in DOMAIN g : Passed(g[i], pouch, hasBuf, lo)
      BY <1>7, <1>8
<1> QED BY <1>3, <1>6, <1>8, <1>9 DEF OrderInv, ArrivedInv, Ordered

\* The blocks that were appended while buf_queue_get took the last one are dropped.
LEMMA UnlinkOrder ==
    ASSUME CoreInv, OrderInv, ConsumeUnlink
    PROVE  OrderInv'
<1> DEFINE a == consumed \o cbuf
           q == consumeQ
           d == dbuf
           z == decryptQ
           f == InFlight
           g == a \o (d \o z)
<1>1. WorkTypes /\ q \in Seq(Blocks) /\ d \in Seq(Blocks) /\ z \in Seq(Blocks)
      BY DEF CoreInv, WorkInv, WorkTypes
<1>2. a \in Seq(Blocks)
      BY <1>1, FlightTypes
<1>3. consumeQ' = <<>> /\ UNCHANGED <<consumed, cbuf, dbuf, decryptQ, pouch, hasBuf, lo>>
      BY DEF ConsumeUnlink, pushVars
<1>4. f = ((a \o q) \o d) \o z
      BY DEF InFlight
<1>5. InFlight' = ((a \o <<>>) \o d) \o z
      BY <1>3 DEF InFlight
<1>6. Ordered(f) /\ \A i \in DOMAIN f : Passed(f[i], pouch, hasBuf, lo)
      BY DEF OrderInv, ArrivedInv
<1> HIDE DEF a, q, d, z, f
<1>7. a \o <<>> = a
      BY <1>2, ConcatEmptySeq
<1>8. InFlight' = g
      BY <1>1, <1>2, <1>5, <1>7, ConcatAssoc
<1>9. f = (a \o q) \o (d \o z)
  <2> DEFINE aq == a \o q
  <2>1. aq \in Seq(Blocks)
        BY <1>1, <1>2, ConcatFacts
  <2> HIDE DEF aq
  <2>2. (aq \o d) \o z = aq \o (d \o z)
        BY <1>1, <2>1, ConcatAssoc
  <2> QED BY <1>4, <2>2 DEF aq
<1>10. d \o z \in Seq(Blocks)
       BY <1>1, ConcatFacts
<1>11. Ordered(g) /\ \A i \in DOMAIN g : \E j \in DOMAIN f : g[i] = f[j]
  <2> DEFINE u == d \o z
  <2>1. u \in Seq(Blocks) /\ f = (a \o q) \o u /\ g = a \o u
        BY <1>9, <1>10
  <2> HIDE DEF u
  <2>2. Ordered((a \o q) \o u)
        BY <1>6, <2>1 DEF Ordered
  <2>3. /\ Ordered(a \o u)
        /\ \A i \in DOMAIN (a \o u) : \E j \in DOMAIN ((a \o q) \o u) :
               (a \o u)[i] = ((a \o q) \o u)[j]
        BY <1>1, <1>2, <2>1, <2>2, DropPart
  <2> QED BY <2>1, <2>3
<1> HIDE DEF g
<1>12. \A i \in DOMAIN g : Passed(g[i], pouch, hasBuf, lo)
       BY <1>6, <1>11
<1> QED BY <1>3, <1>8, <1>11, <1>12 DEF OrderInv, ArrivedInv, Ordered

\* Order: the application gets the blocks of the pouches in the order in which they
\* arrived, each at most once, whatever decryption or allocation fails and however
\* the threads preempt each other.
THEOREM OrderSafe == Spec => []BlocksInOrder
<1>1. Init => OrderInv
  <2> SUFFICES ASSUME Init PROVE OrderInv
      OBVIOUS
  <2>1. /\ consumed = <<>> /\ cbuf = <<>> /\ consumeQ = <<>> /\ dbuf = <<>>
        /\ decryptQ = <<>>
        BY DEF Init
  <2>2. <<>> \o <<>> = <<>>
        BY EmptyType, ConcatEmptySeq
  <2>3. InFlight = <<>>
        BY <2>1, <2>2 DEF InFlight
  <2> QED BY <2>3 DEF OrderInv, Ordered, ArrivedInv
<1>2. CoreInv /\ OrderInv /\ [Next]_vars => OrderInv'
  <2> SUFFICES ASSUME CoreInv, OrderInv, [Next]_vars PROVE OrderInv'
      OBVIOUS
  <2>1. ASSUME InFlight' = InFlight, UNCHANGED pushVars PROVE OrderInv'
        BY <2>1 DEF pushVars, OrderInv, ArrivedInv, Ordered
  <2>2. CASE /\ DecryptBegin \/ DecryptPass \/ DecryptWake \/ Consume
             /\ lost' = lost /\ ~ConsumeUnlink
        BY <2>1, <2>2, PassedOn, WorkFrame DEF CoreInv, Decrypt
  <2>3. CASE UNCHANGED vars
        BY <2>1, <2>3 DEF vars, queueVars, workVars, InFlight
  <2>4. CASE DecryptFail \/ (DecryptPass /\ lost' # lost)
    <3>1. Decrypt /\ dbuf' = <<>> /\ UNCHANGED <<consumed, cbuf, consumeQ, decryptQ>>
          BY <2>4 DEF Decrypt, DecryptFail, DecryptPass, queueVars
    <3> QED BY <3>1, FailOrder
  <2>5. Decrypt \/ Consume => lost' = lost \/ DecryptPass \/ ConsumeUnlink
        BY DEF Decrypt, DecryptBegin, DecryptFail, DecryptWake, Consume, ConsumeBegin,
               ConsumeLook, ConsumeTail, ConsumeHandle, ConsumeCheck
  <2>6. ConsumeUnlink => cpc = "last" /\ cpc' = "look"
        BY DEF ConsumeUnlink
  <2>7. ~(ConsumeUnlink /\ (DecryptBegin \/ DecryptPass \/ DecryptWake))
        BY <2>6 DEF DecryptBegin, DecryptPass, DecryptWake
  <2> QED BY <2>2, <2>3, <2>4, <2>5, <2>7, TransportOrder, CutOrder, UnlinkOrder
          DEF Next, Decrypt
<1>3. OrderInv => BlocksInOrder
      BY DEF OrderInv, Ordered, Precedes, BlocksInOrder
<1> QED BY <1>1, <1>2, <1>3, CoreInvHolds, PTL DEF Spec

=============================================================================
