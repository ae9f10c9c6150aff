---------------------------- MODULE StreamProofs ----------------------------
(***************************************************************************)
(* Safety of Stream for every number of handles, limit of open streams,    *)
(* range of ids, size of blocks and headers, and lengths of writes.        *)
(***************************************************************************)
EXTENDS Stream, FiniteSetTheorems, SequenceTheorems, TLAPS

(* The invariants that make the properties inductive. *)

\* The streams that an open let in: they count against the limit and are within it,
\* also those whose open is not finished.
Admitted == {h \in Handles : pc[h] \notin {"closed", "refused"}}
AdmittedInv == Cardinality(Admitted) <= StreamsMax

Enqueued == [block : StreamBlocks, session : Nat]

\* The blocks of a stream that was, or is being, written.
Framed(s) ==
    \A i \in DOMAIN s :
        /\ s[i].block.first <=> (i = 1)
        /\ s[i].block.lo = (IF i = 1 THEN 0 ELSE s[i - 1].block.hi)
        /\ i < Len(s) => block_space_get(s[i].block) = 0

EndOf(s) == IF s = <<>> THEN 0 ELSE s[Len(s)].block.hi

\* The blocks of a stream that is open: all are full, none is the last.
AllFull(s) == \A i \in DOMAIN s : ~s[i].block.last /\ block_space_get(s[i].block) = 0

\* The block at hand continues the blocks before it, and ends where the bytes that
\* the writes stored so far end.
OpenInv(h) ==
    /\ AllFull(out[h])
    /\ ~buf[h].last /\ (buf[h].first <=> out[h] = <<>>) /\ buf[h].lo = EndOf(out[h])
    /\ bytes[h] + (want[h] - left[h]) = buf[h].hi

LastInv(h) == \A i \in DOMAIN out[h] :
                  out[h][i].block.last => i = Len(out[h]) /\ out[h][i].block.hi = bytes[h]

HandleInv(h) ==
    /\ buf[h].lo <= buf[h].hi /\ buf[h].skip + (buf[h].hi - buf[h].lo) <= Cap
    /\ left[h] <= want[h]
    /\ pc[h] # "write" => want[h] = 0 /\ left[h] = 0
    /\ Framed(out[h]) /\ LastInv(h)
    /\ h \in Open => OpenInv(h)

StreamInv == \A h \in Handles : HandleInv(h)

-----------------------------------------------------------------------------
(* Counting *)

\* A handle that enters or leaves a set of handles changes its size by one.
LEMMA CountFacts ==
    ASSUME NEW S \in SUBSET Handles, NEW h \in Handles
    PROVE  /\ IsFiniteSet(S) /\ Cardinality(S) \in Nat
           /\ h \notin S => Cardinality(S \cup {h}) = Cardinality(S) + 1
           /\ h \in S => Cardinality(S \ {h}) = Cardinality(S) - 1 /\ Cardinality(S) > 0
<1>1. IsFiniteSet(S)
      BY StreamAssumption, FS_Subset
<1>2. Cardinality(S) \in Nat
      BY <1>1, FS_CardinalityType
<1>3. h \notin S => Cardinality(S \cup {h}) = Cardinality(S) + 1
      BY <1>1, FS_AddElement
<1>4. h \in S => Cardinality(S \ {h}) = Cardinality(S) - 1
      BY <1>1, FS_RemoveElement
<1>5. h \in S => Cardinality(S) > 0
  <2>1. h \in S => Cardinality(S \ {h}) \in Nat
        BY <1>1, FS_CardinalityType, FS_RemoveElement
  <2> QED BY <1>2, <1>4, <2>1
<1> QED BY <1>1, <1>2, <1>3, <1>4, <1>5

\* A set of handles is not larger than one that contains it.
LEMMA CountSubset ==
    ASSUME NEW S \in SUBSET Handles, NEW T \in SUBSET S
    PROVE  Cardinality(T) <= Cardinality(S)
BY StreamAssumption, FS_Subset

CountInv == openStreams = Cardinality(Counted) /\ AdmittedInv

\* The limit holds because the counter is never below the number of streams that
\* were let in: an open increments it before it looks.
LEMMA CountStep ==
    ASSUME pc \in [Handles -> StreamPCs], openStreams \in Nat, CountInv, Next
    PROVE  openStreams' \in Nat /\ CountInv'
<1>1. Counted \in SUBSET Handles /\ Admitted \in SUBSET Counted
      BY DEF Counted, Admitted
<1>2. Cardinality(Admitted) <= Cardinality(Counted)
      BY <1>1, CountSubset
<1>3. CASE SessionFinish
      BY <1>3 DEF SessionFinish, CountInv, AdmittedInv, Counted, Admitted
<1>4. ASSUME NEW h \in Handles, StreamStep(h)
      PROVE  openStreams' \in Nat /\ CountInv'
  <2>1. CASE OpenBegin(h)
    <3>1. h \notin Counted /\ h \notin Admitted /\ openStreams' = openStreams + 1
          BY <2>1 DEF OpenBegin, Counted, Admitted
    <3>2. Counted' = Counted \cup {h}
          BY <2>1 DEF OpenBegin, Goto, Counted
    <3>3. openStreams' = Cardinality(Counted')
          BY <1>1, <3>1, <3>2, CountFacts DEF CountInv
    <3>4. CASE openStreams >= StreamsMax
      <4>1. Admitted' = Admitted
            BY <2>1, <3>4 DEF OpenBegin, Goto, Admitted
      <4> QED BY <3>1, <3>3, <4>1 DEF CountInv, AdmittedInv
    <3>5. CASE ~(openStreams >= StreamsMax)
      <4>1. Admitted' = Admitted \cup {h}
            BY <2>1, <3>5 DEF OpenBegin, Goto, Admitted
      <4>2. Cardinality(Admitted') = Cardinality(Admitted) + 1 /\ Cardinality(Admitted) \in Nat
            BY <1>1, <3>1, <4>1, CountFacts
      <4>3. Cardinality(Admitted') <= StreamsMax
            BY <1>2, <3>5, <4>2, StreamAssumption DEF CountInv
      <4> QED BY <3>1, <3>3, <4>3 DEF CountInv, AdmittedInv
    <3> QED BY <3>4, <3>5
  <2>2. ASSUME pc[h] # "closed", openStreams' = openStreams - 1, Goto(h, "closed")
        PROVE  openStreams' \in Nat /\ CountInv'
    <3>1. h \in Counted /\ Counted' = Counted \ {h} /\ Admitted' \in SUBSET Admitted
          BY <2>2 DEF Goto, Counted, Admitted
    <3>2. openStreams' = Cardinality(Counted') /\ openStreams' \in Nat
          BY <1>1, <2>2, <3>1, CountFacts DEF CountInv
    <3>3. Cardinality(Admitted') <= Cardinality(Admitted) /\ Cardinality(Admitted) \in Nat
          /\ Cardinality(Admitted') \in Nat
          BY <1>1, <3>1, CountSubset, CountFacts
    <3> QED BY <3>2, <3>3, StreamAssumption DEF CountInv, AdmittedInv
  <2>3. CASE OpenRefused(h) \/ OpenFails(h) \/ CloseLast(h) \/ CloseFree(h)
        BY <2>2, <2>3 DEF OpenRefused, OpenFails, CloseLast, CloseFree
  <2>4. CASE OpenDone(h) \/ (\E n \in WriteLens : WriteBegin(h, n)) \/ WriteSome(h)
             \/ WriteNext(h) \/ WriteEnd(h) \/ CloseCheck(h)
    <3>1. /\ openStreams' = openStreams
          /\ pc[h] \notin {"closed", "refused"} /\ pc'[h] \notin {"closed", "refused"}
          /\ \A g \in Handles : g # h => pc'[g] = pc[g]
          BY <2>4 DEF OpenDone, WriteBegin, WriteSome, WriteNext, WriteEnd, CloseCheck, Goto
    <3>2. Counted' = Counted /\ Admitted' = Admitted
          BY <3>1 DEF Counted, Admitted
    <3> QED BY <3>1, <3>2 DEF CountInv, AdmittedInv
  <2> QED BY <1>4, <2>1, <2>3, <2>4 DEF StreamStep
<1> QED BY <1>3, <1>4 DEF Next

-----------------------------------------------------------------------------
(* The blocks of a stream *)

\* A new block is empty, and its header fits.
LEMMA AllocFacts ==
    ASSUME NEW i \in Nat, NEW first \in BOOLEAN, NEW lo \in Nat
    PROVE  LET b == block_alloc_stream(i, first, lo)
           IN  /\ b \in StreamBlocks /\ b.lo = lo /\ b.hi = lo
               /\ b.first = first /\ b.last = FALSE
               /\ b.skip \in Nat /\ b.skip <= Cap /\ b.skip + (b.hi - b.lo) <= Cap
BY StreamAssumption DEF block_alloc_stream, StreamBlocks

\* A block that continues full blocks extends a stream that is well framed.
LEMMA FramedAppend ==
    ASSUME NEW s \in Seq(Enqueued), NEW e \in Enqueued, Framed(s), AllFull(s),
           e.block.first <=> s = <<>>, e.block.lo = EndOf(s)
    PROVE  /\ Framed(Append(s, e)) /\ Append(s, e) \in Seq(Enqueued)
           /\ EndOf(Append(s, e)) = e.block.hi /\ Append(s, e) # <<>>
           /\ DOMAIN Append(s, e) = 1 .. Len(s) + 1 /\ Len(Append(s, e)) = Len(s) + 1
           /\ Append(s, e)[Len(s) + 1] = e
           /\ \A i \in DOMAIN s : i \in 1 .. Len(s) /\ Append(s, e)[i] = s[i]
           /\ DOMAIN s = 1 .. Len(s) /\ Len(s) \in Nat
<1> DEFINE t == Append(s, e)
<1>1. /\ Len(s) \in Nat /\ DOMAIN s = 1 .. Len(s)
      /\ t \in Seq(Enqueued) /\ Len(t) = Len(s) + 1 /\ DOMAIN t = 1 .. Len(s) + 1
      /\ t[Len(s) + 1] = e /\ \A i \in 1 .. Len(s) : t[i] = s[i]
      OBVIOUS
<1>2. s = <<>> <=> Len(s) = 0
      OBVIOUS
<1>3. t # <<>>
      OBVIOUS
<1> HIDE DEF t
<1>4. EndOf(t) = e.block.hi
      BY <1>1, <1>3 DEF EndOf
<1>5. Framed(t)
  <2> SUFFICES ASSUME NEW i \in DOMAIN t
               PROVE  /\ t[i].block.first <=> (i = 1)
                      /\ t[i].block.lo = (IF i = 1 THEN 0 ELSE t[i - 1].block.hi)
                      /\ i < Len(t) => block_space_get(t[i].block) = 0
      BY DEF Framed
  <2>1. CASE i = Len(s) + 1
    <3>1. t[i] = e /\ (i = 1 <=> s = <<>>) /\ ~(i < Len(t))
          BY <1>1, <1>2, <2>1
    <3>2. s # <<>> => t[i - 1] = s[Len(s)]
          BY <1>1, <1>2, <2>1
    <3>3. e.block.lo = (IF i = 1 THEN 0 ELSE t[i - 1].block.hi)
          BY <3>1, <3>2 DEF EndOf
    <3> QED BY <3>1, <3>3
  <2>2. CASE i # Len(s) + 1
    <3>1. i \in DOMAIN s /\ t[i] = s[i]
          BY <1>1, <2>2
    <3>2. i # 1 => t[i - 1] = s[i - 1]
          BY <1>1, <2>2
    <3> QED BY <3>1, <3>2 DEF Framed, AllFull
  <2> QED BY <2>1, <2>2
<1> QED BY <1>1, <1>3, <1>4, <1>5 DEF t

\* A step of one handle leaves the others as they are.
LEMMA HandleFrame ==
    ASSUME NEW h \in Handles, HandleInv(h),
           pc'[h] = pc[h], bytes'[h] = bytes[h], buf'[h] = buf[h],
           want'[h] = want[h], left'[h] = left[h], out'[h] = out[h]
    PROVE  HandleInv(h)'
BY DEF HandleInv, Open, Framed, LastInv, OpenInv, AllFull, EndOf

-----------------------------------------------------------------------------
(* The steps of a stream *)

\* The types, without the counter of open streams.
HandleTypes ==
    /\ session \in Nat /\ nextId \in 0 .. IdMod - 1 /\ opens \in Nat
    /\ pc \in [Handles -> StreamPCs]
    /\ sid \in [Handles -> 0 .. IdMod - 1]
    /\ sess \in [Handles -> Nat] /\ bytes \in [Handles -> Nat]
    /\ buf \in [Handles -> StreamBlocks]
    /\ want \in [Handles -> Nat] /\ left \in [Handles -> Nat]
    /\ out \in [Handles -> Seq(Enqueued)]

\* The ids that new_stream_id makes are in range.
LEMMA IdFacts ==
    ASSUME nextId \in 0 .. IdMod - 1
    PROVE  NewId \in 0 .. IdMod - 1 /\ NewId \in Nat /\ AfterId \in 0 .. IdMod - 1
<1>1. nextId % IdMod \in 0 .. IdMod - 1
      BY StreamAssumption
<1>2. NewId \in 0 .. IdMod - 1 /\ NewId \in Nat
      BY <1>1, StreamAssumption DEF NewId
<1>3. NewId + 1 \in Nat
      BY <1>2
<1>4. AfterId \in 0 .. IdMod - 1
      BY <1>3, StreamAssumption DEF AfterId
<1> QED BY <1>2, <1>4

\* The fields of the block at hand are numbers, and so is the space in it.
LEMMA BufFacts ==
    ASSUME HandleTypes, NEW h \in Handles, HandleInv(h)
    PROVE  /\ buf[h] \in StreamBlocks
           /\ buf[h].lo \in Nat /\ buf[h].hi \in Nat /\ buf[h].skip \in Nat /\ buf[h].id \in Nat
           /\ buf[h].lo <= buf[h].hi
           /\ block_space_get(buf[h]) \in Nat
           /\ block_space_get(buf[h]) = Cap - buf[h].skip - (buf[h].hi - buf[h].lo)
           /\ out[h] \in Seq(Enqueued) /\ bytes[h] \in Nat /\ want[h] \in Nat /\ left[h] \in Nat
           /\ left[h] <= want[h]
<1>1. buf[h] \in StreamBlocks
      BY DEF HandleTypes
<1>2. buf[h].lo \in Nat /\ buf[h].hi \in Nat /\ buf[h].skip \in Nat /\ buf[h].id \in Nat
      BY <1>1 DEF StreamBlocks
<1>3. buf[h].lo <= buf[h].hi /\ buf[h].skip + (buf[h].hi - buf[h].lo) <= Cap
      /\ left[h] <= want[h]
      BY DEF HandleInv
<1>4. block_space_get(buf[h]) = Cap - buf[h].skip - (buf[h].hi - buf[h].lo)
      BY DEF block_space_get
<1>5. block_space_get(buf[h]) \in Nat
      BY <1>2, <1>3, <1>4, StreamAssumption
<1>6. out[h] \in Seq(Enqueued) /\ bytes[h] \in Nat /\ want[h] \in Nat /\ left[h] \in Nat
      BY DEF HandleTypes
<1> QED BY <1>1, <1>2, <1>3, <1>4, <1>5, <1>6

\* What an open stream hands over: the block at hand, marked or not.
LEMMA EnqueueFacts ==
    ASSUME HandleTypes, NEW h \in Handles, HandleInv(h), h \in Open, NEW isLast \in BOOLEAN,
           Enqueue(h, isLast)
    PROVE  /\ out' \in [Handles -> Seq(Enqueued)]
           /\ \A g \in Handles : g # h => out'[g] = out[g]
           /\ Framed(out'[h]) /\ out'[h] # <<>> /\ EndOf(out'[h]) = buf[h].hi
           /\ DOMAIN out'[h] = 1 .. Len(out[h]) + 1 /\ Len(out'[h]) = Len(out[h]) + 1
           /\ out'[h][Len(out[h]) + 1].block = [buf[h] EXCEPT !.last = isLast]
           /\ \A i \in DOMAIN out[h] : i \in 1 .. Len(out[h]) /\ out'[h][i] = out[h][i]
           /\ DOMAIN out[h] = 1 .. Len(out[h]) /\ Len(out[h]) \in Nat
<1> DEFINE b == [buf[h] EXCEPT !.last = isLast]
           e == [block |-> b, session |-> session]
<1>1. buf[h] \in StreamBlocks /\ session \in Nat /\ out \in [Handles -> Seq(Enqueued)]
      BY DEF HandleTypes
<1>2. b \in StreamBlocks /\ b.lo = buf[h].lo /\ b.hi = buf[h].hi /\ b.first = buf[h].first
      BY <1>1 DEF StreamBlocks
<1>3. out' = [out EXCEPT ![h] = Append(out[h], e)]
      BY <1>1 DEF Enqueue
<1> HIDE DEF b
<1>4. e \in Enqueued /\ e.block = b
      BY <1>1, <1>2 DEF Enqueued
<1> HIDE DEF e
<1>5. out[h] \in Seq(Enqueued) /\ Framed(out[h]) /\ AllFull(out[h])
      BY <1>1 DEF HandleInv, OpenInv
<1>6. e.block.first <=> out[h] = <<>>
      BY <1>2, <1>4 DEF HandleInv, OpenInv
<1>7. e.block.lo = EndOf(out[h])
      BY <1>2, <1>4 DEF HandleInv, OpenInv
<1>8. out'[h] = Append(out[h], e) /\ \A g \in Handles : g # h => out'[g] = out[g]
      BY <1>1, <1>3
<1> DEFINE t == Append(out[h], e)
<1>9. /\ Framed(t) /\ t \in Seq(Enqueued) /\ EndOf(t) = e.block.hi /\ t # <<>>
      /\ DOMAIN t = 1 .. Len(out[h]) + 1 /\ Len(t) = Len(out[h]) + 1
      /\ t[Len(out[h]) + 1] = e
      /\ \A i \in DOMAIN out[h] : i \in 1 .. Len(out[h]) /\ t[i] = out[h][i]
      /\ DOMAIN out[h] = 1 .. Len(out[h]) /\ Len(out[h]) \in Nat
      BY <1>4, <1>5, <1>6, <1>7, FramedAppend
<1> HIDE DEF t
<1>10. out' \in [Handles -> Seq(Enqueued)]
      BY <1>1, <1>3, <1>9 DEF t
<1> QED BY <1>2, <1>4, <1>8, <1>9, <1>10 DEF t, b

\* The steps that change only the control of a stream, or begin one.
LEMMA ControlStep ==
    ASSUME HandleTypes, NEW h \in Handles, HandleInv(h),
           OpenBegin(h) \/ OpenRefused(h) \/ OpenFails(h) \/ OpenDone(h) \/ CloseCheck(h)
           \/ CloseFree(h)
    PROVE  HandleTypes' /\ HandleInv(h)'
<1>0. /\ nextId \in 0 .. IdMod - 1 /\ NewId \in 0 .. IdMod - 1 /\ NewId \in Nat
      /\ AfterId \in 0 .. IdMod - 1
      BY IdFacts DEF HandleTypes
<1>1. CASE OpenBegin(h) \/ OpenRefused(h) \/ OpenFails(h) \/ CloseCheck(h) \/ CloseFree(h)
  <2>1. /\ UNCHANGED <<session, sid, sess, bytes, buf, want, left, out>>
        /\ pc \in [Handles -> StreamPCs] /\ pc' \in [Handles -> StreamPCs]
        /\ opens' \in Nat /\ nextId' \in 0 .. IdMod - 1
    <3>1. \E l \in StreamPCs : Goto(h, l)
          BY <1>1 DEF OpenBegin, OpenRefused, OpenFails, CloseCheck, CloseFree, StreamPCs
    <3>2. pc \in [Handles -> StreamPCs] /\ pc' \in [Handles -> StreamPCs]
          BY <3>1 DEF Goto, HandleTypes
    <3>3. /\ UNCHANGED <<session, sid, sess, bytes, buf, want, left, out>>
          /\ opens' = opens \/ opens' = opens + 1
          /\ nextId' = nextId \/ nextId' = AfterId
          BY <1>1 DEF OpenBegin, OpenRefused, OpenFails, CloseCheck, CloseFree
    <3>4. opens' \in Nat
          BY <3>3 DEF HandleTypes
    <3> QED BY <1>0, <3>2, <3>3, <3>4
  <2>2. pc[h] # "write" /\ (h \in Open' => h \in Open)
        BY <1>1 DEF OpenBegin, OpenRefused, OpenFails, CloseCheck, CloseFree, Goto, Open,
                    HandleTypes
  <2>3. HandleTypes'
        BY <2>1 DEF HandleTypes
  <2>4. HandleInv(h)'
        BY <2>1, <2>2 DEF HandleInv, Framed, LastInv, OpenInv, AllFull, EndOf
  <2> QED BY <2>3, <2>4
<1>2. CASE OpenDone(h)
  <2> DEFINE b == block_alloc_stream(NewId, TRUE, 0)
  <2>1. /\ pc[h] = "opening" /\ nextId' = AfterId /\ sid' = [sid EXCEPT ![h] = NewId]
        /\ sess' = [sess EXCEPT ![h] = session] /\ bytes' = [bytes EXCEPT ![h] = 0]
        /\ buf' = [buf EXCEPT ![h] = b] /\ out' = [out EXCEPT ![h] = <<>>]
        /\ pc' = [pc EXCEPT ![h] = "idle"] /\ UNCHANGED <<session, want, left, opens>>
        BY <1>2 DEF OpenDone, Goto
  <2>2. /\ b \in StreamBlocks /\ b.lo = 0 /\ b.hi = 0 /\ b.first = TRUE /\ b.last = FALSE
        /\ b.skip \in Nat /\ b.skip <= Cap
    <3>1. PICK yes \in BOOLEAN : yes = TRUE
          OBVIOUS
    <3>2. b = block_alloc_stream(NewId, yes, 0) /\ 0 \in Nat /\ NewId \in Nat
          BY <1>0, <3>1
    <3> QED BY ONLY <3>1, <3>2, AllocFacts
  <2> HIDE DEF b
  <2>3. buf'[h] = b /\ out'[h] = <<>> /\ bytes'[h] = 0 /\ pc'[h] = "idle"
        /\ want'[h] = want[h] /\ left'[h] = left[h]
        BY <2>1 DEF HandleTypes
  <2>4. out' \in [Handles -> Seq(Enqueued)]
        BY <2>1 DEF HandleTypes
  <2>5. HandleTypes'
        BY <1>0, <2>1, <2>2, <2>4 DEF HandleTypes, StreamPCs
  <2>6. want[h] = 0 /\ left[h] = 0
        BY <2>1 DEF HandleInv
  <2>7. DOMAIN out'[h] = {}
        BY <2>3
  <2>8. OpenInv(h)'
    <3>1. AllFull(out[h])' /\ buf'[h].lo = EndOf(out'[h]) /\ ~buf'[h].last
          BY <2>2, <2>3, <2>7 DEF AllFull, EndOf
    <3>2. buf'[h].first <=> out'[h] = <<>>
          BY <2>2, <2>3
    <3>3. bytes'[h] + (want'[h] - left'[h]) = buf'[h].hi
          BY <2>2, <2>3, <2>6
    <3> QED BY <3>1, <3>2, <3>3 DEF OpenInv, EndOf
  <2>9. (buf[h].lo <= buf[h].hi /\ buf[h].skip + (buf[h].hi - buf[h].lo) <= Cap)'
        BY <2>2, <2>3, StreamAssumption
  <2>10. Framed(out[h])' /\ LastInv(h)'
        BY <2>7 DEF Framed, LastInv
  <2>11. (left[h] <= want[h] /\ (pc[h] # "write" => want[h] = 0 /\ left[h] = 0))'
        BY <2>3, <2>6
  <2> QED BY <2>5, <2>8, <2>9, <2>10, <2>11 DEF HandleInv
<1> QED BY <1>1, <1>2

\* The steps that store bytes in blocks and hand blocks over.
LEMMA BlockStep ==
    ASSUME HandleTypes, NEW h \in Handles, HandleInv(h),
           (\E n \in WriteLens : WriteBegin(h, n)) \/ WriteSome(h) \/ WriteNext(h)
           \/ WriteEnd(h) \/ CloseLast(h)
    PROVE  HandleTypes' /\ HandleInv(h)'
<1>0. /\ buf[h] \in StreamBlocks
      /\ buf[h].lo \in Nat /\ buf[h].hi \in Nat /\ buf[h].skip \in Nat /\ buf[h].id \in Nat
      /\ buf[h].lo <= buf[h].hi
      /\ block_space_get(buf[h]) \in Nat
      /\ block_space_get(buf[h]) = Cap - buf[h].skip - (buf[h].hi - buf[h].lo)
      /\ out[h] \in Seq(Enqueued) /\ bytes[h] \in Nat /\ want[h] \in Nat /\ left[h] \in Nat
      /\ left[h] <= want[h]
      BY BufFacts
<1>a. h \in Open
      BY DEF WriteBegin, WriteSome, WriteNext, WriteEnd, CloseLast, Open
<1>b. OpenInv(h) /\ Framed(out[h]) /\ LastInv(h)
      BY <1>a DEF HandleInv
<1>1. ASSUME NEW n \in WriteLens, WriteBegin(h, n)
      PROVE  HandleTypes' /\ HandleInv(h)'
  <2>1. /\ pc[h] = "idle" /\ want' = [want EXCEPT ![h] = n] /\ left' = [left EXCEPT ![h] = n]
        /\ pc' = [pc EXCEPT ![h] = "write"]
        /\ UNCHANGED <<session, nextId, openStreams, sid, sess, bytes, buf, opens, out>>
        BY <1>1 DEF WriteBegin, Goto
  <2>2. n \in Nat /\ want[h] = 0 /\ left[h] = 0
        BY <2>1, StreamAssumption DEF HandleInv
  <2>3. want'[h] = n /\ left'[h] = n /\ pc'[h] = "write"
        BY <2>1 DEF HandleTypes
  <2>4. HandleTypes'
        BY <2>1, <2>2 DEF HandleTypes, StreamPCs
  <2>5. OpenInv(h)'
        BY <1>0, <1>b, <2>1, <2>2, <2>3 DEF OpenInv, AllFull, EndOf
  <2>6. Framed(out[h])' /\ LastInv(h)'
        BY <1>b, <2>1 DEF Framed, LastInv
  <2> QED BY <2>1, <2>2, <2>3, <2>4, <2>5, <2>6 DEF HandleInv
<1>2. CASE WriteSome(h)
  <2> DEFINE space == block_space_get(buf[h])
             n     == IF space < left[h] THEN space ELSE left[h]
             b     == [buf[h] EXCEPT !.hi = @ + n]
  <2>1. /\ pc[h] = "write" /\ left[h] > 0 /\ space > 0
        /\ buf' = [buf EXCEPT ![h] = b] /\ left' = [left EXCEPT ![h] = @ - n]
        /\ UNCHANGED <<session, nextId, openStreams, pc, sid, sess, bytes, want, opens, out>>
        BY <1>2 DEF WriteSome
  <2>2. n \in Nat /\ n <= left[h] /\ n <= space
        BY <1>0
  <2> HIDE DEF n
  <2>3. b \in StreamBlocks /\ b.hi = buf[h].hi + n /\ b.lo = buf[h].lo /\ b.skip = buf[h].skip
    <3> DEFINE m == buf[h].hi + n
    <3>1. m \in Nat /\ b = [buf[h] EXCEPT !.hi = m]
          BY <1>0, <2>2, SMTT(40)
    <3> HIDE DEF m, b
    <3> QED BY <1>0, <3>1 DEF StreamBlocks, m
  <2>4. b.first = buf[h].first /\ b.last = buf[h].last
        BY <1>0 DEF StreamBlocks
  <2> HIDE DEF b
  <2>5. buf'[h] = b /\ left'[h] = left[h] - n
        BY <2>1 DEF HandleTypes
  <2>6. left[h] - n \in Nat
        BY <1>0, <2>2
  <2>7. HandleTypes'
    <3>1. left' \in [Handles -> Nat]
          BY <2>1, <2>6 DEF HandleTypes
    <3>2. buf' \in [Handles -> StreamBlocks]
          BY <2>1, <2>3 DEF HandleTypes
    <3> QED BY <2>1, <3>1, <3>2 DEF HandleTypes
  <2>8. (buf[h].lo <= buf[h].hi /\ buf[h].skip + (buf[h].hi - buf[h].lo) <= Cap)'
    <3> DEFINE lo == buf[h].lo  hi == buf[h].hi  skip == buf[h].skip
    <3>1. /\ lo \in Nat /\ hi \in Nat /\ skip \in Nat /\ lo <= hi /\ n \in Nat
          /\ n <= Cap - skip - (hi - lo) /\ Cap \in Nat
          BY <1>0, <2>2, StreamAssumption
    <3>2. b.lo = lo /\ b.hi = hi + n /\ b.skip = skip
          BY <2>3
    <3> HIDE DEF lo, hi, skip
    <3>3. lo <= hi + n /\ skip + ((hi + n) - lo) <= Cap
          BY ONLY <3>1
    <3> QED BY <2>5, <3>2, <3>3
  <2>9. left'[h] <= want'[h] /\ bytes'[h] + (want'[h] - left'[h]) = buf'[h].hi
    <3> DEFINE w == want[h]  lf == left[h]  by == bytes[h]  hi == buf[h].hi
    <3>1. /\ w \in Nat /\ lf \in Nat /\ by \in Nat /\ hi \in Nat /\ n \in Nat
          /\ n <= lf /\ lf <= w
          BY <1>0, <2>2
    <3>2. by + (w - lf) = hi
          BY <1>b DEF OpenInv
    <3>3. want'[h] = w /\ bytes'[h] = by /\ left'[h] = lf - n
          BY <2>1, <2>5
    <3>4. buf'[h].hi = hi + n
          BY <2>3, <2>5
    <3> HIDE DEF w, lf, by, hi
    <3>5. lf - n <= w /\ by + (w - (lf - n)) = hi + n
          BY ONLY <3>1, <3>2
    <3> QED BY <3>3, <3>4, <3>5
  <2>10. OpenInv(h)'
        BY <1>b, <2>1, <2>3, <2>4, <2>5, <2>9 DEF OpenInv, AllFull, EndOf
  <2>11. Framed(out[h])' /\ LastInv(h)'
        BY <1>b, <2>1 DEF Framed, LastInv
  <2> QED BY <2>1, <2>7, <2>8, <2>9, <2>10, <2>11 DEF HandleInv
<1>3. CASE WriteNext(h)
  <2> DEFINE b == block_alloc_stream(sid[h], FALSE, buf[h].hi)
             s == out[h]
  <2> PICK no \in BOOLEAN : no = FALSE
      OBVIOUS
  <2>1. /\ pc[h] = "write" /\ block_space_get(buf[h]) = 0 /\ Enqueue(h, no)
        /\ buf' = [buf EXCEPT ![h] = b]
        /\ UNCHANGED <<session, nextId, openStreams, pc, sid, sess, bytes, want, left, opens>>
        BY <1>3 DEF WriteNext, HandleTypes
  <2>2. sid[h] \in Nat
        BY StreamAssumption DEF HandleTypes
  <2>3. /\ b \in StreamBlocks /\ b.lo = buf[h].hi /\ b.hi = buf[h].hi
        /\ b.first = FALSE /\ b.last = FALSE
        /\ b.skip \in Nat /\ b.skip + (b.hi - b.lo) <= Cap
    <3> DEFINE i  == sid[h]
               lo == buf[h].hi
               d  == block_alloc_stream(i, no, lo)
    <3>1. i \in Nat /\ lo \in Nat /\ b = d
          BY <1>0, <2>2
    <3> HIDE DEF i, lo
    <3>2. /\ d \in StreamBlocks /\ d.lo = lo /\ d.hi = lo
          /\ d.first = no /\ d.last = FALSE
          /\ d.skip \in Nat /\ d.skip + (d.hi - d.lo) <= Cap
          BY <3>1, AllocFacts, ZenonT(30)
    <3> HIDE DEF d, b
    <3> QED BY <3>1, <3>2 DEF lo
  <2> HIDE DEF b
  <2>4. /\ out' \in [Handles -> Seq(Enqueued)]
        /\ Framed(out'[h]) /\ out'[h] # <<>> /\ EndOf(out'[h]) = buf[h].hi
        /\ DOMAIN out'[h] = 1 .. Len(s) + 1 /\ Len(out'[h]) = Len(s) + 1
        /\ out'[h][Len(s) + 1].block = [buf[h] EXCEPT !.last = no]
        /\ \A i \in DOMAIN s : i \in 1 .. Len(s) /\ out'[h][i] = s[i]
        /\ DOMAIN s = 1 .. Len(s) /\ Len(s) \in Nat
        BY <1>a, <2>1, EnqueueFacts
  <2>5. buf'[h] = b
        BY <2>1 DEF HandleTypes
  <2>6. HandleTypes'
        BY <2>1, <2>3, <2>4 DEF HandleTypes
  <2> DEFINE c == [buf[h] EXCEPT !.last = no]
  <2>7. ~c.last /\ c.skip = buf[h].skip /\ c.hi = buf[h].hi /\ c.lo = buf[h].lo
        BY <1>0 DEF StreamBlocks
  <2> HIDE DEF c
  <2>8. block_space_get(c) = 0
        BY <2>1, <2>7 DEF block_space_get
  <2>9. \A i \in DOMAIN out'[h] : ~out'[h][i].block.last /\ block_space_get(out'[h][i].block) = 0
    <3> SUFFICES ASSUME NEW i \in DOMAIN out'[h]
                 PROVE  ~out'[h][i].block.last /\ block_space_get(out'[h][i].block) = 0
        OBVIOUS
    <3>1. CASE i = Len(s) + 1
          BY <2>4, <2>7, <2>8, <3>1 DEF c
    <3>2. CASE i # Len(s) + 1
      <4>1. i \in DOMAIN s
            BY <2>4, <3>2
      <4> QED BY <1>b, <2>4, <4>1 DEF OpenInv, AllFull
    <3> QED BY <3>1, <3>2
  <2>10. OpenInv(h)'
    <3>1. (buf[h].first <=> out[h] = <<>>)'
          BY <2>3, <2>4, <2>5
    <3>2. (buf[h].lo = EndOf(out[h]))'
          BY <2>3, <2>4, <2>5 DEF EndOf
    <3>3. (bytes[h] + (want[h] - left[h]) = buf[h].hi)'
          BY <1>b, <2>1, <2>3, <2>5 DEF OpenInv
    <3>4. ~buf'[h].last
          BY <2>3, <2>5
    <3> QED BY <2>9, <3>1, <3>2, <3>3, <3>4 DEF OpenInv, AllFull, block_space_get
  <2>11. Framed(out[h])' /\ LastInv(h)'
        BY <2>4, <2>9 DEF Framed, LastInv, block_space_get
  <2>12. (buf[h].lo <= buf[h].hi /\ buf[h].skip + (buf[h].hi - buf[h].lo) <= Cap)'
        BY <1>0, <2>3, <2>5
  <2> QED BY <1>0, <2>1, <2>6, <2>10, <2>11, <2>12 DEF HandleInv
<1>4. CASE WriteEnd(h)
  <2> DEFINE n == bytes[h] + (want[h] - left[h])
  <2>1. /\ pc[h] = "write" /\ bytes' = [bytes EXCEPT ![h] = n]
        /\ want' = [want EXCEPT ![h] = 0] /\ left' = [left EXCEPT ![h] = 0]
        /\ pc' = [pc EXCEPT ![h] = "idle"]
        /\ UNCHANGED <<session, nextId, openStreams, sid, sess, buf, opens, out>>
        BY <1>4 DEF WriteEnd, Goto
  <2>2. n \in Nat /\ n = buf[h].hi
        BY <1>0, <1>b DEF OpenInv
  <2> HIDE DEF n
  <2>3. bytes'[h] = n /\ want'[h] = 0 /\ left'[h] = 0 /\ pc'[h] = "idle"
        BY <2>1 DEF HandleTypes
  <2>4. HandleTypes'
        BY <2>1, <2>2 DEF HandleTypes, StreamPCs
  <2>5. OpenInv(h)'
        BY <1>0, <1>b, <2>1, <2>2, <2>3 DEF OpenInv, AllFull, EndOf
  <2>6. Framed(out[h])' /\ LastInv(h)'
        BY <1>b, <2>1 DEF Framed, LastInv, OpenInv, AllFull
  <2>7. (buf[h].lo <= buf[h].hi /\ buf[h].skip + (buf[h].hi - buf[h].lo) <= Cap)'
        BY <2>1 DEF HandleInv
  <2> QED BY <2>3, <2>4, <2>5, <2>6, <2>7 DEF HandleInv
<1>5. CASE CloseLast(h)
  <2> DEFINE s == out[h]
  <2> PICK yes \in BOOLEAN : yes = TRUE
      OBVIOUS
  <2>1. /\ pc[h] = "last" /\ Enqueue(h, yes) /\ pc' = [pc EXCEPT ![h] = "closed"]
        /\ UNCHANGED <<session, nextId, sid, sess, bytes, buf, want, left, opens>>
        BY <1>5 DEF CloseLast, Goto
  <2>2. /\ out' \in [Handles -> Seq(Enqueued)] /\ Framed(out'[h])
        /\ DOMAIN out'[h] = 1 .. Len(s) + 1 /\ Len(out'[h]) = Len(s) + 1
        /\ out'[h][Len(s) + 1].block = [buf[h] EXCEPT !.last = yes]
        /\ \A i \in DOMAIN s : i \in 1 .. Len(s) /\ out'[h][i] = s[i]
        /\ DOMAIN s = 1 .. Len(s) /\ Len(s) \in Nat
        BY <1>a, <2>1, EnqueueFacts
  <2>3. want[h] = 0 /\ left[h] = 0
        BY <2>1 DEF HandleInv
  <2>4. buf[h].hi = bytes[h]
        BY <1>0, <1>b, <2>3 DEF OpenInv
  <2> DEFINE c == [buf[h] EXCEPT !.last = yes]
  <2>5. c.hi = buf[h].hi
        BY <1>0 DEF StreamBlocks
  <2> HIDE DEF c
  <2>6. LastInv(h)'
    <3> SUFFICES ASSUME NEW i \in DOMAIN out'[h], out'[h][i].block.last
                 PROVE  i = Len(out'[h]) /\ out'[h][i].block.hi = bytes'[h]
        BY DEF LastInv
    <3>1. i = Len(s) + 1
      <4> SUFFICES ASSUME i # Len(s) + 1 PROVE FALSE
          OBVIOUS
      <4>1. i \in DOMAIN s
            BY <2>2
      <4> QED BY <1>b, <2>2, <4>1 DEF OpenInv, AllFull
    <3> QED BY <2>1, <2>2, <2>4, <2>5, <3>1 DEF c
  <2>7. HandleTypes'
        BY <2>1, <2>2 DEF HandleTypes, StreamPCs
  <2>8. pc'[h] = "closed" /\ h \notin Open'
        BY <2>1 DEF HandleTypes, Open
  <2>9. (buf[h].lo <= buf[h].hi /\ buf[h].skip + (buf[h].hi - buf[h].lo) <= Cap)'
        BY <2>1 DEF HandleInv
  <2>10. Framed(out[h])'
        BY <2>2 DEF Framed, block_space_get
  <2> QED BY <1>0, <2>1, <2>3, <2>6, <2>7, <2>8, <2>9, <2>10 DEF HandleInv
<1> QED BY <1>1, <1>2, <1>3, <1>4, <1>5

-----------------------------------------------------------------------------
(* The theorems *)

Inv == TypeOK /\ CountInv /\ StreamInv

\* They hold at first.
LEMMA InvInit == Init => Inv
<1> SUFFICES ASSUME Init
             PROVE  Inv
    OBVIOUS
<1> DEFINE b == block_alloc_stream(0, TRUE, 0)
<1>1. /\ session = 0 /\ nextId = 1 /\ openStreams = 0 /\ opens = 0
      /\ pc = [h \in Handles |-> "closed"]
      /\ sid = [h \in Handles |-> 0] /\ sess = [h \in Handles |-> 0]
      /\ bytes = [h \in Handles |-> 0] /\ buf = [h \in Handles |-> b]
      /\ want = [h \in Handles |-> 0] /\ left = [h \in Handles |-> 0]
      /\ out = [h \in Handles |-> <<>>]
      BY DEF Init
<1>2. /\ b \in StreamBlocks /\ b.lo = 0 /\ b.hi = 0
      /\ b.skip \in Nat /\ b.skip + (b.hi - b.lo) <= Cap
  <2>1. PICK yes \in BOOLEAN : yes = TRUE
        OBVIOUS
  <2>2. b = block_alloc_stream(0, yes, 0) /\ 0 \in Nat
        BY <2>1
  <2> QED BY ONLY <2>1, <2>2, AllocFacts
<1> HIDE DEF b
<1>3. TypeOK
  <2>1. nextId \in 0 .. IdMod - 1 /\ sid \in [Handles -> 0 .. IdMod - 1]
        BY <1>1, StreamAssumption
  <2>2. pc \in [Handles -> StreamPCs] /\ buf \in [Handles -> StreamBlocks]
        BY <1>1, <1>2 DEF StreamPCs
  <2>3. out \in [Handles -> Seq([block : StreamBlocks, session : Nat])]
        BY <1>1
  <2> QED BY <1>1, <2>1, <2>2, <2>3 DEF TypeOK
<1>4. CountInv
  <2>1. Counted = {} /\ Admitted = {}
        BY <1>1 DEF Counted, Admitted
  <2> QED BY <1>1, <2>1, FS_EmptySet, StreamAssumption DEF CountInv, AdmittedInv
<1>5. ASSUME NEW h \in Handles PROVE HandleInv(h)
  <2>1. /\ pc[h] = "closed" /\ want[h] = 0 /\ left[h] = 0 /\ out[h] = <<>> /\ buf[h] = b
        BY <1>1
  <2>2. DOMAIN out[h] = {}
        BY <2>1
  <2> QED BY <1>2, <2>1, <2>2 DEF HandleInv, Framed, LastInv, Open
<1> QED BY <1>3, <1>4, <1>5 DEF Inv, StreamInv

\* Every step keeps them.
LEMMA InvStep == Inv /\ [Next]_vars => Inv'
<1> SUFFICES ASSUME Inv, [Next]_vars
             PROVE  Inv'
    OBVIOUS
<1>0. TypeOK /\ CountInv /\ StreamInv /\ HandleTypes
      BY DEF Inv, TypeOK, HandleTypes, Enqueued
<1>1. CASE UNCHANGED vars
  <2>1. StreamInv'
        BY <1>0, <1>1, HandleFrame DEF StreamInv, vars
  <2> QED BY <1>0, <1>1, <2>1 DEF Inv, TypeOK, CountInv, AdmittedInv, Counted, Admitted, vars
<1>2. CASE Next
  <2>1. openStreams' \in Nat /\ CountInv'
        BY <1>0, <1>2, CountStep DEF TypeOK
  <2>2. HandleTypes' /\ StreamInv'
    <3>1. CASE SessionFinish
      <4>1. session' = session + 1
            /\ UNCHANGED <<nextId, openStreams, pc, sid, sess, bytes, buf, want, left, opens, out>>
            BY <3>1 DEF SessionFinish
      <4>2. HandleTypes'
            BY <1>0, <4>1 DEF HandleTypes
      <4>3. StreamInv'
            BY <1>0, <4>1, HandleFrame DEF StreamInv
      <4> QED BY <4>2, <4>3
    <3>2. ASSUME NEW h \in Handles, StreamStep(h)
          PROVE  HandleTypes' /\ StreamInv'
      <4>1. HandleInv(h)
            BY <1>0 DEF StreamInv
      <4>2. HandleTypes' /\ HandleInv(h)'
            BY <1>0, <3>2, <4>1, ControlStep, BlockStep DEF StreamStep
      <4>3. ASSUME NEW g \in Handles, g # h
            PROVE  /\ pc'[g] = pc[g] /\ bytes'[g] = bytes[g] /\ buf'[g] = buf[g]
                   /\ want'[g] = want[g] /\ left'[g] = left[g] /\ out'[g] = out[g]
        <5>1. CASE OpenBegin(h) \/ OpenRefused(h) \/ OpenDone(h) \/ OpenFails(h)
              BY <1>0, <4>3, <5>1 DEF OpenBegin, OpenRefused, OpenDone, OpenFails, Goto,
                                      HandleTypes
        <5>2. CASE (\E n \in WriteLens : WriteBegin(h, n)) \/ WriteSome(h) \/ WriteNext(h)
                   \/ WriteEnd(h)
              BY <1>0, <4>3, <5>2 DEF WriteBegin, WriteSome, WriteNext, WriteEnd, Goto,
                                      Enqueue, HandleTypes
        <5>3. CASE CloseCheck(h) \/ CloseLast(h) \/ CloseFree(h)
              BY <1>0, <4>3, <5>3 DEF CloseCheck, CloseLast, CloseFree, Goto, Enqueue,
                                      HandleTypes
        <5> QED BY <3>2, <5>1, <5>2, <5>3 DEF StreamStep
      <4>4. \A g \in Handles : HandleInv(g)'
            BY <1>0, <4>2, <4>3, HandleFrame DEF StreamInv
      <4> QED BY <4>2, <4>4 DEF StreamInv
    <3> QED BY <1>2, <3>1, <3>2 DEF Next
  <2>3. TypeOK'
        BY <2>1, <2>2 DEF TypeOK, HandleTypes, Enqueued
  <2> QED BY <2>1, <2>2, <2>3 DEF Inv
<1> QED BY <1>1, <1>2

\* They hold in every state.
LEMMA InvAlways == Spec => []Inv
<1> QED BY InvInit, InvStep, PTL DEF Spec

\* Every variable of the streams keeps its type: the counter of open streams never
\* goes below zero, and new_stream_id makes ids of the right width.
THEOREM TypeCorrect == Spec => []TypeOK
<1>1. Inv => TypeOK
      BY DEF Inv
<1> QED BY <1>1, InvAlways, PTL

\* However opens and closes of any number of threads interleave, and fail, the
\* counter is the number of places taken and the limit of open streams holds.
THEOREM CountSafe == Spec => []StreamsCounted
<1>1. Inv => StreamsCounted
  <2> SUFFICES ASSUME Inv
               PROVE  StreamsCounted
      OBVIOUS
  <2>1. openStreams = Cardinality(Counted) /\ Cardinality(Admitted) <= StreamsMax
        BY DEF Inv, CountInv, AdmittedInv
  <2>2. Admitted \in SUBSET Handles /\ Open \in SUBSET Admitted
        BY DEF Admitted, Open
  <2>3. Cardinality(Open) <= Cardinality(Admitted)
        BY <2>2, CountSubset
  <2>4. Cardinality(Admitted) \in Nat /\ Cardinality(Open) \in Nat
        BY <2>2, FS_Subset, FS_CardinalityType, StreamAssumption
  <2> QED BY <2>1, <2>3, <2>4, StreamAssumption DEF StreamsCounted
<1> QED BY <1>1, InvAlways, PTL

\* The blocks that a stream hands to the uplink are its bytes in order, for every
\* size of blocks, headers and writes, and wherever an allocation fails.
THEOREM FramingSafe == Spec => []WellFramed
<1>1. Inv => WellFramed
  <2> SUFFICES ASSUME Inv, NEW h \in Handles
               PROVE  LET s == out[h] IN
                      /\ \A i \in DOMAIN s :
                            /\ s[i].block.first <=> (i = 1)
                            /\ s[i].block.lo = (IF i = 1 THEN 0 ELSE s[i - 1].block.hi)
                            /\ i < Len(s) => block_space_get(s[i].block) = 0
                            /\ s[i].block.last => i = Len(s) /\ s[i].block.hi = bytes[h]
                                                  /\ pc[h] \notin {"idle", "write"}
                      /\ pc[h] \in {"idle", "write"} /\ s # <<>> => buf[h].lo = s[Len(s)].block.hi
      BY DEF WellFramed
  <2>1. HandleInv(h)
        BY DEF Inv, StreamInv
  <2>2. Framed(out[h]) /\ LastInv(h)
        BY <2>1 DEF HandleInv
  <2>3. pc[h] \in {"idle", "write"} => OpenInv(h)
        BY <2>1 DEF HandleInv, Open
  <2> QED BY <2>2, <2>3 DEF Framed, LastInv, OpenInv, AllFull, EndOf
<1> QED BY <1>1, InvAlways, PTL

\* No block holds more than its payload, and what pouch_stream_write has reported is
\* what was stored, also when a write ran out of memory.
THEOREM BytesSafe == Spec => []BytesAccounted
<1>1. Inv => BytesAccounted
  <2> SUFFICES ASSUME Inv, NEW h \in Handles
               PROVE  /\ buf[h].skip + (buf[h].hi - buf[h].lo) <= Cap
                      /\ pc[h] = "idle" => bytes[h] = buf[h].hi
      BY DEF BytesAccounted
  <2>1. HandleInv(h) /\ bytes[h] \in Nat
        BY DEF Inv, StreamInv, TypeOK
  <2>2. buf[h].skip + (buf[h].hi - buf[h].lo) <= Cap
        BY <2>1 DEF HandleInv
  <2>3. pc[h] = "idle" => want[h] = 0 /\ left[h] = 0 /\ bytes[h] + (want[h] - left[h]) = buf[h].hi
        BY <2>1 DEF HandleInv, Open, OpenInv
  <2>4. pc[h] = "idle" => bytes[h] = buf[h].hi
        BY <2>1, <2>3
  <2> QED BY <2>2, <2>4
<1> QED BY <1>1, InvAlways, PTL

=============================================================================
