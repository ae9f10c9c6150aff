-------------------------- MODULE UplinkEntryProofs --------------------------
(***************************************************************************)
(* The entries of the uplink, for every value of the constants of Uplink:  *)
(* they leave in the order in which they were written, and disappear in    *)
(* the ways that NothingLost names only, in every interleaving of the      *)
(* steps of Uplink and with any failure.                                   *)
(***************************************************************************)
EXTENDS UplinkProofs

-----------------------------------------------------------------------------
(* Entries of sequences of buffers *)

\* The entries are in increasing order within a sequence of buffers.
Ordered(s) ==
    \A i, j \in DOMAIN s :
        \A x \in DOMAIN s[i].entries, y \in DOMAIN s[j].entries :
            i < j \/ (i = j /\ x < y) => s[i].entries[x] < s[j].entries[y]

\* The entries of s are smaller than those of t.
Before(s, t) == \A x \in EntriesOf(s), y \in EntriesOf(t) : x < y

\* An entry of a sequence of buffers.
LEMMA EntryIn ==
    ASSUME NEW s, NEW e
    PROVE  e \in EntriesOf(s) <=>
               \E i \in DOMAIN s : \E x \in DOMAIN s[i].entries : e = s[i].entries[x]
BY DEF EntriesOf

\* Where the buffers of a concatenation c of s and t come from.
IsConcat(c, s, t) ==
    /\ Len(s) \in Nat
    /\ \A i \in DOMAIN s : i \in DOMAIN c /\ c[i] = s[i] /\ i \in Nat /\ i <= Len(s)
    /\ \A j \in DOMAIN t : /\ Len(s) + j \in DOMAIN c /\ c[Len(s) + j] = t[j]
                           /\ j \in Nat \ {0}
    /\ \A k \in DOMAIN c : k \in DOMAIN s \/ \E j \in DOMAIN t : k = Len(s) + j

\* A buffer of a concatenation is one of the first or of the second sequence.
LEMMA ConcatParts ==
    ASSUME NEW s \in Seq(Buffers), NEW t \in Seq(Buffers)
    PROVE  IsConcat(s \o t, s, t)
<1>1. /\ Len(s) \in Nat /\ Len(t) \in Nat
      /\ DOMAIN (s \o t) = 1 .. Len(s) + Len(t)
      /\ DOMAIN s = 1 .. Len(s) /\ DOMAIN t = 1 .. Len(t)
      OBVIOUS
<1>2. \A i \in 1 .. Len(s) : (s \o t)[i] = s[i]
      OBVIOUS
<1>3. \A j \in 1 .. Len(t) : (s \o t)[Len(s) + j] = t[j]
      OBVIOUS
<1>4. ASSUME NEW k \in 1 .. Len(s) + Len(t), k \notin 1 .. Len(s)
      PROVE  \E j \in 1 .. Len(t) : k = Len(s) + j
  <2>1. k - Len(s) \in 1 .. Len(t) /\ k = Len(s) + (k - Len(s))
        BY <1>1, <1>4
  <2> QED BY <2>1
<1>5. \A i \in 1 .. Len(s) : i \in 1 .. Len(s) + Len(t) /\ i \in Nat /\ i <= Len(s)
      BY <1>1
<1>6. \A j \in 1 .. Len(t) : Len(s) + j \in 1 .. Len(s) + Len(t) /\ j \in Nat \ {0}
      BY <1>1
<1> QED BY <1>1, <1>2, <1>3, <1>4, <1>5, <1>6 DEF IsConcat

\* The entries of a concatenation.
LEMMA EntriesConcat ==
    ASSUME NEW s \in Seq(Buffers), NEW t \in Seq(Buffers)
    PROVE  EntriesOf(s \o t) = EntriesOf(s) \cup EntriesOf(t)
<1> DEFINE c == s \o t
<1>0. IsConcat(c, s, t)
      BY ConcatParts
<1> HIDE DEF c
<1>1. /\ \A i \in DOMAIN s : i \in DOMAIN c /\ c[i] = s[i]
      /\ \A j \in DOMAIN t : Len(s) + j \in DOMAIN c /\ c[Len(s) + j] = t[j]
      /\ \A k \in DOMAIN c : k \in DOMAIN s \/ \E j \in DOMAIN t : k = Len(s) + j
      BY <1>0 DEF IsConcat
<1>2. ASSUME NEW e \in EntriesOf(c)
      PROVE  e \in EntriesOf(s) \/ e \in EntriesOf(t)
  <2>1. PICK k \in DOMAIN c : \E x \in DOMAIN c[k].entries : e = c[k].entries[x]
        BY <1>2, EntryIn
  <2>2. CASE k \in DOMAIN s
    <3>1. c[k] = s[k]
          BY <1>1, <2>2
    <3> QED BY <2>1, <2>2, <3>1, EntryIn
  <2>3. CASE \E j \in DOMAIN t : k = Len(s) + j
    <3>1. PICK j \in DOMAIN t : k = Len(s) + j
          BY <2>3
    <3>2. c[k] = t[j]
          BY <1>1, <3>1
    <3> QED BY <2>1, <3>1, <3>2, EntryIn
  <2> QED BY <1>1, <2>2, <2>3
<1>3. ASSUME NEW e \in EntriesOf(s)
      PROVE  e \in EntriesOf(c)
  <2>1. PICK i \in DOMAIN s : \E x \in DOMAIN s[i].entries : e = s[i].entries[x]
        BY <1>3, EntryIn
  <2>2. i \in DOMAIN c /\ c[i] = s[i]
        BY <1>1
  <2> QED BY <2>1, <2>2, EntryIn
<1>4. ASSUME NEW e \in EntriesOf(t)
      PROVE  e \in EntriesOf(c)
  <2>1. PICK j \in DOMAIN t : \E x \in DOMAIN t[j].entries : e = t[j].entries[x]
        BY <1>4, EntryIn
  <2>2. Len(s) + j \in DOMAIN c /\ c[Len(s) + j] = t[j]
        BY <1>1
  <2> QED BY <2>1, <2>2, EntryIn
<1> QED BY <1>2, <1>3, <1>4 DEF c

\* A concatenation is ordered when its parts are, and one is before the other.
LEMMA OrderedConcat ==
    ASSUME NEW s \in Seq(Buffers), NEW t \in Seq(Buffers)
    PROVE  Ordered(s \o t) <=> Ordered(s) /\ Ordered(t) /\ Before(s, t)
<1> DEFINE c == s \o t
<1>0. IsConcat(c, s, t)
      BY ConcatParts
<1> HIDE DEF c
<1>1. /\ Len(s) \in Nat
      /\ \A i \in DOMAIN s : i \in DOMAIN c /\ c[i] = s[i]
                             /\ i \in Nat /\ i <= Len(s)
      /\ \A j \in DOMAIN t : Len(s) + j \in DOMAIN c
                             /\ c[Len(s) + j] = t[j] /\ j \in Nat \ {0}
      /\ \A k \in DOMAIN c : \/ k \in DOMAIN s
                             \/ \E j \in DOMAIN t : k = Len(s) + j
      BY <1>0 DEF IsConcat
<1>2. ASSUME Ordered(c)
      PROVE  Ordered(s) /\ Ordered(t) /\ Before(s, t)
  <2>1. Ordered(s)
        BY <1>1, <1>2 DEF Ordered
  <2>2. Ordered(t)
    <3> SUFFICES ASSUME NEW i \in DOMAIN t, NEW j \in DOMAIN t,
                        NEW x \in DOMAIN t[i].entries, NEW y \in DOMAIN t[j].entries,
                        i < j \/ (i = j /\ x < y)
                 PROVE  t[i].entries[x] < t[j].entries[y]
        BY DEF Ordered
    <3>1. /\ Len(s) + i \in DOMAIN c /\ c[Len(s) + i] = t[i]
          /\ Len(s) + j \in DOMAIN c /\ c[Len(s) + j] = t[j]
          BY <1>1
    <3>2. Len(s) + i < Len(s) + j \/ (Len(s) + i = Len(s) + j /\ x < y)
          BY <1>1
    <3> QED BY <1>2, <3>1, <3>2 DEF Ordered
  <2>3. Before(s, t)
    <3> SUFFICES ASSUME NEW d \in EntriesOf(s), NEW e \in EntriesOf(t)
                 PROVE  d < e
        BY DEF Before
    <3>1. PICK i \in DOMAIN s : \E x \in DOMAIN s[i].entries : d = s[i].entries[x]
          BY EntryIn
    <3>2. PICK j \in DOMAIN t : \E y \in DOMAIN t[j].entries : e = t[j].entries[y]
          BY EntryIn
    <3>3. i < Len(s) + j
          BY <1>1
    <3>4. /\ i \in DOMAIN c /\ c[i] = s[i]
          /\ Len(s) + j \in DOMAIN c /\ c[Len(s) + j] = t[j]
          BY <1>1
    <3> QED BY <1>2, <3>1, <3>2, <3>3, <3>4 DEF Ordered
  <2> QED BY <2>1, <2>2, <2>3
<1>3. ASSUME Ordered(s), Ordered(t), Before(s, t)
      PROVE  Ordered(c)
  <2> SUFFICES ASSUME NEW k \in DOMAIN c, NEW l \in DOMAIN c,
                      NEW x \in DOMAIN c[k].entries, NEW y \in DOMAIN c[l].entries,
                      k < l \/ (k = l /\ x < y)
               PROVE  c[k].entries[x] < c[l].entries[y]
      BY DEF Ordered
  <2>1. CASE k \in DOMAIN s /\ l \in DOMAIN s
    <3>1. c[k] = s[k] /\ c[l] = s[l]
          BY <1>1, <2>1
    <3> QED BY <1>3, <2>1, <3>1 DEF Ordered
  <2>2. CASE k \in DOMAIN s /\ \E j \in DOMAIN t : l = Len(s) + j
    <3>1. PICK j \in DOMAIN t : l = Len(s) + j
          BY <2>2
    <3>2. c[k] = s[k] /\ c[l] = t[j]
          BY <1>1, <2>2, <3>1
    <3>3. c[k].entries[x] \in EntriesOf(s) /\ c[l].entries[y] \in EntriesOf(t)
          BY <2>2, <3>2, EntryIn
    <3> QED BY <1>3, <3>3 DEF Before
  <2>3. CASE (\E i \in DOMAIN t : k = Len(s) + i) /\ l \in DOMAIN s
    <3>1. PICK i \in DOMAIN t : k = Len(s) + i
          BY <2>3
    <3>2. l < k /\ k \in Nat /\ l \in Nat
          BY <1>1, <2>3, <3>1
    <3> QED BY <3>2
  <2>4. CASE (\E i \in DOMAIN t : k = Len(s) + i) /\ \E j \in DOMAIN t : l = Len(s) + j
    <3>1. PICK i \in DOMAIN t : k = Len(s) + i
          BY <2>4
    <3>2. PICK j \in DOMAIN t : l = Len(s) + j
          BY <2>4
    <3>3. c[k] = t[i] /\ c[l] = t[j]
          BY <1>1, <3>1, <3>2
    <3>4. i < j \/ (i = j /\ x < y)
          BY <1>1, <3>1, <3>2
    <3> QED BY <1>3, <3>3, <3>4 DEF Ordered
  <2> QED BY <1>1, <2>1, <2>2, <2>3, <2>4
<1> QED BY <1>2, <1>3 DEF c

\* A sequence without buffers has no entries.
LEMMA NoEntries ==
    /\ EntriesOf(<<>>) = {} /\ Ordered(<<>>)
BY DEF EntriesOf, Ordered

\* What is known of two parts u and v of the pipeline that were s and t.
Moved(s, t, u, v) ==
    /\ Ordered(u) /\ Ordered(v) /\ Before(u, v)
    /\ EntriesOf(u) \cup EntriesOf(v) = EntriesOf(s) \cup EntriesOf(t)
    /\ \A w : Before(w, s) /\ Before(w, t) => Before(w, u) /\ Before(w, v)
    /\ \A w : Before(s, w) /\ Before(t, w) => Before(u, w) /\ Before(v, w)

\* Moving buffers from one part of the pipeline to the next one keeps the order, in
\* the two parts and between them and any other part.
LEMMA Rebalance ==
    ASSUME NEW s \in Seq(Buffers), NEW t \in Seq(Buffers),
           NEW u \in Seq(Buffers), NEW v \in Seq(Buffers),
           s \o t = u \o v, Ordered(s), Ordered(t), Before(s, t)
    PROVE  Moved(s, t, u, v)
<1>1. Ordered(s \o t)
      BY OrderedConcat
<1>2. Ordered(u \o v)
      BY <1>1
<1>3. Ordered(u) /\ Ordered(v) /\ Before(u, v)
      BY <1>2, OrderedConcat
<1>4. EntriesOf(u \o v) = EntriesOf(u) \cup EntriesOf(v)
      BY EntriesConcat
<1>5. EntriesOf(s \o t) = EntriesOf(s) \cup EntriesOf(t)
      BY EntriesConcat
<1>6. EntriesOf(u) \cup EntriesOf(v) = EntriesOf(s) \cup EntriesOf(t)
      BY <1>4, <1>5
<1>7. /\ \A w : Before(w, s) /\ Before(w, t) => Before(w, u) /\ Before(w, v)
      /\ \A w : Before(s, w) /\ Before(t, w) => Before(u, w) /\ Before(v, w)
      BY <1>6 DEF Before
<1> QED BY <1>3, <1>6, <1>7 DEF Moved

\* Buffers with the same entries.
LEMMA SameEntries ==
    ASSUME NEW s, NEW t, DOMAIN s = DOMAIN t,
           \A i \in DOMAIN s : s[i].entries = t[i].entries
    PROVE  /\ EntriesOf(s) = EntriesOf(t)
           /\ Ordered(s) => Ordered(t)
BY DEF EntriesOf, Ordered

\* Buffers without entries are in order, and before and after everything.
LEMMA EmptyOrdered ==
    ASSUME NEW s, EntriesOf(s) = {}
    PROVE  /\ Ordered(s)
           /\ \A w : Before(w, s) /\ Before(s, w)
<1>1. \A i \in DOMAIN s : \A x \in DOMAIN s[i].entries : FALSE
      BY EntryIn
<1> QED BY <1>1 DEF Ordered, Before

\* The entries of one buffer.
LEMMA OneBuffer ==
    ASSUME NEW b \in Buffers
    PROVE  /\ EntriesOf(<<b>>) = {b.entries[x] : x \in DOMAIN b.entries}
           /\ Ordered(<<b>>) <=>
                  \A x, y \in DOMAIN b.entries : x < y => b.entries[x] < b.entries[y]
<1>1. DOMAIN <<b>> = {1} /\ <<b>>[1] = b
      OBVIOUS
<1> DEFINE s == <<b>>
<1>2. DOMAIN s = {1} /\ s[1] = b
      BY <1>1
<1> HIDE DEF s
<1>3. EntriesOf(s) = {b.entries[x] : x \in DOMAIN b.entries}
      BY <1>2 DEF EntriesOf
<1>4. Ordered(s) <=> \A x, y \in DOMAIN b.entries : x < y => b.entries[x] < b.entries[y]
      BY <1>2 DEF Ordered
<1> QED BY <1>3, <1>4 DEF s

\* A new block and a pouch header have no entries.
LEMMA NewEntries ==
    /\ EntriesOf(<<block_alloc>>) = {}
    /\ \A n \in Nat : EntriesOf(<<pouch_header_create(n)>>) = {}
<1>1. block_alloc.entries = <<>> /\ DOMAIN block_alloc.entries = {}
      BY DEF block_alloc
<1>2. \A n \in Nat : DOMAIN pouch_header_create(n).entries = {}
      BY DEF pouch_header_create
<1>3. EntriesOf(<<block_alloc>>) = {}
      BY <1>1, BlockAllocType, OneBuffer
<1>4. ASSUME NEW n \in Nat
      PROVE  EntriesOf(<<pouch_header_create(n)>>) = {}
      BY <1>2, HeaderType, OneBuffer
<1> QED BY <1>3, <1>4

\* Writing an entry that is larger than those in the block keeps the block in
\* order, and an accepted entry is in the block.
LEMMA WriteIntoOrder ==
    ASSUME NEW b \in Buffers, NEW len \in Nat, NEW e \in Nat, WriteInto(b, len, e),
           Ordered(<<b>>), \A x \in EntriesOf(<<b>>) : x < e
    PROVE  /\ Ordered(block')
           /\ EntriesOf(<<b>>) \subseteq EntriesOf(block')
           /\ EntriesOf(block') \subseteq EntriesOf(<<b>>) \cup {e}
           /\ \/ accepted' = accepted
              \/ accepted' = accepted \cup {e} /\ e \in EntriesOf(block')
<1>1. CASE ~Fits(b, len)
      BY <1>1 DEF WriteInto
<1>2. CASE Fits(b, len)
  <2> DEFINE c == write_entry(b, e, len)
  <2>1. block' = <<c>> /\ accepted' = accepted \cup {e}
        BY <1>2 DEF WriteInto
  <2>2. c \in Buffers
        BY WriteEntryType
  <2>3. c.entries = Append(b.entries, e)
        BY DEF write_entry, Buffers
  <2>4. b.entries \in Seq(Nat)
        BY DEF Buffers
  <2> HIDE DEF c
  <2> DEFINE s == b.entries
             n == Len(s)
  <2>5. /\ n \in Nat /\ DOMAIN s = 1 .. n /\ DOMAIN c.entries = 1 .. n + 1
        /\ \A x \in 1 .. n : c.entries[x] = s[x]
        /\ c.entries[n + 1] = e
        BY <2>3, <2>4
  <2> HIDE DEF s, n
  <2>6. /\ EntriesOf(<<b>>) = {s[x] : x \in 1 .. n}
        /\ \A x, y \in 1 .. n : x < y => s[x] < s[y]
        BY <2>5, OneBuffer DEF s
  <2>7. EntriesOf(<<c>>) = {c.entries[x] : x \in 1 .. n + 1}
        BY <2>2, <2>5, OneBuffer
  <2>8. \A x \in 1 .. n + 1 : x \in 1 .. n \/ x = n + 1
        BY <2>5
  <2>9. 1 .. n \subseteq 1 .. n + 1 /\ n + 1 \in 1 .. n + 1
        BY <2>5
  <2>10. EntriesOf(<<c>>) = EntriesOf(<<b>>) \cup {e}
        BY <2>5, <2>6, <2>7, <2>8, <2>9
  <2>11. \A x, y \in 1 .. n + 1 : x < y => c.entries[x] < c.entries[y]
    <3> SUFFICES ASSUME NEW x \in 1 .. n + 1, NEW y \in 1 .. n + 1, x < y
                 PROVE  c.entries[x] < c.entries[y]
        OBVIOUS
    <3>1. x \in 1 .. n
          BY <2>5
    <3>2. s[x] < e /\ c.entries[x] = s[x]
          BY <2>5, <2>6, <3>1
    <3>3. CASE y = n + 1
          BY <2>5, <3>2, <3>3
    <3>4. CASE y \in 1 .. n
          BY <2>5, <2>6, <3>1, <3>4
    <3> QED BY <2>8, <3>3, <3>4
  <2>12. Ordered(<<c>>)
        BY <2>2, <2>5, <2>11, OneBuffer
  <2> QED BY <2>1, <2>10, <2>12
<1> QED BY <1>1, <1>2

-----------------------------------------------------------------------------
(* The pipeline *)

\* The parts of the pipeline, front to back, are in order and follow each other.
InLine(a, b, c, d, e, f) ==
    /\ Ordered(a) /\ Ordered(b) /\ Ordered(c) /\ Ordered(d) /\ Ordered(e) /\ Ordered(f)
    /\ Before(a, b) /\ Before(a, c) /\ Before(a, d) /\ Before(a, e) /\ Before(a, f)
    /\ Before(b, c) /\ Before(b, d) /\ Before(b, e) /\ Before(b, f)
    /\ Before(c, d) /\ Before(c, e) /\ Before(c, f)
    /\ Before(d, e) /\ Before(d, f)
    /\ Before(e, f)

\* The entries in the pipeline.
Written == EntriesOf(wire) \cup EntriesOf(reader) \cup EntriesOf(transQ)
           \cup EntriesOf(wbuf) \cup EntriesOf(procQ) \cup EntriesOf(block)

\* Thread a has handed the full block over, or is about to, and waits for a new one.
Waiting(a) == apc[a] = "kick" \/ (apc[a] \in {"next", "tail"} /\ alen[a] # 0)

\* What makes EntriesInOrder inductive: the number of the entry being written is
\* larger than those in the pipeline, while its writer waits for a new block too.
OrderInv ==
    /\ InLine(wire, reader, transQ, wbuf, procQ, block)
    /\ EntriesOf(header) = {}
    /\ \A n \in Written : n <= writes
    /\ \A a \in Apps : Waiting(a) => \A n \in Written : n < writes

\* The parts of the pipeline are sequences of buffers.
LEMMA PartTypes ==
    ASSUME TypeOK
    PROVE  /\ wire \in Seq(Buffers) /\ reader \in Seq(Buffers) /\ transQ \in Seq(Buffers)
           /\ wbuf \in Seq(Buffers) /\ procQ \in Seq(Buffers) /\ block \in Seq(Buffers)
           /\ header \in Seq(Buffers)
BY DEF TypeOK

\* The pipeline consists of its parts.
LEMMA PipelineParts ==
    ASSUME TypeOK
    PROVE  /\ EntriesOf(Pipeline) = Written
           /\ InLine(wire, reader, transQ, wbuf, procQ, block) => Ordered(Pipeline)
<1>t. /\ wire \in Seq(Buffers) /\ reader \in Seq(Buffers) /\ transQ \in Seq(Buffers)
      /\ wbuf \in Seq(Buffers) /\ procQ \in Seq(Buffers) /\ block \in Seq(Buffers)
      BY PartTypes
<1> DEFINE p2 == wire \o reader
           p3 == p2 \o transQ
           p4 == p3 \o wbuf
           p5 == p4 \o procQ
           p6 == p5 \o block
<1>6. Pipeline = p6
      BY DEF Pipeline, PouchBuffers
<1> HIDE DEF p6
<1>e6. p5 \in Seq(Buffers) => /\ EntriesOf(p6) = EntriesOf(p5) \cup EntriesOf(block)
                              /\ Ordered(p5) /\ Ordered(block) /\ Before(p5, block) => Ordered(p6)
      BY <1>t, EntriesConcat, OrderedConcat DEF p6
<1> HIDE DEF p5
<1>e5. p4 \in Seq(Buffers) => /\ EntriesOf(p5) = EntriesOf(p4) \cup EntriesOf(procQ)
                              /\ Ordered(p4) /\ Ordered(procQ) /\ Before(p4, procQ) => Ordered(p5)
                              /\ p5 \in Seq(Buffers)
      BY <1>t, EntriesConcat, OrderedConcat, ConcatProperties DEF p5
<1> HIDE DEF p4
<1>e4. p3 \in Seq(Buffers) => /\ EntriesOf(p4) = EntriesOf(p3) \cup EntriesOf(wbuf)
                              /\ Ordered(p3) /\ Ordered(wbuf) /\ Before(p3, wbuf) => Ordered(p4)
                              /\ p4 \in Seq(Buffers)
      BY <1>t, EntriesConcat, OrderedConcat, ConcatProperties DEF p4
<1> HIDE DEF p3
<1>e3. p2 \in Seq(Buffers) => /\ EntriesOf(p3) = EntriesOf(p2) \cup EntriesOf(transQ)
                              /\ Ordered(p2) /\ Ordered(transQ) /\ Before(p2, transQ) => Ordered(p3)
                              /\ p3 \in Seq(Buffers)
      BY <1>t, EntriesConcat, OrderedConcat, ConcatProperties DEF p3
<1> HIDE DEF p2
<1>e2. /\ EntriesOf(p2) = EntriesOf(wire) \cup EntriesOf(reader)
       /\ Ordered(wire) /\ Ordered(reader) /\ Before(wire, reader) => Ordered(p2)
       /\ p2 \in Seq(Buffers)
      BY <1>t, EntriesConcat, OrderedConcat, ConcatProperties DEF p2
<1>7. EntriesOf(p6) = Written
      BY <1>e2, <1>e3, <1>e4, <1>e5, <1>e6 DEF Written
<1>8. ASSUME InLine(wire, reader, transQ, wbuf, procQ, block)
      PROVE  Ordered(p6)
  <2>1. Before(p2, transQ) /\ Before(p2, wbuf) /\ Before(p2, procQ) /\ Before(p2, block)
        BY <1>e2, <1>8 DEF InLine, Before
  <2>2. Before(p3, wbuf) /\ Before(p3, procQ) /\ Before(p3, block)
        BY <1>e2, <1>e3, <1>8, <2>1 DEF InLine, Before
  <2>3. Before(p4, procQ) /\ Before(p4, block)
        BY <1>e2, <1>e3, <1>e4, <1>8, <2>2 DEF InLine, Before
  <2>4. Before(p5, block)
        BY <1>e2, <1>e3, <1>e4, <1>e5, <1>8, <2>3 DEF InLine, Before
  <2> QED BY <1>e2, <1>e3, <1>e4, <1>e5, <1>e6, <1>8, <2>1, <2>2, <2>3, <2>4 DEF InLine
<1> QED BY <1>6, <1>7, <1>8

-----------------------------------------------------------------------------
(* Entries leave in the order in which they were written *)

\* A pointer that is not NULL is the sequence of what it points to.
LEMMA Singleton ==
    ASSUME NEW s \in Seq(Buffers), Len(s) = 1
    PROVE  s = <<s[1]>> /\ s[1] \in Buffers
OBVIOUS

\* The first buffer of a queue is taken into a hand that was empty.
LEMMA TakeOver ==
    ASSUME NEW q \in Seq(Buffers), q # <<>>
    PROVE  /\ <<Head(q)>> \in Seq(Buffers) /\ Tail(q) \in Seq(Buffers)
           /\ <<>> \o q = <<Head(q)>> \o Tail(q)
<1>1. <<Head(q)>> \in Seq(Buffers) /\ Tail(q) \in Seq(Buffers)
      OBVIOUS
<1>2. <<Head(q)>> \o Tail(q) = q
      OBVIOUS
<1>3. <<>> \o q = q
      BY ConcatEmptySeq
<1> QED BY <1>1, <1>2, <1>3

\* The other direction: what is in the hand is put at the end of a queue.
LEMMA PutDown ==
    ASSUME NEW q \in Seq(Buffers), NEW h \in Seq(Buffers)
    PROVE  /\ q \o h \in Seq(Buffers) /\ <<>> \in Seq(Buffers)
           /\ q \o h = (q \o h) \o <<>>
<1>1. q \o h \in Seq(Buffers)
      BY ConcatProperties
<1> DEFINE c == q \o h
<1>2. c \in Seq(Buffers)
      BY <1>1
<1> HIDE DEF c
<1>3. c \o <<>> = c
      BY <1>2, ConcatEmptySeq
<1> QED BY <1>1, <1>3, EmptyType DEF c

\* The steps of an application thread keep the entries in order.
LEMMA AppOrderInv ==
    ASSUME TypeOK, MutexInv, OrderInv, NEW a \in Apps, App(a)
    PROVE  OrderInv'
<1>f. UNCHANGED <<wire, reader, transQ, wbuf, header>>
      BY AppFrame
<1>t. /\ procQ \in Seq(Buffers) /\ block \in Seq(Buffers)
      /\ apc \in [Apps -> AppPCs] /\ alen \in [Apps -> Nat] /\ writes \in Nat
      BY DEF TypeOK
<1>l. \A len \in EntryLens : len \in Nat
      BY UplinkAssumption
<1>n. Written \subseteq Nat
  <2>1. /\ wire \in Seq(Buffers) /\ reader \in Seq(Buffers) /\ transQ \in Seq(Buffers)
        /\ wbuf \in Seq(Buffers) /\ procQ \in Seq(Buffers) /\ block \in Seq(Buffers)
        BY PartTypes
  <2> QED BY <2>1, EntriesOfType DEF Written
<1>w. ASSUME NEW b \in Buffers, NEW len \in Nat, NEW e \in Nat, WriteInto(b, len, e),
             UNCHANGED procQ, Ordered(<<b>>), EntriesOf(<<b>>) = EntriesOf(block),
             \A n \in Written : n < e
      PROVE  /\ InLine(wire, reader, transQ, wbuf, procQ, block)'
             /\ \A n \in Written' : n <= e
  <2>1. \A x \in EntriesOf(<<b>>) : x < e
        BY <1>w DEF Written
  <2>2. Ordered(block') /\ EntriesOf(block') \subseteq EntriesOf(block) \cup {e}
        BY <1>w, <2>1, WriteIntoOrder
  <2>3. ASSUME NEW s, Before(s, block), EntriesOf(s) \subseteq Written
        PROVE  Before(s, block')
        BY <1>w, <2>2, <2>3 DEF Before
  <2>4. /\ EntriesOf(wire) \subseteq Written /\ EntriesOf(reader) \subseteq Written
        /\ EntriesOf(transQ) \subseteq Written /\ EntriesOf(wbuf) \subseteq Written
        /\ EntriesOf(procQ) \subseteq Written
        BY DEF Written
  <2>5. /\ Before(wire, block') /\ Before(reader, block') /\ Before(transQ, block')
        /\ Before(wbuf, block') /\ Before(procQ, block')
        BY <2>3, <2>4 DEF OrderInv, InLine
  <2>6. InLine(wire, reader, transQ, wbuf, procQ, block')
        BY <2>2, <2>5 DEF OrderInv, InLine
  <2>7. Written' \subseteq Written \cup {e}
        BY <1>f, <1>w, <2>2 DEF Written
  <2>8. \A n \in Written : n <= e
        BY <1>w, <1>n
  <2>9. \A n \in Written' : n <= e
        BY <2>7, <2>8
  <2> QED BY <1>f, <1>w, <2>6, <2>9
<1>m. ASSUME HandOver
      PROVE  InLine(wire, reader, transQ, wbuf, procQ, block)' /\ Written' \subseteq Written
  <2>1. CASE UNCHANGED <<procQ, block, lost>>
        BY <1>f, <2>1 DEF OrderInv, Written
  <2>2. CASE procQ' = procQ \o block /\ block' = <<>>
    <3> DEFINE u == procQ'
               v == block'
    <3>1. u \in Seq(Buffers) /\ v \in Seq(Buffers) /\ procQ \o block = u \o v
          BY <1>t, <2>2, PutDown
    <3> HIDE DEF u, v
    <3>2. Ordered(procQ) /\ Ordered(block) /\ Before(procQ, block)
          BY DEF OrderInv, InLine
    <3>3. Moved(procQ, block, u, v)
          BY <1>t, <3>1, <3>2, Rebalance
    <3>4. InLine(wire, reader, transQ, wbuf, u, v)
          BY <3>3 DEF OrderInv, InLine, Moved
    <3>5. Written' \subseteq Written
          BY <1>f, <3>3 DEF Written, Moved, u, v
    <3> QED BY <1>f, <3>4, <3>5 DEF u, v
  <2>3. CASE UNCHANGED procQ /\ block' = <<>>
    <3>1. EntriesOf(block') = {} /\ Ordered(block') /\ \A w : Before(w, block')
          BY <2>3, NoEntries, EmptyOrdered
    <3>2. InLine(wire, reader, transQ, wbuf, procQ, block')
          BY <3>1 DEF OrderInv, InLine
    <3>3. Written' \subseteq Written
          BY <1>f, <2>3, <3>1 DEF Written
    <3> QED BY <1>f, <2>3, <3>2, <3>3
  <2> QED BY <1>m, <2>1, <2>2, <2>3 DEF HandOver
<1>a. /\ block_alloc \in Buffers /\ Ordered(<<block_alloc>>)
      /\ EntriesOf(<<block_alloc>>) = {}
      BY BlockAllocType, NewEntries, EmptyOrdered
<1>e. EntriesOf(<<>>) = {}
      BY NoEntries
<1>k. mut = {} => \A b \in Apps : ~Waiting(b)
      BY DEF MutexInv, Waiting
<1>k2. UNCHANGED <<apc, alen>> => \A b \in Apps : Waiting(b)' => Waiting(b)
      BY DEF Waiting
<1>1. ASSUME NEW len \in EntryLens, EntryWriteNew(a, len)
      PROVE  OrderInv'
  <2>1. /\ mut = {} /\ block = <<>> /\ writes' = writes + 1 /\ UNCHANGED <<procQ, apc, alen>>
        /\ WriteInto(block_alloc, len, writes + 1)
        BY <1>1 DEF EntryWriteNew, uplinkVars, threadVars
  <2>2. \A n \in Written : n < writes + 1
        BY <1>t, <1>n DEF OrderInv
  <2>3. /\ InLine(wire, reader, transQ, wbuf, procQ, block)'
        /\ \A n \in Written' : n <= writes + 1
    <3>1. writes + 1 \in Nat /\ len \in Nat
          BY <1>t, <1>l
    <3>2. EntriesOf(<<block_alloc>>) = EntriesOf(block)
          BY <1>a, <1>e, <2>1
    <3> QED BY <1>a, <2>1, <2>2, <3>1, <3>2, <1>w
  <2> QED BY <1>f, <1>k, <1>k2, <2>1, <2>3 DEF OrderInv
<1>2. ASSUME NEW len \in EntryLens, EntryWriteFits(a, len)
      PROVE  OrderInv'
  <2>1. /\ mut = {} /\ block # <<>> /\ writes' = writes + 1 /\ UNCHANGED <<procQ, apc, alen>>
        /\ WriteInto(block[1], len, writes + 1)
        BY <1>2 DEF EntryWriteFits, uplinkVars, threadVars
  <2>2. \A n \in Written : n < writes + 1
        BY <1>t, <1>n DEF OrderInv
  <2>3. Len(block) = 1
        BY <2>1, LengthTypes
  <2>4. block = <<block[1]>> /\ block[1] \in Buffers
        BY <1>t, <2>3, Singleton
  <2>5. Ordered(block)
        BY DEF OrderInv, InLine
  <2> DEFINE b == block[1]
  <2>6. /\ b \in Buffers /\ Ordered(<<b>>) /\ EntriesOf(<<b>>) = EntriesOf(block)
        /\ WriteInto(b, len, writes + 1)
        BY <2>1, <2>4, <2>5
  <2> HIDE DEF b
  <2>7. /\ InLine(wire, reader, transQ, wbuf, procQ, block)'
        /\ \A n \in Written' : n <= writes + 1
        BY <1>t, <1>l, <2>1, <2>2, <2>6, <1>w
  <2> QED BY <1>f, <1>k, <1>k2, <2>1, <2>7 DEF OrderInv
<1>3. ASSUME NEW len \in EntryLens, EntryWriteFull(a, len)
      PROVE  OrderInv'
  <2>1. writes' = writes + 1 /\ HandOver
        BY <1>3, AppHandsOver DEF EntryWriteFull
  <2>2. /\ InLine(wire, reader, transQ, wbuf, procQ, block)'
        /\ Written' \subseteq Written
        BY <2>1, <1>m
  <2>3. \A n \in Written' : n <= writes' /\ n < writes'
        BY <1>t, <1>n, <2>1, <2>2 DEF OrderInv
  <2> QED BY <1>f, <2>2, <2>3 DEF OrderInv
<1>4. CASE EntryWriteRetry(a)
  <2>1. /\ apc[a] = "kick" /\ apc' = [apc EXCEPT ![a] = "idle"] /\ UNCHANGED <<procQ, writes>>
        /\ \/ WriteInto(block_alloc, alen[a], writes)
           \/ UNCHANGED block
        BY <1>4 DEF EntryWriteRetry
  <2>2. block = <<>> /\ \A b \in Apps : ~Waiting(b)'
    <3>1. mut = {a} /\ block = <<>>
          BY <2>1 DEF MutexInv
    <3>2. \A b \in Apps : b # a => apc[b] \notin {"next", "tail", "kick"}
          BY <3>1 DEF MutexInv
    <3> QED BY <1>t, <2>1, <3>1, <3>2 DEF Waiting
  <2>3. \A n \in Written : n < writes
        BY <2>1 DEF OrderInv, Waiting
  <2>4. CASE UNCHANGED block
    <3>1. InLine(wire, reader, transQ, wbuf, procQ, block)'
          BY <1>f, <2>1, <2>4 DEF OrderInv
    <3>2. Written' = Written
          BY <1>f, <2>1, <2>4 DEF Written
    <3> QED BY <1>f, <2>1, <2>2, <3>1, <3>2 DEF OrderInv
  <2>5. CASE WriteInto(block_alloc, alen[a], writes)
    <3>1. alen[a] \in Nat
          BY <1>t
    <3>2. /\ InLine(wire, reader, transQ, wbuf, procQ, block)'
          /\ \A n \in Written' : n <= writes
          BY <1>t, <1>a, <1>e, <2>1, <2>2, <2>3, <2>5, <3>1, <1>w
    <3> QED BY <1>f, <2>1, <2>2, <3>2 DEF OrderInv
  <2> QED BY <2>1, <2>4, <2>5
<1>5. ASSUME HandOver, UNCHANGED writes, \A b \in Apps : Waiting(b)' => Waiting(b)
      PROVE  OrderInv'
  <2>1. /\ InLine(wire, reader, transQ, wbuf, procQ, block)'
        /\ Written' \subseteq Written
        BY <1>5, <1>m
  <2> QED BY <1>f, <1>5, <2>1 DEF OrderInv
<1>6. CASE CloseEntryBlock(a)
  <2>1. HandOver /\ UNCHANGED writes
        BY <1>6, AppHandsOver DEF CloseEntryBlock, histVars
  <2>2. \A b \in Apps : Waiting(b)' => Waiting(b)
    <3>1. CASE block # <<>>
      <4>1. Enqueue(a, 0)
            BY <1>6, <3>1 DEF CloseEntryBlock
      <4>2. \A b \in Apps : b # a => apc'[b] = apc[b] /\ alen'[b] = alen[b]
            BY <1>t, <4>1 DEF Enqueue
      <4>3. alen'[a] = 0 /\ apc'[a] # "kick"
            BY <1>t, <4>1 DEF Enqueue, Submitting
      <4> QED BY <4>2, <4>3 DEF Waiting
    <3>2. CASE block = <<>>
      <4>1. apc' = [apc EXCEPT ![a] = "submit"] /\ UNCHANGED alen
            BY <1>6, <3>2 DEF CloseEntryBlock
      <4> QED BY <1>t, <4>1 DEF Waiting
    <3> QED BY <3>1, <3>2
  <2> QED BY <1>5, <2>1, <2>2
<1>7. CASE Close(a) \/ CloseTimeout(a) \/ CloseKick(a) \/ CloseSubmit(a)
  <2>1. HandOver /\ UNCHANGED <<writes, alen>>
        BY <1>7, AppHandsOver DEF Close, CloseTimeout, CloseKick, CloseSubmit, histVars
  <2>2. \E v \in {"lock", "submit", "idle"} : apc' = [apc EXCEPT ![a] = v]
        BY <1>7 DEF Close, CloseTimeout, CloseKick, CloseSubmit
  <2>3. \A b \in Apps : Waiting(b)' => Waiting(b)
        BY <1>t, <2>1, <2>2 DEF Waiting
  <2> QED BY <1>5, <2>1, <2>3
<1>8. CASE AppendNext(a) \/ AppendStray(a) \/ AppendTail(a)
  <2>1. HandOver /\ UNCHANGED <<writes, alen>> /\ apc[a] \in {"next", "tail"}
        BY <1>8, AppHandsOver DEF AppendNext, AppendStray, AppendTail, histVars
  <2>2. \E v \in {"tail", Submitting(alen[a])} : apc' = [apc EXCEPT ![a] = v]
        BY <1>8 DEF AppendNext, AppendStray, AppendTail
  <2>3. \A b \in Apps : Waiting(b)' => Waiting(b)
    <3>1. \A b \in Apps : b # a => apc'[b] = apc[b]
          BY <1>t, <2>2
    <3>2. apc'[a] \in {"tail", Submitting(alen[a])}
          BY <1>t, <2>2
    <3>3. Waiting(a)' => alen[a] # 0
          BY <2>1, <3>2 DEF Waiting, Submitting
    <3> QED BY <2>1, <3>1, <3>3 DEF Waiting
  <2> QED BY <1>5, <2>1, <2>3
<1> QED BY <1>1, <1>2, <1>3, <1>4, <1>6, <1>7, <1>8 DEF App

\* Steps that write no entry keep the bounds on the numbers.
LEMMA NoNewEntry ==
    ASSUME OrderInv, UNCHANGED <<writes, apc, alen>>, Written' \subseteq Written,
           InLine(wire, reader, transQ, wbuf, procQ, block)', EntriesOf(header') = {}
    PROVE  OrderInv'
<1>1. \A n \in Written' : n <= writes
      BY DEF OrderInv
<1>2. \A a \in Apps : Waiting(a) => \A n \in Written' : n < writes
      BY DEF OrderInv
<1>3. \A a \in Apps : Waiting(a)' => Waiting(a)
      BY DEF Waiting
<1> QED BY <1>1, <1>2, <1>3 DEF OrderInv

\* The steps of process_blocks keep the entries in order.
LEMMA WorkerOrderInv ==
    ASSUME TypeOK, OrderInv, Worker
    PROVE  OrderInv'
<1>f. UNCHANGED <<wire, reader, block, apc, alen, writes>>
      BY WorkerFrame
<1>t. /\ transQ \in Seq(Buffers) /\ wbuf \in Seq(Buffers) /\ procQ \in Seq(Buffers)
      /\ header \in Seq(Buffers)
      BY PartTypes
<1>i. InLine(wire, reader, transQ, wbuf, procQ, block) /\ EntriesOf(header) = {}
      BY DEF OrderInv
<1>1. CASE WorkerTake
  <2>1. /\ wpc = "loop" /\ procQ # <<>> /\ wbuf' = <<Head(procQ)>> /\ procQ' = Tail(procQ)
        /\ UNCHANGED <<transQ, header>>
        BY <1>1 DEF WorkerTake, LoopCondition
  <2>2. wbuf = <<>>
    <3>1. Len(wbuf) = 0
          BY <2>1 DEF TypeOK
    <3> QED BY <1>t, <3>1, EmptySeq
  <2> DEFINE u == wbuf'
             v == procQ'
  <2>3. u \in Seq(Buffers) /\ v \in Seq(Buffers) /\ wbuf \o procQ = u \o v
        BY <1>t, <2>1, <2>2, TakeOver
  <2> HIDE DEF u, v
  <2>4. Ordered(wbuf) /\ Ordered(procQ) /\ Before(wbuf, procQ)
        BY <1>i DEF InLine
  <2>5. Moved(wbuf, procQ, u, v)
        BY <1>t, <2>3, <2>4, Rebalance
  <2>6. InLine(wire, reader, transQ, u, v, block)
        BY <1>i, <2>5 DEF InLine, Moved
  <2>7. InLine(wire, reader, transQ, wbuf, procQ, block)'
        BY <1>f, <2>1, <2>6 DEF u, v
  <2>8. Written' \subseteq Written
        BY <1>f, <2>1, <2>5 DEF Written, Moved, u, v
  <2> QED BY <1>f, <1>i, <2>1, <2>7, <2>8, NoNewEntry
<1>2. CASE WorkerEncrypt
  <2>1. UNCHANGED <<procQ, transQ, header>>
        BY <1>2 DEF WorkerEncrypt, uplinkVars
  <2>2. /\ Ordered(wbuf') /\ EntriesOf(wbuf') \subseteq EntriesOf(wbuf)
    <3>1. CASE wbuf' = <<>>
          BY <3>1, NoEntries
    <3>2. CASE wbuf' = <<[wbuf[1] EXCEPT !.pouch = id]>>
      <4>1. Len(wbuf) = 1
            BY <1>2 DEF TypeOK, WorkerEncrypt
      <4>2. wbuf = <<wbuf[1]>> /\ wbuf[1] \in Buffers
            BY <1>t, <4>1, Singleton
      <4> DEFINE b == wbuf[1]
                 c == [b EXCEPT !.pouch = id]
      <4>3. c.entries = b.entries
            BY <4>2 DEF Buffers
      <4>4. wbuf = <<b>> /\ wbuf' = <<c>>
            BY <3>2, <4>2
      <4> HIDE DEF b, c
      <4>5. DOMAIN wbuf = DOMAIN wbuf' /\ \A i \in DOMAIN wbuf : wbuf[i].entries = wbuf'[i].entries
            BY <4>3, <4>4
      <4>6. Ordered(wbuf)
            BY <1>i DEF InLine
      <4> QED BY <4>5, <4>6, SameEntries
    <3> QED BY <1>2, <3>1, <3>2 DEF WorkerEncrypt
  <2>3. InLine(wire, reader, transQ, wbuf', procQ, block)
    <3>1. /\ Before(wire, wbuf') /\ Before(reader, wbuf') /\ Before(transQ, wbuf')
          /\ Before(wbuf', procQ) /\ Before(wbuf', block)
          BY <1>i, <2>2 DEF InLine, Before
    <3> QED BY <1>i, <2>2, <3>1 DEF InLine
  <2>4. InLine(wire, reader, transQ, wbuf, procQ, block)'
        BY <1>f, <2>1, <2>3
  <2>5. Written' \subseteq Written
        BY <1>f, <2>1, <2>2 DEF Written
  <2> QED BY <1>f, <1>i, <2>1, <2>4, <2>5, NoNewEntry
<1>3. CASE WorkerHeader
  <2>1. transQ' = transQ \o header /\ UNCHANGED <<procQ, wbuf, header>>
        BY <1>3 DEF WorkerHeader
  <2>2. EntriesOf(transQ') = EntriesOf(transQ)
    <3>1. EntriesOf(transQ \o header) = EntriesOf(transQ) \cup EntriesOf(header)
          BY <1>t, EntriesConcat
    <3> QED BY <1>i, <2>1, <3>1
  <2>3. Ordered(transQ')
    <3>1. Ordered(header) /\ Before(transQ, header) /\ Ordered(transQ)
          BY <1>i, EmptyOrdered DEF InLine
    <3> QED BY <1>t, <2>1, <3>1, OrderedConcat
  <2>4. InLine(wire, reader, transQ', wbuf, procQ, block)
    <3>1. /\ Before(wire, transQ') /\ Before(reader, transQ')
          /\ Before(transQ', wbuf) /\ Before(transQ', procQ) /\ Before(transQ', block)
          BY <1>i, <2>2 DEF InLine, Before
    <3> QED BY <1>i, <2>3, <3>1 DEF InLine
  <2>5. InLine(wire, reader, transQ, wbuf, procQ, block)'
        BY <1>f, <2>1, <2>4
  <2>6. Written' \subseteq Written
        BY <1>f, <2>1, <2>2 DEF Written
  <2> QED BY <1>f, <1>i, <2>1, <2>5, <2>6, NoNewEntry
<1>4. CASE WorkerSubmit
  <2>1. transQ' = transQ \o wbuf /\ wbuf' = <<>> /\ UNCHANGED <<procQ, header>>
        BY <1>4 DEF WorkerSubmit
  <2> DEFINE u == transQ'
             v == wbuf'
  <2>2. u \in Seq(Buffers) /\ v \in Seq(Buffers) /\ transQ \o wbuf = u \o v
        BY <1>t, <2>1, PutDown
  <2> HIDE DEF u, v
  <2>3. Ordered(transQ) /\ Ordered(wbuf) /\ Before(transQ, wbuf)
        BY <1>i DEF InLine
  <2>4. Moved(transQ, wbuf, u, v)
        BY <1>t, <2>2, <2>3, Rebalance
  <2>5. InLine(wire, reader, u, v, procQ, block)
        BY <1>i, <2>4 DEF InLine, Moved
  <2>6. InLine(wire, reader, transQ, wbuf, procQ, block)'
        BY <1>f, <2>1, <2>5 DEF u, v
  <2>7. Written' \subseteq Written
        BY <1>f, <2>1, <2>4 DEF Written, Moved, u, v
  <2> QED BY <1>f, <1>i, <2>1, <2>6, <2>7, NoNewEntry
<1>5. CASE ~WorkerTake /\ ~WorkerEncrypt /\ ~WorkerHeader /\ ~WorkerSubmit
  <2>1. UNCHANGED <<procQ, wbuf, transQ>> /\ (header' = header \/ header' = <<>>)
        BY <1>5 DEF Worker, WorkerBegin, WorkerDetach, WorkerLeave, WorkerExit, WorkerClose,
                    uplinkVars
  <2>2. EntriesOf(header') = {}
        BY <1>i, <2>1, NoEntries
  <2>3. InLine(wire, reader, transQ, wbuf, procQ, block)'
        BY <1>f, <1>i, <2>1
  <2>4. Written' \subseteq Written
        BY <1>f, <2>1 DEF Written
  <2> QED BY <1>f, <2>2, <2>3, <2>4, NoNewEntry
<1> QED BY <1>1, <1>2, <1>3, <1>4, <1>5

\* The steps of the transport thread keep the entries in order.
LEMMA TransportOrderInv ==
    ASSUME TypeOK, OrderInv, Transport
    PROVE  OrderInv'
<1> USE DEF uplinkVars, threadVars, histVars
<1>f. UNCHANGED <<procQ, block, wbuf, apc, alen, writes>>
      BY TransportFrame
<1>t. /\ transQ \in Seq(Buffers) /\ reader \in Seq(Buffers) /\ wire \in Seq(Buffers)
      /\ id \in Nat
      BY DEF TypeOK
<1>i. InLine(wire, reader, transQ, wbuf, procQ, block) /\ EntriesOf(header) = {}
      BY DEF OrderInv
<1>e. EntriesOf(<<>>) = {} /\ Ordered(<<>>) /\ \A w : Before(w, <<>>) /\ Before(<<>>, w)
      BY NoEntries, EmptyOrdered
<1>1. CASE TransportNext
  <2>1. /\ reader = <<>> /\ transQ # <<>> /\ reader' = <<Head(transQ)>>
        /\ transQ' = Tail(transQ) /\ UNCHANGED <<wire, header>>
        BY <1>1 DEF TransportNext
  <2> DEFINE u == reader'
             v == transQ'
  <2>2. u \in Seq(Buffers) /\ v \in Seq(Buffers) /\ reader \o transQ = u \o v
        BY <1>t, <2>1, TakeOver
  <2> HIDE DEF u, v
  <2>3. Ordered(reader) /\ Ordered(transQ) /\ Before(reader, transQ)
        BY <1>i DEF InLine
  <2>4. Moved(reader, transQ, u, v)
        BY <1>t, <2>2, <2>3, Rebalance
  <2>5. InLine(wire, u, v, wbuf, procQ, block)
        BY <1>i, <2>4 DEF InLine, Moved
  <2>6. InLine(wire, reader, transQ, wbuf, procQ, block)'
        BY <1>f, <2>1, <2>5 DEF u, v
  <2>7. Written' \subseteq Written
        BY <1>f, <2>1, <2>4 DEF Written, Moved, u, v
  <2> QED BY <1>f, <1>i, <2>1, <2>6, <2>7, NoNewEntry
<1>2. CASE TransportCopy
  <2>1. wire' = wire \o reader /\ reader' = <<>> /\ UNCHANGED <<transQ, header>>
        BY <1>2 DEF TransportCopy
  <2> DEFINE u == wire'
             v == reader'
  <2>2. u \in Seq(Buffers) /\ v \in Seq(Buffers) /\ wire \o reader = u \o v
        BY <1>t, <2>1, PutDown
  <2> HIDE DEF u, v
  <2>3. Ordered(wire) /\ Ordered(reader) /\ Before(wire, reader)
        BY <1>i DEF InLine
  <2>4. Moved(wire, reader, u, v)
        BY <1>t, <2>2, <2>3, Rebalance
  <2>5. InLine(u, v, transQ, wbuf, procQ, block)
        BY <1>i, <2>4 DEF InLine, Moved
  <2>6. InLine(wire, reader, transQ, wbuf, procQ, block)'
        BY <1>f, <2>1, <2>5 DEF u, v
  <2>7. Written' \subseteq Written
        BY <1>f, <2>1, <2>4 DEF Written, Moved, u, v
  <2> QED BY <1>f, <1>i, <2>1, <2>6, <2>7, NoNewEntry
<1>3. CASE ~TransportNext /\ ~TransportCopy
  <2>1. /\ wire' = wire \/ wire' = <<>>
        /\ reader' = reader \/ reader' = <<>>
        /\ transQ' = transQ \/ transQ' = <<>>
        BY <1>3 DEF Transport, TransportStart, TransportHeader, TransportStartFails,
               TransportKick, TransportFill, TransportStop, TransportCheckOpen,
               TransportCheckQueue, TransportEnd, TransportFinish, TransportRelease,
               TransportReset
  <2>2. header' = header \/ header' = <<>> \/ header' = <<pouch_header_create(id)>>
        BY <1>3 DEF Transport, TransportStart, TransportHeader, TransportStartFails,
               TransportKick, TransportFill, TransportStop, TransportCheckOpen,
               TransportCheckQueue, TransportEnd, TransportFinish, TransportRelease,
               TransportReset
  <2>3. EntriesOf(header') = {}
        BY <1>t, <1>i, <1>e, <2>2, NewEntries
  <2>4. InLine(wire', reader', transQ', wbuf, procQ, block)
        BY <1>i, <1>e, <2>1 DEF InLine
  <2>5. InLine(wire, reader, transQ, wbuf, procQ, block)'
        BY <1>f, <2>4
  <2>6. Written' \subseteq Written
        BY <1>f, <1>e, <2>1 DEF Written
  <2> QED BY <1>f, <2>3, <2>5, <2>6, NoNewEntry
<1> QED BY <1>1, <1>2, <1>3

\* OrderInv holds in every state.
LEMMA OrderInvHolds == Spec => []OrderInv
<1>1. Init => OrderInv
  <2> SUFFICES ASSUME Init PROVE OrderInv
      OBVIOUS
  <2>1. /\ wire = <<>> /\ reader = <<>> /\ transQ = <<>> /\ wbuf = <<>> /\ procQ = <<>>
        /\ block = <<>> /\ header = <<>>
        BY DEF Init
  <2>2. EntriesOf(<<>>) = {} /\ Ordered(<<>>) /\ Before(<<>>, <<>>)
        BY NoEntries, EmptyOrdered
  <2>3. Written = {}
        BY <2>1, <2>2 DEF Written
  <2>4. InLine(wire, reader, transQ, wbuf, procQ, block)
        BY <2>1, <2>2 DEF InLine
  <2> QED BY <2>1, <2>2, <2>3, <2>4 DEF OrderInv
<1>2. TypeOK /\ MutexInv /\ OrderInv /\ [Next]_vars => OrderInv'
  <2> SUFFICES ASSUME TypeOK, MutexInv, OrderInv, [Next]_vars
               PROVE  OrderInv'
      OBVIOUS
  <2>1. CASE Worker
        BY <2>1, WorkerOrderInv
  <2>2. CASE Transport
        BY <2>2, TransportOrderInv
  <2>3. CASE DispatchEvent \/ UNCHANGED vars
    <3>1. UNCHANGED <<wire, reader, transQ, wbuf, procQ, block, header, apc, alen, writes>>
          BY <2>3, DispatchFrame DEF uplinkVars, entryVars, threadVars, histVars
    <3>2. Written' \subseteq Written
          BY <3>1 DEF Written
    <3>3. InLine(wire, reader, transQ, wbuf, procQ, block)' /\ EntriesOf(header') = {}
          BY <3>1 DEF OrderInv
    <3> QED BY <3>1, <3>2, <3>3, NoNewEntry
  <2>4. CASE \E a \in Apps : App(a)
        BY <2>4, AppOrderInv
  <2> QED BY <2>1, <2>2, <2>3, <2>4 DEF Next
<1> QED BY <1>1, <1>2, TypeCorrect, MutexInvHolds, PTL DEF Spec

\* The entries leave the device in the order in which they were written, and no
\* entry is in two places: through both queues, the retry of a write that finds the
\* block full, appends that process_blocks interrupts, failed encryptions and early
\* finishes, in every interleaving of the steps of the module.
THEOREM OrderSafe == Spec => []EntriesInOrder
<1>1. TypeOK /\ OrderInv => EntriesInOrder
  <2> SUFFICES ASSUME TypeOK, OrderInv PROVE EntriesInOrder
      OBVIOUS
  <2>1. Ordered(Pipeline)
        BY PipelineParts DEF OrderInv
  <2> QED BY <2>1 DEF Ordered, EntriesInOrder
<1> QED BY <1>1, TypeCorrect, OrderInvHolds, PTL

-----------------------------------------------------------------------------
(* No entry is lost *)

\* The entries that are given up.
Given == EntriesOf(lost) \cup dropped

\* What makes NothingLost inductive: what is on the wire was sent, so that the next
\* session may forget it.
LostInv ==
    /\ accepted \subseteq sent \cup Written \cup Given
    /\ EntriesOf(wire) \subseteq sent

\* The steps of an application thread lose no entry: an accepted entry is in the
\* entry block, and a block handed over in the queue, or fallen out of it.
LEMMA AppLostInv ==
    ASSUME TypeOK, MutexInv, OrderInv, LostInv, NEW a \in Apps, App(a)
    PROVE  LostInv'
<1>f. UNCHANGED <<wire, reader, transQ, wbuf, sent, dropped>>
      BY AppFrame
<1>t. /\ procQ \in Seq(Buffers) /\ block \in Seq(Buffers) /\ lost \in Seq(Buffers)
      /\ alen \in [Apps -> Nat] /\ writes \in Nat
      BY DEF TypeOK
<1>l. \A len \in EntryLens : len \in Nat
      BY UplinkAssumption
<1>n. EntriesOf(block) \subseteq Nat
      BY <1>t, EntriesOfType
<1>w. ASSUME NEW b \in Buffers, NEW len \in Nat, NEW e \in Nat, WriteInto(b, len, e),
             UNCHANGED <<procQ, lost>>, Ordered(<<b>>), EntriesOf(<<b>>) = EntriesOf(block),
             \A n \in EntriesOf(block) : n < e
      PROVE  LostInv'
  <2>1. /\ EntriesOf(block) \subseteq EntriesOf(block')
        /\ \/ accepted' = accepted
           \/ accepted' = accepted \cup {e} /\ e \in EntriesOf(block')
        BY <1>w, WriteIntoOrder
  <2>2. /\ Written \subseteq Written' /\ EntriesOf(block') \subseteq Written'
        /\ Given' = Given
        BY <1>f, <1>w, <2>1 DEF Written, Given
  <2>3. accepted' \subseteq sent \cup Written' \cup Given'
        BY <2>1, <2>2 DEF LostInv
  <2> QED BY <1>f, <2>3 DEF LostInv
<1>m. ASSUME Written \cup Given \subseteq Written' \cup Given', UNCHANGED accepted
      PROVE  LostInv'
      BY <1>f, <1>m DEF LostInv
<1>h. ASSUME HandOver
      PROVE  LostInv'
  <2>1. /\ EntriesOf(procQ \o block) = EntriesOf(procQ) \cup EntriesOf(block)
        /\ EntriesOf(lost \o block) = EntriesOf(lost) \cup EntriesOf(block)
        BY <1>t, EntriesConcat
  <2>2. Written \cup Given \subseteq Written' \cup Given'
        BY <1>f, <1>h, <2>1 DEF HandOver, Written, Given
  <2>3. UNCHANGED accepted
        BY <1>h DEF HandOver
  <2> QED BY <2>2, <2>3, <1>m
<1>a. /\ block_alloc \in Buffers /\ Ordered(<<block_alloc>>)
      /\ EntriesOf(<<block_alloc>>) = {} /\ EntriesOf(<<>>) = {}
      BY BlockAllocType, NewEntries, EmptyOrdered, NoEntries
<1>1. ASSUME NEW len \in EntryLens, EntryWriteNew(a, len)
      PROVE  LostInv'
  <2>1. /\ block = <<>> /\ UNCHANGED <<procQ, lost>> /\ WriteInto(block_alloc, len, writes + 1)
        BY <1>1 DEF EntryWriteNew, uplinkVars
  <2>2. EntriesOf(block) = {} /\ len \in Nat /\ writes + 1 \in Nat
        BY <1>a, <1>t, <1>l, <2>1
  <2> QED BY <1>a, <2>1, <2>2, <1>w
<1>2. ASSUME NEW len \in EntryLens, EntryWriteFits(a, len)
      PROVE  LostInv'
  <2>1. /\ block # <<>> /\ UNCHANGED <<procQ, lost>> /\ WriteInto(block[1], len, writes + 1)
        BY <1>2 DEF EntryWriteFits, uplinkVars
  <2>2. \A n \in EntriesOf(block) : n < writes + 1
    <3>1. \A n \in EntriesOf(block) : n <= writes
          BY DEF OrderInv, Written
    <3> QED BY <1>t, <1>n, <3>1
  <2>3. Len(block) = 1
        BY <2>1, LengthTypes
  <2>4. block = <<block[1]>> /\ block[1] \in Buffers
        BY <1>t, <2>3, Singleton
  <2>5. Ordered(block)
        BY DEF OrderInv, InLine
  <2> DEFINE b == block[1]
  <2>6. /\ b \in Buffers /\ Ordered(<<b>>) /\ EntriesOf(<<b>>) = EntriesOf(block)
        /\ WriteInto(b, len, writes + 1)
        BY <2>1, <2>4, <2>5
  <2> HIDE DEF b
  <2>7. len \in Nat /\ writes + 1 \in Nat
        BY <1>t, <1>l
  <2> QED BY <2>1, <2>2, <2>6, <2>7, <1>w
<1>4. CASE EntryWriteRetry(a)
  <2>1. /\ UNCHANGED <<procQ, lost>>
        /\ \/ WriteInto(block_alloc, alen[a], writes)
           \/ UNCHANGED <<block, accepted>>
        BY <1>4 DEF EntryWriteRetry
  <2>2. block = <<>>
        BY <1>4 DEF EntryWriteRetry, MutexInv
  <2>3. CASE UNCHANGED <<block, accepted>>
    <3>1. Written' = Written /\ Given' = Given
          BY <1>f, <2>1, <2>3 DEF Written, Given
    <3> QED BY <2>3, <3>1, <1>m
  <2>4. CASE WriteInto(block_alloc, alen[a], writes)
    <3>1. EntriesOf(block) = {} /\ alen[a] \in Nat
          BY <1>a, <1>t, <2>2
    <3> QED BY <1>a, <1>t, <2>1, <2>4, <3>1, <1>w
  <2> QED BY <2>1, <2>3, <2>4
<1> QED BY <1>1, <1>2, <1>4, <1>h, AppHandsOver DEF App

\* Two parts of the pipeline that move buffers between them lose none.
LEMMA MovedEntries ==
    ASSUME NEW s \in Seq(Buffers), NEW t \in Seq(Buffers),
           NEW u \in Seq(Buffers), NEW v \in Seq(Buffers), s \o t = u \o v
    PROVE  EntriesOf(u) \cup EntriesOf(v) = EntriesOf(s) \cup EntriesOf(t)
<1>1. EntriesOf(u \o v) = EntriesOf(u) \cup EntriesOf(v)
      BY EntriesConcat
<1>2. EntriesOf(s \o t) = EntriesOf(s) \cup EntriesOf(t)
      BY EntriesConcat
<1> QED BY <1>1, <1>2

\* The steps of process_blocks lose no entry but those of a block whose encryption
\* fails.
LEMMA WorkerLostInv ==
    ASSUME TypeOK, LostInv, Worker
    PROVE  LostInv'
<1>f. UNCHANGED <<wire, reader, block, lost, accepted, sent>>
      BY WorkerFrame
<1>t. /\ transQ \in Seq(Buffers) /\ wbuf \in Seq(Buffers) /\ procQ \in Seq(Buffers)
      /\ header \in Seq(Buffers)
      BY PartTypes
<1>m. ASSUME Written \cup dropped \subseteq Written' \cup dropped'
      PROVE  LostInv'
      BY <1>f, <1>m DEF LostInv, Given
<1>d. ~WorkerEncrypt => UNCHANGED dropped
      BY DEF Worker, WorkerBegin, WorkerTake, WorkerHeader, WorkerDetach, WorkerSubmit,
             WorkerLeave, WorkerExit, WorkerClose, histVars
<1>n. ~WorkerEncrypt /\ Written \subseteq Written' => LostInv'
      BY <1>d, <1>m
<1>1. CASE WorkerTake
  <2>1. /\ wpc = "loop" /\ procQ # <<>> /\ wbuf' = <<Head(procQ)>> /\ procQ' = Tail(procQ)
        /\ UNCHANGED transQ
        BY <1>1 DEF WorkerTake, LoopCondition
  <2>2. wbuf = <<>>
    <3>1. Len(wbuf) = 0
          BY <2>1 DEF TypeOK
    <3> QED BY <1>t, <3>1, EmptySeq
  <2> DEFINE u == wbuf'
             v == procQ'
  <2>3. u \in Seq(Buffers) /\ v \in Seq(Buffers) /\ wbuf \o procQ = u \o v
        BY <1>t, <2>1, <2>2, TakeOver
  <2> HIDE DEF u, v
  <2>4. EntriesOf(u) \cup EntriesOf(v) = EntriesOf(wbuf) \cup EntriesOf(procQ)
        BY <1>t, <2>3, MovedEntries
  <2>5. Written \subseteq Written'
        BY <1>f, <2>1, <2>4 DEF Written, u, v
  <2>6. ~WorkerEncrypt
        BY <2>1 DEF WorkerEncrypt
  <2> QED BY <2>5, <2>6, <1>n
<1>2. CASE WorkerEncrypt
  <2>1. UNCHANGED <<procQ, transQ>>
        BY <1>2 DEF WorkerEncrypt, uplinkVars
  <2>2. CASE wbuf' = <<[wbuf[1] EXCEPT !.pouch = id]>> /\ UNCHANGED dropped
    <3>1. Len(wbuf) = 1
          BY <1>2 DEF TypeOK, WorkerEncrypt
    <3>2. wbuf = <<wbuf[1]>> /\ wbuf[1] \in Buffers
          BY <1>t, <3>1, Singleton
    <3> DEFINE b == wbuf[1]
               c == [b EXCEPT !.pouch = id]
    <3>3. c.entries = b.entries
          BY <3>2 DEF Buffers
    <3>4. wbuf = <<b>> /\ wbuf' = <<c>>
          BY <2>2, <3>2
    <3> HIDE DEF b, c
    <3>5. /\ DOMAIN wbuf = DOMAIN wbuf'
          /\ \A i \in DOMAIN wbuf : wbuf[i].entries = wbuf'[i].entries
          BY <3>3, <3>4
    <3>6. EntriesOf(wbuf) = EntriesOf(wbuf')
          BY <3>5, SameEntries
    <3>7. Written \subseteq Written'
          BY <1>f, <2>1, <3>6 DEF Written
    <3> QED BY <2>2, <3>7, <1>m
  <2>3. CASE wbuf' = <<>> /\ dropped' = dropped \cup EntriesOf(wbuf)
    <3>1. Written \subseteq Written' \cup EntriesOf(wbuf)
          BY <1>f, <2>1 DEF Written
    <3> QED BY <2>3, <3>1, <1>m
  <2> QED BY <1>2, <2>2, <2>3 DEF WorkerEncrypt
<1>3. CASE WorkerHeader
  <2>1. transQ' = transQ \o header /\ UNCHANGED <<procQ, wbuf>>
        BY <1>3 DEF WorkerHeader
  <2>2. EntriesOf(transQ \o header) = EntriesOf(transQ) \cup EntriesOf(header)
        BY <1>t, EntriesConcat
  <2>3. Written \subseteq Written'
        BY <1>f, <2>1, <2>2 DEF Written
  <2>4. ~WorkerEncrypt
        BY <1>3 DEF WorkerHeader, WorkerEncrypt
  <2> QED BY <2>3, <2>4, <1>n
<1>4. CASE WorkerSubmit
  <2>1. transQ' = transQ \o wbuf /\ wbuf' = <<>> /\ UNCHANGED procQ
        BY <1>4 DEF WorkerSubmit
  <2>2. EntriesOf(transQ \o wbuf) = EntriesOf(transQ) \cup EntriesOf(wbuf)
        BY <1>t, EntriesConcat
  <2>3. Written \subseteq Written'
        BY <1>f, <2>1, <2>2 DEF Written
  <2>4. ~WorkerEncrypt
        BY <1>4 DEF WorkerSubmit, WorkerEncrypt
  <2> QED BY <2>3, <2>4, <1>n
<1>5. CASE ~WorkerTake /\ ~WorkerEncrypt /\ ~WorkerHeader /\ ~WorkerSubmit
  <2>1. UNCHANGED <<procQ, wbuf, transQ>>
        BY <1>5 DEF Worker, WorkerBegin, WorkerDetach, WorkerLeave, WorkerExit, WorkerClose,
                    uplinkVars
  <2>2. Written \subseteq Written'
        BY <1>f, <2>1 DEF Written
  <2> QED BY <1>5, <2>2, <1>n
<1> QED BY <1>1, <1>2, <1>3, <1>4, <1>5

\* The steps of the transport thread lose no entry but those that finish frees.
LEMMA TransportLostInv ==
    ASSUME TypeOK, LostInv, Transport
    PROVE  LostInv'
<1> USE DEF uplinkVars, threadVars, histVars
<1>f. UNCHANGED <<procQ, block, wbuf, lost, accepted>>
      BY TransportFrame
<1>t. /\ transQ \in Seq(Buffers) /\ reader \in Seq(Buffers) /\ wire \in Seq(Buffers)
      BY PartTypes
<1>e. EntriesOf(<<>>) = {}
      BY NoEntries
<1>1. CASE TransportNext
  <2>1. /\ reader = <<>> /\ transQ # <<>> /\ reader' = <<Head(transQ)>>
        /\ transQ' = Tail(transQ) /\ UNCHANGED <<wire, sent, dropped>>
        BY <1>1 DEF TransportNext
  <2> DEFINE u == reader'
             v == transQ'
  <2>2. u \in Seq(Buffers) /\ v \in Seq(Buffers) /\ reader \o transQ = u \o v
        BY <1>t, <2>1, TakeOver
  <2> HIDE DEF u, v
  <2>3. EntriesOf(u) \cup EntriesOf(v) = EntriesOf(reader) \cup EntriesOf(transQ)
        BY <1>t, <2>2, MovedEntries
  <2>4. Written' = Written
        BY <1>f, <2>1, <2>3 DEF Written, u, v
  <2> QED BY <1>f, <2>1, <2>4 DEF LostInv, Given
<1>2. CASE TransportCopy
  <2>1. /\ wire' = wire \o reader /\ reader' = <<>> /\ UNCHANGED <<transQ, dropped>>
        /\ sent' = sent \cup EntriesOf(reader)
        BY <1>2 DEF TransportCopy
  <2>2. EntriesOf(wire \o reader) = EntriesOf(wire) \cup EntriesOf(reader)
        BY <1>t, EntriesConcat
  <2>3. Written \subseteq Written'
        BY <1>f, <1>e, <2>1, <2>2 DEF Written
  <2>4. EntriesOf(wire') \subseteq sent' /\ accepted' \subseteq sent' \cup Written' \cup Given'
        BY <1>f, <2>1, <2>2, <2>3 DEF LostInv, Given
  <2> QED BY <2>1, <2>4 DEF LostInv
<1>3. CASE TransportStart
  <2>1. wire' = <<>> /\ UNCHANGED <<reader, transQ, sent, dropped>>
        BY <1>3 DEF TransportStart
  <2>2. Written \subseteq Written' \cup EntriesOf(wire)
        BY <1>f, <2>1 DEF Written
  <2> QED BY <1>f, <1>e, <2>1, <2>2 DEF LostInv, Given
<1>4. CASE TransportFinish
  <2>1. /\ transQ' = <<>> /\ UNCHANGED <<wire, reader, sent>>
        /\ dropped' = dropped \cup EntriesOf(transQ)
        BY <1>4 DEF TransportFinish
  <2>2. Written \cup dropped \subseteq Written' \cup dropped'
        BY <1>f, <2>1 DEF Written
  <2> QED BY <1>f, <2>1, <2>2 DEF LostInv, Given
<1>5. CASE TransportRelease
  <2>1. /\ reader' = <<>> /\ UNCHANGED <<wire, transQ, sent>>
        /\ dropped' = dropped \cup EntriesOf(reader)
        BY <1>5 DEF TransportRelease
  <2>2. Written \cup dropped \subseteq Written' \cup dropped'
        BY <1>f, <2>1 DEF Written
  <2> QED BY <1>f, <2>1, <2>2 DEF LostInv, Given
<1>6. CASE ~TransportNext /\ ~TransportCopy /\ ~TransportStart /\ ~TransportFinish
           /\ ~TransportRelease
  <2>1. UNCHANGED <<wire, reader, transQ, sent, dropped>>
        BY <1>6 DEF Transport, TransportHeader, TransportStartFails, TransportKick,
               TransportFill, TransportStop, TransportCheckOpen, TransportCheckQueue,
               TransportEnd, TransportReset
  <2>2. Written' = Written
        BY <1>f, <2>1 DEF Written
  <2> QED BY <1>f, <2>1, <2>2 DEF LostInv, Given
<1> QED BY <1>1, <1>2, <1>3, <1>4, <1>5, <1>6

\* An entry whose write returned 0 is sent or still in the pipeline, unless its block
\* fell out of the processing queue in an append that process_blocks interrupted, its
\* encryption failed or finish freed it before it was sent: in every interleaving of the
\* steps of the module no other hand-over between the writer, process_blocks and the
\* transport drops a block.  (The removal by process_blocks, whose thread is cooperative
\* by default, is one step.)
THEOREM EntriesKept == Spec => []NothingLost
<1>1. Init => LostInv
      BY NoEntries DEF Init, LostInv
<1>2. TypeOK /\ MutexInv /\ OrderInv /\ LostInv /\ [Next]_vars => LostInv'
  <2> SUFFICES ASSUME TypeOK, MutexInv, OrderInv, LostInv, [Next]_vars
               PROVE  LostInv'
      OBVIOUS
  <2>1. CASE Worker
        BY <2>1, WorkerLostInv
  <2>2. CASE Transport
        BY <2>2, TransportLostInv
  <2>3. CASE DispatchEvent \/ UNCHANGED vars
    <3>1. UNCHANGED <<wire, reader, transQ, wbuf, procQ, block, lost, accepted, sent, dropped>>
          BY <2>3, DispatchFrame DEF uplinkVars, entryVars, threadVars, histVars
    <3>2. Written' = Written
          BY <3>1 DEF Written
    <3> QED BY <3>1, <3>2 DEF LostInv, Given
  <2>4. CASE \E a \in Apps : App(a)
        BY <2>4, AppLostInv
  <2> QED BY <2>1, <2>2, <2>3, <2>4 DEF Next
<1>3. TypeOK /\ LostInv => NothingLost
      BY PipelineParts DEF LostInv, NothingLost, Given
<1> QED BY <1>1, <1>2, <1>3, TypeCorrect, MutexInvHolds, OrderInvHolds, PTL
        DEF Spec

=============================================================================
