----------------------------- MODULE GattProofs -----------------------------
(***************************************************************************)
(* Safety of Gatt for every set of values and sizes, every packet length,  *)
(* number of fragments, versions, pouches and lost connections.            *)
(***************************************************************************)
EXTENDS Gatt, SequenceTheorems, TLAPS

(* The invariants that make the properties inductive. *)

\* While a gateway is between two fragments, what was received so far is the
\* fragments before the next one, all of the version that it is sending.
Received(s, w) == /\ Len(s) = next[w] - 1
                  /\ \A k \in DOMAIN s : s[k].version = version[w]

WriteInv ==
    /\ next["server_cert"] > 1 /\ certBuf # <<>> => Received(certBuf[1], "server_cert")
    /\ next["downlink"] > 1 => Received(pushed, "downlink")

\* A gateway in the middle of a value, and the packetizer, are at the same byte of
\* the same value.
InStep(c) ==
    asm[c] # <<>> /\ ~asm[c][1].last =>
        /\ ctx[c] # <<>>
        /\ ~ctx[c][1].first /\ ctx[c][1].off = asm[c][1].hi
        /\ asm[c][1].values = {ctx[c][1].value} /\ ~asm[c][1].gap

FirstAtZero(c) == ctx[c] # <<>> /\ ctx[c][1].first => ctx[c][1].off = 0

WholeOf(c) == Whole(c) => /\ ~asm[c][1].gap
                          /\ \E v \in asm[c][1].values :
                                asm[c][1].values = {v} /\ asm[c][1].hi = Total(c, v)

\* A pouch that was collected to its end gets no more bytes.
TransferInv ==
    /\ \A c \in Reads : InStep(c) /\ FirstAtZero(c) /\ WholeOf(c)
    /\ Whole("uplink") => ~session

-----------------------------------------------------------------------------
(* Facts about the packetizer and the gateway. *)

\* A packet of a packetizer with so many bytes left: it does not go past them,
\* and the last one reaches them.
LEMMA PacketFacts ==
    ASSUME NEW p \in Packetizers, NEW len \in Nat, NEW left \in Nat, NEW end \in BOOLEAN
    PROVE  LET pkt == Packet(p, len, left, end)
           IN  /\ pkt.first = p.first /\ pkt.lo = p.off /\ pkt.value = p.value
               /\ pkt.hi \in Nat /\ pkt.hi <= p.off + left
               /\ pkt.last \in BOOLEAN
               /\ pkt.last => pkt.hi = p.off + left
<1> DEFINE pkt == Packet(p, len, left, end)
<1>1. p.off \in Nat
      BY DEF Packetizers
<1>2. pkt.first = p.first /\ pkt.lo = p.off /\ pkt.value = p.value
      /\ pkt.hi = p.off + Bytes(len, left) /\ pkt.last = IsLast(len, left, end)
      BY DEF Packet
<1>3. IsLast(len, left, end) \in BOOLEAN
      BY DEF IsLast
<1>4. Bytes(len, left) \in Nat /\ Bytes(len, left) <= left
      BY DEF Bytes
<1>5. IsLast(len, left, end) => Bytes(len, left) = left
      BY DEF IsLast, Bytes
<1> HIDE DEF pkt
<1>6. pkt.hi \in Nat /\ pkt.hi <= p.off + left
      BY <1>1, <1>2, <1>4
<1>7. pkt.last => pkt.hi = p.off + left
      BY <1>2, <1>5
<1> QED BY <1>2, <1>3, <1>6, <1>7 DEF pkt

\* A packetizer that starts is at the beginning of its value.
LEMMA StartFacts ==
    ASSUME NEW v \in Nat
    PROVE  /\ packetizer_start(v) \in Packetizers
           /\ packetizer_start(v).first = TRUE /\ packetizer_start(v).off = 0
           /\ packetizer_start(v).value = v
BY DEF packetizer_start, Packetizers

\* The packetizer goes on where the packet ended, or is finished.
LEMMA AfterFacts ==
    ASSUME NEW p \in Packetizers, NEW pkt, pkt.hi \in Nat
    PROVE  /\ pkt.last => After(p, pkt) = <<>>
           /\ ~pkt.last => /\ After(p, pkt) # <<>> /\ Len(After(p, pkt)) = 1
                           /\ After(p, pkt)[1] \in Packetizers
                           /\ After(p, pkt)[1].first = FALSE
                           /\ After(p, pkt)[1].off = pkt.hi
                           /\ After(p, pkt)[1].value = p.value
           /\ After(p, pkt) \in Seq(Packetizers) /\ Len(After(p, pkt)) <= 1
<1> DEFINE q == [p EXCEPT !.first = FALSE, !.off = pkt.hi]
<1>1. q \in Packetizers /\ q.first = FALSE /\ q.off = pkt.hi /\ q.value = p.value
      BY DEF Packetizers
<1>2. After(p, pkt) = IF pkt.last THEN <<>> ELSE <<q>>
      BY DEF After
<1> HIDE DEF q
<1>3. CASE pkt.last
      BY <1>2, <1>3
<1>4. CASE ~pkt.last
      BY <1>1, <1>2, <1>4
<1> QED BY <1>3, <1>4

\* What a gateway has after a packet of c that goes on where it is, or that is a
\* first one.
LEMMA CollectFacts ==
    ASSUME TypeOK, NEW c \in Reads, NEW pkt, Collect(c, pkt),
           pkt.first \in BOOLEAN, pkt.last \in BOOLEAN, pkt.lo \in Nat, pkt.hi \in Nat,
           pkt.value \in Nat,
           pkt.first => pkt.lo = 0,
           asm[c] # <<>> /\ ~asm[c][1].last /\ ~pkt.first =>
               /\ pkt.lo = asm[c][1].hi
               /\ asm[c][1].values = {pkt.value} /\ ~asm[c][1].gap
    PROVE  /\ asm' \in [Reads -> Seq(Collected)] /\ \A d \in Reads : Len(asm'[d]) <= 1
           /\ \A d \in Reads : d # c => asm'[d] = asm[d]
           /\ asm'[c] # <<>> => /\ asm'[c][1].values = {pkt.value} /\ ~asm'[c][1].gap
                                /\ asm'[c][1].hi = pkt.hi /\ asm'[c][1].last = pkt.last
<1> DEFINE one == [values |-> {pkt.value}, gap |-> FALSE, hi |-> pkt.hi, last |-> pkt.last]
<1>1. one \in Collected
      BY DEF Collected
<1>2. asm \in [Reads -> Seq(Collected)] /\ \A d \in Reads : Len(asm[d]) <= 1
      BY DEF TypeOK
<1>3. asm' = [asm EXCEPT ![c] = <<one>>] \/ asm' = [asm EXCEPT ![c] = <<>>]
  <2>1. CASE pkt.first
        BY <2>1 DEF Collect
  <2>2. CASE ~pkt.first /\ (asm[c] = <<>> \/ asm[c][1].last)
        BY <1>2, <2>2 DEF Collect
  <2>3. CASE ~pkt.first /\ asm[c] # <<>> /\ ~asm[c][1].last
    <3>1. /\ asm[c][1].values \cup {pkt.value} = {pkt.value}
          /\ (asm[c][1].gap \/ pkt.lo # asm[c][1].hi) = FALSE
          BY <2>3
    <3>2. asm' = [asm EXCEPT ![c] =
                    <<[values |-> asm[c][1].values \cup {pkt.value},
                       gap |-> asm[c][1].gap \/ pkt.lo # asm[c][1].hi,
                       hi |-> pkt.hi, last |-> pkt.last]>>]
          BY <1>2, <2>3 DEF Collect
    <3> QED BY <3>1, <3>2
  <2> QED BY <2>1, <2>2, <2>3
<1>4. <<one>> \in Seq(Collected) /\ <<>> \in Seq(Collected) /\ <<one>>[1] = one
      /\ Len(<<one>>) = 1 /\ Len(<<>>) = 0
      BY <1>1
<1>5. one.values = {pkt.value} /\ one.gap = FALSE /\ one.hi = pkt.hi /\ one.last = pkt.last
      OBVIOUS
<1> HIDE DEF one
<1>6. asm'[c] = <<one>> \/ asm'[c] = <<>>
      BY <1>2, <1>3
<1>7. \A d \in Reads : d # c => asm'[d] = asm[d]
      BY <1>2, <1>3
<1>8. asm' \in [Reads -> Seq(Collected)]
  <2>1. CASE asm' = [asm EXCEPT ![c] = <<one>>]
        BY <1>2, <1>4, <2>1
  <2>2. CASE asm' = [asm EXCEPT ![c] = <<>>]
        BY <1>2, <1>4, <2>2
  <2> QED BY <1>3, <2>1, <2>2
<1>9. ASSUME NEW d \in Reads PROVE Len(asm'[d]) <= 1
  <2>1. CASE d # c
        BY <1>2, <1>7, <2>1
  <2>2. CASE d = c /\ asm'[c] = <<one>>
        BY <1>4, <2>2
  <2>3. CASE d = c /\ asm'[c] = <<>>
        BY <1>4, <2>3
  <2> QED BY <1>6, <2>1, <2>2, <2>3
<1>10. CASE asm'[c] = <<one>>
      BY <1>4, <1>5, <1>7, <1>8, <1>9, <1>10
<1>11. CASE asm'[c] = <<>>
      BY <1>7, <1>8, <1>9, <1>11
<1> QED BY <1>6, <1>10, <1>11

\* A packet that is read of characteristic c: the packetizer p is the one of c, or
\* a new one.
Reading(c, p, len, left, end) ==
    /\ ctx' = [ctx EXCEPT ![c] = After(p, Packet(p, len, left, end))]
    /\ Collect(c, Packet(p, len, left, end))

\* It keeps packetizer and gateway in step, and a gateway that has the last mark
\* has all the bytes that were left.
LEMMA ReadingFacts ==
    ASSUME TypeOK, NEW c \in Reads, NEW p \in Packetizers, NEW len \in Nat,
           NEW left \in Nat, NEW end \in BOOLEAN, Reading(c, p, len, left, end),
           InStep(c), p.first => p.off = 0,
           ctx[c] = <<>> => p.first, ctx[c] # <<>> => p = ctx[c][1]
    PROVE  /\ ctx' \in [Reads -> Seq(Packetizers)] /\ asm' \in [Reads -> Seq(Collected)]
           /\ \A d \in Reads : Len(ctx'[d]) <= 1 /\ Len(asm'[d]) <= 1
           /\ \A d \in Reads : d # c => ctx'[d] = ctx[d] /\ asm'[d] = asm[d]
           /\ ctx'[c] # <<>> => ctx'[c][1].value = p.value /\ ctx'[c][1].off <= p.off + left
           /\ InStep(c)' /\ FirstAtZero(c)'
           /\ asm'[c] # <<>> /\ asm'[c][1].last =>
                  /\ ctx'[c] = <<>> /\ asm'[c][1].values = {p.value}
                  /\ ~asm'[c][1].gap /\ asm'[c][1].hi = p.off + left
           /\ ctx'[c] = <<>> <=> Packet(p, len, left, end).last
<1> DEFINE pkt == Packet(p, len, left, end)
<1>1. /\ pkt.first = p.first /\ pkt.lo = p.off /\ pkt.value = p.value
      /\ pkt.hi \in Nat /\ pkt.hi <= p.off + left
      /\ pkt.last \in BOOLEAN /\ (pkt.last => pkt.hi = p.off + left)
      BY PacketFacts
<1>2. /\ pkt.last => After(p, pkt) = <<>>
      /\ ~pkt.last => /\ After(p, pkt) # <<>> /\ Len(After(p, pkt)) = 1
                      /\ After(p, pkt)[1] \in Packetizers
                      /\ After(p, pkt)[1].first = FALSE
                      /\ After(p, pkt)[1].off = pkt.hi
                      /\ After(p, pkt)[1].value = p.value
      /\ After(p, pkt) \in Seq(Packetizers) /\ Len(After(p, pkt)) <= 1
      BY <1>1, AfterFacts
<1>3. ctx' = [ctx EXCEPT ![c] = After(p, pkt)] /\ Collect(c, pkt)
      BY DEF Reading
<1> HIDE DEF pkt
<1>4. p.first \in BOOLEAN /\ p.off \in Nat /\ p.value \in Nat
      BY DEF Packetizers
<1>5. asm[c] # <<>> /\ ~asm[c][1].last /\ ~p.first =>
          p.off = asm[c][1].hi /\ asm[c][1].values = {p.value} /\ ~asm[c][1].gap
      BY DEF InStep
<1>6. /\ asm' \in [Reads -> Seq(Collected)] /\ \A d \in Reads : Len(asm'[d]) <= 1
      /\ \A d \in Reads : d # c => asm'[d] = asm[d]
      /\ asm'[c] # <<>> => /\ asm'[c][1].values = {pkt.value} /\ ~asm'[c][1].gap
                           /\ asm'[c][1].hi = pkt.hi /\ asm'[c][1].last = pkt.last
      BY <1>1, <1>3, <1>4, <1>5, CollectFacts
<1>7. ctx \in [Reads -> Seq(Packetizers)] /\ \A d \in Reads : Len(ctx[d]) <= 1
      BY DEF TypeOK
<1>8. ctx'[c] = After(p, pkt) /\ \A d \in Reads : d # c => ctx'[d] = ctx[d]
      BY <1>3, <1>7
<1>9. ctx' \in [Reads -> Seq(Packetizers)]
      BY <1>2, <1>3, <1>7
<1>10. \A d \in Reads : Len(ctx'[d]) <= 1
      BY <1>2, <1>7, <1>8
<1>11. ctx'[c] = <<>> <=> pkt.last
      BY <1>1, <1>2, <1>8
<1>12. ctx'[c] # <<>> => /\ ctx'[c][1].value = p.value /\ ctx'[c][1].off = pkt.hi
                         /\ ctx'[c][1].first = FALSE
      BY <1>2, <1>8, <1>11
<1>13. InStep(c)' /\ FirstAtZero(c)'
      BY <1>1, <1>6, <1>11, <1>12 DEF InStep, FirstAtZero
<1>14. ctx'[c] # <<>> => ctx'[c][1].value = p.value /\ ctx'[c][1].off <= p.off + left
      BY <1>1, <1>12
<1>15. asm'[c] # <<>> /\ asm'[c][1].last =>
           /\ ctx'[c] = <<>> /\ asm'[c][1].values = {p.value}
           /\ ~asm'[c][1].gap /\ asm'[c][1].hi = p.off + left
      BY <1>1, <1>6, <1>11
<1> QED BY <1>6, <1>8, <1>9, <1>10, <1>11, <1>13, <1>14, <1>15 DEF pkt

-----------------------------------------------------------------------------
(* Type correctness and the session, with what the reads need of each other *)

\* What the proofs about reads have in common: the types, the session that belongs
\* to the packetizer of the uplink, and the gateways in step.
ReadInv == TypeOK /\ SessionOwned /\ TransferInv

\* The numbers that the code takes from its inputs are numbers.
LEMMA Inputs ==
    ASSUME TypeOK
    PROVE  /\ \A len \in ReadLens : len \in Nat
           /\ \A c \in Values : c \in Reads /\ c # "uplink" /\ Current(c) \in Versions
           /\ \A c \in Values, v \in Versions : Size[c][v] \in Nat
           /\ Versions \subseteq Nat /\ "uplink" \in Reads
<1> DEFINE F == [version : Versions, i : 1 .. Fragments]
<1>0. cert \in Seq(F)
      BY DEF TypeOK, FragmentSeqs
<1> HIDE DEF F
<1>1. cert # <<>> => cert[1] \in F
      BY <1>0
<1> USE DEF F
<1>2. Installed \in Versions
      BY <1>1, GattAssumption DEF Installed, Versions
<1>3. Versions \subseteq Nat /\ 0 \in Versions
      BY GattAssumption DEF Versions
<1>4. \A c \in Values : c \in Reads /\ c # "uplink" /\ Current(c) \in Versions
      BY <1>2, <1>3, GattAssumption DEF Reads, Current
<1>5. \A c \in Values, v \in Versions : Size[c][v] \in Nat
      BY GattAssumption
<1>6. \A len \in ReadLens : len \in Nat
      BY GattAssumption
<1> QED BY <1>3, <1>4, <1>5, <1>6 DEF Reads

\* A read of a value.
LEMMA ReadValueInv ==
    ASSUME ReadInv, NEW c \in Values, NEW len \in ReadLens, ReadValue(c, len)
    PROVE  ReadInv'
<1> DEFINE p    == Transfer(c)
           left == Left(c, p)
<1> USE DEF ReadInv
<1>1. /\ len \in Nat /\ c \in Reads /\ c # "uplink" /\ Current(c) \in Versions
      /\ \A v \in Versions : Size[c][v] \in Nat
      /\ Versions \subseteq Nat /\ "uplink" \in Reads
      BY Inputs
<1>2. /\ ctx[c] \in Seq(Packetizers) /\ Len(ctx[c]) <= 1
      /\ ctx[c] # <<>> => /\ ctx[c][1].value \in Versions
                          /\ ctx[c][1].off <= Total(c, ctx[c][1].value)
      BY <1>1 DEF TypeOK
<1>3. /\ p \in Packetizers /\ p.value \in Versions /\ p.off <= Size[c][p.value]
      /\ p.first => p.off = 0
      /\ ctx[c] = <<>> => p.first
      /\ ctx[c] # <<>> => p = ctx[c][1]
  <2>1. CASE ctx[c] = <<>>
    <3>1. p = packetizer_start(Current(c))
          BY <2>1 DEF Transfer
    <3>2. p.first = TRUE /\ p.off = 0 /\ p.value = Current(c) /\ p \in Packetizers
          BY <1>1, <3>1, StartFacts
    <3> DEFINE v == Current(c)
               z == Size[c][v]
    <3>5. v \in Versions /\ z \in Nat
          BY <1>1
    <3>6. p.value = v /\ p.off = 0
          BY <3>2
    <3>7. Size[c][p.value] = z
          BY <3>6
    <3> HIDE DEF p, v, z
    <3>8. 0 <= z
          BY ONLY <3>5
    <3>3. p.value \in Versions /\ p.off <= Size[c][p.value]
          BY ONLY <3>5, <3>6, <3>7, <3>8
    <3>4. p.first /\ (p.first => p.off = 0)
          BY <3>2
    <3> QED BY <2>1, <3>2, <3>3, <3>4
  <2>2. CASE ctx[c] # <<>>
    <3>1. p = ctx[c][1] /\ ctx[c][1] \in Packetizers
          BY <1>2, <2>2 DEF Transfer
    <3>2. p.first => p.off = 0
          BY <1>1, <2>2, <3>1 DEF TransferInv, FirstAtZero
    <3> QED BY <1>1, <1>2, <2>2, <3>1, <3>2 DEF Total
  <2> QED BY <2>1, <2>2
<1>4. left \in Nat /\ p.off + left = Size[c][p.value]
      BY <1>1, <1>3 DEF Left, Packetizers
<1> PICK end \in BOOLEAN : end = TRUE
    OBVIOUS
<1>5. /\ Reading(c, p, len, left, end)
      /\ UNCHANGED <<sessionVars, writeVars, fault, linkVars>>
      BY DEF ReadValue, Reading
<1>6. InStep(c)
      BY <1>1 DEF TransferInv
<1> HIDE DEF p, left
<1>7. /\ ctx' \in [Reads -> Seq(Packetizers)] /\ asm' \in [Reads -> Seq(Collected)]
      /\ \A d \in Reads : Len(ctx'[d]) <= 1 /\ Len(asm'[d]) <= 1
      /\ \A d \in Reads : d # c => ctx'[d] = ctx[d] /\ asm'[d] = asm[d]
      /\ ctx'[c] # <<>> => ctx'[c][1].value = p.value /\ ctx'[c][1].off <= p.off + left
      /\ InStep(c)' /\ FirstAtZero(c)'
      /\ asm'[c] # <<>> /\ asm'[c][1].last =>
             /\ ctx'[c] = <<>> /\ asm'[c][1].values = {p.value}
             /\ ~asm'[c][1].gap /\ asm'[c][1].hi = p.off + left
  <2>1. TypeOK
        OBVIOUS
  <2> QED BY ONLY <2>1, end \in BOOLEAN, <1>1, <1>3, <1>4, <1>5, <1>6, ReadingFacts
<1>8. avail' = avail /\ session' = session
      BY <1>5 DEF sessionVars
<1>9. Total(c, p.value) = p.off + left
      BY <1>1, <1>4 DEF Total
<1>10. TypeOK'
  <2>1. \A d \in Values : ctx'[d] # <<>> => ctx'[d][1].value \in Versions
        BY <1>1, <1>3, <1>7 DEF TypeOK, Reads
  <2>2. \A d \in Reads : ctx'[d] # <<>> => ctx'[d][1].off <= Total(d, ctx'[d][1].value)
    <3>1. ctx'[c] # <<>> => ctx'[c][1].off <= Total(c, ctx'[c][1].value)
          BY <1>7, <1>9
    <3> QED BY <1>7, <3>1 DEF TypeOK
  <2>3. (\A d \in Reads : ctx[d] # <<>> => ctx[d][1].off <= Total(d, ctx[d][1].value))'
        BY <1>8, <2>2 DEF Total
  <2> QED BY <1>5, <1>7, <2>1, <2>3 DEF TypeOK, sessionVars, writeVars, linkVars
<1>11. SessionOwned'
      BY <1>1, <1>5, <1>7 DEF SessionOwned, sessionVars
<1>12. TransferInv'
  <2>1. \A d \in Reads : d # c => InStep(d)' /\ FirstAtZero(d)' /\ WholeOf(d)'
    <3> SUFFICES ASSUME NEW d \in Reads, d # c
                 PROVE  InStep(d)' /\ FirstAtZero(d)' /\ WholeOf(d)'
        OBVIOUS
    <3>1. ctx'[d] = ctx[d] /\ asm'[d] = asm[d]
          BY <1>7
    <3>2. InStep(d) /\ FirstAtZero(d) /\ WholeOf(d)
          BY DEF TransferInv
    <3> QED BY <1>8, <3>1, <3>2 DEF InStep, FirstAtZero, WholeOf, Whole, Total
  <2>2. WholeOf(c)'
        BY <1>1, <1>4, <1>7 DEF WholeOf, Whole, Total
  <2>3. Whole("uplink")' => ~session'
        BY <1>1, <1>5, <1>7 DEF TransferInv, Whole, sessionVars
  <2> QED BY <1>7, <2>1, <2>2, <2>3 DEF TransferInv
<1> QED BY <1>10, <1>11, <1>12

\* A read of the uplink that starts a session, or goes on with one.
LEMMA ReadUplinkInv ==
    ASSUME ReadInv, NEW p \in Packetizers, NEW len \in ReadLens, NEW left \in Nat,
           NEW end \in BOOLEAN, Reading("uplink", p, len, left, end),
           ctx["uplink"] = <<>> => p.first, ctx["uplink"] # <<>> => p = ctx["uplink"][1],
           p.first => p.off = 0,
           avail' \in 0 .. MaxPouch, p.off + left = avail',
           session' = ~Packet(p, len, left, end).last,
           closed' \in BOOLEAN, pouches' \in 0 .. MaxPouches,
           UNCHANGED <<writeVars, fault, linkVars>>
    PROVE  ReadInv'
<1>1. TypeOK /\ SessionOwned /\ TransferInv
      BY DEF ReadInv
<1>2. /\ len \in Nat /\ "uplink" \in Reads
      /\ \A c \in Values : c \in Reads /\ c # "uplink"
      BY <1>1, Inputs
<1>3. InStep("uplink")
      BY <1>1, <1>2 DEF TransferInv
<1>4. /\ ctx' \in [Reads -> Seq(Packetizers)] /\ asm' \in [Reads -> Seq(Collected)]
      /\ \A d \in Reads : Len(ctx'[d]) <= 1 /\ Len(asm'[d]) <= 1
      /\ \A d \in Reads : d # "uplink" => ctx'[d] = ctx[d] /\ asm'[d] = asm[d]
      /\ ctx'["uplink"] # <<>> => ctx'["uplink"][1].off <= p.off + left
      /\ InStep("uplink")' /\ FirstAtZero("uplink")'
      /\ asm'["uplink"] # <<>> /\ asm'["uplink"][1].last =>
             /\ ctx'["uplink"] = <<>> /\ asm'["uplink"][1].values = {p.value}
             /\ ~asm'["uplink"][1].gap /\ asm'["uplink"][1].hi = p.off + left
      /\ ctx'["uplink"] = <<>> <=> Packet(p, len, left, end).last
      BY <1>1, <1>2, <1>3, ReadingFacts
<1>5. SessionOwned'
      BY <1>4 DEF SessionOwned
<1>6. TypeOK'
  <2>1. (\A d \in Values : ctx[d] # <<>> => ctx[d][1].value \in Versions)'
        BY <1>1, <1>2, <1>4 DEF TypeOK
  <2>2. (\A d \in Reads : ctx[d] # <<>> => ctx[d][1].off <= Total(d, ctx[d][1].value))'
    <3>1. (ctx["uplink"] # <<>> => ctx["uplink"][1].off <= Total("uplink", ctx["uplink"][1].value))'
          BY <1>4 DEF Total
    <3>2. ASSUME NEW d \in Reads, d # "uplink"
          PROVE  (ctx[d] # <<>> => ctx[d][1].off <= Total(d, ctx[d][1].value))'
          BY <1>1, <1>4, <3>2 DEF TypeOK, Total
    <3> QED BY <3>1, <3>2
  <2>3. session' \in BOOLEAN
        OBVIOUS
  <2> QED BY <1>1, <1>4, <2>1, <2>2, <2>3 DEF TypeOK, writeVars, linkVars
<1>7. TransferInv'
  <2>1. ASSUME NEW d \in Reads, d # "uplink"
        PROVE  InStep(d)' /\ FirstAtZero(d)' /\ WholeOf(d)'
    <3>1. ctx'[d] = ctx[d] /\ asm'[d] = asm[d]
          BY <1>4, <2>1
    <3>2. InStep(d) /\ FirstAtZero(d) /\ WholeOf(d)
          BY <1>1 DEF TransferInv
    <3> QED BY <2>1, <3>1, <3>2 DEF InStep, FirstAtZero, WholeOf, Whole, Total
  <2>2. WholeOf("uplink")'
        BY <1>4 DEF WholeOf, Whole, Total
  <2>3. (Whole("uplink") => ~session)'
        BY <1>4 DEF Whole
  <2> QED BY <1>4, <2>1, <2>2, <2>3 DEF TransferInv
<1> QED BY <1>5, <1>6, <1>7 DEF ReadInv

\* The other steps leave the packetizers and what the gateway has alone, or, at a
\* new connection, the gateway has nothing.
LEMMA OtherInv ==
    ASSUME ReadInv, ctx' = ctx, session' = session,
           asm' = asm \/ asm' = [c \in Reads |-> <<>>],
           avail' = avail \/ (session /\ avail' \in avail .. MaxPouch)
    PROVE  /\ SessionOwned' /\ TransferInv'
           /\ asm' \in [Reads -> Seq(Collected)] /\ \A c \in Reads : Len(asm'[c]) <= 1
           /\ (\A c \in Reads : ctx[c] # <<>> => ctx[c][1].off <= Total(c, ctx[c][1].value))'
<1>1. TypeOK /\ SessionOwned /\ TransferInv
      BY DEF ReadInv
<1>2. avail \in Nat /\ avail' \in Nat /\ avail <= avail'
      BY <1>1, GattAssumption DEF TypeOK
<1>3. SessionOwned'
      BY <1>1 DEF SessionOwned
<1>4. ASSUME NEW c \in Reads
      PROVE  (ctx[c] # <<>> => ctx[c][1].off <= Total(c, ctx[c][1].value))'
  <2>1. ctx[c] # <<>> => ctx[c][1] \in Packetizers /\ ctx[c][1].off <= Total(c, ctx[c][1].value)
        BY <1>1 DEF TypeOK
  <2>2. ctx[c] # <<>> => ctx[c][1].off \in Nat
        BY <2>1 DEF Packetizers
  <2> QED BY <1>2, <2>1, <2>2 DEF Total
<1>5. CASE asm' = asm
  <2>1. ASSUME NEW c \in Reads PROVE InStep(c)' /\ FirstAtZero(c)' /\ WholeOf(c)'
    <3>1. InStep(c) /\ FirstAtZero(c) /\ WholeOf(c)
          BY <1>1 DEF TransferInv
    <3>2. Whole(c) /\ c = "uplink" => avail' = avail
          BY <1>1 DEF TransferInv
    <3> QED BY <1>5, <3>1, <3>2 DEF InStep, FirstAtZero, WholeOf, Whole, Total
  <2>2. (Whole("uplink") => ~session)'
        BY <1>1, <1>5 DEF TransferInv, Whole
  <2>3. TransferInv'
        BY <2>1, <2>2 DEF TransferInv
  <2>4. asm' \in [Reads -> Seq(Collected)] /\ \A c \in Reads : Len(asm'[c]) <= 1
        BY <1>1, <1>5 DEF TypeOK
  <2> QED BY <1>3, <1>4, <2>3, <2>4
<1>6. CASE asm' = [c \in Reads |-> <<>>]
  <2>1. \A c \in Reads : asm'[c] = <<>> /\ Len(asm'[c]) <= 1
        BY <1>6
  <2>2. asm' \in [Reads -> Seq(Collected)]
        BY <1>6
  <2>3. \A c \in Reads : FirstAtZero(c)'
        BY <1>1 DEF TransferInv, FirstAtZero
  <2>4. "uplink" \in Reads
        BY DEF Reads
  <2>5. TransferInv'
        BY <2>1, <2>3, <2>4 DEF TransferInv, InStep, WholeOf, Whole
  <2> QED BY <1>3, <1>4, <2>1, <2>2, <2>5
<1> QED BY <1>5, <1>6

Fragment1 == [version : Versions, i : 1 .. Fragments]

\* A fragment that is written is one, and the gateway's counters stay in range.
LEMMA SendsFacts ==
    ASSUME TypeOK, NEW w \in Writes, NEW i \in 1 .. Fragments, Sends(w, i)
    PROVE  /\ next' \in [Writes -> 1 .. Fragments] /\ version' \in [Writes -> Versions]
           /\ Fragment(w, i) \in Fragment1
           /\ Fragment(w, i).i = i /\ Fragment(w, i).version = version'[w]
           /\ i = next[w] \/ i = 1
           /\ i # 1 => version'[w] = version[w]
           /\ next'[w] = (IF i = Fragments THEN 1 ELSE i + 1)
           /\ \A u \in Writes : u # w => next'[u] = next[u] /\ version'[u] = version[u]
<1>1. next \in [Writes -> 1 .. Fragments] /\ version \in [Writes -> Versions]
      BY DEF TypeOK
<1>2. /\ i = next[w] \/ i = 1
      /\ i = 1 => version["server_cert"] + version["downlink"] < MaxVersions
      /\ next' = [next EXCEPT ![w] = IF i = Fragments THEN 1 ELSE i + 1]
      /\ version' = [version EXCEPT ![w] = IF i = 1 THEN @ + 1 ELSE @]
      BY DEF Sends
<1>3. version["server_cert"] \in Nat /\ version["downlink"] \in Nat /\ version[w] \in Versions
      BY <1>1, GattAssumption DEF Writes, Versions
<1>4. w = "server_cert" \/ w = "downlink"
      BY DEF Writes
<1>5. (IF i = 1 THEN version[w] + 1 ELSE version[w]) \in Versions
      BY <1>2, <1>3, <1>4, GattAssumption DEF Versions
<1>6. (IF i = Fragments THEN 1 ELSE i + 1) \in 1 .. Fragments
      BY GattAssumption
<1>7. next' \in [Writes -> 1 .. Fragments] /\ version' \in [Writes -> Versions]
      BY <1>1, <1>2, <1>5, <1>6
<1>8. Fragment(w, i) = [version |-> version'[w], i |-> i]
      BY DEF Fragment
<1>9. /\ Fragment(w, i) \in Fragment1
      /\ Fragment(w, i).i = i /\ Fragment(w, i).version = version'[w]
      BY <1>7, <1>8 DEF Fragment1
<1>10. /\ i # 1 => version'[w] = version[w]
       /\ next'[w] = (IF i = Fragments THEN 1 ELSE i + 1)
       /\ \A u \in Writes : u # w => next'[u] = next[u] /\ version'[u] = version[u]
      BY <1>1, <1>2
<1> QED BY <1>2, <1>7, <1>9, <1>10

\* What server_cert_write does to the buffer and the certificate.
LEMMA ServerCertFacts ==
    ASSUME TypeOK, NEW i \in 1 .. Fragments, ServerCertWrite(i)
    PROVE  \E buf \in ReceivedIn(i) :
              /\ buf = <<>> \/ (Len(buf) = 1 /\ buf[1] \in Seq(Fragment1))
              /\ \/ certBuf' = <<>> /\ UNCHANGED <<cert, connected>>
                 \/ /\ buf # <<>> /\ i < Fragments
                    /\ certBuf' = <<Append(buf[1], Fragment("server_cert", i))>>
                    /\ UNCHANGED <<cert, connected>>
                 \/ /\ buf # <<>> /\ i = Fragments /\ certBuf' = <<>>
                    /\ cert' = Append(buf[1], Fragment("server_cert", i))
                    /\ UNCHANGED connected
                 \/ certBuf' = <<>> /\ UNCHANGED cert /\ connected' = FALSE
<1>1. certBuf \in Seq(Seq(Fragment1)) /\ Len(certBuf) <= 1
      BY DEF TypeOK, FragmentSeqs, Fragment1
<1>2. PICK buf \in ReceivedIn(i) :
          LET data == Append(buf[1], Fragment("server_cert", i))
          IN  \/ buf = <<>> /\ certBuf' = <<>> /\ UNCHANGED <<cert, connected>>
              \/ /\ buf # <<>> /\ i < Fragments
                 /\ certBuf' = <<data>> /\ UNCHANGED <<cert, connected>>
              \/ /\ buf # <<>> /\ i = Fragments
                 /\ certBuf' = <<>>
                 /\ \/ cert' = data /\ UNCHANGED connected
                    \/ cert' = cert /\ connected' = FALSE
      BY DEF ServerCertWrite
<1>3. buf = <<>> \/ buf = <<<<>>>> \/ buf = certBuf
      BY DEF ReceivedIn
<1>4. buf = <<>> \/ (Len(buf) = 1 /\ buf[1] \in Seq(Fragment1))
  <2>1. CASE buf = <<<<>>>>
    <3> DEFINE e == <<>>
    <3>1. e \in Seq(Fragment1)
          OBVIOUS
    <3> HIDE DEF e
    <3>2. Len(<<e>>) = 1 /\ <<e>>[1] = e
          OBVIOUS
    <3> QED BY <2>1, <3>1, <3>2 DEF e
  <2>2. CASE buf = certBuf
    <3> DEFINE S == Seq(Fragment1)
    <3>1. certBuf \in Seq(S) /\ Len(certBuf) <= 1
          BY <1>1
    <3> HIDE DEF S
    <3>2. certBuf # <<>> => Len(certBuf) \in Nat \ {0}
          BY ONLY <3>1, EmptySeq
    <3>3. ASSUME certBuf # <<>> PROVE Len(certBuf) = 1
      <4>1. Len(certBuf) \in Nat \ {0} /\ Len(certBuf) <= 1
            BY <3>1, <3>2, <3>3
      <4> QED BY ONLY <4>1
    <3>4. Len(certBuf) = 1 => certBuf[1] \in S
          BY <3>1
    <3> QED BY <2>2, <3>3, <3>4 DEF S
  <2> QED BY <1>3, <2>1, <2>2
<1> QED BY <1>2, <1>4

\* The steps of the gateway that write keep the types.
LEMMA WriteTypes ==
    ASSUME ReadInv, NEW i \in 1 .. Fragments, ServerCertWrite(i) \/ DownlinkWrite(i)
    PROVE  ReadInv'
<1>1. TypeOK /\ SessionOwned /\ TransferInv
      BY DEF ReadInv
<1>2. ctx' = ctx /\ asm' = asm /\ UNCHANGED <<sessionVars, fault, drops>>
      BY DEF ServerCertWrite, DownlinkWrite, linkVars
<1>3. /\ SessionOwned' /\ TransferInv'
      /\ (\A c \in Reads : ctx[c] # <<>> => ctx[c][1].off <= Total(c, ctx[c][1].value))'
      BY <1>2, OtherInv DEF sessionVars
<1>4. "server_cert" \in Writes /\ "downlink" \in Writes
      BY DEF Writes
<1>5. FragmentSeqs = Seq(Fragment1)
      BY DEF FragmentSeqs, Fragment1
<1>6. certBuf \in Seq(FragmentSeqs) /\ Len(certBuf) <= 1 /\ cert \in FragmentSeqs
      /\ pushed \in FragmentSeqs /\ connected \in BOOLEAN
      BY <1>1 DEF TypeOK
<1>7. /\ next' \in [Writes -> 1 .. Fragments] /\ version' \in [Writes -> Versions]
      /\ certBuf' \in Seq(FragmentSeqs) /\ Len(certBuf') <= 1
      /\ cert' \in FragmentSeqs /\ pushed' \in FragmentSeqs /\ connected' \in BOOLEAN
  <2>1. CASE ServerCertWrite(i)
    <3>1. Sends("server_cert", i) /\ UNCHANGED pushed
          BY <2>1 DEF ServerCertWrite
    <3>2. /\ next' \in [Writes -> 1 .. Fragments] /\ version' \in [Writes -> Versions]
          /\ Fragment("server_cert", i) \in Fragment1
          BY <1>1, <1>4, <3>1, SendsFacts
    <3> DEFINE f == Fragment("server_cert", i)
    <3>3. PICK buf \in ReceivedIn(i) :
              /\ buf = <<>> \/ (Len(buf) = 1 /\ buf[1] \in Seq(Fragment1))
              /\ \/ certBuf' = <<>> /\ UNCHANGED <<cert, connected>>
                 \/ /\ buf # <<>> /\ i < Fragments /\ certBuf' = <<Append(buf[1], f)>>
                    /\ UNCHANGED <<cert, connected>>
                 \/ /\ buf # <<>> /\ i = Fragments /\ certBuf' = <<>>
                    /\ cert' = Append(buf[1], f) /\ UNCHANGED connected
                 \/ certBuf' = <<>> /\ UNCHANGED cert /\ connected' = FALSE
          BY <1>1, <2>1, ServerCertFacts
    <3> HIDE DEF f
    <3>4. buf # <<>> => Append(buf[1], f) \in FragmentSeqs
          BY <1>5, <3>2, <3>3 DEF f
    <3>5. certBuf' \in Seq(FragmentSeqs) /\ Len(certBuf') <= 1
      <4>1. CASE certBuf' = <<>>
            BY <4>1
      <4>2. CASE certBuf' = <<Append(buf[1], f)>> /\ buf # <<>>
            BY <3>4, <4>2
      <4> QED BY <3>3, <4>1, <4>2
    <3>6. cert' \in FragmentSeqs /\ connected' \in BOOLEAN
          BY <1>6, <3>3, <3>4
    <3> QED BY <1>6, <3>1, <3>2, <3>5, <3>6
  <2>2. CASE DownlinkWrite(i)
    <3>1. Sends("downlink", i) /\ UNCHANGED <<certBuf, cert, connected>>
          BY <2>2 DEF DownlinkWrite, linkVars
    <3>2. /\ next' \in [Writes -> 1 .. Fragments] /\ version' \in [Writes -> Versions]
          /\ Fragment("downlink", i) \in Fragment1
          BY <1>1, <1>4, <3>1, SendsFacts
    <3>3. pushed' = Append(<<>>, Fragment("downlink", i))
          \/ pushed' = Append(pushed, Fragment("downlink", i))
          BY <2>2 DEF DownlinkWrite
    <3>4. pushed' \in FragmentSeqs
      <4> DEFINE f == Fragment("downlink", i)
      <4>1. f \in Fragment1 /\ <<>> \in Seq(Fragment1) /\ pushed \in Seq(Fragment1)
            BY <1>5, <1>6, <3>2
      <4> HIDE DEF f
      <4>2. Append(<<>>, f) \in Seq(Fragment1) /\ Append(pushed, f) \in Seq(Fragment1)
            BY <4>1
      <4> QED BY <1>5, <3>3, <4>2 DEF f
    <3> QED BY <1>6, <3>1, <3>2, <3>4
  <2> QED BY <2>1, <2>2
<1>8. TypeOK'
      BY <1>1, <1>2, <1>3, <1>7 DEF TypeOK, sessionVars
<1> QED BY <1>3, <1>8 DEF ReadInv

\* Every step of the transport keeps the types, the session and the transfers.
LEMMA ReadInvStep == ReadInv /\ [Next]_vars => ReadInv'
<1> SUFFICES ASSUME ReadInv, [Next]_vars
             PROVE  ReadInv'
    OBVIOUS
<1>0. TypeOK /\ SessionOwned /\ TransferInv
      BY DEF ReadInv
<1>1. CASE Connect
  <2>1. /\ ctx' = ctx /\ asm' = [c \in Reads |-> <<>>] /\ next' = [w \in Writes |-> 1]
        /\ connected' = TRUE
        /\ UNCHANGED <<sessionVars, certBuf, cert, pushed, version, fault, drops>>
        BY <1>1 DEF Connect
  <2>2. /\ SessionOwned' /\ TransferInv'
        /\ asm' \in [Reads -> Seq(Collected)] /\ \A c \in Reads : Len(asm'[c]) <= 1
        /\ (\A c \in Reads : ctx[c] # <<>> => ctx[c][1].off <= Total(c, ctx[c][1].value))'
        BY <2>1, OtherInv DEF sessionVars
  <2>3. next' \in [Writes -> 1 .. Fragments]
        BY <2>1, GattAssumption
  <2>4. TypeOK'
        BY <1>0, <2>1, <2>2, <2>3 DEF TypeOK, sessionVars
  <2> QED BY <2>2, <2>4 DEF ReadInv
<1>2. CASE Disconnect
  <2>1. /\ ctx' = ctx /\ asm' = asm /\ connected' = FALSE /\ drops < MaxDrops
        /\ drops' = drops + 1 /\ UNCHANGED <<sessionVars, writeVars, fault>>
        BY <1>2 DEF Disconnect
  <2>2. /\ SessionOwned' /\ TransferInv'
        /\ (\A c \in Reads : ctx[c] # <<>> => ctx[c][1].off <= Total(c, ctx[c][1].value))'
        BY <2>1, OtherInv DEF sessionVars
  <2>3. drops' \in 0 .. MaxDrops
        BY <1>0, <2>1, GattAssumption DEF TypeOK
  <2>4. TypeOK'
        BY <1>0, <2>1, <2>2, <2>3 DEF TypeOK, sessionVars, writeVars
  <2> QED BY <2>2, <2>4 DEF ReadInv
<1>3. CASE \E c \in Values, len \in ReadLens : ReadValue(c, len)
      BY <1>3, ReadValueInv
<1>4. CASE \E c \in Reads : ReadFaults(c)
  <2>1. /\ ctx' = ctx /\ asm' = asm /\ fault' = TRUE
        /\ UNCHANGED <<sessionVars, writeVars, linkVars>>
        BY <1>4 DEF ReadFaults
  <2>2. /\ SessionOwned' /\ TransferInv'
        /\ (\A c \in Reads : ctx[c] # <<>> => ctx[c][1].off <= Total(c, ctx[c][1].value))'
        BY <2>1, OtherInv DEF sessionVars
  <2>3. TypeOK'
        BY <1>0, <2>1, <2>2 DEF TypeOK, sessionVars, writeVars, linkVars
  <2> QED BY <2>2, <2>3 DEF ReadInv
<1>5. CASE \E len \in ReadLens, pre \in BOOLEAN : ReadUplinkStart(len, pre)
  <2>1. PICK len \in ReadLens, pre \in BOOLEAN : ReadUplinkStart(len, pre)
        BY <1>5
  <2> DEFINE p == packetizer_start(pouches + 1)
  <2>2. pouches \in Nat /\ pouches < MaxPouches /\ ctx["uplink"] = <<>>
        BY <1>0, <2>1, GattAssumption DEF ReadUplinkStart, TypeOK
  <2>3. p \in Packetizers /\ p.first = TRUE /\ p.off = 0
    <3>1. pouches + 1 \in Nat
          BY <2>2
    <3> QED BY ONLY <3>1, StartFacts
  <2>4. /\ Reading("uplink", p, len, 0, pre) /\ avail' = 0 /\ closed' = pre
        /\ session' = ~Packet(p, len, 0, pre).last /\ pouches' = pouches + 1
        /\ UNCHANGED <<writeVars, fault, linkVars>>
        BY <2>1 DEF ReadUplinkStart, Reading
  <2> HIDE DEF p
  <2>5. /\ avail' \in 0 .. MaxPouch /\ p.off + 0 = avail'
        /\ closed' \in BOOLEAN /\ pouches' \in 0 .. MaxPouches
    <3>1. avail' \in 0 .. MaxPouch /\ pouches' \in 0 .. MaxPouches /\ p.off + 0 = avail'
          BY <2>2, <2>3, <2>4, GattAssumption
    <3>2. closed' \in BOOLEAN
          BY <2>4
    <3> QED BY <3>1, <3>2
  <2>6. ctx["uplink"] = <<>> => p.first
        BY <2>3
  <2>7. 0 \in Nat /\ (p.first => p.off = 0) /\ (ctx["uplink"] # <<>> => p = ctx["uplink"][1])
        BY <2>2, <2>3
  <2> QED BY ONLY ReadInv, len \in ReadLens, pre \in BOOLEAN, <2>3, <2>4, <2>5, <2>6, <2>7, ReadUplinkInv
<1>6. CASE \E len \in ReadLens : ReadUplink(len)
  <2>1. PICK len \in ReadLens : ReadUplink(len)
        BY <1>6
  <2> DEFINE p == ctx["uplink"][1]
  <2>2. "uplink" \in Reads
        BY DEF Reads
  <2>3. ctx["uplink"] # <<>> /\ session
        BY <1>0, <2>1 DEF ReadUplink, SessionOwned
  <2>4. /\ p \in Packetizers /\ p.off \in Nat /\ p.off <= avail
        /\ avail \in 0 .. MaxPouch /\ closed \in BOOLEAN /\ pouches \in 0 .. MaxPouches
    <3>1. /\ ctx["uplink"] \in Seq(Packetizers) /\ p.off <= Total("uplink", p.value)
          /\ avail \in 0 .. MaxPouch /\ closed \in BOOLEAN /\ pouches \in 0 .. MaxPouches
          BY <1>0, <2>2, <2>3 DEF TypeOK
    <3>2. p \in Packetizers
          BY <2>3, <3>1
    <3>3. p.off \in Nat
          BY <3>2 DEF Packetizers
    <3> QED BY <3>1, <3>2, <3>3 DEF Total
  <2>5. /\ Reading("uplink", p, len, avail - p.off, closed) /\ UNCHANGED <<avail, closed, pouches>>
        /\ session' = ~Packet(p, len, avail - p.off, closed).last
        /\ UNCHANGED <<writeVars, fault, linkVars>>
        BY <2>1, <2>3 DEF ReadUplink, Reading
  <2>6. /\ p.first => p.off = 0
        /\ ctx["uplink"] = <<>> => p.first
        /\ ctx["uplink"] # <<>> => p = ctx["uplink"][1]
        BY <1>0, <2>2, <2>3 DEF TransferInv, FirstAtZero
  <2> HIDE DEF p
  <2>7. avail - p.off \in Nat /\ p.off + (avail - p.off) = avail'
        BY <2>4, <2>5
  <2>8. avail' \in 0 .. MaxPouch /\ closed' \in BOOLEAN /\ pouches' \in 0 .. MaxPouches
        BY <2>4, <2>5
  <2> DEFINE left == avail - p.off
  <2> HIDE DEF left
  <2> QED BY ONLY ReadInv, len \in ReadLens, <2>4, <2>5, <2>6, <2>7, <2>8, ReadUplinkInv DEF left
<1>7. CASE UplinkData
  <2>1. /\ ctx' = ctx /\ asm' = asm /\ session /\ avail' = avail + 1 /\ avail < MaxPouch
        /\ UNCHANGED <<session, closed, pouches, writeVars, fault, linkVars>>
        BY <1>7 DEF UplinkData
  <2>2. avail' \in avail .. MaxPouch /\ avail' \in 0 .. MaxPouch
        BY <1>0, <2>1, GattAssumption DEF TypeOK
  <2>3. /\ SessionOwned' /\ TransferInv'
        /\ (\A c \in Reads : ctx[c] # <<>> => ctx[c][1].off <= Total(c, ctx[c][1].value))'
        BY <2>1, <2>2, OtherInv
  <2>4. TypeOK'
        BY <1>0, <2>1, <2>2, <2>3 DEF TypeOK, writeVars, linkVars
  <2> QED BY <2>3, <2>4 DEF ReadInv
<1>8. CASE UplinkClose
  <2>1. /\ ctx' = ctx /\ asm' = asm /\ avail' = avail /\ closed' = TRUE
        /\ UNCHANGED <<session, pouches, writeVars, fault, linkVars>>
        BY <1>8 DEF UplinkClose
  <2>2. /\ SessionOwned' /\ TransferInv'
        /\ (\A c \in Reads : ctx[c] # <<>> => ctx[c][1].off <= Total(c, ctx[c][1].value))'
        BY <2>1, OtherInv
  <2>3. TypeOK'
        BY <1>0, <2>1, <2>2 DEF TypeOK, writeVars, linkVars
  <2> QED BY <2>2, <2>3 DEF ReadInv
<1>9. CASE \E i \in 1 .. Fragments : ServerCertWrite(i) \/ DownlinkWrite(i)
      BY <1>9, WriteTypes
<1>10. CASE UNCHANGED vars
  <2>1. /\ ctx' = ctx /\ asm' = asm /\ session' = session /\ avail' = avail
        /\ UNCHANGED <<closed, pouches, writeVars, fault, linkVars>>
        BY <1>10 DEF vars, sessionVars
  <2>2. /\ SessionOwned' /\ TransferInv'
        /\ (\A c \in Reads : ctx[c] # <<>> => ctx[c][1].off <= Total(c, ctx[c][1].value))'
        BY <2>1, OtherInv
  <2>3. TypeOK'
        BY <1>0, <2>1, <2>2 DEF TypeOK, writeVars, linkVars
  <2> QED BY <2>2, <2>3 DEF ReadInv
<1> QED BY <1>1, <1>2, <1>3, <1>4, <1>5, <1>6, <1>7, <1>8, <1>9, <1>10 DEF Next

\* It holds at first.
LEMMA ReadInvInit == Init => ReadInv
<1> SUFFICES ASSUME Init
             PROVE  ReadInv
    OBVIOUS
<1>1. /\ ctx = [c \in Reads |-> <<>>] /\ asm = [c \in Reads |-> <<>>]
      /\ session = FALSE /\ closed = FALSE /\ fault = FALSE /\ connected = FALSE
      /\ avail = 0 /\ pouches = 0 /\ drops = 0
      /\ certBuf = <<>> /\ cert = <<>> /\ pushed = <<>>
      /\ next = [w \in Writes |-> 1] /\ version = [w \in Writes |-> 0]
      BY DEF Init
<1>2. /\ \A c \in Reads : ctx[c] = <<>> /\ asm[c] = <<>>
      /\ ctx \in [Reads -> Seq(Packetizers)] /\ asm \in [Reads -> Seq(Collected)]
      /\ "uplink" \in Reads /\ \A c \in Values : c \in Reads
      BY <1>1 DEF Reads
<1>3. /\ avail \in 0 .. MaxPouch /\ pouches \in 0 .. MaxPouches /\ drops \in 0 .. MaxDrops
      /\ next \in [Writes -> 1 .. Fragments] /\ version \in [Writes -> Versions]
      BY <1>1, GattAssumption DEF Versions
<1>4. certBuf \in Seq(FragmentSeqs) /\ Len(certBuf) <= 1
      BY <1>1
<1>5. cert \in FragmentSeqs /\ pushed \in FragmentSeqs
      BY <1>1 DEF FragmentSeqs
<1>6. TypeOK
  <2>1. \A c \in Reads : Len(ctx[c]) <= 1 /\ Len(asm[c]) <= 1
        BY <1>2
  <2>2. session \in BOOLEAN /\ closed \in BOOLEAN /\ fault \in BOOLEAN /\ connected \in BOOLEAN
        BY <1>1
  <2> QED BY <1>2, <1>3, <1>4, <1>5, <2>1, <2>2 DEF TypeOK
<1>7. SessionOwned /\ TransferInv
      BY <1>1, <1>2 DEF SessionOwned, TransferInv, InStep, FirstAtZero, WholeOf, Whole
<1> QED BY <1>6, <1>7 DEF ReadInv

\* It holds in every state.
LEMMA ReadInvAlways == Spec => []ReadInv
<1> QED BY ReadInvInit, ReadInvStep, PTL DEF Spec

\* Every variable of the transport keeps its type, and no packetizer goes past the
\* end of its value, for every size of value and packet.
THEOREM TypeCorrect == Spec => []TypeOK
<1>1. ReadInv => TypeOK
      BY DEF ReadInv
<1> QED BY <1>1, ReadInvAlways, PTL

\* The packetizer of uplink_read exists exactly while the uplink has a session,
\* although connections are lost between any two reads.
THEOREM SessionSafe == Spec => []SessionOwned
<1>1. ReadInv => SessionOwned
      BY DEF ReadInv
<1> QED BY <1>1, ReadInvAlways, PTL

\* What a gateway collects from a first to a last mark is the whole of one value,
\* for every size of value and packet, and wherever earlier transfers broke off.
THEOREM TransfersWhole == Spec => []WholeTransfers
<1>1. ReadInv => WholeTransfers
      BY DEF ReadInv, TransferInv, WholeOf, WholeTransfers
<1> QED BY <1>1, ReadInvAlways, PTL

-----------------------------------------------------------------------------
(* Writes *)

\* The fragment after the beginning of a transfer continues it.
LEMMA PrefixAppend ==
    ASSUME NEW s \in Seq(Fragment1), NEW f \in Fragment1, NEW v,
           Prefix(s), \A k \in DOMAIN s : s[k].version = v,
           f.i = Len(s) + 1, f.version = v
    PROVE  /\ Prefix(Append(s, f)) /\ Len(Append(s, f)) = f.i
           /\ \A k \in DOMAIN Append(s, f) : Append(s, f)[k].version = v
<1> DEFINE t == Append(s, f)
<1>1. /\ Len(s) \in Nat /\ Len(t) = Len(s) + 1 /\ DOMAIN t = 1 .. Len(s) + 1
      /\ DOMAIN s = 1 .. Len(s) /\ t[Len(s) + 1] = f
      /\ \A k \in 1 .. Len(s) : t[k] = s[k]
      OBVIOUS
<1> HIDE DEF t
<1>2. \A k \in DOMAIN t : t[k].version = v /\ t[k].i = k
  <2> SUFFICES ASSUME NEW k \in DOMAIN t
               PROVE  t[k].version = v /\ t[k].i = k
      OBVIOUS
  <2>1. CASE k = Len(s) + 1
        BY <1>1, <2>1
  <2>2. CASE k # Len(s) + 1
    <3>1. k \in DOMAIN s /\ t[k] = s[k]
          BY <1>1, <2>2
    <3> QED BY <3>1 DEF Prefix
  <2> QED BY <2>1, <2>2
<1>3. 1 \in DOMAIN t
      BY <1>1
<1>4. Prefix(t)
      BY <1>2, <1>3 DEF Prefix
<1> QED BY <1>1, <1>2, <1>4 DEF t

\* The transfers that are written stay unmixed with every step, as long as what
\* was received is the fragments before the next one.
LEMMA WriteInvStep ==
    ASSUME TypeOK, WriteInv, WritesUnmixed, [Next]_vars
    PROVE  WriteInv' /\ WritesUnmixed'
<1>0. "server_cert" \in Writes /\ "downlink" \in Writes
      BY DEF Writes
<1>1. CASE UNCHANGED <<certBuf, cert, pushed, version>> /\ (next' = next \/ next' = [w \in Writes |-> 1])
  <2>1. WritesUnmixed'
        BY <1>1 DEF WritesUnmixed, Prefix
  <2>2. CASE next' = next
        BY <1>1, <2>1, <2>2 DEF WriteInv, Received
  <2>3. CASE next' = [w \in Writes |-> 1]
    <3>1. next'["server_cert"] = 1 /\ next'["downlink"] = 1
          BY <1>0, <2>3
    <3> QED BY <2>1, <3>1 DEF WriteInv
  <2> QED BY <1>1, <2>1, <2>2, <2>3
<1>2. ASSUME NEW i \in 1 .. Fragments, ServerCertWrite(i)
      PROVE  WriteInv' /\ WritesUnmixed'
  <2> DEFINE f == Fragment("server_cert", i)
             v == version'["server_cert"]
  <2>1. Sends("server_cert", i) /\ pushed' = pushed
        BY <1>2 DEF ServerCertWrite
  <2>2. /\ f \in Fragment1 /\ f.i = i /\ f.version = v
        /\ i = next["server_cert"] \/ i = 1
        /\ i # 1 => v = version["server_cert"]
        /\ next'["server_cert"] = (IF i = Fragments THEN 1 ELSE i + 1)
        /\ next'["downlink"] = next["downlink"] /\ version'["downlink"] = version["downlink"]
        BY <1>0, <2>1, SendsFacts
  <2>3. PICK buf \in ReceivedIn(i) :
            /\ buf = <<>> \/ (Len(buf) = 1 /\ buf[1] \in Seq(Fragment1))
            /\ \/ certBuf' = <<>> /\ UNCHANGED <<cert, connected>>
               \/ /\ buf # <<>> /\ i < Fragments /\ certBuf' = <<Append(buf[1], f)>>
                  /\ UNCHANGED <<cert, connected>>
               \/ /\ buf # <<>> /\ i = Fragments /\ certBuf' = <<>>
                  /\ cert' = Append(buf[1], f) /\ UNCHANGED connected
               \/ certBuf' = <<>> /\ UNCHANGED cert /\ connected' = FALSE
        BY <1>2, ServerCertFacts
  <2> HIDE DEF f, v
  <2>4. ASSUME buf # <<>>
        PROVE  /\ Prefix(Append(buf[1], f)) /\ Len(Append(buf[1], f)) = i
               /\ \A k \in DOMAIN Append(buf[1], f) : Append(buf[1], f)[k].version = v
    <3> DEFINE s == buf[1]
    <3>1. s \in Seq(Fragment1)
          BY <2>3, <2>4
    <3>2. Prefix(s) /\ Len(s) + 1 = i /\ \A k \in DOMAIN s : s[k].version = v
      <4>1. CASE i = 1
        <5>1. buf = <<<<>>>>
              BY <2>4, <4>1 DEF ReceivedIn
        <5>2. s = <<>>
              BY <5>1
        <5>3. DOMAIN s = {} /\ Len(s) = 0
              BY <5>2
        <5> QED BY <4>1, <5>3 DEF Prefix
      <4>2. CASE i # 1
        <5>1. buf = certBuf
              BY <4>2 DEF ReceivedIn
        <5>2. i = next["server_cert"] /\ next["server_cert"] > 1 /\ certBuf # <<>>
              BY <2>2, <2>4, <4>2, <5>1
        <5>3. Received(s, "server_cert") /\ Prefix(s)
              BY <5>1, <5>2 DEF WriteInv, WritesUnmixed
        <5>4. Len(s) = i - 1 /\ \A k \in DOMAIN s : s[k].version = v
              BY <2>2, <4>2, <5>2, <5>3 DEF Received
        <5> QED BY <5>3, <5>4
      <4> QED BY <4>1, <4>2
    <3> HIDE DEF s
    <3>3. f.i = Len(s) + 1
          BY <2>2, <3>2
    <3> QED BY <2>2, <3>1, <3>2, <3>3, PrefixAppend DEF s
  <2>5. CASE certBuf' = <<>> /\ cert' = cert
        BY <2>1, <2>2, <2>5 DEF WriteInv, WritesUnmixed, Received, Prefix
  <2>6. CASE buf # <<>> /\ i < Fragments /\ certBuf' = <<Append(buf[1], f)>> /\ cert' = cert
    <3> DEFINE d == Append(buf[1], f)
    <3>1. Prefix(d) /\ Len(d) = i /\ \A k \in DOMAIN d : d[k].version = v
          BY <2>4, <2>6
    <3> HIDE DEF d
    <3>2. certBuf'[1] = d
          BY <2>6 DEF d
    <3>3. next'["server_cert"] = i + 1
          BY <2>2, <2>6
    <3>4. Received(certBuf[1], "server_cert")'
          BY <3>1, <3>2, <3>3 DEF Received, v
    <3>5. Prefix(certBuf[1])'
          BY <3>1, <3>2 DEF Prefix
    <3> QED BY <2>1, <2>2, <2>6, <3>4, <3>5 DEF WriteInv, WritesUnmixed, Received, Prefix
  <2>7. CASE buf # <<>> /\ i = Fragments /\ certBuf' = <<>> /\ cert' = Append(buf[1], f)
    <3>1. Prefix(cert') /\ Len(cert') = Fragments
          BY <2>4, <2>7
    <3> QED BY <2>1, <2>2, <2>7, <3>1 DEF WriteInv, WritesUnmixed, Received, Prefix
  <2> QED BY <2>3, <2>5, <2>6, <2>7
<1>3. ASSUME NEW i \in 1 .. Fragments, DownlinkWrite(i)
      PROVE  WriteInv' /\ WritesUnmixed'
  <2> DEFINE f == Fragment("downlink", i)
             v == version'["downlink"]
             s == IF i = 1 THEN <<>> ELSE pushed
  <2>1. Sends("downlink", i) /\ pushed' = Append(s, f) /\ UNCHANGED <<certBuf, cert>>
        BY <1>3 DEF DownlinkWrite
  <2>2. /\ f \in Fragment1 /\ f.i = i /\ f.version = v
        /\ i = next["downlink"] \/ i = 1
        /\ i # 1 => v = version["downlink"]
        /\ next'["downlink"] = (IF i = Fragments THEN 1 ELSE i + 1)
        /\ next'["server_cert"] = next["server_cert"]
        /\ version'["server_cert"] = version["server_cert"]
        BY <1>0, <2>1, SendsFacts
  <2> HIDE DEF f, v
  <2>3. s \in Seq(Fragment1) /\ Prefix(s) /\ Len(s) + 1 = i /\ \A k \in DOMAIN s : s[k].version = v
    <3>1. CASE i = 1
      <4>1. s = <<>>
            BY <3>1
      <4> HIDE DEF s
      <4>2. DOMAIN s = {} /\ Len(s) = 0 /\ s \in Seq(Fragment1)
            BY <4>1
      <4> QED BY <3>1, <4>2 DEF Prefix
    <3>2. CASE i # 1
      <4>1. s = pushed /\ pushed \in Seq(Fragment1)
            BY <3>2 DEF TypeOK, FragmentSeqs, Fragment1
      <4> HIDE DEF s
      <4>2. i = next["downlink"] /\ next["downlink"] > 1
            BY <2>2, <3>2
      <4>3. Received(s, "downlink") /\ Prefix(s)
            BY <4>1, <4>2 DEF WriteInv, WritesUnmixed
      <4>4. Len(s) = i - 1 /\ \A k \in DOMAIN s : s[k].version = v
            BY <2>2, <3>2, <4>2, <4>3 DEF Received
      <4> QED BY <4>1, <4>3, <4>4
    <3> QED BY <3>1, <3>2
  <2> HIDE DEF s
  <2>4. f.i = Len(s) + 1
        BY <2>2, <2>3
  <2>5. Prefix(pushed') /\ Len(pushed') = i /\ \A k \in DOMAIN pushed' : pushed'[k].version = v
        BY <2>1, <2>2, <2>3, <2>4, PrefixAppend
  <2>6. (next["downlink"] > 1 => Received(pushed, "downlink"))'
        BY <2>2, <2>5, GattAssumption DEF Received, v
  <2> QED BY <2>1, <2>2, <2>5, <2>6 DEF WriteInv, WritesUnmixed, Received, Prefix
<1>4. CASE UNCHANGED vars
      BY <1>1, <1>4 DEF vars, writeVars
<1>5. CASE Connect
      BY <1>1, <1>5 DEF Connect
<1>6. CASE Disconnect
      BY <1>1, <1>6 DEF Disconnect, writeVars
<1>7. ASSUME NEW c \in Values, NEW len \in ReadLens, ReadValue(c, len)
      PROVE  WriteInv' /\ WritesUnmixed'
      BY <1>1, <1>7 DEF ReadValue, writeVars
<1>8. ASSUME NEW c \in Reads, ReadFaults(c) PROVE WriteInv' /\ WritesUnmixed'
      BY <1>1, <1>8 DEF ReadFaults, writeVars
<1>9. ASSUME NEW len \in ReadLens, NEW pre \in BOOLEAN, ReadUplinkStart(len, pre)
      PROVE  WriteInv' /\ WritesUnmixed'
      BY <1>1, <1>9 DEF ReadUplinkStart, writeVars
<1>10. ASSUME NEW len \in ReadLens, ReadUplink(len) PROVE WriteInv' /\ WritesUnmixed'
      BY <1>1, <1>10 DEF ReadUplink, writeVars
<1>11. CASE UplinkData
      BY <1>1, <1>11 DEF UplinkData, writeVars
<1>12. CASE UplinkClose
      BY <1>1, <1>12 DEF UplinkClose, writeVars
<1> QED BY <1>2, <1>3, <1>4, <1>5, <1>6, <1>7, <1>8, <1>9, <1>10, <1>11, <1>12 DEF Next

\* What server_cert_write installs, and what downlink_write pushes since the start of
\* a pouch, are the fragments of one transfer in order, for every number of
\* fragments, although gateways leave and begin again anywhere.
THEOREM WritesSafe == Spec => []WritesUnmixed
<1>1. Init => WriteInv /\ WritesUnmixed
  <2> SUFFICES ASSUME Init
               PROVE  WriteInv /\ WritesUnmixed
      OBVIOUS
  <2>1. /\ certBuf = <<>> /\ cert = <<>> /\ pushed = <<>>
        /\ next["server_cert"] = 1 /\ next["downlink"] = 1
        BY DEF Init, Writes
  <2>2. DOMAIN cert = {} /\ DOMAIN pushed = {}
        BY <2>1
  <2> QED BY <2>1, <2>2 DEF WriteInv, WritesUnmixed, Prefix
<1>2. TypeOK /\ (WriteInv /\ WritesUnmixed) /\ [Next]_vars => (WriteInv /\ WritesUnmixed)'
      BY WriteInvStep
<1> QED BY <1>1, <1>2, TypeCorrect, PTL DEF Spec

=============================================================================
