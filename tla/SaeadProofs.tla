---------------------------- MODULE SaeadProofs ----------------------------
(***************************************************************************)
(* Safety of Saead for every set of downlink headers, number of key slots, *)
(* width of the numbers in a nonce, and number of sessions and blocks.     *)
(***************************************************************************)
EXTENDS Saead, FiniteSetTheorems, SequenceTheorems, TLAPS

(* The invariants that make the properties inductive. *)

Nonces    == [key : Materials, pouch : Nat, index : Nat]

\* Random ids are not used again: all that were used are older than the next one.
\* While a session lasts, its nonces are the last ones, in the order of its blocks.
NonceInv ==
    /\ up.sid.value < fresh
    /\ \A i \in DOMAIN nonces : nonces[i].key.sid.value < fresh
    /\ inSession => \A i \in DOMAIN nonces :
                        nonces[i].key.sid = up.sid =>
                            LET m == i - 1 - (Len(nonces) - up.block)
                            IN  m >= 0 /\ nonces[i].index = m % NonceMod

\* While a session lasts, its header, its block number, its associated data and its
\* key are those of the pouch that was sent so far.
SentInv ==
    inSession =>
        /\ header = <<[sid |-> up.sid, alg |-> up.alg, log |-> DeviceLog, pouch |-> up.pouch]>>
        /\ up.key # 0 => /\ keys[up.key].sid = up.sid /\ keys[up.key].alg = up.alg
                         /\ keys[up.key].log = DeviceLog
                         /\ sent # <<>> => sent[1].key = keys[up.key]
        /\ up.block = Len(sent)
        /\ sent # <<>> => up.ad = <<Tag(sent[Len(sent)])>>

\* The downlink session stands behind the last block that was decrypted.
GotInv ==
    /\ down.key # 0 => "ACTIVE" \in down.flags
    /\ down.pouch < NonceMod
    /\ down.block = Len(got)
    /\ got # <<>> => down.ad = <<Tag(got[Len(got)])>>

\* A block of a sequential session of the server is remembered.
SeenInv ==
    got # <<>> => /\ "VALID" \in down.flags
                  /\ down.sid.initiator = "server" /\ down.sid.type = "sequential"
                     => seqnum = down.sid.value

-----------------------------------------------------------------------------
(* Facts about numbers, sessions and blocks *)

\* Numbers below the modulus are not changed by it.
LEMMA Mod == /\ \A n \in Nat : n % NonceMod \in Nat
             /\ \A n \in Nat : n < NonceMod => n % NonceMod = n
BY SaeadAssumption

\* Numbers with the same remainder are at least the modulus apart.
LEMMA ModApart ==
    ASSUME NEW m \in Nat, NEW n \in Nat, m < n, m % NonceMod = n % NonceMod
    PROVE  n - m >= NonceMod
<1> DEFINE p == m \div NonceMod
           q == n \div NonceMod
           r == m % NonceMod
<1>1. NonceMod \in Nat /\ NonceMod > 0
      BY SaeadAssumption
<1>2. /\ p \in Int /\ q \in Int /\ r \in Int
      /\ m = NonceMod * p + r /\ n = NonceMod * q + r
      BY <1>1
<1> HIDE DEF p, q, r
<1>3. n - m = NonceMod * (q - p)
      BY <1>1, <1>2
<1>4. q - p >= 1
      BY <1>1, <1>2, <1>3
<1> QED BY <1>1, <1>2, <1>3, <1>4

\* The fields of a session.
LEMMA SessionFields ==
    ASSUME NEW s \in Sessions
    PROVE  /\ s.sid \in SessionIds /\ s.flags \in SUBSET {"VALID", "ACTIVE", "HAS_POUCH"}
           /\ s.alg \in Algs /\ s.key \in Nat /\ s.pouch \in Nat /\ s.block \in Nat
           /\ s.ad \in Seq(Tags)
BY DEF Sessions

\* The fields of a sealed block and of its tag.
LEMMA BlockFields ==
    ASSUME NEW b \in SealedBlocks
    PROVE  /\ b.key \in Materials /\ b.pouch \in Nat /\ b.index \in Nat
           /\ b.aad \in Seq(Tags)
           /\ Tag(b) \in Tags /\ Tag(b).key = b.key /\ Tag(b).index = b.index
           /\ <<Tag(b)>> \in Seq(Tags)
<1>1. b.key \in Materials /\ b.pouch \in Nat /\ b.index \in Nat
      /\ b.aad \in Seq(Tags)
      BY DEF SealedBlocks
<1>2. Tag(b) \in Tags /\ Tag(b).key = b.key /\ Tag(b).index = b.index
      BY <1>1 DEF Tag, Tags
<1>3. <<Tag(b)>> \in Seq(Tags)
      BY <1>2
<1> QED BY <1>1, <1>2, <1>3

\* A session after a block, after the start of a pouch, and after its end.
LEMMA NextBlockFacts ==
    ASSUME NEW s \in Sessions, NEW tag \in Tags
    PROVE  LET t == NextBlock(s, tag)
           IN  /\ t \in Sessions /\ t.sid = s.sid /\ t.flags = s.flags /\ t.alg = s.alg
               /\ t.key = s.key /\ t.pouch = s.pouch /\ t.block = s.block + 1 /\ t.ad = <<tag>>
<1> DEFINE t == NextBlock(s, tag)
           a == <<tag>>
           n == s.block + 1
<1>1. a \in Seq(Tags) /\ n \in Nat
      BY SessionFields
<1>2. t = [s EXCEPT !.ad = a, !.block = n]
      BY DEF NextBlock
<1> HIDE DEF a, n, t
<1>3. /\ t \in Sessions /\ t.sid = s.sid /\ t.flags = s.flags /\ t.alg = s.alg
      /\ t.key = s.key /\ t.pouch = s.pouch /\ t.block = n /\ t.ad = a
      BY <1>1, <1>2 DEF Sessions
<1> QED BY <1>3 DEF a, n, t

\* The start of a pouch sets its id and counts the blocks from 0.
LEMMA PouchStartFacts ==
    ASSUME NEW s \in Sessions, NEW id \in Nat
    PROVE  LET t == session_pouch_start(s, id)
           IN  /\ t \in Sessions /\ t.sid = s.sid /\ t.flags = s.flags /\ t.alg = s.alg
               /\ t.key = s.key /\ t.pouch = id /\ t.block = 0 /\ t.ad = s.ad
<1> DEFINE t == session_pouch_start(s, id)
<1>1. t = [s EXCEPT !.pouch = id, !.block = 0]
      BY DEF session_pouch_start
<1> HIDE DEF t
<1>2. /\ t \in Sessions /\ t.sid = s.sid /\ t.flags = s.flags /\ t.alg = s.alg
      /\ t.key = s.key /\ t.pouch = id /\ t.block = 0 /\ t.ad = s.ad
      BY <1>1 DEF Sessions
<1> QED BY <1>2 DEF t

\* The end of an active session clears its flag and its key; another one stays as it is.
LEMMA EndFacts ==
    ASSUME NEW s \in Sessions
    PROVE  LET t == session_end(s)
           IN  /\ t \in Sessions /\ t.sid = s.sid /\ t.flags = s.flags \ {"ACTIVE"} /\ t.alg = s.alg
               /\ t.pouch = s.pouch /\ t.block = s.block /\ t.ad = s.ad
               /\ t.key = s.key \/ t.key = 0
               /\ "ACTIVE" \in s.flags => t.key = 0
<1>1. CASE "ACTIVE" \in s.flags
  <2> DEFINE f == s.flags \ {"ACTIVE"}
  <2>1. session_end(s) = [s EXCEPT !.flags = f, !.key = 0] /\ f \in SUBSET {"VALID", "ACTIVE", "HAS_POUCH"}
        BY <1>1, SessionFields DEF session_end
  <2> DEFINE t == session_end(s)
  <2> HIDE DEF f, t
  <2>2. t = [s EXCEPT !.flags = f, !.key = 0]
        BY <2>1 DEF t
  <2>3. t \in Sessions
        BY <2>1, <2>2 DEF Sessions
  <2>4. /\ t.sid = s.sid /\ t.flags = f /\ t.alg = s.alg
        /\ t.pouch = s.pouch /\ t.block = s.block /\ t.ad = s.ad /\ t.key = 0
        BY <2>2 DEF Sessions
  <2> QED BY <2>3, <2>4 DEF f, t
<1>2. CASE "ACTIVE" \notin s.flags
  <2>1. session_end(s) = s
        BY <1>2 DEF session_end
  <2>2. s.flags \ {"ACTIVE"} = s.flags
        BY <1>2
  <2> QED BY <1>2, <2>1, <2>2
<1> QED BY <1>1, <1>2

\* The blocks of the server have the form that the device expects.
LEMMA ServerBlockFacts ==
    ASSUME NEW h \in Headers, NEW c \in 1 .. MaxCerts, NEW i \in 0 .. PouchBlocks - 1
    PROVE  LET b == ServerBlock(h, c, i)
           IN  /\ b \in SealedBlocks /\ b.pouch = h.pouch
               /\ b.index = i /\ b.pouch < NonceMod
               /\ i = 0 => b.aad = <<>>
               /\ i # 0 => b.aad # <<>> /\ b.aad[1].index = i - 1 /\ b.aad[1].key = b.key
<1> DEFINE k == Material(h.sid, h.alg, h.log, c)
           t == [key |-> k, pouch |-> h.pouch, index |-> i - 1]
           a == IF i = 0 THEN <<>> ELSE <<t>>
           b == ServerBlock(h, c, i)
<1>1. /\ h.sid \in SessionIds /\ h.alg \in Algs /\ h.log \in Logs /\ h.pouch \in Nat
      /\ h.pouch < NonceMod /\ i \in Nat /\ c \in Nat
      BY SaeadAssumption DEF Algs, Logs
<1>m. k \in Materials
      BY <1>1 DEF Material, Materials
<1> HIDE DEF k
<1>2. i # 0 => t \in Tags /\ t.index = i - 1 /\ t.key = k
      BY <1>1, <1>m DEF Tags
<1> HIDE DEF t
<1>3. i = 0 => a = <<>>
      OBVIOUS
<1>4. i # 0 => a = <<t>> /\ a # <<>> /\ a[1] = t
      OBVIOUS
<1>5. a \in Seq(Tags)
  <2>1. CASE i = 0
        BY <1>3, <2>1
  <2>2. CASE i # 0
        BY <1>2, <1>4, <2>2
  <2> QED BY <2>1, <2>2
<1>6. b = [key |-> k, pouch |-> h.pouch, index |-> i, aad |-> a]
      BY DEF ServerBlock, t, k
<1> HIDE DEF a, b
<1>7. b \in SealedBlocks /\ b.key = k /\ b.pouch = h.pouch /\ b.index = i /\ b.aad = a
      BY <1>1, <1>m, <1>5, <1>6 DEF SealedBlocks
<1> QED BY <1>1, <1>2, <1>3, <1>4, <1>7 DEF b

-----------------------------------------------------------------------------
(* Keys *)

\* The types of the keys: the ids that exist are ids of keys and fit in the slots.
KeyTypes == /\ keys \in Seq(Materials) /\ live \subseteq DOMAIN keys
            /\ Cardinality(live) <= KeySlots

\* There are finitely many keys.
LEMMA LiveFinite ==
    ASSUME KeyTypes
    PROVE  IsFiniteSet(live) /\ Cardinality(live) \in Nat
<1> DEFINE n == Len(keys)
<1>1. n \in Nat /\ live \in SUBSET (1 .. n)
      BY DEF KeyTypes
<1> HIDE DEF n
<1>2. IsFiniteSet(1 .. n)
      BY <1>1, FS_Interval
<1>3. IsFiniteSet(live)
      BY <1>1, <1>2, FS_Subset
<1> QED BY <1>3, FS_CardinalityType

\* A key that is generated or copied is a new one, and gets a free slot.
LEMMA KeepFacts ==
    ASSUME KeyTypes, NEW k \in {0, NewKey}, k # 0 => SlotFree, NEW m \in Materials,
           Keep(k, m, {})
    PROVE  /\ KeyTypes' /\ k \in Nat /\ k \in {0} \cup DOMAIN keys'
           /\ live \subseteq live' /\ DOMAIN keys \subseteq DOMAIN keys'
           /\ \A j \in DOMAIN keys : keys'[j] = keys[j]
           /\ k # 0 => k \in live' /\ keys'[k] = m
<1>1. Len(keys) \in Nat /\ DOMAIN keys = 1 .. Len(keys) /\ NewKey = Len(keys) + 1
      BY DEF KeyTypes, NewKey
<1>2. IsFiniteSet(live) /\ Cardinality(live) \in Nat
      BY LiveFinite
<1>3. CASE k = 0
  <2>1. keys' = keys /\ live' = live
        BY <1>3 DEF Keep
  <2> QED BY <1>3, <2>1 DEF KeyTypes
<1>4. CASE k # 0
  <2>1. k = Len(keys) + 1 /\ keys' = Append(keys, m) /\ live' = live \cup {k}
        BY <1>1, <1>4 DEF Keep
  <2>2. /\ keys' \in Seq(Materials) /\ DOMAIN keys' = 1 .. Len(keys) + 1
        /\ keys'[k] = m /\ \A j \in 1 .. Len(keys) : keys'[j] = keys[j]
        BY <2>1 DEF KeyTypes
  <2>3. k \notin live
        BY <1>1, <2>1 DEF KeyTypes
  <2>4. Cardinality(live') = Cardinality(live) + 1
        BY <1>2, <2>1, <2>3, FS_AddElement
  <2>5. Cardinality(live') <= KeySlots
        BY <1>2, <1>4, <2>4, SaeadAssumption DEF SlotFree
  <2>6. live' \subseteq DOMAIN keys' /\ live \subseteq live' /\ DOMAIN keys \subseteq DOMAIN keys'
        BY <1>1, <2>1, <2>2 DEF KeyTypes
  <2> QED BY <1>1, <2>1, <2>2, <2>5, <2>6 DEF KeyTypes
<1> QED BY <1>3, <1>4

\* A session that ends takes keys away and makes none.
LEMMA DropFacts ==
    ASSUME KeyTypes, keys' = keys, NEW gone, live' = live \ gone
    PROVE  KeyTypes'
<1>1. IsFiniteSet(live)
      BY LiveFinite
<1>2. live' \in SUBSET live
      OBVIOUS
<1>3. Cardinality(live') <= Cardinality(live) /\ Cardinality(live) \in Nat
      /\ Cardinality(live') \in Nat
      BY <1>1, <1>2, FS_Subset, FS_CardinalityType
<1>4. Cardinality(live') <= KeySlots
      BY <1>3, SaeadAssumption DEF KeyTypes
<1> QED BY <1>2, <1>4 DEF KeyTypes

-----------------------------------------------------------------------------
(* What the steps do, field by field *)

\* The start of an uplink session.
LEMMA UplinkStartFacts ==
    ASSUME TypeOK, NEW k \in session_key_generate, UplinkStart(k)
    PROVE  /\ KeyTypes' /\ up' \in Sessions /\ up'.key = k /\ k \in {0} \cup DOMAIN keys'
           /\ live \subseteq live' /\ DOMAIN keys \subseteq DOMAIN keys'
           /\ \A j \in DOMAIN keys : keys'[j] = keys[j]
           /\ k # 0 => /\ k \in live' /\ keys'[k].sid = up'.sid /\ keys'[k].alg = up'.alg
                       /\ keys'[k].log = DeviceLog
           /\ up'.sid \in SessionIds /\ up'.sid.value = fresh /\ up'.sid.type = "random"
           /\ up'.block = 0 /\ sent' = <<>> /\ ~inSession /\ fresh' = fresh + 1
           /\ \/ header' = <<[sid |-> up'.sid, alg |-> up'.alg, log |-> DeviceLog, pouch |-> up'.pouch]>>
                 /\ inSession' = TRUE
              \/ header' = <<>> /\ inSession' = FALSE
<1>0. KeyTypes /\ up \in Sessions /\ fresh \in Nat /\ serverKey \in Nat
      BY SaeadAssumption DEF TypeOK, KeyTypes
<1>1. /\ session_id_generate \in SessionIds /\ session_id_generate.value = fresh
      /\ session_id_generate.type = "random" /\ DeviceAlg \in Algs /\ DeviceLog \in Logs
      BY <1>0 DEF session_id_generate, SessionIds, Initiators, Algs, Logs
<1>2. k \in {0, NewKey} /\ (k # 0 => SlotFree)
      BY DEF session_key_generate
<1> DEFINE m == Material(session_id_generate, DeviceAlg, DeviceLog, serverKey)
<1>3. /\ m \in Materials /\ m.sid = session_id_generate /\ m.alg = DeviceAlg
      /\ m.log = DeviceLog
      BY <1>0, <1>1 DEF Material, Materials
<1> DEFINE s == SessionStart(k)
           f == {"VALID", "ACTIVE"}
<1>4. s.sid = session_id_generate /\ s.alg = DeviceAlg /\ s.pouch = 0
      BY DEF SessionStart
<1>5. s = [sid |-> session_id_generate, flags |-> f, alg |-> DeviceAlg,
           key |-> k, pouch |-> 0, block |-> up.block, ad |-> up.ad]
      BY DEF SessionStart
<1>6. Keep(k, m, {})
      BY <1>4 DEF UplinkStart
<1>7. /\ KeyTypes' /\ k \in Nat /\ k \in {0} \cup DOMAIN keys'
      /\ live \subseteq live' /\ DOMAIN keys \subseteq DOMAIN keys'
      /\ \A j \in DOMAIN keys : keys'[j] = keys[j]
      /\ k # 0 => k \in live' /\ keys'[k] = m
      BY <1>0, <1>2, <1>3, <1>6, KeepFacts
<1>8. up' = session_pouch_start(s, s.pouch + 1) /\ s.pouch + 1 = 1
      BY <1>4 DEF UplinkStart
<1>9. up.block \in Nat /\ up.ad \in Seq(Tags) /\ f \in SUBSET {"VALID", "ACTIVE", "HAS_POUCH"}
      BY <1>0, SessionFields
<1> HIDE DEF s, f
<1>10. /\ up' \in Sessions /\ up'.sid = session_id_generate /\ up'.alg = DeviceAlg
       /\ up'.key = k /\ up'.block = 0
  <2>1. s \in Sessions /\ s.key = k
        BY <1>1, <1>5, <1>7, <1>9 DEF Sessions
  <2>2. up' = session_pouch_start(s, 1) /\ 1 \in Nat
        BY <1>8
  <2> QED BY ONLY <1>4, <2>1, <2>2, PouchStartFacts
<1>11. /\ sent' = <<>> /\ ~inSession /\ fresh' = fresh + 1
       /\ \/ header' = <<[sid |-> up'.sid, alg |-> up'.alg, log |-> DeviceLog, pouch |-> up'.pouch]>>
             /\ inSession' = TRUE
          \/ header' = <<>> /\ inSession' = FALSE
      BY DEF UplinkStart
<1> QED BY <1>1, <1>3, <1>7, <1>10, <1>11

\* The encryption of a block.
LEMMA EncryptFacts ==
    ASSUME TypeOK, EncryptBlock
    PROVE  \E b \in SealedBlocks :
              /\ b.key = keys[up.key] /\ b.pouch = up.pouch /\ b.index = up.block
              /\ b.aad = Aad(up)
              /\ sent' = Append(sent, b) /\ nonces' = Append(nonces, Nonce(up))
              /\ up' \in Sessions /\ up'.sid = up.sid /\ up'.flags = up.flags /\ up'.alg = up.alg
              /\ up'.key = up.key /\ up'.pouch = up.pouch /\ up'.block = up.block + 1
              /\ up'.ad = <<Tag(b)>>
              /\ Nonce(up) \in Nonces /\ Nonce(up).key = keys[up.key]
              /\ Nonce(up).index = up.block % NonceMod
              /\ inSession /\ "ACTIVE" \in up.flags /\ up.key \in live /\ up.key # 0
              /\ Len(sent) < MaxBlocks
<1> DEFINE b == [key |-> keys[up.key], pouch |-> up.pouch, index |-> up.block, aad |-> Aad(up)]
<1>0. up \in Sessions /\ keys \in Seq(Materials) /\ live \subseteq DOMAIN keys
      BY DEF TypeOK
<1>1. up.sid \in SessionIds /\ up.alg \in Algs /\ up.pouch \in Nat /\ up.block \in Nat
      /\ up.ad \in Seq(Tags) /\ Aad(up) \in Seq(Tags)
      BY <1>0, SessionFields DEF Aad
<1>5. keys[up.key] \in Materials /\ up.key # 0
      BY <1>0 DEF EncryptBlock
<1>2. /\ b \in SealedBlocks /\ b.key = keys[up.key] /\ b.pouch = up.pouch
      /\ b.index = up.block /\ b.aad = Aad(up)
      BY <1>1, <1>5 DEF SealedBlocks
<1>3. /\ inSession /\ "ACTIVE" \in up.flags /\ up.key \in live /\ Len(sent) < MaxBlocks
      /\ sent' = Append(sent, b) /\ nonces' = Append(nonces, Nonce(up))
      /\ up' = NextBlock(up, Tag(b))
      BY DEF EncryptBlock
<1> HIDE DEF b
<1>4. /\ up' \in Sessions /\ up'.sid = up.sid /\ up'.flags = up.flags /\ up'.alg = up.alg
      /\ up'.key = up.key /\ up'.pouch = up.pouch /\ up'.block = up.block + 1
      /\ up'.ad = <<Tag(b)>>
      BY <1>0, <1>2, <1>3, NextBlockFacts, BlockFields
<1>6. up.pouch % NonceMod \in Nat /\ up.block % NonceMod \in Nat
      BY <1>1, Mod
<1>7. /\ Nonce(up) \in Nonces /\ Nonce(up).key = keys[up.key]
      /\ Nonce(up).index = up.block % NonceMod
      BY <1>5, <1>6 DEF Nonce, Nonces
<1> QED BY <1>2, <1>3, <1>4, <1>5, <1>7

\* The start of a downlink session.
LEMMA DownlinkStartFacts ==
    ASSUME TypeOK, NEW h \in Headers, DownlinkStart(h, NewKey)
    PROVE  /\ KeyTypes' /\ down' \in Sessions /\ down'.key = NewKey /\ NewKey \in DOMAIN keys'
           /\ live \subseteq live' /\ DOMAIN keys \subseteq DOMAIN keys'
           /\ \A j \in DOMAIN keys : keys'[j] = keys[j]
           /\ NewKey \in live'
           /\ ("VALID" \in up.flags => up.sid.type = "random")
              => keys'[NewKey].sid = down'.sid /\ keys'[NewKey].alg = down'.alg
           /\ down'.sid = h.sid /\ down'.pouch < NonceMod /\ down'.block = 0
           /\ "ACTIVE" \in down'.flags /\ got' = <<>> /\ starts' = starts + 1
           /\ is_valid_downlink(h.sid, h.alg)
<1>0. KeyTypes /\ down \in Sessions /\ serverKey \in Nat
      BY SaeadAssumption DEF TypeOK, KeyTypes
<1>1. h.sid \in SessionIds /\ h.alg \in Algs /\ h.log \in Logs /\ h.pouch \in Nat /\ h.pouch < NonceMod
      BY SaeadAssumption DEF Algs, Logs
<1>2. NewKey \in Nat /\ NewKey # 0
      BY <1>0 DEF KeyTypes, NewKey
<1>3. SlotFree
      BY <1>2 DEF DownlinkStart, DownlinkKeys, session_key_generate, saead_uplink_session_key_copy
<1> DEFINE m == DownlinkMaterial(h)
<1>4. /\ m \in Materials
      /\ ("VALID" \in up.flags => up.sid.type = "random") => m.sid = h.sid /\ m.alg = h.alg
  <2>1. CASE h.sid.initiator = "server"
    <3>1. m = [sid |-> h.sid, alg |-> h.alg, log |-> h.log, cert |-> serverKey]
          BY <2>1 DEF DownlinkMaterial, Material
    <3> HIDE DEF m
    <3> QED BY <1>0, <1>1, <3>1 DEF Materials
  <2>2. CASE h.sid.initiator # "server"
    <3>1. /\ m = keys[up.key] /\ h.sid.type = "sequential" /\ "VALID" \in up.flags
          /\ up.sid = h.sid /\ up.key \in live
          BY <1>2, <2>2 DEF DownlinkStart, DownlinkKeys, DownlinkMaterial,
                saead_uplink_session_matches, saead_uplink_session_key_copy
    <3> QED BY <1>0, <3>1 DEF KeyTypes
  <2> QED BY <2>1, <2>2
<1>5. /\ Keep(NewKey, m, {}) /\ got' = <<>> /\ starts' = starts + 1
      /\ is_valid_downlink(h.sid, h.alg)
      BY DEF DownlinkStart
<1>6. /\ KeyTypes' /\ NewKey \in {0} \cup DOMAIN keys'
      /\ live \subseteq live' /\ DOMAIN keys \subseteq DOMAIN keys'
      /\ \A j \in DOMAIN keys : keys'[j] = keys[j]
      /\ NewKey \in live' /\ keys'[NewKey] = m
      BY <1>0, <1>2, <1>3, <1>4, <1>5, KeepFacts
<1> HIDE DEF m
<1> DEFINE f == {"ACTIVE"}
           s == [sid |-> h.sid, flags |-> f, alg |-> h.alg, key |-> NewKey, pouch |-> 0,
                 block |-> down.block, ad |-> down.ad]
<1>7. down' = session_pouch_start(s, h.pouch)
      BY DEF DownlinkStart
<1>8. down.block \in Nat /\ down.ad \in Seq(Tags) /\ f \in SUBSET {"VALID", "ACTIVE", "HAS_POUCH"}
      /\ "ACTIVE" \in f
      BY <1>0, SessionFields
<1> HIDE DEF f
<1>9. /\ down' \in Sessions /\ down'.sid = h.sid /\ down'.alg = h.alg /\ down'.flags = f
      /\ down'.key = NewKey /\ down'.block = 0 /\ down'.pouch = h.pouch
  <2>1. /\ s \in Sessions /\ s.sid = h.sid /\ s.alg = h.alg /\ s.flags = f /\ s.key = NewKey
        BY <1>1, <1>2, <1>8 DEF Sessions
  <2> HIDE DEF s
  <2> QED BY ONLY <1>1, <1>7, <2>1, PouchStartFacts
<1> QED BY <1>1, <1>2, <1>4, <1>5, <1>6, <1>8, <1>9

\* The decryption of a block that is authentic.
LEMMA DecryptFacts ==
    ASSUME TypeOK, NEW b \in SealedBlocks, DecryptBlock(b)
    PROVE  /\ down' \in Sessions /\ down'.sid = down.sid /\ down'.alg = down.alg
           /\ down'.key = down.key /\ down'.pouch = down.pouch /\ down'.block = down.block + 1
           /\ down'.ad = <<Tag(b)>> /\ down'.flags = down.flags \cup {"VALID", "HAS_POUCH"}
           /\ down.key \in live /\ down.key # 0
           /\ keys[down.key] = b.key
           /\ down.pouch % NonceMod = b.pouch % NonceMod /\ Aad(down) = b.aad
           /\ seenPouch' = down.pouch /\ seqnum' = SeenSeqnum(down) /\ got' = Append(got, b)
           /\ UNCHANGED <<inited, serverKey, keys, live, uplinkVars, starts>>
<1>0. down \in Sessions /\ keys \in Seq(Materials) /\ live \subseteq DOMAIN keys
      BY DEF TypeOK
<1>1. /\ Decrypts(b) /\ seenPouch' = down.pouch /\ seqnum' = SeenSeqnum(down)
      /\ got' = Append(got, b) /\ UNCHANGED <<inited, serverKey, keys, live, uplinkVars, starts>>
      BY DEF DecryptBlock
<1>2. /\ down.key \in live /\ keys[down.key] = b.key
      /\ Nonce(down).pouch = b.pouch % NonceMod /\ Aad(down) = b.aad
      BY <1>1 DEF Decrypts
<1>3. down.key # 0
      BY <1>0, <1>2
<1>4. down.pouch % NonceMod = b.pouch % NonceMod
      BY <1>2 DEF Nonce
<1> DEFINE n == NextBlock(down, Tag(b))
           f == down.flags \cup {"VALID", "HAS_POUCH"}
<1>5. /\ n \in Sessions /\ n.sid = down.sid /\ n.flags = down.flags /\ n.alg = down.alg
      /\ n.key = down.key /\ n.pouch = down.pouch /\ n.block = down.block + 1
      /\ n.ad = <<Tag(b)>>
      BY <1>0, NextBlockFacts, BlockFields
<1>6. down' = [n EXCEPT !.flags = n.flags \cup {"VALID", "HAS_POUCH"}]
      BY DEF DecryptBlock
<1> HIDE DEF n
<1>7. down' = [n EXCEPT !.flags = f] /\ f \in SUBSET {"VALID", "ACTIVE", "HAS_POUCH"}
      BY <1>0, <1>5, <1>6, SessionFields
<1> HIDE DEF f
<1>8. /\ down' \in Sessions /\ down'.sid = n.sid /\ down'.flags = f /\ down'.alg = n.alg
      /\ down'.key = n.key /\ down'.pouch = n.pouch /\ down'.block = n.block
      /\ down'.ad = n.ad
      BY <1>5, <1>7 DEF Sessions
<1> QED BY <1>1, <1>2, <1>3, <1>4, <1>5, <1>8 DEF f

\* A start that fails has a new session id and no flags.
LEMMA StartFailsFacts ==
    ASSUME TypeOK, SessionStartFails
    PROVE  /\ up' \in Sessions /\ up'.flags = {} /\ up'.key = up.key
           /\ up'.sid.value = fresh /\ ~inSession /\ fresh' = fresh + 1 /\ fresh \in Nat
           /\ UNCHANGED <<inited, serverKey, keys, live, inSession, header, sent, nonces,
                          downlinkVars>>
<1> DEFINE id == session_id_generate
           f  == {}
<1>0. up \in Sessions /\ fresh \in Nat
      BY DEF TypeOK
<1>1. id \in SessionIds /\ id.value = fresh
      BY <1>0 DEF session_id_generate, SessionIds, Initiators
<1>2. up' = [up EXCEPT !.flags = f, !.sid = id] /\ f \in SUBSET {"VALID", "ACTIVE", "HAS_POUCH"}
      BY DEF SessionStartFails
<1> HIDE DEF id, f
<1>3. up' \in Sessions /\ up'.flags = f /\ up'.key = up.key /\ up'.sid = id
      BY <1>0, <1>1, <1>2 DEF Sessions
<1>4. /\ ~inSession /\ fresh' = fresh + 1
      /\ UNCHANGED <<inited, serverKey, keys, live, inSession, header, sent, nonces, downlinkVars>>
      BY DEF SessionStartFails
<1> QED BY <1>0, <1>1, <1>3, <1>4 DEF f

\* The end of both sessions.
LEMMA SessionEndFacts ==
    ASSUME TypeOK, SessionEnd
    PROVE  /\ KeyTypes' /\ inSession' = FALSE
           /\ up' \in Sessions /\ down' \in Sessions
           /\ up'.flags = up.flags \ {"ACTIVE"} /\ down'.flags = down.flags \ {"ACTIVE"}
           /\ up'.key = up.key \/ up'.key = 0
           /\ down'.key = down.key \/ down'.key = 0
           /\ "ACTIVE" \in down.flags => down'.key = 0
           /\ up'.sid = up.sid /\ down'.sid = down.sid /\ down'.pouch = down.pouch
           /\ down'.block = down.block /\ down'.ad = down.ad
           /\ UNCHANGED <<inited, serverKey, keys, fresh, header, sent, nonces, seqnum, seenPouch,
                          starts, got>>
<1>0. KeyTypes /\ up \in Sessions /\ down \in Sessions
      BY DEF TypeOK, KeyTypes
<1>1. /\ up' = session_end(up) /\ down' = session_end(down) /\ inSession' = FALSE
      /\ live' = live \ (Destroyed(up) \cup Destroyed(down))
      /\ UNCHANGED <<inited, serverKey, keys, fresh, header, sent, nonces, seqnum, seenPouch,
                     starts, got>>
      BY DEF SessionEnd
<1>2. KeyTypes'
      BY <1>0, <1>1, DropFacts
<1>3. /\ up' \in Sessions /\ up'.flags = up.flags \ {"ACTIVE"} /\ up'.sid = up.sid
      /\ up'.key = up.key \/ up'.key = 0
      BY <1>0, <1>1, EndFacts
<1>4. /\ down' \in Sessions /\ down'.flags = down.flags \ {"ACTIVE"} /\ down'.sid = down.sid
      /\ down'.key = down.key \/ down'.key = 0
      /\ "ACTIVE" \in down.flags => down'.key = 0
      /\ down'.pouch = down.pouch /\ down'.block = down.block /\ down'.ad = down.ad
      BY <1>0, <1>1, EndFacts
<1> QED BY <1>1, <1>2, <1>3, <1>4

\* The value of a key of the type invariant, by parts.
LEMMA TypeParts ==
    TypeOK <=> /\ inited \in BOOLEAN /\ serverKey \in 0 .. MaxCerts /\ inSession \in BOOLEAN
               /\ KeyTypes /\ up \in Sessions /\ down \in Sessions
               /\ up.key \in {0} \cup DOMAIN keys /\ down.key \in {0} \cup DOMAIN keys
               /\ seqnum \in Nat /\ seenPouch \in Nat /\ fresh \in Nat /\ starts \in Nat
               /\ header \in Seq([sid : SessionIds, alg : Algs, log : Logs, pouch : Nat])
               /\ sent \in Seq(SealedBlocks) /\ got \in Seq(SealedBlocks)
               /\ nonces \in Seq(Nonces)
BY DEF TypeOK, KeyTypes, Nonces

-----------------------------------------------------------------------------
(* Type correctness *)

\* The types hold at first.
LEMMA TypeInit == Init => TypeOK
<1> SUFFICES ASSUME Init
             PROVE  TypeOK
    OBVIOUS
<1> DEFINE e == <<>>
           f == {}
           i == [initiator |-> "device", type |-> "sequential", value |-> 0]
<1>1. i \in SessionIds /\ DeviceAlg \in Algs
      BY DEF SessionIds, Initiators, Algs
<1>2. e \in Seq(Tags) /\ f \in SUBSET {"VALID", "ACTIVE", "HAS_POUCH"}
      OBVIOUS
<1> HIDE DEF i
<1>3. NoSession = [sid |-> i, flags |-> f, alg |-> DeviceAlg, key |-> 0, pouch |-> 0,
                   block |-> 0, ad |-> e]
      BY DEF NoSession, i
<1> HIDE DEF e, f
<1>4. NoSession \in Sessions /\ NoSession.key = 0
      BY <1>1, <1>2, <1>3 DEF Sessions
<1>5. /\ inited = FALSE /\ serverKey = 0 /\ inSession = FALSE
      /\ keys = <<>> /\ live = {} /\ up = NoSession /\ down = NoSession
      /\ seqnum = 0 /\ seenPouch = 0 /\ fresh = 1 /\ header = <<>> /\ sent = <<>>
      /\ nonces = <<>> /\ starts = 0 /\ got = <<>>
      BY DEF Init
<1>6. KeyTypes
  <2>1. keys \in Seq(Materials) /\ live \subseteq DOMAIN keys
        BY <1>5
  <2> QED BY <1>5, <2>1, FS_EmptySet, SaeadAssumption DEF KeyTypes
<1>7. /\ header \in Seq([sid : SessionIds, alg : Algs, log : Logs, pouch : Nat])
      /\ sent \in Seq(SealedBlocks) /\ got \in Seq(SealedBlocks) /\ nonces \in Seq(Nonces)
      BY <1>5
<1>8. /\ seqnum \in Nat /\ seenPouch \in Nat /\ fresh \in Nat /\ starts \in Nat
      /\ serverKey \in 0 .. MaxCerts
      BY <1>5, SaeadAssumption
<1>9. inited \in BOOLEAN /\ inSession \in BOOLEAN
      BY <1>5
<1> QED BY <1>4, <1>5, <1>6, <1>7, <1>8, <1>9, TypeParts

\* Every step keeps the types.
LEMMA TypeStep == TypeOK /\ [Next]_vars => TypeOK'
<1> SUFFICES ASSUME TypeOK, [Next]_vars
             PROVE  TypeOK'
    OBVIOUS
<1>0. /\ inited \in BOOLEAN /\ serverKey \in 0 .. MaxCerts /\ inSession \in BOOLEAN
      /\ KeyTypes /\ up \in Sessions /\ down \in Sessions
      /\ up.key \in {0} \cup DOMAIN keys /\ down.key \in {0} \cup DOMAIN keys
      /\ seqnum \in Nat /\ seenPouch \in Nat /\ fresh \in Nat /\ starts \in Nat
      /\ header \in Seq([sid : SessionIds, alg : Algs, log : Logs, pouch : Nat])
      /\ sent \in Seq(SealedBlocks) /\ got \in Seq(SealedBlocks)
      /\ nonces \in Seq(Nonces)
      BY TypeParts
<1>p. TypeOK' <=> (/\ inited \in BOOLEAN /\ serverKey \in 0 .. MaxCerts /\ inSession \in BOOLEAN
                   /\ KeyTypes /\ up \in Sessions /\ down \in Sessions
                   /\ up.key \in {0} \cup DOMAIN keys /\ down.key \in {0} \cup DOMAIN keys
                   /\ seqnum \in Nat /\ seenPouch \in Nat /\ fresh \in Nat /\ starts \in Nat
                   /\ header \in Seq([sid : SessionIds, alg : Algs, log : Logs, pouch : Nat])
                   /\ sent \in Seq(SealedBlocks) /\ got \in Seq(SealedBlocks)
                   /\ nonces \in Seq(Nonces))'
      BY TypeParts, PTL
<1>1. CASE CryptoInit
      BY <1>1 DEF CryptoInit, TypeOK, uplinkVars, downlinkVars
<1>2. CASE CertServerSet
      BY <1>2, SaeadAssumption DEF CertServerSet, TypeOK, uplinkVars, downlinkVars
<1>3. CASE SessionStartFails
  <2>1. /\ up' \in Sessions /\ up'.key = up.key /\ fresh' = fresh + 1
        /\ UNCHANGED <<inited, serverKey, keys, live, inSession, header, sent, nonces,
                       down, seqnum, seenPouch, starts, got>>
        BY <1>3, StartFailsFacts DEF downlinkVars
  <2> QED BY <1>0, <1>p, <2>1 DEF KeyTypes
<1>4. ASSUME NEW k \in session_key_generate, UplinkStart(k) PROVE TypeOK'
  <2>1. /\ KeyTypes' /\ up' \in Sessions /\ up'.key = k /\ k \in {0} \cup DOMAIN keys'
        /\ DOMAIN keys \subseteq DOMAIN keys'
        /\ sent' = <<>> /\ fresh' = fresh + 1
        /\ \/ header' = <<[sid |-> up'.sid, alg |-> up'.alg, log |-> DeviceLog, pouch |-> up'.pouch]>>
              /\ inSession' = TRUE
           \/ header' = <<>> /\ inSession' = FALSE
        BY <1>4, UplinkStartFacts
  <2>2. UNCHANGED <<inited, serverKey, nonces, down, seqnum, seenPouch, starts, got>>
        BY <1>4 DEF UplinkStart, downlinkVars
  <2>3. header' \in Seq([sid : SessionIds, alg : Algs, log : Logs, pouch : Nat])
    <3> DEFINE r == [sid |-> up'.sid, alg |-> up'.alg, log |-> DeviceLog, pouch |-> up'.pouch]
               R == [sid : SessionIds, alg : Algs, log : Logs, pouch : Nat]
    <3>1. r \in R
          BY <2>1, SessionFields DEF Logs
    <3> HIDE DEF r, R
    <3>2. <<r>> \in Seq(R) /\ <<>> \in Seq(R)
          BY <3>1
    <3>3. header' = <<r>> \/ header' = <<>>
          BY <2>1 DEF r
    <3>4. header' \in Seq(R)
          BY <3>2, <3>3
    <3> QED BY <3>4 DEF R
  <2>4. sent' \in Seq(SealedBlocks)
        BY <2>1
  <2>5. inSession' \in BOOLEAN
        BY <2>1
  <2> QED BY <1>0, <1>p, <2>1, <2>2, <2>3, <2>4, <2>5
<1>5. CASE EncryptBlock
  <2>1. PICK b \in SealedBlocks :
            /\ sent' = Append(sent, b) /\ nonces' = Append(nonces, Nonce(up))
            /\ up' \in Sessions /\ up'.key = up.key /\ Nonce(up) \in Nonces
        BY <1>5, EncryptFacts
  <2>2. UNCHANGED <<inited, serverKey, keys, live, inSession, fresh, header, down, seqnum,
                    seenPouch, starts, got>>
        BY <1>5 DEF EncryptBlock, downlinkVars
  <2>3. sent' \in Seq(SealedBlocks)
        BY <1>0, <2>1
  <2>4. nonces' \in Seq(Nonces)
    <3> DEFINE n == Nonce(up)
    <3> HIDE DEF n
    <3> QED BY <1>0, <2>1 DEF n
  <2> QED BY <1>0, <1>p, <2>1, <2>2, <2>3, <2>4 DEF KeyTypes
<1>6. CASE SessionEnd
  <2>1. /\ KeyTypes' /\ inSession' = FALSE
        /\ up' \in Sessions /\ down' \in Sessions
        /\ up'.key = up.key \/ up'.key = 0
        /\ down'.key = down.key \/ down'.key = 0
        /\ UNCHANGED <<inited, serverKey, keys, fresh, header, sent, nonces, seqnum, seenPouch,
                       starts, got>>
        BY <1>6, SessionEndFacts
  <2>2. inSession' \in BOOLEAN
        BY <2>1
  <2> QED BY <1>0, <1>p, <2>1, <2>2
<1>7. ASSUME NEW h \in Headers, DownlinkStart(h, NewKey) PROVE TypeOK'
  <2>1. /\ KeyTypes' /\ down' \in Sessions /\ down'.key = NewKey /\ NewKey \in DOMAIN keys'
        /\ DOMAIN keys \subseteq DOMAIN keys' /\ got' = <<>> /\ starts' = starts + 1
        BY <1>7, DownlinkStartFacts
  <2>2. UNCHANGED <<inited, serverKey, uplinkVars, seqnum, seenPouch>>
        BY <1>7 DEF DownlinkStart
  <2>3. got' \in Seq(SealedBlocks)
        BY <2>1
  <2> QED BY <1>0, <1>p, <2>1, <2>2, <2>3 DEF uplinkVars
<1>8. ASSUME NEW h \in Headers, NEW c \in 1 .. MaxCerts, NEW i \in 0 .. PouchBlocks - 1,
             DecryptBlock(ServerBlock(h, c, i))
      PROVE  TypeOK'
  <2> DEFINE b == ServerBlock(h, c, i)
  <2>1. b \in SealedBlocks
        BY ServerBlockFacts
  <2> HIDE DEF b
  <2>2. DecryptBlock(b)
        BY <1>8 DEF b
  <2>3. /\ down' \in Sessions /\ down'.key = down.key
        /\ seenPouch' = down.pouch /\ seqnum' = SeenSeqnum(down) /\ got' = Append(got, b)
        /\ UNCHANGED <<inited, serverKey, keys, live, uplinkVars, starts>>
        BY <2>1, <2>2, DecryptFacts
  <2>4. SeenSeqnum(down) \in Nat /\ down.pouch \in Nat
    <3>1. down.sid \in SessionIds /\ down.pouch \in Nat
          BY <1>0, SessionFields
    <3>2. down.sid.value \in Nat
          BY <3>1 DEF SessionIds
    <3> QED BY <1>0, <3>1, <3>2 DEF SeenSeqnum
  <2>5. got' \in Seq(SealedBlocks)
        BY <1>0, <2>1, <2>3
  <2> QED BY <1>0, <1>p, <2>3, <2>4, <2>5 DEF uplinkVars, KeyTypes
<1>9. CASE UNCHANGED vars
      BY <1>9 DEF vars, TypeOK, uplinkVars, downlinkVars
<1> QED BY <1>1, <1>2, <1>3, <1>4, <1>5, <1>6, <1>7, <1>8, <1>9 DEF Next

\* Every variable of the crypto layer keeps its type: the key ids in use are ids of
\* keys, and no history of failures takes more key slots than there are.
THEOREM TypeCorrect == Spec => []TypeOK
<1> QED BY TypeInit, TypeStep, PTL DEF Spec

-----------------------------------------------------------------------------
(* The keys of the sessions *)

\* KeyMatchesSession for one session.
KeyOf(s) == "ACTIVE" \in s.flags /\ s.key # 0 =>
                s.key \in live /\ keys[s.key].sid = s.sid /\ keys[s.key].alg = s.alg

\* The ids of the device are random ones.
UplinkRandom == "VALID" \in up.flags => up.sid.type = "random"

\* Every step keeps the keys of the sessions that are active.
LEMMA KeyStep ==
    ASSUME TypeOK, KeyOf(up), KeyOf(down), UplinkRandom, [Next]_vars
    PROVE  KeyOf(up)' /\ KeyOf(down)' /\ UplinkRandom'
<1>0. KeyTypes /\ up \in Sessions /\ down \in Sessions
      BY TypeParts
<1>1. CASE UNCHANGED <<keys, live, up, down>>
      BY <1>1 DEF KeyOf, UplinkRandom
<1>2. CASE CryptoInit \/ CertServerSet \/ UNCHANGED vars
      BY <1>1, <1>2 DEF CryptoInit, CertServerSet, vars, uplinkVars, downlinkVars
<1>3. CASE SessionStartFails
  <2>1. up'.flags = {} /\ UNCHANGED <<keys, live, down>>
        BY <1>3, StartFailsFacts DEF downlinkVars
  <2> QED BY <2>1 DEF KeyOf, UplinkRandom
<1>4. ASSUME NEW k \in session_key_generate, UplinkStart(k)
      PROVE  KeyOf(up)' /\ KeyOf(down)' /\ UplinkRandom'
  <2>1. /\ up'.key = k /\ live \subseteq live' /\ \A j \in DOMAIN keys : keys'[j] = keys[j]
        /\ k # 0 => k \in live' /\ keys'[k].sid = up'.sid /\ keys'[k].alg = up'.alg
        /\ up'.sid.type = "random"
        BY <1>4, UplinkStartFacts
  <2>2. down' = down
        BY <1>4 DEF UplinkStart, downlinkVars
  <2>3. KeyOf(up)'
        BY <2>1 DEF KeyOf, UplinkRandom
  <2>4. KeyOf(down)'
        BY <1>0, <2>1, <2>2 DEF KeyOf, KeyTypes
  <2> QED BY <2>1, <2>2, <2>3, <2>4 DEF UplinkRandom
<1>5. CASE EncryptBlock
  <2>1. /\ up'.sid = up.sid /\ up'.flags = up.flags /\ up'.alg = up.alg /\ up'.key = up.key
        BY <1>5, EncryptFacts
  <2>2. UNCHANGED <<keys, live, down>>
        BY <1>5 DEF EncryptBlock, downlinkVars
  <2> QED BY <2>1, <2>2 DEF KeyOf, UplinkRandom
<1>6. CASE SessionEnd
  <2>1. up'.flags = up.flags \ {"ACTIVE"} /\ down'.flags = down.flags \ {"ACTIVE"} /\ up'.sid = up.sid
        BY <1>6, SessionEndFacts
  <2> QED BY <2>1 DEF KeyOf, UplinkRandom
<1>7. ASSUME NEW h \in Headers, DownlinkStart(h, NewKey)
      PROVE  KeyOf(up)' /\ KeyOf(down)' /\ UplinkRandom'
  <2>1. /\ down'.key = NewKey /\ live \subseteq live' /\ \A j \in DOMAIN keys : keys'[j] = keys[j]
        /\ NewKey \in live' /\ keys'[NewKey].sid = down'.sid /\ keys'[NewKey].alg = down'.alg
        BY <1>7, DownlinkStartFacts DEF UplinkRandom
  <2>2. up' = up
        BY <1>7 DEF DownlinkStart, uplinkVars
  <2>3. KeyOf(down)'
        BY <2>1 DEF KeyOf, UplinkRandom
  <2>4. KeyOf(up)'
        BY <1>0, <2>1, <2>2 DEF KeyOf, KeyTypes
  <2> QED BY <2>1, <2>2, <2>3, <2>4 DEF UplinkRandom
<1>8. ASSUME NEW h \in Headers, NEW c \in 1 .. MaxCerts, NEW i \in 0 .. PouchBlocks - 1,
             DecryptBlock(ServerBlock(h, c, i))
      PROVE  KeyOf(up)' /\ KeyOf(down)' /\ UplinkRandom'
  <2> DEFINE b == ServerBlock(h, c, i)
  <2>1. b \in SealedBlocks
        BY ServerBlockFacts
  <2> HIDE DEF b
  <2>2. DecryptBlock(b)
        BY <1>8 DEF b
  <2>3. /\ down'.sid = down.sid /\ down'.alg = down.alg /\ down'.key = down.key
        /\ down'.flags = down.flags \cup {"VALID", "HAS_POUCH"}
        /\ UNCHANGED <<keys, live, uplinkVars>>
        BY <2>1, <2>2, DecryptFacts
  <2> QED BY <2>3 DEF KeyOf, UplinkRandom, uplinkVars
<1> QED BY <1>2, <1>3, <1>4, <1>5, <1>6, <1>7, <1>8 DEF Next

\* An active session with a key has the key of its id, and the key exists: neither
\* the end, the failure nor the start of one session touches the key of the other.
THEOREM KeysMatch == Spec => []KeyMatchesSession
<1>1. Init => KeyOf(up) /\ KeyOf(down) /\ UplinkRandom
      BY DEF Init, KeyOf, NoSession, UplinkRandom
<1>2. TypeOK /\ (KeyOf(up) /\ KeyOf(down) /\ UplinkRandom) /\ [Next]_vars
      => (KeyOf(up) /\ KeyOf(down) /\ UplinkRandom)'
      BY KeyStep
<1>3. KeyOf(up) /\ KeyOf(down) => KeyMatchesSession
      BY DEF KeyOf, KeyMatchesSession
<1> QED BY <1>1, <1>2, <1>3, TypeCorrect, PTL DEF Spec

-----------------------------------------------------------------------------
(* The nonces of the device *)

\* No step uses a nonce again too soon.
LEMMA NonceStep ==
    ASSUME TypeOK, KeyMatchesSession, NonceInv, SentInv, NonceUnique, [Next]_vars
    PROVE  NonceInv' /\ NonceUnique'
<1>0. KeyTypes /\ up \in Sessions /\ fresh \in Nat /\ nonces \in Seq(Nonces)
      BY TypeParts
<1>v. \A j \in DOMAIN nonces : nonces[j] \in Nonces /\ nonces[j].key.sid.value \in Nat
                               /\ nonces[j].index \in Nat
  <2>1. \A j \in DOMAIN nonces : nonces[j] \in Nonces
        BY <1>0
  <2> QED BY <2>1 DEF Nonces, Materials, SessionIds
<1>u. up.sid.value \in Nat /\ up.block \in Nat
  <2>1. up.sid \in SessionIds /\ up.block \in Nat
        BY <1>0, SessionFields
  <2> QED BY <2>1 DEF SessionIds
<1>1. CASE UNCHANGED <<up, fresh, nonces>> /\ (inSession' => inSession)
      BY <1>1 DEF NonceInv, NonceUnique
<1>2. CASE CryptoInit \/ CertServerSet \/ UNCHANGED vars
      BY <1>1, <1>2 DEF CryptoInit, CertServerSet, vars, uplinkVars
<1>3. CASE SessionStartFails
  <2>1. /\ up'.sid.value = fresh /\ ~inSession' /\ fresh' = fresh + 1 /\ nonces' = nonces
        BY <1>3, StartFailsFacts
  <2> QED BY <1>0, <1>v, <2>1 DEF NonceInv, NonceUnique
<1>4. ASSUME NEW k \in session_key_generate, UplinkStart(k) PROVE NonceInv' /\ NonceUnique'
  <2>1. up'.sid.value = fresh /\ fresh' = fresh + 1
        BY <1>4, UplinkStartFacts
  <2>2. nonces' = nonces
        BY <1>4 DEF UplinkStart
  <2>3. \A j \in DOMAIN nonces : nonces[j].key.sid # up'.sid /\ nonces[j].key.sid.value < fresh'
        BY <1>0, <1>v, <2>1 DEF NonceInv
  <2> QED BY <1>0, <2>1, <2>2, <2>3 DEF NonceInv, NonceUnique
<1>5. CASE EncryptBlock
  <2> DEFINE n == Nonce(up)
  <2>1. /\ nonces' = Append(nonces, n) /\ n \in Nonces
        /\ n.key = keys[up.key] /\ n.index = up.block % NonceMod
        /\ up'.sid = up.sid /\ up'.block = up.block + 1
        /\ inSession /\ "ACTIVE" \in up.flags /\ up.key # 0 /\ Len(sent) < MaxBlocks
        BY <1>5, EncryptFacts
  <2>2. inSession' = inSession /\ fresh' = fresh
        BY <1>5 DEF EncryptBlock
  <2> HIDE DEF n
  <2>3. n.key.sid = up.sid
        BY <2>1 DEF KeyMatchesSession
  <2>6. /\ Len(nonces) \in Nat /\ DOMAIN nonces = 1 .. Len(nonces)
        /\ DOMAIN nonces' = 1 .. Len(nonces) + 1 /\ nonces'[Len(nonces) + 1] = n
        /\ \A j \in 1 .. Len(nonces) : nonces'[j] = nonces[j]
        BY <1>0, <2>1
  <2>7. ASSUME NEW j \in DOMAIN nonces'
        PROVE  (j \in DOMAIN nonces /\ nonces'[j] = nonces[j])
               \/ (j = Len(nonces) + 1 /\ nonces'[j] = n)
        BY <2>6
  <2>8. NonceUnique'
    <3> SUFFICES ASSUME NEW i \in DOMAIN nonces', NEW j \in DOMAIN nonces', i < j,
                        nonces'[i] = nonces'[j]
                 PROVE  j - i >= NonceMod
        BY DEF NonceUnique
    <3>1. i \in DOMAIN nonces /\ nonces'[i] = nonces[i]
          BY <2>6
    <3>2. CASE j \in DOMAIN nonces /\ nonces'[j] = nonces[j]
          BY <3>1, <3>2 DEF NonceUnique
    <3>3. CASE j = Len(nonces) + 1 /\ nonces'[j] = n
      <4> DEFINE m == i - 1 - (Len(nonces) - up.block)
      <4>1. nonces[i].key.sid = up.sid /\ nonces[i].index = up.block % NonceMod
            BY <2>1, <2>3, <3>1, <3>3
      <4>2. m >= 0 /\ m % NonceMod = up.block % NonceMod
            BY <2>1, <3>1, <4>1 DEF NonceInv
      <4>3. m \in Nat /\ m < up.block /\ j - i = up.block - m
            BY <1>u, <2>6, <3>1, <3>3, <4>2
      <4> HIDE DEF m
      <4> QED BY <1>u, <4>2, <4>3, ModApart
    <3> QED BY <2>7, <3>2, <3>3
  <2>9. ASSUME NEW j \in DOMAIN nonces'
        PROVE  nonces'[j].key.sid.value < fresh'
    <3>1. CASE j \in DOMAIN nonces /\ nonces'[j] = nonces[j]
          BY <2>2, <3>1 DEF NonceInv
    <3>2. CASE nonces'[j] = n
          BY <2>2, <2>3, <3>2 DEF NonceInv
    <3> QED BY <2>7, <3>1, <3>2
  <2>10. ASSUME NEW j \in DOMAIN nonces', nonces'[j].key.sid = up'.sid
         PROVE  LET m == j - 1 - (Len(nonces') - up'.block)
                IN  m >= 0 /\ nonces'[j].index = m % NonceMod
    <3>1. Len(nonces') - up'.block = Len(nonces) - up.block
          BY <1>u, <2>1, <2>6
    <3>2. CASE j \in DOMAIN nonces /\ nonces'[j] = nonces[j]
          BY <2>1, <2>10, <3>1, <3>2 DEF NonceInv
    <3>3. CASE j = Len(nonces) + 1 /\ nonces'[j] = n
      <4>1. j - 1 - (Len(nonces) - up.block) = up.block
            BY <1>u, <2>6, <3>3
      <4> QED BY <1>u, <2>1, <3>1, <3>3, <4>1
    <3> QED BY <2>7, <3>2, <3>3
  <2>11. NonceInv'
        BY <2>1, <2>2, <2>9, <2>10 DEF NonceInv
  <2> QED BY <2>8, <2>11
<1>6. CASE SessionEnd
  <2>1. inSession' = FALSE /\ up'.sid = up.sid /\ UNCHANGED <<fresh, nonces>>
        BY <1>6, SessionEndFacts
  <2> QED BY <2>1 DEF NonceInv, NonceUnique
<1>7. ASSUME NEW h \in Headers, DownlinkStart(h, NewKey) PROVE NonceInv' /\ NonceUnique'
      BY <1>1, <1>7 DEF DownlinkStart, uplinkVars
<1>8. ASSUME NEW b, DecryptBlock(b) PROVE NonceInv' /\ NonceUnique'
      BY <1>1, <1>8 DEF DecryptBlock, uplinkVars
<1> QED BY <1>2, <1>3, <1>4, <1>5, <1>6, <1>7, <1>8 DEF Next

-----------------------------------------------------------------------------
(* The uplink pouch *)

\* Every step keeps the uplink pouch decryptable.
LEMMA SentStep ==
    ASSUME TypeOK, SentInv, PouchDecryptable, [Next]_vars
    PROVE  SentInv' /\ PouchDecryptable'
<1>0. up \in Sessions /\ sent \in Seq(SealedBlocks) /\ up.key \in {0} \cup DOMAIN keys
      BY TypeParts
<1>1. CASE /\ UNCHANGED <<up, header, sent>> /\ (inSession' => inSession)
           /\ \A j \in DOMAIN keys : keys'[j] = keys[j]
  <2>1. up.key # 0 => keys'[up.key] = keys[up.key]
        BY <1>0, <1>1
  <2> QED BY <1>1, <2>1 DEF SentInv, PouchDecryptable, Tag
<1>2. CASE CryptoInit \/ CertServerSet \/ UNCHANGED vars
      BY <1>1, <1>2 DEF CryptoInit, CertServerSet, vars, uplinkVars
<1>3. CASE ~inSession' /\ UNCHANGED <<header, sent>>
      BY <1>3 DEF SentInv, PouchDecryptable, Tag
<1>4. CASE SessionStartFails
      BY <1>3, <1>4 DEF SessionStartFails
<1>5. CASE SessionEnd
      BY <1>3, <1>5 DEF SessionEnd
<1>6. ASSUME NEW k \in session_key_generate, UplinkStart(k) PROVE SentInv' /\ PouchDecryptable'
  <2>1. /\ up'.block = 0 /\ sent' = <<>> /\ up'.key = k
        /\ k # 0 => /\ keys'[k].sid = up'.sid /\ keys'[k].alg = up'.alg
                    /\ keys'[k].log = DeviceLog
        /\ \/ header' = <<[sid |-> up'.sid, alg |-> up'.alg, log |-> DeviceLog, pouch |-> up'.pouch]>>
           \/ inSession' = FALSE
        BY <1>6, UplinkStartFacts
  <2>2. DOMAIN sent' = {} /\ Len(sent') = 0
        BY <2>1
  <2> QED BY <2>1, <2>2 DEF SentInv, PouchDecryptable
<1>7. CASE EncryptBlock
  <2>1. PICK b \in SealedBlocks :
              /\ b.key = keys[up.key] /\ b.pouch = up.pouch /\ b.index = up.block
              /\ b.aad = Aad(up)
              /\ sent' = Append(sent, b) /\ up.key # 0 /\ up'.key = up.key
              /\ up'.sid = up.sid /\ up'.alg = up.alg /\ up'.pouch = up.pouch
              /\ up'.block = up.block + 1 /\ up'.ad = <<Tag(b)>> /\ inSession
        BY <1>7, EncryptFacts
  <2>2. UNCHANGED <<header, inSession, keys>>
        BY <1>7 DEF EncryptBlock
  <2>3. /\ header = <<[sid |-> up.sid, alg |-> up.alg, log |-> DeviceLog, pouch |-> up.pouch]>>
        /\ b.key.sid = up.sid /\ b.key.alg = up.alg /\ b.key.log = DeviceLog
        /\ sent # <<>> => sent[1].key = b.key
        /\ up.block = Len(sent) /\ (sent # <<>> => up.ad = <<Tag(sent[Len(sent)])>>)
        BY <2>1 DEF SentInv
  <2>4. /\ Len(sent) \in Nat /\ DOMAIN sent = 1 .. Len(sent)
        /\ DOMAIN sent' = 1 .. Len(sent) + 1 /\ Len(sent') = Len(sent) + 1
        /\ sent'[Len(sent) + 1] = b
        /\ \A j \in 1 .. Len(sent) : sent'[j] = sent[j]
        BY <1>0, <2>1
  <2>k. sent'[1].key = b.key
    <3>1. CASE sent = <<>>
          BY <2>4, <3>1
    <3>2. CASE sent # <<>>
      <4>1. 1 \in 1 .. Len(sent)
            BY <1>0, <3>2
      <4> QED BY <2>3, <2>4, <3>2, <4>1
    <3> QED BY <3>1, <3>2
  <2>5. SentInv'
    <3>1. header' = <<[sid |-> up'.sid, alg |-> up'.alg, log |-> DeviceLog, pouch |-> up'.pouch]>>
          BY <2>1, <2>2, <2>3
    <3>3. /\ keys'[up'.key].sid = up'.sid /\ keys'[up'.key].alg = up'.alg
          /\ keys'[up'.key].log = DeviceLog /\ sent'[1].key = keys'[up'.key]
          BY <2>1, <2>2, <2>3, <2>k
    <3>2. up'.block = Len(sent') /\ up'.ad = <<Tag(sent'[Len(sent')])>>
          BY <2>1, <2>3, <2>4
    <3> QED BY <3>1, <3>2, <3>3 DEF SentInv, Tag
  <2>6. /\ header # <<>> /\ header[1].sid = up.sid /\ header[1].alg = up.alg
        /\ header[1].log = DeviceLog /\ header[1].pouch = up.pouch
        BY <2>3
  <2>7. ASSUME NEW j \in DOMAIN sent'
        PROVE  /\ header' # <<>> /\ sent'[j].key = sent'[1].key
               /\ sent'[j].key.sid = header'[1].sid /\ sent'[j].key.alg = header'[1].alg
               /\ sent'[j].key.log = header'[1].log
               /\ sent'[j].pouch = header'[1].pouch /\ sent'[j].index = j - 1
               /\ sent'[j].aad = (IF j = 1 THEN <<>> ELSE <<Tag(sent'[j - 1])>>)
    <3>1. CASE j = Len(sent) + 1
      <4>1. b.aad = (IF j = 1 THEN <<>> ELSE <<Tag(sent'[j - 1])>>)
        <5>1. CASE Len(sent) = 0
              BY <2>1, <2>3, <3>1, <5>1 DEF Aad
        <5>2. CASE Len(sent) # 0
          <6>1. sent # <<>> /\ j # 1 /\ sent'[j - 1] = sent[Len(sent)] /\ up.block > 0
                BY <2>3, <2>4, <3>1, <5>2
          <6> QED BY <2>1, <2>3, <6>1 DEF Aad
        <5> QED BY <5>1, <5>2
      <4>2. sent'[j] = b
            BY <2>4, <3>1
      <4>3. b.index = j - 1
            BY <2>1, <2>3, <2>4, <3>1
      <4>4. /\ header' # <<>> /\ b.key.sid = header'[1].sid /\ b.key.alg = header'[1].alg
            /\ b.key.log = header'[1].log /\ b.pouch = header'[1].pouch
        <5>1. header' = header
              BY <2>2
        <5> QED BY <2>1, <2>3, <2>6, <5>1
      <4> QED BY <2>k, <4>1, <4>2, <4>3, <4>4
    <3>2. CASE j # Len(sent) + 1
      <4>1. /\ j \in DOMAIN sent /\ sent'[j] = sent[j] /\ (j # 1 => sent'[j - 1] = sent[j - 1])
            /\ sent'[1] = sent[1]
            BY <2>4, <3>2
      <4> QED BY <2>2, <4>1 DEF PouchDecryptable
    <3> QED BY <3>1, <3>2
  <2>8. PouchDecryptable'
        BY <2>7 DEF PouchDecryptable, Tag
  <2> QED BY <2>5, <2>8
<1>8. ASSUME NEW h \in Headers, DownlinkStart(h, NewKey) PROVE SentInv' /\ PouchDecryptable'
  <2>1. \A j \in DOMAIN keys : keys'[j] = keys[j]
        BY <1>8, DownlinkStartFacts
  <2> QED BY <1>1, <1>8, <2>1 DEF DownlinkStart, uplinkVars
<1>9. ASSUME NEW b, DecryptBlock(b) PROVE SentInv' /\ PouchDecryptable'
      BY <1>1, <1>9 DEF DecryptBlock, uplinkVars
<1> QED BY <1>2, <1>4, <1>5, <1>6, <1>7, <1>8, <1>9 DEF Next

\* It is decryptable in every state.
LEMMA SentAlways == Spec => [](SentInv /\ PouchDecryptable)
<1>1. Init => SentInv /\ PouchDecryptable
  <2> SUFFICES ASSUME Init
               PROVE  SentInv /\ PouchDecryptable
      OBVIOUS
  <2>1. ~inSession /\ sent = <<>>
        BY DEF Init
  <2>2. DOMAIN sent = {}
        BY <2>1
  <2> QED BY <2>1, <2>2 DEF SentInv, PouchDecryptable
<1>2. TypeOK /\ (SentInv /\ PouchDecryptable) /\ [Next]_vars => (SentInv /\ PouchDecryptable)'
      BY SentStep
<1> QED BY <1>1, <1>2, TypeCorrect, PTL DEF Spec

\* The blocks of an uplink pouch are numbered and chained as its header says, for
\* every number of blocks and whatever sessions fail before it.
THEOREM UplinkDecryptable == Spec => []PouchDecryptable
<1> QED BY SentAlways, PTL

\* A nonce comes back with the same key only after as many blocks as the number in
\* it can count, for every number of sessions, of blocks in a pouch and of keys.
THEOREM NoncesUnique == Spec => []NonceUnique
<1>1. Init => NonceInv /\ NonceUnique
  <2> SUFFICES ASSUME Init
               PROVE  NonceInv /\ NonceUnique
      OBVIOUS
  <2>1. ~inSession /\ nonces = <<>> /\ fresh = 1 /\ up.sid.value = 0
        BY DEF Init, NoSession
  <2>2. DOMAIN nonces = {}
        BY <2>1
  <2> QED BY <2>1, <2>2 DEF NonceInv, NonceUnique
<1>2. TypeOK /\ KeyMatchesSession /\ SentInv /\ (NonceInv /\ NonceUnique) /\ [Next]_vars
      => (NonceInv /\ NonceUnique)'
      BY NonceStep
<1> QED BY <1>1, <1>2, TypeCorrect, KeysMatch, SentAlways, PTL DEF Spec

-----------------------------------------------------------------------------
(* The downlink pouch *)

\* Every step keeps what was decrypted in sequence.
LEMMA GotStep ==
    ASSUME TypeOK, KeyMatchesSession, GotInv, SeenInv, DecryptedInSequence, [Next]_vars
    PROVE  GotInv' /\ SeenInv' /\ DecryptedInSequence'
<1>0. down \in Sessions /\ got \in Seq(SealedBlocks)
      BY TypeParts
<1>1. CASE UNCHANGED <<down, got, seqnum>>
      BY <1>1 DEF GotInv, SeenInv, DecryptedInSequence, Tag
<1>2. CASE CryptoInit \/ CertServerSet \/ SessionStartFails \/ EncryptBlock \/ UNCHANGED vars
      BY <1>1, <1>2 DEF CryptoInit, CertServerSet, SessionStartFails, EncryptBlock, vars,
                        downlinkVars
<1>3. ASSUME NEW k, UplinkStart(k) PROVE GotInv' /\ SeenInv' /\ DecryptedInSequence'
      BY <1>1, <1>3 DEF UplinkStart, downlinkVars
<1>4. CASE SessionEnd
  <2>1. /\ down'.flags = down.flags \ {"ACTIVE"} /\ (down'.key = down.key \/ down'.key = 0)
        /\ "ACTIVE" \in down.flags => down'.key = 0
        /\ down'.sid = down.sid /\ down'.pouch = down.pouch
        /\ down'.block = down.block /\ down'.ad = down.ad
        /\ UNCHANGED <<seqnum, got>>
        BY <1>4, SessionEndFacts
  <2>2. "VALID" \in down.flags => "VALID" \in down'.flags
        BY <2>1
  <2> QED BY <2>1, <2>2 DEF GotInv, SeenInv, DecryptedInSequence, Tag
<1>5. ASSUME NEW h \in Headers, DownlinkStart(h, NewKey)
      PROVE  GotInv' /\ SeenInv' /\ DecryptedInSequence'
  <2>1. /\ down'.pouch < NonceMod /\ down'.block = 0 /\ "ACTIVE" \in down'.flags /\ got' = <<>>
        BY <1>5, DownlinkStartFacts
  <2>2. DOMAIN got' = {} /\ Len(got') = 0
        BY <2>1
  <2> QED BY <2>1, <2>2 DEF GotInv, SeenInv, DecryptedInSequence
<1>6. ASSUME NEW h \in Headers, NEW c \in 1 .. MaxCerts, NEW i \in 0 .. PouchBlocks - 1,
             DecryptBlock(ServerBlock(h, c, i))
      PROVE  GotInv' /\ SeenInv' /\ DecryptedInSequence'
  <2> DEFINE b == ServerBlock(h, c, i)
  <2>1. /\ b \in SealedBlocks /\ b.index = i /\ b.pouch < NonceMod
        /\ i = 0 => b.aad = <<>>
        /\ i # 0 => b.aad # <<>> /\ b.aad[1].index = i - 1 /\ b.aad[1].key = b.key
        BY ServerBlockFacts
  <2> HIDE DEF b
  <2>2. DecryptBlock(b)
        BY <1>6 DEF b
  <2>3. /\ down'.sid = down.sid /\ down'.key = down.key /\ down'.pouch = down.pouch
        /\ down'.block = down.block + 1 /\ down'.ad = <<Tag(b)>>
        /\ down'.flags = down.flags \cup {"VALID", "HAS_POUCH"}
        /\ down.key # 0 /\ keys[down.key] = b.key
        /\ down.pouch % NonceMod = b.pouch % NonceMod /\ Aad(down) = b.aad
        /\ seqnum' = SeenSeqnum(down) /\ got' = Append(got, b)
        BY <2>1, <2>2, DecryptFacts
  <2>4. b.key.sid = down.sid
        BY <2>3 DEF KeyMatchesSession, GotInv
  <2>5. b.pouch = down.pouch
    <3>1. b.pouch \in Nat /\ down.pouch \in Nat /\ down.pouch < NonceMod
          BY <1>0, <2>1, SessionFields, BlockFields DEF GotInv
    <3> QED BY <2>1, <2>3, <3>1, Mod
  <2>6. down.block = Len(got) /\ Len(got) \in Nat /\ i \in Nat
        BY <1>0, SaeadAssumption DEF GotInv
  <2>7. b.index = Len(got) /\ (Len(got) # 0 => b.key = got[1].key)
    <3>1. CASE Len(got) = 0
      <4>1. Aad(down) = <<>>
            BY <2>6, <3>1 DEF Aad
      <4> QED BY <2>1, <2>3, <3>1, <4>1
    <3>2. CASE Len(got) # 0
      <4>1. got # <<>> /\ Aad(down) = <<Tag(got[Len(got)])>>
            BY <2>6, <3>2 DEF Aad, GotInv
      <4>2. got[Len(got)] \in SealedBlocks /\ Len(got) \in DOMAIN got
            BY <1>0, <2>6, <3>2
      <4>3. got[Len(got)].index = Len(got) - 1 /\ got[Len(got)].key = got[1].key
            BY <4>2 DEF DecryptedInSequence
      <4>4. Tag(got[Len(got)]).index = Len(got) - 1 /\ Tag(got[Len(got)]).key = got[1].key
            BY <4>2, <4>3, BlockFields
      <4>5. b.aad # <<>> /\ b.aad[1].index = Len(got) - 1 /\ b.aad[1].key = got[1].key
            BY <2>3, <4>1, <4>4
      <4>6. i # 0 /\ i - 1 = Len(got) - 1 /\ b.key = got[1].key
            BY <2>1, <4>5
      <4> QED BY <2>1, <2>6, <4>6
    <3> QED BY <3>1, <3>2
  <2>8. /\ DOMAIN got = 1 .. Len(got) /\ DOMAIN got' = 1 .. Len(got) + 1
        /\ Len(got') = Len(got) + 1 /\ got'[Len(got) + 1] = b
        /\ \A j \in 1 .. Len(got) : got'[j] = got[j]
        BY <1>0, <2>1, <2>3
  <2>9. DecryptedInSequence'
    <3> SUFFICES ASSUME NEW j \in DOMAIN got'
                 PROVE  /\ got'[j].key.sid = down'.sid /\ got'[j].pouch = down'.pouch
                        /\ got'[j].index = j - 1 /\ got'[j].key = got'[1].key
        BY DEF DecryptedInSequence
    <3>1. CASE j = Len(got) + 1
          BY <2>3, <2>4, <2>5, <2>6, <2>7, <2>8, <3>1
    <3>2. CASE j # Len(got) + 1
      <4>1. j \in DOMAIN got /\ got'[j] = got[j] /\ got'[1] = got[1]
            BY <2>6, <2>8, <3>2
      <4> QED BY <2>3, <4>1 DEF DecryptedInSequence
    <3> QED BY <3>1, <3>2
  <2>10. GotInv'
    <3>1. down'.key # 0 => "ACTIVE" \in down'.flags
          BY <2>3 DEF GotInv
    <3>2. down'.block = Len(got') /\ down'.ad = <<Tag(got'[Len(got')])>>
          BY <2>3, <2>6, <2>8
    <3> QED BY <2>3, <3>1, <3>2 DEF GotInv, Tag
  <2>11. SeenInv'
    <3>1. "VALID" \in down'.flags
          BY <2>3
    <3> QED BY <2>3, <3>1 DEF SeenInv, SeenSeqnum
  <2> QED BY <2>9, <2>10, <2>11
<1> QED BY <1>2, <1>3, <1>4, <1>5, <1>6 DEF Next

\* It is in sequence in every state.
LEMMA GotAlways == Spec => [](GotInv /\ SeenInv /\ DecryptedInSequence)
<1>1. Init => GotInv /\ SeenInv /\ DecryptedInSequence
  <2> SUFFICES ASSUME Init
               PROVE  GotInv /\ SeenInv /\ DecryptedInSequence
      OBVIOUS
  <2>1. got = <<>> /\ down.key = 0 /\ down.pouch = 0 /\ down.block = 0
        BY DEF Init, NoSession
  <2>2. DOMAIN got = {} /\ Len(got) = 0
        BY <2>1
  <2> QED BY <2>1, <2>2, SaeadAssumption DEF GotInv, SeenInv, DecryptedInSequence
<1>2. TypeOK /\ KeyMatchesSession /\ (GotInv /\ SeenInv /\ DecryptedInSequence) /\ [Next]_vars
      => (GotInv /\ SeenInv /\ DecryptedInSequence)'
      BY GotStep
<1> QED BY <1>1, <1>2, TypeCorrect, KeysMatch, PTL DEF Spec

\* What saead_downlink_block_decrypt accepts after a header is a prefix of the pouch
\* that the header announced, for every set of headers and number of blocks, also
\* of more blocks than the number in the nonce can count.
THEOREM SequenceSafe == Spec => []DecryptedInSequence
<1> QED BY GotAlways, PTL

\* crypto_downlink_start never accepts the sequential session of the server that it
\* decrypted a block of again, or an older one.
THEOREM ReplaySafe == Spec => NoReplayOfSession
<1> DEFINE A == starts' # starts /\ got # <<>> /\ down.sid.initiator = "server"
                /\ down.sid.type = "sequential" /\ down'.sid.initiator = "server"
                /\ down'.sid.type = "sequential"
                => down'.sid.value > down.sid.value
<1>1. TypeOK /\ SeenInv /\ [Next]_vars => [A]_vars
  <2> SUFFICES ASSUME TypeOK, SeenInv, Next, starts' # starts, got # <<>>,
                      down.sid.initiator = "server", down.sid.type = "sequential",
                      down'.sid.initiator = "server", down'.sid.type = "sequential"
               PROVE  down'.sid.value > down.sid.value
      OBVIOUS
  <2>1. PICK h \in Headers : DownlinkStart(h, NewKey)
        BY DEF Next, CryptoInit, CertServerSet, SessionStartFails, UplinkStart, EncryptBlock,
               SessionEnd, DecryptBlock, downlinkVars
  <2>2. down'.sid = h.sid /\ is_valid_downlink(h.sid, h.alg)
        BY <2>1, DownlinkStartFacts
  <2>3. "VALID" \in down.flags /\ seqnum = down.sid.value
        BY DEF SeenInv
  <2>4. h.sid.value > seqnum
        BY <2>2, <2>3 DEF is_valid_downlink
  <2> QED BY <2>2, <2>3, <2>4
<1> HIDE DEF A
<1>2. Spec => [][A]_vars
      BY <1>1, TypeCorrect, GotAlways, PTL DEF Spec
<1> QED BY <1>2 DEF NoReplayOfSession, A

=============================================================================
