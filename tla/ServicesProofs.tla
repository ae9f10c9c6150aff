--------------------------- MODULE ServicesProofs ---------------------------
(***************************************************************************)
(* Theorems about Services: what reaches the callback of a component, what  *)
(* is in flash when an upgrade is requested, and what manifests and         *)
(* settings, decoded by folds over their pairs, leave behind.              *)
(***************************************************************************)
EXTENDS Services, TLAPS, WellFoundedInduction, SequenceTheorems

-----------------------------------------------------------------------------
(* The inductive invariants *)

\* The documents that the cloud may send now; no version changes under way.
ManifestDocs == GoodManifests \cup BadManifests \cup {CutManifest}
SettingDocs  == IF cloud = 0 THEN {} ELSE SettingsDocs \cup {NilSettings, CutSettings}
Docs == ManifestDocs \cup SettingDocs \cup {CborRest}

\* A path that names Main is one of its images.
GoodPaths == {p \in Paths : /\ p.name = Main => /\ p.dir = "component" /\ p.at
                                                /\ p.ver \in 0 .. MaxVersion
                            /\ p.dir # "component" => p.name = ""}
Pieces == [path : GoodPaths, pos : Nat, doc : Docs]
Starts == [op : {"start"}, id : Ids \cup {0}, path : GoodPaths]
Datas  == [op : {"data"}, id : Ids \cup {0}, data : Pieces, is_last : BOOLEAN]

CallsInv == calls \in Seq(Starts \cup Datas)

\* All blocks of a stream but the first are no documents.
StreamsInv ==
    \A i \in DOMAIN streams :
        LET s == streams[i]
        IN  /\ i \in Ids /\ s.path \in GoodPaths
            /\ s = [path |-> s.path, docs |-> s.docs, sent |-> s.sent]
            /\ Len(s.docs) \in 2 .. ImageLen /\ s.sent \in 1 .. Len(s.docs) - 1
            /\ s.path.name = Main => Len(s.docs) = ImageLen
            /\ \A k \in 2 .. Len(s.docs) : s.docs[k] = CborRest

\* What was written came with paths of the cloud.
FlashInv == \E W : /\ flash \in [error : BOOLEAN, content : Seq(W)]
                   /\ \A w \in W : w.data.path \in GoodPaths

\* The versions; the cloud may want an older one than the one that runs.
VersionInv == /\ want \in 0 .. MaxVersion /\ running \in 0 .. MaxVersion
              /\ registered \in [target : Int, state : {IDLE, DOWNLOADING}]

\* A manifest that is under way was offered, unless it is for the version that runs.
OfferInv ==
    /\ offered \subseteq 0 .. MaxVersion
    /\ \A k \in 1 .. Len(calls) : calls[k].op = "data" /\ calls[k].data.doc \in ManifestDocs =>
          running = want \/ offered # {}

DispatchInv == /\ last_seen \in Range(ServiceOrder) \cup {NULL}
               /\ downlink_id \in [Range(ServiceOrder) -> Ids \cup {0, DOWNLINK_ID_INVALID}]
               /\ component_download \in [id : Ids \cup {0, DOWNLINK_ID_INVALID}, offset : Nat,
                                          name : {"", Main, Aux}]
               /\ upgrade \in BOOLEAN /\ faults \in 0 .. MaxFaults

Given == [type : STRING, val : Nat]
SettingsInv ==
    /\ cloud \in 0 .. Len(CloudSettings) /\ settings_version \in -1 .. cloud
    /\ value \in [DOMAIN SettingType -> {Unset} \cup Given]
    /\ \A n \in DOMAIN SettingType : value[n] = Unset \/ value[n].type = SettingType[n]

\* The stream that the service of components listens to, if any.
Heard == downlink_id["ota_component"]

\* The download dl belongs to stream i, of path p, of which k blocks were given to it.
Follows(dl, i, p, k) ==
    /\ p.dir = "component"
    /\ IF p.at THEN dl.id = i /\ dl.offset = k /\ dl.name = p.name
       ELSE dl.id = DOWNLINK_ID_INVALID

\* The first k blocks of the image with path p are in flash, if Main takes them.
Written(state, fl, p, k) ==
    p.name = Main /\ state = DOWNLOADING /\ k > 0 /\ ~fl.error =>
        /\ Len(fl.content) = k
        /\ \A j \in 1 .. k : fl.content[j].data.path = p /\ fl.content[j].data.pos = j - 1

\* If stream i is heard, it was heard from its first block on, and k blocks of it.
Tracks(heard, dl, state, fl, i, p, k) ==
    heard = i => Follows(dl, i, p, k) /\ (ManifestFirst => Written(state, fl, p, k))

At(i, p, k) == Tracks(Heard, component_download, registered.state, flash, i, p, k)

\* No other service has the stream of the components.
KnownInv == /\ Heard # 0
            /\ \A s \in {"ota_manifest", "settings"} :
                  downlink_id[s] = Heard => Heard = DOWNLINK_ID_INVALID

\* The block at hand counts as sent; all other streams are where the download is.
StreamsHeard == \A i \in DOMAIN streams :
    calls = <<>> \/ calls[1].id # i => At(i, streams[i].path, streams[i].sent)

\* The block at hand is the next one for the download.
CallHeard == calls # <<>> /\ calls[1].op = "data" =>
    At(calls[1].id, calls[1].data.path, calls[1].data.pos)

\* The calls of a block of a stream, and of a block of entries.
StreamStart == /\ Len(calls) = 2 /\ calls[1].id \in DOMAIN streams
               /\ \A s \in Range(ServiceOrder) : downlink_id[s] # calls[1].id
               /\ calls[2].op = "data" /\ calls[2].id = calls[1].id /\ ~calls[2].is_last
               /\ calls[2].data.path = calls[1].path /\ calls[2].data.pos = 0
               /\ streams[calls[1].id].path = calls[1].path /\ streams[calls[1].id].sent = 1

StreamData == LET i == calls[1].id
                  d == calls[1].data
              IN  /\ Len(calls) = 1 /\ d.pos < ImageLen
                  /\ i \in DOMAIN streams => /\ ~calls[1].is_last /\ streams[i].path = d.path
                                             /\ streams[i].sent = d.pos + 1
                  /\ i \notin DOMAIN streams /\ d.path.name = Main => d.pos = ImageLen - 1

EntryCalls == \A k \in 1 .. Len(calls) :
                  /\ calls[k].id = 0
                  /\ calls[k].op = "start" => calls[k].path.dir # "component"

BlockInv == calls # <<>> => IF calls[1].id = 0 THEN EntryCalls
                            ELSE IF calls[1].op = "start" THEN StreamStart ELSE StreamData

\* A manifest that is under way meets no component that is.
QuietInv == ManifestFirst =>
    \A k \in 1 .. Len(calls) : calls[k].op = "data" /\ calls[k].data.doc \in ManifestDocs =>
        \A i \in DOMAIN streams : streams[i].path.dir # "component"

OffsetInv == component_download.offset <= ImageLen

TypeInv == CallsInv /\ StreamsInv /\ FlashInv /\ VersionInv /\ DispatchInv /\ SettingsInv
TrackInv == /\ KnownInv /\ StreamsHeard /\ CallHeard /\ BlockInv /\ QuietInv
            /\ OffsetInv /\ BlocksOfComponent

-----------------------------------------------------------------------------
(* Induction: the least number of a set, and the folds that decode documents *)

\* A set of natural numbers that is not empty has a least member.
LEMMA LeastNumber ==
    ASSUME NEW S \in SUBSET Nat, S # {}
    PROVE  \E m \in S : \A n \in S : m <= n
<1>1. IsWellFoundedOn(OpToRel(<, Nat), Nat)
      BY NatLessThanWellFounded, Zenon
<1>2. PICK m \in S : \A n \in S : <<n, m>> \notin OpToRel(<, Nat)
      BY <1>1, WFMin
<1>3. \A n \in S : ~ (n < m)
      BY <1>2 DEF OpToRel
<1> QED BY <1>3

\* Min finds it.
LEMMA MinIn ==
    ASSUME NEW S \in SUBSET Nat, S # {}
    PROVE  Min(S) \in S /\ \A n \in S : Min(S) <= n
BY LeastNumber DEF Min

\* A set with 0 that goes on from every number has all of them.
LEMMA Induction ==
    ASSUME NEW P, 0 \in P, \A k \in Nat : k \in P => k + 1 \in P
    PROVE  \A k \in Nat : k \in P
<1> SUFFICES ASSUME NEW k \in Nat, k \notin P
             PROVE  FALSE
    OBVIOUS
<1> DEFINE S == {n \in Nat : n \notin P}
<1>1. PICK m \in S : \A n \in S : m <= n
  <2>1. S \in SUBSET Nat /\ S # {}
        OBVIOUS
  <2> QED BY <2>1, LeastNumber
<1>2. m # 0 /\ m - 1 \in Nat /\ m - 1 \notin S
      BY <1>1
<1>3. m - 1 \in P
      BY <1>2
<1>4. (m - 1) + 1 \in P
      BY <1>2, <1>3
<1> QED BY <1>1, <1>4

\* The greatest of some of the numbers up to m; without it they are below m.
LEMMA MaxFacts ==
    ASSUME NEW m \in Nat, NEW s \in SUBSET (1 .. m), s # {}
    PROVE  /\ Max(s) \in s /\ Max(s) \in 1 .. m
           /\ \A n \in s : Max(s) >= n
           /\ s \ {Max(s)} \in SUBSET (1 .. m - 1)
<1> DEFINE T == {n \in Nat : m - n \in s}
<1>1. T \in SUBSET Nat /\ T # {}
  <2>1. PICK n \in s : n \in 1 .. m
        OBVIOUS
  <2>2. m - n \in Nat /\ m - (m - n) \in s
        BY <2>1
  <2> QED BY <2>2
<1>2. PICK t \in T : \A u \in T : t <= u
      BY <1>1, LeastNumber
<1>3. m - t \in s /\ \A n \in s : m - t >= n
  <2>1. m - t \in s /\ t \in Nat
        OBVIOUS
  <2>2. ASSUME NEW n \in s
        PROVE  m - t >= n
    <3>1. m - n \in T
      <4>1. m - n \in Nat /\ m - (m - n) = n
            OBVIOUS
      <4> QED BY <4>1
    <3> QED BY <1>2, <3>1
  <2> QED BY <2>1, <2>2
<1>4. Max(s) \in s /\ \A n \in s : Max(s) >= n
      BY <1>3 DEF Max
<1>5. ASSUME NEW n \in s, n # Max(s)
      PROVE  n \in 1 .. m - 1
  <2> DEFINE x == Max(s)
  <2>1. n \in 1 .. m /\ x \in 1 .. m /\ n <= x /\ n # x
        BY <1>4, <1>5
  <2> HIDE DEF x
  <2> QED BY <2>1
<1> QED BY <1>4, <1>5

\* The greatest of the numbers up to k.
LEMMA MaxUpTo ==
    ASSUME NEW k \in Nat, k > 0
    PROVE  Max(1 .. k) = k /\ (1 .. k) \ {Max(1 .. k)} = 1 .. k - 1 /\ 1 .. k # {}
<1>1. 1 .. k # {} /\ 1 .. k \in SUBSET (1 .. k) /\ k \in 1 .. k
      OBVIOUS
<1>2. Max(1 .. k) = k
  <2>1. Max(1 .. k) \in 1 .. k /\ Max(1 .. k) >= k
        BY <1>1, MaxFacts
  <2> QED BY <2>1
<1>3. (1 .. k) \ {k} = 1 .. k - 1
      OBVIOUS
<1> QED BY <1>1, <1>2, <1>3

\* The walk over the components of a manifest.
ManifestLoop(base, seq) == FoldLeft(ReceiveComponent, base, seq)

\* Its states after 0 .. n turns, the last of which is its result.
ManifestSteps(v, base, seq, n) == /\ v[0] = base
                                  /\ \A k \in 1 .. n : v[k] = ReceiveComponent(v[k - 1], seq[k])
                                  /\ ManifestLoop(base, seq) = v[n]

\* There are such states.
LEMMA ReceiveComponentFold ==
    ASSUME NEW base, NEW seq, NEW n \in Nat, DOMAIN seq = 1 .. n
    PROVE  \E v : ManifestSteps(v, base, seq, n)
<1> DEFINE Eq(g, m) == g = [s \in SUBSET (1 .. m) |->
                               IF s = {} THEN base
                               ELSE ReceiveComponent(g[s \ {Max(s)}], seq[Max(s)])]
           P == {m \in Nat : \E g : Eq(g, m)}
<1>1. 0 \in P
  <2> DEFINE g == [s \in SUBSET (1 .. 0) |-> base]
  <2>1. \A s \in SUBSET (1 .. 0) : s = {}
        OBVIOUS
  <2>2. Eq(g, 0)
        BY <2>1
  <2> QED BY <2>2
<1>2. ASSUME NEW m \in Nat, m \in P
      PROVE  m + 1 \in P
  <2>1. PICK g : Eq(g, m)
        BY <1>2
  <2> DEFINE h == [s \in SUBSET (1 .. m + 1) |->
                      IF s = {} THEN base ELSE ReceiveComponent(g[s \ {Max(s)}], seq[Max(s)])]
  <2>2. \A t \in SUBSET (1 .. m) : t \in SUBSET (1 .. m + 1)
        OBVIOUS
  <2>3. \A t \in SUBSET (1 .. m) : h[t] = g[t]
        BY <2>1, <2>2
  <2>4. \A s \in SUBSET (1 .. m + 1) : s # {} => s \ {Max(s)} \in SUBSET (1 .. m)
        BY MaxFacts
  <2>5. Eq(h, m + 1)
        BY <2>3, <2>4
  <2> HIDE DEF h
  <2>6. m + 1 \in Nat
        OBVIOUS
  <2> QED BY <2>5, <2>6, Zenon
<1>3. n \in P
      BY <1>1, <1>2, Induction
<1> DEFINE g == CHOOSE f : Eq(f, n)
<1>4. Eq(g, n)
      BY <1>3
<1>5. ManifestLoop(base, seq) = g[1 .. n]
      BY DEF ManifestLoop, FoldLeft, MapThenFoldSet
<1> HIDE DEF g
<1> DEFINE v == [k \in 0 .. n |-> g[1 .. k]]
<1>6. v[0] = base
  <2>1. 1 .. 0 = {} /\ 1 .. 0 \in SUBSET (1 .. n)
        OBVIOUS
  <2>2. g[1 .. 0] = base
        BY <1>4, <2>1
  <2> QED BY <2>2
<1>7. ASSUME NEW k \in 1 .. n
      PROVE  v[k] = ReceiveComponent(v[k - 1], seq[k])
  <2>0. k \in Nat /\ k > 0 /\ 1 .. k \in SUBSET (1 .. n) /\ k \in 0 .. n /\ k - 1 \in 0 .. n
        OBVIOUS
  <2>1. Max(1 .. k) = k /\ (1 .. k) \ {Max(1 .. k)} = 1 .. k - 1 /\ 1 .. k # {}
        BY <2>0, MaxUpTo
  <2>2. g[1 .. k] = ReceiveComponent(g[1 .. k - 1], seq[k])
        BY <1>4, <2>0, <2>1
  <2>3. v[k] = g[1 .. k] /\ v[k - 1] = g[1 .. k - 1]
        BY <2>0
  <2> HIDE DEF v
  <2> QED BY <2>2, <2>3
<1>8. ManifestLoop(base, seq) = v[n]
      BY <1>5
<1> HIDE DEF v
<1>9. ManifestSteps(v, base, seq, n)
      BY <1>6, <1>7, <1>8 DEF ManifestSteps
<1> QED BY <1>9

\* The loop of zcbor_map_decode over the pairs of a component.
ComponentLoop(base, seq) == ComponentMap!FoldLeft(ComponentMap!MapStep, base, seq)

\* Its states after 0 .. n turns, the last of which is its result.
ComponentSteps(v, base, seq, n) == /\ v[0] = base
                                   /\ \A k \in 1 .. n : v[k] = ComponentMap!MapStep(v[k - 1], seq[k])
                                   /\ ComponentLoop(base, seq) = v[n]

\* There are such states.
LEMMA ComponentMapFold ==
    ASSUME NEW base, NEW seq, NEW n \in Nat, DOMAIN seq = 1 .. n
    PROVE  \E v : ComponentSteps(v, base, seq, n)
<1> DEFINE Eq(g, m) == g = [s \in SUBSET (1 .. m) |->
                               IF s = {} THEN base
                               ELSE ComponentMap!MapStep(g[s \ {Max(s)}], seq[Max(s)])]
           P == {m \in Nat : \E g : Eq(g, m)}
<1>1. 0 \in P
  <2> DEFINE g == [s \in SUBSET (1 .. 0) |-> base]
  <2>1. \A s \in SUBSET (1 .. 0) : s = {}
        OBVIOUS
  <2>2. Eq(g, 0)
        BY <2>1
  <2> QED BY <2>2
<1>2. ASSUME NEW m \in Nat, m \in P
      PROVE  m + 1 \in P
  <2>1. PICK g : Eq(g, m)
        BY <1>2
  <2> DEFINE h == [s \in SUBSET (1 .. m + 1) |->
                      IF s = {} THEN base ELSE ComponentMap!MapStep(g[s \ {Max(s)}], seq[Max(s)])]
  <2>2. \A t \in SUBSET (1 .. m) : t \in SUBSET (1 .. m + 1)
        OBVIOUS
  <2>3. \A t \in SUBSET (1 .. m) : h[t] = g[t]
        BY <2>1, <2>2
  <2>4. \A s \in SUBSET (1 .. m + 1) : s # {} => s \ {Max(s)} \in SUBSET (1 .. m)
        BY MaxFacts
  <2>5. Eq(h, m + 1)
        BY <2>3, <2>4
  <2> HIDE DEF h
  <2>6. m + 1 \in Nat
        OBVIOUS
  <2> QED BY <2>5, <2>6, Zenon
<1>3. n \in P
      BY <1>1, <1>2, Induction
<1> DEFINE g == CHOOSE f : Eq(f, n)
<1>4. Eq(g, n)
      BY <1>3
<1>5. ComponentLoop(base, seq) = g[1 .. n]
      BY DEF ComponentLoop, ComponentMap!FoldLeft, ComponentMap!MapThenFoldSet, ComponentMap!Max, Max
<1> HIDE DEF g
<1> DEFINE v == [k \in 0 .. n |-> g[1 .. k]]
<1>6. v[0] = base
  <2>1. 1 .. 0 = {} /\ 1 .. 0 \in SUBSET (1 .. n)
        OBVIOUS
  <2>2. g[1 .. 0] = base
        BY <1>4, <2>1
  <2> QED BY <2>2
<1>7. ASSUME NEW k \in 1 .. n
      PROVE  v[k] = ComponentMap!MapStep(v[k - 1], seq[k])
  <2>0. k \in Nat /\ k > 0 /\ 1 .. k \in SUBSET (1 .. n) /\ k \in 0 .. n /\ k - 1 \in 0 .. n
        OBVIOUS
  <2>1. Max(1 .. k) = k /\ (1 .. k) \ {Max(1 .. k)} = 1 .. k - 1 /\ 1 .. k # {}
        BY <2>0, MaxUpTo
  <2>2. g[1 .. k] = ComponentMap!MapStep(g[1 .. k - 1], seq[k])
        BY <1>4, <2>0, <2>1
  <2>3. v[k] = g[1 .. k] /\ v[k - 1] = g[1 .. k - 1]
        BY <2>0
  <2> HIDE DEF v
  <2> QED BY <2>2, <2>3
<1>8. ComponentLoop(base, seq) = v[n]
      BY <1>5
<1> HIDE DEF v
<1>9. ComponentSteps(v, base, seq, n)
      BY <1>6, <1>7, <1>8 DEF ComponentSteps
<1> QED BY <1>9

\* The loop of zcbor_map_decode over the pairs of a settings document.
SettingsLoop(base, seq) == SettingsMap!FoldLeft(SettingsMap!MapStep, base, seq)

\* Its states after 0 .. n turns, the last of which is its result.
SettingsSteps(v, base, seq, n) == /\ v[0] = base
                                  /\ \A k \in 1 .. n : v[k] = SettingsMap!MapStep(v[k - 1], seq[k])
                                  /\ SettingsLoop(base, seq) = v[n]

\* There are such states.
LEMMA SettingsMapFold ==
    ASSUME NEW base, NEW seq, NEW n \in Nat, DOMAIN seq = 1 .. n
    PROVE  \E v : SettingsSteps(v, base, seq, n)
<1> DEFINE Eq(g, m) == g = [s \in SUBSET (1 .. m) |->
                               IF s = {} THEN base
                               ELSE SettingsMap!MapStep(g[s \ {Max(s)}], seq[Max(s)])]
           P == {m \in Nat : \E g : Eq(g, m)}
<1>1. 0 \in P
  <2> DEFINE g == [s \in SUBSET (1 .. 0) |-> base]
  <2>1. \A s \in SUBSET (1 .. 0) : s = {}
        OBVIOUS
  <2>2. Eq(g, 0)
        BY <2>1
  <2> QED BY <2>2
<1>2. ASSUME NEW m \in Nat, m \in P
      PROVE  m + 1 \in P
  <2>1. PICK g : Eq(g, m)
        BY <1>2
  <2> DEFINE h == [s \in SUBSET (1 .. m + 1) |->
                      IF s = {} THEN base ELSE SettingsMap!MapStep(g[s \ {Max(s)}], seq[Max(s)])]
  <2>2. \A t \in SUBSET (1 .. m) : t \in SUBSET (1 .. m + 1)
        OBVIOUS
  <2>3. \A t \in SUBSET (1 .. m) : h[t] = g[t]
        BY <2>1, <2>2
  <2>4. \A s \in SUBSET (1 .. m + 1) : s # {} => s \ {Max(s)} \in SUBSET (1 .. m)
        BY MaxFacts
  <2>5. Eq(h, m + 1)
        BY <2>3, <2>4
  <2> HIDE DEF h
  <2>6. m + 1 \in Nat
        OBVIOUS
  <2> QED BY <2>5, <2>6, Zenon
<1>3. n \in P
      BY <1>1, <1>2, Induction
<1> DEFINE g == CHOOSE f : Eq(f, n)
<1>4. Eq(g, n)
      BY <1>3
<1>5. SettingsLoop(base, seq) = g[1 .. n]
      BY DEF SettingsLoop, SettingsMap!FoldLeft, SettingsMap!MapThenFoldSet, SettingsMap!Max, Max
<1> HIDE DEF g
<1> DEFINE v == [k \in 0 .. n |-> g[1 .. k]]
<1>6. v[0] = base
  <2>1. 1 .. 0 = {} /\ 1 .. 0 \in SUBSET (1 .. n)
        OBVIOUS
  <2>2. g[1 .. 0] = base
        BY <1>4, <2>1
  <2> QED BY <2>2
<1>7. ASSUME NEW k \in 1 .. n
      PROVE  v[k] = SettingsMap!MapStep(v[k - 1], seq[k])
  <2>0. k \in Nat /\ k > 0 /\ 1 .. k \in SUBSET (1 .. n) /\ k \in 0 .. n /\ k - 1 \in 0 .. n
        OBVIOUS
  <2>1. Max(1 .. k) = k /\ (1 .. k) \ {Max(1 .. k)} = 1 .. k - 1 /\ 1 .. k # {}
        BY <2>0, MaxUpTo
  <2>2. g[1 .. k] = SettingsMap!MapStep(g[1 .. k - 1], seq[k])
        BY <1>4, <2>0, <2>1
  <2>3. v[k] = g[1 .. k] /\ v[k - 1] = g[1 .. k - 1]
        BY <2>0
  <2> HIDE DEF v
  <2> QED BY <2>2, <2>3
<1>8. SettingsLoop(base, seq) = v[n]
      BY <1>5
<1> HIDE DEF v
<1>9. SettingsSteps(v, base, seq, n)
      BY <1>6, <1>7, <1>8 DEF SettingsSteps
<1> QED BY <1>9

\* The loop of settings_decode over the settings.
ValueLoop(base, seq) == FoldLeft(ReceiveSetting, base, seq)

\* Its states after 0 .. n turns, the last of which is its result.
ValueSteps(v, base, seq, n) == /\ v[0] = base
                               /\ \A k \in 1 .. n : v[k] = ReceiveSetting(v[k - 1], seq[k])
                               /\ ValueLoop(base, seq) = v[n]

\* There are such states.
LEMMA ReceiveSettingFold ==
    ASSUME NEW base, NEW seq, NEW n \in Nat, DOMAIN seq = 1 .. n
    PROVE  \E v : ValueSteps(v, base, seq, n)
<1> DEFINE Eq(g, m) == g = [s \in SUBSET (1 .. m) |->
                               IF s = {} THEN base
                               ELSE ReceiveSetting(g[s \ {Max(s)}], seq[Max(s)])]
           P == {m \in Nat : \E g : Eq(g, m)}
<1>1. 0 \in P
  <2> DEFINE g == [s \in SUBSET (1 .. 0) |-> base]
  <2>1. \A s \in SUBSET (1 .. 0) : s = {}
        OBVIOUS
  <2>2. Eq(g, 0)
        BY <2>1
  <2> QED BY <2>2
<1>2. ASSUME NEW m \in Nat, m \in P
      PROVE  m + 1 \in P
  <2>1. PICK g : Eq(g, m)
        BY <1>2
  <2> DEFINE h == [s \in SUBSET (1 .. m + 1) |->
                      IF s = {} THEN base ELSE ReceiveSetting(g[s \ {Max(s)}], seq[Max(s)])]
  <2>2. \A t \in SUBSET (1 .. m) : t \in SUBSET (1 .. m + 1)
        OBVIOUS
  <2>3. \A t \in SUBSET (1 .. m) : h[t] = g[t]
        BY <2>1, <2>2
  <2>4. \A s \in SUBSET (1 .. m + 1) : s # {} => s \ {Max(s)} \in SUBSET (1 .. m)
        BY MaxFacts
  <2>5. Eq(h, m + 1)
        BY <2>3, <2>4
  <2> HIDE DEF h
  <2>6. m + 1 \in Nat
        OBVIOUS
  <2> QED BY <2>5, <2>6, Zenon
<1>3. n \in P
      BY <1>1, <1>2, Induction
<1> DEFINE g == CHOOSE f : Eq(f, n)
<1>4. Eq(g, n)
      BY <1>3
<1>5. ValueLoop(base, seq) = g[1 .. n]
      BY DEF ValueLoop, FoldLeft, MapThenFoldSet
<1> HIDE DEF g
<1> DEFINE v == [k \in 0 .. n |-> g[1 .. k]]
<1>6. v[0] = base
  <2>1. 1 .. 0 = {} /\ 1 .. 0 \in SUBSET (1 .. n)
        OBVIOUS
  <2>2. g[1 .. 0] = base
        BY <1>4, <2>1
  <2> QED BY <2>2
<1>7. ASSUME NEW k \in 1 .. n
      PROVE  v[k] = ReceiveSetting(v[k - 1], seq[k])
  <2>0. k \in Nat /\ k > 0 /\ 1 .. k \in SUBSET (1 .. n) /\ k \in 0 .. n /\ k - 1 \in 0 .. n
        OBVIOUS
  <2>1. Max(1 .. k) = k /\ (1 .. k) \ {Max(1 .. k)} = 1 .. k - 1 /\ 1 .. k # {}
        BY <2>0, MaxUpTo
  <2>2. g[1 .. k] = ReceiveSetting(g[1 .. k - 1], seq[k])
        BY <1>4, <2>0, <2>1
  <2>3. v[k] = g[1 .. k] /\ v[k - 1] = g[1 .. k - 1]
        BY <2>0
  <2> HIDE DEF v
  <2> QED BY <2>2, <2>3
<1>8. ValueLoop(base, seq) = v[n]
      BY <1>5
<1> HIDE DEF v
<1>9. ValueSteps(v, base, seq, n)
      BY <1>6, <1>7, <1>8 DEF ValueSteps
<1> QED BY <1>9

-----------------------------------------------------------------------------
(* What the decoders make of the documents of the cloud *)

\* The keys of a component.
LEMMA ComponentKeyFacts ==
    /\ Len(ComponentKeys) = 4
    /\ \A key \in {"package", "version", "hash", "size"} : ComponentMap!map_entry_get(key)
<1>1. /\ Len(ComponentKeys) = 4 /\ DOMAIN ComponentKeys = 1 .. 4
      /\ ComponentKeys[1] = "package" /\ ComponentKeys[2] = "version"
      /\ ComponentKeys[3] = "size" /\ ComponentKeys[4] = "hash"
      BY DEF ComponentKeys
<1> QED BY <1>1 DEF ComponentMap!map_entry_get

\* A pair of a component that is decoded without an error.
LEMMA ComponentStep ==
    ASSUME NEW st, NEW st2, NEW n \in Nat, n < 4, NEW item,
           NEW key \in {"package", "version", "hash", "size"},
           DecodeComponentKey(key, item, st) = Result(OK, st2)
    PROVE  ComponentMap!MapStep([err |-> OK, st |-> st, n |-> n], Pair(key, item)) =
               [err |-> OK, st |-> st2, n |-> n + 1]
BY ComponentKeyFacts DEF ComponentMap!MapStep, ComponentMap!OK, Pair, Result, OK

\* After an error nothing more is decoded.
LEMMA ComponentStop ==
    ASSUME NEW acc, acc.err # OK, NEW pair
    PROVE  ComponentMap!MapStep(acc, pair) = acc
BY DEF ComponentMap!MapStep, ComponentMap!OK, OK

\* A text that fits is taken into its place.
LEMMA TextTaken ==
    ASSUME NEW item, item.type = "tstr", item.fits, NEW c
    PROVE  /\ DecodeComponentKey("package", item, c) = Result(OK, [c EXCEPT !.package = item.val])
           /\ DecodeComponentKey("version", item, c) = Result(OK, [c EXCEPT !.version = item.val])
           /\ DecodeComponentKey("hash", item, c) = Result(OK, [c EXCEPT !.hash = item.val])
<1>1. \A filled : component_entry_decode_value(item, c, filled) = Result(OK, filled)
      BY DEF component_entry_decode_value
<1> QED BY <1>1 DEF DecodeComponentKey

\* One that does not is refused.
LEMMA TextRefused ==
    ASSUME NEW item, item.type = "tstr", ~ item.fits, NEW c
    PROVE  DecodeComponentKey("package", item, c) = Result(ENOMEM, c)
<1>1. \A filled : component_entry_decode_value(item, c, filled) = Result(ENOMEM, c)
      BY DEF component_entry_decode_value
<1> QED BY <1>1 DEF DecodeComponentKey

\* The loop over four pairs.
LEMMA FourPairs ==
    ASSUME NEW base, NEW pairs
    PROVE  DOMAIN pairs = 1 .. 4 =>
               \E a, b, c : /\ a = ComponentMap!MapStep(base, pairs[1])
                            /\ b = ComponentMap!MapStep(a, pairs[2])
                            /\ c = ComponentMap!MapStep(b, pairs[3])
                            /\ ComponentLoop(base, pairs) = ComponentMap!MapStep(c, pairs[4])
<1>0. HAVE DOMAIN pairs = 1 .. 4
<1>1. PICK n \in Nat : n = 4
      OBVIOUS
<1>2. PICK v : ComponentSteps(v, base, pairs, n)
  <2>1. DOMAIN pairs = 1 .. n
        BY <1>0, <1>1
  <2> QED BY <2>1, ComponentMapFold
<1>3. /\ v[1] = ComponentMap!MapStep(v[1 - 1], pairs[1])
      /\ v[2] = ComponentMap!MapStep(v[2 - 1], pairs[2])
      /\ v[3] = ComponentMap!MapStep(v[3 - 1], pairs[3])
      /\ v[4] = ComponentMap!MapStep(v[4 - 1], pairs[4])
      BY <1>1, <1>2 DEF ComponentSteps
<1>4. 1 - 1 = 0 /\ 2 - 1 = 1 /\ 3 - 1 = 2 /\ 4 - 1 = 3
      OBVIOUS
<1>5. /\ v[1] = ComponentMap!MapStep(base, pairs[1])
      /\ v[2] = ComponentMap!MapStep(v[1], pairs[2])
      /\ v[3] = ComponentMap!MapStep(v[2], pairs[3])
      /\ ComponentLoop(base, pairs) = ComponentMap!MapStep(v[3], pairs[4])
      BY <1>1, <1>2, <1>3, <1>4 DEF ComponentSteps
<1> QED BY <1>5

\* What the loop makes of a component that is a whole map.
LEMMA ComponentEnd ==
    ASSUME NEW item, item.type = "map", item.whole, NEW end,
           end = ComponentLoop([err |-> OK, st |-> NoComponent, n |-> 0], item.pairs)
    PROVE  ComponentMap!zcbor_map_decode(item, NoComponent) =
               Result(IF end.err = OK /\ end.n < 4
                      THEN IF end.n = 0 THEN ENOENT ELSE EBADMSG ELSE end.err, end.st)
BY ComponentKeyFacts
DEF ComponentMap!zcbor_map_decode, ComponentLoop, ComponentMap!Result, Result,
    ComponentMap!OK, OK, ComponentMap!ENOENT, ENOENT, ComponentMap!EBADMSG, EBADMSG

\* A component whose texts fit is decoded to what it says.
LEMMA ComponentDecoded ==
    ASSUME NEW item, item.type = "map", item.whole, NEW i1, NEW i2, NEW i3, NEW i4,
           item.pairs = <<Pair("package", i1), Pair("version", i2), Pair("hash", i3),
                          Pair("size", i4)>>,
           i1.type = "tstr", i2.type = "tstr", i3.type = "tstr", i4.type = "int",
           i1.fits, i2.fits, i3.fits
    PROVE  \E c : /\ ComponentMap!zcbor_map_decode(item, NoComponent) = Result(OK, c)
                  /\ c.package = i1.val /\ c.version = i2.val /\ c.hash = i3.val
<1> DEFINE s1 == [NoComponent EXCEPT !.package = i1.val]
           s2 == [s1 EXCEPT !.version = i2.val]
           s3 == [s2 EXCEPT !.hash = i3.val]
           end == ComponentLoop([err |-> OK, st |-> NoComponent, n |-> 0], item.pairs)
<1>0. s3.package = i1.val /\ s3.version = i2.val /\ s3.hash = i3.val
  <2>1. s1.package = i1.val /\ DOMAIN s1 = {"package", "version", "hash"}
        BY DEF NoComponent
  <2> HIDE DEF s1
  <2>2. s2.package = i1.val /\ s2.version = i2.val /\ DOMAIN s2 = {"package", "version", "hash"}
        BY <2>1
  <2> HIDE DEF s2
  <2> QED BY <2>2
<1>1. DecodeComponentKey("package", i1, NoComponent) = Result(OK, s1)
      BY TextTaken, Zenon
<1>2. DecodeComponentKey("version", i2, s1) = Result(OK, s2)
      BY TextTaken, Zenon
<1>3. DecodeComponentKey("hash", i3, s2) = Result(OK, s3)
      BY TextTaken, Zenon
<1> HIDE DEF s1, s2, s3
<1>4. DecodeComponentKey("size", i4, s3) = Result(OK, s3)
      BY DEF DecodeComponentKey
<1>5. /\ DOMAIN item.pairs = 1 .. 4
      /\ item.pairs[1] = Pair("package", i1) /\ item.pairs[2] = Pair("version", i2)
      /\ item.pairs[3] = Pair("hash", i3) /\ item.pairs[4] = Pair("size", i4)
      OBVIOUS
<1>6. PICK a, b, c :
           /\ a = ComponentMap!MapStep([err |-> OK, st |-> NoComponent, n |-> 0], item.pairs[1])
           /\ b = ComponentMap!MapStep(a, item.pairs[2])
           /\ c = ComponentMap!MapStep(b, item.pairs[3])
           /\ end = ComponentMap!MapStep(c, item.pairs[4])
      BY <1>5, FourPairs
<1>7. /\ 0 \in Nat /\ 1 \in Nat /\ 2 \in Nat /\ 3 \in Nat /\ 0 < 4 /\ 1 < 4 /\ 2 < 4 /\ 3 < 4
      /\ 0 + 1 = 1 /\ 1 + 1 = 2 /\ 2 + 1 = 3 /\ 3 + 1 = 4
      OBVIOUS
<1>8. a = [err |-> OK, st |-> s1, n |-> 1]
      BY <1>1, <1>5, <1>6, <1>7, ComponentStep
<1>9. b = [err |-> OK, st |-> s2, n |-> 2]
      BY <1>2, <1>5, <1>6, <1>7, <1>8, ComponentStep
<1>10. c = [err |-> OK, st |-> s3, n |-> 3]
      BY <1>3, <1>5, <1>6, <1>7, <1>9, ComponentStep
<1>11. end = [err |-> OK, st |-> s3, n |-> 4]
      BY <1>4, <1>5, <1>6, <1>7, <1>10, ComponentStep
<1>12. ComponentMap!zcbor_map_decode(item, NoComponent) =
          Result(IF end.err = OK /\ end.n < 4
                 THEN IF end.n = 0 THEN ENOENT ELSE EBADMSG ELSE end.err, end.st)
      BY ComponentEnd
<1> HIDE DEF end
<1>13. end.err = OK /\ end.n = 4 /\ end.st = s3 /\ ~ (4 < 4)
      BY <1>11
<1> QED BY <1>0, <1>12, <1>13

\* A component whose name does not fit is an error.
LEMMA ComponentRefused ==
    ASSUME NEW item, item.type = "map", item.whole, DOMAIN item.pairs = 1 .. 4,
           NEW i1, item.pairs[1] = Pair("package", i1), i1.type = "tstr", ~ i1.fits
    PROVE  ComponentMap!zcbor_map_decode(item, NoComponent).err # OK
<1> DEFINE base == [err |-> OK, st |-> NoComponent, n |-> 0]
           end == ComponentLoop(base, item.pairs)
<1>1. DecodeComponentKey("package", i1, NoComponent) = Result(ENOMEM, NoComponent)
      BY TextRefused
<1>2. PICK a, b, c :
           /\ a = ComponentMap!MapStep(base, item.pairs[1])
           /\ b = ComponentMap!MapStep(a, item.pairs[2])
           /\ c = ComponentMap!MapStep(b, item.pairs[3])
           /\ end = ComponentMap!MapStep(c, item.pairs[4])
      BY FourPairs
<1>3. a.err # OK
  <2>1. base.err = OK /\ base.n = 0 /\ base.st = NoComponent
        OBVIOUS
  <2> HIDE DEF base
  <2>2. a.err = ENOMEM
    <3> DEFINE p == item.pairs[1]
    <3>1. p.key = "package" /\ p.value = i1
          BY DEF Pair
    <3> HIDE DEF p
    <3>2. ComponentMap!map_entry_get(p.key) /\ Len(ComponentKeys) = 4
          BY <3>1, ComponentKeyFacts
    <3>3. DecodeComponentKey(p.key, p.value, base.st).err = ENOMEM
          BY <1>1, <2>1, <3>1 DEF Result
    <3>4. a = ComponentMap!MapStep(base, p)
          BY <1>2 DEF p
    <3> QED BY <2>1, <3>2, <3>3, <3>4 DEF ComponentMap!MapStep, ComponentMap!OK, OK
  <2> QED BY <2>2 DEF ENOMEM, OK
<1>4. end = a
      BY <1>2, <1>3, ComponentStop
<1>5. ComponentMap!zcbor_map_decode(item, NoComponent) =
          Result(IF end.err = OK /\ end.n < 4
                 THEN IF end.n = 0 THEN ENOENT ELSE EBADMSG ELSE end.err, end.st)
      BY ComponentEnd
<1> HIDE DEF end
<1> QED BY <1>3, <1>4, <1>5 DEF Result

\* A component whose texts fit.
Fits(item, name, ver, hash) == item = Component(name, TRUE, ver, hash)

\* What a component of a manifest of the cloud is decoded to.
LEMMA GoodComponent ==
    ASSUME NEW name, NEW ver, NEW hash, NEW item, Fits(item, name, ver, hash),
           NEW d, d = ComponentMap!zcbor_map_decode(item, NoComponent)
    PROVE  d.err = OK /\ d.st.package = name /\ d.st.version = ver /\ d.st.hash = hash
<1> DEFINE e == Component(name, TRUE, ver, hash)
           i1 == Tstr(name, TRUE)  i2 == Tstr(ver, TRUE)  i3 == Tstr(hash, TRUE)
           i4 == CborInt(ImageLen)
<1>0. item = e
      BY DEF Fits
<1>1. e.type = "map" /\ e.whole
      BY DEF Component, CborMap
<1>2. e.pairs = <<Pair("package", i1), Pair("version", i2), Pair("hash", i3), Pair("size", i4)>>
      BY DEF Component, CborMap
<1>3. i1.type = "tstr" /\ i2.type = "tstr" /\ i3.type = "tstr" /\ i4.type = "int"
      BY DEF Tstr, CborInt
<1>4. i1.fits /\ i2.fits /\ i3.fits
      BY DEF Tstr
<1>5. i1.val = name /\ i2.val = ver /\ i3.val = hash
      BY DEF Tstr
<1> HIDE DEF e, i1, i2, i3, i4
<1>6. PICK c : /\ ComponentMap!zcbor_map_decode(e, NoComponent) = Result(OK, c)
               /\ c.package = i1.val /\ c.version = i2.val /\ c.hash = i3.val
      BY <1>1, <1>2, <1>3, <1>4, ComponentDecoded
<1> QED BY <1>0, <1>5, <1>6 DEF Result

\* A component with a name that is too long for its buffer.
LEMMA LongComponent ==
    ASSUME NEW name, NEW ver, NEW hash
    PROVE  ComponentMap!zcbor_map_decode(Component(name, FALSE, ver, hash), NoComponent).err # OK
<1> DEFINE item == Component(name, FALSE, ver, hash)
           i1 == Tstr(name, FALSE)
<1>1. item.type = "map" /\ item.whole
      BY DEF Component, CborMap
<1>2. DOMAIN item.pairs = 1 .. 4 /\ item.pairs[1] = Pair("package", i1)
      BY DEF Component, CborMap
<1>3. i1.type = "tstr"
      BY DEF Tstr
<1>4. ~ i1.fits
      BY DEF Tstr
<1> HIDE DEF item, i1
<1>5. ComponentMap!zcbor_map_decode(item, NoComponent).err # OK
      BY <1>1, <1>2, <1>3, <1>4, ComponentRefused
<1> QED BY <1>5 DEF item

\* The states of the walk over the components.
Walks == [err : {OK, EBADMSG}, reg : [target : Int, state : {IDLE, DOWNLOADING}]]

\* The four kinds of components: Main, one that nobody registered, and two that
\* end the walk.
LEMMA ReceiveMain ==
    ASSUME NEW acc \in Walks, acc.err = OK, NEW ver \in Nat, NEW item, Fits(item, Main, ver, "hex")
    PROVE  LET r == ReceiveComponent(acc, item)
           IN  /\ r.err = OK /\ r.reg = [acc.reg EXCEPT !.target = Stored(ver)]
               /\ r \in Walks
<1> DEFINE d == ComponentMap!zcbor_map_decode(item, NoComponent)
<1>1. d.err = OK /\ d.st.package = Main /\ d.st.version = ver /\ d.st.hash = "hex"
      BY GoodComponent
<1> HIDE DEF d
<1>2. Stored(ver) \in Int
      BY DEF Stored
<1>3. ReceiveComponent(acc, item) = [acc EXCEPT !.reg = [acc.reg EXCEPT !.target = Stored(ver)]]
      BY <1>1 DEF ReceiveComponent, golioth_ota_manifest_receive_one, d
<1> DEFINE s == Stored(ver)
<1> HIDE DEF s
<1>4. LET r == [acc EXCEPT !.reg = [acc.reg EXCEPT !.target = s]]
      IN  /\ r.err = OK /\ r.reg = [acc.reg EXCEPT !.target = s]
          /\ r \in Walks
      BY <1>2 DEF s, Walks
<1> QED BY <1>3, <1>4 DEF s

\* A component that is not registered changes nothing.
LEMMA ReceiveAux ==
    ASSUME NEW acc \in Walks, NEW ver, NEW item, Fits(item, Aux, ver, "hex")
    PROVE  ReceiveComponent(acc, item) = acc
<1> DEFINE d == ComponentMap!zcbor_map_decode(item, NoComponent)
<1>1. d.err = OK /\ d.st.package = Aux /\ d.st.version = ver /\ d.st.hash = "hex"
      BY GoodComponent
<1> HIDE DEF d
<1>2. Main # Aux
      BY ServicesAssumption
<1>3. [acc EXCEPT !.reg = acc.reg] = acc
      BY DEF Walks
<1> QED BY <1>1, <1>2, <1>3 DEF ReceiveComponent, golioth_ota_manifest_receive_one, d

\* A component that is not well-formed ends the walk with an error.
LEMMA ReceiveBroken ==
    ASSUME NEW acc \in Walks, NEW item,
           LET d == ComponentMap!zcbor_map_decode(item, NoComponent)
           IN  d.err # OK \/ d.st.hash # "hex"
    PROVE  LET r == ReceiveComponent(acc, item)
           IN  r.err # OK /\ r.reg = acc.reg /\ r \in Walks
<1> DEFINE d == ComponentMap!zcbor_map_decode(item, NoComponent)
<1> HIDE DEF d
<1>1. ReceiveComponent(acc, item) = IF acc.err # OK THEN acc ELSE [acc EXCEPT !.err = EBADMSG]
      BY DEF ReceiveComponent, d
<1>2. EBADMSG # OK
      BY DEF EBADMSG, OK
<1> DEFINE r == ReceiveComponent(acc, item)
<1> HIDE DEF r
<1>3. r.err # OK /\ r.reg = acc.reg /\ r \in Walks
      BY <1>1, <1>2 DEF r, Walks
<1> QED BY <1>3 DEF r

\* Behind it nothing is read.
LEMMA ReceiveAfterError ==
    ASSUME NEW acc, acc.err # OK, NEW item
    PROVE  ReceiveComponent(acc, item) = acc
BY DEF ReceiveComponent

\* Walks over one and over two components.
LEMMA OneComponent ==
    ASSUME NEW base, NEW x
    PROVE  ManifestLoop(base, <<x>>) = ReceiveComponent(base, x)
<1> DEFINE seq == <<x>>
<1>1. DOMAIN seq = 1 .. 1 /\ seq[1] = x
      OBVIOUS
<1>2. PICK n \in Nat : n = 1
      OBVIOUS
<1> HIDE DEF seq
<1>3. PICK v : ManifestSteps(v, base, seq, n)
  <2>1. DOMAIN seq = 1 .. n
        BY <1>1, <1>2
  <2> QED BY <2>1, ReceiveComponentFold
<1>4. v[1] = ReceiveComponent(v[1 - 1], seq[1]) /\ 1 - 1 = 0
      BY <1>2, <1>3 DEF ManifestSteps
<1> QED BY <1>1, <1>2, <1>3, <1>4 DEF seq, ManifestSteps

\* Two components, one after the other.
LEMMA TwoComponents ==
    ASSUME NEW base, NEW x, NEW y
    PROVE  ManifestLoop(base, <<x, y>>) = ReceiveComponent(ReceiveComponent(base, x), y)
<1> DEFINE seq == <<x, y>>
<1>1. DOMAIN seq = 1 .. 2 /\ seq[1] = x /\ seq[2] = y
      OBVIOUS
<1>2. PICK n \in Nat : n = 2
      OBVIOUS
<1> HIDE DEF seq
<1>3. PICK v : ManifestSteps(v, base, seq, n)
  <2>1. DOMAIN seq = 1 .. n
        BY <1>1, <1>2
  <2> QED BY <2>1, ReceiveComponentFold
<1>4. /\ v[1] = ReceiveComponent(v[1 - 1], seq[1]) /\ 1 - 1 = 0
      /\ v[2] = ReceiveComponent(v[2 - 1], seq[2]) /\ 2 - 1 = 1
      BY <1>2, <1>3 DEF ManifestSteps
<1> QED BY <1>1, <1>2, <1>3, <1>4 DEF seq, ManifestSteps

Registrations == [target : Int, state : {IDLE, DOWNLOADING}]

\* The lists of components that the cloud sends.
Lists == {<<MainComponent>>, <<Component(Aux, TRUE, 1, "hex"), MainComponent>>,
          <<MainComponent, Component(Aux, FALSE, 1, "hex")>>,
          <<Component(Aux, TRUE, 1, "other"), MainComponent>>}

\* A walk leaves the state of Main, and when it got to the end the target is the
\* version of the cloud.
LEMMA WalkEnds ==
    ASSUME NEW items \in Lists, registered \in Registrations, want \in Nat,
           NEW end, end = ManifestLoop([err |-> OK, reg |-> registered], items)
    PROVE  /\ end \in Walks /\ end.reg.state = registered.state
           /\ end.err = OK => end.reg.target = Stored(want)
<1> DEFINE base == [err |-> OK, reg |-> registered]
           m == MainComponent
           a == Component(Aux, TRUE, 1, "hex")
           l == Component(Aux, FALSE, 1, "hex")
           o == Component(Aux, TRUE, 1, "other")
           Good(w) == /\ w \in Walks /\ w.reg.state = registered.state
                      /\ w.err = OK => w.reg.target = Stored(want)
<1>1. base \in Walks /\ base.err = OK /\ base.reg = registered
      BY DEF Walks, Registrations
<1>2. Fits(m, Main, want, "hex") /\ Fits(a, Aux, 1, "hex") /\ Fits(o, Aux, 1, "other")
      BY Zenon DEF MainComponent, Fits
<1>3. ComponentMap!zcbor_map_decode(l, NoComponent).err # OK
      BY LongComponent, Zenon
<1>4. items \in {<<m>>, <<a, m>>, <<m, l>>, <<o, m>>}
      BY Zenon DEF Lists
<1> HIDE DEF base, m, a, l, o
<1>5. ComponentMap!zcbor_map_decode(o, NoComponent).st.hash # "hex"
      BY <1>2, GoodComponent
<1>6. LET w == ReceiveComponent(base, m)
      IN  /\ w.err = OK /\ w.reg = [base.reg EXCEPT !.target = Stored(want)] /\ w \in Walks
      BY <1>1, <1>2, ReceiveMain
<1> DEFINE w == ReceiveComponent(base, m)  x == ReceiveComponent(base, o)
<1>7. Good(w) /\ w \in Walks /\ w.reg.state = registered.state
  <2> HIDE DEF w
  <2> QED BY <1>1, <1>6 DEF w, Registrations
<1>8. x.err # OK /\ x.reg = base.reg /\ x \in Walks
      BY <1>1, <1>5, ReceiveBroken
<1>9. end = ManifestLoop(base, items)
      BY DEF base
<1>10. CASE items = <<m>>
  <2>1. end = w
        BY <1>9, <1>10, OneComponent
  <2> HIDE DEF w
  <2> QED BY <1>7, <2>1
<1>11. CASE items = <<a, m>>
  <2>1. ReceiveComponent(base, a) = base
        BY <1>1, <1>2, ReceiveAux
  <2>2. end = w
        BY <1>9, <1>11, <2>1, TwoComponents
  <2> HIDE DEF w
  <2> QED BY <1>7, <2>2
<1>12. CASE items = <<m, l>>
  <2>1. end = ReceiveComponent(w, l)
        BY <1>9, <1>12, TwoComponents
  <2> HIDE DEF w
  <2>2. end.err # OK /\ end.reg = w.reg /\ end \in Walks
        BY <1>3, <1>7, <2>1, ReceiveBroken
  <2> QED BY <1>7, <2>2
<1>13. CASE items = <<o, m>>
  <2>1. end = ReceiveComponent(x, m)
        BY <1>9, <1>13, TwoComponents
  <2> HIDE DEF x
  <2>2. end = x
        BY <1>8, <2>1, ReceiveAfterError
  <2> QED BY <1>1, <1>8, <2>2
<1> QED BY <1>4, <1>10, <1>11, <1>12, <1>13

\* The place of the components in a document: they are found behind one other
\* pair, or not at all.
LEMMA ComponentsFound ==
    ASSUME NEW pairs, Len(pairs) = 2, pairs[1].key # "components", pairs[2].key = "components"
    PROVE  SelectInSeq(pairs, LAMBDA p : p.key = "components") = 2
<1> DEFINE I == {i \in 1 .. Len(pairs) : pairs[i].key = "components"}
<1>1. I = {2}
      OBVIOUS
<1>2. Min({2}) = 2
      BY DEF Min
<1>3. SelectInSeq(pairs, LAMBDA p : p.key = "components") = IF I # {} THEN Min(I) ELSE 0
      BY DEF SelectInSeq
<1> HIDE DEF I
<1> QED BY <1>1, <1>2, <1>3

\* Without the key nothing is found.
LEMMA NoComponentsFound ==
    ASSUME NEW pairs, \A i \in 1 .. Len(pairs) : pairs[i].key # "components"
    PROVE  SelectInSeq(pairs, LAMBDA p : p.key = "components") = 0
<1> DEFINE I == {i \in 1 .. Len(pairs) : pairs[i].key = "components"}
<1>1. I = {}
      OBVIOUS
<1>2. SelectInSeq(pairs, LAMBDA p : p.key = "components") = IF I # {} THEN Min(I) ELSE 0
      BY DEF SelectInSeq
<1> HIDE DEF I
<1> QED BY <1>1, <1>2

\* A document without components changes nothing.
LEMMA NothingRead ==
    ASSUME NEW doc, ota_receive_manifest(doc),
           doc.type # "map" \/ \A i \in 1 .. Len(doc.pairs) : doc.pairs[i].key # "components"
    PROVE  registered' = registered
<1> DEFINE at == SelectInSeq(doc.pairs, LAMBDA p : p.key = "components")
<1>1. doc.type = "map" => at = 0
      BY NoComponentsFound
<1>2. ~ (doc.type = "map" /\ at > 0) => registered' = registered
      BY DEF ota_receive_manifest
<1> HIDE DEF at
<1> QED BY <1>1, <1>2

\* A document with a list of components: the walk over it, and the handler if it
\* got to the end.
LEMMA ListRead ==
    ASSUME NEW doc, doc.type = "map", Len(doc.pairs) = 2,
           doc.pairs[1].key # "components", doc.pairs[2].key = "components",
           NEW list, doc.pairs[2].value = list, list.type = "list",
           NEW end, end = ManifestLoop([err |-> OK, reg |-> registered], list.items),
           ota_receive_manifest(doc)
    PROVE  \/ end.err = OK /\ registered' = ota_manifest_receive(end.reg)
           \/ registered' = end.reg
<1> DEFINE at == SelectInSeq(doc.pairs, LAMBDA p : p.key = "components")
           l == doc.pairs[at].value
           e == ManifestLoop([err |-> OK, reg |-> registered], l.items)
<1>1. at = 2
      BY ComponentsFound
<1>2. registered' = IF doc.type = "map" /\ at > 0 /\ l.type = "list"
                    THEN IF e.err = OK /\ l.whole
                         THEN golioth_ota_manifest_complete(e.reg) ELSE e.reg
                    ELSE registered
      BY DEF ota_receive_manifest, ManifestLoop
<1> HIDE DEF at
<1>3. l = list
      BY <1>1
<1> HIDE DEF l
<1>4. e = end
      BY <1>3
<1> HIDE DEF e
<1>5. at > 0
      BY <1>1
<1> QED BY <1>2, <1>3, <1>4, <1>5 DEF golioth_ota_manifest_complete

\* The lists of the documents with components.
LEMMA ManifestLists ==
    ASSUME NEW doc \in ManifestDocs
    PROVE  \/ /\ doc.type = "map" /\ Len(doc.pairs) = 2
              /\ doc.pairs[1].key # "components" /\ doc.pairs[2].key = "components"
              /\ doc.pairs[2].value.type = "list" /\ doc.pairs[2].value.items \in Lists
           \/ \A i \in 1 .. Len(doc.pairs) : doc.pairs[i].key # "components"
<1> DEFINE m == MainComponent
           a == Component(Aux, TRUE, 1, "hex")
           l == Component(Aux, FALSE, 1, "hex")
           o == Component(Aux, TRUE, 1, "other")
<1>1. Lists = {<<m>>, <<a, m>>, <<m, l>>, <<o, m>>}
      BY Zenon DEF Lists
<1>2. \/ \E items \in {<<m>>, <<a, m>>, <<m, l>>, <<o, m>>} : doc = Manifest(items)
      \/ doc = CborMap(<<Pair("sequence", CborInt(1))>>)
      \/ doc = CutMap(<<Pair("sequence", CborInt(1)), Pair("components", CborList(<<m>>, FALSE))>>)
      BY DEF ManifestDocs, GoodManifests, BadManifests, CutManifest
<1> HIDE DEF m, a, l, o
<1>3. CASE \E items \in {<<m>>, <<a, m>>, <<m, l>>, <<o, m>>} : doc = Manifest(items)
  <2>1. PICK items \in Lists : doc = Manifest(items)
        BY <1>1, <1>3
  <2> QED BY <2>1 DEF Manifest, CborMap, Pair, CborList
<1>4. CASE doc = CborMap(<<Pair("sequence", CborInt(1))>>)
      BY <1>4 DEF CborMap, Pair
<1>5. CASE doc = CutMap(<<Pair("sequence", CborInt(1)),
                          Pair("components", CborList(<<m>>, FALSE))>>)
  <2>1. <<m>> \in Lists
        BY <1>1
  <2> QED BY <1>5, <2>1 DEF CutMap, Pair, CborList
<1> QED BY <1>2, <1>3, <1>4, <1>5

\* A manifest leaves the state of Main as it is, or marks it for download when
\* the version that runs is not the one in the manifest.
LEMMA ManifestResult ==
    ASSUME NEW doc \in ManifestDocs, registered \in Registrations, want \in Nat,
           ota_receive_manifest(doc)
    PROVE  /\ registered' \in Registrations
           /\ registered'.state # registered.state =>
                  registered'.state = DOWNLOADING /\ running # Stored(want)
<1>1. CASE \A i \in 1 .. Len(doc.pairs) : doc.pairs[i].key # "components"
      BY <1>1, NothingRead
<1>2. CASE /\ doc.type = "map" /\ Len(doc.pairs) = 2
           /\ doc.pairs[1].key # "components" /\ doc.pairs[2].key = "components"
           /\ doc.pairs[2].value.type = "list" /\ doc.pairs[2].value.items \in Lists
  <2> DEFINE list == doc.pairs[2].value
             end == ManifestLoop([err |-> OK, reg |-> registered], list.items)
  <2>1. \/ end.err = OK /\ registered' = ota_manifest_receive(end.reg)
        \/ registered' = end.reg
        BY <1>2, ListRead
  <2>2. /\ end \in Walks /\ end.reg.state = registered.state
        /\ end.err = OK => end.reg.target = Stored(want)
        BY <1>2, WalkEnds
  <2> HIDE DEF end
  <2>3. end.reg \in Registrations
        BY <2>2 DEF Walks, Registrations
  <2> QED BY <2>1, <2>2, <2>3
      DEF ota_manifest_receive, golioth_ota_mark_for_download, golioth_ota_set_status, Registrations
<1> QED BY <1>1, <1>2, ManifestLists

\* Settings, and what is no document at all, have no components.
LEMMA OtherDocs ==
    ASSUME NEW doc \in SettingDocs \cup {CborRest}, ota_receive_manifest(doc)
    PROVE  registered' = registered
<1> DEFINE ver == CborInt(cloud)  item == SettingsItem  nil == [type |-> "nil"]
           cut == CutMap(<<Head(CloudSettings[cloud])>>)
<1>1. \/ doc = CborRest
      \/ doc = CborMap(<<Pair("settings", item), Pair("version", ver)>>)
      \/ doc = CborMap(<<Pair("version", ver), Pair("hint", CborInt(0)), Pair("settings", item)>>)
      \/ doc = CborMap(<<Pair("settings", nil), Pair("version", ver)>>)
      \/ doc = CutMap(<<>> \o <<Pair("settings", cut)>>)
      \/ doc = CutMap(<<Pair("version", ver)>> \o <<Pair("settings", cut)>>)
      BY DEF SettingDocs, SettingsDocs, SettingsDoc, NilSettings, CutSettings
<1> HIDE DEF ver, item, nil, cut
<1>2. doc.type # "map" \/ \A i \in 1 .. Len(doc.pairs) : doc.pairs[i].key # "components"
      BY <1>1 DEF CborMap, CutMap, CborRest, Pair
<1> QED BY <1>2, NothingRead

-----------------------------------------------------------------------------
(* Settings *)

Vals == [DOMAIN SettingType -> {Unset} \cup Given]

\* A value for n from the settings that the cloud has now.
Current(x, n) == x \in Given /\ x.type = SettingType[n] /\ x.val = cloud

\* The value of a setting is replaced by a current one or left alone.
Updated(new, old) == /\ new \in Vals
                     /\ \A n \in DOMAIN SettingType : new[n] = old[n] \/ Current(new[n], n)

Takable(pair) == pair.key \in DOMAIN SettingType /\ SettingType[pair.key] = pair.value.type

\* One setting.
LEMMA OneSetting ==
    ASSUME NEW vals \in Vals, NEW pair \in [key : STRING, value : Given], pair.value.val = cloud
    PROVE  /\ Updated(ReceiveSetting(vals, pair), vals)
           /\ Takable(pair) => Current(ReceiveSetting(vals, pair)[pair.key], pair.key)
<1> DEFINE k == pair.key  x == pair.value
<1>1. x \in Given
      OBVIOUS
<1>2. CASE Takable(pair)
  <2>1. k \in DOMAIN SettingType /\ SettingType[k] = x.type /\ x.type \in Supported
        BY <1>2, SettingAssumption DEF Takable, Supported
  <2>2. k \in DOMAIN vals
        BY <2>1 DEF Vals
  <2>3. ReceiveSetting(vals, pair) = [vals EXCEPT ![k] = x]
        BY <2>1, <2>2 DEF ReceiveSetting, golioth_settings_receive_one
  <2>4. Current(x, k)
        BY <1>1, <2>1 DEF Current
  <2> HIDE DEF k, x
  <2> DEFINE new == [vals EXCEPT ![k] = x]
  <2>5. new \in Vals /\ new[k] = x /\ \A n \in DOMAIN SettingType : n # k => new[n] = vals[n]
        BY <1>1, <2>1 DEF Vals
  <2> HIDE DEF new
  <2>6. Updated(new, vals) /\ Current(new[k], k)
        BY <2>4, <2>5 DEF Updated
  <2> QED BY <2>3, <2>6 DEF new, k
<1>3. CASE ~ Takable(pair)
  <2>1. ReceiveSetting(vals, pair) = vals
        BY <1>3 DEF Takable, ReceiveSetting, golioth_settings_receive_one, Vals
  <2> QED BY <1>3, <2>1 DEF Updated
<1> QED BY <1>2, <1>3

\* The loop over the settings of the cloud: each of them that the application can
\* take has a current value in the end, and nothing else has changed.
LEMMA AllSettings ==
    ASSUME NEW vals \in Vals, NEW seq, NEW n \in Nat, DOMAIN seq = 1 .. n,
           \A k \in 1 .. n : seq[k] \in [key : STRING, value : Given] /\ seq[k].value.val = cloud
    PROVE  /\ Updated(ValueLoop(vals, seq), vals)
           /\ \A k \in 1 .. n :
                 Takable(seq[k]) => Current(ValueLoop(vals, seq)[seq[k].key], seq[k].key)
<1>1. PICK v : ValueSteps(v, vals, seq, n)
      BY ReceiveSettingFold
<1> DEFINE Good(j) == /\ Updated(v[j], vals)
                      /\ \A k \in 1 .. j : Takable(seq[k]) => Current(v[j][seq[k].key], seq[k].key)
           P == {j \in Nat : j <= n => Good(j)}
<1>2. 0 \in P
      BY <1>1 DEF ValueSteps, Updated
<1>3. ASSUME NEW j \in Nat, j \in P
      PROVE  j + 1 \in P
  <2> SUFFICES ASSUME j + 1 <= n
               PROVE  Good(j + 1)
      OBVIOUS
  <2> DEFINE p == seq[j + 1]  old == v[j]  new == v[j + 1]
  <2>1. Good(j)
        BY <1>3
  <2>2. new = ReceiveSetting(old, p) /\ p \in [key : STRING, value : Given] /\ p.value.val = cloud
    <3>1. j + 1 \in 1 .. n /\ (j + 1) - 1 = j
          OBVIOUS
    <3> QED BY <1>1, <3>1 DEF ValueSteps
  <2> HIDE DEF p, old, new
  <2>3. old \in Vals
        BY <2>1 DEF old, Updated
  <2>4. /\ Updated(new, old)
        /\ Takable(p) => Current(new[p.key], p.key)
        BY <2>2, <2>3, OneSetting
  <2>5. Updated(new, vals)
        BY <2>1, <2>4 DEF Updated, old
  <2>6. ASSUME NEW k \in 1 .. j + 1, Takable(seq[k])
        PROVE  Current(new[seq[k].key], seq[k].key)
    <3>1. CASE k = j + 1
          BY <2>4, <2>6, <3>1 DEF p
    <3>2. CASE k \in 1 .. j
      <4> DEFINE key == seq[k].key
      <4>1. key \in DOMAIN SettingType
            BY <2>6 DEF Takable
      <4>2. Current(old[key], key)
            BY <2>1, <2>6, <3>2 DEF old
      <4> HIDE DEF key
      <4>3. Current(new[key], key)
            BY <2>4, <4>1, <4>2 DEF Updated
      <4> QED BY <4>3 DEF key
    <3> QED BY <3>1, <3>2
  <2> QED BY <2>5, <2>6 DEF new
<1>4. n \in P
      BY <1>2, <1>3, Induction
<1>5. Good(n)
      BY <1>4
<1>6. ValueLoop(vals, seq) = v[n]
      BY <1>1 DEF ValueSteps
<1> DEFINE w == ValueLoop(vals, seq)
<1> HIDE DEF w
<1>7. w = v[n]
      BY <1>6 DEF w
<1>8. /\ Updated(w, vals)
      /\ \A k \in 1 .. n : Takable(seq[k]) => Current(w[seq[k].key], seq[k].key)
      BY <1>5, <1>7
<1> QED BY <1>8 DEF w

\* The keys of a settings document.
LEMMA SettingsKeyFacts ==
    /\ Len(<<"settings", "version">>) = 2
    /\ SettingsMap!map_entry_get("settings") /\ SettingsMap!map_entry_get("version")
    /\ \A key : key \notin {"settings", "version"} => ~ SettingsMap!map_entry_get(key)
<1> DEFINE keys == <<"settings", "version">>
<1>1. /\ Len(keys) = 2 /\ DOMAIN keys = 1 .. 2 /\ keys[1] = "settings" /\ keys[2] = "version"
      OBVIOUS
<1>2. \A key : SettingsMap!map_entry_get(key) <=> \E i \in DOMAIN keys : keys[i] = key
      BY DEF SettingsMap!map_entry_get
<1> HIDE DEF keys
<1>3. \A key : SettingsMap!map_entry_get(key) <=> key \in {"settings", "version"}
      BY <1>1, <1>2
<1> QED BY <1>1, <1>3 DEF keys

\* The states of the loop over a settings document, with the version known to
\* the device and the values that the callbacks got.
SettingSts == [version : Int, value : Vals]

\* A pair with another key, and any pair after an error, changes nothing.
LEMMA SettingsSkip ==
    ASSUME NEW acc, NEW pair, acc.err # OK \/ pair.key \notin {"settings", "version"}
    PROVE  SettingsMap!MapStep(acc, pair) = acc
BY SettingsKeyFacts DEF SettingsMap!MapStep, SettingsMap!OK, OK

\* The version.
LEMMA VersionStep ==
    ASSUME NEW acc, acc.err = OK, acc.n \in {0, 1}, acc.st \in SettingSts,
           NEW pair, pair = Pair("version", CborInt(cloud)), cloud \in Nat
    PROVE  LET r == SettingsMap!MapStep(acc, pair)
           IN  /\ r.err = OK /\ r.n = acc.n + 1 /\ r.st \in SettingSts
               /\ r.st.version = cloud /\ r.st.value = acc.st.value
<1> DEFINE st2 == [acc.st EXCEPT !.version = cloud]
           r == SettingsMap!MapStep(acc, pair)
<1>1. pair.key = "version" /\ pair.value.type = "int" /\ pair.value.val = cloud
      BY DEF Pair, CborInt
<1>2. DecodeSetting(pair.key, pair.value, acc.st) = Result(OK, st2)
      BY <1>1 DEF DecodeSetting
<1>3. st2 \in SettingSts /\ st2.version = cloud /\ st2.value = acc.st.value
      BY DEF SettingSts
<1>4. acc.n < 2
      OBVIOUS
<1> HIDE DEF st2
<1>5. SettingsMap!MapStep(acc, pair) = [err |-> OK, st |-> st2, n |-> acc.n + 1]
      BY <1>1, <1>2, <1>4, SettingsKeyFacts DEF SettingsMap!MapStep, SettingsMap!OK, OK, Result
<1> HIDE DEF r
<1>6. r.err = OK /\ r.n = acc.n + 1 /\ r.st = st2
      BY <1>5 DEF r
<1> QED BY <1>3, <1>6 DEF r

\* The settings: whatever the decoder makes of them goes into the state.
LEMMA SettingsStep ==
    ASSUME NEW acc, acc.err = OK, acc.n \in {0, 1}, acc.st \in SettingSts,
           NEW item, NEW pair, pair = Pair("settings", item),
           NEW d, d = settings_decode(item, acc.st.value), d.st \in Vals
    PROVE  LET r == SettingsMap!MapStep(acc, pair)
           IN  /\ r.err = d.err /\ r.st \in SettingSts
               /\ r.st.version = acc.st.version /\ r.st.value = d.st
               /\ r.n = acc.n + (IF d.err = OK THEN 1 ELSE 0)
<1> DEFINE st2 == [acc.st EXCEPT !.value = d.st]
           r == SettingsMap!MapStep(acc, pair)
<1>1. pair.key = "settings" /\ pair.value = item
      BY DEF Pair
<1>2. DecodeSetting(pair.key, pair.value, acc.st) = Result(d.err, st2)
      BY <1>1 DEF DecodeSetting
<1>3. st2 \in SettingSts /\ st2.version = acc.st.version /\ st2.value = d.st
      BY DEF SettingSts
<1>4. acc.n < 2
      OBVIOUS
<1> HIDE DEF st2
<1>5. SettingsMap!MapStep(acc, pair) =
          [err |-> d.err, st |-> st2, n |-> acc.n + (IF d.err = OK THEN 1 ELSE 0)]
      BY <1>1, <1>2, <1>4, SettingsKeyFacts DEF SettingsMap!MapStep, SettingsMap!OK, OK, Result
<1> HIDE DEF r
<1>6. r.err = d.err /\ r.n = acc.n + (IF d.err = OK THEN 1 ELSE 0) /\ r.st = st2
      BY <1>5 DEF r
<1> QED BY <1>3, <1>6 DEF r

\* The service takes over what the loop leaves, whatever the error.
LEMMA SettingsRead ==
    ASSUME NEW doc, doc.type = "map", settings_downlink(doc), NEW end,
           end = SettingsLoop([err |-> OK, st |-> [version |-> settings_version, value |-> value],
                               n |-> 0], doc.pairs)
    PROVE  settings_version' = end.st.version /\ value' = end.st.value
<1> DEFINE st == [version |-> settings_version, value |-> value]
           r == SettingsMap!zcbor_map_decode(doc, st)
<1>1. settings_version' = r.st.version /\ value' = r.st.value
      BY DEF settings_downlink
<1> HIDE DEF st
<1>2. r.st = end.st
      BY DEF SettingsMap!zcbor_map_decode, SettingsLoop, SettingsMap!Result, SettingsMap!OK, OK, st
<1> QED BY <1>1, <1>2

\* What is no map changes neither the version nor the settings.
LEMMA SettingsUnread ==
    ASSUME NEW doc, doc.type # "map", settings_downlink(doc)
    PROVE  settings_version' = settings_version /\ value' = value
BY DEF settings_downlink, SettingsMap!zcbor_map_decode, SettingsMap!Result

\* The loop over one, two and three pairs.
LEMMA OnePair ==
    ASSUME NEW base, NEW pairs
    PROVE  DOMAIN pairs = 1 .. 1 => SettingsLoop(base, pairs) = SettingsMap!MapStep(base, pairs[1])
<1>0. HAVE DOMAIN pairs = 1 .. 1
<1>1. PICK n \in Nat : n = 1
      OBVIOUS
<1>2. PICK v : SettingsSteps(v, base, pairs, n)
  <2>1. DOMAIN pairs = 1 .. n
        BY <1>0, <1>1
  <2> QED BY <2>1, SettingsMapFold
<1>3. v[1] = SettingsMap!MapStep(v[1 - 1], pairs[1]) /\ 1 - 1 = 0
      BY <1>1, <1>2 DEF SettingsSteps
<1> QED BY <1>1, <1>2, <1>3 DEF SettingsSteps

\* Two pairs, one after the other.
LEMMA TwoPairs ==
    ASSUME NEW base, NEW pairs
    PROVE  DOMAIN pairs = 1 .. 2 =>
               SettingsLoop(base, pairs) =
                   SettingsMap!MapStep(SettingsMap!MapStep(base, pairs[1]), pairs[2])
<1>0. HAVE DOMAIN pairs = 1 .. 2
<1>1. PICK n \in Nat : n = 2
      OBVIOUS
<1>2. PICK v : SettingsSteps(v, base, pairs, n)
  <2>1. DOMAIN pairs = 1 .. n
        BY <1>0, <1>1
  <2> QED BY <2>1, SettingsMapFold
<1>3. /\ v[1] = SettingsMap!MapStep(v[1 - 1], pairs[1]) /\ 1 - 1 = 0
      /\ v[2] = SettingsMap!MapStep(v[2 - 1], pairs[2]) /\ 2 - 1 = 1
      BY <1>1, <1>2 DEF SettingsSteps
<1> QED BY <1>1, <1>2, <1>3 DEF SettingsSteps

\* Three pairs, one after the other.
LEMMA ThreePairs ==
    ASSUME NEW base, NEW pairs
    PROVE  DOMAIN pairs = 1 .. 3 =>
               LET a == SettingsMap!MapStep(base, pairs[1])
                   b == SettingsMap!MapStep(a, pairs[2])
               IN  SettingsLoop(base, pairs) = SettingsMap!MapStep(b, pairs[3])
<1>0. HAVE DOMAIN pairs = 1 .. 3
<1>1. PICK n \in Nat : n = 3
      OBVIOUS
<1>2. PICK v : SettingsSteps(v, base, pairs, n)
  <2>1. DOMAIN pairs = 1 .. n
        BY <1>0, <1>1
  <2> QED BY <2>1, SettingsMapFold
<1>3. /\ v[1] = SettingsMap!MapStep(v[1 - 1], pairs[1]) /\ 1 - 1 = 0
      /\ v[2] = SettingsMap!MapStep(v[2 - 1], pairs[2]) /\ 2 - 1 = 1
      /\ v[3] = SettingsMap!MapStep(v[3 - 1], pairs[3]) /\ 3 - 1 = 2
      BY <1>1, <1>2 DEF SettingsSteps
<1>4. /\ v[1] = SettingsMap!MapStep(base, pairs[1])
      /\ v[2] = SettingsMap!MapStep(v[1], pairs[2])
      /\ SettingsLoop(base, pairs) = SettingsMap!MapStep(v[2], pairs[3])
      BY <1>1, <1>2, <1>3 DEF SettingsSteps
<1> QED BY <1>4

\* The settings of the cloud are pairs with current values.
LEMMA CloudFacts ==
    ASSUME cloud \in 1 .. Len(CloudSettings), NEW seq, seq = CloudSettings[cloud]
    PROVE  /\ Len(seq) \in Nat /\ Len(seq) > 0 /\ DOMAIN seq = 1 .. Len(seq)
           /\ \A k \in 1 .. Len(seq) :
                 seq[k] \in [key : STRING, value : Given] /\ seq[k].value.val = cloud
           /\ Head(seq) = seq[1]
<1>1. seq \in Seq([key : STRING, value : Given]) /\ seq # <<>>
      BY CloudAssumption DEF Given
<1>2. \A k \in DOMAIN seq : seq[k].value.val = cloud
      BY CloudAssumption
<1> DEFINE S == [key : STRING, value : Given]
<1> HIDE DEF S
<1>3. seq \in Seq(S)
      BY <1>1 DEF S
<1>4. Len(seq) \in Nat /\ Len(seq) > 0 /\ DOMAIN seq = 1 .. Len(seq) /\ Head(seq) = seq[1]
      BY <1>1, <1>3
<1>5. \A k \in 1 .. Len(seq) : seq[k] \in S
      BY <1>3
<1> QED BY <1>2, <1>4, <1>5 DEF S

\* What is in a map of settings of the cloud goes to the callbacks.
LEMMA ItemDecoded ==
    ASSUME cloud \in 1 .. Len(CloudSettings), NEW vals \in Vals, NEW item, item.type = "map",
           item.pairs \in {CloudSettings[cloud], <<Head(CloudSettings[cloud])>>},
           NEW d, d = settings_decode(item, vals)
    PROVE  /\ Updated(d.st, vals)
           /\ item.pairs = CloudSettings[cloud] => \A n \in Takes(cloud) : Current(d.st[n], n)
           /\ d.err = OK \/ d.err = EBADMSG
           /\ item.whole => d.err = OK
           /\ ~ item.whole => d.err = EBADMSG
<1> DEFINE seq == CloudSettings[cloud]  w == ValueLoop(vals, item.pairs)
<1>1. d.st = w
      BY DEF settings_decode, Result, ValueLoop
<1>2. /\ d.err = OK \/ d.err = EBADMSG
      /\ item.whole => d.err = OK
      /\ ~ item.whole => d.err = EBADMSG
      BY DEF settings_decode, Result
<1>3. /\ Len(seq) \in Nat /\ Len(seq) > 0 /\ DOMAIN seq = 1 .. Len(seq)
      /\ \A k \in 1 .. Len(seq) :
            seq[k] \in [key : STRING, value : Given] /\ seq[k].value.val = cloud
      /\ Head(seq) = seq[1]
      BY CloudFacts
<1>4. CASE item.pairs = seq
  <2> DEFINE n == Len(seq)  s == item.pairs
  <2>1. /\ s = seq /\ n \in Nat /\ DOMAIN s = 1 .. n
        /\ \A k \in 1 .. n : s[k] \in [key : STRING, value : Given] /\ s[k].value.val = cloud
        BY <1>3, <1>4
  <2>2. w = ValueLoop(vals, s)
        OBVIOUS
  <2> HIDE DEF n, s, w
  <2>3. /\ Updated(w, vals)
        /\ \A k \in 1 .. n : Takable(s[k]) => Current(w[s[k].key], s[k].key)
        BY <2>1, <2>2, AllSettings
  <2>4. ASSUME NEW m \in Takes(cloud)
        PROVE  Current(w[m], m)
    <3>1. PICK p \in Range(seq) : /\ m = p.key /\ p.key \in DOMAIN SettingType
                                  /\ SettingType[p.key] = p.value.type
          BY DEF Takes
    <3>2. PICK k \in DOMAIN seq : p = seq[k]
          BY <3>1 DEF Range
    <3>3. k \in 1 .. n /\ p = s[k] /\ Takable(s[k])
          BY <2>1, <3>1, <3>2 DEF Takable
    <3> QED BY <2>3, <3>1, <3>3
  <2> QED BY <1>1, <1>2, <2>3, <2>4
<1>5. CASE item.pairs = <<Head(seq)>> /\ item.pairs # seq
  <2> DEFINE s == item.pairs
  <2>1. s = <<seq[1]>>
        BY <1>3, <1>5
  <2>2. 1 \in Nat /\ DOMAIN s = 1 .. 1 /\ s[1] = seq[1]
        BY <2>1
  <2>3. \A k \in 1 .. 1 : s[k] \in [key : STRING, value : Given] /\ s[k].value.val = cloud
        BY <1>3, <2>2
  <2>4. w = ValueLoop(vals, s)
        OBVIOUS
  <2> HIDE DEF s, w
  <2>5. PICK n \in Nat : n = 1
        OBVIOUS
  <2>6. DOMAIN s = 1 .. n /\ \A k \in 1 .. n : /\ s[k] \in [key : STRING, value : Given]
                                               /\ s[k].value.val = cloud
        BY <2>2, <2>3, <2>5
  <2>7. Updated(w, vals)
        BY <2>4, <2>6, AllSettings
  <2> QED BY <1>1, <1>2, <1>5, <2>7
<1> QED BY <1>4, <1>5

\* The keys of a manifest are none of the settings'.
LEMMA ManifestKeys ==
    ASSUME NEW doc \in ManifestDocs
    PROVE  /\ doc.type = "map" /\ (DOMAIN doc.pairs = 1 .. 1 \/ DOMAIN doc.pairs = 1 .. 2)
           /\ \A i \in DOMAIN doc.pairs : doc.pairs[i].key \notin {"settings", "version"}
<1> DEFINE m == MainComponent
           a == Component(Aux, TRUE, 1, "hex")
           l == Component(Aux, FALSE, 1, "hex")
           o == Component(Aux, TRUE, 1, "other")
<1>1. \/ \E items \in {<<m>>, <<a, m>>, <<m, l>>, <<o, m>>} : doc = Manifest(items)
      \/ doc = CborMap(<<Pair("sequence", CborInt(1))>>)
      \/ doc = CutMap(<<Pair("sequence", CborInt(1)), Pair("components", CborList(<<m>>, FALSE))>>)
      BY DEF ManifestDocs, GoodManifests, BadManifests, CutManifest
<1> HIDE DEF m, a, l, o
<1>2. CASE \E items \in {<<m>>, <<a, m>>, <<m, l>>, <<o, m>>} : doc = Manifest(items)
  <2>1. PICK items : doc = Manifest(items)
        BY <1>2
  <2> QED BY <2>1 DEF Manifest, CborMap, Pair
<1>3. CASE doc = CborMap(<<Pair("sequence", CborInt(1))>>)
      BY <1>3 DEF CborMap, Pair
<1>4. CASE doc = CutMap(<<Pair("sequence", CborInt(1)),
                          Pair("components", CborList(<<m>>, FALSE))>>)
      BY <1>4 DEF CutMap, Pair
<1> QED BY <1>1, <1>2, <1>3, <1>4

\* What a document does to the settings: it replaces values by current ones; and
\* when it gives the device the version of the cloud, every setting that the
\* application can take has one, unless the version came first and the document
\* was cut.
Applied(version, vals) ==
    /\ Updated(vals, value)
    /\ \/ version = settings_version
       \/ /\ version = cloud
          /\ SettingsFirst => \A n \in Takes(cloud) : Current(vals[n], n)

\* settings_downlink does no more than that, whatever document it gets.
LEMMA SettingsResult ==
    ASSUME NEW doc \in Docs, settings_downlink(doc), value \in Vals, settings_version \in Int,
           cloud \in 0 .. Len(CloudSettings)
    PROVE  Applied(settings_version', value')
<1> DEFINE st == [version |-> settings_version, value |-> value]
           base == [err |-> OK, st |-> st, n |-> 0]
           end == SettingsLoop(base, doc.pairs)
           ver == Pair("version", CborInt(cloud))
<1>0. Updated(value, value) /\ cloud \in Nat
      BY DEF Updated
<1>1. /\ base.err = OK /\ base.n = 0 /\ base.st \in SettingSts
      /\ base.st.version = settings_version /\ base.st.value = value
      BY DEF SettingSts
<1>2. doc.type = "map" => settings_version' = end.st.version /\ value' = end.st.value
      BY SettingsRead
<1> HIDE DEF base, st, end
<1>3. CASE doc = CborRest
  <2>1. doc.type # "map"
        BY <1>3 DEF CborRest
  <2> QED BY <1>0, <2>1, SettingsUnread DEF Applied
<1>4. CASE doc \in ManifestDocs
  <2>1. /\ doc.type = "map" /\ (DOMAIN doc.pairs = 1 .. 1 \/ DOMAIN doc.pairs = 1 .. 2)
        /\ \A i \in DOMAIN doc.pairs : doc.pairs[i].key \notin {"settings", "version"}
        BY <1>4, ManifestKeys
  <2>2. CASE DOMAIN doc.pairs = 1 .. 1
    <3>1. SettingsMap!MapStep(base, doc.pairs[1]) = base
          BY <2>1, <2>2, SettingsSkip
    <3>2. end = base
          BY <2>2, <3>1, OnePair DEF end
    <3> QED BY <1>0, <1>1, <1>2, <2>1, <3>2 DEF Applied
  <2>3. CASE DOMAIN doc.pairs = 1 .. 2
    <3>1. /\ SettingsMap!MapStep(base, doc.pairs[1]) = base
          /\ SettingsMap!MapStep(base, doc.pairs[2]) = base
          BY <2>1, <2>3, SettingsSkip
    <3>2. end = base
          BY <2>3, <3>1, TwoPairs DEF end
    <3> QED BY <1>0, <1>1, <1>2, <2>1, <3>2 DEF Applied
  <2> QED BY <2>1, <2>2, <2>3
<1>5. CASE doc \in SettingDocs
  <2> DEFINE item == SettingsItem  cut == CutMap(<<Head(CloudSettings[cloud])>>)
             nil == [type |-> "nil"]  hint == Pair("hint", CborInt(0))
             d == settings_decode(item, value)  c == settings_decode(cut, value)
             z == settings_decode(nil, value)
  <2>1. /\ cloud \in 1 .. Len(CloudSettings)
        /\ doc \in SettingsDocs \cup {NilSettings, CutSettings}
        BY <1>5 DEF SettingDocs
  <2>2. \/ doc = CborMap(<<Pair("settings", item), ver>>)
        \/ doc = CborMap(<<ver, hint, Pair("settings", item)>>)
        \/ doc = CborMap(<<Pair("settings", nil), ver>>)
        \/ SettingsFirst /\ doc = CutMap(<<>> \o <<Pair("settings", cut)>>)
        \/ ~ SettingsFirst /\ doc = CutMap(<<ver>> \o <<Pair("settings", cut)>>)
        BY <2>1 DEF SettingsDocs, SettingsDoc, NilSettings, CutSettings
  <2>3. item.type = "map" /\ item.whole /\ item.pairs = CloudSettings[cloud]
        BY DEF SettingsItem, CborMap
  <2>4. cut.type = "map" /\ ~ cut.whole /\ cut.pairs = <<Head(CloudSettings[cloud])>>
        BY DEF CutMap
  <2>5. z.err # OK /\ z.st = value
        BY DEF settings_decode, Result, ENOENT, OK
  <2> HIDE DEF item, cut, nil, hint, ver
  <2>6. /\ d.err = OK /\ Updated(d.st, value) /\ \A n \in Takes(cloud) : Current(d.st[n], n)
        BY <2>1, <2>3, ItemDecoded
  <2>7. /\ c.err # OK /\ Updated(c.st, value)
    <3>1. EBADMSG # OK
          BY DEF EBADMSG, OK
    <3> QED BY <2>1, <2>4, <3>1, ItemDecoded
  <2>8. d.st \in Vals /\ c.st \in Vals
        BY <2>6, <2>7 DEF Updated
  <2> HIDE DEF d, c, z
  <2>9. CASE doc = CborMap(<<Pair("settings", item), ver>>)
    <3> DEFINE a == SettingsMap!MapStep(base, Pair("settings", item))
               b == SettingsMap!MapStep(a, ver)
    <3>1. /\ doc.type = "map" /\ DOMAIN doc.pairs = 1 .. 2
          /\ doc.pairs[1] = Pair("settings", item) /\ doc.pairs[2] = ver
          BY <2>9 DEF CborMap
    <3>2. end = b
          BY <3>1, TwoPairs DEF end
    <3>3. a.err = OK /\ a.n = 1 /\ a.st \in SettingSts /\ a.st.value = d.st
      <4>1. LET r == SettingsMap!MapStep(base, Pair("settings", item))
            IN  /\ r.err = d.err /\ r.st \in SettingSts
                /\ r.st.version = base.st.version /\ r.st.value = d.st
                /\ r.n = base.n + (IF d.err = OK THEN 1 ELSE 0)
            BY <1>1, <2>8, SettingsStep DEF d
      <4> HIDE DEF a
      <4> QED BY <1>1, <2>6, <4>1 DEF a
    <3> HIDE DEF a
    <3>4. b.st.version = cloud /\ b.st.value = d.st
          BY <1>0, <3>3, VersionStep DEF ver
    <3> HIDE DEF b
    <3> QED BY <1>2, <2>6, <3>1, <3>2, <3>4 DEF Applied
  <2>10. CASE doc = CborMap(<<ver, hint, Pair("settings", item)>>)
    <3>1. /\ doc.type = "map" /\ DOMAIN doc.pairs = 1 .. 3
          /\ doc.pairs[1] = ver /\ doc.pairs[2] = hint /\ doc.pairs[3] = Pair("settings", item)
          BY <2>10 DEF CborMap
    <3> DEFINE a == SettingsMap!MapStep(base, ver)  b == SettingsMap!MapStep(a, hint)
    <3>2. end = SettingsMap!MapStep(b, Pair("settings", item))
          BY <3>1, ThreePairs DEF end
    <3>3. /\ a.err = OK /\ a.n = 1 /\ a.st \in SettingSts
          /\ a.st.version = cloud /\ a.st.value = value
          BY <1>0, <1>1, VersionStep DEF ver
    <3> HIDE DEF a
    <3>4. hint.key \notin {"settings", "version"}
          BY DEF hint, Pair
    <3>5. b = a
          BY <3>4, SettingsSkip
    <3> HIDE DEF b
    <3>6. end.st.version = cloud /\ end.st.value = d.st
          BY <2>8, <3>2, <3>3, <3>5, SettingsStep DEF d
    <3> QED BY <1>2, <2>6, <3>1, <3>6 DEF Applied
  <2>11. CASE doc = CborMap(<<Pair("settings", nil), ver>>)
    <3> DEFINE a == SettingsMap!MapStep(base, Pair("settings", nil))
               b == SettingsMap!MapStep(a, ver)
    <3>1. /\ doc.type = "map" /\ DOMAIN doc.pairs = 1 .. 2
          /\ doc.pairs[1] = Pair("settings", nil) /\ doc.pairs[2] = ver
          BY <2>11 DEF CborMap
    <3>2. end = b
          BY <3>1, TwoPairs DEF end
    <3>3. a.err # OK /\ a.st.version = settings_version /\ a.st.value = value
          BY <1>1, <2>5, SettingsStep DEF z
    <3> HIDE DEF a
    <3>4. b = a
          BY <3>3, SettingsSkip
    <3> HIDE DEF b
    <3> QED BY <1>0, <1>2, <3>1, <3>2, <3>3, <3>4 DEF Applied
  <2>12. CASE SettingsFirst /\ doc = CutMap(<<>> \o <<Pair("settings", cut)>>)
    <3>1. doc.type = "map" /\ DOMAIN doc.pairs = 1 .. 1 /\ doc.pairs[1] = Pair("settings", cut)
          BY <2>12 DEF CutMap
    <3>2. end = SettingsMap!MapStep(base, Pair("settings", cut))
          BY <3>1, OnePair DEF end
    <3>3. end.st.version = settings_version /\ end.st.value = c.st
          BY <1>1, <2>8, <3>2, SettingsStep DEF c
    <3> QED BY <1>2, <2>7, <3>1, <3>3 DEF Applied
  <2>13. CASE ~ SettingsFirst /\ doc = CutMap(<<ver>> \o <<Pair("settings", cut)>>)
    <3> DEFINE a == SettingsMap!MapStep(base, ver)
    <3>1. /\ doc.type = "map" /\ DOMAIN doc.pairs = 1 .. 2
          /\ doc.pairs[1] = ver /\ doc.pairs[2] = Pair("settings", cut)
          BY <2>13 DEF CutMap
    <3>2. end = SettingsMap!MapStep(a, Pair("settings", cut))
          BY <3>1, TwoPairs DEF end
    <3>3. /\ a.err = OK /\ a.n = 1 /\ a.st \in SettingSts
          /\ a.st.version = cloud /\ a.st.value = value
          BY <1>0, <1>1, VersionStep DEF ver
    <3> HIDE DEF a
    <3>4. end.st.version = cloud /\ end.st.value = c.st
          BY <2>8, <3>2, <3>3, SettingsStep DEF c
    <3> QED BY <1>2, <2>7, <2>13, <3>1, <3>4 DEF Applied
  <2> QED BY <2>2, <2>9, <2>10, <2>11, <2>12, <2>13
<1> QED BY <1>3, <1>4, <1>5 DEF Docs

-----------------------------------------------------------------------------
(* Blocks and the dispatcher *)

\* Records of starts and of data.
LEMMA StartFacts ==
    ASSUME NEW id \in Ids \cup {0}, NEW path \in GoodPaths
    PROVE  LET c == downlink_start(id, path)
           IN  c \in Starts /\ c.op = "start" /\ c.id = id /\ c.path = path
BY DEF downlink_start, Starts

\* The fields of a call with data.
LEMMA DataFacts ==
    ASSUME NEW id \in Ids \cup {0}, NEW path \in GoodPaths, NEW pos \in Nat, NEW doc \in Docs,
           NEW is_last \in BOOLEAN
    PROVE  LET c == downlink_data(id, Piece(path, pos, doc), is_last)
           IN  /\ c \in Datas /\ c.op = "data" /\ c.id = id /\ c.is_last = is_last
               /\ c.data.path = path /\ c.data.pos = pos /\ c.data.doc = doc
<1> DEFINE p == Piece(path, pos, doc)
<1>1. p \in Pieces /\ p.path = path /\ p.pos = pos /\ p.doc = doc
      BY DEF Piece, Pieces
<1> HIDE DEF p
<1>2. LET c == downlink_data(id, p, is_last)
      IN  c \in Datas /\ c.op = "data" /\ c.id = id /\ c.is_last = is_last /\ c.data = p
      BY <1>1 DEF downlink_data, Datas
<1> QED BY <1>1, <1>2 DEF p

\* The data of an entry.
EntryData(path, doc) == downlink_data(0, Piece(path, 0, doc), TRUE)

\* It is the last data, with id 0.
LEMMA EntryDataFacts ==
    ASSUME NEW path \in GoodPaths, NEW doc \in Docs, NEW c, c = EntryData(path, doc)
    PROVE  /\ c \in Datas /\ c.op = "data" /\ c.id = 0 /\ c.is_last
           /\ c.data.path = path /\ c.data.pos = 0 /\ c.data.doc = doc
<1> DEFINE p == Piece(path, 0, doc)
<1>1. p \in Pieces /\ p.path = path /\ p.pos = 0 /\ p.doc = doc
      BY DEF Piece, Pieces
<1>2. c = downlink_data(0, p, TRUE)
      BY DEF EntryData
<1> HIDE DEF p
<1>3. c \in Datas /\ c.op = "data" /\ c.id = 0 /\ c.data = p
      BY <1>1, <1>2 DEF downlink_data, Datas
<1>4. c.is_last
      BY <1>2 DEF downlink_data
<1> QED BY <1>1, <1>3, <1>4

\* Every call is one of the two, and its fields have their types.
LEMMA CallFacts ==
    ASSUME NEW c \in Starts \cup Datas
    PROVE  /\ c.id \in Ids \cup {0} /\ (c.op = "start" \/ c.op = "data")
           /\ c.op = "start" => c \in Starts /\ c.path \in GoodPaths
           /\ c.op = "data" => /\ c \in Datas /\ c.is_last \in BOOLEAN /\ c.data \in Pieces
                               /\ c.data.path \in GoodPaths /\ c.data.pos \in Nat
                               /\ c.data.doc \in Docs
<1>1. CASE c \in Starts
      BY <1>1 DEF Starts
<1>2. CASE c \in Datas
  <2>1. c.id \in Ids \cup {0} /\ c.op = "data" /\ c.data \in Pieces
        BY <1>2 DEF Datas
  <2>2. c.is_last \in BOOLEAN
        BY <1>2 DEF Datas
  <2>3. c.data.path \in GoodPaths /\ c.data.pos \in Nat /\ c.data.doc \in Docs
        BY <2>1 DEF Pieces
  <2> QED BY <1>2, <2>1, <2>2, <2>3
<1> QED BY <1>1, <1>2

\* The calls of a block of entries.
EntryPush(entries) == pouch_downlink_block_push([id |-> 0, entries |-> entries])

\* A start and data for every entry.
EntryShape(cs, entries, n) ==
    /\ \E S : cs \in [1 .. 2 * n -> S]
    /\ \A k \in 1 .. 2 * n : \E i \in 1 .. n : \/ cs[k] = downlink_start(0, entries[i].path)
                                               \/ cs[k] = EntryData(entries[i].path, entries[i].doc)

\* Every call of a block of entries is a start or the data of an entry.
LEMMA EntryBlock ==
    ASSUME NEW entries, NEW n \in Nat, Len(entries) = n, NEW cs,
           cs = EntryPush(entries)
    PROVE  EntryShape(cs, entries, n)
<1> DEFINE f(k) == LET entry == entries[(k + 1) \div 2]
                   IN  IF k % 2 = 1 THEN downlink_start(0, entry.path)
                       ELSE EntryData(entry.path, entry.doc)
<1>1. cs = [k \in 1 .. 2 * n |-> f(k)]
  <2> DEFINE b == [id |-> 0, entries |-> entries]
  <2>1. b.id = 0 /\ b.entries = entries
        OBVIOUS
  <2> HIDE DEF b
  <2>2. pouch_downlink_block_push(b) = pouch_downlink_entries_push(entries)
        BY <2>1 DEF pouch_downlink_block_push, block_decode_hdr
  <2> QED BY <2>2 DEF pouch_downlink_entries_push, b, EntryData, EntryPush
<1>2. ASSUME NEW k \in 1 .. 2 * n
      PROVE  \E i \in 1 .. n :
                 \/ f(k) = downlink_start(0, entries[i].path)
                 \/ f(k) = EntryData(entries[i].path, entries[i].doc)
  <2>1. (k + 1) \div 2 \in 1 .. n
        OBVIOUS
  <2> QED BY <2>1
<1> HIDE DEF f
<1>3. cs \in [1 .. 2 * n -> {f(k) : k \in 1 .. 2 * n}]
      BY <1>1
<1> QED BY <1>1, <1>2, <1>3 DEF EntryShape

\* Two sequences of one element.
LEMMA Append2 ==
    ASSUME NEW x, NEW y
    PROVE  <<x>> \o <<y>> = <<x, y>>
<1>1. <<x>> \in Seq({x, y}) /\ <<y>> \in Seq({x, y}) /\ <<x, y>> \in Seq({x, y})
      OBVIOUS
<1>2. /\ <<x>> \o <<y>> \in Seq({x, y}) /\ Len(<<x>> \o <<y>>) = 2
      /\ (<<x>> \o <<y>>)[1] = x /\ (<<x>> \o <<y>>)[2] = y
      BY <1>1, ConcatProperties
<1>3. Len(<<x, y>>) = 2 /\ <<x, y>>[1] = x /\ <<x, y>>[2] = y
      OBVIOUS
<1> DEFINE S == {x, y}  s == <<x>> \o <<y>>  t == <<x, y>>
<1> HIDE DEF S, s, t
<1>4. s \in Seq(S) /\ t \in Seq(S) /\ Len(s) = 2 /\ Len(t) = 2 /\ s[1] = t[1] /\ s[2] = t[2]
      BY <1>1, <1>2, <1>3 DEF S, s, t
<1>5. \A i \in 1 .. Len(s) : s[i] = t[i]
      BY <1>4
<1>6. s = t
      BY <1>4, <1>5, SeqEqual
<1> QED BY <1>6 DEF s, t

\* The calls of the first block of a stream, and of a later one.
LEMMA FirstBlock ==
    ASSUME NEW id \in Ids, NEW stream, NEW n \in Nat, n > 1, Len(stream.docs) = n
    PROVE  pouch_downlink_block_push(StreamBlock(id, stream, 1)) =
               <<downlink_start(id, stream.path),
                 downlink_data(id, Piece(stream.path, 0, stream.docs[1]), FALSE)>>
<1> DEFINE b == StreamBlock(id, stream, 1)  p == Piece(stream.path, 0, stream.docs[1])
<1>1. b.id = id /\ b.data = p
      BY DEF StreamBlock
<1>2. b.first = TRUE /\ b.last = FALSE
  <2>1. b.first = (1 = 1) /\ b.last = (1 = Len(stream.docs))
        BY Zenon DEF StreamBlock
  <2>2. 1 # Len(stream.docs)
        OBVIOUS
  <2> QED BY <2>1, <2>2, Zenon
<1>3. p.path = stream.path
      BY DEF Piece
<1>4. id # 0
      BY ServicesAssumption
<1> HIDE DEF b, p
<1>5. pouch_downlink_block_push(b) = pouch_downlink_stream_push(b, id, b.first, b.last)
      BY <1>1, <1>4 DEF pouch_downlink_block_push, block_decode_hdr
<1>6. pouch_downlink_block_push(b) = pouch_downlink_stream_push(b, id, TRUE, FALSE)
      BY <1>2, <1>5
<1>7. pouch_downlink_stream_push(b, id, TRUE, FALSE) =
          <<downlink_start(id, stream.path), downlink_data(id, p, FALSE)>>
  <2> DEFINE x == downlink_start(id, stream.path)  y == downlink_data(id, p, FALSE)
  <2>1. pouch_downlink_stream_push(b, id, TRUE, FALSE) = <<x>> \o <<y>>
        BY <1>1, <1>3, Zenon DEF pouch_downlink_stream_push
  <2> HIDE DEF x, y
  <2>2. <<x>> \o <<y>> = <<x, y>>
        BY Append2, Zenon
  <2> QED BY <2>1, <2>2, Zenon DEF x, y
<1> QED BY <1>6, <1>7 DEF b, p

\* A later block has no start.
LEMMA LaterBlock ==
    ASSUME NEW id \in Ids, NEW stream, Len(stream.docs) \in Nat, NEW k \in 2 .. Len(stream.docs)
    PROVE  pouch_downlink_block_push(StreamBlock(id, stream, k)) =
               <<downlink_data(id, Piece(stream.path, k - 1, stream.docs[k]),
                               k = Len(stream.docs))>>
<1> DEFINE b == StreamBlock(id, stream, k)  p == Piece(stream.path, k - 1, stream.docs[k])
           l == (k = Len(stream.docs))
<1>1. b.id = id /\ b.data = p
      BY DEF StreamBlock
<1>2. b.first = FALSE /\ b.last = l
  <2>1. b.first = (k = 1) /\ b.last = l
        BY Zenon DEF StreamBlock
  <2>2. k # 1
        OBVIOUS
  <2> QED BY <2>1, <2>2, Zenon
<1>4. id # 0
      BY ServicesAssumption
<1> HIDE DEF b, p, l
<1>5. pouch_downlink_block_push(b) = pouch_downlink_stream_push(b, id, b.first, b.last)
      BY <1>1, <1>4 DEF pouch_downlink_block_push, block_decode_hdr
<1>6. pouch_downlink_block_push(b) = pouch_downlink_stream_push(b, id, FALSE, l)
      BY <1>2, <1>5
<1>7. pouch_downlink_stream_push(b, id, FALSE, l) = <<downlink_data(id, p, l)>>
      BY <1>1 DEF pouch_downlink_stream_push
<1> QED BY <1>6, <1>7 DEF b, p, l

Services == {"ota_component", "ota_manifest", "settings"}

\* The section of the services, as a sequence and as a set.
LEMMA ServiceFacts ==
    /\ Range(ServiceOrder) = Services /\ NULL \notin Services
    /\ Len(ServiceOrder) = 3 /\ DOMAIN ServiceOrder = 1 .. 3
    /\ ServiceOrder[1] = "ota_component" /\ ServiceOrder[2] = "ota_manifest"
    /\ ServiceOrder[3] = "settings"
<1>1. /\ Len(ServiceOrder) = 3 /\ DOMAIN ServiceOrder = 1 .. 3
      /\ ServiceOrder[1] = "ota_component" /\ ServiceOrder[2] = "ota_manifest"
      /\ ServiceOrder[3] = "settings"
      BY DEF ServiceOrder
<1>2. NULL \notin Services
      BY DEF NULL, Services
<1>3. Range(ServiceOrder) = Services
      BY <1>1 DEF Range, Services
<1> QED BY <1>1, <1>2, <1>3

\* The first service of a set is one of them, the one of components if it is there.
LEMMA FirstServiceFacts ==
    ASSUME NEW S \in SUBSET Services
    PROVE  /\ S # {} => FirstService(S) \in S
           /\ S = {} => FirstService(S) = NULL
           /\ "ota_component" \in S => FirstService(S) = "ota_component"
<1> DEFINE I == {i \in 1 .. Len(ServiceOrder) : ServiceOrder[i] \in S}
           at == IF I # {} THEN Min(I) ELSE 0
<1>1. FirstService(S) = IF at = 0 THEN NULL ELSE ServiceOrder[at]
      BY DEF FirstService, SelectInSeq
<1>2. I \in SUBSET Nat /\ I \in SUBSET (1 .. 3)
      BY ServiceFacts
<1>3. ASSUME S # {}
      PROVE  I # {}
  <2>1. PICK s \in S : s \in Services
        BY <1>3
  <2>2. PICK i \in 1 .. 3 : ServiceOrder[i] = s
        BY <2>1, ServiceFacts DEF Services
  <2>3. i \in I
        BY <2>1, <2>2, ServiceFacts
  <2> QED BY <2>3
<1>4. S = {} => I = {}
      OBVIOUS
<1>5. I # {} => at \in I /\ at # 0 /\ \A i \in I : at <= i
  <2>1. HAVE I # {}
  <2> HIDE DEF I
  <2>2. Min(I) \in I /\ \A i \in I : Min(I) <= i
        BY <1>2, <2>1, MinIn
  <2>3. at = Min(I)
        BY <2>1
  <2> HIDE DEF at
  <2> QED BY <1>2, <2>2, <2>3
<1>6. S # {} => FirstService(S) \in S
      BY <1>1, <1>3, <1>5
<1>7. S = {} => FirstService(S) = NULL
      BY <1>1, <1>4
<1>8. ASSUME "ota_component" \in S
      PROVE  FirstService(S) = "ota_component"
  <2>1. 1 \in I
        BY <1>8, ServiceFacts
  <2> HIDE DEF I, at
  <2>2. at \in 1 .. 3 /\ at <= 1
        BY <1>2, <1>5, <2>1
  <2>3. at = 1
        BY <2>2
  <2> QED BY <1>1, <2>3, ServiceFacts
<1> QED BY <1>6, <1>7, <1>8

\* The service of a path.
LEMMA PathService ==
    ASSUME NEW path
    PROVE  LET s == FirstService(WithPath(path))
           IN  /\ s \in Services \cup {NULL}
               /\ s = "ota_component" <=> path.dir = "component"
<1> DEFINE S == WithPath(path)
<1>1. S \in SUBSET Services
      BY ServiceFacts DEF WithPath
<1>2. "ota_component" \in S <=> path.dir = "component"
      BY ServiceFacts DEF WithPath, Dir, Services
<1> HIDE DEF S
<1>3. /\ FirstService(S) \in Services \cup {NULL}
      /\ FirstService(S) = "ota_component" <=> "ota_component" \in S
  <2>1. "ota_component" \in Services
        BY DEF Services
  <2>2. CASE S = {}
        BY <1>1, <2>1, <2>2, FirstServiceFacts, ServiceFacts
  <2>3. CASE S # {}
    <3>1. FirstService(S) \in S
          BY <1>1, <2>3, FirstServiceFacts
    <3>2. "ota_component" \in S => FirstService(S) = "ota_component"
          BY <1>1, FirstServiceFacts
    <3> QED BY <1>1, <3>1, <3>2
  <2> QED BY <2>2, <2>3
<1> QED BY <1>2, <1>3 DEF S

\* The service of data has its id.
LEMMA IdService ==
    ASSUME NEW id, last_seen \in Services \cup {NULL}
    PROVE  LET s == ActiveService(id)
           IN  /\ s \in Services \cup {NULL}
               /\ s # NULL => downlink_id[s] = id
               /\ s = NULL => \A t \in Services : downlink_id[t] # id
<1> DEFINE S == WithId(id)
<1>1. S = {s \in Services : downlink_id[s] = id}
      BY ServiceFacts DEF WithId
<1>2. S \in SUBSET Services
      BY <1>1
<1>3. /\ S # {} => FirstService(S) \in S
      /\ S = {} => FirstService(S) = NULL
      BY <1>2, FirstServiceFacts
<1> DEFINE f == FirstService(S)
<1> HIDE DEF S
<1>4. ActiveService(id) = IF last_seen # NULL /\ downlink_id[last_seen] = id THEN last_seen ELSE f
      BY DEF ActiveService, S
<1> HIDE DEF f
<1>5. CASE last_seen # NULL /\ downlink_id[last_seen] = id
      BY <1>4, <1>5
<1>6. CASE ~ (last_seen # NULL /\ downlink_id[last_seen] = id)
      BY <1>1, <1>3, <1>4, <1>6, ServiceFacts DEF f
<1> QED BY <1>5, <1>6

\* Data of the stream that only the service of components knows goes there.
LEMMA HeardService ==
    ASSUME NEW id, last_seen \in Services \cup {NULL}, downlink_id["ota_component"] = id,
           \A s \in {"ota_manifest", "settings"} : downlink_id[s] # id
    PROVE  ActiveService(id) = "ota_component"
<1>1. LET s == ActiveService(id)
      IN  /\ s \in Services \cup {NULL}
          /\ s # NULL => downlink_id[s] = id
          /\ s = NULL => \A t \in Services : downlink_id[t] # id
      BY IdService
<1> QED BY <1>1 DEF Services

\* Documents and paths change only with the versions in the cloud.
LEMMA SameDocs ==
    ASSUME UNCHANGED <<want, cloud>>
    PROVE  /\ Docs' = Docs /\ ManifestDocs' = ManifestDocs /\ GoodPaths' = GoodPaths
           /\ Starts' = Starts /\ Datas' = Datas
<1>1. MainComponent' = MainComponent
      BY DEF MainComponent, Component
<1>2. ManifestDocs' = ManifestDocs
      BY <1>1 DEF ManifestDocs, GoodManifests, BadManifests, CutManifest, Manifest, Component
<1>3. SettingDocs' = SettingDocs
      BY DEF SettingDocs, SettingsDocs, SettingsDoc, SettingsItem, NilSettings, CutSettings
<1>4. Docs' = Docs
      BY <1>2, <1>3 DEF Docs
<1>5. GoodPaths' = GoodPaths
      BY DEF GoodPaths
<1>6. Starts' = Starts
      BY <1>5 DEF Starts
<1>7. Datas' = Datas
      BY <1>4, <1>5 DEF Datas, Pieces
<1> QED BY <1>2, <1>4, <1>5, <1>6, <1>7

-----------------------------------------------------------------------------
(* Types *)

\* Some consequences of the assumptions.
LEMMA NumberFacts == /\ ImageLen \in Nat /\ ImageLen > 1
                     /\ MaxVersion \in Nat /\ MaxFaults \in Nat
BY OtaAssumption, ServicesAssumption

\* The ids of streams are neither 0 nor the invalid one.
LEMMA IdFacts == /\ Ids \in SUBSET Nat /\ 0 \notin Ids /\ DOWNLINK_ID_INVALID # 0
                 /\ DOWNLINK_ID_INVALID \notin Ids
<1>1. DOWNLINK_ID_INVALID \notin Nat /\ 0 \in Nat
      BY DEF DOWNLINK_ID_INVALID
<1>2. Ids \subseteq Nat \ {0}
      BY ServicesAssumption
<1> QED BY <1>1, <1>2, Zenon

\* The names of components differ.
LEMMA NameFacts == Main # "" /\ Main # Aux /\ Aux # ""
<1>1. Main \notin {"", Aux}
      BY ServicesAssumption, Zenon
<1>2. Aux # ""
      BY DEF Aux
<1> QED BY <1>1, <1>2, Zenon

\* The paths that the cloud uses.
LEMMA PathFacts ==
    ASSUME want \in 0 .. MaxVersion
    PROVE  /\ \A dir \in {"desired", "settings", "other"} :
                 Path(dir) \in GoodPaths /\ Path(dir).dir = dir /\ Path(dir).name = ""
           /\ \A p \in {ComponentPath(TRUE, Aux, 1), ComponentPath(FALSE, "", 0)} :
                 p \in GoodPaths /\ p.name # Main
           /\ ComponentPath(TRUE, Main, want) \in GoodPaths
           /\ ComponentPath(TRUE, Main, want).name = Main
<1>1. \A dir \in {"desired", "settings", "component"} : dir \in Range(Dir)
      BY DEF Dir, Range
<1>2. ASSUME NEW dir \in {"desired", "settings", "other"}
      PROVE  Path(dir) \in GoodPaths /\ Path(dir).dir = dir /\ Path(dir).name = ""
      BY <1>1, NameFacts DEF Path, GoodPaths, Paths
<1>3. ComponentPath(TRUE, Aux, 1) \in GoodPaths /\ ComponentPath(TRUE, Aux, 1).name = Aux
      BY NameFacts DEF ComponentPath, GoodPaths, Paths
<1>4. ComponentPath(FALSE, "", 0) \in GoodPaths /\ ComponentPath(FALSE, "", 0).name = ""
      BY NameFacts DEF ComponentPath, GoodPaths, Paths
<1>5. /\ ComponentPath(TRUE, Main, want) \in GoodPaths
      /\ ComponentPath(TRUE, Main, want).name = Main
  <2>1. want \in Nat
        BY NumberFacts
  <2> QED BY <1>1, <2>1, NameFacts DEF ComponentPath, GoodPaths, Paths
<1> QED BY <1>2, <1>3, <1>4, <1>5, NameFacts

\* The types hold at first.
LEMMA TypeInit == Init => TypeInv
<1> SUFFICES ASSUME Init
             PROVE  TypeInv
    OBVIOUS
<1> USE DEF Init
<1>1. CallsInv
      BY DEF CallsInv
<1>2. StreamsInv
      BY DEF StreamsInv, NoStreams
<1>3. FlashInv
  <2>1. flash \in [error : BOOLEAN, content : Seq({})]
        BY DEF OtaInit, NoFlash
  <2> QED BY <2>1 DEF FlashInv
<1>4. VersionInv
  <2>1. want = 0 /\ running = 0 /\ registered = Idle(0)
        BY DEF OtaInit
  <2>2. registered \in [target : Int, state : {IDLE, DOWNLOADING}]
        BY <2>1 DEF Idle
  <2>3. want \in 0 .. MaxVersion /\ running \in 0 .. MaxVersion
        BY <2>1, NumberFacts
  <2> QED BY <2>2, <2>3 DEF VersionInv
<1>5. DispatchInv
  <2>1. last_seen \in Range(ServiceOrder) \cup {NULL}
        OBVIOUS
  <2>2. downlink_id \in [Range(ServiceOrder) -> Ids \cup {0, DOWNLINK_ID_INVALID}]
        BY DEF NoIds
  <2>3. component_download \in [id : Ids \cup {0, DOWNLINK_ID_INVALID}, offset : Nat,
                                name : {"", Main, Aux}]
        BY DEF OtaInit, NoDownload
  <2>4. upgrade \in BOOLEAN
        BY DEF OtaInit
  <2>5. faults \in 0 .. MaxFaults
    <3>1. faults = 0
          OBVIOUS
    <3> HIDE DEF Init
    <3> QED BY <3>1, NumberFacts
  <2> QED BY <2>1, <2>2, <2>3, <2>4, <2>5 DEF DispatchInv
<1>6. SettingsInv
  <2>1. cloud \in 0 .. Len(CloudSettings) /\ settings_version \in -1 .. cloud
    <3>1. Len(CloudSettings) \in Nat
          BY CloudAssumption
    <3> QED BY <3>1 DEF SettingsInit
  <2>2. /\ value \in [DOMAIN SettingType -> {Unset} \cup Given]
        /\ \A n \in DOMAIN SettingType : value[n] = Unset
        BY DEF SettingsInit
  <2> QED BY <2>1, <2>2 DEF SettingsInv
<1> QED BY <1>1, <1>2, <1>3, <1>4, <1>5, <1>6 DEF TypeInv

\* A step of the cloud alone.
Quiet == UNCHANGED <<otaVars, settingsVars, dispatchVars, want, cloud, report>>

\* It keeps the types of all but the calls and the streams.
LEMMA QuietType ==
    ASSUME TypeInv, Quiet, CallsInv', StreamsInv', faults' \in 0 .. MaxFaults
    PROVE  TypeInv'
<1> USE DEF Quiet, otaVars, settingsVars, dispatchVars
<1>1. FlashInv'
  <2>1. GoodPaths' = GoodPaths
        BY SameDocs
  <2> QED BY <2>1 DEF TypeInv, FlashInv
<1>2. VersionInv'
      BY DEF TypeInv, VersionInv
<1>3. DispatchInv'
      BY DEF TypeInv, DispatchInv
<1>4. SettingsInv'
      BY DEF TypeInv, SettingsInv
<1> QED BY <1>1, <1>2, <1>3, <1>4 DEF TypeInv

\* The calls of entries are calls, with id 0.
LEMMA EntriesType ==
    ASSUME NEW entries, NEW n \in Nat, Len(entries) = n,
           \A i \in 1 .. n : entries[i].path \in GoodPaths /\ entries[i].doc \in Docs,
           NEW cs, cs = EntryPush(entries)
    PROVE  /\ cs \in Seq(Starts \cup Datas)
           /\ \A k \in 1 .. Len(cs) :
                 /\ cs[k].id = 0
                 /\ cs[k].op = "start" => \E i \in 1 .. n : cs[k].path = entries[i].path
                 /\ cs[k].op = "data" => \E i \in 1 .. n : cs[k].data.doc = entries[i].doc
<1>0. EntryShape(cs, entries, n)
      BY EntryBlock
<1>1. /\ \E S : cs \in [1 .. 2 * n -> S]
      /\ \A k \in 1 .. 2 * n : \E i \in 1 .. n :
            \/ cs[k] = downlink_start(0, entries[i].path)
            \/ cs[k] = EntryData(entries[i].path, entries[i].doc)
      BY <1>0 DEF EntryShape
<1>2. ASSUME NEW k \in 1 .. 2 * n
      PROVE  /\ cs[k] \in Starts \cup Datas /\ cs[k].id = 0
             /\ cs[k].op = "start" => \E i \in 1 .. n : cs[k].path = entries[i].path
             /\ cs[k].op = "data" => \E i \in 1 .. n : cs[k].data.doc = entries[i].doc
  <2>1. PICK i \in 1 .. n :
            \/ cs[k] = downlink_start(0, entries[i].path)
            \/ cs[k] = EntryData(entries[i].path, entries[i].doc)
        BY <1>1
  <2>2. entries[i].path \in GoodPaths /\ entries[i].doc \in Docs
        OBVIOUS
  <2>3. CASE cs[k] = downlink_start(0, entries[i].path)
    <3>1. LET c == downlink_start(0, entries[i].path)
          IN  c \in Starts /\ c.op = "start" /\ c.id = 0 /\ c.path = entries[i].path
          BY <2>2, StartFacts
    <3> QED BY <2>3, <3>1
  <2>4. CASE cs[k] = EntryData(entries[i].path, entries[i].doc)
    <3>1. LET c == cs[k]
          IN  c \in Datas /\ c.op = "data" /\ c.id = 0 /\ c.data.doc = entries[i].doc
          BY <2>2, <2>4, EntryDataFacts
    <3> QED BY <3>1
  <2> QED BY <2>1, <2>3, <2>4
<1>3. PICK m \in Nat : m = 2 * n
      OBVIOUS
<1>4. (\E S : cs \in [1 .. m -> S]) /\ \A k \in 1 .. m : cs[k] \in Starts \cup Datas
      BY <1>1, <1>2, <1>3
<1>5. cs \in Seq(Starts \cup Datas) /\ Len(cs) = m
  <2> DEFINE S == Starts \cup Datas
  <2> HIDE DEF S
  <2>1. cs \in [1 .. m -> S]
        BY <1>4 DEF S
  <2>2. cs \in Seq(S) /\ Len(cs) = m
        BY <2>1, SeqDef
  <2> QED BY <2>2 DEF S
<1> QED BY <1>2, <1>3, <1>5

\* No other document is a manifest.
LEMMA NoManifest ==
    ASSUME NEW doc \in SettingDocs \cup {CborRest}
    PROVE  doc \notin ManifestDocs
<1> DEFINE ver == CborInt(cloud)  item == SettingsItem  nil == [type |-> "nil"]
           cut == CutMap(<<Head(CloudSettings[cloud])>>)
<1>1. \/ doc = CborRest
      \/ doc = CborMap(<<Pair("settings", item), Pair("version", ver)>>)
      \/ doc = CborMap(<<Pair("version", ver), Pair("hint", CborInt(0)), Pair("settings", item)>>)
      \/ doc = CborMap(<<Pair("settings", nil), Pair("version", ver)>>)
      \/ doc = CutMap(<<>> \o <<Pair("settings", cut)>>)
      \/ doc = CutMap(<<Pair("version", ver)>> \o <<Pair("settings", cut)>>)
      BY DEF SettingDocs, SettingsDocs, SettingsDoc, NilSettings, CutSettings
<1> HIDE DEF ver, item, nil, cut
<1>2. doc.type # "map" \/ doc.pairs[1].key \in {"settings", "version"}
      BY <1>1 DEF CborMap, CutMap, CborRest, Pair
<1>3. doc \in ManifestDocs => /\ doc.type = "map" /\ 1 \in DOMAIN doc.pairs
                              /\ \A i \in DOMAIN doc.pairs :
                                    doc.pairs[i].key \notin {"settings", "version"}
      BY ManifestKeys
<1> QED BY <1>2, <1>3

\* What a block of entries is: no component, and no manifest unless one may be sent.
EntryStep ==
    /\ Free /\ Quiet /\ UNCHANGED streams /\ faults' \in 0 .. MaxFaults
    /\ Offer \/ UNCHANGED offered
    /\ calls' \in Seq(Starts \cup Datas)
    /\ \A k \in 1 .. Len(calls') :
          /\ calls'[k].id = 0
          /\ calls'[k].op = "start" => calls'[k].path.dir # "component"
          /\ calls'[k].op = "data" /\ calls'[k].data.doc \in ManifestDocs => Offer

\* Entries for paths that are not components make such a step.
LEMMA EntriesStep ==
    ASSUME NEW entries, NEW n \in Nat, Len(entries) = n, SendEntries(entries),
           faults' \in 0 .. MaxFaults, Offer \/ UNCHANGED offered,
           \A i \in 1 .. n : /\ entries[i].path \in GoodPaths /\ entries[i].doc \in Docs
                             /\ entries[i].path.dir # "component"
                             /\ entries[i].doc \in ManifestDocs => Offer
    PROVE  EntryStep
<1>1. /\ Free /\ Quiet /\ UNCHANGED streams /\ calls' = EntryPush(entries)
      BY DEF SendEntries, EntryPush, Quiet
<1> DEFINE cs == calls'
<1>2. cs = EntryPush(entries)
      BY <1>1
<1> HIDE DEF cs
<1>3. /\ cs \in Seq(Starts \cup Datas)
      /\ \A k \in 1 .. Len(cs) :
            /\ cs[k].id = 0
            /\ cs[k].op = "start" => \E i \in 1 .. n : cs[k].path = entries[i].path
            /\ cs[k].op = "data" => \E i \in 1 .. n : cs[k].data.doc = entries[i].doc
      BY <1>2, EntriesType
<1>4. ASSUME NEW k \in 1 .. Len(cs)
      PROVE  /\ cs[k].id = 0
             /\ cs[k].op = "start" => cs[k].path.dir # "component"
             /\ cs[k].op = "data" /\ cs[k].data.doc \in ManifestDocs => Offer
      BY <1>3
<1> QED BY <1>1, <1>3, <1>4 DEF EntryStep, cs

\* Types that are needed everywhere.
LEMMA TypeFacts ==
    ASSUME TypeInv
    PROVE  want \in Nat /\ want <= MaxVersion /\ faults \in 0 .. MaxFaults
<1>1. want \in Nat /\ want <= MaxVersion
      BY NumberFacts DEF TypeInv, VersionInv
<1>2. faults \in 0 .. MaxFaults
      BY DEF TypeInv, DispatchInv
<1> QED BY <1>1, <1>2

\* The number of faults stays within its bound.
LEMMA FaultFacts ==
    ASSUME faults \in 0 .. MaxFaults, Fault \/ UNCHANGED faults
    PROVE  faults' \in 0 .. MaxFaults
BY NumberFacts DEF Fault

\* All entries that the cloud sends do.
LEMMA SendStep ==
    ASSUME TypeInv, SendManifest \/ SendBadManifest \/ SendSettings \/ SendNilSettings
    PROVE  EntryStep
<1>1. want \in 0 .. MaxVersion /\ faults \in 0 .. MaxFaults
      BY TypeFacts DEF TypeInv, VersionInv
<1>2. /\ Path("desired") \in GoodPaths /\ Path("desired").dir = "desired"
      /\ Path("settings") \in GoodPaths /\ Path("settings").dir = "settings"
      /\ Path("other") \in GoodPaths /\ Path("other").dir = "other"
      BY <1>1, PathFacts
<1>3. faults' \in 0 .. MaxFaults
      BY <1>1, FaultFacts DEF SendManifest, SendBadManifest, SendSettings, SendNilSettings
<1>4. ASSUME NEW d \in ManifestDocs, Offer, SendEntries(<<Entry(Path("desired"), d)>>)
      PROVE  EntryStep
  <2> DEFINE e == Entry(Path("desired"), d)  es == <<e>>
  <2>1. e.path = Path("desired") /\ e.doc = d
        BY DEF Entry
  <2>2. d \in Docs
        BY DEF Docs
  <2> HIDE DEF e
  <2>3. Len(es) = 1 /\ es[1] = e
        OBVIOUS
  <2>4. SendEntries(es)
        BY <1>4 DEF e
  <2> HIDE DEF es
  <2>5. PICK n \in Nat : n = 1
        OBVIOUS
  <2>6. \A i \in 1 .. n : /\ es[i].path \in GoodPaths /\ es[i].doc \in Docs
                          /\ es[i].path.dir # "component"
                          /\ es[i].doc \in ManifestDocs => Offer
        BY <1>2, <1>4, <2>1, <2>2, <2>3, <2>5
  <2>7. Len(es) = n
        BY <2>3, <2>5
  <2> QED BY <1>3, <1>4, <2>4, <2>6, <2>7, EntriesStep
<1>5. CASE SendManifest
      BY <1>4, <1>5 DEF SendManifest, ManifestDocs
<1>6. CASE SendBadManifest
      BY <1>4, <1>6 DEF SendBadManifest, ManifestDocs
<1>7. CASE SendSettings
  <2>1. PICK d \in SettingsDocs :
            SendEntries(<<Entry(Path("other"), CborRest), Entry(Path("settings"), d)>>)
        BY <1>7 DEF SendSettings
  <2>2. cloud # 0
        BY <1>7 DEF SendSettings, SettingsMaySend
  <2> DEFINE a == Entry(Path("other"), CborRest)  b == Entry(Path("settings"), d)  es == <<a, b>>
  <2>3. a.path = Path("other") /\ a.doc = CborRest /\ b.path = Path("settings") /\ b.doc = d
        BY DEF Entry
  <2>4. d \in SettingDocs /\ d \in Docs /\ CborRest \in Docs
        BY <2>2 DEF Docs, SettingDocs
  <2>5. d \notin ManifestDocs /\ CborRest \notin ManifestDocs
        BY <2>4, NoManifest
  <2> HIDE DEF a, b
  <2>6. Len(es) = 2 /\ es[1] = a /\ es[2] = b
        OBVIOUS
  <2>7. SendEntries(es)
        BY <2>1 DEF a, b
  <2> HIDE DEF es
  <2>8. PICK n \in Nat : n = 2
        OBVIOUS
  <2>9. \A i \in 1 .. n : /\ es[i].path \in GoodPaths /\ es[i].doc \in Docs
                          /\ es[i].path.dir # "component"
                          /\ es[i].doc \in ManifestDocs => Offer
        BY <1>2, <2>3, <2>4, <2>5, <2>6, <2>8
  <2>10. Len(es) = n
        BY <2>6, <2>8
  <2>11. UNCHANGED offered
        BY <1>7 DEF SendSettings
  <2> QED BY <1>3, <2>7, <2>9, <2>10, <2>11, EntriesStep
<1>8. CASE SendNilSettings
  <2> DEFINE e == Entry(Path("settings"), NilSettings)  es == <<e>>
  <2>1. e.path = Path("settings") /\ e.doc = NilSettings
        BY DEF Entry
  <2>2. NilSettings \in SettingDocs
        BY <1>8 DEF SendNilSettings, SettingsMaySend, SettingDocs
  <2>3. NilSettings \in Docs /\ NilSettings \notin ManifestDocs
        BY <2>2, NoManifest DEF Docs
  <2> HIDE DEF e
  <2>4. Len(es) = 1 /\ es[1] = e
        OBVIOUS
  <2>5. SendEntries(es)
        BY <1>8 DEF e, SendNilSettings
  <2> HIDE DEF es
  <2>6. PICK n \in Nat : n = 1
        OBVIOUS
  <2>7. \A i \in 1 .. n : /\ es[i].path \in GoodPaths /\ es[i].doc \in Docs
                          /\ es[i].path.dir # "component"
                          /\ es[i].doc \in ManifestDocs => Offer
        BY <1>2, <2>1, <2>3, <2>4, <2>6
  <2>8. Len(es) = n
        BY <2>4, <2>6
  <2>9. UNCHANGED offered
        BY <1>8 DEF SendNilSettings
  <2> QED BY <1>3, <2>5, <2>7, <2>8, <2>9, EntriesStep
<1> QED BY <1>5, <1>6, <1>7, <1>8

\* What the first block of a stream is.
OpenStep(id, path, docs) ==
    /\ Free /\ Quiet /\ faults' \in 0 .. MaxFaults /\ (Offer \/ UNCHANGED offered)
    /\ id \in FreshIds /\ path \in GoodPaths
    /\ Len(docs) \in 2 .. ImageLen /\ (path.name = Main => Len(docs) = ImageLen)
    /\ docs[1] \in Docs /\ \A k \in 2 .. Len(docs) : docs[k] = CborRest
    /\ docs[1] \in ManifestDocs => Offer /\ path.dir # "component"
    /\ calls' = <<downlink_start(id, path), downlink_data(id, Piece(path, 0, docs[1]), FALSE)>>
    /\ streams' = [i \in DOMAIN streams \cup {id} |->
                      IF i = id THEN [path |-> path, docs |-> docs, sent |-> 1] ELSE streams[i]]

\* Open does that for paths and documents of the cloud.
LEMMA OpenFacts ==
    ASSUME NEW path \in GoodPaths, NEW docs, NEW n \in 2 .. ImageLen, Len(docs) = n,
           path.name = Main => n = ImageLen,
           docs[1] \in Docs, \A k \in 2 .. n : docs[k] = CborRest,
           docs[1] \in ManifestDocs => Offer /\ path.dir # "component",
           Open(path, docs), faults' \in 0 .. MaxFaults, Offer \/ UNCHANGED offered
    PROVE  \E id : OpenStep(id, path, docs)
<1> DEFINE id == Min(FreshIds)
           stream == [path |-> path, docs |-> docs, sent |-> 1]
<1>1. id \in FreshIds /\ id \in Ids
  <2>1. FreshIds \in SUBSET Ids /\ FreshIds \in SUBSET Nat /\ FreshIds # {}
        BY IdFacts DEF FreshIds, Open
  <2> QED BY <2>1, MinIn
<1>2. /\ Free /\ Quiet
      /\ calls' = pouch_downlink_block_push(StreamBlock(id, stream, 1))
      /\ streams' = [i \in DOMAIN streams \cup {id} |-> IF i = id THEN stream ELSE streams[i]]
      BY DEF Open, Quiet
<1>3. stream.path = path /\ stream.docs = docs
      OBVIOUS
<1>4. n \in Nat /\ n > 1
      BY NumberFacts
<1> HIDE DEF id, stream
<1>5. calls' = <<downlink_start(id, path), downlink_data(id, Piece(path, 0, docs[1]), FALSE)>>
  <2>1. pouch_downlink_block_push(StreamBlock(id, stream, 1)) =
            <<downlink_start(id, stream.path),
              downlink_data(id, Piece(stream.path, 0, stream.docs[1]), FALSE)>>
        BY <1>1, <1>3, <1>4, FirstBlock
  <2> QED BY <1>2, <1>3, <2>1
<1>6. OpenStep(id, path, docs)
      BY <1>1, <1>2, <1>5 DEF OpenStep, stream
<1> QED BY <1>6

\* All streams that the cloud begins are such.
LEMMA OpenActions ==
    ASSUME TypeInv, OpenMain \/ OpenManifest \/ OpenSettings \/ OpenOther
    PROVE  \E id, path, docs : OpenStep(id, path, docs)
<1>1. want \in 0 .. MaxVersion /\ faults \in 0 .. MaxFaults
      BY TypeFacts DEF TypeInv, VersionInv
<1>2. faults' \in 0 .. MaxFaults
      BY <1>1, FaultFacts DEF OpenMain, OpenManifest, OpenSettings, OpenOther
<1>3. CborRest \in Docs /\ CborRest \notin ManifestDocs /\ (Offer \/ UNCHANGED offered)
  <2>1. Offer \/ UNCHANGED offered
        BY DEF OpenMain, OpenManifest, OpenSettings, OpenOther
  <2> QED BY <2>1, NoManifest DEF Docs
<1>4. ASSUME NEW path \in GoodPaths, path.name # Main, NEW doc \in Docs,
             doc \in ManifestDocs => Offer /\ path.dir # "component",
             Open(path, <<doc, CborRest>>)
      PROVE  \E id : OpenStep(id, path, <<doc, CborRest>>)
  <2> DEFINE docs == <<doc, CborRest>>
  <2>1. Len(docs) = 2 /\ docs[1] = doc /\ docs[2] = CborRest
        OBVIOUS
  <2>2. Open(path, docs)
        BY <1>4
  <2> HIDE DEF docs
  <2>3. PICK n \in 2 .. ImageLen : n = 2
        BY NumberFacts
  <2>4. Len(docs) = n /\ \A k \in 2 .. n : docs[k] = CborRest
        BY <2>1, <2>3
  <2>5. \E id : OpenStep(id, path, docs)
        BY <1>2, <1>3, <1>4, <2>1, <2>2, <2>4, OpenFacts
  <2> QED BY <2>5 DEF docs
<1>5. CASE OpenMain
  <2> DEFINE path == ComponentPath(TRUE, Main, want)  docs == [k \in 1 .. ImageLen |-> CborRest]
  <2>1. Open(path, docs)
        BY <1>5 DEF OpenMain
  <2>2. path \in GoodPaths /\ path.name = Main
        BY <1>1, PathFacts
  <2>3. PICK n \in 2 .. ImageLen : n = ImageLen
        BY NumberFacts
  <2>4. Len(docs) = n /\ docs[1] = CborRest /\ \A k \in 2 .. n : docs[k] = CborRest
        BY <2>3
  <2> HIDE DEF path, docs
  <2> QED BY <1>2, <1>3, <2>1, <2>2, <2>3, <2>4, OpenFacts
<1>6. CASE OpenManifest
  <2>1. CutManifest \in Docs /\ Offer /\ Open(Path("desired"), <<CutManifest, CborRest>>)
        BY <1>6 DEF OpenManifest, Docs, ManifestDocs
  <2>2. /\ Path("desired") \in GoodPaths /\ Path("desired").dir = "desired"
        /\ Path("desired").name # Main
        BY <1>1, PathFacts, NameFacts
  <2> QED BY <1>4, <2>1, <2>2
<1>7. CASE OpenSettings
  <2>1. CutSettings \in SettingDocs /\ Open(Path("settings"), <<CutSettings, CborRest>>)
        BY <1>7 DEF OpenSettings, SettingsMaySend, SettingDocs
  <2>2. CutSettings \in Docs /\ CutSettings \notin ManifestDocs
        BY <2>1, NoManifest DEF Docs
  <2>3. Path("settings") \in GoodPaths /\ Path("settings").name # Main
        BY <1>1, PathFacts, NameFacts
  <2> QED BY <1>4, <2>1, <2>2, <2>3
<1>8. CASE OpenOther
  <2>1. PICK p \in {ComponentPath(TRUE, Aux, 1), ComponentPath(FALSE, "", 0), Path("other")} :
            Open(p, <<CborRest, CborRest>>)
        BY <1>8 DEF OpenOther
  <2>2. p \in GoodPaths /\ p.name # Main
        BY <1>1, PathFacts, NameFacts
  <2> QED BY <1>3, <1>4, <2>1, <2>2
<1> QED BY <1>5, <1>6, <1>7, <1>8

\* What a later block of a stream is.
Later(s) == [path |-> s.path, docs |-> s.docs, sent |-> s.sent + 1]
IsLast(s) == s.sent + 1 = Len(s.docs)
LaterCall(id, s) == downlink_data(id, Piece(s.path, s.sent, CborRest), IsLast(s))

BlockStep(id) ==
    /\ Free /\ Quiet /\ UNCHANGED <<offered, faults>> /\ id \in DOMAIN streams
    /\ calls' = <<LaterCall(id, streams[id])>>
    /\ streams' = IF IsLast(streams[id]) THEN [i \in DOMAIN streams \ {id} |-> streams[i]]
                  ELSE [streams EXCEPT ![id] = Later(streams[id])]

\* The fields of its call.
LEMMA LaterCallFacts ==
    ASSUME NEW id \in Ids, NEW s, s.path \in GoodPaths, s.sent \in Nat,
           NEW c, c = LaterCall(id, s)
    PROVE  /\ c \in Datas /\ c.op = "data" /\ c.id = id /\ (c.is_last <=> IsLast(s))
           /\ c.data.path = s.path /\ c.data.pos = s.sent /\ c.data.doc = CborRest
<1> DEFINE p == Piece(s.path, s.sent, CborRest)  l == IsLast(s)
<1>0. CborRest \in Docs
      BY DEF Docs
<1>1. p \in Pieces /\ p.path = s.path /\ p.pos = s.sent /\ p.doc = CborRest
      BY <1>0 DEF Piece, Pieces
<1>2. c = downlink_data(id, p, l)
      BY DEF LaterCall
<1>3. l \in BOOLEAN
      BY DEF IsLast
<1> HIDE DEF p, l
<1>4. c.op = "data" /\ c.id = id /\ c.data = p
      BY <1>2 DEF downlink_data
<1>5. c.is_last <=> l
  <2>1. CASE l = TRUE
    <3>1. c = downlink_data(id, p, TRUE)
          BY <1>2, <2>1, Zenon
    <3> QED BY <2>1, <3>1 DEF downlink_data
  <2>2. CASE l = FALSE
    <3>1. c = downlink_data(id, p, FALSE)
          BY <1>2, <2>2, Zenon
    <3> QED BY <2>2, <3>1 DEF downlink_data
  <2> QED BY <1>3, <2>1, <2>2, Zenon
<1>6. c \in Datas
      BY <1>1, <1>2, <1>3 DEF downlink_data, Datas
<1> QED BY <1>1, <1>4, <1>5, <1>6 DEF l

\* Every block of a stream but the first is such a block.
LEMMA NextBlockStep ==
    ASSUME TypeInv, NEW id \in Ids, NextBlock(id)
    PROVE  BlockStep(id)
<1> DEFINE s == streams[id]
           stream == [s EXCEPT !.sent = @ + 1]
<1>1. /\ Free /\ id \in DOMAIN streams /\ Quiet /\ UNCHANGED <<offered, faults>>
      /\ calls' = pouch_downlink_block_push(StreamBlock(id, stream, stream.sent))
      /\ streams' = IF stream.sent = Len(stream.docs)
                    THEN [i \in DOMAIN streams \ {id} |-> streams[i]]
                    ELSE [streams EXCEPT ![id] = stream]
      BY DEF NextBlock, Quiet
<1>2. /\ s = [path |-> s.path, docs |-> s.docs, sent |-> s.sent] /\ s.path \in GoodPaths
      /\ Len(s.docs) \in 2 .. ImageLen /\ s.sent \in 1 .. Len(s.docs) - 1
      /\ \A k \in 2 .. Len(s.docs) : s.docs[k] = CborRest
      BY <1>1 DEF TypeInv, StreamsInv
<1> DEFINE n == Len(s.docs)  k == s.sent + 1
<1>3. n \in Nat /\ k \in 2 .. n /\ s.docs[k] = CborRest /\ k - 1 = s.sent
      BY <1>2, NumberFacts
<1>4. stream = Later(s) /\ stream.path = s.path /\ stream.docs = s.docs /\ stream.sent = k
      BY <1>2 DEF Later
<1> HIDE DEF s, stream, n, k
<1>5. pouch_downlink_block_push(StreamBlock(id, stream, k)) =
          <<downlink_data(id, Piece(stream.path, k - 1, stream.docs[k]), k = Len(stream.docs))>>
      BY <1>3, <1>4, LaterBlock DEF n
<1>6. (k = Len(stream.docs)) = IsLast(s)
      BY <1>4 DEF IsLast, k
<1>7. calls' = <<LaterCall(id, s)>>
  <2>1. calls' = <<downlink_data(id, Piece(s.path, s.sent, CborRest), k = Len(stream.docs))>>
        BY <1>1, <1>3, <1>4, <1>5
  <2> QED BY <1>6, <2>1, Zenon DEF LaterCall
<1>8. streams' = IF IsLast(s) THEN [i \in DOMAIN streams \ {id} |-> streams[i]]
                 ELSE [streams EXCEPT ![id] = Later(s)]
      BY <1>1, <1>4, <1>6
<1> QED BY <1>1, <1>7, <1>8 DEF BlockStep, s

\* The data of the first block of a stream.
FirstCall(id, path, doc) == downlink_data(id, Piece(path, 0, doc), FALSE)

\* Its fields.
LEMMA FirstCallFacts ==
    ASSUME NEW id \in Ids, NEW path \in GoodPaths, NEW doc \in Docs,
           NEW c, c = FirstCall(id, path, doc)
    PROVE  /\ c \in Datas /\ c.op = "data" /\ c.id = id /\ ~c.is_last
           /\ c.data.path = path /\ c.data.pos = 0 /\ c.data.doc = doc
<1> DEFINE p == Piece(path, 0, doc)
<1>1. p \in Pieces /\ p.path = path /\ p.pos = 0 /\ p.doc = doc
      BY DEF Piece, Pieces
<1>2. c = downlink_data(id, p, FALSE)
      BY DEF FirstCall
<1> HIDE DEF p
<1>3. c \in Datas /\ c.op = "data" /\ c.id = id /\ c.data = p
      BY <1>2, <1>1 DEF downlink_data, Datas
<1>4. ~c.is_last
      BY <1>2 DEF downlink_data
<1> QED BY <1>1, <1>3, <1>4

\* The two calls of the first block.
LEMMA OpenCalls ==
    ASSUME NEW id, NEW path, NEW docs, OpenStep(id, path, docs)
    PROVE  LET a == calls'[1]
               b == calls'[2]
           IN  /\ id \in Ids /\ calls' \in Seq(Starts \cup Datas) /\ Len(calls') = 2
               /\ a.op = "start" /\ a.id = id /\ a.path = path
               /\ b.op = "data" /\ b.id = id /\ ~b.is_last
               /\ b.data.path = path /\ b.data.pos = 0 /\ b.data.doc = docs[1]
<1> DEFINE x == downlink_start(id, path)  y == FirstCall(id, path, docs[1])
<1>1. id \in Ids /\ path \in GoodPaths /\ docs[1] \in Docs
      BY DEF OpenStep, FreshIds
<1>2. x \in Starts /\ x.op = "start" /\ x.id = id /\ x.path = path
      BY <1>1, StartFacts
<1>3. /\ y \in Datas /\ y.op = "data" /\ y.id = id /\ ~y.is_last
      /\ y.data.path = path /\ y.data.pos = 0 /\ y.data.doc = docs[1]
  <2> DEFINE c == y
  <2>1. c = FirstCall(id, path, docs[1])
        OBVIOUS
  <2> HIDE DEF c
  <2>2. /\ c \in Datas /\ c.op = "data" /\ c.id = id /\ ~c.is_last
        /\ c.data.path = path /\ c.data.pos = 0 /\ c.data.doc = docs[1]
        BY <1>1, <2>1, FirstCallFacts
  <2> QED BY <2>2 DEF c
<1>4. calls' = <<x, y>>
      BY Zenon DEF OpenStep, FirstCall
<1> DEFINE S == Starts \cup Datas
<1>5. x \in S /\ y \in S
      BY <1>2, <1>3
<1> HIDE DEF x, y, S
<1>6. calls' \in Seq(S) /\ Len(calls') = 2 /\ calls'[1] = x /\ calls'[2] = y
      BY <1>4, <1>5
<1> QED BY <1>1, <1>2, <1>3, <1>6 DEF S

\* The one call of a later block.
LEMMA BlockCalls ==
    ASSUME TypeInv, NEW id \in Ids, BlockStep(id)
    PROVE  LET a == calls'[1]
               s == streams[id]
           IN  /\ calls' \in Seq(Starts \cup Datas) /\ Len(calls') = 1
               /\ a.op = "data" /\ a.id = id /\ (a.is_last <=> IsLast(s))
               /\ a.data.path = s.path /\ a.data.pos = s.sent /\ a.data.doc = CborRest
<1> DEFINE s == streams[id]  x == LaterCall(id, s)
<1>1. s.path \in GoodPaths /\ s.sent \in Nat
  <2>1. s.path \in GoodPaths /\ Len(s.docs) \in 2 .. ImageLen /\ s.sent \in 1 .. Len(s.docs) - 1
        BY DEF BlockStep, TypeInv, StreamsInv
  <2> QED BY <2>1, NumberFacts
<1>2. calls' = <<x>>
      BY DEF BlockStep
<1> HIDE DEF s
<1>3. x = LaterCall(id, s)
      OBVIOUS
<1> HIDE DEF x
<1>4. /\ x \in Datas /\ x.op = "data" /\ x.id = id /\ (x.is_last <=> IsLast(s))
      /\ x.data.path = s.path /\ x.data.pos = s.sent /\ x.data.doc = CborRest
      BY <1>1, <1>3, LaterCallFacts
<1> DEFINE S == Starts \cup Datas
<1>5. x \in S
      BY <1>4
<1> HIDE DEF S
<1>6. calls' \in Seq(S) /\ Len(calls') = 1 /\ calls'[1] = x
      BY <1>2, <1>5
<1> QED BY <1>4, <1>6 DEF S, s

\* What the invariant says of one stream.
GoodStream(s) == /\ s.path \in GoodPaths /\ s = [path |-> s.path, docs |-> s.docs, sent |-> s.sent]
                 /\ Len(s.docs) \in 2 .. ImageLen /\ s.sent \in 1 .. Len(s.docs) - 1
                 /\ s.path.name = Main => Len(s.docs) = ImageLen
                 /\ \A k \in 2 .. Len(s.docs) : s.docs[k] = CborRest

\* The cloud's steps keep the types.
LEMMA EntryType ==
    ASSUME TypeInv, EntryStep
    PROVE  TypeInv'
<1>1. Quiet /\ UNCHANGED <<streams, want, cloud>> /\ faults' \in 0 .. MaxFaults
      BY DEF EntryStep, Quiet
<1>2. GoodPaths' = GoodPaths /\ Starts' = Starts /\ Datas' = Datas
      BY <1>1, SameDocs
<1>3. CallsInv'
      BY <1>2 DEF EntryStep, CallsInv
<1>4. StreamsInv'
      BY <1>1, <1>2 DEF TypeInv, StreamsInv
<1> QED BY <1>1, <1>3, <1>4, QuietType

\* So does the first block of a stream.
LEMMA OpenType ==
    ASSUME TypeInv, NEW id, NEW path, NEW docs, OpenStep(id, path, docs)
    PROVE  TypeInv'
<1>1. Quiet /\ UNCHANGED <<want, cloud>> /\ faults' \in 0 .. MaxFaults
      BY DEF OpenStep, Quiet
<1>2. GoodPaths' = GoodPaths /\ Starts' = Starts /\ Datas' = Datas
      BY <1>1, SameDocs
<1>3. CallsInv' /\ id \in Ids
      BY <1>2, OpenCalls DEF CallsInv
<1>4. StreamsInv'
  <2> DEFINE new == [path |-> path, docs |-> docs, sent |-> 1]
  <2>1. new.path = path /\ new.docs = docs /\ new.sent = 1
        OBVIOUS
  <2>2. GoodStream(new)
    <3>1. Len(docs) \in 2 .. ImageLen
          BY DEF OpenStep
    <3>2. 1 \in 1 .. Len(docs) - 1
          BY <3>1, NumberFacts
    <3> QED BY <2>1, <3>1, <3>2 DEF OpenStep, GoodStream
  <2>3. streams' = [i \in DOMAIN streams \cup {id} |-> IF i = id THEN new ELSE streams[i]]
        BY DEF OpenStep
  <2> HIDE DEF new
  <2>4. \A i \in DOMAIN streams : i \in Ids /\ GoodStream(streams[i])
        BY DEF TypeInv, StreamsInv, GoodStream
  <2>5. \A i \in DOMAIN streams' : i \in Ids /\ GoodStream(streams'[i])
        BY <1>3, <2>2, <2>3, <2>4
  <2> QED BY <1>2, <2>5 DEF StreamsInv, GoodStream
<1> QED BY <1>1, <1>3, <1>4, QuietType

\* So does a later one.
LEMMA BlockType ==
    ASSUME TypeInv, NEW id \in Ids, BlockStep(id)
    PROVE  TypeInv'
<1>1. Quiet /\ UNCHANGED <<want, cloud, faults>> /\ faults' \in 0 .. MaxFaults
      BY TypeFacts DEF BlockStep, Quiet
<1>2. GoodPaths' = GoodPaths /\ Starts' = Starts /\ Datas' = Datas
      BY <1>1, SameDocs
<1>3. CallsInv'
      BY <1>2, BlockCalls DEF CallsInv
<1>4. StreamsInv'
  <2> DEFINE s == streams[id]
  <2>1. \A i \in DOMAIN streams : i \in Ids /\ GoodStream(streams[i])
        BY DEF TypeInv, StreamsInv, GoodStream
  <2>2. GoodStream(s)
        BY <2>1 DEF BlockStep
  <2>3. ASSUME ~IsLast(s)
        PROVE  GoodStream(Later(s))
    <3> DEFINE t == Later(s)
    <3>1. t.path = s.path /\ t.docs = s.docs /\ t.sent = s.sent + 1
          BY DEF Later
    <3>2. t = [path |-> t.path, docs |-> t.docs, sent |-> t.sent]
          BY DEF Later
    <3> HIDE DEF t
    <3>3. s.sent + 1 \in 1 .. Len(s.docs) - 1
      <4>1. Len(s.docs) \in 2 .. ImageLen /\ s.sent \in 1 .. Len(s.docs) - 1
            BY <2>2 DEF GoodStream
      <4>2. s.sent + 1 # Len(s.docs)
            BY <2>3 DEF IsLast
      <4> QED BY <4>1, <4>2, NumberFacts
    <3>4. GoodStream(t)
          BY <2>2, <3>1, <3>2, <3>3 DEF GoodStream
    <3> QED BY <3>4 DEF t
  <2>4. streams' = IF IsLast(s) THEN [i \in DOMAIN streams \ {id} |-> streams[i]]
                   ELSE [streams EXCEPT ![id] = Later(s)]
        BY DEF BlockStep
  <2> HIDE DEF s
  <2>5. \A i \in DOMAIN streams' : i \in Ids /\ GoodStream(streams'[i])
    <3>1. CASE IsLast(s)
          BY <2>1, <2>4, <3>1
    <3>2. CASE ~IsLast(s)
          BY <2>1, <2>3, <2>4, <3>2
    <3> QED BY <3>1, <3>2
  <2> QED BY <1>2, <2>5 DEF StreamsInv, GoodStream
<1> QED BY <1>1, <1>3, <1>4, QuietType

\* The call at hand and the ones behind it.
LEMMA CallHead ==
    ASSUME CallsInv, calls # <<>>
    PROVE  /\ Head(calls) = calls[1] /\ calls[1] \in Starts \cup Datas
           /\ Len(calls) \in Nat /\ Len(calls) > 0
           /\ Tail(calls) \in Seq(Starts \cup Datas) /\ Len(Tail(calls)) = Len(calls) - 1
           /\ \A k \in 1 .. Len(calls) - 1 : Tail(calls)[k] = calls[k + 1]
<1> DEFINE S == Starts \cup Datas
<1>1. calls \in Seq(S)
      BY DEF CallsInv
<1> HIDE DEF S
<1>2. /\ Head(calls) = calls[1] /\ calls[1] \in S
      /\ Len(calls) \in Nat /\ Len(calls) > 0
      /\ Tail(calls) \in Seq(S) /\ Len(Tail(calls)) = Len(calls) - 1
      /\ \A k \in 1 .. Len(calls) - 1 : Tail(calls)[k] = calls[k + 1]
      BY <1>1
<1> QED BY <1>2 DEF S

\* What is left of the calls has their type.
LEMMA TailCalls ==
    ASSUME CallsInv, calls # <<>>, calls' = Tail(calls), UNCHANGED <<want, cloud>>
    PROVE  CallsInv'
<1>1. Tail(calls) \in Seq(Starts \cup Datas)
      BY CallHead
<1>2. Starts' = Starts /\ Datas' = Datas
      BY SameDocs
<1> QED BY <1>1, <1>2 DEF CallsInv

\* Streams and flash depend on the versions only.
LEMMA SameStreams ==
    ASSUME StreamsInv, UNCHANGED <<want, cloud, streams>>
    PROVE  StreamsInv'
<1>1. GoodPaths' = GoodPaths
      BY SameDocs
<1> QED BY <1>1 DEF StreamsInv

\* So it is with the flash.
LEMMA SameFlash ==
    ASSUME FlashInv, UNCHANGED <<want, cloud, flash>>
    PROVE  FlashInv'
<1>1. GoodPaths' = GoodPaths
      BY SameDocs
<1> QED BY <1>1 DEF FlashInv

\* A path keeps the types of what a start assigns.
LEMMA StartType ==
    ASSUME TypeInv, CallStart
    PROVE  TypeInv'
<1> DEFINE c == calls[1]  s == FirstService(WithPath(c.path))
<1>1. /\ calls # <<>> /\ calls' = Tail(calls) /\ Head(calls) = c /\ c.op = "start"
      /\ UNCHANGED <<registered, running, flash, upgrade, settings_version, value,
                     want, cloud, streams, report, faults>>
      BY CallHead DEF CallStart, TypeInv, settingsVars, cloudVars
<1>2. /\ IF s = NULL THEN UNCHANGED <<last_seen, downlink_id>>
         ELSE last_seen' = s /\ downlink_id' = [downlink_id EXCEPT ![s] = c.id]
      /\ IF s = "ota_component" THEN ota_receive_component_start(c.id, c.path)
         ELSE UNCHANGED component_download
      BY <1>1 DEF CallStart, pouch_downlink_start, dispatchVars
<1>3. c.id \in Ids \cup {0} /\ c.path \in GoodPaths
      BY <1>1, CallHead, CallFacts DEF TypeInv
<1>4. s \in Services \cup {NULL}
      BY PathService
<1> HIDE DEF c, s
<1>5. DispatchInv'
  <2>1. last_seen' \in Range(ServiceOrder) \cup {NULL}
        BY <1>2, <1>4, ServiceFacts DEF TypeInv, DispatchInv
  <2>2. downlink_id' \in [Range(ServiceOrder) -> Ids \cup {0, DOWNLINK_ID_INVALID}]
        BY <1>2, <1>3 DEF TypeInv, DispatchInv
  <2>3. component_download' \in [id : Ids \cup {0, DOWNLINK_ID_INVALID}, offset : Nat,
                                 name : {"", Main, Aux}]
    <3>1. c.path.name \in {"", Main, Aux}
          BY <1>3 DEF GoodPaths, Paths
    <3>2. component_download \in [id : Ids \cup {0, DOWNLINK_ID_INVALID}, offset : Nat,
                                  name : {"", Main, Aux}]
          BY DEF TypeInv, DispatchInv
    <3> DEFINE D == Ids \cup {0, DOWNLINK_ID_INVALID}  N == {"", Main, Aux}
    <3>3. c.id \in D /\ DOWNLINK_ID_INVALID \in D /\ 0 \in Nat /\ c.path.name \in N
          BY <1>3, <3>1
    <3>4. component_download \in [id : D, offset : Nat, name : N]
          BY <3>2
    <3> HIDE DEF D, N
    <3>5. \/ component_download' = [id |-> c.id, offset |-> 0, name |-> c.path.name]
          \/ component_download' = [component_download EXCEPT !.id = DOWNLINK_ID_INVALID]
          \/ component_download' = component_download
          BY <1>2 DEF ota_receive_component_start
    <3>6. component_download' \in [id : D, offset : Nat, name : N]
          BY <3>3, <3>4, <3>5
    <3> QED BY <3>6 DEF D, N
  <2>4. (upgrade \in BOOLEAN)' /\ (faults \in 0 .. MaxFaults)'
        BY <1>1 DEF TypeInv, DispatchInv
  <2> QED BY <2>1, <2>2, <2>3, <2>4 DEF DispatchInv
<1>6. CallsInv' /\ StreamsInv' /\ FlashInv'
      BY <1>1, TailCalls, SameStreams, SameFlash DEF TypeInv
<1>7. VersionInv'
      BY <1>1 DEF TypeInv, VersionInv
<1>8. SettingsInv'
      BY <1>1 DEF TypeInv, SettingsInv
<1> QED BY <1>5, <1>6, <1>7, <1>8 DEF TypeInv

\* What the callback of the component does to the flash.
LEMMA ReceiveFlash ==
    ASSUME FlashInv, UNCHANGED <<want, cloud>>, NEW data, data.path \in GoodPaths, NEW offset,
           NEW is_last, NEW fail, ota_main_receive(data, offset, is_last, fail)
    PROVE  FlashInv'
<1>1. PICK W : flash \in [error : BOOLEAN, content : Seq(W)] /\ \A w \in W : w.data.path \in GoodPaths
      BY DEF FlashInv
<1> DEFINE w == [data |-> data, offset |-> offset]  V == W \cup {w}
           opened == IF offset = 0 THEN NoFlash ELSE flash
           written == [opened EXCEPT !.content = Append(@, w)]
<1>2. w.data.path \in GoodPaths
      OBVIOUS
<1>3. /\ \/ flash' = written \/ flash' = [opened EXCEPT !.error = TRUE]
         \/ flash' = [flash EXCEPT !.error = TRUE]
      BY DEF ota_main_receive
<1> HIDE DEF w
<1>4. \A u \in V : u.data.path \in GoodPaths
      BY <1>1, <1>2
<1>5. flash \in [error : BOOLEAN, content : Seq(V)]
      BY <1>1
<1>6. opened \in [error : BOOLEAN, content : Seq(V)]
      BY <1>5 DEF NoFlash
<1>7. w \in V
      OBVIOUS
<1> HIDE DEF V, opened
<1>8. /\ written \in [error : BOOLEAN, content : Seq(V)]
      /\ [opened EXCEPT !.error = TRUE] \in [error : BOOLEAN, content : Seq(V)]
      /\ [flash EXCEPT !.error = TRUE] \in [error : BOOLEAN, content : Seq(V)]
  <2> DEFINE Q == Seq(V)
  <2>1. Append(opened.content, w) \in Q
        BY <1>6, <1>7
  <2>2. flash \in [error : BOOLEAN, content : Q] /\ opened \in [error : BOOLEAN, content : Q]
        BY <1>5, <1>6
  <2> HIDE DEF Q
  <2>3. written \in [error : BOOLEAN, content : Q]
        BY <2>1, <2>2
  <2>4. /\ [opened EXCEPT !.error = TRUE] \in [error : BOOLEAN, content : Q]
        /\ [flash EXCEPT !.error = TRUE] \in [error : BOOLEAN, content : Q]
        BY <2>2
  <2> QED BY <2>3, <2>4 DEF Q
<1>9. flash' \in [error : BOOLEAN, content : Seq(V)]
      BY <1>3, <1>8
<1>10. GoodPaths' = GoodPaths
      BY SameDocs
<1> QED BY <1>4, <1>9, <1>10 DEF FlashInv

\* What a call with data does, by the service that gets it.
DataStep(c, s, fail) ==
    /\ calls # <<>> /\ ~upgrade /\ c = calls[1] /\ c.op = "data" /\ s = ActiveService(c.id)
    /\ c \in Datas /\ c.id \in Ids \cup {0} /\ c.is_last \in BOOLEAN
    /\ c.data.path \in GoodPaths /\ c.data.pos \in Nat /\ c.data.doc \in Docs
    /\ s \in Services \cup {NULL}
    /\ calls' = Tail(calls) /\ UNCHANGED <<want, cloud, streams, offered, report>>
    /\ faults' \in 0 .. MaxFaults
    /\ data_cb(s, c.data, c.is_last, fail)
    /\ IF s # NULL /\ c.is_last
       THEN last_seen' = NULL /\ downlink_id' = [downlink_id EXCEPT ![s] = DOWNLINK_ID_INVALID]
       ELSE UNCHANGED <<last_seen, downlink_id>>

\* Every call with data is such a step.
LEMMA CallDataStep ==
    ASSUME TypeInv, CallData
    PROVE  \E c, s, fail : DataStep(c, s, fail)
<1> DEFINE c == calls[1]  s == ActiveService(c.id)
<1>1. Head(calls) = c /\ calls # <<>> /\ c \in Starts \cup Datas
      BY CallHead DEF CallData, TypeInv
<1>2. PICK fail : /\ faults' = faults + (IF fail = "none" THEN 0 ELSE 1) /\ faults' <= MaxFaults
                  /\ pouch_downlink_data(c.id, c.data, c.is_last, fail)
      BY <1>1 DEF CallData
<1>3. /\ c.op = "data" /\ ~upgrade /\ calls' = Tail(calls)
      /\ UNCHANGED <<want, cloud, streams, offered, report>>
      BY <1>1 DEF CallData, cloudVars
<1>4. faults' \in 0 .. MaxFaults
  <2>1. faults \in Nat /\ MaxFaults \in Nat
        BY TypeFacts, NumberFacts
  <2> QED BY <1>2, <2>1
<1>5. /\ c \in Datas /\ c.id \in Ids \cup {0} /\ c.data.path \in GoodPaths /\ c.data.pos \in Nat
      /\ c.data.doc \in Docs /\ c.is_last \in BOOLEAN
      BY <1>1, <1>3, CallFacts
<1>6. last_seen \in Services \cup {NULL}
      BY ServiceFacts DEF TypeInv, DispatchInv
<1>7. s \in Services \cup {NULL}
      BY <1>6, IdService
<1>8. /\ data_cb(s, c.data, c.is_last, fail)
      /\ IF s # NULL /\ c.is_last
         THEN last_seen' = NULL /\ downlink_id' = [downlink_id EXCEPT ![s] = DOWNLINK_ID_INVALID]
         ELSE UNCHANGED <<last_seen, downlink_id>>
      BY <1>2, Zenon DEF pouch_downlink_data, dispatchVars
<1>9. DataStep(c, s, fail)
      BY <1>1, <1>3, <1>4, <1>5, <1>7, <1>8 DEF DataStep
<1> QED BY <1>9

\* The dispatcher keeps its types, whoever gets the data.
LEMMA DispatchType ==
    ASSUME TypeInv, NEW c, NEW s, NEW fail, DataStep(c, s, fail)
    PROVE  /\ last_seen' \in Range(ServiceOrder) \cup {NULL}
           /\ downlink_id' \in [Range(ServiceOrder) -> Ids \cup {0, DOWNLINK_ID_INVALID}]
           /\ CallsInv' /\ StreamsInv' /\ faults' \in 0 .. MaxFaults
<1>1. /\ last_seen \in Range(ServiceOrder) \cup {NULL}
      /\ downlink_id \in [Range(ServiceOrder) -> Ids \cup {0, DOWNLINK_ID_INVALID}]
      BY DEF TypeInv, DispatchInv
<1>2. last_seen' \in Range(ServiceOrder) \cup {NULL}
      BY <1>1 DEF DataStep
<1>3. downlink_id' \in [Range(ServiceOrder) -> Ids \cup {0, DOWNLINK_ID_INVALID}]
      BY <1>1 DEF DataStep
<1>4. CallsInv' /\ StreamsInv' /\ faults' \in 0 .. MaxFaults
      BY TailCalls, SameStreams DEF DataStep, TypeInv
<1> QED BY <1>2, <1>3, <1>4

\* What the data of a component, of a manifest and of settings change.
ComponentData(c, fail) ==
    /\ ota_receive_component_data(c.data, c.is_last, fail)
    /\ UNCHANGED <<registered, running, settings_version, value>>
ManifestData(c) ==
    /\ ota_receive_manifest(c.data.doc)
    /\ UNCHANGED <<component_download, running, flash, upgrade, settings_version, value>>
SettingsData(c) ==
    /\ settings_downlink(c.data.doc)
    /\ UNCHANGED <<component_download, registered, running, flash, upgrade>>
NoData == UNCHANGED <<component_download, registered, running, flash, upgrade,
                      settings_version, value>>

\* One of them happens.
LEMMA DataCases ==
    ASSUME NEW c, NEW s, NEW fail, DataStep(c, s, fail)
    PROVE  \/ s = "ota_component" /\ ComponentData(c, fail)
           \/ s = "ota_manifest" /\ ManifestData(c)
           \/ s = "settings" /\ SettingsData(c)
           \/ s = NULL /\ NoData
<1>1. data_cb(s, c.data, c.is_last, fail)
      BY DEF DataStep
<1> QED BY <1>1 DEF data_cb, ComponentData, ManifestData, SettingsData, NoData,
                    otaVars, settingsVars

\* Data of a component.
LEMMA ComponentType ==
    ASSUME TypeInv, NEW c, NEW s, NEW fail, DataStep(c, s, fail), ComponentData(c, fail)
    PROVE  TypeInv'
<1>1. /\ UNCHANGED <<registered, running, settings_version, value, want, cloud, streams, report>>
      /\ c.is_last \in BOOLEAN /\ c.data.path \in GoodPaths /\ upgrade \in BOOLEAN
      /\ ota_receive_component_data(c.data, c.is_last, fail)
      BY DEF DataStep, ComponentData, TypeInv, DispatchInv
<1>2. \/ \E offset : ota_main_receive(c.data, offset, c.is_last, fail)
      \/ UNCHANGED <<flash, upgrade>>
      BY <1>1 DEF ota_receive_component_data, golioth_ota_receive_component
<1>3. FlashInv'
  <2>1. CASE \E offset : ota_main_receive(c.data, offset, c.is_last, fail)
        BY <1>1, <2>1, ReceiveFlash DEF TypeInv
  <2>2. CASE UNCHANGED <<flash, upgrade>>
        BY <1>1, <2>2, SameFlash DEF TypeInv
  <2> QED BY <1>2, <2>1, <2>2
<1>4. upgrade' \in BOOLEAN
      BY <1>1, <1>2, Zenon DEF ota_main_receive
<1>5. component_download' \in [id : Ids \cup {0, DOWNLINK_ID_INVALID}, offset : Nat,
                               name : {"", Main, Aux}]
  <2> DEFINE D == Ids \cup {0, DOWNLINK_ID_INVALID}  N == {"", Main, Aux}
  <2>1. component_download \in [id : D, offset : Nat, name : N]
        BY DEF TypeInv, DispatchInv
  <2> HIDE DEF D, N
  <2>2. \/ component_download' = [component_download EXCEPT !.offset = @ + 1]
        \/ component_download' = component_download
        BY <1>1 DEF ota_receive_component_data
  <2>3. component_download' \in [id : D, offset : Nat, name : N]
        BY <2>1, <2>2
  <2> QED BY <2>3 DEF D, N
<1>6. DispatchInv'
      BY <1>4, <1>5, DispatchType DEF DispatchInv
<1>7. VersionInv'
      BY <1>1 DEF TypeInv, VersionInv
<1>8. SettingsInv'
      BY <1>1 DEF TypeInv, SettingsInv
<1> QED BY <1>3, <1>6, <1>7, <1>8, DispatchType DEF TypeInv

\* A manifest: an update is asked for only when there is one.
LEMMA ManifestType ==
    ASSUME TypeInv, NEW c, NEW s, NEW fail, DataStep(c, s, fail), ManifestData(c)
    PROVE  /\ TypeInv'
           /\ registered'.state # registered.state =>
                  registered'.state = DOWNLOADING /\ running # Stored(want)
           /\ registered' # registered => c.data.doc \in ManifestDocs
<1>1. /\ UNCHANGED <<component_download, running, flash, upgrade, settings_version, value,
                     want, cloud, streams, report>>
      /\ c.data.doc \in Docs /\ ota_receive_manifest(c.data.doc)
      BY DEF DataStep, ManifestData
<1>2. registered \in Registrations /\ want \in Nat /\ running \in 0 .. MaxVersion
      BY TypeFacts DEF TypeInv, VersionInv, Registrations
<1>4. /\ registered' \in Registrations
      /\ registered'.state # registered.state =>
             registered'.state = DOWNLOADING /\ running # Stored(want)
      /\ registered' # registered => c.data.doc \in ManifestDocs
  <2>1. CASE c.data.doc \in ManifestDocs
        BY <1>1, <1>2, <2>1, ManifestResult
  <2>2. CASE c.data.doc \in SettingDocs \cup {CborRest}
        BY <1>1, <1>2, <2>2, OtherDocs
  <2> QED BY <1>1, <2>1, <2>2 DEF Docs
<1>5. VersionInv'
      BY <1>1, <1>4 DEF TypeInv, VersionInv, Registrations
<1>6. FlashInv'
      BY <1>1, SameFlash DEF TypeInv
<1>7. DispatchInv'
  <2>1. /\ component_download' \in [id : Ids \cup {0, DOWNLINK_ID_INVALID}, offset : Nat,
                                    name : {"", Main, Aux}]
        /\ upgrade' \in BOOLEAN
        BY <1>1 DEF TypeInv, DispatchInv
  <2> QED BY <2>1, DispatchType DEF DispatchInv
<1>8. SettingsInv'
      BY <1>1 DEF TypeInv, SettingsInv
<1> QED BY <1>4, <1>5, <1>6, <1>7, <1>8, DispatchType DEF TypeInv

\* Settings.
LEMMA SettingsType ==
    ASSUME TypeInv, NEW c, NEW s, NEW fail, DataStep(c, s, fail), SettingsData(c)
    PROVE  TypeInv' /\ Applied(settings_version', value')
<1>1. /\ UNCHANGED <<component_download, registered, running, flash, upgrade,
                     want, cloud, streams, report>>
      /\ c.data.doc \in Docs /\ settings_downlink(c.data.doc)
      BY DEF DataStep, SettingsData
<1>2. /\ value \in Vals /\ cloud \in 0 .. Len(CloudSettings) /\ settings_version \in -1 .. cloud
      /\ \A n \in DOMAIN SettingType : value[n] = Unset \/ value[n].type = SettingType[n]
      BY DEF TypeInv, SettingsInv, Vals
<1>3. settings_version \in Int /\ cloud \in Int /\ cloud \in -1 .. cloud
      BY <1>2
<1>4. Applied(settings_version', value')
      BY <1>1, <1>2, <1>3, SettingsResult
<1>5. SettingsInv'
  <2>1. settings_version' \in -1 .. cloud
        BY <1>2, <1>3, <1>4 DEF Applied
  <2>2. /\ value' \in [DOMAIN SettingType -> {Unset} \cup Given]
        /\ \A n \in DOMAIN SettingType : value'[n] = Unset \/ value'[n].type = SettingType[n]
        BY <1>2, <1>4 DEF Applied, Updated, Current, Vals
  <2> QED BY <1>1, <1>2, <2>1, <2>2 DEF SettingsInv
<1>6. FlashInv'
      BY <1>1, SameFlash DEF TypeInv
<1>7. DispatchInv'
  <2>1. /\ component_download' \in [id : Ids \cup {0, DOWNLINK_ID_INVALID}, offset : Nat,
                                    name : {"", Main, Aux}]
        /\ upgrade' \in BOOLEAN
        BY <1>1 DEF TypeInv, DispatchInv
  <2> QED BY <2>1, DispatchType DEF DispatchInv
<1>8. VersionInv'
      BY <1>1 DEF TypeInv, VersionInv
<1> QED BY <1>4, <1>5, <1>6, <1>7, <1>8, DispatchType DEF TypeInv

\* Data that nobody takes.
LEMMA NoDataType ==
    ASSUME TypeInv, NEW c, NEW s, NEW fail, DataStep(c, s, fail), NoData
    PROVE  TypeInv'
<1>1. /\ UNCHANGED <<component_download, registered, running, flash, upgrade,
                     settings_version, value, want, cloud, streams, report>>
      BY DEF DataStep, NoData
<1>2. FlashInv'
      BY <1>1, SameFlash DEF TypeInv
<1>3. DispatchInv'
  <2>1. /\ component_download' \in [id : Ids \cup {0, DOWNLINK_ID_INVALID}, offset : Nat,
                                    name : {"", Main, Aux}]
        /\ upgrade' \in BOOLEAN
        BY <1>1 DEF TypeInv, DispatchInv
  <2> QED BY <2>1, DispatchType DEF DispatchInv
<1>4. VersionInv' /\ SettingsInv'
      BY <1>1 DEF TypeInv, VersionInv, SettingsInv
<1> QED BY <1>2, <1>3, <1>4, DispatchType DEF TypeInv

\* The image that boots is one of the cloud's.
LEMMA BootFacts ==
    ASSUME TypeInv
    PROVE  BootVersion \in 0 .. MaxVersion
<1>1. running \in 0 .. MaxVersion
      BY DEF TypeInv, VersionInv
<1>2. ASSUME NEW v \in Bootable
      PROVE  v \in 0 .. MaxVersion
  <2>1. IsImage(flash.content, v)
        BY DEF Bootable
  <2>2. PICK W : flash \in [error : BOOLEAN, content : Seq(W)] /\ \A w \in W : w.data.path \in GoodPaths
        BY DEF TypeInv, FlashInv
  <2> DEFINE d == flash.content[1].data.path
  <2>3. /\ Len(flash.content) = ImageLen /\ d.name = Main /\ d.ver = v
        BY <2>1, NumberFacts DEF IsImage
  <2>4. flash.content[1] \in W
    <3>1. flash.content \in Seq(W)
          BY <2>2
    <3>2. 1 \in 1 .. Len(flash.content)
          BY <2>3, NumberFacts
    <3> QED BY <3>1, <3>2
  <2>5. d \in GoodPaths
        BY <2>2, <2>4
  <2>6. d.ver \in 0 .. MaxVersion
        BY <2>3, <2>5 DEF GoodPaths
  <2> QED BY <1>1, <2>3, <2>6
<1> QED BY <1>1, <1>2 DEF BootVersion

\* A boot keeps the types and leaves Main idle.
LEMMA BootType ==
    ASSUME TypeInv, Boot, faults' \in 0 .. MaxFaults
    PROVE  TypeInv' /\ registered'.state = IDLE
<1> DEFINE v == BootVersion
<1>1. v \in 0 .. MaxVersion /\ want \in Nat
      BY BootFacts, TypeFacts
<1>2. /\ running' = v /\ registered' = Idle(v) /\ component_download' = NoDownload
      /\ flash' = NoFlash /\ upgrade' = FALSE
      BY DEF Boot, OtaReset
<1>3. /\ settings_version' = -1 /\ value' = [n \in DOMAIN SettingType |-> Unset]
      /\ last_seen' = NULL /\ downlink_id' = NoIds
      /\ calls' = <<>> /\ streams' = NoStreams /\ UNCHANGED <<want, cloud, report>>
      BY DEF Boot
<1> HIDE DEF v
<1>4. IDLE # DOWNLOADING
      BY DEF IDLE, DOWNLOADING
<1>5. registered'.state = IDLE /\ registered' \in [target : Int, state : {IDLE, DOWNLOADING}]
      BY <1>1, <1>2 DEF Idle
<1>6. VersionInv'
      BY <1>1, <1>2, <1>3, <1>4, <1>5 DEF TypeInv, VersionInv
<1>7. FlashInv'
  <2>1. flash' \in [error : BOOLEAN, content : Seq({})]
        BY <1>2 DEF NoFlash
  <2> QED BY <2>1 DEF FlashInv
<1>8. DispatchInv'
  <2>1. last_seen' \in Range(ServiceOrder) \cup {NULL} /\ upgrade' \in BOOLEAN
        BY <1>2, <1>3
  <2>2. downlink_id' \in [Range(ServiceOrder) -> Ids \cup {0, DOWNLINK_ID_INVALID}]
        BY <1>3 DEF NoIds
  <2>3. component_download' \in [id : Ids \cup {0, DOWNLINK_ID_INVALID}, offset : Nat,
                                 name : {"", Main, Aux}]
        BY <1>2 DEF NoDownload
  <2> QED BY <2>1, <2>2, <2>3 DEF DispatchInv
<1>9. SettingsInv'
  <2>1. cloud \in 0 .. Len(CloudSettings) /\ -1 \in -1 .. cloud
    <3>1. cloud \in 0 .. Len(CloudSettings) /\ settings_version \in -1 .. cloud
          BY DEF TypeInv, SettingsInv
    <3> QED BY <3>1
  <2> QED BY <1>3, <2>1 DEF SettingsInv
<1>10. CallsInv'
      BY <1>3 DEF CallsInv
<1>11. StreamsInv'
      BY <1>3 DEF StreamsInv, NoStreams
<1> QED BY <1>5, <1>6, <1>7, <1>8, <1>9, <1>10, <1>11 DEF TypeInv

\* A report shows the state of now, or the last one again.
LEMMA SyncType ==
    ASSUME TypeInv, golioth_sync_to_cloud
    PROVE  TypeInv'
<1>1. UNCHANGED <<component_download, registered, running, flash, upgrade, settings_version,
                  value, last_seen, downlink_id, calls, want, cloud, streams>>
      BY DEF golioth_sync_to_cloud, otaVars, settingsVars, dispatchVars
<1>2. faults' \in 0 .. MaxFaults
  <2>1. PICK lostOta, lostSettings \in {0, 1} :
            faults' = faults + lostOta + lostSettings /\ faults' <= MaxFaults
        BY DEF golioth_sync_to_cloud
  <2>2. faults \in Nat
        BY TypeFacts
  <2> QED BY <2>1, <2>2, NumberFacts
<1>3. VersionInv'
      BY <1>1 DEF TypeInv, VersionInv
<1>4. Starts' = Starts /\ Datas' = Datas
      BY <1>1, SameDocs
<1>5. CallsInv' /\ StreamsInv' /\ FlashInv'
      BY <1>1, <1>4, SameStreams, SameFlash DEF TypeInv, CallsInv
<1>6. DispatchInv' /\ SettingsInv'
      BY <1>1, <1>2 DEF TypeInv, DispatchInv, SettingsInv
<1> QED BY <1>3, <1>5, <1>6 DEF TypeInv

\* A pouch that breaks off keeps the types.
LEMMA BreakType ==
    ASSUME TypeInv, BreakOff
    PROVE  TypeInv'
<1>1. Quiet /\ UNCHANGED <<calls, want, cloud>> /\ streams' = NoStreams
      BY DEF BreakOff, Quiet
<1>2. faults' \in 0 .. MaxFaults
      BY TypeFacts, FaultFacts DEF BreakOff
<1>3. Starts' = Starts /\ Datas' = Datas
      BY <1>1, SameDocs
<1>4. CallsInv'
      BY <1>1, <1>3 DEF TypeInv, CallsInv
<1>5. StreamsInv'
      BY <1>1 DEF StreamsInv, NoStreams
<1> QED BY <1>1, <1>2, <1>4, <1>5, QuietType

\* So does another version of Main.
LEMMA ReleaseType ==
    ASSUME TypeInv, Release \/ Rollback
    PROVE  TypeInv'
<1>1. /\ UNCHANGED <<component_download, registered, running, flash, upgrade, settings_version,
                     value, last_seen, downlink_id, calls, cloud, streams, report>>
      /\ calls = <<>>
      BY DEF Release, Rollback, Free, otaVars, settingsVars, dispatchVars
<1>2. faults' \in 0 .. MaxFaults
      BY TypeFacts, FaultFacts DEF Release, Rollback
<1>3. want' \in 0 .. MaxVersion
  <2>1. want \in Nat /\ want <= MaxVersion
        BY TypeFacts
  <2>2. (want < MaxVersion /\ want' = want + 1) \/ want' \in 0 .. want - 1
        BY DEF Release, Rollback
  <2> QED BY <2>1, <2>2, NumberFacts
<1>4. GoodPaths' = GoodPaths
      BY DEF GoodPaths
<1>5. CallsInv'
      BY <1>1 DEF CallsInv
<1>6. StreamsInv'
      BY <1>1, <1>4 DEF TypeInv, StreamsInv
<1>7. FlashInv'
      BY <1>1, <1>4 DEF TypeInv, FlashInv
<1>8. VersionInv'
      BY <1>1, <1>3 DEF TypeInv, VersionInv
<1>9. DispatchInv' /\ SettingsInv'
      BY <1>1, <1>2 DEF TypeInv, DispatchInv, SettingsInv
<1> QED BY <1>5, <1>6, <1>7, <1>8, <1>9 DEF TypeInv

\* So does a new version of the settings.
LEMMA ChangeType ==
    ASSUME TypeInv, ChangeSettings
    PROVE  TypeInv'
<1>1. /\ UNCHANGED <<component_download, registered, running, flash, upgrade, settings_version,
                     value, last_seen, downlink_id, calls, want, streams, report, faults>>
      /\ cloud < Len(CloudSettings) /\ cloud' = cloud + 1 /\ calls = <<>>
      BY DEF ChangeSettings, Free, otaVars, settingsVars, dispatchVars
<1>2. GoodPaths' = GoodPaths
      BY <1>1 DEF GoodPaths
<1>3. CallsInv'
      BY <1>1 DEF CallsInv
<1>4. StreamsInv'
      BY <1>1, <1>2 DEF TypeInv, StreamsInv
<1>5. FlashInv'
      BY <1>1, <1>2 DEF TypeInv, FlashInv
<1>6. VersionInv' /\ DispatchInv'
      BY <1>1 DEF TypeInv, VersionInv, DispatchInv
<1>7. SettingsInv'
  <2>1. Len(CloudSettings) \in Nat
        BY CloudAssumption
  <2>2. cloud \in 0 .. Len(CloudSettings) /\ settings_version \in -1 .. cloud
        BY DEF TypeInv, SettingsInv
  <2>3. cloud' \in 0 .. Len(CloudSettings) /\ settings_version \in -1 .. cloud'
        BY <1>1, <2>1, <2>2
  <2> QED BY <1>1, <2>3 DEF TypeInv, SettingsInv
<1> QED BY <1>3, <1>4, <1>5, <1>6, <1>7 DEF TypeInv

\* Steps that leave everything alone.
LEMMA StutterType ==
    ASSUME TypeInv, UNCHANGED vars
    PROVE  TypeInv'
<1>1. Quiet /\ UNCHANGED <<calls, streams, faults, want, cloud>>
      BY DEF vars, cloudVars, Quiet
<1>2. Starts' = Starts /\ Datas' = Datas
      BY <1>1, SameDocs
<1>3. CallsInv' /\ StreamsInv' /\ faults' \in 0 .. MaxFaults
      BY <1>1, <1>2, SameStreams, TypeFacts DEF TypeInv, CallsInv
<1> QED BY <1>1, <1>3, QuietType

\* The steps of the system, by what they do.
CloudStep == \/ EntryStep
             \/ \E id, path, docs : OpenStep(id, path, docs)
             \/ \E id \in Ids : BlockStep(id)
             \/ BreakOff
Reboot == Boot /\ faults' \in 0 .. MaxFaults

\* There are no others.
LEMMA Steps ==
    ASSUME TypeInv, [Next]_vars
    PROVE  \/ CallStart \/ (\E c, s, fail : DataStep(c, s, fail))
           \/ CloudStep \/ Reboot \/ golioth_sync_to_cloud
           \/ Release \/ Rollback \/ ChangeSettings \/ UNCHANGED vars
<1>1. CASE CallData
      BY <1>1, CallDataStep
<1>2. CASE sys_reboot
      BY <1>2, TypeFacts, FaultFacts DEF sys_reboot, Reboot
<1>3. CASE PowerCycle
      BY <1>3, TypeFacts, FaultFacts DEF PowerCycle, Reboot
<1>4. CASE SendManifest \/ SendBadManifest \/ SendSettings \/ SendNilSettings
      BY <1>4, SendStep DEF CloudStep
<1>5. CASE OpenMain \/ OpenManifest \/ OpenSettings \/ OpenOther
      BY <1>5, OpenActions DEF CloudStep
<1>6. CASE \E id \in Ids : NextBlock(id)
      BY <1>6, NextBlockStep DEF CloudStep
<1> QED BY <1>1, <1>2, <1>3, <1>4, <1>5, <1>6 DEF Next, CloudStep

\* Every step keeps the types.
LEMMA TypeNext == TypeInv /\ [Next]_vars => TypeInv'
<1> SUFFICES ASSUME TypeInv, [Next]_vars
             PROVE  TypeInv'
    OBVIOUS
<1>1. CASE CallStart
      BY <1>1, StartType
<1>2. CASE \E c, s, fail : DataStep(c, s, fail)
      BY <1>2, DataCases, ComponentType, ManifestType, SettingsType, NoDataType
<1>3. CASE CloudStep
      BY <1>3, EntryType, OpenType, BlockType, BreakType DEF CloudStep
<1>4. CASE Reboot
      BY <1>4, BootType DEF Reboot
<1>5. CASE golioth_sync_to_cloud \/ Release \/ Rollback \/ ChangeSettings
      BY <1>5, SyncType, ReleaseType, ChangeType
<1>6. CASE UNCHANGED vars
      BY <1>6, StutterType
<1> QED BY <1>1, <1>2, <1>3, <1>4, <1>5, <1>6, Steps

\* The types hold in every state.
LEMMA TypesHold == Spec => []TypeInv
<1> QED BY TypeInit, TypeNext, PTL DEF Spec

-----------------------------------------------------------------------------
(* Updates are asked for only when they are needed *)

\* The calls behind the one at hand.
LEMMA Behind ==
    ASSUME CallsInv, calls # <<>>, calls' = Tail(calls)
    PROVE  /\ Len(calls') = Len(calls) - 1 /\ Len(calls) \in Nat /\ Len(calls) > 0
           /\ calls' # <<>> => Len(calls) > 1
           /\ \A k \in 1 .. Len(calls') : k + 1 \in 1 .. Len(calls) /\ calls'[k] = calls[k + 1]
<1>1. /\ Len(calls) \in Nat /\ Len(calls) > 0
      /\ calls' \in Seq(Starts \cup Datas) /\ Len(calls') = Len(calls) - 1
      /\ \A k \in 1 .. Len(calls) - 1 : calls'[k] = calls[k + 1]
      BY CallHead
<1> DEFINE S == Starts \cup Datas
<1> HIDE DEF S
<1>2. calls' # <<>> => Len(calls) > 1
  <2>1. calls' \in Seq(S)
        BY <1>1 DEF S
  <2>2. calls' # <<>> => Len(calls') > 0
        BY <2>1
  <2> QED BY <1>1, <2>2
<1> QED BY <1>1, <1>2

\* A manifest under way stays offered.
LEMMA OfferTail ==
    ASSUME TypeInv, OfferInv, calls # <<>>, calls' = Tail(calls),
           UNCHANGED <<want, cloud, running, offered>>
    PROVE  OfferInv'
<1>1. ManifestDocs' = ManifestDocs
      BY SameDocs
<1>2. \A k \in 1 .. Len(calls') : k + 1 \in 1 .. Len(calls) /\ calls'[k] = calls[k + 1]
      BY Behind DEF TypeInv
<1> QED BY <1>1, <1>2 DEF OfferInv

\* What an offer does.
LEMMA OfferFacts ==
    ASSUME TypeInv, OfferInv, Offer
    PROVE  offered' \subseteq 0 .. MaxVersion /\ (running = want \/ offered' # {})
<1>1. want \in 0 .. MaxVersion
      BY DEF TypeInv, VersionInv
<1> QED BY <1>1 DEF Offer, OfferInv

\* Every manifest that is under way was offered.
LEMMA OfferNext ==
    ASSUME TypeInv, OfferInv, [Next]_vars
    PROVE  OfferInv'
<1>1. ASSUME calls' = <<>>, offered' = {} \/ UNCHANGED offered
      PROVE  OfferInv'
  <2>1. offered' \subseteq 0 .. MaxVersion
        BY <1>1 DEF OfferInv
  <2>2. Len(calls') = 0
        BY <1>1
  <2> QED BY <2>1, <2>2 DEF OfferInv
<1>2. CASE CallStart
      BY <1>2, OfferTail DEF CallStart, cloudVars
<1>3. CASE \E c, s, fail : DataStep(c, s, fail)
  <2>1. PICK c, s, fail : DataStep(c, s, fail)
        BY <1>3
  <2>2. UNCHANGED running
        BY <2>1, DataCases DEF ComponentData, ManifestData, SettingsData, NoData
  <2> QED BY <2>1, <2>2, OfferTail DEF DataStep
<1>4. CASE EntryStep
  <2>1. /\ UNCHANGED <<want, cloud, running>> /\ (Offer \/ UNCHANGED offered)
        /\ \A k \in 1 .. Len(calls') :
              calls'[k].op = "data" /\ calls'[k].data.doc \in ManifestDocs => Offer
        BY <1>4 DEF EntryStep, Quiet, otaVars
  <2>2. ManifestDocs' = ManifestDocs
        BY <2>1, SameDocs
  <2>3. offered' \subseteq 0 .. MaxVersion
        BY <2>1, OfferFacts DEF OfferInv
  <2> QED BY <2>1, <2>2, <2>3, OfferFacts DEF OfferInv
<1>5. CASE \E id, path, docs : OpenStep(id, path, docs)
  <2>1. PICK id, path, docs : OpenStep(id, path, docs)
        BY <1>5
  <2>2. /\ UNCHANGED <<want, cloud, running>> /\ (Offer \/ UNCHANGED offered)
        /\ docs[1] \in ManifestDocs => Offer
        BY <2>1 DEF OpenStep, Quiet, otaVars
  <2>3. ManifestDocs' = ManifestDocs
        BY <2>2, SameDocs
  <2>4. Len(calls') = 2 /\ calls'[1].op = "start" /\ calls'[2].data.doc = docs[1]
        BY <2>1, OpenCalls
  <2>5. \A k \in 1 .. Len(calls') :
            calls'[k].op = "data" /\ calls'[k].data.doc \in ManifestDocs => Offer
        BY <2>2, <2>4
  <2>6. offered' \subseteq 0 .. MaxVersion
        BY <2>2, OfferFacts DEF OfferInv
  <2> QED BY <2>2, <2>3, <2>5, <2>6, OfferFacts DEF OfferInv
<1>6. CASE \E id \in Ids : BlockStep(id)
  <2>1. PICK id \in Ids : BlockStep(id)
        BY <1>6
  <2>2. UNCHANGED <<want, cloud, offered>>
        BY <2>1 DEF BlockStep, Quiet
  <2>3. ManifestDocs' = ManifestDocs /\ CborRest \notin ManifestDocs
        BY <2>2, SameDocs, NoManifest
  <2>4. Len(calls') = 1 /\ calls'[1].data.doc = CborRest
        BY <2>1, BlockCalls
  <2> QED BY <2>2, <2>3, <2>4 DEF OfferInv
<1>7. CASE BreakOff \/ golioth_sync_to_cloud \/ Release \/ Rollback \/ ChangeSettings
      BY <1>1, <1>7 DEF BreakOff, golioth_sync_to_cloud, Release, Rollback, ChangeSettings, Free
<1>8. CASE Reboot
      BY <1>1, <1>8 DEF Reboot, Boot
<1>9. CASE UNCHANGED vars
  <2>1. UNCHANGED <<calls, want, cloud, running, offered>>
        BY <1>9 DEF vars, otaVars, cloudVars
  <2>2. ManifestDocs' = ManifestDocs
        BY <2>1, SameDocs
  <2> QED BY <2>1, <2>2 DEF OfferInv
<1> QED BY <1>2, <1>3, <1>4, <1>5, <1>6, <1>7, <1>8, <1>9, Steps DEF CloudStep

\* So it is in every state.
LEMMA OffersHold == Spec => []OfferInv
<1>1. Init => OfferInv
  <2>1. Init => calls = <<>> /\ offered = {}
        BY DEF Init
  <2> QED BY <2>1 DEF OfferInv
<1>2. TypeInv /\ OfferInv /\ [Next]_vars => OfferInv'
      BY OfferNext
<1> QED BY <1>1, <1>2, TypesHold, PTL DEF Spec

\* No step marks Main without an offer.
LEMMA DownloadNext ==
    ASSUME TypeInv, OfferInv, LongVersions = {}, NoNeedlessDownload, [Next]_vars
    PROVE  NoNeedlessDownload'
<1>1. want \in Nat /\ Stored(want) = want
      BY TypeFacts DEF Stored
<1>2. ASSUME UNCHANGED registered, Offer \/ UNCHANGED offered
      PROVE  NoNeedlessDownload'
      BY <1>2 DEF NoNeedlessDownload, Offer
<1>3. CASE CallStart
      BY <1>2, <1>3 DEF CallStart, cloudVars
<1>4. CASE \E c, s, fail : DataStep(c, s, fail)
  <2>1. PICK c, s, fail : DataStep(c, s, fail)
        BY <1>4
  <2>2. /\ UNCHANGED offered /\ calls # <<>> /\ c = calls[1] /\ c.op = "data"
        BY <2>1 DEF DataStep
  <2>3. CASE ManifestData(c)
    <3>1. /\ registered'.state # registered.state => running # want
          /\ registered' # registered => c.data.doc \in ManifestDocs
          BY <1>1, <2>1, <2>3, ManifestType
    <3>2. 1 \in 1 .. Len(calls)
          BY <2>2, CallHead DEF TypeInv
    <3>3. registered'.state # registered.state => offered # {}
          BY <2>2, <3>1, <3>2 DEF OfferInv
    <3> QED BY <2>2, <3>3 DEF NoNeedlessDownload
  <2>4. CASE ComponentData(c, fail) \/ SettingsData(c) \/ NoData
        BY <1>2, <2>2, <2>4 DEF ComponentData, SettingsData, NoData
  <2> QED BY <2>1, <2>3, <2>4, DataCases
<1>5. CASE CloudStep
      BY <1>2, <1>5 DEF CloudStep, EntryStep, OpenStep, BlockStep, BreakOff, Quiet, otaVars
<1>6. CASE Reboot
  <2>1. registered'.state = IDLE
        BY <1>6, BootType DEF Reboot
  <2> QED BY <2>1 DEF NoNeedlessDownload, IDLE, DOWNLOADING
<1>7. CASE golioth_sync_to_cloud \/ Release \/ Rollback \/ ChangeSettings
      BY <1>2, <1>7 DEF golioth_sync_to_cloud, Release, Rollback, ChangeSettings, otaVars
<1>8. CASE UNCHANGED vars
      BY <1>2, <1>8 DEF vars, otaVars, cloudVars
<1> QED BY <1>3, <1>4, <1>5, <1>6, <1>7, <1>8, Steps

\* Whatever manifests the device is sent, whole, cut or broken, in entries or in
\* streams, and whatever reboots, releases and returns to older versions come
\* between: it asks for a download only after a manifest has offered it another
\* version than the one it runs, provided that no version is too long for the
\* target (golioth_ota_manifest_receive_one in ota_upper.c).
THEOREM DownloadSafe == LongVersions = {} => (Spec => []NoNeedlessDownload)
<1> SUFFICES ASSUME LongVersions = {}
             PROVE  Spec => []NoNeedlessDownload
    OBVIOUS
<1>1. Init => NoNeedlessDownload
      BY DEF Init, OtaInit, Idle, NoNeedlessDownload, IDLE, DOWNLOADING
<1>2. TypeInv /\ OfferInv /\ NoNeedlessDownload /\ [Next]_vars => NoNeedlessDownload'
      BY DownloadNext
<1> QED BY <1>1, <1>2, TypesHold, OffersHold, PTL DEF Spec

-----------------------------------------------------------------------------
(* What is reported of the settings *)

\* A current value is a value.
LEMMA CurrentFacts ==
    ASSUME cloud \in Nat, NEW n \in DOMAIN SettingType, NEW x, Current(x, n)
    PROVE  x # Unset /\ x.val = cloud
<1>1. x.type = SettingType[n] /\ x.val = cloud
      BY DEF Current
<1>2. SettingType[n] # "unset"
      BY SettingAssumption
<1> QED BY <1>1, <1>2 DEF Unset

\* Settings that are applied stay so, and the version follows them.
LEMMA AppliedKept ==
    ASSUME SettingsInv, SettingsFirst, ReportedSettingsApplied, UNCHANGED cloud,
           Applied(settings_version', value')
    PROVE  ReportedSettingsApplied'
<1>1. cloud \in Nat /\ settings_version \in Int /\ settings_version <= cloud
  <2>1. cloud \in 0 .. Len(CloudSettings) /\ settings_version \in -1 .. cloud
        BY DEF SettingsInv
  <2> QED BY <2>1
<1>2. \A k, n : n \in Takes(k) => n \in DOMAIN SettingType
      BY DEF Takes
<1>3. \A n \in DOMAIN SettingType : value'[n] = value[n] \/ Current(value'[n], n)
      BY DEF Applied, Updated
<1> SUFFICES ASSUME NEW n \in Takes(settings_version')
             PROVE  value'[n] # Unset /\ value'[n].val >= settings_version'
    BY DEF ReportedSettingsApplied
<1>4. n \in DOMAIN SettingType
      BY <1>2
<1>5. CASE settings_version' = settings_version
  <2>1. value[n] # Unset /\ value[n].val >= settings_version
        BY <1>5 DEF ReportedSettingsApplied
  <2>2. Current(value'[n], n) => value'[n] # Unset /\ value'[n].val = cloud
        BY <1>1, <1>4, CurrentFacts
  <2> QED BY <1>1, <1>3, <1>4, <1>5, <2>1, <2>2
<1>6. CASE settings_version' # settings_version
  <2>1. settings_version' = cloud /\ Current(value'[n], n)
        BY <1>6 DEF Applied
  <2>2. value'[n] # Unset /\ value'[n].val = cloud
        BY <1>1, <1>4, <2>1, CurrentFacts
  <2> QED BY <1>1, <2>1, <2>2
<1> QED BY <1>5, <1>6

\* No step reports settings that were not applied.
LEMMA SettingsNext ==
    ASSUME TypeInv, SettingsFirst, ReportedSettingsApplied, [Next]_vars
    PROVE  ReportedSettingsApplied'
<1>1. ASSUME UNCHANGED <<settings_version, value>>
      PROVE  ReportedSettingsApplied'
      BY <1>1 DEF ReportedSettingsApplied
<1>2. CASE CallStart
      BY <1>1, <1>2 DEF CallStart, settingsVars
<1>3. CASE \E c, s, fail : DataStep(c, s, fail)
  <2>1. PICK c, s, fail : DataStep(c, s, fail)
        BY <1>3
  <2>2. CASE SettingsData(c)
    <3>1. Applied(settings_version', value') /\ UNCHANGED cloud
          BY <2>1, <2>2, SettingsType DEF DataStep
    <3> QED BY <3>1, AppliedKept DEF TypeInv
  <2>3. CASE ComponentData(c, fail) \/ ManifestData(c) \/ NoData
        BY <1>1, <2>3 DEF ComponentData, ManifestData, NoData
  <2> QED BY <2>1, <2>2, <2>3, DataCases
<1>4. CASE CloudStep
      BY <1>1, <1>4 DEF CloudStep, EntryStep, OpenStep, BlockStep, BreakOff, Quiet, settingsVars
<1>5. CASE Reboot
  <2>1. settings_version' = -1
        BY <1>5 DEF Reboot, Boot
  <2>2. Takes(-1) = {}
        BY DEF Takes
  <2> QED BY <2>1, <2>2 DEF ReportedSettingsApplied
<1>6. CASE golioth_sync_to_cloud \/ Release \/ Rollback \/ ChangeSettings
      BY <1>1, <1>6 DEF golioth_sync_to_cloud, Release, Rollback, ChangeSettings, settingsVars
<1>7. CASE UNCHANGED vars
      BY <1>1, <1>7 DEF vars, settingsVars
<1> QED BY <1>2, <1>3, <1>4, <1>5, <1>6, <1>7, Steps

\* The version that the device reports is one whose settings the application has,
\* all that it can take: settings_decode gives them to the callbacks one by one, and
\* the version is stored only with or after them (golioth_settings in settings.c),
\* provided that a document that can be cut has its settings before its version.
THEOREM SettingsSafe == SettingsFirst => (Spec => []ReportedSettingsApplied)
<1> SUFFICES ASSUME SettingsFirst
             PROVE  Spec => []ReportedSettingsApplied
    OBVIOUS
<1>1. Init => ReportedSettingsApplied
      BY DEF Init, SettingsInit, ReportedSettingsApplied, Takes
<1>2. TypeInv /\ ReportedSettingsApplied /\ [Next]_vars => ReportedSettingsApplied'
      BY SettingsNext
<1> QED BY <1>1, <1>2, TypesHold, PTL DEF Spec

-----------------------------------------------------------------------------
(* Where the download is *)

\* At first nothing is heard.
LEMMA TrackInit == Init => TrackInv
<1> SUFFICES ASSUME Init
             PROVE  TrackInv
    OBVIOUS
<1>1. calls = <<>> /\ DOMAIN streams = {}
      BY DEF Init, NoStreams
<1>2. KnownInv
  <2>1. \A s \in Services : downlink_id[s] = DOWNLINK_ID_INVALID
        BY ServiceFacts DEF Init, NoIds
  <2> QED BY <2>1, IdFacts DEF KnownInv, Heard, Services
<1>3. StreamsHeard /\ CallHeard /\ BlockInv
      BY <1>1 DEF StreamsHeard, CallHeard, BlockInv
<1>4. QuietInv
      BY <1>1 DEF QuietInv
<1>5. OffsetInv /\ BlocksOfComponent
  <2>1. component_download.offset = 0 /\ flash.content = <<>>
        BY DEF Init, OtaInit, NoDownload, NoFlash
  <2> QED BY <2>1, NumberFacts DEF OffsetInv, BlocksOfComponent
<1> QED BY <1>2, <1>3, <1>4, <1>5 DEF TrackInv

\* The download does not change: neither does what is said of it.
Still == UNCHANGED <<component_download, registered, flash, downlink_id>>

\* The parts of the invariant that are about the download alone stay.
LEMMA StillTracks ==
    ASSUME TrackInv, Still
    PROVE  /\ KnownInv' /\ OffsetInv' /\ BlocksOfComponent'
           /\ Heard' = Heard /\ component_download' = component_download
           /\ registered' = registered /\ flash' = flash
<1>1. Heard' = Heard
      BY DEF Still, Heard
<1>2. KnownInv'
      BY <1>1 DEF Still, TrackInv, KnownInv
<1>3. OffsetInv' /\ BlocksOfComponent'
      BY DEF Still, TrackInv, OffsetInv, BlocksOfComponent
<1> QED BY <1>1, <1>2, <1>3 DEF Still

\* Entries have id 0, which the service of components does not hear.
LEMMA EntryTrack ==
    ASSUME TypeInv, TrackInv, EntryStep
    PROVE  TrackInv'
<1>1. /\ calls = <<>> /\ Still /\ UNCHANGED <<streams, want, cloud>>
      /\ calls' \in Seq(Starts \cup Datas)
      /\ \A k \in 1 .. Len(calls') :
            /\ calls'[k].id = 0
            /\ calls'[k].op = "start" => calls'[k].path.dir # "component"
            /\ calls'[k].op = "data" /\ calls'[k].data.doc \in ManifestDocs => ManifestMaySend
      BY DEF EntryStep, Offer, Free, Quiet, Still, otaVars, dispatchVars
<1>2. calls' # <<>> => calls'[1].id = 0
      BY <1>1
<1>3. StreamsHeard'
      BY <1>1, StillTracks DEF TrackInv, StreamsHeard, At
<1>4. CallHeard'
  <2>1. Heard # 0 /\ Heard' = Heard
        BY <1>1, StillTracks DEF TrackInv, KnownInv
  <2> QED BY <1>2, <2>1 DEF CallHeard, At, Tracks
<1>5. BlockInv'
      BY <1>1, <1>2 DEF BlockInv, EntryCalls
<1>6. QuietInv'
  <2>1. ManifestDocs' = ManifestDocs
        BY <1>1, SameDocs
  <2> QED BY <1>1, <2>1 DEF QuietInv, ManifestMaySend
<1> QED BY <1>1, <1>3, <1>4, <1>5, <1>6, StillTracks DEF TrackInv

\* A sequence that has a length is not empty.
LEMMA NotEmpty ==
    ASSUME NEW s, NEW n \in Nat, n > 0, Len(s) = n
    PROVE  s # <<>>
OBVIOUS

\* A new stream has an id that no service remembers.
LEMMA OpenTrack ==
    ASSUME TypeInv, TrackInv, ~ReuseIds, NEW id, NEW path, NEW docs, OpenStep(id, path, docs)
    PROVE  TrackInv'
<1>1. calls = <<>> /\ Still /\ UNCHANGED <<want, cloud>>
      BY DEF OpenStep, Free, Quiet, Still, otaVars, dispatchVars
<1>2. /\ id \in Ids /\ id # 0 /\ id \notin DOMAIN streams
      /\ \A s \in Range(ServiceOrder) : downlink_id[s] # id
  <2>1. id \in Ids /\ id \notin DOMAIN streams /\ id \notin Remembered
        BY DEF OpenStep, FreshIds
  <2>2. DOMAIN downlink_id = Range(ServiceOrder)
        BY DEF TypeInv, DispatchInv
  <2>3. \A s \in Range(ServiceOrder) : downlink_id[s] # id
        BY <2>1, <2>2 DEF Remembered
  <2> QED BY <2>1, <2>3, IdFacts
<1> DEFINE new == [path |-> path, docs |-> docs, sent |-> 1]
<1>3. new.path = path /\ new.sent = 1
      OBVIOUS
<1>4. streams' = [i \in DOMAIN streams \cup {id} |-> IF i = id THEN new ELSE streams[i]]
      BY DEF OpenStep
<1> HIDE DEF new
<1>5. /\ DOMAIN streams' = DOMAIN streams \cup {id} /\ streams'[id] = new
      /\ \A i \in DOMAIN streams : streams'[i] = streams[i]
      BY <1>2, <1>4
<1> DEFINE a == calls'[1]  b == calls'[2]
<1>6. /\ calls' \in Seq(Starts \cup Datas) /\ Len(calls') = 2
      /\ a.op = "start" /\ a.id = id /\ a.path = path
      /\ b.op = "data" /\ b.id = id /\ ~b.is_last
      /\ b.data.path = path /\ b.data.pos = 0 /\ b.data.doc = docs[1]
      BY OpenCalls
<1>7. calls' # <<>>
  <2>1. Len(calls') = 2
        BY <1>6
  <2> HIDE DEF a, b
  <2> QED BY <2>1, NotEmpty
<1>8. StreamsHeard'
      BY <1>1, <1>5, <1>6, <1>7, StillTracks DEF TrackInv, StreamsHeard, At
<1>9. CallHeard'
      BY <1>6 DEF CallHeard
<1>10. BlockInv'
  <2>1. \A s \in Range(ServiceOrder) : downlink_id'[s] # id
        BY <1>1, <1>2 DEF Still
  <2>2. StreamStart'
        BY <1>3, <1>5, <1>6, <2>1 DEF StreamStart
  <2> QED BY <1>2, <1>6, <2>2 DEF BlockInv
<1>11. QuietInv'
  <2>1. ManifestDocs' = ManifestDocs
        BY <1>1, SameDocs
  <2>2. docs[1] \in ManifestDocs => ManifestMaySend /\ path.dir # "component"
        BY DEF OpenStep, Offer
  <2>3. ASSUME ManifestFirst, NEW k \in 1 .. Len(calls'), calls'[k].op = "data",
               calls'[k].data.doc \in ManifestDocs
        PROVE  \A i \in DOMAIN streams' : streams'[i].path.dir # "component"
    <3>1. k = 1 \/ k = 2
          BY <1>6
    <3>2. docs[1] \in ManifestDocs
          BY <1>6, <2>3, <3>1
    <3> QED BY <1>3, <1>5, <2>2, <2>3, <3>2 DEF ManifestMaySend
  <2> QED BY <2>1, <2>3 DEF QuietInv
<1> QED BY <1>1, <1>8, <1>9, <1>10, <1>11, StillTracks DEF TrackInv

\* A later block is the next one for the download that hears the stream.
LEMMA BlockTrack ==
    ASSUME TypeInv, TrackInv, NEW id \in Ids, BlockStep(id)
    PROVE  TrackInv'
<1> DEFINE s == streams[id]  a == calls'[1]
<1>1. calls = <<>> /\ Still /\ UNCHANGED <<want, cloud>> /\ id \in DOMAIN streams /\ id # 0
      BY IdFacts DEF BlockStep, Free, Quiet, Still, otaVars, dispatchVars
<1>2. GoodStream(s)
      BY <1>1 DEF TypeInv, StreamsInv, GoodStream
<1>3. /\ calls' \in Seq(Starts \cup Datas) /\ Len(calls') = 1
      /\ a.op = "data" /\ a.id = id /\ (a.is_last <=> IsLast(s))
      /\ a.data.path = s.path /\ a.data.pos = s.sent /\ a.data.doc = CborRest
      BY BlockCalls
<1>4. streams' = IF IsLast(s) THEN [i \in DOMAIN streams \ {id} |-> streams[i]]
                 ELSE [streams EXCEPT ![id] = Later(s)]
      BY DEF BlockStep
<1>5. /\ DOMAIN streams' = IF IsLast(s) THEN DOMAIN streams \ {id} ELSE DOMAIN streams
      /\ \A i \in DOMAIN streams' : i # id => i \in DOMAIN streams /\ streams'[i] = streams[i]
      /\ ~IsLast(s) => streams'[id] = Later(s)
      BY <1>1, <1>4
<1>6. Later(s).path = s.path /\ Later(s).sent = s.sent + 1
      BY DEF Later
<1>7. calls' # <<>>
  <2>1. Len(calls') = 1
        BY <1>3
  <2> HIDE DEF a
  <2> QED BY <2>1, NotEmpty
<1>8. StreamsHeard'
      BY <1>1, <1>3, <1>5, <1>7, StillTracks DEF TrackInv, StreamsHeard, At
<1>9. CallHeard'
  <2>1. At(id, s.path, s.sent)
        BY <1>1 DEF TrackInv, StreamsHeard
  <2> HIDE DEF s
  <2> QED BY <1>1, <1>3, <2>1, StillTracks DEF CallHeard, At
<1>10. BlockInv'
  <2>1. /\ s.sent \in Nat /\ s.sent < ImageLen /\ Len(s.docs) \in Nat
        /\ s.path.name = Main => Len(s.docs) = ImageLen
        BY <1>2, NumberFacts DEF GoodStream
  <2>2. id \in DOMAIN streams' => ~IsLast(s)
        BY <1>5
  <2>3. id \notin DOMAIN streams' => IsLast(s)
        BY <1>1, <1>5
  <2> HIDE DEF s
  <2>4. IsLast(s) /\ s.path.name = Main => s.sent = ImageLen - 1
        BY <2>1, NumberFacts DEF IsLast
  <2>5. StreamData'
        BY <1>3, <1>5, <1>6, <2>1, <2>2, <2>3, <2>4 DEF StreamData
  <2> QED BY <1>1, <1>3, <2>5 DEF BlockInv
<1>11. QuietInv'
  <2>1. ManifestDocs' = ManifestDocs /\ CborRest \notin ManifestDocs
        BY <1>1, SameDocs, NoManifest
  <2>2. \A k \in 1 .. Len(calls') : calls'[k].data.doc \notin ManifestDocs
        BY <1>3, <2>1
  <2> QED BY <2>1, <2>2 DEF QuietInv
<1> QED BY <1>1, <1>8, <1>9, <1>10, <1>11, StillTracks DEF TrackInv

\* A manifest that is under way stays alone.
LEMMA QuietTail ==
    ASSUME CallsInv, QuietInv, calls # <<>>, calls' = Tail(calls),
           UNCHANGED <<want, cloud, streams>>
    PROVE  QuietInv'
<1>1. ManifestDocs' = ManifestDocs
      BY SameDocs
<1>2. \A k \in 1 .. Len(calls') : k + 1 \in 1 .. Len(calls) /\ calls'[k] = calls[k + 1]
      BY Behind
<1> QED BY <1>1, <1>2 DEF QuietInv

\* After a call of a block of entries.
LEMMA EntryTail ==
    ASSUME CallsInv, BlockInv, calls # <<>>, calls[1].id = 0, calls' = Tail(calls)
    PROVE  BlockInv' /\ (calls' # <<>> => calls'[1].id = 0)
<1>1. EntryCalls
      BY DEF BlockInv
<1>2. /\ \A k \in 1 .. Len(calls') : k + 1 \in 1 .. Len(calls) /\ calls'[k] = calls[k + 1]
      /\ calls' # <<>> => 1 \in 1 .. Len(calls')
      BY Behind
<1>3. EntryCalls'
      BY <1>1, <1>2 DEF EntryCalls
<1>4. calls' # <<>> => calls'[1].id = 0
      BY <1>2, <1>3 DEF EntryCalls
<1> QED BY <1>3, <1>4 DEF BlockInv

\* After the only call of a block of a stream.
LEMMA LastCall ==
    ASSUME CallsInv, BlockInv, calls # <<>>, calls[1].id # 0, calls[1].op = "data",
           calls' = Tail(calls)
    PROVE  calls' = <<>> /\ StreamData
<1>1. StreamData
      BY DEF BlockInv
<1>2. Len(calls) = 1
      BY <1>1 DEF StreamData
<1>3. calls' # <<>> => Len(calls) > 1
      BY Behind
<1> QED BY <1>1, <1>2, <1>3

\* The start of an entry, or of a stream.
LEMMA StartTrack ==
    ASSUME TypeInv, TrackInv, CallStart
    PROVE  TrackInv'
<1> DEFINE c == calls[1]  s == FirstService(WithPath(c.path))
<1>0. CallsInv /\ BlockInv /\ QuietInv
      BY DEF TypeInv, TrackInv
<1>1. /\ calls # <<>> /\ calls' = Tail(calls) /\ Head(calls) = c /\ c.op = "start"
      /\ UNCHANGED <<registered, flash, want, cloud, streams>>
      BY <1>0, CallHead DEF CallStart, cloudVars
<1>2. /\ IF s = NULL THEN UNCHANGED <<last_seen, downlink_id>>
         ELSE last_seen' = s /\ downlink_id' = [downlink_id EXCEPT ![s] = c.id]
      /\ IF s = "ota_component" THEN ota_receive_component_start(c.id, c.path)
         ELSE UNCHANGED component_download
      BY <1>1 DEF CallStart, pouch_downlink_start, dispatchVars
<1>3. c.id \in Ids \cup {0} /\ c.path \in GoodPaths
      BY <1>0, <1>1, CallHead, CallFacts
<1>4. s \in Services \cup {NULL} /\ (s = "ota_component" <=> c.path.dir = "component")
      BY PathService
<1>5. QuietInv'
      BY <1>0, <1>1, QuietTail
<1>6. BlocksOfComponent'
      BY <1>1 DEF TrackInv, BlocksOfComponent
<1>7. DOMAIN downlink_id = Services
      BY ServiceFacts DEF TypeInv, DispatchInv
<1> HIDE DEF c, s
<1>8. \A t \in Services : downlink_id'[t] = IF t = s THEN c.id ELSE downlink_id[t]
      BY <1>2, <1>4, <1>7, ServiceFacts
<1>9. ASSUME s # "ota_component"
      PROVE  /\ Heard' = Heard /\ component_download' = component_download /\ OffsetInv'
             /\ \A i, p, k : Tracks(Heard', component_download', registered'.state, flash', i, p, k)
                                 <=> At(i, p, k)
  <2>1. Heard' = Heard /\ component_download' = component_download
        BY <1>2, <1>8, <1>9 DEF Heard, Services
  <2> QED BY <1>1, <2>1 DEF At, TrackInv, OffsetInv
<1>10. CASE c.id = 0
  <2>1. s # "ota_component"
    <3>1. 1 \in 1 .. Len(calls) /\ EntryCalls
          BY <1>0, <1>1, <1>10, CallHead DEF BlockInv, c
    <3>2. c.path.dir # "component"
          BY <1>1, <3>1 DEF EntryCalls, c
    <3> QED BY <1>4, <3>2
  <2>2. BlockInv' /\ (calls' # <<>> => calls'[1].id = 0)
        BY <1>0, <1>1, <1>10, EntryTail DEF c
  <2>3. KnownInv'
        BY <1>8, <1>9, <1>10, <2>1 DEF TrackInv, KnownInv, Services
  <2>4. StreamsHeard'
    <3>1. \A i \in DOMAIN streams : calls[1].id # i
          BY <1>10, IdFacts DEF c, TypeInv, StreamsInv
    <3> QED BY <1>1, <1>9, <2>1, <3>1 DEF TrackInv, StreamsHeard, At
  <2>5. CallHeard'
    <3>1. Heard' # 0
          BY <2>3 DEF KnownInv
    <3> QED BY <2>2, <3>1 DEF CallHeard, At, Tracks
  <2> QED BY <1>5, <1>6, <1>9, <2>1, <2>2, <2>3, <2>4, <2>5 DEF TrackInv
<1>11. CASE c.id # 0
  <2> DEFINE b == calls[2]
  <2>1. StreamStart
        BY <1>0, <1>1, <1>11 DEF BlockInv, c
  <2>2. /\ Len(calls) = 2 /\ c.id \in DOMAIN streams
        /\ \A t \in Services : downlink_id[t] # c.id
        /\ b.op = "data" /\ b.id = c.id /\ ~b.is_last /\ b.data.path = c.path /\ b.data.pos = 0
        /\ streams[c.id].path = c.path /\ streams[c.id].sent = 1
        BY <2>1, ServiceFacts DEF StreamStart, c
  <2>3. Len(calls') = 1 /\ calls'[1] = b
    <3>1. /\ Len(calls') = Len(calls) - 1
          /\ \A k \in 1 .. Len(calls') : calls'[k] = calls[k + 1]
          BY <1>0, <1>1, Behind
    <3>2. Len(calls') = 1
          BY <2>2, <3>1
    <3>3. 1 \in 1 .. 1 /\ 1 + 1 = 2
          OBVIOUS
    <3>4. calls'[1] = calls[1 + 1]
          BY <3>1, <3>2, <3>3
    <3> QED BY <3>2, <3>3, <3>4
  <2> HIDE DEF b
  <2>4. calls' # <<>>
        BY <2>3, NotEmpty
  <2>5. BlockInv'
    <3>1. StreamData'
      <4>1. 0 < ImageLen /\ 0 + 1 = 1
            BY NumberFacts
      <4>2. /\ calls'[1].id = c.id /\ calls'[1].data.path = c.path /\ calls'[1].data.pos = 0
            /\ ~calls'[1].is_last
            BY <2>2, <2>3
      <4>3. c.id \in DOMAIN streams' /\ streams'[c.id].path = c.path /\ streams'[c.id].sent = 1
            BY <1>1, <2>2
      <4> QED BY <2>3, <4>1, <4>2, <4>3 DEF StreamData
    <3> QED BY <1>11, <2>2, <2>3, <3>1 DEF BlockInv
  <2>6. c.id # DOWNLINK_ID_INVALID
        BY <1>3, IdFacts
  <2>7. CASE s = "ota_component"
    <3>1. Heard' = c.id
          BY <1>8, <2>7 DEF Heard, Services
    <3>2. KnownInv'
      <4>1. \A t \in {"ota_manifest", "settings"} : downlink_id'[t] # c.id
            BY <1>8, <2>2, <2>7 DEF Services
      <4> QED BY <1>11, <3>1, <4>1 DEF KnownInv
    <3>3. StreamsHeard'
          BY <1>1, <2>2, <2>3, <2>4, <3>1 DEF StreamsHeard, At, Tracks
    <3>4. ota_receive_component_start(c.id, c.path)
          BY <1>2, <2>7
    <3>5. Follows(component_download', c.id, c.path, 0) /\ component_download'.offset <= ImageLen
      <4>1. CASE c.path.at
        <5>1. component_download' = [id |-> c.id, offset |-> 0, name |-> c.path.name]
              BY <3>4, <4>1 DEF ota_receive_component_start
        <5>2. /\ component_download'.id = c.id /\ component_download'.offset = 0
              /\ component_download'.name = c.path.name
              BY <5>1
        <5> QED BY <1>4, <2>7, <4>1, <5>2, NumberFacts DEF Follows
      <4>2. CASE ~c.path.at
        <5>1. component_download' = [component_download EXCEPT !.id = DOWNLINK_ID_INVALID]
              BY <3>4, <4>2 DEF ota_receive_component_start
        <5>2. /\ component_download'.id = DOWNLINK_ID_INVALID
              /\ component_download'.offset = component_download.offset
          <6>1. component_download \in [id : Ids \cup {0, DOWNLINK_ID_INVALID}, offset : Nat,
                                        name : {"", Main, Aux}]
                BY DEF TypeInv, DispatchInv
          <6> QED BY <5>1, <6>1
        <5>3. component_download.offset <= ImageLen
              BY DEF TrackInv, OffsetInv
        <5> QED BY <1>4, <2>7, <4>2, <5>2, <5>3 DEF Follows
      <4> QED BY <4>1, <4>2
    <3>6. CallHeard'
      <4>1. Written(registered'.state, flash', c.path, 0)
            BY DEF Written
      <4> QED BY <2>2, <2>3, <3>5, <4>1 DEF CallHeard, At, Tracks
    <3> QED BY <1>5, <1>6, <2>5, <3>2, <3>3, <3>5, <3>6 DEF TrackInv, OffsetInv
  <2>8. CASE s # "ota_component"
    <3>1. Heard' = Heard /\ Heard # c.id /\ OffsetInv'
          BY <1>9, <2>2, <2>8 DEF Heard, Services
    <3>2. KnownInv'
          BY <1>8, <3>1 DEF TrackInv, KnownInv, Services
    <3>3. StreamsHeard'
          BY <1>1, <1>9, <2>2, <2>3, <2>4, <2>8 DEF TrackInv, StreamsHeard, At, c
    <3>4. CallHeard'
          BY <2>2, <2>3, <3>1 DEF CallHeard, At, Tracks
    <3> QED BY <1>5, <1>6, <2>5, <3>1, <3>2, <3>3, <3>4 DEF TrackInv
  <2> QED BY <2>7, <2>8
<1> QED BY <1>10, <1>11

\* Data that is not for the service of components.
LEMMA OtherTrack ==
    ASSUME TypeInv, TrackInv, NEW c, NEW s, NEW fail, DataStep(c, s, fail), s # "ota_component"
    PROVE  TrackInv' /\ UNCHANGED <<flash, upgrade>>
<1>0. CallsInv /\ BlockInv /\ QuietInv /\ KnownInv
      BY DEF TypeInv, TrackInv
<1>1. /\ calls # <<>> /\ c = calls[1] /\ c.op = "data" /\ s = ActiveService(c.id)
      /\ c.id \in Ids \cup {0} /\ s \in Services \cup {NULL}
      /\ calls' = Tail(calls) /\ UNCHANGED <<want, cloud, streams>>
      BY DEF DataStep
<1>2. /\ UNCHANGED <<component_download, flash, upgrade>>
      /\ registered' # registered => c.data.doc \in ManifestDocs
  <2>1. CASE ManifestData(c)
        BY <2>1, ManifestType DEF ManifestData
  <2>2. CASE SettingsData(c) \/ NoData
        BY <2>2 DEF SettingsData, NoData
  <2> QED BY <2>1, <2>2, DataCases
<1>3. last_seen \in Services \cup {NULL} /\ DOMAIN downlink_id = Services
      BY ServiceFacts DEF TypeInv, DispatchInv
<1>4. Heard # c.id
  <2> SUFFICES ASSUME Heard = c.id
               PROVE  FALSE
      OBVIOUS
  <2>1. c.id # 0 /\ c.id # DOWNLINK_ID_INVALID
        BY <1>0, <1>1, IdFacts DEF KnownInv
  <2>2. \A t \in {"ota_manifest", "settings"} : downlink_id[t] # c.id
        BY <1>0, <2>1 DEF KnownInv
  <2>3. ActiveService(c.id) = "ota_component"
        BY <1>3, <2>2, HeardService DEF Heard
  <2> QED BY <1>1, <2>3
<1>5. \A t \in Services : \/ downlink_id'[t] = downlink_id[t]
                          \/ t = s /\ downlink_id'[t] = DOWNLINK_ID_INVALID
      BY <1>3, ServiceFacts DEF DataStep
<1>6. Heard' = Heard
      BY <1>5 DEF Heard, Services
<1>7. KnownInv'
      BY <1>0, <1>5, <1>6 DEF KnownInv, Services
<1>8. QuietInv'
      BY <1>0, <1>1, QuietTail
<1>9. OffsetInv' /\ BlocksOfComponent'
      BY <1>2 DEF TrackInv, OffsetInv, BlocksOfComponent
<1>10. StreamsHeard'
  <2> SUFFICES ASSUME NEW i \in DOMAIN streams, Heard = i
               PROVE  /\ Follows(component_download, i, streams[i].path, streams[i].sent)
                      /\ ManifestFirst => Written(registered'.state, flash, streams[i].path,
                                                  streams[i].sent)
      BY <1>1, <1>2, <1>6 DEF StreamsHeard, At, Tracks
  <2>1. At(i, streams[i].path, streams[i].sent)
        BY <1>1, <1>4 DEF TrackInv, StreamsHeard
  <2>2. /\ Follows(component_download, i, streams[i].path, streams[i].sent)
        /\ ManifestFirst => Written(registered.state, flash, streams[i].path, streams[i].sent)
        BY <2>1 DEF At, Tracks
  <2>3. streams[i].path.dir = "component"
        BY <2>2 DEF Follows
  <2>4. ManifestFirst => registered' = registered
    <3>1. 1 \in 1 .. Len(calls)
          BY <1>0, <1>1, CallHead
    <3> QED BY <1>0, <1>1, <1>2, <2>3, <3>1 DEF QuietInv
  <2> QED BY <2>2, <2>4
<1>11. CASE c.id = 0
  <2>1. BlockInv' /\ (calls' # <<>> => calls'[1].id = 0)
        BY <1>0, <1>1, <1>11, EntryTail
  <2>2. CallHeard'
    <3>1. Heard' # 0
          BY <1>7 DEF KnownInv
    <3> QED BY <2>1, <3>1 DEF CallHeard, At, Tracks
  <2> QED BY <1>2, <1>7, <1>8, <1>9, <1>10, <2>1, <2>2 DEF TrackInv
<1>12. CASE c.id # 0
  <2>1. calls' = <<>>
        BY <1>0, <1>1, <1>12, LastCall
  <2>2. BlockInv' /\ CallHeard'
        BY <2>1 DEF BlockInv, CallHeard
  <2> QED BY <1>2, <1>7, <1>8, <1>9, <1>10, <2>2 DEF TrackInv
<1> QED BY <1>11, <1>12

\* The flash with one more block of a component.
Grown(fl, opened, data) == /\ Len(fl.content) = Len(opened.content) + 1
                           /\ fl.content[Len(opened.content) + 1].data = data
                           /\ \A j \in 1 .. Len(opened.content) : fl.content[j] = opened.content[j]

\* What the callback leaves in flash: the block behind the others, or an error.
LEMMA MainWrites ==
    ASSUME FlashInv, NEW data, NEW pos \in Nat, NEW is_last, NEW fail,
           ota_main_receive(data, pos, is_last, fail)
    PROVE  LET opened == IF pos = 0 THEN NoFlash ELSE flash
           IN  /\ Len(opened.content) \in Nat
               /\ \/ /\ flash'.error = opened.error /\ Grown(flash', opened, data)
                     /\ flash'.content[Len(opened.content) + 1].offset = pos
                     /\ DOMAIN flash'.content = 1 .. Len(opened.content) + 1
                  \/ flash'.error = TRUE /\ flash'.content = opened.content
                  \/ flash'.error = TRUE /\ flash'.content = flash.content
<1>1. PICK W : flash \in [error : BOOLEAN, content : Seq(W)]
      BY DEF FlashInv
<1> DEFINE opened == IF pos = 0 THEN NoFlash ELSE flash
           w == [data |-> data, offset |-> pos]
<1>2. opened \in [error : BOOLEAN, content : Seq(W)]
      BY <1>1 DEF NoFlash
<1>3. \/ flash' = [opened EXCEPT !.content = Append(@, w)]
      \/ flash' = [opened EXCEPT !.error = TRUE]
      \/ flash' = [flash EXCEPT !.error = TRUE]
      BY DEF ota_main_receive
<1>4. w.data = data /\ w.offset = pos
      OBVIOUS
<1> HIDE DEF opened, w
<1> DEFINE q == opened.content
<1>5. q \in Seq(W)
      BY <1>2
<1>6. CASE flash' = [opened EXCEPT !.content = Append(@, w)]
  <2>1. flash'.error = opened.error /\ flash'.content = Append(q, w)
        BY <1>2, <1>6
  <2> HIDE DEF q
  <2>2. /\ Len(q) \in Nat /\ Len(Append(q, w)) = Len(q) + 1 /\ Append(q, w)[Len(q) + 1] = w
        /\ \A j \in 1 .. Len(q) : Append(q, w)[j] = q[j]
        /\ DOMAIN Append(q, w) = 1 .. Len(q) + 1
        BY <1>5
  <2>3. /\ Len(flash'.content) = Len(q) + 1 /\ flash'.content[Len(q) + 1] = w
        /\ \A j \in 1 .. Len(q) : flash'.content[j] = q[j]
        /\ DOMAIN flash'.content = 1 .. Len(q) + 1
        BY <2>1, <2>2
  <2> QED BY <1>4, <2>1, <2>2, <2>3 DEF q, Grown, opened
<1>7. CASE flash' = [opened EXCEPT !.error = TRUE]
  <2>1. flash'.error = TRUE /\ flash'.content = q
        BY <1>2, <1>7
  <2>2. Len(q) \in Nat
        BY <1>5
  <2> QED BY <2>1, <2>2 DEF opened
<1>8. CASE flash' = [flash EXCEPT !.error = TRUE]
  <2>1. flash'.error = TRUE /\ flash'.content = flash.content
        BY <1>1, <1>8
  <2>2. Len(q) \in Nat
        BY <1>5
  <2> QED BY <2>1, <2>2 DEF opened
<1> QED BY <1>3, <1>6, <1>7, <1>8

\* A block of the image of p, written behind the ones before it.
LEMMA NextWritten ==
    ASSUME FlashInv, NEW d, NEW p, NEW pos \in Nat, d.path = p, d.pos = pos, NEW state,
           NEW is_last, NEW fail, ota_main_receive(d, pos, is_last, fail),
           Written(state, flash, p, pos)
    PROVE  Written(state, flash', p, pos + 1)
<1> SUFFICES ASSUME p.name = Main, state = DOWNLOADING, ~flash'.error
             PROVE  /\ Len(flash'.content) = pos + 1
                    /\ \A j \in 1 .. pos + 1 : /\ flash'.content[j].data.path = p
                                               /\ flash'.content[j].data.pos = j - 1
    BY DEF Written
<1> DEFINE opened == IF pos = 0 THEN NoFlash ELSE flash  n == Len(opened.content)
<1>1. n \in Nat /\ flash'.error = opened.error /\ Grown(flash', opened, d)
      BY MainWrites
<1>2. n = pos /\ \A j \in 1 .. pos : /\ opened.content[j].data.path = p
                                     /\ opened.content[j].data.pos = j - 1
  <2>1. CASE pos = 0
        BY <2>1 DEF NoFlash
  <2>2. CASE pos # 0
    <3>1. opened = flash /\ pos > 0
          BY <2>2
    <3>2. ~flash.error
          BY <1>1, <3>1
    <3> QED BY <3>1, <3>2 DEF Written
  <2> QED BY <2>1, <2>2
<1> HIDE DEF opened, n
<1>3. Len(flash'.content) = pos + 1 /\ flash'.content[pos + 1].data = d
      BY <1>1, <1>2 DEF Grown, n
<1>4. \A j \in 1 .. pos : flash'.content[j] = opened.content[j]
      BY <1>1, <1>2 DEF Grown, n
<1>5. ASSUME NEW j \in 1 .. pos + 1
      PROVE  flash'.content[j].data.path = p /\ flash'.content[j].data.pos = j - 1
  <2>1. CASE j = pos + 1
    <3>1. j - 1 = pos
          BY <2>1
    <3> QED BY <1>3, <2>1, <3>1
  <2>2. CASE j # pos + 1
    <3>1. j \in 1 .. pos
          BY <2>2
    <3> QED BY <1>2, <1>4, <3>1
  <2> QED BY <2>1, <2>2
<1> QED BY <1>3, <1>5

\* Blocks that came in the right place are written with their offset.
LEMMA NextBlocks ==
    ASSUME FlashInv, BlocksOfComponent, NEW d, NEW pos \in Nat, d.path.name = Main, d.pos = pos,
           NEW is_last, NEW fail, ota_main_receive(d, pos, is_last, fail)
    PROVE  BlocksOfComponent'
<1> DEFINE opened == IF pos = 0 THEN NoFlash ELSE flash  n == Len(opened.content)
           Good(q) == \A i \in DOMAIN q : /\ q[i].data.path.name = Main
                                          /\ q[i].data.pos = q[i].offset
<1>1. Good(flash.content)
      BY DEF BlocksOfComponent
<1>2. Good(opened.content) /\ DOMAIN opened.content = 1 .. n
  <2>1. PICK W : flash \in [error : BOOLEAN, content : Seq(W)]
        BY DEF FlashInv
  <2>2. DOMAIN flash.content = 1 .. Len(flash.content)
        BY <2>1
  <2>3. CASE pos = 0
        BY <2>3 DEF NoFlash
  <2>4. CASE pos # 0
        BY <1>1, <2>2, <2>4
  <2> QED BY <2>3, <2>4
<1>3. /\ n \in Nat
      /\ \/ /\ Grown(flash', opened, d) /\ flash'.content[n + 1].offset = pos
            /\ DOMAIN flash'.content = 1 .. n + 1
         \/ flash'.content = opened.content
         \/ flash'.content = flash.content
      BY MainWrites
<1> HIDE DEF opened
<1>4. Good(flash'.content)
  <2>1. CASE flash'.content = opened.content \/ flash'.content = flash.content
        BY <1>1, <1>2, <2>1
  <2>2. CASE /\ Grown(flash', opened, d) /\ flash'.content[n + 1].offset = pos
             /\ DOMAIN flash'.content = 1 .. n + 1
    <3>1. ASSUME NEW i \in 1 .. n + 1
          PROVE  /\ flash'.content[i].data.path.name = Main
                 /\ flash'.content[i].data.pos = flash'.content[i].offset
      <4>1. CASE i = n + 1
            BY <2>2, <4>1 DEF Grown
      <4>2. CASE i # n + 1
        <5>1. i \in 1 .. n
              BY <1>3, <4>2
        <5> QED BY <1>2, <2>2, <5>1 DEF Grown
      <4> QED BY <4>1, <4>2
    <3> QED BY <2>2, <3>1
  <2> QED BY <1>3, <2>1, <2>2
<1> QED BY <1>4 DEF BlocksOfComponent

\* A block of a component.
LEMMA ComponentTrack ==
    ASSUME TypeInv, TrackInv, NEW c, NEW fail, DataStep(c, "ota_component", fail),
           ComponentData(c, fail)
    PROVE  TrackInv' /\ (ManifestFirst => ImageIsWhole')
<1> DEFINE i == c.id  d == c.data  p == d.path  pos == d.pos  dl == component_download
<1>0. CallsInv /\ BlockInv /\ KnownInv /\ FlashInv
      BY DEF TypeInv, TrackInv
<1>1. /\ calls # <<>> /\ c = calls[1] /\ c.op = "data" /\ "ota_component" = ActiveService(i)
      /\ ~upgrade /\ i \in Ids \cup {0} /\ p \in GoodPaths /\ pos \in Nat
      /\ calls' = Tail(calls) /\ UNCHANGED <<want, cloud, streams, registered>>
      /\ ota_receive_component_data(d, c.is_last, fail)
      BY DEF DataStep, ComponentData
<1>2. Heard = i /\ i # 0 /\ i \in Ids /\ i # DOWNLINK_ID_INVALID
  <2>1. last_seen \in Services \cup {NULL}
        BY ServiceFacts DEF TypeInv, DispatchInv
  <2>2. "ota_component" # NULL
        BY DEF NULL
  <2>3. Heard = i
        BY <1>1, <2>1, <2>2, IdService DEF Heard
  <2> QED BY <1>0, <1>1, <2>3, IdFacts DEF KnownInv
<1>3. /\ calls' = <<>> /\ pos < ImageLen
      /\ i \in DOMAIN streams => ~c.is_last /\ streams[i].path = p /\ streams[i].sent = pos + 1
      /\ i \notin DOMAIN streams /\ p.name = Main => pos = ImageLen - 1
      BY <1>0, <1>1, <1>2, LastCall DEF StreamData
<1>4. /\ Follows(dl, i, p, pos)
      /\ ManifestFirst => Written(registered.state, flash, p, pos)
  <2>1. At(i, p, pos)
        BY <1>1 DEF TrackInv, CallHeard
  <2> QED BY <1>2, <2>1 DEF At, Tracks
<1>5. dl \in [id : Ids \cup {0, DOWNLINK_ID_INVALID}, offset : Nat, name : {"", Main, Aux}]
      BY DEF TypeInv, DispatchInv
<1>6. p.name = Main => p.at /\ p.ver \in 0 .. MaxVersion
      BY <1>1 DEF GoodPaths
<1> HIDE DEF i, d, p, pos
<1>7. /\ Follows(dl', i, p, pos + 1) /\ dl'.offset <= ImageLen
      /\ \/ /\ p.name = Main /\ registered.state = DOWNLOADING
            /\ ota_main_receive(d, pos, c.is_last, fail)
         \/ /\ ~(p.name = Main /\ registered.state = DOWNLOADING)
            /\ UNCHANGED <<flash, upgrade>>
  <2>1. CASE p.at
    <3>1. dl.id = i /\ dl.offset = pos /\ dl.name = p.name
          BY <1>4, <2>1 DEF Follows
    <3>2. /\ golioth_ota_receive_component(d, c.is_last, fail)
          /\ dl' = [dl EXCEPT !.offset = @ + 1]
          BY <1>1, <1>2, <3>1 DEF ota_receive_component_data
    <3>3. dl'.id = i /\ dl'.offset = pos + 1 /\ dl'.name = p.name
          BY <1>5, <3>1, <3>2
    <3>4. pos + 1 <= ImageLen
          BY <1>1, <1>3, NumberFacts
    <3>5. Follows(dl', i, p, pos + 1) /\ dl'.offset <= ImageLen
          BY <1>4, <2>1, <3>3, <3>4 DEF Follows
    <3>6. \/ /\ p.name = Main /\ registered.state = DOWNLOADING
             /\ ota_main_receive(d, pos, c.is_last, fail)
          \/ /\ ~(p.name = Main /\ registered.state = DOWNLOADING)
             /\ UNCHANGED <<flash, upgrade>>
          BY <3>1, <3>2 DEF golioth_ota_receive_component, Accepts
    <3> QED BY <3>5, <3>6
  <2>2. CASE ~p.at
    <3>1. dl.id = DOWNLINK_ID_INVALID
          BY <1>4, <2>2 DEF Follows
    <3>2. UNCHANGED <<component_download, flash, upgrade>>
          BY <1>1, <3>1 DEF ota_receive_component_data
    <3>3. dl.offset <= ImageLen
          BY DEF TrackInv, OffsetInv
    <3> QED BY <1>4, <1>6, <2>2, <3>1, <3>2, <3>3 DEF Follows
  <2> QED BY <2>1, <2>2
<1>8. d.path = p /\ d.pos = pos /\ pos \in Nat
      BY <1>1 DEF d, p, pos
<1>9. BlocksOfComponent'
  <2>1. CASE UNCHANGED <<flash, upgrade>>
        BY <2>1 DEF TrackInv, BlocksOfComponent
  <2>2. CASE p.name = Main /\ ota_main_receive(d, pos, c.is_last, fail)
        BY <1>0, <1>8, <2>2, NextBlocks DEF TrackInv
  <2> QED BY <1>7, <2>1, <2>2
<1>10. ManifestFirst => Written(registered.state, flash', p, pos + 1)
  <2>1. HAVE ManifestFirst
  <2>2. CASE ~(p.name = Main /\ registered.state = DOWNLOADING)
        BY <2>2 DEF Written
  <2>3. CASE ota_main_receive(d, pos, c.is_last, fail)
        BY <1>0, <1>4, <1>8, <2>1, <2>3, NextWritten
  <2> QED BY <1>7, <2>2, <2>3
<1>11. ManifestFirst => ImageIsWhole'
  <2> SUFFICES ASSUME ManifestFirst, upgrade', ~flash'.error
               PROVE  \E v \in 0 .. MaxVersion : IsImage(flash'.content, v)
      BY DEF ImageIsWhole
  <2>1. /\ p.name = Main /\ registered.state = DOWNLOADING
        /\ ota_main_receive(d, pos, c.is_last, fail)
        BY <1>1, <1>7
  <2>2. c.is_last
        BY <1>1, <2>1 DEF ota_main_receive
  <2>3. pos + 1 = ImageLen /\ pos + 1 > 0
        BY <1>3, <1>8, <2>1, <2>2, NumberFacts
  <2>4. /\ Len(flash'.content) = ImageLen
        /\ \A j \in 1 .. ImageLen : /\ flash'.content[j].data.path = p
                                     /\ flash'.content[j].data.pos = j - 1
        BY <1>10, <2>1, <2>3 DEF Written
  <2>5. IsImage(flash'.content, p.ver)
        BY <2>1, <2>4 DEF IsImage
  <2>6. p.ver \in 0 .. MaxVersion
        BY <1>6, <2>1
  <2> QED BY <2>5, <2>6
<1>12. DOMAIN downlink_id = Services
      BY ServiceFacts DEF TypeInv, DispatchInv
<1>13. /\ c.is_last => Heard' = DOWNLINK_ID_INVALID
       /\ ~c.is_last => UNCHANGED downlink_id /\ Heard' = Heard
      BY <1>12 DEF DataStep, Heard, Services, NULL
<1>14. KnownInv'
  <2>1. CASE c.is_last
        BY <1>13, <2>1, IdFacts DEF KnownInv
  <2>2. CASE ~c.is_last
        BY <1>0, <1>13, <2>2 DEF KnownInv
  <2> QED BY <2>1, <2>2
<1>15. StreamsHeard'
  <2> SUFFICES ASSUME NEW j \in DOMAIN streams, Heard' = j
               PROVE  /\ Follows(dl', j, streams[j].path, streams[j].sent)
                      /\ ManifestFirst => Written(registered.state, flash', streams[j].path,
                                                  streams[j].sent)
      BY <1>1 DEF StreamsHeard, At, Tracks
  <2>1. j \in Ids
        BY DEF TypeInv, StreamsInv
  <2>2. ~c.is_last /\ j = i
        BY <1>2, <1>13, <2>1, IdFacts
  <2>3. streams[j].path = p /\ streams[j].sent = pos + 1
        BY <1>3, <2>2
  <2> QED BY <1>7, <1>10, <2>2, <2>3
<1>16. CallHeard' /\ BlockInv' /\ QuietInv'
      BY <1>3 DEF CallHeard, BlockInv, QuietInv
<1> QED BY <1>7, <1>9, <1>11, <1>14, <1>15, <1>16 DEF TrackInv, OffsetInv

\* No step leaves the invariants of the download.
LEMMA RebootTrack ==
    ASSUME Reboot
    PROVE  TrackInv' /\ ~upgrade'
<1>1. /\ component_download' = NoDownload /\ flash' = NoFlash /\ upgrade' = FALSE
      /\ downlink_id' = NoIds /\ calls' = <<>> /\ streams' = NoStreams
      BY DEF Reboot, Boot, OtaReset
<1>2. DOMAIN streams' = {}
      BY <1>1 DEF NoStreams
<1>3. KnownInv'
  <2>1. \A s \in Services : downlink_id'[s] = DOWNLINK_ID_INVALID
        BY <1>1, ServiceFacts DEF NoIds
  <2> QED BY <2>1, IdFacts DEF KnownInv, Heard, Services
<1>4. StreamsHeard' /\ CallHeard' /\ BlockInv' /\ QuietInv'
      BY <1>1, <1>2 DEF StreamsHeard, CallHeard, BlockInv, QuietInv
<1>5. OffsetInv' /\ BlocksOfComponent'
  <2>1. component_download'.offset = 0 /\ flash'.content = <<>>
        BY <1>1 DEF NoDownload, NoFlash
  <2> QED BY <2>1, NumberFacts DEF OffsetInv, BlocksOfComponent
<1> QED BY <1>1, <1>3, <1>4, <1>5 DEF TrackInv

\* Steps between two blocks that leave the download alone.
LEMMA FreeTrack ==
    ASSUME TypeInv, TrackInv, calls = <<>>, UNCHANGED calls, Still,
           streams' = streams \/ streams' = NoStreams
    PROVE  TrackInv'
<1>1. CallHeard' /\ BlockInv' /\ QuietInv'
      BY DEF CallHeard, BlockInv, QuietInv
<1>2. StreamsHeard'
  <2>1. CASE streams' = streams
        BY <2>1, StillTracks DEF TrackInv, StreamsHeard, At
  <2>2. CASE streams' = NoStreams
        BY <2>2 DEF StreamsHeard, NoStreams
  <2> QED BY <2>1, <2>2
<1> QED BY <1>1, <1>2, StillTracks DEF TrackInv

\* A step that changes nothing.
LEMMA StutterTrack ==
    ASSUME TrackInv, UNCHANGED vars
    PROVE  TrackInv'
<1>1. /\ Still /\ UNCHANGED <<calls, streams, want, cloud>>
      BY DEF vars, otaVars, dispatchVars, cloudVars, Still
<1>2. StreamsHeard' /\ CallHeard'
      BY <1>1, StillTracks DEF TrackInv, StreamsHeard, CallHeard, At
<1>3. BlockInv'
      BY <1>1 DEF TrackInv, BlockInv, EntryCalls, StreamStart, StreamData, Still
<1>4. QuietInv'
  <2>1. ManifestDocs' = ManifestDocs
        BY <1>1, SameDocs
  <2> QED BY <1>1, <2>1 DEF TrackInv, QuietInv
<1> QED BY <1>1, <1>2, <1>3, <1>4, StillTracks DEF TrackInv

\* Every step keeps the download in its place.
LEMMA TrackNext ==
    ASSUME TypeInv, TrackInv, ~ReuseIds, [Next]_vars
    PROVE  TrackInv'
<1>1. CASE CallStart
      BY <1>1, StartTrack
<1>2. CASE \E c, s, fail : DataStep(c, s, fail)
  <2>1. PICK c, s, fail : DataStep(c, s, fail)
        BY <1>2
  <2>2. CASE s # "ota_component"
        BY <2>1, <2>2, OtherTrack
  <2>3. CASE s = "ota_component"
    <3>1. ComponentData(c, fail)
          BY <2>1, <2>3, DataCases DEF NULL
    <3> QED BY <2>1, <2>3, <3>1, ComponentTrack
  <2> QED BY <2>2, <2>3
<1>3. CASE CloudStep
  <2>1. CASE BreakOff
    <3>1. calls = <<>> /\ UNCHANGED calls /\ Still /\ streams' = NoStreams
          BY <2>1 DEF BreakOff, Free, Still, otaVars, dispatchVars
    <3> QED BY <3>1, FreeTrack
  <2> QED BY <1>3, <2>1, EntryTrack, OpenTrack, BlockTrack DEF CloudStep
<1>4. CASE Reboot
      BY <1>4, RebootTrack
<1>5. CASE golioth_sync_to_cloud \/ Release \/ Rollback \/ ChangeSettings
  <2>1. calls = <<>> /\ UNCHANGED calls /\ Still /\ streams' = streams
        BY <1>5 DEF golioth_sync_to_cloud, Release, Rollback, ChangeSettings, Free, Still, otaVars,
                    dispatchVars
  <2> QED BY <2>1, FreeTrack
<1>6. CASE UNCHANGED vars
      BY <1>6, StutterTrack
<1> QED BY <1>1, <1>2, <1>3, <1>4, <1>5, <1>6, Steps

\* Once an upgrade was requested the thread does nothing but reboot.
LEMMA ImageNext ==
    ASSUME TypeInv, TrackInv, ManifestFirst, ImageIsWhole, [Next]_vars
    PROVE  ImageIsWhole'
<1>1. ASSUME ~upgrade'
      PROVE  ImageIsWhole'
      BY <1>1 DEF ImageIsWhole
<1>2. ASSUME ~upgrade, UNCHANGED upgrade
      PROVE  ImageIsWhole'
      BY <1>1, <1>2
<1>3. CASE CallStart
      BY <1>2, <1>3 DEF CallStart
<1>4. CASE \E c, s, fail : DataStep(c, s, fail)
  <2>1. PICK c, s, fail : DataStep(c, s, fail)
        BY <1>4
  <2>2. CASE s # "ota_component"
    <3>1. ~upgrade /\ UNCHANGED upgrade
          BY <2>1, <2>2, OtherTrack DEF DataStep
    <3> QED BY <1>2, <3>1
  <2>3. CASE s = "ota_component"
    <3>1. ComponentData(c, fail)
          BY <2>1, <2>3, DataCases DEF NULL
    <3> QED BY <2>1, <2>3, <3>1, ComponentTrack
  <2> QED BY <2>2, <2>3
<1>5. CASE CloudStep
      BY <1>2, <1>5 DEF CloudStep, EntryStep, OpenStep, BlockStep, BreakOff, Quiet, Free, otaVars
<1>6. CASE Reboot
      BY <1>1, <1>6, RebootTrack
<1>7. CASE golioth_sync_to_cloud \/ Release \/ Rollback \/ ChangeSettings
      BY <1>2, <1>7 DEF golioth_sync_to_cloud, Release, Rollback, ChangeSettings, Free, otaVars
<1>8. CASE UNCHANGED vars
      BY <1>8 DEF ImageIsWhole, IsImage, vars, otaVars
<1> QED BY <1>3, <1>4, <1>5, <1>6, <1>7, <1>8, Steps

\* The types of the model follow from the invariants.
LEMMA TypesOK ==
    ASSUME TypeInv, OffsetInv, OfferInv
    PROVE  TypeOK
<1>1. component_download \in [id : Ids \cup {0, DOWNLINK_ID_INVALID}, offset : 0 .. ImageLen,
                              name : {"", Main, Aux}]
  <2> DEFINE D == Ids \cup {0, DOWNLINK_ID_INVALID}  N == {"", Main, Aux}
  <2>1. component_download \in [id : D, offset : Nat, name : N]
        BY DEF TypeInv, DispatchInv
  <2> HIDE DEF D, N
  <2>2. component_download.offset \in 0 .. ImageLen
        BY <2>1, NumberFacts DEF OffsetInv
  <2>3. component_download \in [id : D, offset : 0 .. ImageLen, name : N]
        BY <2>1, <2>2
  <2> QED BY <2>3 DEF D, N
<1>2. /\ registered \in [target : Int, state : {IDLE, DOWNLOADING}]
      /\ running \in 0 .. MaxVersion /\ want \in 0 .. MaxVersion
      BY DEF TypeInv, VersionInv
<1>3. flash.error \in BOOLEAN
      BY DEF TypeInv, FlashInv
<1>4. upgrade \in BOOLEAN
      BY DEF TypeInv, DispatchInv
<1>5. /\ settings_version \in -1 .. cloud /\ cloud \in 0 .. Len(CloudSettings)
      /\ \A n \in DOMAIN value : value[n] = Unset \/ value[n].type = SettingType[n]
      BY DEF TypeInv, SettingsInv
<1>6. /\ last_seen \in Range(ServiceOrder) \cup {NULL}
      /\ downlink_id \in [Range(ServiceOrder) -> Ids \cup {0, DOWNLINK_ID_INVALID}]
      /\ faults \in 0 .. MaxFaults
      BY DEF TypeInv, DispatchInv
<1>7. \A i \in DOMAIN calls : calls[i].id \in Ids \cup {0}
  <2>1. \A i \in DOMAIN calls : calls[i] \in Starts \cup Datas
        BY DEF TypeInv, CallsInv
  <2> QED BY <2>1, CallFacts
<1>8. \A i \in DOMAIN streams : /\ i \in Ids /\ streams[i].path \in Paths
                                /\ streams[i].sent \in 1 .. Len(streams[i].docs) - 1
      BY DEF TypeInv, StreamsInv, GoodPaths
<1>9. offered \subseteq 0 .. MaxVersion
      BY DEF OfferInv
<1> QED BY <1>1, <1>2, <1>3, <1>4, <1>5, <1>6, <1>7, <1>8, <1>9 DEF TypeOK

\* The download is in its place in every state.
LEMMA TracksHold == ~ReuseIds => (Spec => []TrackInv)
<1> SUFFICES ASSUME ~ReuseIds
             PROVE  Spec => []TrackInv
    OBVIOUS
<1>1. TypeInv /\ TrackInv /\ [Next]_vars => TrackInv'
      BY TrackNext
<1> QED BY <1>1, TrackInit, TypesHold, PTL DEF Spec

\* Every variable of the dispatcher, the settings and the updates keeps its type
\* and range: the offset of a download does not pass the end of the image, and the
\* version of the settings not the one of the cloud.
THEOREM TypeCorrect == ~ReuseIds => (Spec => []TypeOK)
<1> SUFFICES ASSUME ~ReuseIds
             PROVE  Spec => []TypeOK
    OBVIOUS
<1>1. TypeInv /\ OfferInv /\ TrackInv => TypeOK
      BY TypesOK DEF TrackInv
<1> QED BY <1>1, TypesHold, OffersHold, TracksHold, PTL

\* The callback of a component (ota_main_receive) gets blocks of that component
\* only, each with its place in the image as the offset, however the blocks of
\* several streams, entries, lost pouches and paths without a service follow each
\* other in pouch_downlink_start and pouch_downlink_data (dispatch.c), provided
\* that the cloud takes no id that the device may still remember.
THEOREM BlocksSafe == ~ReuseIds => (Spec => []BlocksOfComponent)
<1> SUFFICES ASSUME ~ReuseIds
             PROVE  Spec => []BlocksOfComponent
    OBVIOUS
<1>1. TrackInv => BlocksOfComponent
      BY DEF TrackInv
<1> QED BY <1>1, TracksHold, PTL

\* When the upgrade is requested the flash holds the whole of one image, all
\* blocks of one version, or has reported an error: a broken pouch, a restart of the
\* download, a second stream or a component that was marked late leaves no gap
\* (ota_main_receive in fw_update.c), provided that no manifest comes between the
\* blocks of a component.
THEOREM ImageSafe == ~ReuseIds /\ ManifestFirst => (Spec => []ImageIsWhole)
<1> SUFFICES ASSUME ~ReuseIds, ManifestFirst
             PROVE  Spec => []ImageIsWhole
    OBVIOUS
<1>1. Init => ImageIsWhole
      BY DEF Init, OtaInit, ImageIsWhole
<1>2. TypeInv /\ TrackInv /\ ImageIsWhole /\ [Next]_vars => ImageIsWhole'
      BY ImageNext
<1> QED BY <1>1, <1>2, TypesHold, TracksHold, PTL DEF Spec
=============================================================================
