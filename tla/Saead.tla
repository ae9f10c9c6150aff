-------------------------------- MODULE Saead --------------------------------
(***************************************************************************)
(* The SAEAD crypto layer (crypto_saead.c, saead/, and the certificates of *)
(* cert.c as far as keys depend on them): an uplink session with a random  *)
(* id, a downlink session that follows the headers the server sends, their *)
(* keys in the slots of PSA crypto, the nonces and the replay checks.      *)
(*                                                                         *)
(* Every call is one step: the callers are cooperative threads.  A key is  *)
(* what it is derived from; a key id is its place in the history of keys,  *)
(* 0 is PSA_KEY_ID_NULL.  Decryption succeeds exactly when key, algorithm, *)
(* nonce and associated data are those of the encryption.  Calls that fail *)
(* without changing state are stuttering steps.                            *)
(***************************************************************************)
EXTENDS Integers, Sequences, FiniteSets

CONSTANTS
    Headers,       \* headers of downlink pouches: [sid, alg, log, pouch]
    DeviceAlg,     \* ENCRYPTION_ALGORITHM
    DeviceLog,     \* MAX_BLOCK_PAYLOAD_SIZE_LOG
    PouchBlocks,   \* blocks of a downlink pouch
    NonceMod,      \* number of values of a 16 bit field of the nonce
    MaxCerts,      \* bound on the server keys that are installed one after the other
    KeySlots,      \* volatile key slots of PSA crypto
    MaxSessions,   \* bound on the uplink sessions
    MaxBlocks,     \* bound on the blocks of an uplink pouch
    MaxStarts      \* bound on the downlink headers that are accepted

Initiators == {"device", "server"}
SessionIds == [initiator : Initiators, type : {"random", "sequential"}, value : Nat]

ASSUME SaeadAssumption ==
    /\ \A h \in Headers : /\ h.sid \in SessionIds
                          /\ h.pouch \in 0 .. NonceMod - 1
                          /\ DOMAIN h = {"sid", "alg", "log", "pouch"}
    /\ PouchBlocks \in Nat /\ NonceMod \in Nat \ {0, 1} /\ KeySlots \in Nat
    /\ MaxCerts \in Nat /\ MaxSessions \in Nat /\ MaxBlocks \in Nat /\ MaxStarts \in Nat

VARIABLES
    inited,     \* crypto_init has the private key and the device certificate
    serverKey,  \* cert.c: which public key of the server is stored, 0 is none
    keys, live, \* PSA: all keys ever made, the ids of those that exist
    up, down,   \* the sessions of saead/uplink.c and saead/downlink.c
    seqnum, seenPouch, \* server.seqnum, server.pouch_id
    inSession,  \* uplink.c: pouch_uplink_start succeeded, end_session not called
    fresh,      \* the next random session id
    header,     \* the header of the uplink pouch
    sent,       \* history: the blocks of the uplink pouch
    nonces,     \* history: every nonce of the device, with its key
    starts, got \* history: accepted headers, blocks decrypted since the last one

uplinkVars == <<up, inSession, fresh, header, sent, nonces>>
downlinkVars == <<down, seqnum, seenPouch, starts, got>>
vars == <<inited, serverKey, keys, live, uplinkVars, downlinkVars>>

-----------------------------------------------------------------------------
\* What a session key is derived from: the fields of session_key_info_build, and
\* the server's key in the key agreement.
Material(sid, alg, log, cert) == [sid |-> sid, alg |-> alg, log |-> log, cert |-> cert]

NewKey == Len(keys) + 1
SlotFree == Cardinality(live) < KeySlots

\* Mutant: the result of the derivation is not looked at.
session_key_unchecked == {NewKey}

\* session_key_generate needs both key pairs and a slot.  It may fail even then.
session_key_generate == IF inited /\ serverKey # 0 /\ SlotFree THEN {0, NewKey} ELSE {0}

\* The effect of a generated key k of material m, with the keys in gone destroyed.
Keep(k, m, gone) ==
    /\ keys' = IF k = 0 THEN keys ELSE Append(keys, m)
    /\ live' = (live \ gone) \cup ({k} \ {0})

\* A block is [key, pouch, index, aad], with what its key is derived from.  It is
\* identified by its authentication tag; its associated data is the tag of the
\* block before it in the pouch.
Tag(b) == [key |-> b.key, pouch |-> b.pouch, index |-> b.index]
Aad(s) == IF s.block > 0 THEN s.ad ELSE <<>>

\* nonce_generate, with the key it is used with.
Nonce(s) == [key |-> keys[s.key], pouch |-> s.pouch % NonceMod, index |-> s.block % NonceMod]

\* Mutant: a pouch continues the numbers of the one before.
session_pouch_continue(s, id) == [s EXCEPT !.pouch = id]

\* session_pouch_start of an active session.
session_pouch_start(s, id) == [s EXCEPT !.pouch = id, !.block = 0]

\* The end of session_encrypt_block and session_decrypt_block.
NextBlock(s, tag) == [s EXCEPT !.ad = <<tag>>, !.block = @ + 1]

\* session_end: the session and the key ids that are destroyed.
session_end(s) == IF "ACTIVE" \in s.flags THEN [s EXCEPT !.flags = @ \ {"ACTIVE"}, !.key = 0]
                                          ELSE s
Destroyed(s) == IF "ACTIVE" \in s.flags THEN {s.key} ELSE {}

-----------------------------------------------------------------------------
NoSession == [sid |-> [initiator |-> "device", type |-> "sequential", value |-> 0],
              flags |-> {}, alg |-> DeviceAlg, key |-> 0, pouch |-> 0, block |-> 0,
              ad |-> <<>>]

Init ==
    /\ inited = FALSE /\ serverKey = 0
    /\ keys = <<>> /\ live = {}
    /\ up = NoSession /\ down = NoSession
    /\ seqnum = 0 /\ seenPouch = 0
    /\ inSession = FALSE /\ fresh = 1 /\ header = <<>> /\ sent = <<>> /\ nonces = <<>>
    /\ starts = 0 /\ got = <<>>

\* crypto_init and cert_device_set.
CryptoInit ==
    /\ ~inited
    /\ inited' = TRUE
    /\ UNCHANGED <<serverKey, keys, live, uplinkVars, downlinkVars>>

\* cert_server_set stores the key of a certificate, also in place of an older one.
\* A certificate that is refused changes nothing, and neither does one with a serial
\* number that is too long, for which the call returns 0 all the same.
CertServerSet ==
    /\ serverKey < MaxCerts
    /\ serverKey' = serverKey + 1
    /\ UNCHANGED <<inited, keys, live, uplinkVars, downlinkVars>>

-----------------------------------------------------------------------------
(* Uplink: what pouch_uplink_start calls *)

\* session_id_generate for a random id.
session_id_generate == [initiator |-> "device", type |-> "random", value |-> fresh]

\* There is no random number: the flags are cleared, the id is anything.
SessionStartFails ==
    /\ ~inSession /\ fresh <= MaxSessions
    /\ fresh' = fresh + 1
    /\ up' = [up EXCEPT !.flags = {}, !.sid = session_id_generate]
    /\ UNCHANGED <<inited, serverKey, keys, live, inSession, header, sent, nonces,
                   downlinkVars>>

\* Mutant: an id is generated for the first session only.
SessionStartSameId(k) ==
    [sid |-> IF up.sid.value > 0 THEN up.sid ELSE session_id_generate,
     flags |-> {"VALID", "ACTIVE"}, alg |-> DeviceAlg, key |-> k,
     pouch |-> 0, block |-> up.block, ad |-> up.ad]

\* saead_uplink_session_start with the key k, which may be NULL.
SessionStart(k) ==
    [sid |-> session_id_generate, flags |-> {"VALID", "ACTIVE"}, alg |-> DeviceAlg,
     key |-> k, pouch |-> 0, block |-> up.block, ad |-> up.ad]

\* crypto_session_start and crypto_pouch_start, then crypto_header_get.  When the
\* header cannot be made pouch_uplink_start gives up and nobody ends the session.
UplinkStart(k) ==
    LET s == SessionStart(k)
    IN  /\ ~inSession /\ fresh <= MaxSessions
        /\ fresh' = fresh + 1
        /\ Keep(k, Material(s.sid, s.alg, DeviceLog, serverKey), {})
        /\ up' = session_pouch_start(s, s.pouch + 1)
        /\ sent' = <<>>
        /\ \/ /\ inited
              /\ header' = <<[sid |-> up'.sid, alg |-> up'.alg, log |-> DeviceLog,
                             pouch |-> up'.pouch]>>
              /\ inSession' = TRUE
           \/ header' = <<>> /\ inSession' = FALSE
        /\ UNCHANGED <<inited, serverKey, nonces, downlinkVars>>

\* saead_uplink_encrypt_block; without a key the encryption fails and the block is
\* dropped.
EncryptBlock ==
    LET b == [key |-> keys[up.key], pouch |-> up.pouch, index |-> up.block, aad |-> Aad(up)]
    IN  /\ inSession /\ "ACTIVE" \in up.flags
        /\ up.key \in live /\ Len(sent) < MaxBlocks
        /\ sent' = Append(sent, b)
        /\ nonces' = Append(nonces, Nonce(up))
        /\ up' = NextBlock(up, Tag(b))
        /\ UNCHANGED <<inited, serverKey, keys, live, inSession, fresh, header, downlinkVars>>

\* Mutant: the keys are destroyed and the sessions stay active.
SessionEndActive ==
    /\ inSession
    /\ inSession' = FALSE
    /\ live' = live \ (Destroyed(up) \cup Destroyed(down))
    /\ UNCHANGED <<inited, serverKey, keys, up, down, fresh, header, sent, nonces, seqnum,
                   seenPouch, starts, got>>

\* crypto_session_end ends both sessions.
SessionEnd ==
    /\ inSession
    /\ inSession' = FALSE
    /\ up' = session_end(up) /\ down' = session_end(down)
    /\ live' = live \ (Destroyed(up) \cup Destroyed(down))
    /\ UNCHANGED <<inited, serverKey, keys, fresh, header, sent, nonces, seqnum, seenPouch,
                   starts, got>>

-----------------------------------------------------------------------------
(* Downlink *)

is_valid_downlink(sid, alg) ==
    "VALID" \in down.flags =>
        /\ ~(down.sid = sid /\ down.alg # alg)
        /\ sid.initiator = "server" /\ sid.type = "sequential" => sid.value > seqnum

saead_uplink_session_matches(sid, alg, log) ==
    "VALID" \in up.flags /\ up.sid = sid /\ log = DeviceLog /\ up.alg = alg

\* saead_uplink_session_key_copy
saead_uplink_session_key_copy == IF up.key \in live /\ SlotFree THEN {0, NewKey} ELSE {0}

\* The key ids that saead_downlink_session_start may get for a session.
DownlinkKeys(h) ==
    IF h.sid.initiator = "server" THEN session_key_generate
    ELSE IF h.sid.type = "sequential" /\ saead_uplink_session_matches(h.sid, h.alg, h.log)
         THEN saead_uplink_session_key_copy
         ELSE {0}

\* What that key is derived from: a copy is derived from what the uplink's key is.
DownlinkMaterial(h) ==
    IF h.sid.initiator = "server" THEN Material(h.sid, h.alg, h.log, serverKey) ELSE keys[up.key]

\* crypto_downlink_start accepts header h.  The flags are cleared before the
\* pouch id is looked at, and the key of the session before is not destroyed.
DownlinkStart(h, k) ==
    LET s == [sid |-> h.sid, flags |-> {"ACTIVE"}, alg |-> h.alg, key |-> k, pouch |-> 0,
              block |-> down.block, ad |-> down.ad]
    IN  /\ starts < MaxStarts
        /\ is_valid_downlink(h.sid, h.alg)
        /\ k \in DownlinkKeys(h) \ {0}
        /\ ~("HAS_POUCH" \in s.flags /\ h.pouch <= seenPouch)
        /\ Keep(k, DownlinkMaterial(h), {})
        /\ down' = session_pouch_start(s, h.pouch)
        /\ starts' = starts + 1
        /\ got' = <<>>
        /\ UNCHANGED <<inited, serverKey, uplinkVars, seqnum, seenPouch>>

\* Block i of the server's pouch with header h, made with its key number c (external).
ServerBlock(h, c, i) ==
    LET m == Material(h.sid, h.alg, h.log, c)
        t == [key |-> m, pouch |-> h.pouch, index |-> i - 1]
    IN  [key |-> m, pouch |-> h.pouch, index |-> i, aad |-> IF i = 0 THEN <<>> ELSE <<t>>]

\* Mutant: the associated data is not checked.
DecryptsUnchained(b) ==
    /\ down.key \in live
    /\ keys[down.key] = b.key
    /\ Nonce(down).pouch = b.pouch % NonceMod
    /\ Nonce(down).index = b.index % NonceMod

\* psa_aead_decrypt accepts block b with the state of the downlink session.
Decrypts(b) ==
    /\ down.key \in live
    /\ keys[down.key] = b.key
    /\ Nonce(down).pouch = b.pouch % NonceMod
    /\ Nonce(down).index = b.index % NonceMod
    /\ Aad(down) = b.aad

\* Mutant: the sequence number is not remembered.
SeenSeqnumOld(s) == seqnum

\* The replay protection after a block of session s.
SeenSeqnum(s) == IF s.sid.initiator = "server" /\ s.sid.type = "sequential"
                 THEN s.sid.value ELSE seqnum

\* saead_downlink_block_decrypt; any block may come, also one of another pouch.
DecryptBlock(b) ==
    /\ Decrypts(b)
    /\ down' = [NextBlock(down, Tag(b)) EXCEPT !.flags = @ \cup {"VALID", "HAS_POUCH"}]
    /\ seenPouch' = down.pouch
    /\ seqnum' = SeenSeqnum(down)
    /\ got' = Append(got, b)
    /\ UNCHANGED <<inited, serverKey, keys, live, uplinkVars, starts>>

-----------------------------------------------------------------------------
Next == \/ CryptoInit \/ CertServerSet
        \/ SessionStartFails
        \/ \E k \in session_key_generate : UplinkStart(k)
        \/ EncryptBlock
        \/ SessionEnd
        \/ \E h \in Headers : DownlinkStart(h, NewKey)
        \/ \E h \in Headers, c \in 1 .. MaxCerts, i \in 0 .. PouchBlocks - 1 :
               DecryptBlock(ServerBlock(h, c, i))

Spec == Init /\ [][Next]_vars

-----------------------------------------------------------------------------
(* Properties *)

Algs == {h.alg : h \in Headers} \cup {DeviceAlg}
Logs == {h.log : h \in Headers} \cup {DeviceLog}
Materials == [sid : SessionIds, alg : Algs, log : Logs, cert : Nat]
Tags == [key : Materials, pouch : Nat, index : Nat]
Sessions == [sid : SessionIds, flags : SUBSET {"VALID", "ACTIVE", "HAS_POUCH"}, alg : Algs,
             key : Nat, pouch : Nat, block : Nat, ad : Seq(Tags)]
SealedBlocks == [key : Materials, pouch : Nat, index : Nat, aad : Seq(Tags)]

\* Every variable has its type, and the key ids are ids of keys.
TypeOK ==
    /\ inited \in BOOLEAN /\ serverKey \in 0 .. MaxCerts /\ inSession \in BOOLEAN
    /\ keys \in Seq(Materials)
    /\ live \subseteq DOMAIN keys /\ Cardinality(live) <= KeySlots
    /\ up \in Sessions /\ down \in Sessions
    /\ {up.key, down.key} \subseteq {0} \cup DOMAIN keys
    /\ seqnum \in Nat /\ seenPouch \in Nat /\ fresh \in Nat /\ starts \in Nat
    /\ header \in Seq([sid : SessionIds, alg : Algs, log : Logs, pouch : Nat])
    /\ sent \in Seq(SealedBlocks) /\ got \in Seq(SealedBlocks)
    /\ nonces \in Seq([key : Materials, pouch : Nat, index : Nat])

\* A nonce comes back with the same key only when the number of the block in it,
\* which has 16 bits, has gone round: never sooner, and never in another session,
\* whatever sessions start, fail and end and whatever certificates come.
NonceUnique ==
    \A i, j \in DOMAIN nonces : i < j /\ nonces[i] = nonces[j] => j - i >= NonceMod

\* The server can decrypt an uplink pouch from what its header says: the blocks
\* are those of that session and pouch, numbered from 0 and chained, all of them
\* with one key, also when the certificate of the server is renewed meanwhile.
PouchDecryptable ==
    \A i \in DOMAIN sent :
        /\ header # <<>> /\ sent[i].key = sent[1].key
        /\ sent[i].key.sid = header[1].sid /\ sent[i].key.alg = header[1].alg
        /\ sent[i].key.log = header[1].log
        /\ sent[i].pouch = header[1].pouch /\ sent[i].index = i - 1
        /\ sent[i].aad = (IF i = 1 THEN <<>> ELSE <<Tag(sent[i - 1])>>)

\* What is decrypted after a header is a prefix of the pouch that it announced,
\* although blocks get lost, repeated or mixed up with those of other pouches and
\* keys, and although the number in the nonce wraps: the chain of tags holds.
DecryptedInSequence ==
    \A i \in DOMAIN got : /\ got[i].key.sid = down.sid /\ got[i].pouch = down.pouch
                          /\ got[i].index = i - 1 /\ got[i].key = got[1].key

\* An active session's key exists, unless it could not be made, and is a key of the
\* session's id and algorithm: no end of one session takes the key of the other.
KeyMatchesSession ==
    \A s \in {up, down} :
        "ACTIVE" \in s.flags /\ s.key # 0 =>
            s.key \in live /\ keys[s.key].sid = s.sid /\ keys[s.key].alg = s.alg

\* After a block of a sequential session of the server was decrypted, the next
\* session of that kind that is accepted is neither the same one nor an older one.
NoReplayOfSession ==
    [][starts' # starts /\ got # <<>> /\ down.sid.initiator = "server"
       /\ down.sid.type = "sequential" /\ down'.sid.initiator = "server"
       /\ down'.sid.type = "sequential"
       => down'.sid.value > down.sid.value]_vars
==============================================================================
