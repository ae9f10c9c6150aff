------------------------------ MODULE Downlink ------------------------------
(***************************************************************************)
(* The downlink half of the pouch library (downlink.c): the transport      *)
(* pushes the bytes of a pouch in chunks of any size; the pouch is cut     *)
(* into blocks; the system work queue decrypts them one at a time and the  *)
(* pouch work queue hands them to the application (entry.c).               *)
(*                                                                         *)
(* A byte is its position in the pouch, and a buffer, which always holds   *)
(* consecutive bytes, the interval lo..hi-1 of positions.  What the bytes  *)
(* say is given by the layout of the pouch: HeaderLen bytes of header,     *)
(* then blocks that end at the given positions, size fields included.      *)
(***************************************************************************)
EXTENDS Integers, Sequences, FiniteSets

CONSTANTS
    Cap,          \* MAX_CIPHERTEXT_BLOCK_SIZE
    HeaderLen,    \* bytes of a pouch header
    Layouts,      \* the pouches that may arrive: for each its
                  \* blocks' ends
    Cooperative,  \* TRUE: the transport and decrypt_blocks are cooperative
                  \* threads of one CPU and run to completion; FALSE: the steps
                  \* below interleave in any way
    Saead,        \* TRUE: a block is decrypted with the keys of the last header
                  \* that was parsed; FALSE: blocks are not encrypted
    AllocFails,   \* TRUE: allocations may fail
    MaxPouches    \* bound on the pouches that arrive

SizeField == 2    \* bytes of the size field of a block

\* The position after block k of a pouch with layout l; block 0 is the header.
BlockEnd(l, k) == IF k = 0 THEN HeaderLen ELSE l[k]
PouchEnd(l)    == BlockEnd(l, Len(l))
BlockSize(l, k) == BlockEnd(l, k) - BlockEnd(l, k - 1)

\* A pouch is a header and blocks that follow each other, none of them empty.
ASSUME DownlinkAssumption ==
    /\ Cap \in Nat /\ SizeField < Cap
    /\ HeaderLen \in Nat \ {0} /\ HeaderLen <= Cap
    /\ Layouts \subseteq Seq(Nat)
    /\ \A l \in Layouts : \A i, j \in 0 .. Len(l) :
          i < j => BlockEnd(l, i) + SizeField < BlockEnd(l, j)
    /\ Cooperative \in BOOLEAN /\ Saead \in BOOLEAN /\ AllocFails \in BOOLEAN
    /\ MaxPouches \in Nat

VARIABLES
    pouch,        \* number of the pouch that is arriving
    layout,       \* its layout
    pushed,       \* how much of it was pushed
    hasBuf,       \* pouch_buf is not NULL
    lo, hi,       \* the bytes in pouch_buf
    gotHeader,    \* pouch_header
    left,         \* bytes of the chunk that push still has to store
    decryptQ,     \* decrypt.queue
    decryptWork,  \* decrypt.work is pending
    consumeQ,     \* consume.buf_queue
    consumeTail,  \* the tail of that list: the last block of consumeQ ("ok"), the
                  \* block in the hands of consume_blocks ("node"), or a block
                  \* that cannot be reached from the head ("stray")
    consumeWork,  \* consume.work is pending
    cryptoPouch,  \* the pouch the crypto layer has the keys of
    tpc,          \* transport thread
    dpc, dbuf,    \* decrypt_blocks
    cpc, cbuf,    \* consume_blocks
    bufs,         \* buf.c: number of buffers in flight
    cut, arrived, \* history: blocks cut out of this pouch, and of all pouches
    consumed,     \* history: blocks handed to the application
    lost          \* blocks that fell out of the list, and are never freed

pushVars == <<pouch, layout, pushed, hasBuf, lo, hi, gotHeader, left, tpc, cut,
              arrived>>
queueVars == <<decryptQ, decryptWork, consumeQ, consumeTail, consumeWork>>
workVars == <<dpc, dbuf, cpc, cbuf, consumed, lost>>
vars == <<pushVars, queueVars, workVars, cryptoPouch, bufs>>

-----------------------------------------------------------------------------
\* The block that begins at position p.
IsBlockStart(l, p) == \E k \in DOMAIN l : BlockEnd(l, k - 1) = p
BlockAt(l, p) == CHOOSE k \in DOMAIN l : BlockEnd(l, k - 1) = p

\* What the size field at position p says, plus the field itself.  Between
\* blocks the size field is read from other bytes; BlocksAreCutAtBoundaries says
\* that this does not happen.
BlockLen(l, p) ==
    IF IsBlockStart(l, p) THEN BlockSize(l, BlockAt(l, p)) ELSE SizeField

Min2(a, b) == IF a < b THEN a ELSE b

DecryptBusy   == dpc # "idle"
TransportBusy == tpc # "idle"
TransportMayRun == Cooperative => ~DecryptBusy
DecryptMayRun   == Cooperative => ~TransportBusy
\* The pouch work queue has a preemptible thread.
ConsumeMayRun   == Cooperative => ~TransportBusy /\ ~DecryptBusy

-----------------------------------------------------------------------------
Init ==
    /\ pouch = 0 /\ layout = <<>> /\ pushed = HeaderLen
    /\ hasBuf = FALSE /\ lo = 0 /\ hi = 0 /\ gotHeader = FALSE /\ left = 0
    /\ decryptQ = <<>> /\ decryptWork = FALSE /\ consumeQ = <<>> /\ consumeWork = FALSE
    /\ consumeTail = "ok" /\ lost = <<>> /\ cryptoPouch = 0
    /\ tpc = "idle" /\ dpc = "idle" /\ dbuf = <<>> /\ cpc = "idle" /\ cbuf = <<>>
    /\ bufs = 0 /\ cut = 0 /\ arrived = 0 /\ consumed = <<>>

-----------------------------------------------------------------------------
(* Transport thread *)

\* pouch_downlink_start: the buffer of the pouch before is forgotten.
Start ==
    /\ TransportMayRun
    /\ tpc = "idle" /\ pouch < MaxPouches
    /\ pouch' = pouch + 1
    /\ layout' \in Layouts
    /\ pushed' = 0 /\ lo' = 0 /\ hi' = 0 /\ gotHeader' = FALSE /\ cut' = 0
    /\ \/ hasBuf' = TRUE /\ bufs' = bufs + 1
       \/ AllocFails /\ hasBuf' = FALSE /\ UNCHANGED bufs
    /\ UNCHANGED <<left, tpc, arrived, queueVars, workVars, cryptoPouch>>

\* pouch_downlink_push is called with the next n bytes.
Push(n) ==
    /\ TransportMayRun
    /\ tpc = "idle" /\ pushed + n <= PouchEnd(layout)
    /\ pushed' = pushed + n
    /\ left' = n
    /\ tpc' = "push"
    /\ UNCHANGED <<pouch, layout, hasBuf, lo, hi, gotHeader, cut, arrived, queueVars, workVars,
                   cryptoPouch, bufs>>

\* push gives up the rest of the chunk: no buffer, or a buffer that is full.
PushRefused ==
    /\ TransportMayRun
    /\ tpc = "push" /\ left > 0
    /\ ~hasBuf \/ hi - lo >= Cap
    /\ left' = 0 /\ tpc' = "idle"
    /\ UNCHANGED <<pouch, layout, pushed, hasBuf, lo, hi, gotHeader, cut, arrived, queueVars,
                   workVars, cryptoPouch, bufs>>
\* Mutant: the whole chunk is stored.
WrittenUnbounded == left

\* How many bytes of the chunk the buffer takes, and where its bytes then end.
Written == Min2(left, Cap - (hi - lo))
NewHi   == hi + Written

\* Where the blocks begin once the header is parsed and trimmed.
HeaderParsed == gotHeader \/ NewHi - lo >= HeaderLen
NewLo == IF gotHeader THEN lo ELSE lo + HeaderLen

\* The size field can be read, is not too large, and the whole block is there.
SizeKnown   == NewHi - NewLo > SizeField
\* Mutant: the largest block is refused.
SizeAllowedStrict == BlockLen(layout, NewLo) < Cap

SizeAllowed == BlockLen(layout, NewLo) <= Cap
BlockThere  == NewHi - NewLo >= BlockLen(layout, NewLo)

\* The header is there and crypto_downlink_start refuses it: the rest of the chunk is
\* given up, and the next chunk parses the header again.
PushHeaderRefused ==
    /\ TransportMayRun
    /\ tpc = "push" /\ left > 0 /\ hasBuf /\ hi - lo < Cap
    /\ ~gotHeader /\ HeaderParsed
    /\ hi' = NewHi
    /\ left' = 0 /\ tpc' = "idle"
    /\ UNCHANGED <<pouch, layout, pushed, hasBuf, lo, gotHeader, cut, arrived, queueVars, workVars,
                   cryptoPouch, bufs>>

\* One pass of the loop of push that stores bytes and cuts no block.  The rest of
\* the chunk is given up when the header is not complete or a block too large.
PushStore ==
    /\ TransportMayRun
    /\ tpc = "push" /\ left > 0 /\ hasBuf /\ hi - lo < Cap
    /\ ~(HeaderParsed /\ SizeKnown /\ SizeAllowed /\ BlockThere)
    /\ hi' = NewHi
    /\ lo' = IF HeaderParsed THEN NewLo ELSE lo
    /\ gotHeader' = HeaderParsed
    /\ cryptoPouch' = IF HeaderParsed /\ ~gotHeader THEN pouch ELSE cryptoPouch
    /\ left' = IF HeaderParsed /\ (SizeKnown => SizeAllowed) THEN left - Written ELSE 0
    /\ tpc' = IF left' = 0 THEN "idle" ELSE "push"
    /\ UNCHANGED <<pouch, layout, pushed, hasBuf, cut, arrived, queueVars, workVars, bufs>>

\* One pass of the loop that completes a block: its bytes go to the decrypt
\* queue, what follows them is moved to a new buffer.  Without a new buffer the
\* block keeps what follows it.
PushCut ==
    /\ TransportMayRun
    /\ tpc = "push" /\ left > 0 /\ hasBuf /\ hi - lo < Cap
    /\ HeaderParsed /\ SizeKnown /\ SizeAllowed /\ BlockThere
    /\ gotHeader' = TRUE
    /\ cryptoPouch' = IF gotHeader THEN cryptoPouch ELSE pouch
    /\ left' = left - Written
    /\ hi' = NewHi
    /\ lo' = NewLo + BlockLen(layout, NewLo)
    /\ \/ /\ hasBuf' = TRUE /\ bufs' = bufs + 1
          /\ decryptQ' = Append(decryptQ, [pouch |-> pouch, lo |-> NewLo, hi |-> lo'])
       \/ /\ AllocFails /\ hasBuf' = FALSE /\ UNCHANGED bufs
          /\ decryptQ' = Append(decryptQ, [pouch |-> pouch, lo |-> NewLo, hi |-> NewHi])
    /\ cut' = cut + 1 /\ arrived' = arrived + 1
    /\ tpc' = "submit"
    /\ UNCHANGED <<pouch, layout, pushed, decryptWork, consumeQ, consumeTail, consumeWork,
                   workVars>>

\* block_downlink_push, second half.
PushSubmit ==
    /\ TransportMayRun
    /\ tpc = "submit"
    /\ decryptWork' = TRUE
    /\ tpc' = IF left = 0 THEN "idle" ELSE "push"
    /\ UNCHANGED <<pouch, layout, pushed, hasBuf, lo, hi, gotHeader, left, cut, arrived, decryptQ,
                   consumeQ, consumeTail, consumeWork, workVars, cryptoPouch, bufs>>

Transport == \/ Start
             \/ \E n \in 1 .. (PouchEnd(layout) - pushed) : Push(n)
             \/ PushRefused \/ PushHeaderRefused \/ PushStore \/ PushCut \/ PushSubmit

-----------------------------------------------------------------------------
(* System work queue: decrypt_blocks handles one block per run *)
\* Mutant: the first element takes its successors along.
PointerToList(q) == q

Pointer(q) == IF q = <<>> THEN <<>> ELSE <<Head(q)>>
Rest(q)    == IF q = <<>> THEN <<>> ELSE Tail(q)

DecryptBegin ==
    /\ DecryptMayRun
    /\ dpc = "idle" /\ decryptWork
    /\ decryptWork' = FALSE
    /\ dbuf' = Pointer(decryptQ) /\ decryptQ' = Rest(decryptQ)
    /\ dpc' = "crypt"
    /\ UNCHANGED <<pushVars, consumeQ, consumeTail, consumeWork, cpc, cbuf, consumed, lost,
                   cryptoPouch, bufs>>

\* crypto_decrypt_block fails, or there was nothing to decrypt: the run is over,
\* and the next block waits for another submit.
Undecryptable == dbuf = <<>> \/ (Saead /\ dbuf[1].pouch # cryptoPouch)

DecryptFail ==
    /\ DecryptMayRun
    /\ dpc = "crypt" /\ Undecryptable
    /\ bufs' = bufs - Len(dbuf)
    /\ dbuf' = <<>> /\ dpc' = "idle"
    /\ UNCHANGED <<pushVars, queueVars, cpc, cbuf, consumed, lost, cryptoPouch>>

\* Mutant: decrypted blocks are put at the front of the queue.
DecryptPassFront ==
    /\ DecryptMayRun
    /\ dpc = "crypt" /\ ~Undecryptable
    /\ consumeQ' = dbuf \o consumeQ
    /\ dbuf' = <<>> /\ dpc' = "wake"
    /\ UNCHANGED <<pushVars, decryptQ, decryptWork, consumeTail, consumeWork, cpc, cbuf,
                   consumed, lost, cryptoPouch, bufs>>

\* buf_queue_submit puts the block behind the tail of the list.  When that is not the
\* end of what the head reaches, the block is never found.  The thread of the system
\* work queue is cooperative: consume_blocks does not see half an append.
DecryptPass ==
    /\ DecryptMayRun
    /\ dpc = "crypt" /\ ~Undecryptable
    /\ \/ /\ consumeTail = "ok"
          /\ consumeQ' = consumeQ \o dbuf /\ UNCHANGED <<consumeTail, lost>>
       \/ /\ consumeTail # "ok"
          /\ lost' = lost \o dbuf /\ consumeTail' = "stray" /\ UNCHANGED consumeQ
    /\ dbuf' = <<>> /\ dpc' = "wake"
    /\ UNCHANGED <<pushVars, decryptQ, decryptWork, consumeWork, cpc, cbuf, consumed,
                   cryptoPouch, bufs>>

\* Mutant: the work item is not submitted again.
DecryptWakeOnce ==
    /\ DecryptMayRun
    /\ dpc = "wake"
    /\ consumeWork' = TRUE
    /\ dpc' = "idle"
    /\ UNCHANGED <<pushVars, decryptQ, decryptWork, consumeQ, consumeTail, dbuf, cpc, cbuf,
                   consumed, lost, cryptoPouch, bufs>>

DecryptWake ==
    /\ DecryptMayRun
    /\ dpc = "wake"
    /\ consumeWork' = TRUE
    /\ decryptWork' = (decryptWork \/ decryptQ # <<>>)
    /\ dpc' = "idle"
    /\ UNCHANGED <<pushVars, decryptQ, consumeQ, consumeTail, dbuf, cpc, cbuf, consumed, lost,
                   cryptoPouch, bufs>>

Decrypt == DecryptBegin \/ DecryptFail \/ DecryptPass \/ DecryptWake

-----------------------------------------------------------------------------
(* Pouch work queue: consume_blocks *)

\* consume_blocks: buf_queue_get reads the head of the list and what follows it.  The
\* thread is preemptible: decrypt_blocks may append before the head is written.  When
\* there is another block that changes nothing; when this is the last one, the write
\* cuts off what was appended meanwhile.
ConsumeBegin ==
    /\ ConsumeMayRun
    /\ cpc = "idle" /\ consumeWork
    /\ consumeWork' = FALSE
    /\ cbuf' = Pointer(consumeQ) /\ consumeQ' = Rest(consumeQ)
    /\ cpc' = CASE consumeQ = <<>> -> "idle"
              [] Len(consumeQ) = 1 -> "last"
              [] OTHER -> "handle"
    /\ UNCHANGED <<pushVars, decryptQ, decryptWork, consumeTail, dpc, dbuf, consumed, lost,
                   cryptoPouch, bufs>>

\* The last block was taken: the list has no head.
ConsumeUnlink ==
    /\ ConsumeMayRun
    /\ cpc = "last"
    /\ consumeQ' = <<>> /\ lost' = lost \o consumeQ
    /\ consumeTail' = IF consumeQ = <<>> THEN "node" ELSE "stray"
    /\ cpc' = "look"
    /\ UNCHANGED <<pushVars, decryptQ, decryptWork, consumeWork, dpc, dbuf, cbuf, consumed,
                   cryptoPouch, bufs>>

\* Only when the tail is the block that was taken it is cleared too.
ConsumeLook ==
    /\ ConsumeMayRun
    /\ cpc = "look"
    /\ cpc' = IF consumeTail = "node" THEN "tail" ELSE "handle"
    /\ UNCHANGED <<pushVars, queueVars, dpc, dbuf, cbuf, consumed, lost, cryptoPouch, bufs>>

ConsumeTail ==
    /\ ConsumeMayRun
    /\ cpc = "tail"
    /\ consumeTail' = "ok"
    /\ cpc' = "handle"
    /\ UNCHANGED <<pushVars, decryptQ, decryptWork, consumeQ, consumeWork, dpc, dbuf, cbuf,
                   consumed, lost, cryptoPouch, bufs>>

\* Mutant: the buffer is not freed.
ConsumeHandleLeaks ==
    /\ ConsumeMayRun
    /\ cpc = "handle"
    /\ consumed' = consumed \o cbuf
    /\ cbuf' = <<>> /\ UNCHANGED bufs
    /\ cpc' = "check"
    /\ UNCHANGED <<pushVars, queueVars, dpc, dbuf, lost, cryptoPouch>>

\* pouch_downlink_block_push, then the buffer is freed.
ConsumeHandle ==
    /\ ConsumeMayRun
    /\ cpc = "handle"
    /\ consumed' = consumed \o cbuf
    /\ cbuf' = <<>> /\ bufs' = bufs - 1
    /\ cpc' = "check"
    /\ UNCHANGED <<pushVars, queueVars, dpc, dbuf, lost, cryptoPouch>>

\* Mutant: one block is handed over per submit.
ConsumeCheckOnce ==
    /\ ConsumeMayRun
    /\ cpc = "check"
    /\ cpc' = "idle"
    /\ UNCHANGED <<pushVars, queueVars, dpc, dbuf, cbuf, consumed, lost, cryptoPouch, bufs>>

ConsumeCheck ==
    /\ ConsumeMayRun
    /\ cpc = "check"
    /\ consumeWork' = (consumeWork \/ consumeQ # <<>>)
    /\ cpc' = "idle"
    /\ UNCHANGED <<pushVars, decryptQ, decryptWork, consumeQ, consumeTail, dpc, dbuf, cbuf,
                   consumed, lost, cryptoPouch, bufs>>

Consume == \/ ConsumeBegin \/ ConsumeUnlink \/ ConsumeLook \/ ConsumeTail
           \/ ConsumeHandle \/ ConsumeCheck

-----------------------------------------------------------------------------
Next == Transport \/ Decrypt \/ Consume

Spec == Init /\ [][Next]_vars

\* The work queues run what is submitted to them and a push that was called
\* returns; whether the gateway sends is its own business.
FairSpec == /\ Spec
            /\ WF_vars(PushRefused \/ PushHeaderRefused \/ PushStore \/ PushCut \/ PushSubmit)
            /\ WF_vars(Decrypt) /\ WF_vars(Consume)

-----------------------------------------------------------------------------
(* Properties *)

Blocks == [pouch : Nat, lo : Nat, hi : Nat]

\* Every variable has its type.
TypeOK ==
    /\ pouch \in Nat /\ layout \in Seq(Nat) /\ pushed \in Nat
    /\ hasBuf \in BOOLEAN /\ lo \in Nat /\ hi \in Nat /\ gotHeader \in BOOLEAN
    /\ left \in Nat
    /\ decryptQ \in Seq(Blocks) /\ decryptWork \in BOOLEAN
    /\ consumeQ \in Seq(Blocks) /\ consumeWork \in BOOLEAN
    /\ consumeTail \in {"ok", "node", "stray"} /\ lost \in Seq(Blocks)
    /\ cryptoPouch \in Nat
    /\ tpc \in {"idle", "push", "submit"}
    /\ dpc \in {"idle", "crypt", "wake"} /\ dbuf \in Seq(Blocks) /\ Len(dbuf) <= 1
    /\ cpc \in {"idle", "last", "look", "tail", "handle", "check"}
    /\ cbuf \in Seq(Blocks) /\ Len(cbuf) <= 1
    /\ bufs \in Int /\ cut \in Nat /\ arrived \in Nat /\ consumed \in Seq(Blocks)

\* The reassembly buffer never holds more than its size, however the chunks and
\* the blocks are cut: neither the bytes that push is about to store nor the
\* move of the rest overruns it.
NoOverrun == hasBuf => /\ lo <= hi /\ hi - lo <= Cap
                       /\ tpc = "push" => NewHi - lo <= Cap

\* The pouch is cut where its blocks end: once the header is gone the buffer
\* begins after the last block that was cut, whatever the chunks.
BlocksAreCutAtBoundaries ==
    hasBuf => lo = (IF gotHeader THEN BlockEnd(layout, cut) ELSE 0)

\* No byte of a pouch is lost or stored twice: the buffer and the rest of the
\* chunk are what follows the blocks that were cut, up to what was pushed, as
\* long as no block is too large, and no header is refused until the buffer is full.
NoByteLost ==
    /\ hasBuf /\ (gotHeader \/ hi < Cap)
    /\ \A k \in DOMAIN layout : BlockSize(layout, k) <= Cap
    => hi + left = pushed

\* Both: what the transport pushes is framed exactly, in whatever chunks it comes.
FramingExact == BlocksAreCutAtBoundaries /\ NoByteLost

\* Blocks that wait to be decrypted are not forgotten: decrypt_blocks is pending
\* or running, or push is about to submit it.
NoLostDecrypt ==
    decryptQ # <<>> => decryptWork \/ dpc \in {"crypt", "wake"} \/ tpc = "submit"

\* Neither are blocks that wait for the application.
NoLostConsume ==
    consumeQ # <<>> => consumeWork \/ dpc = "wake" \/ cpc \in {"last", "handle", "check"}

\* No block waits for a work item that nobody submits, in every interleaving of the
\* steps of the transport and the two work queues.
NoLostWork == NoLostDecrypt /\ NoLostConsume

\* decrypt_blocks never asks the crypto layer to decrypt NULL.
DecryptsABlock == dpc = "crypt" => dbuf # <<>>

\* Neither an overrun nor NULL, whatever fails.
NoInvalidAccess == NoOverrun /\ DecryptsABlock

\* Every buffer in flight has an owner, on the paths that fail too, but for the
\* one that each start of a pouch overwrites and those that fall out of the list.
BuffersAccounted ==
    LET owned == Len(decryptQ) + Len(dbuf) + Len(consumeQ) + Len(cbuf) + Len(lost)
                 + (IF hasBuf THEN 1 ELSE 0)
    IN  bufs = owned \/ bufs - owned \in 1 .. pouch - 1

\* The application gets the blocks in the order in which they arrived, each once.
InFlight == consumed \o cbuf \o consumeQ \o dbuf \o decryptQ
BlocksInOrder ==
    \A i, j \in DOMAIN InFlight :
        i < j => \/ InFlight[i].pouch < InFlight[j].pouch
                 \/ /\ InFlight[i].pouch = InFlight[j].pouch
                    /\ InFlight[i].hi <= InFlight[j].lo

\* When the whole pouch was pushed and its header accepted, all its blocks were cut.
PouchIsDelivered ==
    tpc = "idle" /\ hasBuf /\ gotHeader /\ pushed = PouchEnd(layout) => cut = Len(layout)

\* Every block that was cut reaches the application, whatever the order in which the
\* threads run: none is dropped but those that fall out of the list when
\* decrypt_blocks interrupts buf_queue_get at its last block.
BlocksReachApplication ==
    Len(consumed) + Len(lost) < arrived ~> Len(consumed) + Len(lost) = arrived
=============================================================================
