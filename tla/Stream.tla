------------------------------- MODULE Stream -------------------------------
(***************************************************************************)
(* Uplink streams (stream.c) over the blocks of block.c.  Every stream is  *)
(* used by a thread of its own; the threads share the counter of stream    *)
(* ids, the number of open streams and the uplink's session id, which the  *)
(* transport thread advances whenever it finishes a session.               *)
(*                                                                         *)
(* A byte is its position in the stream.  A block holds the bytes lo..hi-1 *)
(* of its stream, after skip bytes of stream header in the first block.    *)
(***************************************************************************)
EXTENDS Naturals, Sequences, FiniteSets

CONSTANTS
    Handles,      \* places for an open stream, each with its thread
    StreamsMax,   \* POUCH_STREAMS_MAX
    IdMod,        \* BLOCK_ID_MASK + 1: an id is a number modulo IdMod, not 0
    Cap,          \* MAX_BLOCK_PAYLOAD_SIZE
    HeaderLen,    \* bytes of a stream header: content type, path and its length
    WriteLens,    \* lengths of the writes
    AllocFails,   \* TRUE: allocations may fail
    MaxBytes,     \* bound on the bytes of a stream
    MaxOpens,     \* bound on the calls of pouch_uplink_stream_open
    MaxSessions   \* bound on the sessions

ASSUME StreamAssumption ==
    /\ IsFiniteSet(Handles)
    /\ StreamsMax \in Nat \ {0} /\ IdMod \in Nat /\ IdMod > 1
    /\ Cap \in Nat \ {0} /\ HeaderLen \in Nat /\ HeaderLen <= Cap
    /\ WriteLens \subseteq Nat \ {0}
    /\ AllocFails \in BOOLEAN
    /\ MaxBytes \in Nat /\ MaxOpens \in Nat /\ MaxSessions \in Nat

VARIABLES
    session,      \* uplink.id
    nextId,       \* stream_id, of which only the low bits are used
    openStreams,  \* open_streams
    pc,           \* what the thread of a handle does
    sid,          \* stream->id
    sess,         \* stream->session_id
    bytes,        \* stream->bytes
    buf,          \* stream->buf
    want, left,   \* the length of a write, and what it still has to store
    opens,        \* number of calls of pouch_uplink_stream_open
    out           \* history: the blocks of the stream given to uplink_enqueue

vars == <<session, nextId, openStreams, pc, sid, sess, bytes, buf, want, left, opens, out>>

-----------------------------------------------------------------------------
\* Mutant: every block is marked as the first one.
block_alloc_first(i, first, lo) ==
    [id |-> i, first |-> TRUE, last |-> FALSE, skip |-> HeaderLen, lo |-> lo, hi |-> lo]

\* block_alloc_stream: a block of stream i that begins with byte lo.
block_alloc_stream(i, first, lo) ==
    [id |-> i, first |-> first, last |-> FALSE, skip |-> IF first THEN HeaderLen ELSE 0,
     lo |-> lo, hi |-> lo]
block_space_get(b) == Cap - b.skip - (b.hi - b.lo)

\* block_finish_stream, then uplink_enqueue: the session is the one that is
\* current when the block enters the uplink.
Enqueue(h, isLast) ==
    out' = [out EXCEPT ![h] = Append(@, [block |-> [buf[h] EXCEPT !.last = isLast],
                                         session |-> session])]
\* Mutant: the counter is not reduced.
AfterIdUnmasked == (IF nextId % IdMod = 0 THEN 1 ELSE nextId % IdMod) + 1

\* new_stream_id: the id, and the counter after it.
NewId   == IF nextId % IdMod = 0 THEN 1 ELSE nextId % IdMod
AfterId == (NewId + 1) % IdMod

is_valid(h) == sess[h] = session

-----------------------------------------------------------------------------
Init ==
    /\ session = 0 /\ nextId = 1 /\ openStreams = 0 /\ opens = 0
    /\ pc = [h \in Handles |-> "closed"]
    /\ sid = [h \in Handles |-> 0] /\ sess = [h \in Handles |-> 0]
    /\ bytes = [h \in Handles |-> 0]
    /\ buf = [h \in Handles |-> block_alloc_stream(0, TRUE, 0)]
    /\ want = [h \in Handles |-> 0] /\ left = [h \in Handles |-> 0]
    /\ out = [h \in Handles |-> <<>>]

Goto(h, l) == pc' = [pc EXCEPT ![h] = l]

-----------------------------------------------------------------------------
(* pouch_uplink_stream_open *)
\* The number of open streams is incremented first and looked at afterwards.
OpenBegin(h) ==
    /\ pc[h] = "closed" /\ opens < MaxOpens
    /\ opens' = opens + 1
    /\ openStreams' = openStreams + 1
    /\ Goto(h, IF openStreams >= StreamsMax THEN "refused" ELSE "opening")
    /\ UNCHANGED <<session, nextId, sid, sess, bytes, buf, want, left, out>>
\* Mutant: a refused open keeps its place.
OpenRefusedLeaks(h) ==
    /\ pc[h] = "refused"
    /\ Goto(h, "closed")
    /\ UNCHANGED <<session, nextId, openStreams, sid, sess, bytes, buf, want, left, opens, out>>

OpenRefused(h) ==
    /\ pc[h] = "refused"
    /\ openStreams' = openStreams - 1
    /\ Goto(h, "closed")
    /\ UNCHANGED <<session, nextId, sid, sess, bytes, buf, want, left, opens, out>>

OpenDone(h) ==
    /\ pc[h] = "opening"
    /\ nextId' = AfterId
    /\ sid' = [sid EXCEPT ![h] = NewId]
    /\ sess' = [sess EXCEPT ![h] = session]
    /\ bytes' = [bytes EXCEPT ![h] = 0]
    /\ buf' = [buf EXCEPT ![h] = block_alloc_stream(NewId, TRUE, 0)]
    /\ out' = [out EXCEPT ![h] = <<>>]
    /\ Goto(h, "idle")
    /\ UNCHANGED <<session, openStreams, want, left, opens>>

\* The stream, or its first block, cannot be allocated.
OpenFails(h) ==
    /\ pc[h] = "opening" /\ AllocFails
    /\ nextId' \in {nextId, AfterId}
    /\ openStreams' = openStreams - 1
    /\ Goto(h, "closed")
    /\ UNCHANGED <<session, sid, sess, bytes, buf, want, left, opens, out>>

-----------------------------------------------------------------------------
(* pouch_stream_write; an invalid stream takes nothing *)

WriteBegin(h, n) ==
    /\ pc[h] = "idle" /\ is_valid(h) /\ bytes[h] + n <= MaxBytes
    /\ want' = [want EXCEPT ![h] = n]
    /\ left' = [left EXCEPT ![h] = n]
    /\ Goto(h, "write")
    /\ UNCHANGED <<session, nextId, openStreams, sid, sess, bytes, buf, opens, out>>

\* Store what fits.
WriteSome(h) ==
    LET space == block_space_get(buf[h])
        n     == IF space < left[h] THEN space ELSE left[h]
    IN  /\ pc[h] = "write" /\ left[h] > 0 /\ space > 0
        /\ buf' = [buf EXCEPT ![h].hi = @ + n]
        /\ left' = [left EXCEPT ![h] = @ - n]
        /\ UNCHANGED <<session, nextId, openStreams, pc, sid, sess, bytes, want, opens, out>>

\* The block is full: get another one, hand the full one over.
WriteNext(h) ==
    /\ pc[h] = "write" /\ left[h] > 0 /\ block_space_get(buf[h]) = 0
    /\ Enqueue(h, FALSE)
    /\ buf' = [buf EXCEPT ![h] = block_alloc_stream(sid[h], FALSE, @.hi)]
    /\ UNCHANGED <<session, nextId, openStreams, pc, sid, sess, bytes, want, left, opens>>
\* Mutant: a write that ran out of memory reports all of its bytes.
WriteEndAll(h) ==
    /\ pc[h] = "write"
    /\ \/ left[h] = 0
       \/ AllocFails /\ block_space_get(buf[h]) = 0
    /\ bytes' = [bytes EXCEPT ![h] = @ + want[h]]
    /\ want' = [want EXCEPT ![h] = 0]
    /\ left' = [left EXCEPT ![h] = 0]
    /\ Goto(h, "idle")
    /\ UNCHANGED <<session, nextId, openStreams, sid, sess, buf, opens, out>>

\* All is stored, or there is no memory for another block.
WriteEnd(h) ==
    /\ pc[h] = "write"
    /\ \/ left[h] = 0
       \/ AllocFails /\ block_space_get(buf[h]) = 0
    /\ bytes' = [bytes EXCEPT ![h] = @ + (want[h] - left[h])]
    /\ want' = [want EXCEPT ![h] = 0]
    /\ left' = [left EXCEPT ![h] = 0]
    /\ Goto(h, "idle")
    /\ UNCHANGED <<session, nextId, openStreams, sid, sess, buf, opens, out>>

-----------------------------------------------------------------------------
(* pouch_stream_close *)

CloseCheck(h) ==
    /\ pc[h] = "idle"
    /\ Goto(h, IF is_valid(h) /\ bytes[h] > 0 THEN "last" ELSE "free")
    /\ UNCHANGED <<session, nextId, openStreams, sid, sess, bytes, buf, want, left, opens, out>>

CloseLast(h) ==
    /\ pc[h] = "last"
    /\ Enqueue(h, TRUE)
    /\ openStreams' = openStreams - 1
    /\ Goto(h, "closed")
    /\ UNCHANGED <<session, nextId, sid, sess, bytes, buf, want, left, opens>>

CloseFree(h) ==
    /\ pc[h] = "free"
    /\ openStreams' = openStreams - 1
    /\ Goto(h, "closed")
    /\ UNCHANGED <<session, nextId, sid, sess, bytes, buf, want, left, opens, out>>

-----------------------------------------------------------------------------
\* pouch_uplink_finish, as far as streams see it.
SessionFinish ==
    /\ session < MaxSessions
    /\ session' = session + 1
    /\ UNCHANGED <<nextId, openStreams, pc, sid, sess, bytes, buf, want, left, opens, out>>

StreamStep(h) ==
    \/ OpenBegin(h) \/ OpenRefused(h) \/ OpenDone(h) \/ OpenFails(h)
    \/ (\E n \in WriteLens : WriteBegin(h, n)) \/ WriteSome(h) \/ WriteNext(h) \/ WriteEnd(h)
    \/ CloseCheck(h) \/ CloseLast(h) \/ CloseFree(h)

Next == SessionFinish \/ \E h \in Handles : StreamStep(h)

Spec == Init /\ [][Next]_vars

-----------------------------------------------------------------------------
(* Properties *)

StreamPCs == {"closed", "refused", "opening", "idle", "write", "last", "free"}
StreamBlocks == [id : Nat, first : BOOLEAN, last : BOOLEAN, skip : Nat, lo : Nat, hi : Nat]

\* Every variable has its type; no counter goes below zero.
TypeOK ==
    /\ session \in Nat /\ nextId \in 0 .. IdMod - 1 /\ openStreams \in Nat /\ opens \in Nat
    /\ pc \in [Handles -> StreamPCs]
    /\ sid \in [Handles -> 0 .. IdMod - 1]
    /\ sess \in [Handles -> Nat] /\ bytes \in [Handles -> Nat]
    /\ buf \in [Handles -> StreamBlocks]
    /\ want \in [Handles -> Nat] /\ left \in [Handles -> Nat]
    /\ out \in [Handles -> Seq([block : StreamBlocks, session : Nat])]

\* The open streams, and those that count against the limit.
Open    == {h \in Handles : pc[h] \in {"idle", "write", "last", "free"}}
Counted == {h \in Handles : pc[h] # "closed"}

\* Every open that failed, and every close, gives its place back once; increment
\* first, look afterwards: no interleaving of opens exceeds the limit.
StreamsCounted == /\ openStreams = Cardinality(Counted)
                  /\ Cardinality(Open) <= StreamsMax

\* The blocks of a stream are its bytes in order, cut when a block is full; the
\* first one, and only the first, is marked first, and nothing follows the one
\* that is marked last.
WellFramed ==
    \A h \in Handles : LET s == out[h] IN
        /\ \A i \in DOMAIN s :
              /\ s[i].block.first <=> (i = 1)
              /\ s[i].block.lo = (IF i = 1 THEN 0 ELSE s[i - 1].block.hi)
              /\ i < Len(s) => block_space_get(s[i].block) = 0
              /\ s[i].block.last => i = Len(s) /\ s[i].block.hi = bytes[h] /\ pc[h] \notin {"idle", "write"}
        /\ pc[h] \in {"idle", "write"} /\ s # <<>> => buf[h].lo = s[Len(s)].block.hi

\* A block never holds more than its payload, stream header included, and
\* pouch_stream_write reports the bytes that it stored: what was reported so far
\* ends where the block at hand ends.
BytesAccounted ==
    \A h \in Handles : /\ buf[h].skip + (buf[h].hi - buf[h].lo) <= Cap
                       /\ pc[h] = "idle" => bytes[h] = buf[h].hi

\* Streams that are open at the same time, in the same session, have different
\* ids: the blocks on the wire carry nothing else to tell them apart.
DistinctIds ==
    \A g, h \in Open : g # h /\ sess[g] = sess[h] => sid[g] # sid[h]
=============================================================================
