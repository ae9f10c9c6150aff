------------------------------- MODULE Uplink -------------------------------
(***************************************************************************)
(* The uplink half of the pouch library: the entry writer (entry.c), the   *)
(* uplink state machine (uplink.c) and the event queue (pouch.c).          *)
(*                                                                         *)
(* Four kinds of thread share the state:                                   *)
(*   - application threads write entries and close the pouch;              *)
(*   - the system work queue runs process_blocks, which moves blocks from  *)
(*     the processing queue through the encryption to the transport queue; *)
(*   - the transport thread starts a session, fills its packets from the   *)
(*     transport queue and finishes the session;                           *)
(*   - the pouch work queue hands events to the application.               *)
(*                                                                         *)
(* An action is the code between two accesses to state that another thread *)
(* changes.  A pointer to a buffer is a sequence of at most one buffer,    *)
(* <<>> is NULL.  Calls that fail without changing anything (-EINVAL, a    *)
(* lock that times out in entry_write, -EALREADY, a start that finds the   *)
(* session active, a fill outside of a session) are stuttering steps.      *)
(***************************************************************************)
EXTENDS Naturals, Integers, Sequences, FiniteSets

CONSTANTS
    Apps,         \* application threads
    EntryLens,    \* sizes of the entries they write, entry header included
    BlockSpace,   \* payload bytes of a block
    EventDepth,   \* CONFIG_POUCH_EVENT_QUEUE_DEPTH
    Cooperative,  \* TRUE: process_blocks and the transport calls run to
                  \* completion once they have started (cooperative threads on
                  \* one CPU); FALSE: any thread may run between two of the
                  \* steps below
    EarlyFinish,  \* TRUE: the transport may finish before NO_MORE_DATA
    Failures,     \* TRUE: allocation and encryption may fail
    MaxWrites,    \* bound on the calls of pouch_uplink_entry_write
    MaxSessions   \* bound on the sessions

ASSUME UplinkAssumption ==
    /\ EntryLens \subseteq Nat \ {0}
    /\ BlockSpace \in Nat
    /\ EventDepth \in Nat \ {0}
    /\ Cooperative \in BOOLEAN
    /\ EarlyFinish \in BOOLEAN
    /\ Failures \in BOOLEAN
    /\ MaxWrites \in Nat
    /\ MaxSessions \in Nat

VARIABLES
    flags,     \* uplink.flags
    id,        \* uplink.id: counts the finished sessions
    header,    \* uplink.header
    procQ,     \* uplink.processing.queue
    queued,    \* uplink.processing.work is pending in the system work queue
    transQ,    \* uplink.transport.queue
    reader,    \* uplink.transport.reader
    block,     \* entry.c: the entry block being filled
    mut,       \* entry.c: the owner of the mutex
    procTail,  \* the tail of uplink.processing.queue: its last block, or none, when it
               \* is empty ("last"), or a block that is gone ("stray")
    lost,      \* blocks that no list holds, and that are never freed
    bufs,      \* buf.c: number of buffers in flight
    eventQ,    \* pouch.c: pouch_event_q
    wpc, wbuf, \* process_blocks: where it is, the block in its hands
    tpc,       \* the transport thread
    apc, alen, \* the application threads, the size of the entry of a write
    writes,    \* number of calls of pouch_uplink_entry_write
    accepted,  \* history: the entries whose write returned 0
    sent,      \* history: the entries ever copied to the transport
    dropped,   \* history: the entries of blocks that were given up and freed
    wire,      \* history: the buffers copied out in this session
    promised,  \* history: what the close of this session must deliver
    emitted    \* history: the events emitted, in order

uplinkVars == <<flags, id, header, procQ, queued, transQ, reader>>
entryVars  == <<block, mut, procTail, lost>>
eventVars  == <<eventQ, emitted>>
threadVars == <<wpc, wbuf, tpc, apc, alen>>
histVars   == <<writes, accepted, sent, dropped, wire, promised>>
vars == <<uplinkVars, entryVars, bufs, eventVars, threadVars, histVars>>

-----------------------------------------------------------------------------
(* Buffers *)

SESSION_ACTIVE == "SESSION_ACTIVE"
POUCH_CLOSING  == "POUCH_CLOSING"
POUCH_CLOSED   == "POUCH_CLOSED"
Flags == {SESSION_ACTIVE, POUCH_CLOSING, POUCH_CLOSED}

START == "POUCH_EVENT_SESSION_START"
END   == "POUCH_EVENT_SESSION_END"

\* A buffer holds the header of a pouch or a block.  pouch is the session the
\* header was made, or the block encrypted, for; a block that is not encrypted
\* yet has none.
Plain == -1
Buffers == [kind    : {"header", "block"},
            pouch   : Int,
            used    : Nat,
            entries : Seq(Nat)]

\* block_alloc: an entry block with nothing but its own header.
block_alloc == [kind |-> "block", pouch |-> Plain, used |-> 0, entries |-> <<>>]

\* pouch_header_create: the header of the pouch of session n.
pouch_header_create(n) ==
    [kind |-> "header", pouch |-> n, used |-> 0, entries |-> <<>>]

\* block_space_get(b) >= the size of the entry.
Fits(b, len) == len <= BlockSpace - b.used

\* write_entry: append entry e of size len to block b.
write_entry(b, e, len) == [b EXCEPT !.used = @ + len, !.entries = Append(@, e)]

\* The entries in a sequence of buffers.
EntriesOf(s) == UNION {{s[i].entries[j] : j \in DOMAIN s[i].entries} : i \in DOMAIN s}

-----------------------------------------------------------------------------
(* Predicates on the flags, the scheduler and the event queue *)

session_is_active == SESSION_ACTIVE \in flags
pouch_is_open     == POUCH_CLOSED \notin flags
pouch_is_closing  == POUCH_CLOSING \in flags

WorkerBusy    == wpc # "idle"
TransportBusy == tpc \notin {"idle", "open", "done"}

\* A cooperative handler that has started keeps the CPU.
WorkerMayRun    == Cooperative => ~TransportBusy
TransportMayRun == Cooperative => ~WorkerBusy
AppMayRun       == Cooperative => ~WorkerBusy /\ ~TransportBusy

\* pouch_event_emit: k_msgq_put with K_NO_WAIT drops the event when the queue is
\* full.  dispatch_events drains the queue each time it runs and every put is
\* followed by a submit, so that the work item needs no state of its own.
pouch_event_emit(e) ==
    /\ eventQ' = IF Len(eventQ) < EventDepth THEN Append(eventQ, e) ELSE eventQ
    /\ emitted' = Append(emitted, e)

-----------------------------------------------------------------------------
Init ==
    /\ flags = {} /\ id = 0 /\ header = <<>>
    /\ procQ = <<>> /\ queued = FALSE
    /\ transQ = <<>> /\ reader = <<>>
    /\ block = <<>> /\ mut = {} /\ procTail = "last" /\ lost = <<>>
    /\ bufs = 0 /\ eventQ = <<>>
    /\ wpc = "idle" /\ wbuf = <<>> /\ tpc = "idle"
    /\ apc = [a \in Apps |-> "idle"] /\ alen = [a \in Apps |-> 0]
    /\ writes = 0 /\ accepted = {} /\ sent = {} /\ dropped = {}
    /\ wire = <<>> /\ promised = {} /\ emitted = <<>>

-----------------------------------------------------------------------------
(* Application threads: pouch_uplink_entry_write.  The entry block belongs to *)
(* the owner of the mutex, so that a write that enqueues nothing is one step. *)

\* The last step of uplink_enqueue submits the work item; no entry is of size 0, so that
\* this is the size when the entry block is closed.
Submitting(len) == IF len = 0 THEN "closekick" ELSE "kick"

\* uplink_enqueue, first half: the block becomes the only one of an empty list; of any
\* other list sys_slist_append finds the tail, and the next steps link the block to it.
Enqueue(a, len) ==
    /\ mut' = {a}
    /\ alen' = [alen EXCEPT ![a] = len]
    /\ IF procQ = <<>> /\ procTail = "last"
       THEN /\ procQ' = block /\ block' = <<>>
            /\ apc' = [apc EXCEPT ![a] = Submitting(len)]
       ELSE /\ apc' = [apc EXCEPT ![a] = "next"]
            /\ UNCHANGED <<procQ, block>>

\* Write entry number writes' into b, or leave b as it is when it does not fit
\* (-ENOMEM).
WriteInto(b, len, e) ==
    /\ block' = <<IF Fits(b, len) THEN write_entry(b, e, len) ELSE b>>
    /\ accepted' = IF Fits(b, len) THEN accepted \cup {e} ELSE accepted

\* There is no entry block: allocate one and write to it.  An entry that is too
\* large for any block leaves the new block behind.
EntryWriteNew(a, len) ==
    /\ AppMayRun
    /\ apc[a] = "idle" /\ mut = {} /\ writes < MaxWrites
    /\ block = <<>>
    /\ writes' = writes + 1
    /\ bufs' = bufs + 1
    /\ WriteInto(block_alloc, len, writes + 1)
    /\ UNCHANGED <<uplinkVars, mut, procTail, lost, eventVars, threadVars, sent, dropped, wire,
                   promised>>

\* The entry fits in the block at hand.
EntryWriteFits(a, len) ==
    /\ AppMayRun
    /\ apc[a] = "idle" /\ mut = {} /\ writes < MaxWrites
    /\ block # <<>> /\ Fits(block[1], len)
    /\ writes' = writes + 1
    /\ WriteInto(block[1], len, writes + 1)
    /\ UNCHANGED <<uplinkVars, mut, procTail, lost, bufs, eventVars, threadVars, sent, dropped,
                   wire, promised>>

\* The block is full: finish it and hand it over.
EntryWriteFull(a, len) ==
    /\ AppMayRun
    /\ apc[a] = "idle" /\ mut = {} /\ writes < MaxWrites
    /\ block # <<>> /\ ~Fits(block[1], len)
    /\ writes' = writes + 1
    /\ Enqueue(a, len)
    /\ UNCHANGED <<flags, id, header, queued, transQ, reader, procTail, lost, bufs, eventVars,
                   wpc, wbuf, tpc, accepted, sent, dropped, wire, promised>>

\* Mutant: the full block is queued, the work item not submitted.
EntryWriteRetryNoSubmit(a) ==
    /\ AppMayRun
    /\ apc[a] = "kick"
    /\ bufs' = bufs + 1
    /\ WriteInto(block_alloc, alen[a], writes)
    /\ mut' = {}
    /\ apc' = [apc EXCEPT ![a] = "idle"]
    /\ alen' = [alen EXCEPT ![a] = 0]
    /\ UNCHANGED <<uplinkVars, procTail, lost, eventVars, wpc, wbuf, tpc, writes, sent,
                   dropped, wire, promised>>

\* Submit the work item, try again with a new block and unlock.
EntryWriteRetry(a) ==
    /\ AppMayRun
    /\ apc[a] = "kick"
    /\ queued' = TRUE
    /\ \/ /\ bufs' = bufs + 1
          /\ WriteInto(block_alloc, alen[a], writes)
       \/ /\ Failures
          /\ UNCHANGED <<bufs, block, accepted>>
    /\ mut' = {}
    /\ apc' = [apc EXCEPT ![a] = "idle"]
    /\ alen' = [alen EXCEPT ![a] = 0]
    /\ UNCHANGED <<flags, id, header, procQ, transQ, reader, procTail, lost, eventVars, wpc,
                   wbuf, tpc, writes, sent, dropped, wire, promised>>

-----------------------------------------------------------------------------
(* Application threads: pouch_uplink_close *)

\* Only the first close since the flags were cleared goes on.
Close(a) ==
    /\ AppMayRun
    /\ apc[a] = "idle"
    /\ ~pouch_is_closing
    /\ flags' = flags \cup {POUCH_CLOSING}
    /\ apc' = [apc EXCEPT ![a] = "lock"]
    /\ promised' = IF session_is_active THEN accepted \ sent ELSE {}
    /\ UNCHANGED <<id, header, procQ, queued, transQ, reader, entryVars, bufs, eventVars,
                   wpc, wbuf, tpc, alen, writes, accepted, sent, dropped, wire>>
\* Mutant: the entry block is forgotten and not handed over.
CloseEntryBlockForgotten(a) ==
    /\ AppMayRun
    /\ apc[a] = "lock" /\ mut = {}
    /\ block' = <<>>
    /\ apc' = [apc EXCEPT ![a] = "submit"]
    /\ UNCHANGED <<uplinkVars, mut, procTail, lost, bufs, eventVars, wpc, wbuf, tpc, alen,
                   histVars>>

\* entry_block_close: hand over the entry block, if there is one.  Its test for a
\* block with data is always true, a block has at least its own header.
CloseEntryBlock(a) ==
    /\ AppMayRun
    /\ apc[a] = "lock" /\ mut = {}
    /\ IF block # <<>>
       THEN Enqueue(a, 0)
       ELSE apc' = [apc EXCEPT ![a] = "submit"] /\ UNCHANGED <<procQ, block, mut, alen>>
    /\ UNCHANGED <<flags, id, header, queued, transQ, reader, procTail, lost, bufs, eventVars,
                   wpc, wbuf, tpc, histVars>>

\* entry_block_close gives up: the close reports the error, and still closes.
CloseTimeout(a) ==
    /\ AppMayRun
    /\ apc[a] = "lock" /\ mut # {}
    /\ apc' = [apc EXCEPT ![a] = "submit"]
    /\ promised' = {}
    /\ UNCHANGED <<uplinkVars, entryVars, bufs, eventVars, wpc, wbuf, tpc, alen, writes,
                   accepted, sent, dropped, wire>>

\* The end of entry_block_close: submit the work item and unlock.
CloseKick(a) ==
    /\ AppMayRun
    /\ apc[a] = "closekick"
    /\ queued' = TRUE
    /\ mut' = {}
    /\ apc' = [apc EXCEPT ![a] = "submit"]
    /\ UNCHANGED <<flags, id, header, procQ, transQ, reader, block, procTail, lost, bufs,
                   eventVars, wpc, wbuf, tpc, alen, histVars>>
\* Mutant: a close relies on the submit of entry_block_close.
CloseSubmitMissing(a) ==
    /\ AppMayRun
    /\ apc[a] = "submit"
    /\ apc' = [apc EXCEPT ![a] = "idle"]
    /\ UNCHANGED <<uplinkVars, entryVars, bufs, eventVars, wpc, wbuf, tpc, alen, histVars>>

\* The end of pouch_uplink_close.
CloseSubmit(a) ==
    /\ AppMayRun
    /\ apc[a] = "submit"
    /\ queued' = TRUE
    /\ apc' = [apc EXCEPT ![a] = "idle"]
    /\ UNCHANGED <<flags, id, header, procQ, transQ, reader, entryVars, bufs, eventVars,
                   wpc, wbuf, tpc, alen, histVars>>

-----------------------------------------------------------------------------
(* Application threads: the rest of uplink_enqueue, for the owner of the mutex. *)
(* The list has no lock, and process_blocks may take blocks between the steps.  *)

\* Mutant: the block is put before the others.
AppendNextFront(a) ==
    /\ AppMayRun
    /\ apc[a] = "next" /\ procQ # <<>>
    /\ procQ' = block \o procQ /\ block' = <<>>
    /\ apc' = [apc EXCEPT ![a] = "tail"]
    /\ UNCHANGED <<flags, id, header, queued, transQ, reader, mut, procTail, lost, bufs,
                   eventVars, wpc, wbuf, tpc, alen, histVars>>

\* The last block is linked to the new one.
AppendNext(a) ==
    /\ AppMayRun
    /\ apc[a] = "next" /\ procQ # <<>>
    /\ procQ' = procQ \o block /\ block' = <<>>
    /\ apc' = [apc EXCEPT ![a] = "tail"]
    /\ UNCHANGED <<flags, id, header, queued, transQ, reader, mut, procTail, lost, bufs,
                   eventVars, wpc, wbuf, tpc, alen, histVars>>

\* The tail that was found is not in the list any more: the head does not lead to the
\* new block.  (What the write to the link of a freed block does to its memory is left
\* out.)
AppendStray(a) ==
    /\ AppMayRun
    /\ apc[a] = "next" /\ procQ = <<>>
    /\ lost' = lost \o block /\ block' = <<>>
    /\ procTail' = "stray"
    /\ apc' = [apc EXCEPT ![a] = Submitting(alen[a])]
    /\ UNCHANGED <<uplinkVars, mut, bufs, eventVars, wpc, wbuf, tpc, alen, histVars>>

\* The new block is made the tail, also when it was taken meanwhile.
AppendTail(a) ==
    /\ AppMayRun
    /\ apc[a] = "tail"
    /\ procTail' = IF procQ = <<>> THEN "stray" ELSE procTail
    /\ apc' = [apc EXCEPT ![a] = Submitting(alen[a])]
    /\ UNCHANGED <<uplinkVars, block, mut, lost, bufs, eventVars, wpc, wbuf, tpc, alen, histVars>>

-----------------------------------------------------------------------------
(* System work queue: process_blocks *)

WorkerBegin ==
    /\ WorkerMayRun
    /\ wpc = "idle" /\ queued
    /\ queued' = FALSE
    /\ wpc' = "loop"
    /\ UNCHANGED <<flags, id, header, procQ, transQ, reader, entryVars, bufs, eventVars,
                   wbuf, tpc, apc, alen, histVars>>

\* Mutant: blocks are processed after the pouch was closed.
LoopConditionUnsealed == session_is_active /\ procQ # <<>>

LoopCondition == session_is_active /\ pouch_is_open /\ procQ # <<>>

\* Take the next block.  Nobody else takes from the processing queue, and the thread of
\* the system work queue is cooperative: no append happens within buf_queue_get.
WorkerTake ==
    /\ WorkerMayRun
    /\ wpc = "loop" /\ LoopCondition
    /\ wbuf' = <<Head(procQ)>>
    /\ procQ' = Tail(procQ)
    /\ wpc' = "encrypt"
    /\ UNCHANGED <<flags, id, header, queued, transQ, reader, entryVars, bufs, eventVars,
                   tpc, apc, alen, histVars>>

\* crypto_encrypt_block replaces the block by an encrypted one; when it fails
\* the block is gone.
WorkerEncrypt ==
    /\ WorkerMayRun
    /\ wpc = "encrypt"
    /\ \/ /\ wbuf' = <<[wbuf[1] EXCEPT !.pouch = id]>>
          /\ wpc' = "header"
          /\ UNCHANGED <<bufs, dropped>>
       \/ /\ Failures
          /\ wbuf' = <<>>
          /\ wpc' = "loop"
          /\ bufs' = bufs - 1
          /\ dropped' = dropped \cup EntriesOf(wbuf)
    /\ UNCHANGED <<uplinkVars, entryVars, eventVars, tpc, apc, alen, writes, accepted, sent, wire,
                   promised>>

\* The first block of a pouch takes the header with it ...
WorkerHeader ==
    /\ WorkerMayRun
    /\ wpc = "header"
    /\ transQ' = transQ \o header
    /\ wpc' = IF header # <<>> THEN "detach" ELSE "submit"
    /\ UNCHANGED <<flags, id, header, procQ, queued, reader, entryVars, bufs, eventVars,
                   wbuf, tpc, apc, alen, histVars>>
\* ... and clears the pointer.
WorkerDetach ==
    /\ WorkerMayRun
    /\ wpc = "detach"
    /\ header' = <<>>
    /\ wpc' = "submit"
    /\ UNCHANGED <<flags, id, procQ, queued, transQ, reader, entryVars, bufs, eventVars,
                   wbuf, tpc, apc, alen, histVars>>
\* Mutant: the worker keeps its pointer to the block that it submitted.
WorkerSubmitKeeps ==
    /\ WorkerMayRun
    /\ wpc = "submit"
    /\ transQ' = transQ \o wbuf
    /\ wpc' = "loop"
    /\ UNCHANGED <<flags, id, header, procQ, queued, reader, entryVars, bufs, eventVars,
                   wbuf, tpc, apc, alen, histVars>>

WorkerSubmit ==
    /\ WorkerMayRun
    /\ wpc = "submit"
    /\ transQ' = transQ \o wbuf
    /\ wbuf' = <<>>
    /\ wpc' = "loop"
    /\ UNCHANGED <<flags, id, header, procQ, queued, reader, entryVars, bufs, eventVars,
                   tpc, apc, alen, histVars>>

WorkerLeave ==
    /\ WorkerMayRun
    /\ wpc = "loop" /\ ~LoopCondition
    /\ wpc' = "exit"
    /\ UNCHANGED <<uplinkVars, entryVars, bufs, eventVars, wbuf, tpc, apc, alen, histVars>>

\* After the loop the flag is read and the closed flag set, one after the other.
WorkerExit ==
    /\ WorkerMayRun
    /\ wpc = "exit"
    /\ wpc' = IF pouch_is_closing THEN "close" ELSE "idle"
    /\ UNCHANGED <<uplinkVars, entryVars, bufs, eventVars, wbuf, tpc, apc, alen, histVars>>

WorkerClose ==
    /\ WorkerMayRun
    /\ wpc = "close"
    /\ flags' = flags \cup {POUCH_CLOSED}
    /\ wpc' = "idle"
    /\ UNCHANGED <<id, header, procQ, queued, transQ, reader, entryVars, bufs, eventVars,
                   wbuf, tpc, apc, alen, histVars>>

Worker == \/ WorkerBegin \/ WorkerTake \/ WorkerEncrypt \/ WorkerHeader
          \/ WorkerDetach \/ WorkerSubmit \/ WorkerLeave \/ WorkerExit \/ WorkerClose

-----------------------------------------------------------------------------
(* Transport thread: pouch_uplink_start *)

TransportStart ==
    /\ TransportMayRun
    /\ tpc = "idle" /\ id < MaxSessions
    /\ ~session_is_active
    /\ flags' = flags \cup {SESSION_ACTIVE}
    /\ tpc' = "crypto"
    /\ wire' = <<>>
    /\ UNCHANGED <<id, header, procQ, queued, transQ, reader, entryVars, bufs, eventVars,
                   wpc, wbuf, apc, alen, writes, accepted, sent, dropped, promised>>

\* crypto_session_start and crypto_pouch_start, then pouch_header_create.
TransportHeader ==
    /\ TransportMayRun
    /\ tpc = "crypto"
    /\ header' = <<pouch_header_create(id)>>
    /\ bufs' = bufs + 1
    /\ tpc' = "kick"
    /\ pouch_event_emit(START)
    /\ UNCHANGED <<flags, id, procQ, queued, transQ, reader, entryVars, wpc, wbuf, apc,
                   alen, histVars>>

\* One of the three fails: the session is over before it began.  A header that
\* could not be made leaves the pointer NULL.
TransportStartFails ==
    /\ TransportMayRun
    /\ tpc = "crypto" /\ Failures
    /\ flags' = flags \ {SESSION_ACTIVE}
    /\ header' \in {header, <<>>}
    /\ tpc' = "idle"
    /\ UNCHANGED <<id, procQ, queued, transQ, reader, entryVars, bufs, eventVars, wpc,
                   wbuf, apc, alen, histVars>>
\* Blocks that were enqueued before the session are waiting for it.
TransportKick ==
    /\ TransportMayRun
    /\ tpc = "kick"
    /\ queued' = (queued \/ procQ # <<>>)
    /\ tpc' = "open"
    /\ UNCHANGED <<flags, id, header, procQ, transQ, reader, entryVars, bufs, eventVars,
                   wpc, wbuf, apc, alen, histVars>>

-----------------------------------------------------------------------------
(* Transport thread: pouch_uplink_fill *)

TransportFill ==
    /\ TransportMayRun
    /\ tpc = "open" /\ session_is_active
    /\ tpc' = "copy"
    /\ UNCHANGED <<uplinkVars, entryVars, bufs, eventVars, wpc, wbuf, apc, alen, histVars>>

TransportNext ==
    /\ TransportMayRun
    /\ tpc = "copy" /\ reader = <<>> /\ transQ # <<>>
    /\ reader' = <<Head(transQ)>>
    /\ transQ' = Tail(transQ)
    /\ UNCHANGED <<flags, id, header, procQ, queued, entryVars, bufs, eventVars, threadVars,
                   histVars>>

\* The rest of the buffer fits: it is on its way and its memory is free.
TransportCopy ==
    /\ TransportMayRun
    /\ tpc = "copy" /\ reader # <<>>
    /\ wire' = wire \o reader
    /\ sent' = sent \cup EntriesOf(reader)
    /\ reader' = <<>>
    /\ bufs' = bufs - 1
    /\ UNCHANGED <<flags, id, header, procQ, queued, transQ, entryVars, eventVars,
                   threadVars, writes, accepted, dropped, promised>>

\* The packet is full, possibly in the middle of a buffer, or there is nothing
\* to copy.
TransportStop ==
    /\ TransportMayRun
    /\ tpc = "copy"
    /\ tpc' = "checkopen"
    /\ UNCHANGED <<uplinkVars, entryVars, bufs, eventVars, wpc, wbuf, apc, alen, histVars>>

\* The result of fill, in the order in which it looks: an open pouch is
\* MORE_DATA; of a closed one the reader and the queue are looked at again,
\* after the flag.
TransportCheckOpen ==
    /\ TransportMayRun
    /\ tpc = "checkopen"
    /\ tpc' = IF pouch_is_open THEN "open" ELSE "checkqueue"
    /\ UNCHANGED <<uplinkVars, entryVars, bufs, eventVars, wpc, wbuf, apc, alen, histVars>>
\* Mutants: the second look skips the reader, or does not happen.
TransportCheckQueueOnly ==
    /\ TransportMayRun
    /\ tpc = "checkqueue"
    /\ tpc' = IF transQ # <<>> THEN "open" ELSE "end"
    /\ UNCHANGED <<uplinkVars, entryVars, bufs, eventVars, wpc, wbuf, apc, alen, histVars>>

TransportCheckNothing ==
    /\ TransportMayRun
    /\ tpc = "checkqueue"
    /\ tpc' = "end"
    /\ UNCHANGED <<uplinkVars, entryVars, bufs, eventVars, wpc, wbuf, apc, alen, histVars>>

TransportCheckQueue ==
    /\ TransportMayRun
    /\ tpc = "checkqueue"
    /\ tpc' = IF reader # <<>> \/ transQ # <<>> THEN "open" ELSE "end"
    /\ UNCHANGED <<uplinkVars, entryVars, bufs, eventVars, wpc, wbuf, apc, alen, histVars>>
\* Mutant: fill announces the end and leaves the session active.
TransportEndActive ==
    /\ TransportMayRun
    /\ tpc = "end"
    /\ pouch_event_emit(END)
    /\ tpc' = "done"
    /\ UNCHANGED <<uplinkVars, entryVars, bufs, wpc, wbuf, apc, alen, histVars>>

\* end_session; fill returns NO_MORE_DATA.
TransportEnd ==
    /\ TransportMayRun
    /\ tpc = "end"
    /\ flags' = flags \ {SESSION_ACTIVE}
    /\ pouch_event_emit(END)
    /\ tpc' = "done"
    /\ UNCHANGED <<id, header, procQ, queued, transQ, reader, entryVars, bufs, wpc, wbuf,
                   apc, alen, histVars>>

-----------------------------------------------------------------------------
(* Transport thread: pouch_uplink_finish *)
\* Mutant: finish does not drain the transport queue.
TransportFinishUndrained ==
    /\ TransportMayRun
    /\ tpc = "done" \/ (EarlyFinish /\ tpc = "open")
    /\ tpc' = "release"
    /\ UNCHANGED <<uplinkVars, entryVars, bufs, eventVars, wpc, wbuf, apc, alen, histVars>>

TransportFinish ==
    /\ TransportMayRun
    /\ tpc = "done" \/ (EarlyFinish /\ tpc = "open")
    /\ bufs' = bufs - Len(transQ)
    /\ transQ' = <<>>
    /\ dropped' = dropped \cup EntriesOf(transQ)
    /\ tpc' = "release"
    /\ UNCHANGED <<flags, id, header, procQ, queued, reader, entryVars, eventVars, wpc,
                   wbuf, apc, alen, writes, accepted, sent, wire, promised>>
\* Mutant: the header that was not sent is not freed.
TransportReleaseLeaks ==
    /\ TransportMayRun
    /\ tpc = "release"
    /\ bufs' = bufs - Len(reader)
    /\ reader' = <<>> /\ header' = <<>>
    /\ dropped' = dropped \cup EntriesOf(reader)
    /\ tpc' = "reset"
    /\ UNCHANGED <<flags, id, procQ, queued, transQ, entryVars, eventVars, wpc, wbuf, apc,
                   alen, writes, accepted, sent, wire, promised>>

TransportRelease ==
    /\ TransportMayRun
    /\ tpc = "release"
    /\ bufs' = bufs - Len(reader) - Len(header)
    /\ reader' = <<>> /\ header' = <<>>
    /\ dropped' = dropped \cup EntriesOf(reader)
    /\ tpc' = "reset"
    /\ UNCHANGED <<flags, id, procQ, queued, transQ, entryVars, eventVars, wpc, wbuf, apc,
                   alen, writes, accepted, sent, wire, promised>>

\* The flags are cleared; a session that was still active ends here.
TransportReset ==
    /\ TransportMayRun
    /\ tpc = "reset"
    /\ id' = id + 1
    /\ flags' = {}
    /\ IF session_is_active THEN pouch_event_emit(END) ELSE UNCHANGED eventVars
    /\ tpc' = "idle"
    /\ promised' = {}
    /\ UNCHANGED <<header, procQ, queued, transQ, reader, entryVars, bufs, wpc, wbuf, apc,
                   alen, writes, accepted, sent, dropped, wire>>

Transport == \/ TransportStart \/ TransportHeader \/ TransportStartFails \/ TransportKick
             \/ TransportFill \/ TransportNext \/ TransportCopy \/ TransportStop
             \/ TransportCheckOpen \/ TransportCheckQueue \/ TransportEnd
             \/ TransportFinish \/ TransportRelease \/ TransportReset

-----------------------------------------------------------------------------
\* dispatch_events hands the oldest event to the handlers.
DispatchEvent ==
    /\ eventQ # <<>>
    /\ eventQ' = Tail(eventQ)
    /\ UNCHANGED <<uplinkVars, entryVars, bufs, emitted, threadVars, histVars>>

App(a) == \/ \E len \in EntryLens : \/ EntryWriteNew(a, len)
                                    \/ EntryWriteFits(a, len)
                                    \/ EntryWriteFull(a, len)
          \/ EntryWriteRetry(a)
          \/ AppendNext(a) \/ AppendStray(a) \/ AppendTail(a)
          \/ Close(a) \/ CloseEntryBlock(a) \/ CloseTimeout(a) \/ CloseKick(a)
          \/ CloseSubmit(a)

Next == Worker \/ Transport \/ DispatchEvent \/ \E a \in Apps : App(a)

Spec == Init /\ [][Next]_vars

\* Fairness: the system work queue runs what is submitted to it, a call that an
\* application thread has made returns, and the transport keeps polling with
\* packets that have room (a buffer is a finite number of bytes, so that a
\* buffer the transport keeps reading is read to its end).
FairSpec ==
    /\ Spec
    /\ WF_vars(Worker)
    /\ WF_vars(TransportHeader \/ TransportKick \/ TransportFill \/ TransportStop
               \/ TransportCheckOpen \/ TransportCheckQueue \/ TransportEnd
               \/ TransportRelease \/ TransportReset)
    /\ SF_vars(TransportNext \/ TransportCopy)
    /\ \A a \in Apps : WF_vars(\/ AppendNext(a) \/ AppendStray(a) \/ AppendTail(a)
                               \/ EntryWriteRetry(a)
                               \/ CloseEntryBlock(a) \/ CloseTimeout(a) \/ CloseKick(a)
                               \/ CloseSubmit(a))
-----------------------------------------------------------------------------
(* Properties *)

WorkerPCs == {"idle", "loop", "encrypt", "header", "detach", "submit", "exit", "close"}
TransportPCs == {"idle", "crypto", "kick", "open", "copy", "checkopen", "checkqueue",
                 "end", "done", "release", "reset"}
AppPCs == {"idle", "next", "tail", "kick", "lock", "closekick", "submit"}

\* Every variable has its type.
TypeOK ==
    /\ flags \in SUBSET Flags /\ id \in Nat
    /\ header \in Seq(Buffers) /\ Len(header) <= 1
    /\ procQ \in Seq(Buffers) /\ queued \in BOOLEAN
    /\ transQ \in Seq(Buffers)
    /\ reader \in Seq(Buffers) /\ Len(reader) <= 1
    /\ block \in Seq(Buffers) /\ Len(block) <= 1
    /\ mut \in SUBSET Apps
    /\ procTail \in {"last", "stray"} /\ lost \in Seq(Buffers)
    /\ bufs \in Int
    /\ eventQ \in Seq({START, END})
    /\ wpc \in WorkerPCs /\ tpc \in TransportPCs
    /\ wbuf \in Seq(Buffers)
    /\ Len(wbuf) = (IF wpc \in {"encrypt", "header", "detach", "submit"} THEN 1 ELSE 0)
    /\ apc \in [Apps -> AppPCs] /\ alen \in [Apps -> Nat]
    /\ writes \in Nat /\ accepted \in SUBSET Nat /\ sent \in SUBSET Nat
    /\ dropped \in SUBSET Nat
    /\ wire \in Seq(Buffers) /\ promised \in SUBSET Nat
    /\ emitted \in Seq({START, END})

\* What is, or was, part of the pouch of this session, oldest buffer first.
PouchBuffers == wire \o reader \o transQ

\* All buffers with entries, in the order in which they leave the device.
Pipeline == PouchBuffers \o wbuf \o procQ \o block

\* Work is never forgotten: blocks that wait for process_blocks while it could
\* process them mean that it is pending or in its loop, or that the thread that
\* queued them, or the one that starts the session, is about to submit it.
NoLostWakeup ==
    procQ # <<>> /\ session_is_active /\ pouch_is_open =>
        \/ queued
        \/ wpc \notin {"idle", "exit", "close"}
        \/ tpc \in {"crypto", "kick"}
        \/ \E a \in Apps : apc[a] \in {"tail", "kick", "closekick"}

\* When fill has decided for NO_MORE_DATA, and until the session is finished,
\* nothing is left in, or added to, the transport queue and the reader, whatever
\* process_blocks does meanwhile.
EndedIsDrained ==
    tpc \in {"end", "done"} => transQ = <<>> /\ reader = <<>>

\* The entries leave in the order in which they were written: the queues, the
\* block at hand and the packets hold them in that order.
EntriesInOrder ==
    \A i, j \in DOMAIN Pipeline :
        \A x \in DOMAIN Pipeline[i].entries, y \in DOMAIN Pipeline[j].entries :
            i < j \/ (i = j /\ x < y) => Pipeline[i].entries[x] < Pipeline[j].entries[y]

\* A pouch is its header followed by blocks: process_blocks sends the header
\* before the first block, and once.
HeaderFirst ==
    \A i \in DOMAIN PouchBuffers : (PouchBuffers[i].kind = "header") <=> (i = 1)

\* A pouch holds what was encrypted for it and nothing of an earlier session
\* (the comment of pouch_uplink_finish).
SealedForThisPouch ==
    tpc \notin {"idle", "crypto"} =>
        \A i \in DOMAIN PouchBuffers : PouchBuffers[i].pouch = id

\* Both, in every state of every session: what the transport sends is one pouch.
WellFormedPouch == HeaderFirst /\ SealedForThisPouch

\* The number of buffers in flight is the number of buffers that somebody owns:
\* none is freed twice, and none is leaked but those that fell out of the list.
\* Between the two steps that move the header to the queue it has two owners.
BuffersAccounted ==
    bufs = Len(header) + Len(procQ) + Len(transQ) + Len(reader) + Len(block) + Len(wbuf)
           + Len(lost) - (IF wpc = "detach" THEN 1 ELSE 0)

\* An entry whose write succeeded is sent or still on its way, unless its block fell
\* out of the list when process_blocks interrupted an append, could not be encrypted
\* or was freed by finish: entries disappear in no other way.
NothingLost == accepted \subseteq sent \cup EntriesOf(Pipeline) \cup EntriesOf(lost) \cup dropped

\* An application that sees all events sees one end for each start.
EventsAlternate ==
    \A i \in DOMAIN emitted : emitted[i] = (IF i % 2 = 1 THEN START ELSE END)

\* What was written before pouch_uplink_close is in the pouch that it closes.
CloseDelivers == tpc = "done" => promised \subseteq sent

\* Blocks do not wait for ever in a session, and a pouch that is being closed is
\* delivered, or its session ends otherwise: every submit of process_blocks that
\* this takes is made by somebody, in every interleaving of the steps.
SessionsProgress ==
    (session_is_active /\ (pouch_is_closing \/ procQ # <<>>))
        ~> (~session_is_active \/ (procQ = <<>> /\ ~pouch_is_closing))

\* The refinement mapping: finish ends the session, and drops what was not sent,
\* in its first step.
Finishing == tpc \in {"idle", "release", "reset"}

Phase == IF Finishing THEN "none"
         ELSE IF tpc = "done" THEN "ended"
         ELSE IF pouch_is_open THEN "open" ELSE "sealed"

P == INSTANCE Pouch WITH MayAbort <- EarlyFinish \/ Failures,
                         phase <- Phase,
                         pouch <- IF Finishing THEN wire ELSE PouchBuffers,
                         sent  <- wire

\* The uplink implements Pouch: one growing pouch per session, sent in order, and
\* a session that ends by itself has sent all of a sealed pouch.
ImplementsPouch == P!Spec

=============================================================================
