---------------------------- MODULE UplinkProofs ----------------------------
(***************************************************************************)
(* Safety of Uplink for every number of application threads, every block   *)
(* and entry size, any number of writes and sessions: types, wakeups, the  *)
(* end of a pouch, the events, the buffers, the pouch on the wire, and     *)
(* that Uplink implements Pouch.  A theorem that needs the cooperative     *)
(* scheduler, or a transport that does not finish early, says so.          *)
(***************************************************************************)
EXTENDS Uplink, TLAPS, SequenceTheorems

(* Facts about the operators the actions are built from. *)

\* A new entry block is a buffer.
LEMMA BlockAllocType == block_alloc \in Buffers
BY DEF block_alloc, Buffers, Plain

\* A pouch header is a buffer.
LEMMA HeaderType == \A n \in Nat : pouch_header_create(n) \in Buffers
BY DEF pouch_header_create, Buffers

\* Writing an entry to a block gives a block.
LEMMA WriteEntryType ==
    ASSUME NEW b \in Buffers, NEW e \in Nat, NEW len \in Nat
    PROVE  write_entry(b, e, len) \in Buffers
<1>1. b.entries \in Seq(Nat) /\ b.used \in Nat
      BY DEF Buffers
<1>2. Append(b.entries, e) \in Seq(Nat) /\ b.used + len \in Nat
      BY <1>1
<1> DEFINE n == Append(b.entries, e)
           u == b.used + len
<1>3. write_entry(b, e, len) = [b EXCEPT !.used = u, !.entries = n]
      BY DEF write_entry
<1>4. n \in Seq(Nat) /\ u \in Nat
      BY <1>2
<1> HIDE DEF n, u
<1> QED BY <1>3, <1>4 DEF Buffers

\* The buffer behind a pointer that is not NULL.
LEMMA PointeeType ==
    ASSUME NEW s \in Seq(Buffers), Len(s) = 1
    PROVE  s[1] \in Buffers
OBVIOUS

\* NULL is a pointer, and an empty queue a queue.
LEMMA EmptyType ==
    /\ <<>> \in Seq(Buffers) /\ Len(<<>>) = 0
    /\ <<>> \in Seq({START, END})
OBVIOUS

\* Encrypting a block gives a block.
LEMMA EncryptType ==
    ASSUME NEW b \in Buffers, NEW n \in Nat
    PROVE  [b EXCEPT !.pouch = n] \in Buffers
BY DEF Buffers

\* The entries of a sequence of buffers are entries.
LEMMA EntriesOfType ==
    ASSUME NEW s \in Seq(Buffers)
    PROVE  EntriesOf(s) \subseteq Nat
<1>1. SUFFICES ASSUME NEW i \in DOMAIN s, NEW j \in DOMAIN s[i].entries
               PROVE  s[i].entries[j] \in Nat
      BY DEF EntriesOf
<1>2. s[i] \in Buffers
      OBVIOUS
<1>3. s[i].entries \in Seq(Nat)
      BY <1>2 DEF Buffers
<1> QED BY <1>3

\* Writing into a block, or failing to, leaves a block and a set of entries.
LEMMA WriteIntoType ==
    ASSUME NEW b \in Buffers, NEW len \in Nat, NEW e \in Nat,
           accepted \in SUBSET Nat, WriteInto(b, len, e)
    PROVE  block' \in Seq(Buffers) /\ Len(block') <= 1 /\ accepted' \in SUBSET Nat
<1>1. write_entry(b, e, len) \in Buffers
      BY WriteEntryType
<1> QED BY <1>1 DEF WriteInto

\* The first half of uplink_enqueue keeps the types.
LEMMA EnqueueType ==
    ASSUME TypeOK, NEW a \in Apps, NEW len \in Nat, Enqueue(a, len)
    PROVE  /\ procQ' \in Seq(Buffers) /\ block' \in Seq(Buffers) /\ Len(block') <= 1
           /\ mut' \in SUBSET Apps
           /\ apc' \in [Apps -> AppPCs] /\ alen' \in [Apps -> Nat]
<1>t. /\ procQ \in Seq(Buffers) /\ block \in Seq(Buffers) /\ Len(block) <= 1
      /\ apc \in [Apps -> AppPCs] /\ alen \in [Apps -> Nat]
      BY DEF TypeOK
<1>1. mut' \in SUBSET Apps /\ alen' \in [Apps -> Nat]
      BY <1>t DEF Enqueue
<1>2. Submitting(len) \in AppPCs /\ "next" \in AppPCs
      BY DEF Submitting, AppPCs
<1>3. apc' \in [Apps -> AppPCs]
      BY <1>t, <1>2 DEF Enqueue
<1>4. procQ' \in Seq(Buffers) /\ block' \in Seq(Buffers) /\ Len(block') <= 1
      BY <1>t, EmptyType DEF Enqueue
<1> QED BY <1>1, <1>3, <1>4

-----------------------------------------------------------------------------
(* Type correctness *)

\* The steps of an application thread keep the types.
LEMMA AppTypeOK ==
    ASSUME TypeOK, NEW a \in Apps, App(a)
    PROVE  TypeOK'
<1> USE UplinkAssumption DEF TypeOK, uplinkVars, entryVars, eventVars, threadVars,
        histVars, AppPCs
<1>1. ASSUME NEW len \in EntryLens, EntryWriteNew(a, len)
      PROVE  TypeOK'
  <2>1. len \in Nat /\ writes + 1 \in Nat
        OBVIOUS
  <2>2. block' \in Seq(Buffers) /\ Len(block') <= 1 /\ accepted' \in SUBSET Nat
        BY <1>1, <2>1, BlockAllocType, WriteIntoType DEF EntryWriteNew
  <2> QED BY <1>1, <2>1, <2>2, SMTT(30) DEF EntryWriteNew
<1>2. ASSUME NEW len \in EntryLens, EntryWriteFits(a, len)
      PROVE  TypeOK'
  <2>1. len \in Nat /\ writes + 1 \in Nat
        OBVIOUS
  <2>2. block[1] \in Buffers
        BY <1>2 DEF EntryWriteFits
  <2>3. block' \in Seq(Buffers) /\ Len(block') <= 1 /\ accepted' \in SUBSET Nat
        BY <1>2, <2>1, <2>2, WriteIntoType DEF EntryWriteFits
  <2> QED BY <1>2, <2>1, <2>3 DEF EntryWriteFits
<1>3. ASSUME NEW len \in EntryLens, EntryWriteFull(a, len)
      PROVE  TypeOK'
  <2>1. len \in Nat /\ Enqueue(a, len) /\ writes' \in Nat
        BY <1>3 DEF EntryWriteFull
  <2>2. /\ procQ' \in Seq(Buffers) /\ block' \in Seq(Buffers) /\ Len(block') <= 1
        /\ mut' \in SUBSET Apps
        /\ apc' \in [Apps -> AppPCs] /\ alen' \in [Apps -> Nat]
        BY <2>1, EnqueueType
  <2>3. UNCHANGED <<flags, id, header, queued, transQ, reader, procTail, lost, bufs,
                    eventVars, wpc, wbuf, tpc, accepted, sent, dropped, wire, promised>>
        BY <1>3 DEF EntryWriteFull
  <2> QED BY <2>1, <2>2, <2>3, SMTT(30)
<1>4. CASE EntryWriteRetry(a)
  <2>1. block' \in Seq(Buffers) /\ Len(block') <= 1 /\ accepted' \in SUBSET Nat
        /\ bufs' \in Int
    <3>1. CASE WriteInto(block_alloc, alen[a], writes) /\ bufs' = bufs + 1
      <4>1. alen[a] \in Nat /\ writes \in Nat
            OBVIOUS
      <4> QED BY <3>1, <4>1, BlockAllocType, WriteIntoType
    <3>2. CASE UNCHANGED <<bufs, block, accepted>>
          BY <3>2
    <3> QED BY <1>4, <3>1, <3>2 DEF EntryWriteRetry
  <2>2. apc' \in [Apps -> AppPCs] /\ alen' \in [Apps -> Nat]
        BY <1>4 DEF EntryWriteRetry
  <2> QED BY <1>4, <2>1, <2>2 DEF EntryWriteRetry
<1>5. CASE Close(a)
  <2>1. flags' \in SUBSET Flags
        BY <1>5 DEF Close, Flags
  <2>2. apc' \in [Apps -> AppPCs]
        BY <1>5 DEF Close
  <2>3. promised' \in SUBSET Nat
        BY <1>5 DEF Close
  <2>4. UNCHANGED <<id, header, procQ, queued, transQ, reader, entryVars, bufs, eventVars,
                    wpc, wbuf, tpc, alen, writes, accepted, sent, dropped, wire>>
        BY <1>5 DEF Close
  <2> QED BY <2>1, <2>2, <2>3, <2>4
<1>6. CASE CloseEntryBlock(a)
  <2>1. /\ procQ' \in Seq(Buffers) /\ block' \in Seq(Buffers) /\ Len(block') <= 1
        /\ mut' \in SUBSET Apps
        /\ apc' \in [Apps -> AppPCs] /\ alen' \in [Apps -> Nat]
    <3>1. CASE block # <<>>
      <4>1. Enqueue(a, 0)
            BY <1>6, <3>1 DEF CloseEntryBlock
      <4> QED BY <4>1, EnqueueType
    <3>2. CASE block = <<>>
          BY <1>6, <3>2 DEF CloseEntryBlock
    <3> QED BY <3>1, <3>2
  <2>2. UNCHANGED <<flags, id, header, queued, transQ, reader, procTail, lost, bufs,
                    eventVars, wpc, wbuf, tpc, histVars>>
        BY <1>6 DEF CloseEntryBlock
  <2> QED BY <2>1, <2>2
<1>7. CASE CloseTimeout(a)
  <2>1. apc' \in [Apps -> AppPCs]
        BY <1>7 DEF CloseTimeout
  <2> QED BY <1>7, <2>1 DEF CloseTimeout
<1>8. CASE CloseKick(a)
  <2>1. apc' \in [Apps -> AppPCs]
        BY <1>8 DEF CloseKick
  <2> QED BY <1>8, <2>1 DEF CloseKick
<1>9. CASE CloseSubmit(a)
  <2>1. apc' \in [Apps -> AppPCs]
        BY <1>9 DEF CloseSubmit
  <2> QED BY <1>9, <2>1 DEF CloseSubmit
<1>s. Submitting(alen[a]) \in AppPCs
      BY DEF Submitting
<1>10. CASE AppendNext(a)
  <2>1. apc' \in [Apps -> AppPCs]
        BY <1>10 DEF AppendNext
  <2>2. procQ' \in Seq(Buffers) /\ block' = <<>>
        BY <1>10, ConcatProperties DEF AppendNext
  <2>3. block' \in Seq(Buffers) /\ Len(block') <= 1
        BY <2>2, EmptyType
  <2>4. UNCHANGED <<flags, id, header, queued, transQ, reader, mut, procTail, lost, bufs,
                    eventVars, wpc, wbuf, tpc, alen, histVars>>
        BY <1>10 DEF AppendNext
  <2> QED BY <2>1, <2>2, <2>3, <2>4
<1>11. CASE AppendStray(a)
  <2>1. apc' \in [Apps -> AppPCs]
        BY <1>11, <1>s DEF AppendStray
  <2>2. lost' \in Seq(Buffers) /\ block' = <<>>
        BY <1>11, ConcatProperties DEF AppendStray
  <2>3. block' \in Seq(Buffers) /\ Len(block') <= 1
        BY <2>2, EmptyType
  <2>4. procTail' \in {"last", "stray"}
        BY <1>11 DEF AppendStray
  <2>5. UNCHANGED <<uplinkVars, mut, bufs, eventVars, wpc, wbuf, tpc, alen, histVars>>
        BY <1>11 DEF AppendStray
  <2> QED BY <2>1, <2>2, <2>3, <2>4, <2>5
<1>12. CASE AppendTail(a)
  <2>1. apc' \in [Apps -> AppPCs]
        BY <1>12, <1>s DEF AppendTail
  <2>2. procTail' \in {"last", "stray"}
        BY <1>12 DEF AppendTail
  <2>3. UNCHANGED <<uplinkVars, block, mut, lost, bufs, eventVars, wpc, wbuf, tpc, alen,
                    histVars>>
        BY <1>12 DEF AppendTail
  <2> QED BY <2>1, <2>2, <2>3
<1> QED BY <1>1, <1>2, <1>3, <1>4, <1>5, <1>6, <1>7, <1>8, <1>9, <1>10, <1>11, <1>12
        DEF App

\* The steps of process_blocks keep the types.
LEMMA WorkerTypeOK ==
    ASSUME TypeOK, Worker
    PROVE  TypeOK'
<1> USE DEF TypeOK, uplinkVars, entryVars, eventVars, threadVars, histVars, WorkerPCs
<1>1. CASE WorkerBegin
      BY <1>1 DEF WorkerBegin
<1>2. CASE WorkerTake
  <2>1. procQ # <<>>
        BY <1>2 DEF WorkerTake, LoopCondition
  <2>2. Head(procQ) \in Buffers /\ Tail(procQ) \in Seq(Buffers)
        BY <2>1
  <2>3. wbuf' \in Seq(Buffers) /\ Len(wbuf') = 1 /\ procQ' \in Seq(Buffers)
        BY <1>2, <2>2 DEF WorkerTake
  <2> QED BY <1>2, <2>3 DEF WorkerTake
<1>3. CASE WorkerEncrypt
  <2> DEFINE b == wbuf[1]
  <2>1. wbuf \in Seq(Buffers) /\ Len(wbuf) = 1 /\ id \in Nat
        BY <1>3 DEF WorkerEncrypt
  <2>2. b \in Buffers
        BY <2>1, PointeeType
  <2>5. [b EXCEPT !.pouch = id] \in Buffers
        BY ONLY <2>1, <2>2, EncryptType
  <2>3. CASE wbuf' = <<[wbuf[1] EXCEPT !.pouch = id]>> /\ wpc' = "header" /\ bufs' = bufs
             /\ dropped' = dropped
    <3>1. wbuf' \in Seq(Buffers) /\ Len(wbuf') = 1
          BY <2>5, <2>3
    <3> QED BY <1>3, <2>3, <3>1 DEF WorkerEncrypt
  <2>4. CASE wbuf' = <<>> /\ wpc' = "loop" /\ bufs' = bufs - 1
             /\ dropped' = dropped \cup EntriesOf(wbuf)
    <3>1. wbuf' \in Seq(Buffers) /\ Len(wbuf') = 0
          BY <2>4
    <3>2. bufs' \in Int
          BY <2>4
    <3>3. dropped' \in SUBSET Nat
          BY <2>1, <2>4, EntriesOfType
    <3>4. UNCHANGED <<uplinkVars, entryVars, eventVars, tpc, apc, alen, writes, accepted,
                      sent, wire, promised>>
          BY <1>3 DEF WorkerEncrypt
    <3> QED BY <2>4, <3>1, <3>2, <3>3, <3>4, SMTT(30)
  <2> QED BY <1>3, <2>3, <2>4 DEF WorkerEncrypt
<1>4. CASE WorkerHeader
  <2>1. transQ' \in Seq(Buffers)
        BY <1>4 DEF WorkerHeader
  <2>2. wpc' \in {"detach", "submit"} /\ wpc = "header"
        BY <1>4 DEF WorkerHeader
  <2>3. UNCHANGED <<flags, id, header, procQ, queued, reader, entryVars, bufs, eventVars,
                    wbuf, tpc, apc, alen, histVars>>
        BY <1>4 DEF WorkerHeader
  <2> QED BY <2>1, <2>2, <2>3
<1>5. CASE WorkerDetach
      BY <1>5 DEF WorkerDetach
<1>6. CASE WorkerSubmit
  <2>1. transQ' \in Seq(Buffers)
        BY <1>6 DEF WorkerSubmit
  <2> QED BY <1>6, <2>1, SMTT(40) DEF WorkerSubmit
<1>7. CASE WorkerLeave
      BY <1>7 DEF WorkerLeave
<1>8. CASE WorkerExit
      BY <1>8 DEF WorkerExit
<1>9. CASE WorkerClose
  <2>1. flags' \in SUBSET Flags
        BY <1>9 DEF WorkerClose, Flags
  <2> QED BY <1>9, <2>1 DEF WorkerClose
<1> QED BY <1>1, <1>2, <1>3, <1>4, <1>5, <1>6, <1>7, <1>8, <1>9 DEF Worker

\* Emitting an event keeps the types of the queue and of the history.
LEMMA EmitType ==
    ASSUME TypeOK, NEW e \in {START, END}, pouch_event_emit(e)
    PROVE  eventQ' \in Seq({START, END}) /\ emitted' \in Seq({START, END})
BY DEF TypeOK, pouch_event_emit

\* The steps of the transport thread keep the types.
LEMMA TransportTypeOK ==
    ASSUME TypeOK, Transport
    PROVE  TypeOK'
<1> USE DEF TypeOK, uplinkVars, entryVars, eventVars, threadVars, histVars, TransportPCs
<1>1. CASE TransportStart
  <2>1. flags' \in SUBSET Flags
        BY <1>1 DEF TransportStart, Flags
  <2> QED BY <1>1, <2>1 DEF TransportStart
<1>2. CASE TransportHeader
  <2>1. header' \in Seq(Buffers) /\ Len(header') <= 1
        BY <1>2, HeaderType DEF TransportHeader
  <2>2. eventQ' \in Seq({START, END}) /\ emitted' \in Seq({START, END})
        BY <1>2, EmitType DEF TransportHeader
  <2> QED BY <1>2, <2>1, <2>2, SMTT(30) DEF TransportHeader
<1>3. CASE TransportStartFails
  <2>1. flags' \in SUBSET Flags
        BY <1>3 DEF TransportStartFails
  <2>2. header' \in Seq(Buffers) /\ Len(header') <= 1
    <3>1. header' = header \/ header' = <<>>
          BY <1>3 DEF TransportStartFails
    <3>2. CASE header' = header
          BY <3>2
    <3>3. CASE header' = <<>>
          BY <3>3, EmptyType
    <3> QED BY <3>1, <3>2, <3>3
  <2>3. UNCHANGED <<id, procQ, queued, transQ, reader, entryVars, bufs, eventVars, wpc,
                    wbuf, apc, alen, histVars>>
        BY <1>3 DEF TransportStartFails
  <2>4. tpc' = "idle"
        BY <1>3 DEF TransportStartFails
  <2> QED BY <2>1, <2>2, <2>3, <2>4
<1>4. CASE TransportKick
      BY <1>4 DEF TransportKick
<1>5. CASE TransportFill
      BY <1>5 DEF TransportFill
<1>6. CASE TransportNext
  <2>1. Head(transQ) \in Buffers /\ Tail(transQ) \in Seq(Buffers)
        BY <1>6 DEF TransportNext
  <2>2. reader' \in Seq(Buffers) /\ Len(reader') <= 1 /\ transQ' \in Seq(Buffers)
        BY <1>6, <2>1 DEF TransportNext
  <2> QED BY <1>6, <2>2 DEF TransportNext
<1>7. CASE TransportCopy
  <2>1. wire' \in Seq(Buffers)
        BY <1>7 DEF TransportCopy
  <2>2. sent' \in SUBSET Nat
        BY <1>7, EntriesOfType DEF TransportCopy
  <2> QED BY <1>7, <2>1, <2>2 DEF TransportCopy
<1>8. CASE TransportStop
      BY <1>8 DEF TransportStop
<1>9. CASE TransportCheckOpen
      BY <1>9 DEF TransportCheckOpen
<1>10. CASE TransportCheckQueue
      BY <1>10 DEF TransportCheckQueue
<1>11. CASE TransportEnd
  <2>1. flags' \in SUBSET Flags
        BY <1>11 DEF TransportEnd
  <2>2. eventQ' \in Seq({START, END}) /\ emitted' \in Seq({START, END})
        BY <1>11, EmitType DEF TransportEnd
  <2> QED BY <1>11, <2>1, <2>2 DEF TransportEnd
<1>12. CASE TransportFinish
  <2>1. bufs' \in Int /\ transQ' \in Seq(Buffers)
        BY <1>12 DEF TransportFinish
  <2>2. dropped' \in SUBSET Nat
        BY <1>12, EntriesOfType DEF TransportFinish
  <2> QED BY <1>12, <2>1, <2>2 DEF TransportFinish
<1>13. CASE TransportRelease
  <2>1. dropped' \in SUBSET Nat
        BY <1>13, EntriesOfType DEF TransportRelease
  <2> QED BY <1>13, <2>1 DEF TransportRelease
<1>14. CASE TransportReset
  <2>1. eventQ' \in Seq({START, END}) /\ emitted' \in Seq({START, END})
        BY <1>14, EmitType DEF TransportReset
  <2> QED BY <1>14, <2>1, SMTT(40) DEF TransportReset
<1> QED BY <1>1, <1>2, <1>3, <1>4, <1>5, <1>6, <1>7, <1>8, <1>9, <1>10, <1>11, <1>12,
           <1>13, <1>14 DEF Transport

\* Uplink is type correct: every step of every thread keeps the types of the
\* shared state and the optional buffers optional.
THEOREM TypeCorrect == Spec => []TypeOK
<1>1. Init => TypeOK
  <2> SUFFICES ASSUME Init PROVE TypeOK
      OBVIOUS
  <2>1. apc \in [Apps -> AppPCs] /\ alen \in [Apps -> Nat]
        BY DEF Init, AppPCs
  <2>2. header = <<>> /\ procQ = <<>> /\ transQ = <<>> /\ reader = <<>> /\ block = <<>>
        /\ wbuf = <<>> /\ wire = <<>> /\ eventQ = <<>> /\ emitted = <<>> /\ lost = <<>>
        BY DEF Init
  <2>3. flags = {} /\ id = 0 /\ queued = FALSE /\ mut = {} /\ bufs = 0 /\ writes = 0
        /\ accepted = {} /\ sent = {} /\ dropped = {} /\ promised = {}
        BY DEF Init
  <2>4. wpc = "idle" /\ tpc = "idle" /\ procTail = "last"
        BY DEF Init
  <2>5. /\ header \in Seq(Buffers) /\ Len(header) <= 1
        /\ procQ \in Seq(Buffers) /\ transQ \in Seq(Buffers) /\ wire \in Seq(Buffers)
        /\ reader \in Seq(Buffers) /\ Len(reader) <= 1
        /\ block \in Seq(Buffers) /\ Len(block) <= 1
        /\ wbuf \in Seq(Buffers) /\ Len(wbuf) = 0 /\ lost \in Seq(Buffers)
        BY <2>2, EmptyType
  <2>6. eventQ \in Seq({START, END}) /\ emitted \in Seq({START, END})
        BY <2>2, EmptyType
  <2>7. /\ flags \in SUBSET Flags /\ id \in Nat /\ mut \in SUBSET Apps
        /\ bufs \in Int /\ writes \in Nat /\ accepted \in SUBSET Nat
        /\ sent \in SUBSET Nat /\ dropped \in SUBSET Nat /\ promised \in SUBSET Nat
        BY <2>3
  <2>8. queued \in BOOLEAN
        BY <2>3
  <2>9. wpc \in WorkerPCs /\ tpc \in TransportPCs
        BY <2>4 DEF WorkerPCs, TransportPCs
  <2> QED BY <2>1, <2>4, <2>5, <2>6, <2>7, <2>8, <2>9 DEF TypeOK
<1>2. TypeOK /\ [Next]_vars => TypeOK'
  <2> SUFFICES ASSUME TypeOK, [Next]_vars
               PROVE  TypeOK'
      OBVIOUS
  <2>1. CASE Worker
        BY <2>1, WorkerTypeOK
  <2>2. CASE Transport
        BY <2>2, TransportTypeOK
  <2>3. CASE DispatchEvent
        BY <2>3 DEF DispatchEvent, TypeOK, uplinkVars, entryVars, threadVars, histVars
  <2>4. CASE \E a \in Apps : App(a)
        BY <2>4, AppTypeOK
  <2>5. CASE UNCHANGED vars
        BY <2>5 DEF vars, TypeOK, uplinkVars, entryVars, eventVars, threadVars, histVars
  <2> QED BY <2>1, <2>2, <2>3, <2>4, <2>5 DEF Next
<1> QED BY <1>1, <1>2, PTL DEF Spec

-----------------------------------------------------------------------------
(* No lost wakeup *)

\* An application thread that appends to the processing queue owes the submit,
\* and pays it.
LEMMA AppNoLostWakeup ==
    ASSUME TypeOK, NoLostWakeup, NEW a \in Apps, App(a)
    PROVE  NoLostWakeup'
<1> USE DEF NoLostWakeup, session_is_active, pouch_is_open, uplinkVars, threadVars
<1>t. apc \in [Apps -> AppPCs]
      BY DEF TypeOK
<1>e. ASSUME NEW len, Enqueue(a, len), apc[a] \in {"idle", "lock"},
             UNCHANGED <<queued, wpc, tpc, flags>>
      PROVE  NoLostWakeup'
  <2>1. CASE procQ = <<>> /\ procTail = "last"
    <3>1. apc'[a] \in {"kick", "closekick"}
          BY <1>e, <1>t, <2>1 DEF Enqueue, Submitting
    <3> QED BY <3>1
  <2>2. CASE ~(procQ = <<>> /\ procTail = "last")
    <3>1. UNCHANGED procQ /\ apc' = [apc EXCEPT ![a] = "next"]
          BY <1>e, <2>2 DEF Enqueue
    <3>2. \A b \in Apps : apc[b] \in {"tail", "kick", "closekick"} => apc'[b] = apc[b]
          BY <1>e, <1>t, <3>1
    <3> QED BY <1>e, <3>1, <3>2
  <2> QED BY <2>1, <2>2
<1>1. ASSUME NEW len \in EntryLens, EntryWriteNew(a, len)
      PROVE  NoLostWakeup'
      BY <1>1 DEF EntryWriteNew
<1>2. ASSUME NEW len \in EntryLens, EntryWriteFits(a, len)
      PROVE  NoLostWakeup'
      BY <1>2 DEF EntryWriteFits
<1>3. ASSUME NEW len \in EntryLens, EntryWriteFull(a, len)
      PROVE  NoLostWakeup'
  <2>1. Enqueue(a, len) /\ apc[a] = "idle" /\ UNCHANGED <<queued, wpc, tpc, flags>>
        BY <1>3 DEF EntryWriteFull
  <2> QED BY <1>e, <2>1
<1>4. CASE EntryWriteRetry(a)
      BY <1>4 DEF EntryWriteRetry
<1>5. CASE Close(a)
  <2>1. /\ UNCHANGED <<procQ, queued, wpc, tpc>>
        /\ flags' = flags \cup {POUCH_CLOSING}
        /\ apc[a] = "idle" /\ apc' = [apc EXCEPT ![a] = "lock"]
        BY <1>5 DEF Close
  <2>2. \A b \in Apps : apc[b] \in {"tail", "kick", "closekick"} => apc'[b] = apc[b]
        BY <1>t, <2>1
  <2>3. /\ SESSION_ACTIVE \in flags' => SESSION_ACTIVE \in flags
        /\ POUCH_CLOSED \notin flags' => POUCH_CLOSED \notin flags
        BY <2>1 DEF SESSION_ACTIVE, POUCH_CLOSING
  <2> QED BY <2>1, <2>2, <2>3
<1>6. CASE CloseEntryBlock(a)
  <2>1. CASE block # <<>>
    <3>1. Enqueue(a, 0) /\ apc[a] = "lock" /\ UNCHANGED <<queued, wpc, tpc, flags>>
          BY <1>6, <2>1 DEF CloseEntryBlock
    <3> QED BY <1>e, <3>1
  <2>2. CASE block = <<>>
    <3>1. /\ UNCHANGED <<procQ, queued, wpc, tpc, flags>>
          /\ apc[a] = "lock" /\ apc' = [apc EXCEPT ![a] = "submit"]
          BY <1>6, <2>2 DEF CloseEntryBlock
    <3>2. \A b \in Apps : apc[b] \in {"tail", "kick", "closekick"} => apc'[b] = apc[b]
          BY <1>t, <3>1
    <3> QED BY <3>1, <3>2
  <2> QED BY <2>1, <2>2
<1>7. CASE CloseTimeout(a)
  <2>1. /\ UNCHANGED <<procQ, queued, wpc, tpc, flags>>
        /\ apc[a] = "lock" /\ apc' = [apc EXCEPT ![a] = "submit"]
        BY <1>7 DEF CloseTimeout
  <2>2. \A b \in Apps : apc[b] \in {"tail", "kick", "closekick"} => apc'[b] = apc[b]
        BY <1>t, <2>1
  <2> QED BY <2>1, <2>2
<1>8. CASE CloseKick(a)
      BY <1>8 DEF CloseKick
<1>9. CASE CloseSubmit(a)
      BY <1>9 DEF CloseSubmit
<1>10. CASE AppendNext(a)
  <2>1. apc'[a] = "tail"
        BY <1>10, <1>t DEF AppendNext
  <2> QED BY <2>1
<1>11. CASE AppendStray(a)
  <2>1. procQ' = <<>>
        BY <1>11 DEF AppendStray
  <2> QED BY <2>1
<1>12. CASE AppendTail(a)
  <2>1. apc'[a] \in {"kick", "closekick"}
        BY <1>12, <1>t DEF AppendTail, Submitting
  <2> QED BY <2>1
<1> QED BY <1>1, <1>2, <1>3, <1>4, <1>5, <1>6, <1>7, <1>8, <1>9, <1>10, <1>11, <1>12
        DEF App

\* process_blocks leaves its loop only when there is nothing it could process.
LEMMA WorkerNoLostWakeup ==
    ASSUME NoLostWakeup, Worker
    PROVE  NoLostWakeup'
<1> USE DEF NoLostWakeup, session_is_active, pouch_is_open, uplinkVars, threadVars
<1>1. CASE WorkerBegin
      BY <1>1 DEF WorkerBegin
<1>2. CASE WorkerTake
      BY <1>2 DEF WorkerTake
<1>3. CASE WorkerEncrypt
      BY <1>3 DEF WorkerEncrypt
<1>4. CASE WorkerHeader
      BY <1>4 DEF WorkerHeader
<1>5. CASE WorkerDetach
      BY <1>5 DEF WorkerDetach
<1>6. CASE WorkerSubmit
      BY <1>6 DEF WorkerSubmit
<1>7. CASE WorkerLeave
      BY <1>7 DEF WorkerLeave, LoopCondition
<1>8. CASE WorkerExit
      BY <1>8 DEF WorkerExit
<1>9. CASE WorkerClose
      BY <1>9 DEF WorkerClose
<1> QED BY <1>1, <1>2, <1>3, <1>4, <1>5, <1>6, <1>7, <1>8, <1>9 DEF Worker

\* The thread that makes the session active looks at the queue afterwards.
LEMMA TransportNoLostWakeup ==
    ASSUME NoLostWakeup, Transport
    PROVE  NoLostWakeup'
<1> USE DEF NoLostWakeup, session_is_active, pouch_is_open, uplinkVars, threadVars
<1>1. CASE TransportStart
      BY <1>1 DEF TransportStart
<1>2. CASE TransportHeader
      BY <1>2 DEF TransportHeader
<1>3. CASE TransportStartFails
      BY <1>3 DEF TransportStartFails
<1>4. CASE TransportKick
      BY <1>4 DEF TransportKick
<1>5. CASE TransportFill
      BY <1>5 DEF TransportFill
<1>6. CASE TransportNext
      BY <1>6 DEF TransportNext
<1>7. CASE TransportCopy
      BY <1>7 DEF TransportCopy
<1>8. CASE TransportStop
      BY <1>8 DEF TransportStop
<1>9. CASE TransportCheckOpen
      BY <1>9 DEF TransportCheckOpen
<1>10. CASE TransportCheckQueue
      BY <1>10 DEF TransportCheckQueue
<1>11. CASE TransportEnd
      BY <1>11 DEF TransportEnd
<1>12. CASE TransportFinish
      BY <1>12 DEF TransportFinish
<1>13. CASE TransportRelease
      BY <1>13 DEF TransportRelease
<1>14. CASE TransportReset
      BY <1>14 DEF TransportReset
<1> QED BY <1>1, <1>2, <1>3, <1>4, <1>5, <1>6, <1>7, <1>8, <1>9, <1>10, <1>11, <1>12,
           <1>13, <1>14 DEF Transport

\* No wakeup of process_blocks is lost, however the threads are interleaved:
\* neither between the append and the submit of uplink_enqueue, nor between the
\* start of a session and its look at the queue.
THEOREM WakeupSafe == Spec => []NoLostWakeup
<1>1. Init => NoLostWakeup
      BY DEF Init, NoLostWakeup
<1>2. TypeOK /\ NoLostWakeup /\ [Next]_vars => NoLostWakeup'
  <2> SUFFICES ASSUME TypeOK, NoLostWakeup, [Next]_vars
               PROVE  NoLostWakeup'
      OBVIOUS
  <2>1. CASE Worker
        BY <2>1, WorkerNoLostWakeup
  <2>2. CASE Transport
        BY <2>2, TransportNoLostWakeup
  <2>3. CASE DispatchEvent
        BY <2>3 DEF DispatchEvent, NoLostWakeup, session_is_active, pouch_is_open,
                    uplinkVars, threadVars
  <2>4. CASE \E a \in Apps : App(a)
        BY <2>4, AppNoLostWakeup
  <2>5. CASE UNCHANGED vars
        BY <2>5 DEF vars, NoLostWakeup, session_is_active, pouch_is_open, uplinkVars,
                    threadVars
  <2> QED BY <2>1, <2>2, <2>3, <2>4, <2>5 DEF Next
<1> QED BY <1>1, <1>2, TypeCorrect, PTL DEF Spec

-----------------------------------------------------------------------------
(* A session that ends by itself has sent everything *)

\* The strengthening that makes EndedIsDrained inductive: a closed pouch has no
\* block in the hands of process_blocks, fill goes on past its first test only
\* when the pouch is closed, and the pouch stays closed until it is finished.
ClosedIsFinal ==
    /\ POUCH_CLOSED \in flags => wpc \notin {"encrypt", "header", "detach", "submit"}
    /\ tpc \in {"checkqueue", "end", "done"} => POUCH_CLOSED \in flags

DrainInv == ClosedIsFinal /\ EndedIsDrained

\* No application thread opens a pouch or touches the transport side.
LEMMA AppDrainInv ==
    ASSUME DrainInv, NEW a \in Apps, App(a)
    PROVE  DrainInv'
<1> USE DEF DrainInv, ClosedIsFinal, EndedIsDrained, uplinkVars, threadVars
<1>1. ASSUME NEW len \in EntryLens,
             EntryWriteNew(a, len) \/ EntryWriteFits(a, len) \/ EntryWriteFull(a, len)
      PROVE  DrainInv'
      BY <1>1 DEF EntryWriteNew, EntryWriteFits, EntryWriteFull
<1>2. CASE EntryWriteRetry(a)
      BY <1>2 DEF EntryWriteRetry
<1>3. CASE Close(a)
      BY <1>3 DEF Close, POUCH_CLOSING, POUCH_CLOSED
<1>4. CASE CloseEntryBlock(a)
      BY <1>4 DEF CloseEntryBlock
<1>5. CASE CloseTimeout(a) \/ CloseKick(a) \/ CloseSubmit(a)
      BY <1>5 DEF CloseTimeout, CloseKick, CloseSubmit
<1>6. CASE AppendNext(a) \/ AppendStray(a) \/ AppendTail(a)
      BY <1>6 DEF AppendNext, AppendStray, AppendTail
<1> QED BY <1>1, <1>2, <1>3, <1>4, <1>5, <1>6 DEF App

\* process_blocks closes the pouch only with empty hands, and takes no block of a
\* closed one.
LEMMA WorkerDrainInv ==
    ASSUME DrainInv, Worker
    PROVE  DrainInv'
<1> USE DEF DrainInv, ClosedIsFinal, EndedIsDrained, uplinkVars, threadVars
<1>1. CASE WorkerBegin
      BY <1>1 DEF WorkerBegin
<1>2. CASE WorkerTake
      BY <1>2 DEF WorkerTake, LoopCondition, pouch_is_open
<1>3. CASE WorkerEncrypt
      BY <1>3 DEF WorkerEncrypt
<1>4. CASE WorkerHeader
      BY <1>4 DEF WorkerHeader
<1>5. CASE WorkerDetach
      BY <1>5 DEF WorkerDetach
<1>6. CASE WorkerSubmit
      BY <1>6 DEF WorkerSubmit
<1>7. CASE WorkerLeave
      BY <1>7 DEF WorkerLeave
<1>8. CASE WorkerExit
      BY <1>8 DEF WorkerExit
<1>9. CASE WorkerClose
      BY <1>9 DEF WorkerClose
<1> QED BY <1>1, <1>2, <1>3, <1>4, <1>5, <1>6, <1>7, <1>8, <1>9 DEF Worker

\* fill reads the flag before it looks at the queue; only finish clears it.
LEMMA TransportDrainInv ==
    ASSUME DrainInv, Transport
    PROVE  DrainInv'
<1> USE DEF DrainInv, ClosedIsFinal, EndedIsDrained, uplinkVars, threadVars
<1>1. CASE TransportStart
      BY <1>1 DEF TransportStart, SESSION_ACTIVE, POUCH_CLOSED
<1>2. CASE TransportHeader
      BY <1>2 DEF TransportHeader
<1>3. CASE TransportStartFails
      BY <1>3 DEF TransportStartFails
<1>4. CASE TransportKick
      BY <1>4 DEF TransportKick
<1>5. CASE TransportFill
      BY <1>5 DEF TransportFill
<1>6. CASE TransportNext
      BY <1>6 DEF TransportNext
<1>7. CASE TransportCopy
      BY <1>7 DEF TransportCopy
<1>8. CASE TransportStop
      BY <1>8 DEF TransportStop
<1>9. CASE TransportCheckOpen
      BY <1>9 DEF TransportCheckOpen, pouch_is_open
<1>10. CASE TransportCheckQueue
      BY <1>10 DEF TransportCheckQueue
<1>11. CASE TransportEnd
      BY <1>11 DEF TransportEnd, SESSION_ACTIVE, POUCH_CLOSED
<1>12. CASE TransportFinish
      BY <1>12 DEF TransportFinish
<1>13. CASE TransportRelease
      BY <1>13 DEF TransportRelease
<1>14. CASE TransportReset
      BY <1>14 DEF TransportReset
<1> QED BY <1>1, <1>2, <1>3, <1>4, <1>5, <1>6, <1>7, <1>8, <1>9, <1>10, <1>11, <1>12,
           <1>13, <1>14 DEF Transport

\* The strengthened invariant holds in every state.
LEMMA DrainInvHolds == Spec => []DrainInv
<1>1. Init => DrainInv
      BY DEF Init, DrainInv, ClosedIsFinal, EndedIsDrained
<1>2. DrainInv /\ [Next]_vars => DrainInv'
  <2> SUFFICES ASSUME DrainInv, [Next]_vars
               PROVE  DrainInv'
      OBVIOUS
  <2>1. CASE Worker
        BY <2>1, WorkerDrainInv
  <2>2. CASE Transport
        BY <2>2, TransportDrainInv
  <2>3. CASE DispatchEvent
        BY <2>3 DEF DispatchEvent, DrainInv, ClosedIsFinal, EndedIsDrained, uplinkVars,
                    threadVars
  <2>4. CASE \E a \in Apps : App(a)
        BY <2>4, AppDrainInv
  <2>5. CASE UNCHANGED vars
        BY <2>5 DEF vars, DrainInv, ClosedIsFinal, EndedIsDrained, uplinkVars, threadVars
  <2> QED BY <2>1, <2>2, <2>3, <2>4, <2>5 DEF Next
<1> QED BY <1>1, <1>2, PTL DEF Spec

\* NO_MORE_DATA is final: when fill has decided for it nothing is left in the
\* transport queue and the reader, and nothing is added until the session is
\* finished, although process_blocks is not synchronised with fill.
THEOREM DrainSafe == Spec => []EndedIsDrained
<1>1. DrainInv => EndedIsDrained
      BY DEF DrainInv
<1> QED BY <1>1, DrainInvHolds, PTL

-----------------------------------------------------------------------------
(* What each thread leaves alone *)

\* No application thread touches the transport side, the worker or the history of
\* the events; of the flags it sets POUCH_CLOSING only.
LEMMA AppFrame ==
    ASSUME NEW a \in Apps, App(a)
    PROVE  /\ UNCHANGED <<id, header, transQ, reader, emitted, wpc, wbuf, tpc, sent, dropped, wire>>
           /\ flags' = flags \/ flags' = flags \cup {POUCH_CLOSING}
<1> USE DEF uplinkVars, eventVars, threadVars, histVars
<1>1. ASSUME NEW len \in EntryLens,
             EntryWriteNew(a, len) \/ EntryWriteFits(a, len) \/ EntryWriteFull(a, len)
      PROVE  /\ UNCHANGED <<id, header, transQ, reader, emitted, wpc, wbuf, tpc, sent, dropped, wire>>
             /\ flags' = flags
      BY <1>1 DEF EntryWriteNew, EntryWriteFits, EntryWriteFull
<1>2. CASE EntryWriteRetry(a)
      BY <1>2 DEF EntryWriteRetry
<1>3. CASE Close(a)
      BY <1>3 DEF Close
<1>4. CASE CloseEntryBlock(a)
      BY <1>4 DEF CloseEntryBlock
<1>5. CASE CloseTimeout(a) \/ CloseKick(a) \/ CloseSubmit(a)
      BY <1>5 DEF CloseTimeout, CloseKick, CloseSubmit
<1>6. CASE AppendNext(a) \/ AppendStray(a) \/ AppendTail(a)
      BY <1>6 DEF AppendNext, AppendStray, AppendTail
<1> QED BY <1>1, <1>2, <1>3, <1>4, <1>5, <1>6 DEF App

\* process_blocks touches nothing of the application's and the transport's side
\* but the queues; of the flags it sets POUCH_CLOSED only.
LEMMA WorkerFrame ==
    ASSUME Worker
    PROVE  /\ UNCHANGED <<id, reader, block, mut, procTail, lost, emitted, tpc, apc, alen, writes,
                         accepted, sent, wire, promised>>
           /\ flags' = flags \/ (wpc = "close" /\ flags' = flags \cup {POUCH_CLOSED})
<1> USE DEF uplinkVars, entryVars, eventVars, histVars
<1>1. CASE WorkerBegin \/ WorkerTake \/ WorkerEncrypt \/ WorkerHeader
      BY <1>1 DEF WorkerBegin, WorkerTake, WorkerEncrypt, WorkerHeader
<1>2. CASE WorkerDetach \/ WorkerSubmit \/ WorkerLeave \/ WorkerExit
      BY <1>2 DEF WorkerDetach, WorkerSubmit, WorkerLeave, WorkerExit
<1>3. CASE WorkerClose
      BY <1>3 DEF WorkerClose
<1> QED BY <1>1, <1>2, <1>3 DEF Worker

\* The transport thread touches neither the application's side nor the worker's.
LEMMA TransportFrame ==
    ASSUME Transport
    PROVE  UNCHANGED <<procQ, block, mut, procTail, lost, wpc, wbuf, apc, alen, writes,
                       accepted>>
<1> USE DEF uplinkVars, entryVars, threadVars, histVars
<1>1. CASE TransportStart \/ TransportHeader \/ TransportStartFails \/ TransportKick
      BY <1>1 DEF TransportStart, TransportHeader, TransportStartFails, TransportKick
<1>2. CASE TransportFill \/ TransportNext \/ TransportCopy \/ TransportStop
      BY <1>2 DEF TransportFill, TransportNext, TransportCopy, TransportStop
<1>3. CASE TransportCheckOpen \/ TransportCheckQueue \/ TransportEnd
      BY <1>3 DEF TransportCheckOpen, TransportCheckQueue, TransportEnd
<1>4. CASE TransportFinish \/ TransportRelease \/ TransportReset
      BY <1>4 DEF TransportFinish, TransportRelease, TransportReset
<1> QED BY <1>1, <1>2, <1>3, <1>4 DEF Transport

\* Handing an event to the application touches nothing but the event queue.
LEMMA DispatchFrame ==
    ASSUME DispatchEvent \/ UNCHANGED vars
    PROVE  UNCHANGED <<uplinkVars, entryVars, bufs, emitted, threadVars, histVars>>
BY DEF DispatchEvent, vars, eventVars

\* What becomes of the blocks when an application thread hands one over: the block at
\* hand goes to the end of the processing queue, or falls out of it, or waits.
HandOver ==
    /\ UNCHANGED <<bufs, accepted>>
    /\ \/ UNCHANGED <<procQ, block, lost>>
       \/ procQ' = procQ \o block /\ block' = <<>> /\ UNCHANGED lost
       \/ lost' = lost \o block /\ block' = <<>> /\ UNCHANGED procQ

\* The steps of uplink_enqueue and of pouch_uplink_close do no more than that.
LEMMA AppHandsOver ==
    ASSUME TypeOK, NEW a \in Apps,
           \/ \E len \in EntryLens : EntryWriteFull(a, len)
           \/ AppendNext(a) \/ AppendStray(a) \/ AppendTail(a)
           \/ Close(a) \/ CloseEntryBlock(a) \/ CloseTimeout(a) \/ CloseKick(a)
           \/ CloseSubmit(a)
    PROVE  HandOver
<1> USE DEF HandOver, uplinkVars, entryVars, histVars
<1>e. ASSUME NEW len, Enqueue(a, len), UNCHANGED <<lost, bufs, accepted>>
      PROVE  HandOver
  <2>1. <<>> \o block = block
        BY ConcatEmptySeq DEF TypeOK
  <2> QED BY <1>e, <2>1 DEF Enqueue
<1>1. ASSUME NEW len \in EntryLens, EntryWriteFull(a, len)
      PROVE  HandOver
      BY <1>1, <1>e DEF EntryWriteFull
<1>2. CASE CloseEntryBlock(a)
      BY <1>2, <1>e DEF CloseEntryBlock
<1>3. CASE AppendNext(a) \/ AppendStray(a) \/ AppendTail(a)
      BY <1>3 DEF AppendNext, AppendStray, AppendTail
<1>4. CASE Close(a) \/ CloseTimeout(a) \/ CloseKick(a) \/ CloseSubmit(a)
      BY <1>4 DEF Close, CloseTimeout, CloseKick, CloseSubmit
<1> QED BY <1>1, <1>2, <1>3, <1>4

-----------------------------------------------------------------------------
(* The session flag and the events *)

\* The session is active from the first step of start until fill reports
\* NO_MORE_DATA or finish clears the flags.
ActiveInv ==
    /\ tpc \in {"idle", "done"} => SESSION_ACTIVE \notin flags
    /\ tpc \in {"crypto", "kick", "open", "copy", "checkopen", "checkqueue", "end"} =>
           SESSION_ACTIVE \in flags

\* The start of the session was announced and its end was not.
Announced ==
    \/ tpc \in {"kick", "open", "copy", "checkopen", "checkqueue", "end"}
    \/ tpc \in {"release", "reset"} /\ SESSION_ACTIVE \in flags

EventInv ==
    /\ ActiveInv
    /\ EventsAlternate
    /\ Len(emitted) % 2 = (IF Announced THEN 1 ELSE 0)

\* Emitting the event whose turn it is.
LEMMA EmitAlternates ==
    ASSUME NEW e \in {START, END}, emitted \in Seq({START, END}), EventsAlternate,
           pouch_event_emit(e),
           e = (IF Len(emitted) % 2 = 0 THEN START ELSE END)
    PROVE  /\ EventsAlternate'
           /\ Len(emitted') % 2 = (IF Len(emitted) % 2 = 0 THEN 1 ELSE 0)
<1>1. emitted' = Append(emitted, e)
      BY DEF pouch_event_emit
<1>2. /\ Len(emitted) \in Nat /\ Len(emitted') = Len(emitted) + 1
      /\ DOMAIN emitted' = 1 .. Len(emitted) + 1
      /\ \A i \in 1 .. Len(emitted) : emitted'[i] = emitted[i]
      /\ emitted'[Len(emitted) + 1] = e
      BY <1>1
<1>3. \A i \in 1 .. Len(emitted) : emitted[i] = (IF i % 2 = 1 THEN START ELSE END)
      BY DEF EventsAlternate
<1>4. ((Len(emitted) + 1) % 2 = 1) <=> (Len(emitted) % 2 = 0)
      BY <1>2
<1>5. (Len(emitted) + 1) % 2 = (IF Len(emitted) % 2 = 0 THEN 1 ELSE 0)
      BY <1>2
<1>6. \A i \in 1 .. Len(emitted) + 1 : i \in 1 .. Len(emitted) \/ i = Len(emitted) + 1
      BY <1>2
<1>7. \A i \in 1 .. Len(emitted) : emitted'[i] = (IF i % 2 = 1 THEN START ELSE END)
      BY <1>2, <1>3
<1>8. e = (IF (Len(emitted) + 1) % 2 = 1 THEN START ELSE END)
      BY <1>4
<1>9. \A i \in DOMAIN emitted' : emitted'[i] = (IF i % 2 = 1 THEN START ELSE END)
      BY <1>2, <1>6, <1>7, <1>8
<1>10. Len(emitted') % 2 = (IF Len(emitted) % 2 = 0 THEN 1 ELSE 0)
      BY <1>2, <1>5
<1> QED BY <1>9, <1>10 DEF EventsAlternate

\* The steps of the transport thread emit START and END in turn.
LEMMA TransportEventInv ==
    ASSUME TypeOK, EventInv, Transport
    PROVE  EventInv'
<1>t. emitted \in Seq({START, END})
      BY DEF TypeOK
<1> USE DEF EventInv, ActiveInv, Announced, EventsAlternate, uplinkVars, eventVars,
        session_is_active
<1>1. CASE TransportStart
      BY <1>1 DEF TransportStart
<1>2. CASE TransportHeader
  <2>1. Len(emitted) % 2 = 0
        BY <1>2 DEF TransportHeader
  <2>2. pouch_event_emit(START)
        BY <1>2 DEF TransportHeader
  <2>3. EventsAlternate' /\ Len(emitted') % 2 = 1
        BY <1>t, <2>1, <2>2, EmitAlternates
  <2> QED BY <1>2, <2>3 DEF TransportHeader
<1>3. CASE TransportStartFails
      BY <1>3 DEF TransportStartFails
<1>4. CASE TransportKick \/ TransportFill \/ TransportNext \/ TransportCopy \/ TransportStop
  <2>1. /\ UNCHANGED <<flags, emitted>>
        /\ tpc \in {"kick", "open", "copy"} /\ tpc' \in {"open", "copy", "checkopen"}
        BY <1>4 DEF TransportKick, TransportFill, TransportNext, TransportCopy,
                    TransportStop, threadVars
  <2> QED BY <2>1
<1>5. CASE TransportCheckOpen \/ TransportCheckQueue
  <2>1. /\ UNCHANGED <<flags, emitted>>
        /\ tpc \in {"checkopen", "checkqueue"} /\ tpc' \in {"open", "checkqueue", "end"}
        BY <1>5 DEF TransportCheckOpen, TransportCheckQueue
  <2> QED BY <2>1
<1>6. CASE TransportEnd
  <2>1. Len(emitted) % 2 = 1
        BY <1>6 DEF TransportEnd
  <2>2. pouch_event_emit(END)
        BY <1>6 DEF TransportEnd
  <2>3. EventsAlternate' /\ Len(emitted') % 2 = 0
        BY <1>t, <2>1, <2>2, EmitAlternates
  <2> QED BY <1>6, <2>3 DEF TransportEnd
<1>7. CASE TransportFinish
      BY <1>7 DEF TransportFinish
<1>8. CASE TransportRelease
      BY <1>8 DEF TransportRelease
<1>9. CASE TransportReset
  <2>1. CASE SESSION_ACTIVE \in flags
    <3>1. Len(emitted) % 2 = 1
          BY <1>9, <2>1 DEF TransportReset
    <3>2. pouch_event_emit(END)
          BY <1>9, <2>1 DEF TransportReset
    <3>3. EventsAlternate' /\ Len(emitted') % 2 = 0
          BY <1>t, <3>1, <3>2, EmitAlternates
    <3> QED BY <1>9, <3>3 DEF TransportReset
  <2>2. CASE SESSION_ACTIVE \notin flags
        BY <1>9, <2>2 DEF TransportReset
  <2> QED BY <2>1, <2>2
<1> QED BY <1>1, <1>2, <1>3, <1>4, <1>5, <1>6, <1>7, <1>8, <1>9 DEF Transport

\* The other threads touch neither the session flag nor the events.
LEMMA OtherEventInv ==
    ASSUME EventInv, UNCHANGED <<tpc, emitted>>,
           (SESSION_ACTIVE \in flags') <=> (SESSION_ACTIVE \in flags)
    PROVE  EventInv'
BY DEF EventInv, ActiveInv, Announced, EventsAlternate

\* The invariant of the events holds in every state.
LEMMA EventInvHolds == Spec => []EventInv
<1>1. Init => EventInv
      BY DEF Init, EventInv, ActiveInv, EventsAlternate, Announced
<1>2. TypeOK /\ EventInv /\ [Next]_vars => EventInv'
  <2> SUFFICES ASSUME TypeOK, EventInv, [Next]_vars
               PROVE  EventInv'
      OBVIOUS
  <2>1. CASE Worker
    <3>1. /\ UNCHANGED <<tpc, emitted>>
          /\ flags' = flags \/ flags' = flags \cup {POUCH_CLOSED}
          BY <2>1, WorkerFrame
    <3>2. (SESSION_ACTIVE \in flags') <=> (SESSION_ACTIVE \in flags)
          BY <3>1 DEF SESSION_ACTIVE, POUCH_CLOSED
    <3> QED BY <3>1, <3>2, OtherEventInv
  <2>2. CASE Transport
        BY <2>2, TransportEventInv
  <2>3. CASE DispatchEvent \/ UNCHANGED vars
    <3>1. UNCHANGED <<tpc, emitted, flags>>
          BY <2>3, DispatchFrame DEF uplinkVars, threadVars
    <3> QED BY <3>1, OtherEventInv
  <2>4. CASE \E a \in Apps : App(a)
    <3>1. /\ UNCHANGED <<tpc, emitted>>
          /\ flags' = flags \/ flags' = flags \cup {POUCH_CLOSING}
          BY <2>4, AppFrame
    <3>2. (SESSION_ACTIVE \in flags') <=> (SESSION_ACTIVE \in flags)
          BY <3>1 DEF SESSION_ACTIVE, POUCH_CLOSING
    <3> QED BY <3>1, <3>2, OtherEventInv
  <2> QED BY <2>1, <2>2, <2>3, <2>4 DEF Next
<1> QED BY <1>1, <1>2, TypeCorrect, PTL DEF Spec

\* Each session that is announced to the application ends with exactly one end
\* event before the next start, although two places emit it: fill, when it reports
\* NO_MORE_DATA, and finish, when the session is still active.
THEOREM EventsSafe == Spec => []EventsAlternate
<1>1. EventInv => EventsAlternate
      BY DEF EventInv
<1> QED BY <1>1, EventInvHolds, PTL

-----------------------------------------------------------------------------
(* Scheduling *)

\* With the cooperative scheduler process_blocks and a call of the transport are
\* never both under way, and a transport that waits for NO_MORE_DATA finishes
\* closed pouches only.
SchedInv ==
    /\ Cooperative => ~(WorkerBusy /\ TransportBusy)
    /\ ~EarlyFinish => (tpc \in {"release", "reset"} => POUCH_CLOSED \in flags)

\* The steps of the transport thread keep SchedInv.
LEMMA TransportSchedInv ==
    ASSUME DrainInv, SchedInv, Transport
    PROVE  SchedInv'
<1> USE DEF SchedInv, TransportMayRun, WorkerBusy, TransportBusy
<1>1. UNCHANGED wpc
      BY TransportFrame
<1>2. Cooperative => ~(WorkerBusy /\ TransportBusy)'
  <2>1. TransportMayRun
        BY DEF Transport, TransportStart, TransportHeader, TransportStartFails,
               TransportKick, TransportFill, TransportNext, TransportCopy, TransportStop,
               TransportCheckOpen, TransportCheckQueue, TransportEnd, TransportFinish,
               TransportRelease, TransportReset
  <2> QED BY <1>1, <2>1
<1>3. ~EarlyFinish => (tpc' \in {"release", "reset"} => POUCH_CLOSED \in flags')
  <2>1. CASE TransportFinish
        BY <2>1 DEF TransportFinish, DrainInv, ClosedIsFinal
  <2>2. CASE TransportRelease
        BY <2>2 DEF TransportRelease
  <2>3. CASE TransportStart \/ TransportHeader \/ TransportStartFails \/ TransportKick
        BY <2>3 DEF TransportStart, TransportHeader, TransportStartFails, TransportKick
  <2>4. CASE TransportFill \/ TransportNext \/ TransportCopy \/ TransportStop
        BY <2>4 DEF TransportFill, TransportNext, TransportCopy, TransportStop, threadVars
  <2>5. CASE TransportCheckOpen \/ TransportCheckQueue \/ TransportEnd \/ TransportReset
        BY <2>5 DEF TransportCheckOpen, TransportCheckQueue, TransportEnd, TransportReset
  <2> QED BY <2>1, <2>2, <2>3, <2>4, <2>5 DEF Transport
<1> QED BY <1>2, <1>3

\* SchedInv holds in every state.
LEMMA SchedInvHolds == Spec => []SchedInv
<1>1. Init => SchedInv
      BY DEF Init, SchedInv, WorkerBusy
<1>2. DrainInv /\ SchedInv /\ [Next]_vars => SchedInv'
  <2> SUFFICES ASSUME DrainInv, SchedInv, [Next]_vars
               PROVE  SchedInv'
      OBVIOUS
  <2> USE DEF SchedInv, WorkerBusy, TransportBusy
  <2>1. CASE Worker
    <3>1. /\ UNCHANGED tpc
          /\ flags' = flags \/ flags' = flags \cup {POUCH_CLOSED}
          BY <2>1, WorkerFrame
    <3>2. WorkerMayRun
          BY <2>1 DEF Worker, WorkerBegin, WorkerTake, WorkerEncrypt, WorkerHeader,
                      WorkerDetach, WorkerSubmit, WorkerLeave, WorkerExit, WorkerClose
    <3> QED BY <3>1, <3>2 DEF WorkerMayRun
  <2>2. CASE Transport
        BY <2>2, TransportSchedInv
  <2>3. CASE DispatchEvent \/ UNCHANGED vars
        BY <2>3, DispatchFrame DEF uplinkVars, threadVars
  <2>4. CASE \E a \in Apps : App(a)
    <3>1. /\ UNCHANGED <<tpc, wpc>>
          /\ flags' = flags \/ flags' = flags \cup {POUCH_CLOSING}
          BY <2>4, AppFrame
    <3> QED BY <3>1
  <2> QED BY <2>1, <2>2, <2>3, <2>4 DEF Next
<1> QED BY <1>1, <1>2, DrainInvHolds, PTL DEF Spec

-----------------------------------------------------------------------------
(* The mutex of the entry writer *)

\* A thread that enqueues a block and has not submitted the work item yet owns the
\* mutex, and once the block is handed over there is no entry block until it unlocks.
MutexInv ==
    \A a \in Apps : apc[a] \in {"next", "tail", "kick", "closekick"} =>
        mut = {a} /\ (apc[a] # "next" => block = <<>>)

\* MutexInv holds in every state.
LEMMA MutexInvHolds == Spec => []MutexInv
<1>1. Init => MutexInv
      BY DEF Init, MutexInv
<1>2. TypeOK /\ MutexInv /\ [Next]_vars => MutexInv'
  <2> SUFFICES ASSUME TypeOK, MutexInv, [Next]_vars
               PROVE  MutexInv'
      OBVIOUS
  <2> USE DEF MutexInv
  <2>t. apc \in [Apps -> AppPCs]
        BY DEF TypeOK
  <2>e. ASSUME NEW a \in Apps, NEW len, Enqueue(a, len), mut = {}
        PROVE  MutexInv'
    <3>1. \A b \in Apps : b # a => apc'[b] \notin {"next", "tail", "kick", "closekick"}
          BY <2>t, <2>e DEF Enqueue
    <3>2. mut' = {a} /\ (apc'[a] = "next" \/ block' = <<>>)
          BY <2>t, <2>e DEF Enqueue
    <3> QED BY <3>1, <3>2
  <2>n. ASSUME NEW a \in Apps, apc[a] \in {"next", "tail", "kick", "closekick"},
               NEW pc \in AppPCs, apc' = [apc EXCEPT ![a] = pc],
               pc \in {"next", "tail", "kick", "closekick"} =>
                   UNCHANGED mut /\ pc # "next" /\ block' = <<>>
        PROVE  MutexInv'
    <3>1. \A b \in Apps : b # a => apc[b] \notin {"next", "tail", "kick", "closekick"}
          BY <2>n
    <3>2. \A b \in Apps : b # a => apc'[b] = apc[b]
          BY <2>t, <2>n
    <3>3. apc'[a] = pc
          BY <2>t, <2>n
    <3> QED BY <2>n, <3>1, <3>2, <3>3
  <2>1. CASE Worker
    <3>1. UNCHANGED <<apc, mut, block>>
          BY <2>1, WorkerFrame
    <3> QED BY <3>1
  <2>2. CASE Transport
    <3>1. UNCHANGED <<apc, mut, block>>
          BY <2>2, TransportFrame
    <3> QED BY <3>1
  <2>3. CASE DispatchEvent \/ UNCHANGED vars
    <3>1. UNCHANGED <<apc, mut, block>>
          BY <2>3, DispatchFrame DEF entryVars, threadVars
    <3> QED BY <3>1
  <2>4. ASSUME NEW a \in Apps, App(a)
        PROVE  MutexInv'
    <3>1. ASSUME NEW len \in EntryLens, EntryWriteNew(a, len) \/ EntryWriteFits(a, len)
          PROVE  MutexInv'
      <4>1. UNCHANGED <<apc, mut>> /\ mut = {}
            BY <3>1 DEF EntryWriteNew, EntryWriteFits, threadVars
      <4> QED BY <4>1
    <3>2. ASSUME NEW len \in EntryLens, EntryWriteFull(a, len)
          PROVE  MutexInv'
      <4>1. mut = {} /\ Enqueue(a, len)
            BY <3>2 DEF EntryWriteFull
      <4> QED BY <2>e, <4>1
    <3>3. CASE EntryWriteRetry(a)
      <4>1. apc[a] = "kick" /\ apc' = [apc EXCEPT ![a] = "idle"]
            BY <3>3 DEF EntryWriteRetry
      <4> QED BY <2>n, <4>1 DEF AppPCs
    <3>4. CASE Close(a)
      <4>1. apc' = [apc EXCEPT ![a] = "lock"] /\ UNCHANGED <<mut, block>>
            BY <3>4 DEF Close, entryVars
      <4> QED BY <2>t, <4>1
    <3>5. CASE CloseEntryBlock(a)
      <4>1. CASE block # <<>>
        <5>1. mut = {} /\ Enqueue(a, 0)
              BY <3>5, <4>1 DEF CloseEntryBlock
        <5> QED BY <2>e, <5>1
      <4>2. CASE block = <<>>
        <5>1. apc' = [apc EXCEPT ![a] = "submit"] /\ UNCHANGED <<mut, block>>
              BY <3>5, <4>2 DEF CloseEntryBlock, entryVars
        <5> QED BY <2>t, <5>1
      <4> QED BY <4>1, <4>2
    <3>6. CASE CloseTimeout(a)
      <4>1. apc' = [apc EXCEPT ![a] = "submit"] /\ UNCHANGED <<mut, block>>
            BY <3>6 DEF CloseTimeout, entryVars
      <4> QED BY <2>t, <4>1
    <3>7. CASE CloseKick(a)
      <4>1. apc[a] = "closekick" /\ apc' = [apc EXCEPT ![a] = "submit"]
            BY <3>7 DEF CloseKick
      <4> QED BY <2>n, <4>1 DEF AppPCs
    <3>8. CASE CloseSubmit(a)
      <4>1. apc' = [apc EXCEPT ![a] = "idle"] /\ UNCHANGED <<mut, block>>
            BY <3>8 DEF CloseSubmit, entryVars
      <4> QED BY <2>t, <4>1
    <3>9. CASE AppendNext(a)
      <4>1. /\ apc[a] = "next" /\ apc' = [apc EXCEPT ![a] = "tail"]
            /\ UNCHANGED mut /\ block' = <<>>
            BY <3>9 DEF AppendNext
      <4> QED BY <2>n, <4>1 DEF AppPCs
    <3>s. Submitting(alen[a]) \in AppPCs /\ Submitting(alen[a]) # "next"
          BY DEF Submitting, AppPCs
    <3>10. CASE AppendStray(a)
      <4>1. /\ apc[a] = "next" /\ apc' = [apc EXCEPT ![a] = Submitting(alen[a])]
            /\ UNCHANGED mut /\ block' = <<>>
            BY <3>10 DEF AppendStray
      <4> QED BY <2>n, <3>s, <4>1
    <3>11. CASE AppendTail(a)
      <4>1. /\ apc[a] = "tail" /\ apc' = [apc EXCEPT ![a] = Submitting(alen[a])]
            /\ UNCHANGED mut /\ block' = <<>>
            BY <3>11 DEF AppendTail
      <4> QED BY <2>n, <3>s, <4>1
    <3> QED BY <2>4, <3>1, <3>2, <3>3, <3>4, <3>5, <3>6, <3>7, <3>8, <3>9, <3>10, <3>11
            DEF App
  <2> QED BY <2>1, <2>2, <2>3, <2>4 DEF Next
<1> QED BY <1>1, <1>2, TypeCorrect, PTL DEF Spec

-----------------------------------------------------------------------------
(* No buffer is leaked or freed twice *)

\* uplink.header is set only between start and finish, and process_blocks has it
\* in the queue and still in uplink.header at one place only.
HeaderInv ==
    /\ tpc \in {"idle", "crypto", "reset"} => header = <<>>
    /\ wpc = "detach" => header # <<>>

BufferInv == HeaderInv /\ BuffersAccounted

\* The lengths that BuffersAccounted adds up.
LEMMA LengthTypes ==
    ASSUME TypeOK
    PROVE  /\ Len(header) \in Nat /\ Len(procQ) \in Nat /\ Len(transQ) \in Nat
           /\ Len(reader) \in Nat /\ Len(block) \in Nat /\ Len(wbuf) \in Nat
           /\ Len(lost) \in Nat /\ bufs \in Int
           /\ header # <<>> => Len(header) = 1
           /\ reader # <<>> => Len(reader) = 1
           /\ block # <<>> => Len(block) = 1
           /\ Len(<<>>) = 0
<1>1. /\ header \in Seq(Buffers) /\ procQ \in Seq(Buffers) /\ transQ \in Seq(Buffers)
      /\ reader \in Seq(Buffers) /\ block \in Seq(Buffers) /\ wbuf \in Seq(Buffers)
      /\ lost \in Seq(Buffers) /\ bufs \in Int /\ Len(header) <= 1 /\ Len(reader) <= 1 /\ Len(block) <= 1
      BY DEF TypeOK
<1>2. ASSUME NEW s \in Seq(Buffers), Len(s) <= 1
      PROVE  s # <<>> => Len(s) = 1
  <2>1. s # <<>> => Len(s) # 0
        BY EmptySeq
  <2>2. Len(s) \in Nat
        OBVIOUS
  <2> QED BY <1>2, <2>1, <2>2
<1>3. /\ Len(header) \in Nat /\ Len(procQ) \in Nat /\ Len(transQ) \in Nat
      /\ Len(reader) \in Nat /\ Len(block) \in Nat /\ Len(wbuf) \in Nat
      /\ Len(lost) \in Nat
      BY <1>1
<1>4. Len(<<>>) = 0
      OBVIOUS
<1> QED BY <1>1, <1>2, <1>3, <1>4

\* A write leaves one entry block, whether the entry fits or not.
LEMMA WriteIntoLen ==
    ASSUME NEW b, NEW len, NEW e, WriteInto(b, len, e)
    PROVE  Len(block') = 1
BY DEF WriteInto

\* The steps of an application thread keep the buffers accounted for.
LEMMA AppBufferInv ==
    ASSUME TypeOK, MutexInv, BufferInv, NEW a \in Apps, App(a)
    PROVE  BufferInv'
<1>f. UNCHANGED <<header, transQ, reader, wpc, wbuf, tpc>>
      BY AppFrame
<1>t. /\ Len(header) \in Nat /\ Len(procQ) \in Nat /\ Len(transQ) \in Nat
      /\ Len(reader) \in Nat /\ Len(block) \in Nat /\ Len(wbuf) \in Nat
      /\ Len(lost) \in Nat /\ bufs \in Int
      /\ block # <<>> => Len(block) = 1
      /\ Len(<<>>) = 0
      BY LengthTypes
<1>s. procQ \in Seq(Buffers) /\ lost \in Seq(Buffers) /\ block \in Seq(Buffers)
      BY DEF TypeOK
<1>1. /\ bufs' - bufs = Len(procQ') - Len(procQ) + Len(block') - Len(block)
                        + Len(lost') - Len(lost)
      /\ bufs' \in Int /\ Len(procQ') \in Nat /\ Len(block') \in Nat /\ Len(lost') \in Nat
  <2>1. ASSUME NEW len \in EntryLens, EntryWriteNew(a, len)
        PROVE  <1>1!:
    <3>1. Len(block') = 1 /\ block = <<>> /\ bufs' = bufs + 1 /\ UNCHANGED <<procQ, lost>>
          BY <2>1, WriteIntoLen DEF EntryWriteNew, uplinkVars
    <3> QED BY <1>t, <3>1
  <2>2. ASSUME NEW len \in EntryLens, EntryWriteFits(a, len)
        PROVE  <1>1!:
    <3>1. Len(block') = 1 /\ Len(block) = 1 /\ bufs' = bufs /\ UNCHANGED <<procQ, lost>>
          BY <2>2, <1>t, WriteIntoLen DEF EntryWriteFits, uplinkVars
    <3> QED BY <1>t, <3>1
  <2>3. CASE HandOver
    <3>1. /\ Len(procQ \o block) = Len(procQ) + Len(block)
          /\ Len(lost \o block) = Len(lost) + Len(block)
          BY <1>s, ConcatProperties
    <3>2. CASE UNCHANGED <<procQ, block, lost>>
          BY <1>t, <2>3, <3>2 DEF HandOver
    <3>3. CASE procQ' = procQ \o block /\ block' = <<>> /\ UNCHANGED lost
          BY <1>t, <2>3, <3>1, <3>3 DEF HandOver
    <3>4. CASE lost' = lost \o block /\ block' = <<>> /\ UNCHANGED procQ
          BY <1>t, <2>3, <3>1, <3>4 DEF HandOver
    <3> QED BY <2>3, <3>2, <3>3, <3>4 DEF HandOver
  <2>4. CASE EntryWriteRetry(a)
    <3>1. UNCHANGED <<procQ, lost>> /\ block = <<>>
          BY <2>4 DEF EntryWriteRetry, MutexInv
    <3>2. CASE bufs' = bufs + 1 /\ WriteInto(block_alloc, alen[a], writes)
      <4>1. Len(block') = 1
            BY <3>2, WriteIntoLen
      <4> QED BY <1>t, <3>1, <3>2, <4>1
    <3>3. CASE UNCHANGED <<bufs, block>>
          BY <1>t, <3>1, <3>3
    <3> QED BY <2>4, <3>2, <3>3 DEF EntryWriteRetry
  <2> QED BY <2>1, <2>2, <2>3, <2>4, AppHandsOver DEF App
<1>2. HeaderInv'
      BY <1>f DEF BufferInv, HeaderInv
<1>3. BuffersAccounted'
  <2> DEFINE o  == IF wpc = "detach" THEN 1 ELSE 0
             nh == Len(header)  np == Len(procQ)  nt == Len(transQ)
             nr == Len(reader)  nb == Len(block)  nw == Len(wbuf)  nl == Len(lost)
             mp == Len(procQ')  mb == Len(block')  ml == Len(lost')
             m  == bufs'
  <2>1. bufs = nh + np + nt + nr + nb + nw + nl - o
        BY DEF BufferInv, BuffersAccounted
  <2>2. /\ nh \in Nat /\ np \in Nat /\ nt \in Nat /\ nr \in Nat /\ nb \in Nat /\ nw \in Nat
        /\ mp \in Nat /\ mb \in Nat /\ nl \in Nat /\ ml \in Nat
        /\ bufs \in Int /\ m \in Int /\ o \in Nat
        /\ m - bufs = mp - np + mb - nb + ml - nl
        BY <1>t, <1>1
  <2> HIDE DEF o, nh, np, nt, nr, nb, nw, nl, mp, mb, ml, m
  <2>3. m = nh + mp + nt + nr + mb + nw + ml - o
        BY ONLY <2>1, <2>2
  <2> USE DEF o, nh, nt, nr, nw, mp, mb, ml, m
  <2> QED BY <1>f, <2>3 DEF BuffersAccounted
<1> QED BY <1>2, <1>3 DEF BufferInv

\* The steps of process_blocks keep the buffers accounted for.
LEMMA WorkerBufferInv ==
    ASSUME TypeOK, BufferInv, Worker
    PROVE  BufferInv'
<1> USE DEF BufferInv, HeaderInv, BuffersAccounted
<1>f. UNCHANGED <<reader, block, lost, tpc>>
      BY WorkerFrame
<1>t. /\ Len(header) \in Nat /\ Len(procQ) \in Nat /\ Len(transQ) \in Nat
      /\ Len(reader) \in Nat /\ Len(block) \in Nat /\ Len(wbuf) \in Nat
      /\ Len(lost) \in Nat /\ bufs \in Int
      /\ header # <<>> => Len(header) = 1
      /\ Len(<<>>) = 0
      BY LengthTypes
<1>s. /\ procQ \in Seq(Buffers) /\ transQ \in Seq(Buffers) /\ header \in Seq(Buffers)
      /\ wbuf \in Seq(Buffers)
      /\ Len(wbuf) = (IF wpc \in {"encrypt", "header", "detach", "submit"} THEN 1 ELSE 0)
      BY DEF TypeOK
<1>1. CASE WorkerBegin
      BY <1>f, <1>1 DEF WorkerBegin
<1>2. CASE WorkerTake
  <2>1. /\ procQ # <<>> /\ procQ' = Tail(procQ) /\ wbuf' = <<Head(procQ)>>
        /\ wpc = "loop" /\ wpc' = "encrypt" /\ UNCHANGED <<header, transQ, bufs>>
        BY <1>2 DEF WorkerTake, LoopCondition
  <2>2. Len(procQ') = Len(procQ) - 1 /\ Len(wbuf') = 1 /\ Len(wbuf) = 0
        BY <1>s, <2>1
  <2> QED BY <1>f, <1>t, <2>1, <2>2
<1>3. CASE WorkerEncrypt
  <2>1. wpc = "encrypt" /\ Len(wbuf) = 1 /\ UNCHANGED <<header, procQ, transQ>>
        BY <1>3, <1>s DEF WorkerEncrypt, uplinkVars
  <2>2. \/ Len(wbuf') = 1 /\ wpc' = "header" /\ bufs' = bufs
        \/ Len(wbuf') = 0 /\ wpc' = "loop" /\ bufs' = bufs - 1
        BY <1>3 DEF WorkerEncrypt
  <2>3. wpc' # "detach" /\ bufs' - bufs = Len(wbuf') - 1 /\ bufs' \in Int
        /\ Len(wbuf') \in Nat
    <3>1. bufs \in Int
          BY <1>t
    <3>2. CASE Len(wbuf') = 1 /\ wpc' = "header" /\ bufs' = bufs
          BY <3>1, <3>2
    <3>3. CASE Len(wbuf') = 0 /\ wpc' = "loop" /\ bufs' = bufs - 1
          BY <3>1, <3>3
    <3> QED BY <2>2, <3>2, <3>3
  <2>4. HeaderInv'
        BY <1>f, <2>1, <2>3
  <2>5. bufs = Len(header) + Len(procQ) + Len(transQ) + Len(reader) + Len(block) + 1
               + Len(lost)
        BY <1>t, <2>1
  <2>6. BuffersAccounted'
        BY <1>f, <1>t, <2>1, <2>3, <2>5, SMTT(30)
  <2> QED BY <2>4, <2>6
<1>4. CASE WorkerHeader
  <2>1. /\ wpc = "header" /\ transQ' = transQ \o header
        /\ wpc' = (IF header # <<>> THEN "detach" ELSE "submit")
        /\ UNCHANGED <<header, procQ, wbuf, bufs>>
        BY <1>4 DEF WorkerHeader
  <2>2. Len(transQ') = Len(transQ) + Len(header)
        BY <1>s, <2>1
  <2> QED BY <1>f, <1>t, <2>1, <2>2, SMTT(30)
<1>5. CASE WorkerDetach
  <2>1. /\ wpc = "detach" /\ header' = <<>> /\ wpc' = "submit"
        /\ UNCHANGED <<procQ, transQ, wbuf, bufs>>
        BY <1>5 DEF WorkerDetach
  <2>2. Len(header) = 1 /\ Len(header') = 0
        BY <1>t, <2>1
  <2> QED BY <1>f, <1>t, <2>1, <2>2
<1>6. CASE WorkerSubmit
  <2>1. /\ wpc = "submit" /\ transQ' = transQ \o wbuf /\ wbuf' = <<>> /\ wpc' = "loop"
        /\ UNCHANGED <<header, procQ, bufs>>
        BY <1>6 DEF WorkerSubmit
  <2>2. Len(transQ \o wbuf) = Len(transQ) + Len(wbuf)
        BY <1>s, ConcatProperties
  <2>3. Len(transQ') = Len(transQ) + Len(wbuf) /\ Len(wbuf') = 0
        BY <1>t, <2>1, <2>2
  <2> QED BY <1>f, <1>t, <2>1, <2>3
<1>7. CASE WorkerLeave \/ WorkerExit \/ WorkerClose
  <2>1. /\ wpc \in {"loop", "exit", "close"} /\ wpc' \in {"exit", "close", "idle"}
        /\ UNCHANGED <<header, procQ, transQ, wbuf, bufs>>
        BY <1>7 DEF WorkerLeave, WorkerExit, WorkerClose, uplinkVars
  <2> QED BY <1>f, <2>1
<1> QED BY <1>1, <1>2, <1>3, <1>4, <1>5, <1>6, <1>7 DEF Worker

\* The steps of the transport thread keep the buffers accounted for, when finish
\* cannot free the header while process_blocks is moving it to the queue.
LEMMA TransportBufferInv ==
    ASSUME Cooperative \/ ~EarlyFinish, TypeOK, DrainInv, SchedInv, BufferInv, Transport
    PROVE  BufferInv'
<1> USE DEF BufferInv, HeaderInv, BuffersAccounted
<1>f. UNCHANGED <<procQ, block, lost, wbuf, wpc>>
      BY TransportFrame
<1>t. /\ Len(header) \in Nat /\ Len(procQ) \in Nat /\ Len(transQ) \in Nat
      /\ Len(reader) \in Nat /\ Len(block) \in Nat /\ Len(wbuf) \in Nat
      /\ Len(lost) \in Nat /\ bufs \in Int
      /\ reader # <<>> => Len(reader) = 1
      /\ Len(<<>>) = 0
      BY LengthTypes
<1>s. transQ \in Seq(Buffers)
      BY DEF TypeOK
<1>1. CASE TransportStart
      BY <1>f, <1>1 DEF TransportStart
<1>2. CASE TransportHeader
  <2>1. /\ tpc = "crypto" /\ tpc' = "kick" /\ bufs' = bufs + 1
        /\ header' = <<pouch_header_create(id)>> /\ UNCHANGED <<transQ, reader>>
        BY <1>2 DEF TransportHeader
  <2>2. Len(header') = 1 /\ header' # <<>>
        BY <2>1
  <2> QED BY <1>f, <1>t, <2>1, <2>2
<1>3. CASE TransportStartFails
      BY <1>f, <1>3 DEF TransportStartFails
<1>4. CASE TransportKick \/ TransportFill \/ TransportStop
  <2>1. /\ UNCHANGED <<header, transQ, reader, bufs>>
        /\ tpc' \in {"open", "copy", "checkopen"}
        BY <1>4 DEF TransportKick, TransportFill, TransportStop, uplinkVars
  <2> QED BY <1>f, <2>1
<1>5. CASE TransportNext
  <2>1. /\ tpc = "copy" /\ UNCHANGED <<tpc, header, bufs>>
        /\ reader = <<>> /\ reader' = <<Head(transQ)>>
        /\ transQ # <<>> /\ transQ' = Tail(transQ)
        BY <1>5 DEF TransportNext, threadVars
  <2>2. Len(transQ') = Len(transQ) - 1 /\ Len(reader') = 1
        BY <1>s, <2>1
  <2> QED BY <1>f, <1>t, <2>1, <2>2
<1>6. CASE TransportCopy
  <2>1. /\ tpc = "copy" /\ UNCHANGED <<tpc, header, transQ>>
        /\ reader # <<>> /\ reader' = <<>> /\ bufs' = bufs - 1
        BY <1>6 DEF TransportCopy, threadVars
  <2>2. Len(reader) = 1 /\ Len(reader') = 0
        BY <1>t, <2>1
  <2> QED BY <1>f, <1>t, <2>1, <2>2
<1>7. CASE TransportCheckOpen \/ TransportCheckQueue \/ TransportEnd
  <2>1. /\ UNCHANGED <<header, transQ, reader, bufs>>
        /\ tpc' \in {"open", "checkqueue", "end", "done"}
        BY <1>7 DEF TransportCheckOpen, TransportCheckQueue, TransportEnd, uplinkVars
  <2> QED BY <1>f, <2>1
<1>8. CASE TransportFinish
  <2>1. /\ tpc' = "release" /\ bufs' = bufs - Len(transQ) /\ transQ' = <<>>
        /\ UNCHANGED <<header, reader>>
        BY <1>8 DEF TransportFinish
  <2> QED BY <1>f, <1>t, <2>1
<1>9. CASE TransportRelease
  <2>1. /\ tpc = "release" /\ tpc' = "reset" /\ bufs' = bufs - Len(reader) - Len(header)
        /\ reader' = <<>> /\ header' = <<>> /\ UNCHANGED transQ
        BY <1>9 DEF TransportRelease
  <2>2. wpc # "detach"
        BY <2>1 DEF SchedInv, DrainInv, ClosedIsFinal, WorkerBusy, TransportBusy
  <2> QED BY <1>f, <1>t, <2>1, <2>2
<1>10. CASE TransportReset
      BY <1>f, <1>10 DEF TransportReset
<1> QED BY <1>1, <1>2, <1>3, <1>4, <1>5, <1>6, <1>7, <1>8, <1>9, <1>10 DEF Transport

\* BufferInv holds in every state.
LEMMA BufferInvHolds ==
    ASSUME Cooperative \/ ~EarlyFinish
    PROVE  Spec => []BufferInv
<1>1. Init => BufferInv
  <2> SUFFICES ASSUME Init PROVE BufferInv
      OBVIOUS
  <2>1. /\ header = <<>> /\ procQ = <<>> /\ transQ = <<>> /\ reader = <<>> /\ block = <<>>
        /\ wbuf = <<>> /\ lost = <<>> /\ bufs = 0 /\ wpc = "idle"
        BY DEF Init
  <2>2. Len(<<>>) = 0
        OBVIOUS
  <2> QED BY <2>1, <2>2 DEF BufferInv, HeaderInv, BuffersAccounted
<1>2. /\ TypeOK /\ DrainInv /\ SchedInv /\ MutexInv /\ BufferInv /\ [Next]_vars
      => BufferInv'
  <2> SUFFICES ASSUME TypeOK, DrainInv, SchedInv, MutexInv, BufferInv, [Next]_vars
               PROVE  BufferInv'
      OBVIOUS
  <2>1. CASE Worker
        BY <2>1, WorkerBufferInv
  <2>2. CASE Transport
        BY <2>2, TransportBufferInv
  <2>3. CASE DispatchEvent \/ UNCHANGED vars
    <3>1. UNCHANGED <<header, procQ, transQ, reader, block, lost, wbuf, bufs, wpc, tpc>>
          BY <2>3, DispatchFrame DEF uplinkVars, entryVars, threadVars
    <3> QED BY <3>1 DEF BufferInv, HeaderInv, BuffersAccounted
  <2>4. CASE \E a \in Apps : App(a)
        BY <2>4, AppBufferInv
  <2> QED BY <2>1, <2>2, <2>3, <2>4 DEF Next
<1> QED BY <1>1, <1>2, TypeCorrect, DrainInvHolds, SchedInvHolds, MutexInvHolds, PTL
        DEF Spec

\* Every buffer in flight has exactly one owner, through the hand-overs between
\* the writer, process_blocks and the transport, the failures of each of them and
\* the drain of finish: none is freed twice, and none is leaked but those that fell
\* out of the list in an append that process_blocks interrupted.  It holds with the
\* cooperative scheduler, and without it for a transport that does not finish
\* early: an early finish may free the header that process_blocks is queueing.
THEOREM BuffersSafe ==
    ASSUME Cooperative \/ ~EarlyFinish
    PROVE  Spec => []BuffersAccounted
<1>1. BufferInv => BuffersAccounted
      BY DEF BufferInv
<1>2. Spec => []BufferInv
      BY BufferInvHolds
<1> QED BY <1>1, <1>2, PTL

-----------------------------------------------------------------------------
(* Where the blocks of a session are *)

\* The conditions under which a session is orderly: with the cooperative scheduler,
\* or without it when the transport does not finish early and nothing fails.
Orderly == Cooperative \/ (~EarlyFinish /\ ~Failures)

\* process_blocks has a block in its hands.
Holding == wpc \in {"encrypt", "header", "detach", "submit"}

\* process_blocks has a block in its hands only while the pouch of the session can
\* still grow, and a session starts with nothing left of the one before.
QueueInv ==
    /\ Holding => tpc \in {"crypto", "kick", "open", "copy", "checkopen"}
    /\ tpc \in {"idle", "release", "reset"} => transQ = <<>>
    /\ tpc \in {"idle", "reset", "crypto", "kick"} => reader = <<>>
    /\ Cooperative /\ tpc \in {"crypto", "kick"} => transQ = <<>>
    /\ tpc \in {"crypto", "kick"} => wire = <<>>

\* process_blocks takes a block of an open pouch only.
LEMMA WorkerQueueInv ==
    ASSUME Orderly, DrainInv, SchedInv, ActiveInv, TypeOK, QueueInv, Worker
    PROVE  QueueInv'
<1> USE DEF QueueInv, Holding
<1>f. UNCHANGED <<tpc, reader, wire>>
      BY WorkerFrame DEF histVars
<1>c. Cooperative => tpc \in {"idle", "open", "done"}
  <2>1. WorkerMayRun
        BY DEF Worker, WorkerBegin, WorkerTake, WorkerEncrypt, WorkerHeader,
               WorkerDetach, WorkerSubmit, WorkerLeave, WorkerExit, WorkerClose
  <2> QED BY <2>1 DEF WorkerMayRun, TransportBusy
<1>1. CASE WorkerTake
  <2>1. /\ SESSION_ACTIVE \in flags /\ POUCH_CLOSED \notin flags /\ UNCHANGED transQ
        BY <1>1 DEF WorkerTake, LoopCondition, session_is_active, pouch_is_open
  <2>2. tpc \notin {"idle", "checkqueue", "end", "done"}
        BY <2>1 DEF DrainInv, ClosedIsFinal, ActiveInv
  <2>3. tpc \notin {"release", "reset"}
        BY <1>c, <2>1 DEF Orderly, SchedInv
  <2>4. tpc \in {"crypto", "kick", "open", "copy", "checkopen"}
        BY <2>2, <2>3 DEF TypeOK, TransportPCs
  <2> QED BY <1>f, <2>1, <2>4
<1>2. CASE WorkerHeader \/ WorkerSubmit
  <2>1. Holding
        BY <1>2 DEF WorkerHeader, WorkerSubmit
  <2> QED BY <1>f, <1>c, <2>1
<1>3. CASE ~WorkerTake /\ ~WorkerHeader /\ ~WorkerSubmit
  <2>1. UNCHANGED transQ /\ (Holding' => Holding)
        BY <1>3 DEF Worker, WorkerBegin, WorkerEncrypt, WorkerDetach, WorkerLeave,
                    WorkerExit, WorkerClose, uplinkVars
  <2> QED BY <1>f, <2>1
<1> QED BY <1>1, <1>2, <1>3

\* fill goes on past its first look, and finish starts, with process_blocks at rest.
LEMMA TransportQueueInv ==
    ASSUME Orderly, DrainInv, SchedInv, QueueInv, Transport
    PROVE  QueueInv'
<1> USE DEF QueueInv, Holding, uplinkVars, threadVars, histVars
<1>f. UNCHANGED wpc
      BY TransportFrame
<1>c. Cooperative => wpc = "idle"
  <2>1. TransportMayRun
        BY DEF Transport, TransportStart, TransportHeader, TransportStartFails,
               TransportKick, TransportFill, TransportNext, TransportCopy, TransportStop,
               TransportCheckOpen, TransportCheckQueue, TransportEnd, TransportFinish,
               TransportRelease, TransportReset
  <2> QED BY <2>1 DEF TransportMayRun, WorkerBusy
<1>1. CASE TransportStart
      BY <1>f, <1>1 DEF TransportStart
<1>2. CASE TransportHeader
      BY <1>f, <1>2 DEF TransportHeader
<1>3. CASE TransportStartFails
  <2>1. Cooperative
        BY <1>3 DEF TransportStartFails, Orderly
  <2> QED BY <1>f, <1>c, <1>3, <2>1 DEF TransportStartFails
<1>4. CASE TransportKick
      BY <1>f, <1>4 DEF TransportKick
<1>5. CASE TransportFill
      BY <1>f, <1>5 DEF TransportFill
<1>6. CASE TransportNext
      BY <1>f, <1>6 DEF TransportNext
<1>7. CASE TransportCopy
      BY <1>f, <1>7 DEF TransportCopy
<1>8. CASE TransportStop
      BY <1>f, <1>8 DEF TransportStop
<1>9. CASE TransportCheckOpen
      BY <1>f, <1>9 DEF TransportCheckOpen, pouch_is_open, DrainInv, ClosedIsFinal
<1>10. CASE TransportCheckQueue
      BY <1>f, <1>10 DEF TransportCheckQueue
<1>11. CASE TransportEnd
      BY <1>f, <1>11 DEF TransportEnd
<1>12. CASE TransportFinish
      BY <1>f, <1>c, <1>12 DEF TransportFinish, Orderly
<1>13. CASE TransportRelease
      BY <1>f, <1>13 DEF TransportRelease
<1>14. CASE TransportReset
      BY <1>f, <1>14 DEF TransportReset
<1> QED BY <1>1, <1>2, <1>3, <1>4, <1>5, <1>6, <1>7, <1>8, <1>9, <1>10, <1>11, <1>12,
           <1>13, <1>14 DEF Transport

\* QueueInv holds in every state of an orderly system.
LEMMA QueueInvHolds ==
    ASSUME Orderly
    PROVE  Spec => []QueueInv
<1>1. Init => QueueInv
      BY DEF Init, QueueInv, Holding
<1>2. /\ TypeOK /\ DrainInv /\ SchedInv /\ EventInv /\ QueueInv /\ [Next]_vars
      => QueueInv'
  <2> SUFFICES ASSUME TypeOK, DrainInv, SchedInv, EventInv, QueueInv, [Next]_vars
               PROVE  QueueInv'
      OBVIOUS
  <2>1. CASE Worker
    <3>1. ActiveInv
          BY DEF EventInv
    <3> QED BY <2>1, <3>1, WorkerQueueInv
  <2>2. CASE Transport
        BY <2>2, TransportQueueInv
  <2>3. CASE DispatchEvent \/ UNCHANGED vars
    <3>1. UNCHANGED <<tpc, wpc, transQ, reader, wire>>
          BY <2>3, DispatchFrame DEF uplinkVars, threadVars, histVars
    <3> QED BY <3>1 DEF QueueInv, Holding
  <2>4. CASE \E a \in Apps : App(a)
    <3>1. UNCHANGED <<tpc, wpc, transQ, reader, wire>>
          BY <2>4, AppFrame
    <3> QED BY <3>1 DEF QueueInv, Holding
  <2> QED BY <2>1, <2>2, <2>3, <2>4 DEF Next
<1> QED BY <1>1, <1>2, TypeCorrect, DrainInvHolds, SchedInvHolds, EventInvHolds, PTL
        DEF Spec

-----------------------------------------------------------------------------
(* The pouch grows at its end and is sent from its front *)

\* The parts of a pouch are sequences of buffers.
LEMMA PouchType ==
    ASSUME TypeOK
    PROVE  /\ wire \in Seq(Buffers) /\ reader \in Seq(Buffers) /\ transQ \in Seq(Buffers)
           /\ header \in Seq(Buffers) /\ wbuf \in Seq(Buffers)
           /\ wire \o reader \in Seq(Buffers) /\ PouchBuffers \in Seq(Buffers)
<1>1. /\ wire \in Seq(Buffers) /\ reader \in Seq(Buffers) /\ transQ \in Seq(Buffers)
      /\ header \in Seq(Buffers) /\ wbuf \in Seq(Buffers)
      BY DEF TypeOK
<1>2. wire \o reader \in Seq(Buffers)
      BY <1>1, ConcatProperties
<1>3. (wire \o reader) \o transQ \in Seq(Buffers)
      BY <1>1, <1>2, ConcatProperties
<1> QED BY <1>1, <1>2, <1>3 DEF PouchBuffers

\* A buffer added to the transport queue is added to the end of the pouch.
LEMMA PouchGrows ==
    ASSUME TypeOK, NEW b \in Seq(Buffers), transQ' = transQ \o b, UNCHANGED <<wire, reader>>
    PROVE  PouchBuffers' = PouchBuffers \o b
<1>1. /\ wire \o reader \in Seq(Buffers) /\ transQ \in Seq(Buffers)
      BY PouchType
<1>2. ((wire \o reader) \o transQ) \o b = (wire \o reader) \o (transQ \o b)
      BY <1>1, ConcatAssociative, SMTT(30)
<1> QED BY <1>2 DEF PouchBuffers

\* The transport's steps through the queue leave the pouch as it is.
LEMMA PouchMoves ==
    ASSUME TypeOK, TransportNext \/ TransportCopy
    PROVE  PouchBuffers' = PouchBuffers
<1>t. /\ wire \in Seq(Buffers) /\ reader \in Seq(Buffers) /\ transQ \in Seq(Buffers)
      /\ wire \o reader \in Seq(Buffers)
      BY PouchType
<1>1. CASE TransportNext
  <2>1. /\ reader = <<>> /\ transQ # <<>> /\ UNCHANGED wire
        /\ reader' = <<Head(transQ)>> /\ transQ' = Tail(transQ)
        BY <1>1 DEF TransportNext, histVars
  <2>2. <<Head(transQ)>> \in Seq(Buffers) /\ Tail(transQ) \in Seq(Buffers)
        BY <1>t, <2>1
  <2>3. <<Head(transQ)>> \o Tail(transQ) = transQ
        BY <1>t, <2>1
  <2>4. (wire \o <<Head(transQ)>>) \o Tail(transQ) = wire \o transQ
        BY <1>t, <2>2, <2>3, ConcatAssociative
  <2>5. wire \o reader = wire
        BY <1>t, <2>1, ConcatEmptySeq
  <2> QED BY <2>1, <2>4, <2>5 DEF PouchBuffers
<1>2. CASE TransportCopy
  <2>1. wire' = wire \o reader /\ reader' = <<>> /\ UNCHANGED transQ
        BY <1>2 DEF TransportCopy
  <2>2. (wire \o reader) \o <<>> = wire \o reader
        BY <1>t, ConcatEmptySeq
  <2> QED BY <2>1, <2>2 DEF PouchBuffers
<1> QED BY <1>1, <1>2

-----------------------------------------------------------------------------
(* Uplink implements Pouch *)

\* The value of the abstract pouch.
AbstractPouch == IF Finishing THEN wire ELSE PouchBuffers

\* A step that changes none of the three abstract variables.
LEMMA StutterStep ==
    ASSUME UNCHANGED <<Phase, AbstractPouch, wire>>
    PROVE  [P!Next]_(P!pouchVars)
BY DEF P!pouchVars, AbstractPouch

\* Steps outside of the transport thread show in the pouch and in its seal only.
LEMMA UnseenStep ==
    ASSUME UNCHANGED <<tpc, wire, reader, transQ>>,
           (POUCH_CLOSED \in flags') <=> (POUCH_CLOSED \in flags)
    PROVE  [P!Next]_(P!pouchVars)
<1>1. UNCHANGED <<Phase, AbstractPouch, wire>>
      BY DEF Phase, AbstractPouch, Finishing, PouchBuffers, pouch_is_open
<1> QED BY <1>1, StutterStep

\* A buffer that process_blocks appends is a Commit.
LEMMA CommitStep ==
    ASSUME TypeOK, NEW b \in Seq(Buffers), Len(b) = 1,
           transQ' = transQ \o b, UNCHANGED <<wire, reader, tpc, flags>>,
           tpc \in {"crypto", "kick", "open", "copy", "checkopen"},
           POUCH_CLOSED \notin flags
    PROVE  P!Commit
<1>1. PouchBuffers' = PouchBuffers \o b
      BY PouchGrows
<1>2. PouchBuffers \in Seq(Buffers)
      BY PouchType
<1>3. /\ PouchBuffers \o b \in Seq(Buffers)
      /\ Len(PouchBuffers \o b) = Len(PouchBuffers) + 1
      /\ SubSeq(PouchBuffers \o b, 1, Len(PouchBuffers)) = PouchBuffers
  <2> DEFINE s == PouchBuffers
  <2>1. s \in Seq(Buffers)
        BY <1>2
  <2> HIDE DEF s
  <2>2. s \o b \in Seq(Buffers) /\ Len(s \o b) = Len(s) + 1
        BY <2>1, ConcatProperties, ZenonT(30)
  <2>3. SubSeq(s \o b, 1, Len(s)) = s
        BY <2>1
  <2> QED BY <2>2, <2>3 DEF s
<1>4. Phase = "open" /\ Phase' = "open" /\ ~Finishing /\ ~Finishing'
      BY DEF Phase, Finishing, pouch_is_open
<1> QED BY <1>1, <1>3, <1>4 DEF P!Commit

\* Every step of process_blocks is a Commit, a Seal or a stuttering step.
LEMMA WorkerRefines ==
    ASSUME TypeOK, DrainInv, QueueInv, Worker
    PROVE  [P!Next]_(P!pouchVars)
<1>f. UNCHANGED <<tpc, wire, reader>>
      BY WorkerFrame DEF histVars
<1>t. /\ header \in Seq(Buffers) /\ transQ \in Seq(Buffers) /\ wbuf \in Seq(Buffers)
      BY PouchType
<1>1. CASE WorkerHeader
  <2>1. /\ Holding /\ transQ' = transQ \o header /\ UNCHANGED flags
        BY <1>1 DEF WorkerHeader, Holding
  <2>2. CASE header = <<>>
    <3>1. transQ' = transQ
          BY <1>t, <2>1, <2>2, ConcatEmptySeq
    <3> QED BY <1>f, <2>1, <3>1, UnseenStep
  <2>3. CASE header # <<>>
    <3>1. Len(header) = 1
          BY <2>3, LengthTypes
    <3>2. /\ POUCH_CLOSED \notin flags
          /\ tpc \in {"crypto", "kick", "open", "copy", "checkopen"}
          BY <2>1 DEF QueueInv, DrainInv, ClosedIsFinal, Holding
    <3>3. P!Commit
          BY <1>f, <1>t, <2>1, <3>1, <3>2, CommitStep
    <3> QED BY <3>3 DEF P!Next
  <2> QED BY <2>2, <2>3
<1>2. CASE WorkerSubmit
  <2>1. /\ Holding /\ transQ' = transQ \o wbuf /\ UNCHANGED flags /\ wpc = "submit"
        BY <1>2 DEF WorkerSubmit, Holding
  <2>2. Len(wbuf) = 1
        BY <2>1 DEF TypeOK
  <2>3. /\ POUCH_CLOSED \notin flags
        /\ tpc \in {"crypto", "kick", "open", "copy", "checkopen"}
        BY <2>1 DEF QueueInv, DrainInv, ClosedIsFinal, Holding
  <2>4. P!Commit
        BY <1>f, <1>t, <2>1, <2>2, <2>3, CommitStep
  <2> QED BY <2>4 DEF P!Next
<1>3. CASE WorkerClose
  <2>1. flags' = flags \cup {POUCH_CLOSED} /\ UNCHANGED transQ
        BY <1>3 DEF WorkerClose
  <2>2. CASE Phase = "open"
    <3>1. ~Finishing /\ tpc # "done"
          BY <2>2 DEF Phase, Finishing
    <3>2. Phase' = "sealed" /\ ~Finishing'
          BY <1>f, <2>1, <3>1 DEF Phase, Finishing, pouch_is_open
    <3>3. PouchBuffers' = PouchBuffers
          BY <1>f, <2>1 DEF PouchBuffers
    <3>4. P!Seal
          BY <1>f, <2>2, <3>1, <3>2, <3>3 DEF P!Seal
    <3> QED BY <3>4 DEF P!Next
  <2>3. CASE Phase # "open"
    <3>1. Phase' = Phase
          BY <1>f, <2>1, <2>3 DEF Phase, Finishing, pouch_is_open
    <3>2. AbstractPouch' = AbstractPouch
          BY <1>f, <2>1 DEF AbstractPouch, Finishing, PouchBuffers
    <3> QED BY <1>f, <3>1, <3>2, StutterStep
  <2> QED BY <2>2, <2>3
<1>4. CASE ~WorkerHeader /\ ~WorkerSubmit /\ ~WorkerClose
  <2>1. UNCHANGED <<transQ, flags>>
        BY <1>4 DEF Worker, WorkerBegin, WorkerTake, WorkerEncrypt, WorkerDetach,
                    WorkerLeave, WorkerExit, uplinkVars
  <2> QED BY <1>f, <2>1, UnseenStep
<1> QED BY <1>1, <1>2, <1>3, <1>4

\* The buffer in the transport's hands is the next one of the pouch.
LEMMA NextIsSent ==
    ASSUME NEW S, NEW w \in Seq(S), NEW r \in Seq(S), NEW q \in Seq(S), Len(r) = 1
    PROVE  /\ Len(w) < Len((w \o r) \o q)
           /\ w \o r = Append(w, ((w \o r) \o q)[Len(w) + 1])
<1>1. w \o r \in Seq(S) /\ Len(w \o r) = Len(w) + 1
  <2>1. w \o r \in Seq(S)
        OBVIOUS
  <2>2. Len(w \o r) = Len(w) + Len(r)
        BY ConcatProperties, Zenon
  <2> QED BY <2>1, <2>2
<1>2. (w \o r)[Len(w) + 1] = r[1]
      OBVIOUS
<1>3. w \o r = Append(w, r[1])
      BY SMTT(30)
<1> DEFINE s == w \o r
<1>4. s \in Seq(S) /\ Len(s) = Len(w) + 1
      BY <1>1
<1> HIDE DEF s
<1>5. Len(s \o q) = Len(s) + Len(q) /\ Len(q) \in Nat /\ Len(w) \in Nat
      BY <1>4, SMTT(30)
<1>6. (s \o q)[Len(w) + 1] = s[Len(w) + 1]
      BY <1>4
<1>7. Len(w) < Len(s \o q)
      BY <1>4, <1>5
<1> QED BY <1>2, <1>3, <1>6, <1>7 DEF s

\* Every step of the transport thread is a Begin, a Send, an End, a Finish or a
\* stuttering step.
LEMMA TransportRefines ==
    ASSUME TypeOK, DrainInv, ActiveInv, QueueInv, Transport
    PROVE  [P!Next]_(P!pouchVars)
<1> USE DEF uplinkVars, threadVars, histVars
<1>t. /\ wire \in Seq(Buffers) /\ reader \in Seq(Buffers) /\ transQ \in Seq(Buffers)
      BY PouchType
<1>1. CASE TransportStart
  <2>1. /\ tpc = "idle" /\ tpc' = "crypto" /\ wire' = <<>> /\ reader' = <<>>
        /\ transQ' = <<>>
        BY <1>1 DEF TransportStart, QueueInv
  <2>2. PouchBuffers' = <<>>
        BY <2>1, EmptySeq, ConcatEmptySeq DEF PouchBuffers
  <2>3. Phase = "none" /\ Phase' \in {"open", "sealed"} /\ ~Finishing'
        BY <2>1 DEF Phase, Finishing, pouch_is_open
  <2>4. P!Begin
        BY <2>1, <2>2, <2>3 DEF P!Begin
  <2> QED BY <2>4 DEF P!Next
<1>2. CASE TransportStartFails
  <2>1. /\ tpc = "crypto" /\ tpc' = "idle" /\ Failures /\ UNCHANGED wire
        BY <1>2 DEF TransportStartFails
  <2>2. Phase \in {"open", "sealed"} /\ Phase' = "none" /\ Finishing'
        BY <2>1 DEF Phase, Finishing
  <2>3. P!Finish
        BY <2>1, <2>2 DEF P!Finish
  <2> QED BY <2>3 DEF P!Next
<1>3. CASE TransportNext
  <2>1. /\ tpc = "copy" /\ UNCHANGED <<tpc, flags, wire>>
        BY <1>3 DEF TransportNext
  <2>2. PouchBuffers' = PouchBuffers
        BY <1>3, PouchMoves
  <2>3. UNCHANGED <<Phase, AbstractPouch, wire>>
        BY <2>1, <2>2 DEF Phase, AbstractPouch, Finishing, pouch_is_open
  <2> QED BY <2>3, StutterStep
<1>4. CASE TransportCopy
  <2>1. /\ tpc = "copy" /\ UNCHANGED <<tpc, flags>> /\ wire' = wire \o reader
        /\ reader # <<>>
        BY <1>4 DEF TransportCopy
  <2>2. PouchBuffers' = PouchBuffers
        BY <1>4, PouchMoves
  <2>3. /\ Phase \in {"open", "sealed"} /\ Phase' = Phase /\ ~Finishing /\ ~Finishing'
        BY <2>1 DEF Phase, Finishing, pouch_is_open
  <2>4. Len(reader) = 1
        BY <2>1, LengthTypes
  <2>5. /\ Len(wire) < Len(PouchBuffers)
        /\ wire \o reader = Append(wire, PouchBuffers[Len(wire) + 1])
        BY <1>t, <2>4, NextIsSent DEF PouchBuffers
  <2>6. P!Send
        BY <2>1, <2>2, <2>3, <2>5 DEF P!Send
  <2> QED BY <2>6 DEF P!Next
<1>5. CASE TransportEnd
  <2>1. /\ tpc = "end" /\ tpc' = "done" /\ UNCHANGED <<wire, reader, transQ>>
        BY <1>5 DEF TransportEnd
  <2>2. /\ POUCH_CLOSED \in flags /\ reader = <<>> /\ transQ = <<>>
        BY <2>1 DEF DrainInv, ClosedIsFinal, EndedIsDrained
  <2>3. PouchBuffers = wire /\ PouchBuffers' = PouchBuffers
        BY <1>t, <2>1, <2>2, ConcatEmptySeq DEF PouchBuffers
  <2>4. Phase = "sealed" /\ Phase' = "ended" /\ ~Finishing /\ ~Finishing'
        BY <2>1, <2>2 DEF Phase, Finishing, pouch_is_open
  <2>5. P!End
        BY <2>1, <2>3, <2>4 DEF P!End
  <2> QED BY <2>5 DEF P!Next
<1>6. CASE TransportFinish
  <2>1. /\ tpc = "done" \/ (EarlyFinish /\ tpc = "open")
        /\ tpc' = "release" /\ UNCHANGED wire
        BY <1>6 DEF TransportFinish
  <2>2. Phase \in {"open", "sealed", "ended"} /\ (Phase # "ended" => EarlyFinish)
        BY <2>1 DEF Phase, Finishing
  <2>3. Phase' = "none" /\ Finishing'
        BY <2>1 DEF Phase, Finishing
  <2>4. P!Finish
        BY <2>1, <2>2, <2>3 DEF P!Finish
  <2> QED BY <2>4 DEF P!Next
<1>7. CASE TransportRelease \/ TransportReset
  <2>1. tpc \in {"release", "reset"} /\ tpc' \in {"reset", "idle"} /\ UNCHANGED wire
        BY <1>7 DEF TransportRelease, TransportReset
  <2>2. UNCHANGED <<Phase, AbstractPouch, wire>>
        BY <2>1 DEF Phase, AbstractPouch, Finishing
  <2> QED BY <2>2, StutterStep
<1>8. CASE TransportHeader \/ TransportKick \/ TransportFill \/ TransportStop
           \/ TransportCheckOpen \/ TransportCheckQueue
  <2>1. /\ tpc \notin {"idle", "release", "reset", "done"}
        /\ tpc' \notin {"idle", "release", "reset", "done"}
        /\ UNCHANGED <<flags, wire, reader, transQ>>
        BY <1>8 DEF TransportHeader, TransportKick, TransportFill, TransportStop,
                    TransportCheckOpen, TransportCheckQueue
  <2>2. UNCHANGED <<Phase, AbstractPouch, wire>>
        BY <2>1 DEF Phase, AbstractPouch, Finishing, PouchBuffers, pouch_is_open
  <2> QED BY <2>2, StutterStep
<1> QED BY <1>1, <1>2, <1>3, <1>4, <1>5, <1>6, <1>7, <1>8 DEF Transport

\* An orderly uplink implements Pouch: each session carries one pouch that only
\* grows, and only until it is closed; the transport gets its buffers in order; and
\* a session that ends by itself has sent all of a closed pouch, whatever
\* process_blocks and the application do while fill looks at the queue.
THEOREM Refinement ==
    ASSUME Orderly
    PROVE  Spec => ImplementsPouch
<1>1. Init => P!Init
  <2> SUFFICES ASSUME Init PROVE P!Init
      OBVIOUS
  <2>1. tpc = "idle" /\ wire = <<>>
        BY DEF Init
  <2> QED BY <2>1 DEF P!Init, Phase, Finishing
<1>2. TypeOK /\ DrainInv /\ EventInv /\ QueueInv /\ [Next]_vars
      => [P!Next]_(P!pouchVars)
  <2> SUFFICES ASSUME TypeOK, DrainInv, EventInv, QueueInv, [Next]_vars
               PROVE  [P!Next]_(P!pouchVars)
      OBVIOUS
  <2>1. CASE Worker
        BY <2>1, WorkerRefines
  <2>2. CASE Transport
    <3>1. ActiveInv
          BY DEF EventInv
    <3> QED BY <2>2, <3>1, TransportRefines
  <2>3. CASE DispatchEvent \/ UNCHANGED vars
    <3>1. UNCHANGED <<tpc, wire, reader, transQ, flags>>
          BY <2>3, DispatchFrame DEF uplinkVars, threadVars, histVars
    <3> QED BY <3>1, UnseenStep
  <2>4. CASE \E a \in Apps : App(a)
    <3>1. /\ UNCHANGED <<tpc, wire, reader, transQ>>
          /\ flags' = flags \/ flags' = flags \cup {POUCH_CLOSING}
          BY <2>4, AppFrame
    <3>2. (POUCH_CLOSED \in flags') <=> (POUCH_CLOSED \in flags)
          BY <3>1 DEF POUCH_CLOSED, POUCH_CLOSING
    <3> QED BY <3>1, <3>2, UnseenStep
  <2> QED BY <2>1, <2>2, <2>3, <2>4 DEF Next
<1>3. Spec => []QueueInv
      BY QueueInvHolds
<1> QED BY <1>1, <1>2, <1>3, TypeCorrect, DrainInvHolds, EventInvHolds, PTL
        DEF Spec, ImplementsPouch, P!Spec

-----------------------------------------------------------------------------
(* What is on the wire is one pouch *)

Blocks(s)    == \A i \in DOMAIN s : s[i].kind = "block"
Formed(s)    == \A i \in DOMAIN s : (s[i].kind = "header") <=> (i = 1)
AllFor(s, n) == \A i \in DOMAIN s : s[i].pouch = n

\* What is true of a pouch is true of a part of it that was sent.
LEMMA PrefixFormed ==
    ASSUME NEW s \in Seq(Buffers), NEW t \in Seq(Buffers), NEW n
    PROVE  /\ Formed(s \o t) => Formed(s)
           /\ AllFor(s \o t, n) => AllFor(s, n)
<1>1. \A i \in DOMAIN s : i \in DOMAIN (s \o t) /\ (s \o t)[i] = s[i]
      OBVIOUS
<1> QED BY <1>1 DEF Formed, AllFor

\* A pouch that has its header remains one when blocks are added.
LEMMA GrownFormed ==
    ASSUME NEW s \in Seq(Buffers), NEW t \in Seq(Buffers), NEW n
    PROVE  /\ Formed(s) /\ s # <<>> /\ Blocks(t) => Formed(s \o t)
           /\ AllFor(s, n) /\ AllFor(t, n) => AllFor(s \o t, n)
<1>1. \A i \in DOMAIN (s \o t) :
          \/ i \in DOMAIN s /\ (s \o t)[i] = s[i]
          \/ \E j \in DOMAIN t : (s \o t)[i] = t[j] /\ i = Len(s) + j /\ j \in Nat \ {0}
  <2>1. /\ Len(s) \in Nat /\ Len(t) \in Nat
        /\ DOMAIN (s \o t) = 1 .. Len(s) + Len(t)
        /\ DOMAIN s = 1 .. Len(s) /\ DOMAIN t = 1 .. Len(t)
        OBVIOUS
  <2>2. SUFFICES ASSUME NEW i \in 1 .. Len(s) + Len(t), ~(i \in 1 .. Len(s))
                 PROVE  \E j \in DOMAIN t : (s \o t)[i] = t[j] /\ i = Len(s) + j
                                            /\ j \in Nat \ {0}
        BY <2>1
  <2>3. i - Len(s) \in 1 .. Len(t) /\ (s \o t)[i] = t[i - Len(s)]
        BY <2>1, <2>2
  <2> QED BY <2>1, <2>3
<1>2. s # <<>> => Len(s) \in Nat \ {0}
      BY EmptySeq
<1>3. ASSUME Formed(s), s # <<>>, Blocks(t)
      PROVE  Formed(s \o t)
  <2> SUFFICES ASSUME NEW i \in DOMAIN (s \o t)
               PROVE  ((s \o t)[i].kind = "header") <=> (i = 1)
      BY DEF Formed
  <2>1. CASE i \in DOMAIN s /\ (s \o t)[i] = s[i]
        BY <1>3, <2>1 DEF Formed
  <2>2. CASE \E j \in DOMAIN t : (s \o t)[i] = t[j] /\ i = Len(s) + j /\ j \in Nat \ {0}
    <3>1. PICK j \in DOMAIN t : (s \o t)[i] = t[j] /\ i = Len(s) + j /\ j \in Nat \ {0}
          BY <2>2
    <3>2. t[j].kind = "block" /\ i # 1
          BY <1>2, <1>3, <3>1 DEF Blocks
    <3> QED BY <3>1, <3>2
  <2> QED BY <1>1, <2>1, <2>2
<1>4. AllFor(s, n) /\ AllFor(t, n) => AllFor(s \o t, n)
      BY <1>1 DEF AllFor
<1> QED BY <1>3, <1>4

\* Sequences of blocks are made of sequences of blocks.
LEMMA BlocksFacts ==
    /\ Blocks(<<>>)
    /\ \A s, u \in Seq(Buffers) : Blocks(s) /\ Blocks(u) => Blocks(s \o u)
    /\ \A s \in Seq(Buffers) :
           s # <<>> /\ Blocks(s) =>
               /\ Head(s).kind = "block" /\ s[1].kind = "block"
               /\ Blocks(<<Head(s)>>) /\ Blocks(Tail(s))
<1>1. Blocks(<<>>)
      BY DEF Blocks
<1>2. ASSUME NEW s \in Seq(Buffers), NEW u \in Seq(Buffers), Blocks(s), Blocks(u)
      PROVE  Blocks(s \o u)
  <2>1. /\ Len(s) \in Nat /\ Len(u) \in Nat /\ DOMAIN (s \o u) = 1 .. Len(s) + Len(u)
        /\ DOMAIN s = 1 .. Len(s) /\ DOMAIN u = 1 .. Len(u)
        OBVIOUS
  <2>2. SUFFICES ASSUME NEW i \in 1 .. Len(s) + Len(u)
                 PROVE  (s \o u)[i].kind = "block"
        BY <2>1 DEF Blocks
  <2>3. CASE i \in 1 .. Len(s)
    <3>1. (s \o u)[i] = s[i]
          BY <2>3
    <3> QED BY <1>2, <2>1, <2>3, <3>1 DEF Blocks
  <2>4. CASE i \notin 1 .. Len(s)
    <3>1. i - Len(s) \in 1 .. Len(u)
          BY <2>1, <2>4
    <3>2. (s \o u)[i] = u[i - Len(s)]
          BY <2>1, <2>4
    <3> QED BY <1>2, <2>1, <3>1, <3>2 DEF Blocks
  <2> QED BY <2>3, <2>4
<1>3. ASSUME NEW s \in Seq(Buffers), s # <<>>, Blocks(s)
      PROVE  /\ Head(s).kind = "block" /\ s[1].kind = "block"
             /\ Blocks(<<Head(s)>>) /\ Blocks(Tail(s))
  <2>1. Head(s) = s[1] /\ 1 \in DOMAIN s
        BY <1>3
  <2>2. s[1].kind = "block"
        BY <1>3, <2>1 DEF Blocks
  <2>3. \A i \in DOMAIN Tail(s) : i + 1 \in DOMAIN s /\ Tail(s)[i] = s[i + 1]
        BY <1>3
  <2>4. Blocks(Tail(s))
        BY <1>3, <2>3 DEF Blocks
  <2>5. \A i \in DOMAIN <<Head(s)>> : <<Head(s)>>[i] = Head(s)
        OBVIOUS
  <2> QED BY <2>1, <2>2, <2>4, <2>5 DEF Blocks
<1> QED BY <1>1, <1>2, <1>3

\* What waits for process_blocks, or is in its hands, is blocks.
KindInv == Blocks(procQ) /\ Blocks(block) /\ Blocks(wbuf)

\* Writing an entry leaves a block a block.
LEMMA WriteIntoBlocks ==
    ASSUME NEW b \in Buffers, b.kind = "block", NEW len, NEW e, WriteInto(b, len, e)
    PROVE  Blocks(block')
<1>1. write_entry(b, e, len).kind = "block"
      BY DEF write_entry, Buffers
<1> DEFINE c == IF Fits(b, len) THEN write_entry(b, e, len) ELSE b
<1>2. c.kind = "block"
      BY <1>1
<1>3. block' = <<c>>
      BY DEF WriteInto
<1> HIDE DEF c
<1> QED BY <1>2, <1>3 DEF Blocks

\* The steps of an application thread keep KindInv.
LEMMA AppKindInv ==
    ASSUME TypeOK, KindInv, NEW a \in Apps, App(a)
    PROVE  KindInv'
<1> USE DEF KindInv
<1>f. UNCHANGED wbuf
      BY AppFrame
<1>t. procQ \in Seq(Buffers) /\ block \in Seq(Buffers)
      BY DEF TypeOK
<1>a. block_alloc \in Buffers /\ block_alloc.kind = "block"
      BY BlockAllocType DEF block_alloc
<1>b. block # <<>> => block[1] \in Buffers /\ block[1].kind = "block"
  <2>1. block # <<>> => block[1] \in Buffers
        BY <1>t
  <2>2. block # <<>> => block[1].kind = "block"
        BY <1>t, BlocksFacts
  <2> QED BY <2>1, <2>2
<1>1. ASSUME NEW len \in EntryLens, EntryWriteNew(a, len)
      PROVE  KindInv'
      BY <1>f, <1>a, <1>1, WriteIntoBlocks DEF EntryWriteNew, uplinkVars
<1>2. ASSUME NEW len \in EntryLens, EntryWriteFits(a, len)
      PROVE  KindInv'
  <2>1. block # <<>> /\ WriteInto(block[1], len, writes + 1) /\ UNCHANGED procQ
        BY <1>2 DEF EntryWriteFits, uplinkVars
  <2>2. Blocks(block')
        BY <1>b, <2>1, WriteIntoBlocks
  <2> QED BY <1>f, <2>1, <2>2
<1>3. CASE HandOver
      BY <1>f, <1>t, <1>3, BlocksFacts DEF HandOver
<1>5. CASE EntryWriteRetry(a)
  <2>1. UNCHANGED procQ /\ (UNCHANGED block \/ WriteInto(block_alloc, alen[a], writes))
        BY <1>5 DEF EntryWriteRetry
  <2> QED BY <1>f, <1>a, <2>1, WriteIntoBlocks
<1> QED BY <1>1, <1>2, <1>3, <1>5, AppHandsOver DEF App

\* The steps of process_blocks keep KindInv.
LEMMA WorkerKindInv ==
    ASSUME TypeOK, KindInv, Worker
    PROVE  KindInv'
<1> USE DEF KindInv
<1>f. UNCHANGED block
      BY WorkerFrame
<1>t. /\ procQ \in Seq(Buffers) /\ wbuf \in Seq(Buffers)
      /\ Len(wbuf) = (IF wpc \in {"encrypt", "header", "detach", "submit"} THEN 1 ELSE 0)
      BY DEF TypeOK
<1>1. CASE WorkerTake
      BY <1>f, <1>t, <1>1, BlocksFacts DEF WorkerTake, LoopCondition
<1>2. CASE WorkerEncrypt
  <2>1. UNCHANGED procQ
        BY <1>2 DEF WorkerEncrypt, uplinkVars
  <2>2. CASE wbuf' = <<>>
        BY <1>f, <2>1, <2>2, BlocksFacts
  <2>3. CASE wbuf' = <<[wbuf[1] EXCEPT !.pouch = id]>>
    <3>1. Len(wbuf) = 1
          BY <1>2, <1>t DEF WorkerEncrypt
    <3>2. wbuf[1] \in Buffers
          BY <1>t, <3>1, PointeeType
    <3>3. 1 \in DOMAIN wbuf
          BY <1>t, <3>1
    <3>4. wbuf[1].kind = "block"
          BY <3>3 DEF Blocks
    <3> DEFINE c == [wbuf[1] EXCEPT !.pouch = id]
    <3>5. c.kind = "block"
          BY <3>2, <3>4 DEF Buffers
    <3>6. wbuf' = <<c>>
          BY <2>3
    <3> HIDE DEF c
    <3>7. Blocks(<<c>>)
          BY <3>5 DEF Blocks
    <3> QED BY <1>f, <2>1, <3>6, <3>7
  <2> QED BY <1>2, <2>2, <2>3 DEF WorkerEncrypt
<1>3. CASE WorkerSubmit
      BY <1>f, <1>3, BlocksFacts DEF WorkerSubmit
<1>4. CASE ~WorkerTake /\ ~WorkerEncrypt /\ ~WorkerSubmit
  <2>1. UNCHANGED <<procQ, wbuf>>
        BY <1>4 DEF Worker, WorkerBegin, WorkerHeader, WorkerDetach, WorkerLeave,
                    WorkerExit, WorkerClose, uplinkVars
  <2> QED BY <1>f, <2>1
<1> QED BY <1>1, <1>2, <1>3, <1>4

\* KindInv holds in every state.
LEMMA KindInvHolds == Spec => []KindInv
<1>1. Init => KindInv
      BY BlocksFacts DEF Init, KindInv
<1>2. TypeOK /\ KindInv /\ [Next]_vars => KindInv'
  <2> SUFFICES ASSUME TypeOK, KindInv, [Next]_vars
               PROVE  KindInv'
      OBVIOUS
  <2>1. CASE Worker
        BY <2>1, WorkerKindInv
  <2>2. CASE Transport
    <3>1. UNCHANGED <<procQ, block, wbuf>>
          BY <2>2, TransportFrame
    <3> QED BY <3>1 DEF KindInv
  <2>3. CASE DispatchEvent \/ UNCHANGED vars
    <3>1. UNCHANGED <<procQ, block, wbuf>>
          BY <2>3, DispatchFrame DEF uplinkVars, entryVars, threadVars
    <3> QED BY <3>1 DEF KindInv
  <2>4. CASE \E a \in Apps : App(a)
        BY <2>4, AppKindInv
  <2> QED BY <2>1, <2>2, <2>3, <2>4 DEF Next
<1> QED BY <1>1, <1>2, TypeCorrect, PTL DEF Spec

\* process_blocks and uplink.header: the header belongs to the pouch of this
\* session and stays in uplink.header as long as the pouch is empty; the pouch is
\* its header and blocks of this session.
FormInv ==
    /\ \A i \in DOMAIN header : header[i].kind = "header" /\ header[i].pouch = id
    /\ wpc \in {"header", "detach", "submit"} => AllFor(wbuf, id)
    /\ wpc = "submit" => header = <<>>
    /\ header # <<>> /\ wpc # "detach" => PouchBuffers = <<>>
    /\ /\ tpc \in {"kick", "open", "copy", "checkopen", "checkqueue"}
       /\ header = <<>> \/ wpc = "detach"
       => PouchBuffers # <<>>
    /\ Formed(PouchBuffers)
    /\ tpc \notin {"idle", "crypto"} => AllFor(PouchBuffers, id)

\* Steps that touch none of what FormInv is about.
LEMMA FormFrame ==
    ASSUME FormInv, UNCHANGED <<header, id, wpc, wbuf, tpc, wire, reader, transQ>>
    PROVE  FormInv'
BY DEF FormInv, PouchBuffers, AllFor, Formed

\* process_blocks sends the header first, and then blocks of this session.
LEMMA WorkerFormInv ==
    ASSUME Cooperative, TypeOK, KindInv, QueueInv, FormInv, Worker
    PROVE  FormInv'
<1>f. UNCHANGED <<id, tpc, wire, reader>>
      BY WorkerFrame DEF histVars
<1>t. /\ header \in Seq(Buffers) /\ wbuf \in Seq(Buffers) /\ PouchBuffers \in Seq(Buffers)
      /\ transQ \in Seq(Buffers)
      BY PouchType
<1>c. Holding => tpc = "open"
  <2>1. WorkerMayRun
        BY DEF Worker, WorkerBegin, WorkerTake, WorkerEncrypt, WorkerHeader,
               WorkerDetach, WorkerSubmit, WorkerLeave, WorkerExit, WorkerClose
  <2> QED BY <2>1 DEF WorkerMayRun, TransportBusy, QueueInv
<1>p. transQ' = transQ => PouchBuffers' = PouchBuffers
      BY <1>f DEF PouchBuffers
<1>1. CASE WorkerTake
  <2>1. wpc = "loop" /\ wpc' = "encrypt" /\ UNCHANGED <<header, transQ>>
        BY <1>1 DEF WorkerTake
  <2> QED BY <1>f, <1>p, <2>1 DEF FormInv
<1>2. CASE WorkerEncrypt
  <2>1. wpc = "encrypt" /\ UNCHANGED <<header, transQ>>
        BY <1>2 DEF WorkerEncrypt, uplinkVars
  <2>2. CASE wpc' = "loop"
        BY <1>f, <1>p, <2>1, <2>2 DEF FormInv
  <2>3. CASE wpc' = "header" /\ wbuf' = <<[wbuf[1] EXCEPT !.pouch = id]>>
    <3>1. Len(wbuf) = 1
          BY <2>1 DEF TypeOK
    <3>2. wbuf[1] \in Buffers
          BY <1>t, <3>1, PointeeType
    <3> DEFINE c == [wbuf[1] EXCEPT !.pouch = id]
    <3>3. c.pouch = id
          BY <3>2 DEF Buffers
    <3>4. wbuf' = <<c>>
          BY <2>3
    <3> HIDE DEF c
    <3>5. AllFor(wbuf', id)
          BY <3>3, <3>4 DEF AllFor
    <3> QED BY <1>f, <1>p, <2>1, <2>3, <3>5 DEF FormInv
  <2> QED BY <1>2, <2>2, <2>3 DEF WorkerEncrypt
<1>3. CASE WorkerHeader
  <2>1. /\ wpc = "header" /\ transQ' = transQ \o header /\ UNCHANGED <<header, wbuf>>
        /\ wpc' = (IF header # <<>> THEN "detach" ELSE "submit")
        BY <1>3 DEF WorkerHeader
  <2>2. tpc = "open"
        BY <1>c, <2>1 DEF Holding
  <2>3. PouchBuffers' = PouchBuffers \o header
        BY <1>f, <1>t, <2>1, PouchGrows
  <2>4. CASE header = <<>>
    <3>1. PouchBuffers' = PouchBuffers
          BY <1>t, <2>3, <2>4, ConcatEmptySeq
    <3> QED BY <1>f, <2>1, <2>4, <3>1 DEF FormInv
  <2>5. CASE header # <<>>
    <3>1. PouchBuffers = <<>>
          BY <2>1, <2>5 DEF FormInv
    <3>2. PouchBuffers' = header
          BY <1>t, <2>3, <3>1, ConcatEmptySeq
    <3>3. Len(header) = 1 /\ DOMAIN header = {1}
      <4>1. Len(header) = 1
            BY <2>5, LengthTypes
      <4> QED BY <1>t, <4>1
    <3>4. Formed(header) /\ AllFor(header, id)
          BY <3>3 DEF Formed, AllFor, FormInv
    <3> QED BY <1>f, <2>1, <2>2, <2>5, <3>2, <3>4 DEF FormInv
  <2> QED BY <2>4, <2>5
<1>4. CASE WorkerDetach
  <2>1. wpc = "detach" /\ wpc' = "submit" /\ header' = <<>> /\ UNCHANGED <<transQ, wbuf>>
        BY <1>4 DEF WorkerDetach
  <2>2. DOMAIN header' = {}
        BY <2>1
  <2> QED BY <1>f, <1>p, <2>1, <2>2 DEF FormInv
<1>5. CASE WorkerSubmit
  <2>1. /\ wpc = "submit" /\ transQ' = transQ \o wbuf /\ wpc' = "loop" /\ UNCHANGED header
        BY <1>5 DEF WorkerSubmit
  <2>2. tpc = "open"
        BY <1>c, <2>1 DEF Holding
  <2>3. PouchBuffers' = PouchBuffers \o wbuf
        BY <1>f, <1>t, <2>1, PouchGrows
  <2>4. header = <<>> /\ PouchBuffers # <<>> /\ Formed(PouchBuffers)
        /\ AllFor(PouchBuffers, id) /\ AllFor(wbuf, id) /\ Blocks(wbuf)
        BY <2>1, <2>2 DEF FormInv, KindInv
  <2>5. Formed(PouchBuffers') /\ AllFor(PouchBuffers', id)
        BY <1>t, <2>3, <2>4, GrownFormed
  <2>6. PouchBuffers' # <<>>
        BY <1>t, <2>3, <2>4, ConcatEqualIffEmpty
  <2> QED BY <1>f, <2>1, <2>2, <2>4, <2>5, <2>6 DEF FormInv
<1>6. CASE WorkerBegin \/ WorkerLeave \/ WorkerExit \/ WorkerClose
  <2>1. /\ wpc \notin {"header", "detach", "submit"}
        /\ wpc' \notin {"header", "detach", "submit"}
        /\ UNCHANGED <<header, transQ>>
        BY <1>6 DEF WorkerBegin, WorkerLeave, WorkerExit, WorkerClose, uplinkVars
  <2> QED BY <1>f, <1>p, <2>1 DEF FormInv
<1> QED BY <1>1, <1>2, <1>3, <1>4, <1>5, <1>6 DEF Worker

\* The transport starts a pouch with a new header, and drops its end only.
LEMMA TransportFormInv ==
    ASSUME Cooperative, TypeOK, HeaderInv, QueueInv, FormInv, Transport
    PROVE  FormInv'
<1> USE DEF uplinkVars, threadVars, histVars
<1>f. UNCHANGED <<wpc, wbuf>>
      BY TransportFrame
<1>t. /\ wire \in Seq(Buffers) /\ reader \in Seq(Buffers) /\ transQ \in Seq(Buffers)
      /\ wire \o reader \in Seq(Buffers) /\ PouchBuffers \in Seq(Buffers)
      BY PouchType
<1>c. wpc = "idle"
  <2>1. TransportMayRun
        BY DEF Transport, TransportStart, TransportHeader, TransportStartFails,
               TransportKick, TransportFill, TransportNext, TransportCopy, TransportStop,
               TransportCheckOpen, TransportCheckQueue, TransportEnd, TransportFinish,
               TransportRelease, TransportReset
  <2> QED BY <2>1 DEF TransportMayRun, WorkerBusy
<1>e. Formed(<<>>) /\ AllFor(<<>>, id) /\ AllFor(<<>>, id')
      BY DEF Formed, AllFor
<1>0. wire = <<>> /\ reader = <<>> /\ transQ = <<>> => PouchBuffers = <<>>
      BY <1>t, ConcatEmptySeq DEF PouchBuffers
<1>p. UNCHANGED <<wire, reader, transQ>> => PouchBuffers' = PouchBuffers
      BY DEF PouchBuffers
<1>1. CASE TransportStart
  <2>1. /\ tpc = "idle" /\ tpc' = "crypto" /\ UNCHANGED <<header, id>>
        /\ wire' = <<>> /\ reader' = <<>> /\ transQ' = <<>>
        BY <1>1 DEF TransportStart, QueueInv
  <2>2. PouchBuffers' = <<>>
        BY <2>1, EmptySeq, ConcatEmptySeq DEF PouchBuffers
  <2>3. header = <<>>
        BY <2>1 DEF HeaderInv
  <2> QED BY <1>f, <1>c, <1>e, <2>1, <2>2, <2>3 DEF FormInv
<1>2. CASE TransportHeader
  <2>1. /\ tpc = "crypto" /\ tpc' = "kick" /\ header' = <<pouch_header_create(id)>>
        /\ UNCHANGED <<id, wire, reader, transQ>>
        BY <1>2 DEF TransportHeader
  <2>2. PouchBuffers = <<>> /\ PouchBuffers' = <<>>
        BY <1>0, <1>p, <2>1 DEF QueueInv
  <2> DEFINE h == pouch_header_create(id)
  <2>3. h.kind = "header" /\ h.pouch = id
        BY DEF pouch_header_create
  <2>4. header' = <<h>>
        BY <2>1
  <2> HIDE DEF h
  <2>5. /\ \A i \in DOMAIN header' : header'[i].kind = "header" /\ header'[i].pouch = id
        /\ header' # <<>>
        BY <2>3, <2>4
  <2> QED BY <1>f, <1>c, <1>e, <2>1, <2>2, <2>5 DEF FormInv
<1>3. CASE TransportStartFails
  <2>1. /\ tpc = "crypto" /\ tpc' = "idle" /\ header' \in {header, <<>>}
        /\ UNCHANGED <<id, wire, reader, transQ>>
        BY <1>3 DEF TransportStartFails
  <2>2. header = <<>> /\ header' = <<>>
        BY <2>1 DEF HeaderInv
  <2> QED BY <1>f, <1>c, <1>p, <2>1, <2>2 DEF FormInv
<1>4. CASE TransportNext \/ TransportCopy
  <2>1. PouchBuffers' = PouchBuffers
        BY <1>4, PouchMoves
  <2>2. UNCHANGED <<tpc, header, id>>
        BY <1>4 DEF TransportNext, TransportCopy
  <2> QED BY <1>f, <2>1, <2>2 DEF FormInv
<1>5. CASE TransportKick \/ TransportFill \/ TransportStop \/ TransportCheckOpen
           \/ TransportCheckQueue \/ TransportEnd
  <2>1. /\ UNCHANGED <<header, id, wire, reader, transQ>>
        /\ \/ tpc \in {"kick", "open", "copy", "checkopen", "checkqueue"}
           \/ tpc = "end" /\ tpc' = "done"
        /\ tpc' \in {"open", "copy", "checkopen", "checkqueue", "end", "done"}
        BY <1>5 DEF TransportKick, TransportFill, TransportStop, TransportCheckOpen,
                    TransportCheckQueue, TransportEnd
  <2> QED BY <1>f, <1>p, <2>1 DEF FormInv
<1>6. CASE TransportFinish
  <2>1. /\ tpc \in {"done", "open"} /\ tpc' = "release" /\ transQ' = <<>>
        /\ UNCHANGED <<header, id, wire, reader>>
        BY <1>6 DEF TransportFinish
  <2>2. PouchBuffers' = wire \o reader
        BY <1>t, <2>1, ConcatEmptySeq DEF PouchBuffers
  <2>3. PouchBuffers = (wire \o reader) \o transQ
        BY DEF PouchBuffers
  <2>4. Formed(PouchBuffers') /\ AllFor(PouchBuffers', id)
        BY <1>t, <2>1, <2>2, <2>3, PrefixFormed DEF FormInv
  <2>5. PouchBuffers = <<>> => PouchBuffers' = <<>>
    <3> DEFINE s == wire \o reader
    <3>1. s \in Seq(Buffers) /\ PouchBuffers = s \o transQ /\ PouchBuffers' = s
          BY <1>t, <2>2, <2>3
    <3> HIDE DEF s
    <3>2. s \o transQ = <<>> => s = <<>>
          BY <1>t, <3>1, ConcatEqualIffEmpty
    <3> QED BY <3>1, <3>2
  <2> QED BY <1>f, <1>c, <2>1, <2>4, <2>5 DEF FormInv
<1>7. CASE TransportRelease
  <2>1. /\ tpc = "release" /\ tpc' = "reset" /\ transQ = <<>> /\ header' = <<>>
        /\ reader' = <<>> /\ UNCHANGED <<id, wire, transQ>>
        BY <1>7 DEF TransportRelease, QueueInv
  <2>2. PouchBuffers' = wire /\ PouchBuffers = wire \o reader
        BY <1>t, <2>1, ConcatEmptySeq DEF PouchBuffers
  <2>3. Formed(PouchBuffers') /\ AllFor(PouchBuffers', id)
        BY <1>t, <2>1, <2>2, PrefixFormed DEF FormInv
  <2> QED BY <1>f, <1>c, <2>1, <2>3 DEF FormInv
<1>8. CASE TransportReset
  <2>1. /\ tpc = "reset" /\ tpc' = "idle" /\ UNCHANGED <<header, wire, reader, transQ>>
        BY <1>8 DEF TransportReset
  <2>2. header = <<>>
        BY <2>1 DEF HeaderInv
  <2> QED BY <1>f, <1>c, <1>p, <2>1, <2>2 DEF FormInv
<1> QED BY <1>1, <1>2, <1>3, <1>4, <1>5, <1>6, <1>7, <1>8 DEF Transport

\* With the cooperative scheduler what the transport sends in a session is one
\* pouch: its header first and once, then blocks, all encrypted for this session,
\* through failed starts and encryptions and early finishes.  No run of
\* process_blocks straddles two sessions, and finish drops the end of a pouch only.
THEOREM PouchSafe ==
    ASSUME Cooperative
    PROVE  Spec => []WellFormedPouch
<1>1. Init => FormInv
  <2> SUFFICES ASSUME Init PROVE FormInv
      OBVIOUS
  <2>1. /\ header = <<>> /\ wire = <<>> /\ reader = <<>> /\ transQ = <<>>
        /\ wpc = "idle" /\ tpc = "idle"
        BY DEF Init
  <2>2. PouchBuffers = <<>>
        BY <2>1, EmptySeq, ConcatEmptySeq DEF PouchBuffers
  <2> QED BY <2>1, <2>2 DEF FormInv, Formed
<1>2. /\ TypeOK /\ KindInv /\ BufferInv /\ QueueInv /\ FormInv /\ [Next]_vars
      => FormInv'
  <2> SUFFICES ASSUME TypeOK, KindInv, BufferInv, QueueInv, FormInv, [Next]_vars
               PROVE  FormInv'
      OBVIOUS
  <2>1. CASE Worker
        BY <2>1, WorkerFormInv
  <2>2. CASE Transport
        BY <2>2, TransportFormInv DEF BufferInv
  <2>3. CASE DispatchEvent \/ UNCHANGED vars
    <3>1. UNCHANGED <<header, id, wpc, wbuf, tpc, wire, reader, transQ>>
          BY <2>3, DispatchFrame DEF uplinkVars, threadVars, histVars
    <3> QED BY <3>1, FormFrame
  <2>4. CASE \E a \in Apps : App(a)
    <3>1. UNCHANGED <<header, id, wpc, wbuf, tpc, wire, reader, transQ>>
          BY <2>4, AppFrame
    <3> QED BY <3>1, FormFrame
  <2> QED BY <2>1, <2>2, <2>3, <2>4 DEF Next
<1>3. FormInv => WellFormedPouch
      BY DEF FormInv, WellFormedPouch, HeaderFirst, SealedForThisPouch, Formed, AllFor
<1>4. Spec => []BufferInv
      BY BufferInvHolds
<1>5. Spec => []QueueInv
      BY QueueInvHolds DEF Orderly
<1> QED BY <1>1, <1>2, <1>3, <1>4, <1>5, TypeCorrect, KindInvHolds, PTL DEF Spec

=============================================================================
