------------------------------ MODULE BufQueue ------------------------------
(***************************************************************************)
(* A buffer queue of buf.c at the level of its pointers: the queue between  *)
(* decrypt_blocks, which runs on the system work queue, and consume_blocks, *)
(* which runs on the pouch work queue (downlink.c).  The list is Zephyr's   *)
(* sys_slist_t, which has no lock; every access to head, tail or the next   *)
(* of a node is a step.                                                    *)
(***************************************************************************)
EXTENDS Naturals, Sequences, SequencesExt

CONSTANTS Blocks,       \* the decrypted blocks
          Preemptible,  \* the threads with a priority >= 0
          NULL

VARIABLES head, tail, next,    \* the list
          work,                \* consume.work is submitted
          pc, node, nextNode,  \* of the two threads, and the registers of consume
          submitted, taken     \* the blocks in the order in which they came and went

listVars == <<head, tail, next>>
vars == <<listVars, work, pc, node, nextNode, submitted, taken>>

Threads == {"decrypt", "consume"}

\* buf_queue_init
Init == /\ head = NULL /\ tail = NULL /\ next = [b \in Blocks |-> NULL]
        /\ work = FALSE
        /\ pc = [t \in Threads |-> "idle"] /\ node = NULL /\ nextNode = NULL
        /\ submitted = <<>> /\ taken = <<>>

\* A thread goes on only if no other is in its code, or if that one can be preempted.
At(t, l) == /\ pc[t] = l
            /\ \A u \in Threads \ {t} : pc[u] # "idle" => u \in Preemptible
Goto(t, l) == pc' = [pc EXCEPT ![t] = l]

-----------------------------------------------------------------------------
(* decrypt_blocks: buf_queue_submit, then k_work_submit_to_queue. *)

buf_queue_submit == /\ At("decrypt", "idle") /\ Goto("decrypt", "append")
                    /\ \E b \in Blocks \ Range(submitted) :
                          /\ submitted' = Append(submitted, b)
                          /\ next' = [next EXCEPT ![b] = NULL]
                    /\ UNCHANGED <<head, tail, work, node, nextNode, taken>>

\* An empty list is one without a tail.
AppendLook == /\ At("decrypt", "append")
              /\ IF tail = NULL
                 THEN /\ tail' = Last(submitted) /\ Goto("decrypt", "head") /\ UNCHANGED next
                 ELSE /\ next' = [next EXCEPT ![tail] = Last(submitted)]
                      /\ Goto("decrypt", "tail") /\ UNCHANGED tail
              /\ UNCHANGED <<head, work, node, nextNode, submitted, taken>>

AppendHead == /\ At("decrypt", "head") /\ Goto("decrypt", "kick")
              /\ head' = Last(submitted)
              /\ UNCHANGED <<tail, next, work, node, nextNode, submitted, taken>>

AppendTail == /\ At("decrypt", "tail") /\ Goto("decrypt", "kick")
              /\ tail' = Last(submitted)
              /\ UNCHANGED <<head, next, work, node, nextNode, submitted, taken>>

Kick == /\ At("decrypt", "kick") /\ Goto("decrypt", "idle")
        /\ work' = TRUE
        /\ UNCHANGED <<listVars, node, nextNode, submitted, taken>>

-----------------------------------------------------------------------------
(* consume_blocks: buf_queue_get, the block, and a second look at the queue. *)

consume_blocks == /\ At("consume", "idle") /\ work /\ Goto("consume", "get")
                  /\ work' = FALSE
                  /\ UNCHANGED <<listVars, node, nextNode, submitted, taken>>

\* Without a block consume_blocks returns.
buf_queue_get == /\ At("consume", "get")
                 /\ node' = head
                 /\ Goto("consume", IF head = NULL THEN "idle" ELSE "next")
                 /\ UNCHANGED <<listVars, work, nextNode, submitted, taken>>

GetNext == /\ At("consume", "next") /\ Goto("consume", "unlink")
           /\ nextNode' = next[node]
           /\ UNCHANGED <<listVars, work, node, submitted, taken>>

GetUnlink == /\ At("consume", "unlink") /\ Goto("consume", "look")
             /\ head' = nextNode
             /\ UNCHANGED <<tail, next, work, node, nextNode, submitted, taken>>

GetLook == /\ At("consume", "look") /\ Goto("consume", IF tail = node THEN "tail" ELSE "push")
           /\ UNCHANGED <<listVars, work, node, nextNode, submitted, taken>>

GetTail == /\ At("consume", "tail") /\ Goto("consume", "push")
           /\ tail' = head
           /\ UNCHANGED <<head, next, work, node, nextNode, submitted, taken>>

\* pouch_downlink_block_push and buf_free.
Push == /\ At("consume", "push") /\ Goto("consume", "again")
        /\ taken' = Append(taken, node)
        /\ UNCHANGED <<listVars, work, node, nextNode, submitted>>

buf_queue_is_empty == head = NULL

Again == /\ At("consume", "again") /\ Goto("consume", "idle")
         /\ work' = (work \/ ~buf_queue_is_empty)
         /\ UNCHANGED <<listVars, node, nextNode, submitted, taken>>

Next == \/ buf_queue_submit \/ AppendLook \/ AppendHead \/ AppendTail \/ Kick
        \/ consume_blocks \/ buf_queue_get \/ GetNext \/ GetUnlink \/ GetLook \/ GetTail
        \/ Push \/ Again

Spec == Init /\ [][Next]_vars

-----------------------------------------------------------------------------
\* When all the work of a downlink is done, every block of the pouch has been
\* handed to the application, in order (what tests/pouch/downlink asserts of the
\* entries after it let all messages be processed).
BlocksKept == (~work /\ \A t \in Threads : pc[t] = "idle") => taken = submitted

\* Block a was submitted before block b.
Before(a, b) == \E p, q \in DOMAIN submitted : p < q /\ submitted[p] = a /\ submitted[q] = b

\* The application gets blocks that were submitted, in the order in which they were,
\* and none of them twice: the threads of a list without a lock may lose blocks, but
\* whatever their priorities are they do nothing else to them.
TakenInOrder ==
    /\ \A i \in DOMAIN taken : \E p \in DOMAIN submitted : submitted[p] = taken[i]
    /\ \A i, j \in DOMAIN taken : i < j => Before(taken[i], taken[j])
=============================================================================
