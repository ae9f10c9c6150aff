--------------------------- MODULE BufQueueProofs ---------------------------
(***************************************************************************)
(* What the queue of buf.c never does, whatever the priorities of its two  *)
(* threads and for any number of blocks: it hands over no block twice and  *)
(* none out of order.  The pointers of the list only ever lead from a      *)
(* block to one that was submitted later.                                  *)
(***************************************************************************)
EXTENDS BufQueue, TLAPS

\* Where the two threads are, and the block that was submitted last.
D == pc["decrypt"]
C == pc["consume"]
n == Len(submitted)
Newest == submitted[n]

\* The blocks that were submitted.
Subm == {submitted[i] : i \in 1 .. n}

\* All blocks that were taken were submitted before block b.
AfterTaken(b) == \A i \in DOMAIN taken : Before(taken[i], b)

-----------------------------------------------------------------------------
(* The inductive invariant *)

Labels == {"idle", "append", "head", "tail", "kick", "get", "next", "unlink", "look",
           "push", "again"}

\* Pointers lead to blocks that were submitted.
TypeInv ==
    /\ submitted \in Seq(Blocks) /\ taken \in Seq(Blocks)
    /\ next \in [Blocks -> Blocks \cup {NULL}]
    /\ \A x \in {head, tail, node, nextNode} : x \in Subm \cup {NULL}
    /\ pc \in [Threads -> Labels]

\* Every block comes once, and the links lead to later blocks.
LinkInv == /\ \A i, j \in 1 .. n : submitted[i] = submitted[j] => i = j
           /\ \A b \in Blocks : next[b] = NULL \/ Before(b, next[b])

\* What can be taken comes after what was taken.
GetInv ==
    /\ TakenInOrder
    /\ head = NULL \/ AfterTaken(head)
    /\ C \in {"next", "unlink", "look", "tail", "push"} =>
          node \in Subm /\ node # NULL /\ AfterTaken(node)
    /\ C = "unlink" => nextNode = NULL \/ Before(node, nextNode)
    /\ C \in {"look", "tail", "push"} => head = NULL \/ Before(node, head)

\* Before a block is linked nothing leads to it.
FreshInv ==
    /\ D \in {"append", "head", "tail"} => n # 0
    /\ D \in {"append", "head"} =>
          /\ \A b \in Blocks : next[b] # NULL => next[b] # Newest
          /\ \A i \in DOMAIN taken : taken[i] # Newest
          /\ (head # NULL => head # Newest) /\ (node # NULL => node # Newest)
          /\ (nextNode # NULL => nextNode # Newest)
    /\ D = "append" => (tail # NULL => tail # Newest)

QueueInv == TypeInv /\ LinkInv /\ GetInv /\ FreshInv

-----------------------------------------------------------------------------
(* Lemmas *)

\* Where the two threads are after one of them went on.
LEMMA Went ==
    ASSUME TypeInv, NEW t \in Threads, NEW l, Goto(t, l), l \in Labels
    PROVE  /\ t = "decrypt" => D' = l /\ C' = C
           /\ t = "consume" => C' = l /\ D' = D
           /\ pc' \in [Threads -> Labels]
BY DEF TypeInv, Goto, Threads, C, D

\* The order of submission is one.
LEMMA BeforeTransitive ==
    ASSUME TypeInv, LinkInv, NEW a, NEW b, NEW c, Before(a, b), Before(b, c)
    PROVE  Before(a, c)
<1>1. n \in Nat /\ DOMAIN submitted = 1 .. n
      BY DEF TypeInv, n
<1>2. PICK p \in 1 .. n, q \in 1 .. n : p < q /\ submitted[p] = a /\ submitted[q] = b
      BY <1>1 DEF Before
<1>3. PICK r \in 1 .. n, s \in 1 .. n : r < s /\ submitted[r] = b /\ submitted[s] = c
      BY <1>1 DEF Before
<1>4. q = r
      BY <1>2, <1>3 DEF LinkInv
<1>5. p < s
      BY <1>1, <1>2, <1>3, <1>4
<1> QED BY <1>1, <1>2, <1>3, <1>5 DEF Before

\* A block that was submitted, and is not the newest, comes before that.
LEMMA NewestLast ==
    ASSUME TypeInv, n # 0, NEW b \in Subm, b # Newest
    PROVE  Before(b, Newest)
<1>1. n \in Nat /\ DOMAIN submitted = 1 .. n /\ n \in 1 .. n
      BY DEF TypeInv, n
<1>2. PICK p \in 1 .. n : submitted[p] = b
      BY DEF Subm
<1>3. p # n
      BY <1>2 DEF Newest
<1>4. p < n
      BY <1>1, <1>2, <1>3
<1> QED BY <1>1, <1>2, <1>4 DEF Before, Newest

\* The newest block was submitted.
LEMMA NewestIn ==
    ASSUME TypeInv, n # 0
    PROVE  Newest \in Subm /\ Newest \in Blocks /\ Last(submitted) = Newest
<1>1. n \in 1 .. n /\ submitted[n] \in Blocks
      BY DEF TypeInv, n
<1> QED BY <1>1 DEF Subm, Newest, Last, n

\* Who comes before another was submitted, and so was the other.
LEMMA BeforeIn ==
    ASSUME TypeInv, NEW a, NEW b, Before(a, b)
    PROVE  a \in Subm /\ b \in Subm
<1>1. DOMAIN submitted = 1 .. n
      BY DEF TypeInv, n
<1> QED BY <1>1 DEF Before, Subm

\* What was submitted is a block.
LEMMA SubmBlocks == TypeInv => Subm \subseteq Blocks
<1> SUFFICES ASSUME TypeInv, NEW i \in 1 .. n PROVE submitted[i] \in Blocks
    BY DEF Subm
<1> QED BY DEF TypeInv, n

\* Blocks that were taken were submitted.
LEMMA TakenIn ==
    ASSUME TypeInv, GetInv
    PROVE  \A i \in DOMAIN taken : taken[i] \in Subm
<1>1. DOMAIN submitted = 1 .. n
      BY DEF TypeInv, n
<1> QED BY <1>1 DEF GetInv, TakenInOrder, Subm

-----------------------------------------------------------------------------
(* The steps *)

\* A step that submits nothing leaves the order of submission as it is.
LEMMA SameOrder ==
    ASSUME submitted' = submitted
    PROVE  /\ n' = n /\ Subm' = Subm /\ Newest' = Newest
           /\ \A a, b : Before(a, b)' <=> Before(a, b)
BY DEF n, Subm, Newest, Before

\* The new block is the newest, and nothing leads to it.
LEMMA SubmitKeeps ==
    ASSUME QueueInv, buf_queue_submit
    PROVE  QueueInv'
<1> USE DEF QueueInv
<1>1. PICK b \in Blocks \ Range(submitted) : /\ submitted' = Append(submitted, b)
                                             /\ next' = [next EXCEPT ![b] = NULL]
      BY DEF buf_queue_submit
<1>2. D' = "append" /\ C' = C /\ pc' \in [Threads -> Labels]
      BY Went DEF buf_queue_submit, Threads, Labels
<1>3. UNCHANGED <<head, tail, node, nextNode, taken>>
      BY DEF buf_queue_submit
<1>4. /\ n \in Nat /\ DOMAIN submitted = 1 .. n /\ submitted' \in Seq(Blocks)
      /\ DOMAIN submitted' = 1 .. n + 1 /\ n' = n + 1
      /\ \A i \in 1 .. n : submitted'[i] = submitted[i]
      /\ submitted'[n + 1] = b
      BY <1>1 DEF TypeInv, n
<1>5. \A i \in 1 .. n : submitted[i] # b
      BY <1>1, <1>4 DEF Range
<1>6. Newest' = b /\ Subm \subseteq Subm' /\ b \notin Subm
  <2>1. Newest' = submitted'[n']
        BY DEF Newest
  <2>2. ASSUME NEW i \in 1 .. n PROVE submitted[i] \in Subm'
    <3>1. i \in 1 .. n' /\ submitted[i] = submitted'[i]
          BY <1>4
    <3> QED BY <3>1 DEF Subm
  <2> QED BY <1>4, <1>5, <2>1, <2>2 DEF Subm
<1>7. \A x, y : Before(x, y) => Before(x, y)'
  <2> SUFFICES ASSUME NEW x, NEW y, Before(x, y) PROVE Before(x, y)'
      OBVIOUS
  <2>1. PICK p \in 1 .. n, q \in 1 .. n : p < q /\ submitted[p] = x /\ submitted[q] = y
        BY <1>4 DEF Before
  <2>2. p \in DOMAIN submitted' /\ q \in DOMAIN submitted'
        /\ submitted'[p] = x /\ submitted'[q] = y
        BY <1>4, <2>1
  <2> QED BY <2>1, <2>2 DEF Before
<1>8. TypeInv'
  <2>1. next' \in [Blocks -> Blocks \cup {NULL}]
        BY <1>1 DEF TypeInv
  <2> QED BY <1>2, <1>3, <1>4, <1>6, <2>1 DEF TypeInv, buf_queue_submit
<1>9. LinkInv'
  <2>1. \A i, j \in 1 .. n' : submitted'[i] = submitted'[j] => i = j
        BY <1>4, <1>5 DEF LinkInv
  <2>2. \A c \in Blocks : next'[c] = NULL \/ Before(c, next[c])'
    <3> SUFFICES ASSUME NEW c \in Blocks, next'[c] # NULL PROVE Before(c, next[c])'
        OBVIOUS
    <3>1. next'[c] = next[c] /\ Before(c, next[c])
          BY <1>1 DEF TypeInv, LinkInv
    <3>2. PICK y : y = next[c]
          OBVIOUS
    <3>3. Before(c, y)'
          BY <1>7, <3>1, <3>2
    <3> QED BY <3>1, <3>2, <3>3 DEF Before
  <2> QED BY <2>1, <2>2 DEF LinkInv, Before
<1>10. TakenInOrder'
  <2>1. \A i \in DOMAIN taken' : \E p \in DOMAIN submitted' : submitted'[p] = taken'[i]
        BY <1>3, <1>4 DEF GetInv, TakenInOrder
  <2>2. \A i, j \in DOMAIN taken' : i < j => Before(taken[i], taken[j])'
        BY <1>3, <1>7 DEF GetInv, TakenInOrder
  <2> QED BY <1>3, <2>1, <2>2 DEF TakenInOrder, Before
<1>11. \A x : AfterTaken(x) => AfterTaken(x)'
       BY <1>3, <1>7 DEF AfterTaken, Before
<1>12. GetInv'
  <2>1. head' = NULL \/ AfterTaken(head)'
        BY <1>3, <1>11 DEF GetInv, AfterTaken, Before
  <2>2. C' \in {"next", "unlink", "look", "tail", "push"} =>
           node' \in Subm' /\ node' # NULL /\ AfterTaken(node)'
        BY <1>2, <1>3, <1>6, <1>11 DEF GetInv, AfterTaken, Before
  <2>3. C' = "unlink" => nextNode' = NULL \/ Before(node, nextNode)'
        BY <1>2, <1>3, <1>7 DEF GetInv, Before
  <2>4. C' \in {"look", "tail", "push"} => head' = NULL \/ Before(node, head)'
        BY <1>2, <1>3, <1>7 DEF GetInv, Before
  <2> QED BY <1>10, <2>1, <2>2, <2>3, <2>4 DEF GetInv
<1>13. FreshInv'
  <2>1. \A c \in Blocks : next'[c] # NULL => next'[c] # b
    <3> SUFFICES ASSUME NEW c \in Blocks, next'[c] # NULL PROVE next'[c] # b
        OBVIOUS
    <3>1. next'[c] = next[c]
          BY <1>1 DEF TypeInv
    <3>2. next[c] \in Subm
          BY <3>1, BeforeIn DEF LinkInv
    <3> QED BY <1>6, <3>1, <3>2
  <2>2. \A i \in DOMAIN taken' : taken'[i] # b
        BY <1>3, <1>6, TakenIn
  <2>3. n' # 0
        BY <1>4
  <2>4. \A x \in {head, tail, node, nextNode} : x # NULL => x # b
        BY <1>6 DEF TypeInv
  <2> QED BY <1>2, <1>3, <1>6, <2>1, <2>2, <2>3, <2>4 DEF FreshInv
<1> QED BY <1>8, <1>9, <1>12, <1>13

\* The steps of an append: the newest block gets linked behind others.
LEMMA AppendKeeps ==
    ASSUME QueueInv, AppendLook \/ AppendHead \/ AppendTail \/ Kick
    PROVE  QueueInv'
<1> USE DEF QueueInv
<1>1. submitted' = submitted /\ UNCHANGED <<node, nextNode, taken>>
      BY DEF AppendLook, AppendHead, AppendTail, Kick, listVars
<1>2. /\ n' = n /\ Subm' = Subm /\ Newest' = Newest
      /\ \A a, b : Before(a, b)' <=> Before(a, b)
      BY <1>1, SameOrder
<1>3. C' = C /\ pc' \in [Threads -> Labels] /\ (D' = "append" => FALSE)
      /\ (D' = "head" => D = "append") /\ (D' = "tail" => D = "append")
      BY Went DEF AppendLook, AppendHead, AppendTail, Kick, Threads, Labels, At, D
<1>4. D \in {"append", "head", "tail"} => Newest \in Subm /\ Newest \in Blocks /\ Last(submitted) = Newest
      BY NewestIn DEF FreshInv
<1>5. TakenInOrder' /\ \A x : AfterTaken(x)' <=> AfterTaken(x)
  <2>1. TakenInOrder'
        BY <1>1 DEF GetInv, TakenInOrder, Before
  <2>2. \A x : AfterTaken(x)' <=> AfterTaken(x)
        BY <1>1 DEF AfterTaken, Before
  <2> QED BY <2>1, <2>2
<1>6. ASSUME UNCHANGED <<head, next>>, tail' \in Subm \cup {NULL},
             D' = "head" => D = "append"
      PROVE  QueueInv'
  <2>1. TypeInv'
        BY <1>1, <1>2, <1>3, <1>6 DEF TypeInv
  <2>2. LinkInv'
        BY <1>1, <1>2, <1>6 DEF LinkInv, Before
  <2>3. GetInv'
        BY <1>1, <1>2, <1>3, <1>5, <1>6 DEF GetInv, AfterTaken, Before
  <2>4. FreshInv'
        BY <1>1, <1>2, <1>3, <1>6 DEF FreshInv
  <2> QED BY <2>1, <2>2, <2>3, <2>4
<1>7. CASE AppendLook
  <2>0. D = "append"
        BY <1>7 DEF AppendLook, At, D
  <2>1. CASE tail = NULL
    <3>1. tail' = Last(submitted) /\ UNCHANGED <<head, next>>
          BY <1>7, <2>1 DEF AppendLook
    <3> QED BY <1>3, <1>4, <1>6, <2>0, <3>1
  <2>2. CASE tail # NULL
    <3>1. next' = [next EXCEPT ![tail] = Newest] /\ UNCHANGED <<head, tail>> /\ D' = "tail"
      <4>1. Goto("decrypt", "tail") /\ next' = [next EXCEPT ![tail] = Last(submitted)]
            /\ UNCHANGED <<head, tail>>
            BY <1>7, <2>2 DEF AppendLook
      <4> QED BY <1>4, <2>0, <4>1, Went DEF Threads, Labels
    <3>2. tail \in Subm /\ tail # Newest /\ tail \in Blocks
          BY <2>0, <2>2, SubmBlocks DEF TypeInv, FreshInv
    <3>3. Before(tail, Newest)
          BY <2>0, <3>2, NewestLast DEF FreshInv
    <3>4. TypeInv'
          BY <1>1, <1>2, <1>3, <1>4, <2>0, <3>1, <3>2 DEF TypeInv
    <3>5. LinkInv'
      <4>1. \A b \in Blocks : next'[b] = NULL \/ Before(b, next'[b])
            BY <3>1, <3>2, <3>3 DEF TypeInv, LinkInv
      <4> QED BY <1>1, <1>2, <4>1 DEF LinkInv, Before
    <3>6. GetInv'
          BY <1>1, <1>2, <1>3, <1>5, <3>1 DEF GetInv, AfterTaken, Before
    <3>7. FreshInv'
          BY <1>2, <2>0, <3>1 DEF FreshInv
    <3> QED BY <3>4, <3>5, <3>6, <3>7
  <2> QED BY <2>1, <2>2
<1>8. CASE AppendHead
  <2>1. D = "head" /\ head' = Newest /\ UNCHANGED <<tail, next>> /\ D' = "kick"
    <3>1. D = "head"
          BY <1>8 DEF AppendHead, At, D
    <3>2. D' = "kick"
          BY <1>8, Went DEF AppendHead, Threads, Labels
    <3> QED BY <1>4, <1>8, <3>1, <3>2 DEF AppendHead
  <2>2. AfterTaken(Newest)
        BY <2>1, TakenIn, NewestLast DEF AfterTaken, FreshInv
  <2>3. node # NULL => Before(node, Newest)
        BY <2>1, NewestLast DEF FreshInv, TypeInv
  <2>4. C \in {"look", "tail", "push"} => Before(node, Newest)
        BY <2>3 DEF GetInv
  <2>5. TypeInv'
        BY <1>1, <1>2, <1>3, <1>4, <2>1 DEF TypeInv
  <2>6. LinkInv'
        BY <1>1, <1>2, <2>1 DEF LinkInv, Before
  <2>7. GetInv'
    <3>1. AfterTaken(head)'
          BY <1>1, <2>1, <2>2 DEF AfterTaken, Before
    <3>2. C' \in {"look", "tail", "push"} => head' = NULL \/ Before(node, head)'
          BY <1>1, <1>3, <2>1, <2>4 DEF Before
    <3>3. C' \in {"next", "unlink", "look", "tail", "push"} =>
             node' \in Subm' /\ node' # NULL /\ AfterTaken(node)'
          BY <1>1, <1>2, <1>3 DEF GetInv, AfterTaken, Before
    <3>4. C' = "unlink" => nextNode' = NULL \/ Before(node, nextNode)'
          BY <1>1, <1>3 DEF GetInv, Before
    <3> QED BY <1>5, <3>1, <3>2, <3>3, <3>4 DEF GetInv
  <2>8. FreshInv'
        BY <2>1 DEF FreshInv
  <2> QED BY <2>5, <2>6, <2>7, <2>8
<1>9. CASE AppendTail
  <2>1. D = "tail" /\ tail' = Last(submitted) /\ UNCHANGED <<head, next>>
        BY <1>9 DEF AppendTail, At, D
  <2> QED BY <1>3, <1>4, <1>6, <2>1
<1>10. CASE Kick
       BY <1>3, <1>6, <1>10 DEF Kick, listVars, TypeInv
<1> QED BY <1>7, <1>8, <1>9, <1>10

\* The steps of buf_queue_get and what follows it: only later blocks are reached.
LEMMA ConsumeKeeps ==
    ASSUME QueueInv,
           \/ consume_blocks \/ buf_queue_get \/ GetNext \/ GetUnlink \/ GetLook
           \/ GetTail \/ Again
    PROVE  QueueInv'
<1> USE DEF QueueInv
<1>1. submitted' = submitted /\ UNCHANGED <<next, taken>>
      BY DEF consume_blocks, buf_queue_get, GetNext, GetUnlink, GetLook, GetTail, Again, listVars
<1>2. /\ n' = n /\ Subm' = Subm /\ Newest' = Newest
      /\ \A a, b : Before(a, b)' <=> Before(a, b)
      BY <1>1, SameOrder
<1>3. D' = D /\ pc' \in [Threads -> Labels]
      BY Went DEF consume_blocks, buf_queue_get, GetNext, GetUnlink, GetLook, GetTail, Again,
                  Threads, Labels
<1>4. LinkInv'
      BY <1>1, <1>2 DEF LinkInv, Before
<1>5. TakenInOrder' /\ \A x : AfterTaken(x)' <=> AfterTaken(x)
  <2>1. TakenInOrder'
        BY <1>1 DEF GetInv, TakenInOrder, Before
  <2>2. \A x : AfterTaken(x)' <=> AfterTaken(x)
        BY <1>1 DEF AfterTaken, Before
  <2> QED BY <2>1, <2>2
<1>6. ASSUME UNCHANGED <<head, node, nextNode>>, tail' \in {head, tail},
             C' = "push" => C \in {"look", "tail"}, C' = "tail" => C = "look",
             C' \notin {"next", "unlink", "look"}
      PROVE  QueueInv'
  <2>1. TypeInv'
        BY <1>1, <1>2, <1>3, <1>6 DEF TypeInv
  <2>2. GetInv'
        BY <1>1, <1>2, <1>5, <1>6 DEF GetInv, AfterTaken, Before
  <2>3. FreshInv'
        BY <1>1, <1>2, <1>3, <1>6 DEF FreshInv
  <2> QED BY <1>4, <2>1, <2>2, <2>3
<1>7. CASE consume_blocks \/ Again
  <2>1. C' \in {"get", "idle"} /\ UNCHANGED <<head, tail, node, nextNode>>
        BY <1>7, Went DEF consume_blocks, Again, Threads, Labels, listVars
  <2> QED BY <1>6, <2>1
<1>8. CASE GetLook
  <2>1. C = "look" /\ C' \in {"tail", "push"} /\ UNCHANGED <<head, tail, node, nextNode>>
        BY <1>8, Went DEF GetLook, Threads, Labels, listVars, At, C
  <2> QED BY <1>6, <2>1
<1>9. CASE GetTail
  <2>1. C = "tail" /\ C' = "push" /\ UNCHANGED <<head, node, nextNode>> /\ tail' = head
        BY <1>9, Went DEF GetTail, Threads, Labels, At, C
  <2> QED BY <1>6, <2>1
<1>10. CASE buf_queue_get
  <2>1. node' = head /\ UNCHANGED <<head, tail, nextNode>> /\ C' \in {"idle", "next"}
        /\ (head = NULL => C' = "idle")
        BY <1>10, Went DEF buf_queue_get, Threads, Labels, listVars
  <2>2. TypeInv'
        BY <1>1, <1>2, <1>3, <2>1 DEF TypeInv
  <2>3. GetInv'
    <3>1. C' = "next" => node' \in Subm' /\ node' # NULL /\ AfterTaken(node)'
          BY <1>1, <1>2, <2>1 DEF GetInv, TypeInv, AfterTaken, Before
    <3>2. head' = NULL \/ AfterTaken(head)'
          BY <1>1, <2>1 DEF GetInv, AfterTaken, Before
    <3> QED BY <1>5, <2>1, <3>1, <3>2 DEF GetInv
  <2>4. FreshInv'
        BY <1>1, <1>2, <1>3, <2>1 DEF FreshInv
  <2> QED BY <1>4, <2>2, <2>3, <2>4
<1>11. CASE GetNext
  <2>1. nextNode' = next[node] /\ UNCHANGED <<head, tail, node>> /\ C' = "unlink" /\ C = "next"
        BY <1>11, Went DEF GetNext, Threads, Labels, listVars, At, C
  <2>2. node \in Subm /\ node # NULL /\ AfterTaken(node) /\ node \in Blocks
        BY <2>1, SubmBlocks DEF GetInv
  <2>3. next[node] = NULL \/ Before(node, next[node])
        BY <2>2 DEF LinkInv
  <2>4. next[node] \in Subm \cup {NULL}
        BY <2>3, BeforeIn
  <2>5. TypeInv'
        BY <1>1, <1>2, <1>3, <2>1, <2>4 DEF TypeInv
  <2>6. GetInv'
    <3>1. node' \in Subm' /\ node' # NULL /\ AfterTaken(node)'
          BY <1>1, <1>2, <2>1, <2>2 DEF AfterTaken, Before
    <3>2. nextNode' = NULL \/ Before(node, nextNode)'
          BY <1>1, <2>1, <2>3 DEF Before
    <3>3. head' = NULL \/ AfterTaken(head)'
          BY <1>1, <2>1 DEF GetInv, AfterTaken, Before
    <3> QED BY <1>5, <2>1, <3>1, <3>2, <3>3 DEF GetInv
  <2>7. FreshInv'
        BY <1>1, <1>2, <1>3, <2>1, <2>2 DEF FreshInv
  <2> QED BY <1>4, <2>5, <2>6, <2>7
<1>12. CASE GetUnlink
  <2>1. head' = nextNode /\ UNCHANGED <<tail, node, nextNode>> /\ C' = "look" /\ C = "unlink"
        BY <1>12, Went DEF GetUnlink, Threads, Labels, At, C
  <2>2. node \in Subm /\ node # NULL /\ AfterTaken(node) /\ (nextNode = NULL \/ Before(node, nextNode))
        BY <2>1 DEF GetInv
  <2>3. nextNode = NULL \/ AfterTaken(nextNode)
        BY <2>2, BeforeTransitive DEF AfterTaken
  <2>4. TypeInv'
        BY <1>1, <1>2, <1>3, <2>1 DEF TypeInv
  <2>5. GetInv'
    <3>1. node' \in Subm' /\ node' # NULL /\ AfterTaken(node)'
          BY <1>1, <1>2, <2>1, <2>2 DEF AfterTaken, Before
    <3>2. head' = NULL \/ Before(node, head)'
          BY <1>1, <2>1, <2>2 DEF Before
    <3>3. head' = NULL \/ AfterTaken(head)'
          BY <1>1, <2>1, <2>3 DEF AfterTaken, Before
    <3> QED BY <1>5, <2>1, <3>1, <3>2, <3>3 DEF GetInv
  <2>6. FreshInv'
        BY <1>1, <1>2, <1>3, <2>1 DEF FreshInv
  <2> QED BY <1>4, <2>4, <2>5, <2>6
<1> QED BY <1>7, <1>8, <1>9, <1>10, <1>11, <1>12

\* The block that is handed over comes after all others, and before the head.
LEMMA PushKeeps ==
    ASSUME QueueInv, Push
    PROVE  QueueInv'
<1> USE DEF QueueInv
<1>1. /\ taken' = Append(taken, node) /\ C = "push" /\ C' = "again" /\ D' = D
      /\ pc' \in [Threads -> Labels]
      /\ UNCHANGED <<head, tail, next, node, nextNode, submitted>>
      BY Went DEF Push, Threads, Labels, listVars, At, C
<1>2. /\ n' = n /\ Subm' = Subm /\ Newest' = Newest
      BY <1>1, SameOrder
<1>3. /\ node \in Subm /\ node # NULL /\ AfterTaken(node) /\ node \in Blocks
      /\ head = NULL \/ Before(node, head)
      BY <1>1, SubmBlocks DEF GetInv
<1>4. /\ taken' \in Seq(Blocks) /\ DOMAIN taken = 1 .. Len(taken) /\ Len(taken) \in Nat
      /\ DOMAIN taken' = 1 .. Len(taken) + 1 /\ taken'[Len(taken) + 1] = node
      /\ \A i \in 1 .. Len(taken) : taken'[i] = taken[i]
      BY <1>1, <1>3 DEF TypeInv
<1>5. TypeInv'
      BY <1>1, <1>2, <1>4 DEF TypeInv
<1>6. LinkInv'
      BY <1>1, <1>2 DEF LinkInv, Before
<1>7. TakenInOrder'
  <2>1. \A i \in DOMAIN taken' : \E p \in DOMAIN submitted : submitted[p] = taken'[i]
    <3>1. \E p \in DOMAIN submitted : submitted[p] = node
      <4>1. DOMAIN submitted = 1 .. n
            BY DEF TypeInv, n
      <4> QED BY <1>3, <4>1 DEF Subm
    <3> QED BY <1>4, <3>1 DEF GetInv, TakenInOrder
  <2>2. ASSUME NEW i \in DOMAIN taken', NEW j \in DOMAIN taken', i < j
        PROVE  Before(taken'[i], taken'[j])
    <3>1. i \in DOMAIN taken /\ taken'[i] = taken[i]
          BY <1>4, <2>2
    <3>2. CASE j \in DOMAIN taken
          BY <1>4, <2>2, <3>1, <3>2 DEF GetInv, TakenInOrder
    <3>3. CASE j = Len(taken) + 1
          BY <1>3, <1>4, <3>1, <3>3 DEF AfterTaken
    <3> QED BY <1>4, <3>2, <3>3
  <2> QED BY <1>1, <2>1, <2>2 DEF TakenInOrder, Before
<1>8. head = NULL \/ \A i \in DOMAIN taken' : Before(taken'[i], head)
  <2> SUFFICES ASSUME head # NULL, NEW i \in DOMAIN taken' PROVE Before(taken'[i], head)
      OBVIOUS
  <2>1. CASE i \in DOMAIN taken
        BY <1>4, <2>1 DEF GetInv, AfterTaken
  <2>2. CASE i = Len(taken) + 1
        BY <1>3, <1>4, <2>2
  <2> QED BY <1>4, <2>1, <2>2
<1>9. GetInv'
      BY <1>1, <1>7, <1>8 DEF GetInv, AfterTaken, Before
<1>10. FreshInv'
  <2>1. D \in {"append", "head"} => \A i \in DOMAIN taken' : taken'[i] # Newest
        BY <1>3, <1>4 DEF FreshInv
  <2> QED BY <1>1, <1>2, <2>1 DEF FreshInv
<1> QED BY <1>5, <1>6, <1>9, <1>10

\* Order: for every number of blocks and all priorities of the two threads the queue
\* between decrypt_blocks and consume_blocks hands over no block twice and none before
\* one that was submitted earlier.  The race that the list is open to loses blocks and
\* does nothing else.
THEOREM TakenSafe == Spec => []TakenInOrder
<1>1. Init => QueueInv
  <2> SUFFICES ASSUME Init PROVE QueueInv
      OBVIOUS
  <2>1. submitted = <<>> /\ taken = <<>> /\ n = 0 /\ D = "idle" /\ C = "idle"
        BY DEF Init, n, D, C, Threads
  <2>2. TypeInv
        BY <2>1 DEF Init, TypeInv, Labels
  <2>3. LinkInv
        BY <2>1 DEF Init, LinkInv
  <2>4. GetInv
        BY <2>1 DEF Init, GetInv, TakenInOrder
  <2>5. FreshInv
        BY <2>1 DEF FreshInv
  <2> QED BY <2>2, <2>3, <2>4, <2>5 DEF QueueInv
<1>2. QueueInv /\ [Next]_vars => QueueInv'
  <2> SUFFICES ASSUME QueueInv, [Next]_vars PROVE QueueInv'
      OBVIOUS
  <2>1. CASE UNCHANGED vars
    <3>1. UNCHANGED <<head, tail, next, pc, node, nextNode, submitted, taken>>
          BY <2>1 DEF vars, listVars
    <3> QED BY <3>1 DEF QueueInv, TypeInv, LinkInv, GetInv, FreshInv, TakenInOrder, AfterTaken,
                        Before, Subm, Newest, n, C, D
  <2> QED BY <2>1, SubmitKeeps, AppendKeeps, ConsumeKeeps, PushKeeps DEF Next
<1>3. QueueInv => TakenInOrder
      BY DEF QueueInv, GetInv
<1> QED BY <1>1, <1>2, <1>3, PTL DEF Spec
=============================================================================
