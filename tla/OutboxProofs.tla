---------------------------- MODULE OutboxProofs ----------------------------
(***************************************************************************)
(* Proofs about Outbox, for any number of requests, items, pages and       *)
(* setbacks: types, nothing is dropped, lines are kept and single unless a *)
(* page was written over, and every repeat has its cause.                  *)
(***************************************************************************)
EXTENDS Outbox, TLAPS

Busy(d) == pc[d] \notin {"idle", "next"}

\* What the place of a deliverer says of its locals.
PlaceOf(d) ==
    /\ d \in Requests => pc[d] # "next"
    /\ Busy(d) => item[d] \in 1 .. accepted
    /\ ~Busy(d) => item[d] = 0
    /\ pc[d] \in {"upload", "read", "write"} => at[d] \in Pages /\ page[at[d]] \in Content

TypeInv ==
    /\ TypeOK
    /\ \A d \in Deliverer : PlaceOf(d)

-----------------------------------------------------------------------------
(* Type correctness.                                                       *)

LEMMA LaneDelivers == Lane \in Deliverer /\ Requests \subseteq Deliverer
  BY DEF Deliverer

LEMMA AppendedIsContent ==
  ASSUME NEW c \in Content, NEW l \in Line
  PROVE  /\ Appended(c, l) \in Content
         /\ Appended(c, l)[l] = c[l] + 1
         /\ \A m \in Line : m # l => Appended(c, l)[m] = c[m]
         /\ \A m \in Line : Appended(c, l)[m] >= c[m]
         /\ Appended(c, l) # None
  <1>1. /\ Appended(c, l) \in Content
        /\ Appended(c, l)[l] = c[l] + 1
        /\ \A m \in Line : m # l => Appended(c, l)[m] = c[m]
    BY DEF Appended, Content
  <1>2. \A m \in Line : Appended(c, l)[m] >= c[m]
    BY <1>1 DEF Content
  <1> QED
    BY <1>1, <1>2, NoneIsNoContent

LEMMA EmptyIsContent ==
  /\ Empty \in Content
  /\ Empty # None
  /\ \A l \in Line : Empty[l] = 0
  BY NoneIsNoContent DEF Empty, Content

\* A deliverer at work has an item that was stored.
LEMMA ItemInHand ==
  ASSUME TypeInv, NEW d \in Deliverer, Busy(d)
  PROVE  item[d] \in Item /\ item[d] \in Line /\ item[d] \in 1 .. accepted
  <1>1. accepted \in Nat /\ accepted <= MaxItems /\ MaxItems \in Nat
    BY OutboxBounds DEF TypeInv, TypeOK
  <1>2. item[d] \in 1 .. accepted
    BY DEF TypeInv, PlaceOf
  <1> QED
    BY <1>1, <1>2 DEF Item, Line

LEMMA TypeInit == Init => TypeInv
  <1> SUFFICES ASSUME Init PROVE TypeInv
    OBVIOUS
  <1>1. 0 \in 0 .. MaxItems /\ 0 \in 0 .. MaxSetbacks
    BY OutboxBounds
  <1>2. \A i \in Item : i > 0
    BY OutboxBounds DEF Item
  <1>3. /\ page \in [Pages -> Content \cup {None}]
        /\ at \in [Deliverer -> Pages \cup {None}]
        /\ copy \in [Deliverer -> Content]
        /\ reached \in [Item -> Nat]
    BY EmptyIsContent DEF Init
  <1>4. /\ kind \in [Item -> Kinds \cup {"none"}]
        /\ \A i \in Item : kind[i] = "none" <=> i > accepted
    BY <1>2 DEF Init
  <1>5. /\ outbox \subseteq 1 .. accepted
        /\ todo \subseteq 1 .. accepted
        /\ raced \subseteq 0 .. accepted
        /\ accepted \in 0 .. MaxItems
        /\ setbacks \in 0 .. MaxSetbacks
        /\ stale \in BOOLEAN /\ edited \in BOOLEAN
    BY <1>1 DEF Init
  <1>6. /\ item \in [Deliverer -> 0 .. accepted]
        /\ pc \in [Deliverer -> {"idle", "next", "find", "create", "upload", "read", "write",
                                 "send", "refuse", "ack"}]
    BY DEF Init
  <1>7. TypeOK
    BY <1>3, <1>4, <1>5, <1>6 DEF TypeOK
  <1> QED
    BY <1>7 DEF Init, TypeInv, PlaceOf, Busy

\* A deliverer that leaves its item keeps the types of the locals.
LEMMA LeaveTypes ==
  ASSUME TypeInv, NEW d \in Deliverer, Leave(d),
         UNCHANGED <<accepted, kind, page>>
  PROVE  /\ pc' \in [Deliverer -> {"idle", "next", "find", "create", "upload", "read",
                                   "write", "send", "refuse", "ack"}]
         /\ item' \in [Deliverer -> 0 .. accepted']
         /\ at' \in [Deliverer -> Pages \cup {None}]
         /\ copy' \in [Deliverer -> Content]
         /\ \A e \in Deliverer : PlaceOf(e)'
  <1> USE DEF TypeInv
  <1>1. 0 \in 0 .. accepted
    BY OutboxBounds DEF TypeOK
  <1>2. \A e \in Deliverer : PlaceOf(e)'
    <2> SUFFICES ASSUME NEW e \in Deliverer PROVE PlaceOf(e)'
      OBVIOUS
    <2>1. CASE e = d
      BY <2>1, LaneDelivers, OutboxNames DEF Leave, TypeOK, PlaceOf, Busy
    <2>2. CASE e # d
      BY <2>2 DEF Leave, TypeOK, PlaceOf, Busy
    <2> QED
      BY <2>1, <2>2
  <1> QED
    BY <1>1, <1>2, EmptyIsContent DEF Leave, TypeOK

\* Delivering an item keeps the types.
LEMMA TypeDeliver ==
  ASSUME TypeInv, NEW d \in Deliverer, DeliverStep(d)
  PROVE  TypeInv'
  <1> USE DEF TypeInv, Queue, remote
  <1>1. CASE Find(d)
    <2>1. TypeOK'
      BY <1>1 DEF Find, TypeOK
    <2>2. ASSUME NEW e \in Deliverer PROVE PlaceOf(e)'
      BY <1>1 DEF Find, TypeOK, PlaceOf, Busy
    <2> QED
      BY <2>1, <2>2
  <1>2. CASE FindNone(d)
    BY <1>2 DEF FindNone, GoTo, TypeOK, PlaceOf, Busy
  <1>3. ASSUME NEW p \in Pages, CreatePage(d, p)
        PROVE  TypeInv'
    <2>1. item[d] \in Item /\ item[d] \in Line
      BY <1>3, ItemInHand DEF CreatePage, Busy
    <2>2. Appended(Empty, item[d]) \in Content
      BY <2>1, EmptyIsContent, AppendedIsContent
    <2>3. \A q \in Pages : page[q] \in Content => page'[q] \in Content
      BY <1>3, <2>2, EmptyIsContent DEF CreatePage, TypeOK
    <2>4. TypeOK'
      <3>1. page' \in [Pages -> Content \cup {None}]
        BY <1>3, <2>2, EmptyIsContent DEF CreatePage, TypeOK
      <3>2. reached' \in [Item -> Nat]
        BY <1>3, <2>1 DEF CreatePage, TypeOK
      <3> QED
        BY <1>3, <3>1, <3>2 DEF CreatePage, TypeOK
    <2>5. ASSUME NEW e \in Deliverer PROVE PlaceOf(e)'
      <3>1. page'[p] \in Content
        BY <1>3, <2>2, EmptyIsContent DEF CreatePage, TypeOK
      <3> QED
        BY <1>3, <2>3, <3>1 DEF CreatePage, TypeOK, PlaceOf, Busy
    <2> QED
      BY <2>4, <2>5
  <1>4. CASE Upload(d)
    BY <1>4 DEF Upload, GoTo, TypeOK, PlaceOf, Busy
  <1>5. CASE Read(d)
    <2>1. at[d] \in Pages /\ page[at[d]] \in Content
      BY <1>5 DEF Read, PlaceOf
    <2>2. TypeOK'
      BY <1>5, <2>1 DEF Read, TypeOK
    <2>3. ASSUME NEW e \in Deliverer PROVE PlaceOf(e)'
      BY <1>5 DEF Read, TypeOK, PlaceOf, Busy
    <2> QED
      BY <2>2, <2>3
  <1>6. CASE WritePage(d)
    <2>1. item[d] \in Item /\ item[d] \in Line /\ at[d] \in Pages
      BY <1>6, ItemInHand DEF WritePage, PlaceOf, Busy
    <2>2. Appended(copy[d], item[d]) \in Content
      BY <2>1, AppendedIsContent DEF TypeOK
    <2>3. \A q \in Pages : page[q] \in Content => page'[q] \in Content
      BY <1>6, <2>2 DEF WritePage, TypeOK
    <2>4. TypeOK'
      <3>1. page' \in [Pages -> Content \cup {None}]
        BY <1>6, <2>2 DEF WritePage, TypeOK
      <3>2. reached' \in [Item -> Nat]
        BY <1>6, <2>1 DEF WritePage, TypeOK
      <3> QED
        BY <1>6, <3>1, <3>2 DEF WritePage, GoTo, TypeOK
    <2>5. ASSUME NEW e \in Deliverer PROVE PlaceOf(e)'
      BY <1>6, <2>3 DEF WritePage, GoTo, TypeOK, PlaceOf, Busy
    <2> QED
      BY <2>4, <2>5
  <1>7. CASE Send(d)
    <2>1. item[d] \in Item
      BY <1>7, ItemInHand DEF Send, Busy
    <2>2. reached' \in [Item -> Nat]
      BY <1>7, <2>1 DEF Send, TypeOK
    <2>3. TypeOK'
      BY <1>7, <2>2 DEF Send, GoTo, TypeOK
    <2>4. ASSUME NEW e \in Deliverer PROVE PlaceOf(e)'
      BY <1>7 DEF Send, GoTo, TypeOK, PlaceOf, Busy
    <2> QED
      BY <2>3, <2>4
  <1>8. CASE Ack(d)
    BY <1>8, LeaveTypes DEF Ack, TypeOK
  <1>9. CASE Refuse(d)
    BY <1>9, LeaveTypes DEF Refuse, TypeOK
  <1> QED
    BY <1>1, <1>2, <1>3, <1>4, <1>5, <1>6, <1>7, <1>8, <1>9 DEF DeliverStep

\* Storing an item keeps the types.
LEMMA EnqueueTypes ==
  ASSUME TypeInv, NEW k \in Kinds, Enqueue(k)
  PROVE  /\ outbox' \subseteq 1 .. accepted'
         /\ accepted' \in 0 .. MaxItems
         /\ accepted' = accepted + 1
         /\ accepted' \in Item
         /\ kind' \in [Item -> Kinds \cup {"none"}]
         /\ \A i \in Item : kind'[i] = "none" <=> i > accepted'
  <1> USE DEF TypeInv
  <1>1. accepted' \in 0 .. MaxItems /\ accepted' = accepted + 1 /\ accepted' \in Item
    BY OutboxBounds DEF Enqueue, TypeOK, Item
  <1>2. kind' \in [Item -> Kinds \cup {"none"}]
    BY <1>1 DEF Enqueue, TypeOK
  <1>3. k # "none"
    BY OutboxNames
  <1>4. \A i \in Item : kind'[i] = "none" <=> i > accepted'
    BY <1>1, <1>3, OutboxBounds DEF Enqueue, TypeOK, Item
  <1>5. outbox' \subseteq 1 .. accepted'
    BY <1>1, OutboxBounds DEF Enqueue, TypeOK
  <1> QED
    BY <1>1, <1>2, <1>4, <1>5

\* The other steps keep the types.
LEMMA TypeQueue ==
  ASSUME TypeInv,
         \/ StartFlush \/ EndFlush \/ FlushAborts \/ QueueLog \/ Crash
         \/ \E i \in Item : NextItem(i)
         \/ \E r \in Requests, k \in Kinds : Submit(r, k)
         \/ \E d \in Deliverer : Fail(d)
         \/ \E p \in Pages : Edit(p)
  PROVE  TypeInv'
  <1> USE DEF TypeInv, Queue, remote, local
  <1>b. accepted \in Nat /\ MaxItems \in Nat /\ MaxSetbacks \in Nat
    BY OutboxBounds DEF TypeOK
  <1>1. CASE StartFlush
    <2>1. raced' \subseteq 0 .. accepted
      BY <1>1 DEF StartFlush, TypeOK, Deliverer
    <2> QED
      BY <1>1, <2>1, LaneDelivers, OutboxNames DEF StartFlush, TypeOK, PlaceOf, Busy
  <1>2. CASE EndFlush
    BY <1>2, LaneDelivers DEF EndFlush, TypeOK, PlaceOf, Busy
  <1>3. CASE FlushAborts
    BY <1>b, <1>3, LaneDelivers DEF FlushAborts, TypeOK, PlaceOf, Busy
  <1>4. CASE QueueLog
    <2>1. /\ outbox' \subseteq 1 .. accepted'
          /\ accepted' \in 0 .. MaxItems
          /\ accepted' = accepted + 1
          /\ kind' \in [Item -> Kinds \cup {"none"}]
          /\ \A i \in Item : kind'[i] = "none" <=> i > accepted'
      BY <1>4, EnqueueTypes DEF QueueLog
    <2>2. 1 .. accepted \subseteq 1 .. accepted' /\ 0 .. accepted \subseteq 0 .. accepted'
      BY <1>b, <2>1
    <2>3. TypeOK'
      BY <1>4, <2>1, <2>2 DEF QueueLog, TypeOK
    <2>4. ASSUME NEW e \in Deliverer PROVE PlaceOf(e)'
      BY <1>4, <2>2 DEF QueueLog, PlaceOf, Busy
    <2> QED
      BY <2>3, <2>4
  <1>5. CASE Crash
    <2>1. 0 \in 0 .. accepted
      BY <1>b
    <2>2. TypeOK'
      BY <1>b, <1>5, <2>1, EmptyIsContent DEF Crash, TypeOK
    <2>3. ASSUME NEW e \in Deliverer PROVE PlaceOf(e)'
      BY <1>5 DEF Crash, PlaceOf, Busy
    <2> QED
      BY <2>2, <2>3
  <1>6. ASSUME NEW i \in Item, NextItem(i)
        PROVE  TypeInv'
    <2>1. i \in 1 .. accepted /\ kind[i] \in Kinds
      BY <1>b, <1>6 DEF NextItem, TypeOK, Item
    <2>2. Step(kind[i]) \in {"find", "send", "refuse"}
      BY <2>1, OutboxNames DEF Step
    <2>3. TypeOK'
      BY <1>b, <1>6, <2>1, <2>2, LaneDelivers DEF NextItem, TypeOK
    <2>4. ASSUME NEW e \in Deliverer PROVE PlaceOf(e)'
      <3>1. CASE e = Lane
        BY <1>6, <2>1, <2>2, <3>1, OutboxNames DEF NextItem, TypeOK, PlaceOf, Busy
      <3>2. CASE e # Lane
        BY <1>6, <3>2 DEF NextItem, TypeOK, PlaceOf, Busy
      <3> QED
        BY <3>1, <3>2
    <2> QED
      BY <2>3, <2>4
  <1>7. ASSUME NEW r \in Requests, NEW k \in Kinds, Submit(r, k)
        PROVE  TypeInv'
    <2>1. /\ outbox' \subseteq 1 .. accepted'
          /\ accepted' \in 0 .. MaxItems
          /\ accepted' = accepted + 1
          /\ kind' \in [Item -> Kinds \cup {"none"}]
          /\ \A i \in Item : kind'[i] = "none" <=> i > accepted'
      BY <1>7, EnqueueTypes DEF Submit
    <2>2. 1 .. accepted \subseteq 1 .. accepted' /\ 0 .. accepted \subseteq 0 .. accepted'
          /\ accepted + 1 \in 1 .. accepted'
      BY <1>b, <2>1
    <2>3. Step(k) \in {"find", "send", "refuse"}
      BY OutboxNames DEF Step
    <2>4. TypeOK'
      BY <1>7, <2>1, <2>2, <2>3, LaneDelivers DEF Submit, TypeOK
    <2>5. ASSUME NEW e \in Deliverer PROVE PlaceOf(e)'
      <3>1. CASE e = r
        BY <1>7, <2>2, <2>3, <3>1, LaneDelivers DEF Submit, TypeOK, PlaceOf, Busy
      <3>2. CASE e # r
        BY <1>7, <2>2, <3>2 DEF Submit, TypeOK, PlaceOf, Busy
      <3> QED
        BY <3>1, <3>2
    <2> QED
      BY <2>4, <2>5
  <1>8. ASSUME NEW d \in Deliverer, Fail(d)
        PROVE  TypeInv'
    BY <1>b, <1>8, LeaveTypes DEF Fail, TypeOK
  <1>9. ASSUME NEW p \in Pages, Edit(p)
        PROVE  TypeInv'
    <2>1. Author \in Line
      BY DEF Author, Line
    <2>2. (IF page[p] = None THEN Empty ELSE page[p]) \in Content
      BY EmptyIsContent DEF TypeOK
    <2>3. Appended(IF page[p] = None THEN Empty ELSE page[p], Author) \in Content
      BY <2>1, <2>2, AppendedIsContent
    <2>4. page' \in [Pages -> Content \cup {None}]
      BY <1>9, <2>3 DEF Edit, TypeOK
    <2>5. TypeOK'
      BY <1>9, <2>4 DEF Edit, TypeOK
    <2>6. \A q \in Pages : page[q] \in Content => page'[q] \in Content
      BY <1>9, <2>3 DEF Edit, TypeOK
    <2>7. ASSUME NEW e \in Deliverer PROVE PlaceOf(e)'
      BY <1>9, <2>6 DEF Edit, PlaceOf, Busy
    <2> QED
      BY <2>5, <2>7
  <1> QED
    BY <1>1, <1>2, <1>3, <1>4, <1>5, <1>6, <1>7, <1>8, <1>9

LEMMA TypeStep == TypeInv /\ [Next]_vars => TypeInv'
  <1> SUFFICES ASSUME TypeInv, [Next]_vars PROVE TypeInv'
    OBVIOUS
  <1>1. CASE UNCHANGED vars
    BY <1>1 DEF vars, remote, local, TypeInv, TypeOK, PlaceOf, Busy
  <1>2. CASE \E d \in Deliverer : DeliverStep(d)
    BY <1>2, TypeDeliver
  <1> QED
    BY <1>1, <1>2, TypeQueue, LaneDelivers DEF Next, LaneStep

\* Every reachable state of the outbox has the types of TypeOK.
THEOREM OutboxTypeCorrect == Spec => []TypeOK
  <1>1. TypeInv => TypeOK
    BY DEF TypeInv
  <1> QED
    BY <1>1, TypeInit, TypeStep, PTL DEF Spec

-----------------------------------------------------------------------------
(* What a step does to the rows, the kinds and the history.                *)

LEMMA KindsStay ==
  ASSUME TypeInv, [Next]_vars
  PROVE  /\ accepted \in Nat /\ accepted' \in Nat /\ accepted <= accepted'
         /\ \A i \in 1 .. accepted : kind'[i] = kind[i]
  <1>1. accepted \in Nat /\ MaxItems \in Nat
    BY OutboxBounds DEF TypeInv, TypeOK
  <1>2. ASSUME NEW k \in Kinds, Enqueue(k)
        PROVE  accepted' = accepted + 1 /\ \A i \in 1 .. accepted : kind'[i] = kind[i]
    BY <1>1, <1>2 DEF Enqueue, TypeInv, TypeOK
  <1>3. CASE accepted' = accepted /\ kind' = kind
    BY <1>1, <1>3
  <1>4. \/ accepted' = accepted /\ kind' = kind
        \/ \E k \in Kinds : Enqueue(k)
    BY DEF Next, LaneStep, DeliverStep, vars, Queue, remote, local, Submit, QueueLog, Fail,
           FlushAborts, Crash, Edit, StartFlush, EndFlush, NextItem, Find, FindNone,
           CreatePage, Upload, Read, WritePage, Send, Ack, Refuse
  <1> QED
    BY <1>1, <1>2, <1>3, <1>4

\* Only an acknowledgement removes a row.
LEMMA RowsStay ==
  ASSUME TypeInv, [Next]_vars, NEW i \in 1 .. accepted', i \notin outbox'
  PROVE  /\ i \in 1 .. accepted
         /\ \/ i \notin outbox
            \/ \E d \in Deliverer : pc[d] = "ack" /\ item[d] = i
  <1>1. accepted \in Nat /\ MaxItems \in Nat
    BY OutboxBounds DEF TypeInv, TypeOK
  <1>2. CASE \E k \in Kinds : Enqueue(k)
    BY <1>1, <1>2 DEF Enqueue
  <1>3. CASE accepted' = accepted /\ outbox' = outbox
    BY <1>3
  <1>4. CASE \E d \in Deliverer : Ack(d)
    BY <1>4 DEF Ack, Queue
  <1>5. \/ \E k \in Kinds : Enqueue(k)
        \/ accepted' = accepted /\ outbox' = outbox
        \/ \E d \in Deliverer : Ack(d)
    BY LaneDelivers
    DEF Next, LaneStep, DeliverStep, vars, Queue, remote, local, Submit, QueueLog, Fail,
        FlushAborts, Crash, Edit, StartFlush, EndFlush, NextItem, Find, FindNone,
        CreatePage, Upload, Read, WritePage, Send, Refuse
  <1> QED
    BY <1>2, <1>3, <1>4, <1>5

\* Writes count; nothing else touches the count.
LEMMA ReachedGrows ==
  ASSUME TypeInv, [Next]_vars
  PROVE  \/ reached' = reached
         \/ \E d \in Deliverer :
               /\ item[d] \in 1 .. accepted
               /\ item[d] \in Item
               /\ reached' = [reached EXCEPT ![item[d]] = @ + 1]
  <1>1. \A d \in Deliverer : Busy(d) => item[d] \in 1 .. accepted /\ item[d] \in Item
    BY ItemInHand
  <1>2. ASSUME NEW d \in Deliverer,
               (\E p \in Pages : CreatePage(d, p)) \/ WritePage(d) \/ Send(d)
        PROVE  \/ reached' = reached
               \/ Busy(d) /\ reached' = [reached EXCEPT ![item[d]] = @ + 1]
    BY <1>2 DEF CreatePage, WritePage, Send, Busy
  <1>3. \/ reached' = reached
        \/ \E d \in Deliverer :
              (\E p \in Pages : CreatePage(d, p)) \/ WritePage(d) \/ Send(d)
    BY LaneDelivers
    DEF Next, LaneStep, DeliverStep, vars, Queue, remote, local, Submit, QueueLog, Fail,
        FlushAborts, Crash, Edit, StartFlush, EndFlush, NextItem, Find, FindNone,
        Upload, Read, Ack, Refuse
  <1> QED
    BY <1>1, <1>2, <1>3

LEMMA ReachedIsMonotone ==
  ASSUME TypeInv, [Next]_vars, NEW i \in Item
  PROVE  reached'[i] >= reached[i] /\ reached[i] \in Nat /\ reached'[i] \in Nat
  <1>1. reached \in [Item -> Nat]
    BY DEF TypeInv, TypeOK
  <1> QED
    BY <1>1, ReachedGrows

-----------------------------------------------------------------------------
(* Nothing is dropped: a row that is acknowledged, a line that is read and *)
(* a line that is copied were written before.                              *)

WritesAreReal ==
    /\ \A i \in Item : i > accepted => reached[i] = 0
    /\ \A d \in Deliverer : pc[d] = "ack" => reached[item[d]] > 0
    /\ \A p \in Pages, i \in Item : page[p] \in Content /\ page[p][i] > 0 => reached[i] > 0
    /\ \A d \in Deliverer, i \in Item : copy[d][i] > 0 => reached[i] > 0
    /\ NothingIsDropped

LEMMA RealInit == Init => WritesAreReal
  <1> SUFFICES ASSUME Init PROVE WritesAreReal
    OBVIOUS
  <1>1. \A i \in Item : i \in Line
    BY DEF Line
  <1>2. \A p \in Pages : page[p] \notin Content
    BY NoneIsNoContent DEF Init
  <1>3. \A d \in Deliverer, i \in Item : copy[d][i] = 0
    BY <1>1, EmptyIsContent DEF Init
  <1>4. 1 .. accepted = {}
    BY DEF Init
  <1> QED
    BY <1>2, <1>3, <1>4 DEF Init, WritesAreReal, NothingIsDropped

\* What the pages hold after a step was in them, was in a copy or is the item
\* just written.
LEMMA PagesChange ==
  ASSUME TypeInv, [Next]_vars, NEW p \in Pages, page'[p] \in Content, NEW i \in Item,
         page'[p][i] > 0
  PROVE  \/ page[p] \in Content /\ page[p][i] > 0
         \/ \E d \in Deliverer : copy[d][i] > 0
         \/ \E d \in Deliverer : item[d] = i /\ reached' = [reached EXCEPT ![i] = @ + 1]
  <1>i. i \in Line /\ i # Author /\ Author \in Line
    BY OutboxBounds DEF Line, Item, Author
  <1>1. CASE page' = page
    BY <1>1
  <1>2. ASSUME NEW d \in Deliverer, NEW q \in Pages, CreatePage(d, q)
        PROVE  \/ page[p] \in Content /\ page[p][i] > 0
               \/ item[d] = i /\ reached' = [reached EXCEPT ![i] = @ + 1]
    <2>1. item[d] \in Line
      BY <1>2, ItemInHand DEF CreatePage, Busy
    <2>2. item[d] # i => Appended(Empty, item[d])[i] = 0
      BY <1>i, <2>1, EmptyIsContent, AppendedIsContent
    <2>3. page \in [Pages -> Content \cup {None}]
      BY DEF TypeInv, TypeOK
    <2>4. CASE p # q
      BY <1>2, <2>3, <2>4 DEF CreatePage
    <2>5. CASE p = q
      BY <1>2, <1>i, <2>2, <2>3, <2>5, EmptyIsContent DEF CreatePage
    <2> QED
      BY <2>4, <2>5
  <1>3. ASSUME NEW d \in Deliverer, WritePage(d)
        PROVE  \/ page[p] \in Content /\ page[p][i] > 0
               \/ copy[d][i] > 0
               \/ item[d] = i /\ reached' = [reached EXCEPT ![i] = @ + 1]
    <2>1. item[d] \in Line
      BY <1>3, ItemInHand DEF WritePage, Busy
    <2>2. item[d] # i => Appended(copy[d], item[d])[i] = copy[d][i]
      BY <1>i, <2>1, AppendedIsContent DEF TypeInv, TypeOK
    <2>3. page \in [Pages -> Content \cup {None}]
      BY DEF TypeInv, TypeOK
    <2> QED
      BY <1>3, <2>2, <2>3 DEF WritePage
  <1>4. ASSUME NEW q \in Pages, Edit(q)
        PROVE  page[p] \in Content /\ page[p][i] > 0
    <2>1. page \in [Pages -> Content \cup {None}]
      BY DEF TypeInv, TypeOK
    <2>2. CASE p # q
      BY <1>4, <2>1, <2>2 DEF Edit
    <2>3. CASE p = q /\ page[q] = None
      BY <1>4, <1>i, <2>1, <2>3, EmptyIsContent, AppendedIsContent DEF Edit
    <2>4. CASE p = q /\ page[q] # None
      <3>1. page[q] \in Content /\ page'[p] = Appended(page[q], Author)
        BY <1>4, <2>1, <2>4 DEF Edit
      <3> QED
        BY <1>i, <2>4, <3>1, AppendedIsContent
    <2> QED
      BY <2>2, <2>3, <2>4
  <1>5. \/ page' = page
        \/ \E d \in Deliverer, q \in Pages : CreatePage(d, q)
        \/ \E d \in Deliverer : WritePage(d)
        \/ \E q \in Pages : Edit(q)
    BY LaneDelivers
    DEF Next, LaneStep, DeliverStep, vars, Queue, remote, local, Submit, QueueLog, Fail,
        FlushAborts, Crash, StartFlush, EndFlush, NextItem, Find, FindNone,
        Upload, Read, Send, Ack, Refuse
  <1> QED
    BY <1>1, <1>2, <1>3, <1>4, <1>5

\* A copy is a copy of a page.
LEMMA CopiesChange ==
  ASSUME TypeInv, [Next]_vars, NEW d \in Deliverer, NEW i \in Item, copy'[d][i] > 0
  PROVE  \/ copy[d][i] > 0
         \/ \E p \in Pages : page[p] \in Content /\ page[p][i] > 0
  <1>i. i \in Line /\ Empty[i] = 0
    BY EmptyIsContent DEF Line
  <1>c. copy \in [Deliverer -> Content]
    BY DEF TypeInv, TypeOK
  <1>1. CASE copy' = copy
    BY <1>1
  <1>2. ASSUME NEW e \in Deliverer, Read(e)
        PROVE  copy[d][i] > 0 \/ \E p \in Pages : page[p] \in Content /\ page[p][i] > 0
    <2>1. at[e] \in Pages /\ page[at[e]] \in Content
      BY <1>2 DEF Read, TypeInv, PlaceOf
    <2> QED
      BY <1>2, <1>c, <2>1 DEF Read
  <1>3. ASSUME NEW e \in Deliverer, Leave(e)
        PROVE  copy[d][i] > 0
    BY <1>3, <1>c, <1>i DEF Leave
  <1>4. CASE Crash
    BY <1>4, <1>i DEF Crash
  <1>5. \/ copy' = copy
        \/ \E e \in Deliverer : Read(e)
        \/ \E e \in Deliverer : Leave(e)
        \/ Crash
    BY LaneDelivers
    DEF Next, LaneStep, DeliverStep, vars, Queue, remote, local, Submit, QueueLog, Fail,
        FlushAborts, Edit, StartFlush, EndFlush, NextItem, Find, FindNone, GoTo,
        CreatePage, Upload, WritePage, Send, Ack, Refuse
  <1> QED
    BY <1>1, <1>2, <1>3, <1>4, <1>5

\* A deliverer acknowledges what it has just written or found written.
LEMMA AckChange ==
  ASSUME TypeInv, [Next]_vars, NEW d \in Deliverer, pc'[d] = "ack"
  PROVE  /\ item'[d] = item[d] /\ Busy(d)
         /\ \/ pc[d] = "ack"
            \/ reached' = [reached EXCEPT ![item[d]] = @ + 1]
            \/ /\ at[d] \in Pages
               /\ page[at[d]] \in Content
               /\ page[at[d]][item[d]] > 0
  <1> DEFINE Goal ==
        /\ item'[d] = item[d] /\ Busy(d)
        /\ \/ pc[d] = "ack"
           \/ reached' = [reached EXCEPT ![item[d]] = @ + 1]
           \/ /\ at[d] \in Pages
              /\ page[at[d]] \in Content
              /\ page[at[d]][item[d]] > 0
  <1> USE DEF Queue, remote, local
  <1>t. DOMAIN pc = Deliverer /\ DOMAIN item = Deliverer
    BY DEF TypeInv, TypeOK
  <1>1. ASSUME NEW e \in Deliverer, DeliverStep(e)
        PROVE  Goal
    <2>1. CASE e # d
      BY <1>1, <1>t, <2>1
      DEF DeliverStep, Find, FindNone, GoTo, CreatePage, Upload, Read, WritePage, Send, Ack,
          Refuse, Leave, Busy
    <2>2. CASE e = d /\ Read(d)
      <3>1. at[d] \in Pages /\ page[at[d]] \in Content
        BY <2>2 DEF Read, TypeInv, PlaceOf
      <3> QED
        BY <1>t, <2>2, <3>1 DEF Read, Already, Busy
    <2>3. CASE e = d /\ ~Read(d)
      BY <1>1, <1>t, <2>3
      DEF DeliverStep, Find, FindNone, GoTo, CreatePage, Upload, WritePage, Send, Ack,
          Refuse, Leave, Busy
    <2> QED
      BY <2>1, <2>2, <2>3
  <1>2. CASE pc' = pc /\ item' = item
    BY <1>2 DEF Busy
  <1>3. CASE StartFlush \/ EndFlush \/ FlushAborts \/ Crash
    BY <1>3, <1>t, LaneDelivers DEF StartFlush, EndFlush, FlushAborts, Crash, Busy
  <1>4. ASSUME NEW i \in Item, NextItem(i)
        PROVE  Goal
    <2>1. i \in 1 .. accepted /\ kind[i] \in Kinds
      BY <1>4, OutboxBounds DEF NextItem, TypeInv, TypeOK, Item
    <2>2. Step(kind[i]) # "ack"
      BY <2>1, OutboxNames DEF Step
    <2> QED
      BY <1>4, <1>t, <2>2, LaneDelivers DEF NextItem, Busy
  <1>5. ASSUME NEW r \in Requests, NEW k \in Kinds, Submit(r, k)
        PROVE  Goal
    <2>1. Step(k) # "ack"
      BY OutboxNames DEF Step
    <2> QED
      BY <1>5, <1>t, <2>1, LaneDelivers DEF Submit, Busy
  <1>6. ASSUME NEW e \in Deliverer, Fail(e)
        PROVE  Goal
    BY <1>6, <1>t DEF Fail, Leave, Busy
  <1> QED
    BY <1>1, <1>2, <1>3, <1>4, <1>5, <1>6, LaneDelivers
    DEF Next, LaneStep, vars, QueueLog, Edit

LEMMA RealStep == TypeInv /\ WritesAreReal /\ [Next]_vars => WritesAreReal'
  <1> SUFFICES ASSUME TypeInv, WritesAreReal, [Next]_vars PROVE WritesAreReal'
    OBVIOUS
  <1>m. \A i \in Item : reached'[i] >= reached[i] /\ reached[i] \in Nat /\ reached'[i] \in Nat
    BY ReachedIsMonotone
  <1>r. reached \in [Item -> Nat]
    BY DEF TypeInv, TypeOK
  <1>b. accepted \in Nat /\ MaxItems \in Nat /\ accepted <= MaxItems
    BY OutboxBounds DEF TypeInv, TypeOK
  <1>1. ASSUME NEW i \in Item, i > accepted' PROVE reached'[i] = 0
    <2>1. i > accepted /\ reached[i] = 0 /\ i \in Nat
      BY <1>1, KindsStay DEF WritesAreReal, Item
    <2>2. ASSUME NEW d \in Deliverer, item[d] \in 1 .. accepted
          PROVE  item[d] # i
      BY <1>b, <2>1, <2>2
    <2> QED
      BY <1>r, <2>1, <2>2, ReachedGrows
  <1>2. ASSUME NEW d \in Deliverer, pc'[d] = "ack" PROVE reached'[item'[d]] > 0
    <2>1. item'[d] = item[d] /\ item[d] \in Item
      BY <1>2, AckChange, ItemInHand
    <2>2. CASE pc[d] = "ack"
      BY <1>m, <2>1, <2>2 DEF WritesAreReal
    <2>3. CASE reached' = [reached EXCEPT ![item[d]] = @ + 1]
      BY <1>r, <2>1, <2>3
    <2>4. CASE at[d] \in Pages /\ page[at[d]] \in Content /\ page[at[d]][item[d]] > 0
      BY <1>m, <2>1, <2>4 DEF WritesAreReal
    <2> QED
      BY <1>2, <2>2, <2>3, <2>4, AckChange
  <1>3. ASSUME NEW p \in Pages, NEW i \in Item, page'[p] \in Content, page'[p][i] > 0
        PROVE  reached'[i] > 0
    <2>1. CASE reached[i] > 0
      BY <1>m, <2>1
    <2>2. CASE reached' = [reached EXCEPT ![i] = @ + 1]
      BY <1>r, <2>2
    <2> QED
      BY <1>3, <2>1, <2>2, PagesChange DEF WritesAreReal
  <1>4. ASSUME NEW d \in Deliverer, NEW i \in Item, copy'[d][i] > 0
        PROVE  reached'[i] > 0
    BY <1>4, <1>m, CopiesChange DEF WritesAreReal
  <1>5. ASSUME NEW i \in 1 .. accepted', i \notin outbox' PROVE reached'[i] > 0
    <2>1. i \in Item /\ reached[i] > 0
      BY <1>5, <1>b, RowsStay DEF WritesAreReal, NothingIsDropped, Item
    <2> QED
      BY <1>m, <2>1
  <1> QED
    BY <1>1, <1>2, <1>3, <1>4, <1>5 DEF WritesAreReal, NothingIsDropped

\* What was accepted is stored until its write has taken effect.
THEOREM NothingAcceptedIsDropped == Spec => []NothingIsDropped
  <1>1. WritesAreReal => NothingIsDropped
    BY DEF WritesAreReal
  <1> QED
    BY <1>1, TypeInit, TypeStep, RealInit, RealStep, PTL DEF Spec

-----------------------------------------------------------------------------
(* Lines.  As long as no page was written over and no second page was made *)
(* for the day, the pages only grow, there is one, and no line is written  *)
(* to it twice.                                                            *)

\* A deliverer's kind of item says which way it goes.
KindOf(d) ==
    /\ pc[d] = "send" => kind[item[d]] = "post"
    /\ pc[d] = "write" /\ kind[item[d]] = "log" => copy[d][item[d]] = 0

OnePage ==
    /\ \A p, q \in Pages : page[p] # None /\ page[q] # None => p = q
    /\ \A p \in Pages, i \in Item : page[p] # None /\ kind[i] = "log" => page[p][i] <= 1

Acknowledged ==
    \A d \in Deliverer :
        pc[d] = "ack" /\ kind[item[d]] \in {"log", "attach"} => Lines(item[d]) # {}

LinesInv ==
    /\ \A d \in Deliverer : KindOf(d)
    /\ \A p, q \in Pages : p < q /\ page[q] # None => page[p] # None
    /\ ~stale => OnePage /\ Acknowledged
    /\ LinesAreKept

LEMMA LinesInit == Init => LinesInv
  <1> SUFFICES ASSUME Init PROVE LinesInv
    OBVIOUS
  <1>1. 1 .. accepted = {}
    BY DEF Init
  <1> QED
    BY <1>1 DEF Init, LinesInv, KindOf, OnePage, Acknowledged, LinesAreKept

\* Pages grow unless one was written over.
LEMMA PagesGrow ==
  ASSUME TypeInv, [Next]_vars, ~stale', NEW p \in Pages, page[p] # None, NEW l \in Line
  PROVE  ~stale /\ page'[p] # None /\ page'[p][l] >= page[p][l]
  <1>c. page \in [Pages -> Content \cup {None}] /\ page[p] \in Content /\ page[p][l] \in Nat
    BY DEF TypeInv, TypeOK, Content
  <1>1. CASE page' = page /\ stale' = stale
    BY <1>1, <1>c
  <1>2. ASSUME NEW d \in Deliverer, NEW q \in Pages, CreatePage(d, q)
        PROVE  FALSE
    BY <1>2 DEF CreatePage
  <1>3. ASSUME NEW d \in Deliverer, WritePage(d)
        PROVE  ~stale /\ page'[p] # None /\ page'[p][l] >= page[p][l]
    <2>1. item[d] \in Line
      BY <1>3, ItemInHand DEF WritePage, Busy
    <2>2. ~stale /\ page[at[d]] = copy[d] /\ copy[d] \in Content
      BY <1>3 DEF WritePage, TypeInv, TypeOK
    <2>3. CASE at[d] = p
      <3>1. page'[p] = Appended(page[p], item[d])
        BY <1>3, <1>c, <2>2, <2>3 DEF WritePage
      <3> QED
        BY <1>c, <2>1, <2>2, <3>1, AppendedIsContent
    <2>4. CASE at[d] # p
      BY <1>3, <1>c, <2>2, <2>4 DEF WritePage
    <2> QED
      BY <2>3, <2>4
  <1>4. ASSUME NEW q \in Pages, Edit(q)
        PROVE  ~stale /\ page'[p] # None /\ page'[p][l] >= page[p][l]
    <2>1. Author \in Line /\ ~stale
      BY <1>4 DEF Author, Line, Edit
    <2>2. CASE q = p
      <3>1. page'[p] = Appended(page[p], Author)
        BY <1>4, <1>c, <2>2 DEF Edit
      <3> QED
        BY <1>c, <2>1, <3>1, AppendedIsContent
    <2>3. CASE q # p
      BY <1>4, <1>c, <2>1, <2>3 DEF Edit
    <2> QED
      BY <2>2, <2>3
  <1>5. \/ page' = page /\ stale' = stale
        \/ \E d \in Deliverer, q \in Pages : CreatePage(d, q)
        \/ \E d \in Deliverer : WritePage(d)
        \/ \E q \in Pages : Edit(q)
    BY LaneDelivers
    DEF Next, LaneStep, DeliverStep, vars, Queue, remote, local, Submit, QueueLog, Fail,
        FlushAborts, Crash, StartFlush, EndFlush, NextItem, Find, FindNone,
        Upload, Read, Send, Ack, Refuse
  <1> QED
    BY <1>1, <1>2, <1>3, <1>4, <1>5

\* No post is removed.
LEMMA PagesStay ==
  ASSUME TypeInv, [Next]_vars, NEW p \in Pages, page[p] # None
  PROVE  page'[p] # None
  <1>c. page \in [Pages -> Content \cup {None}] /\ page[p] \in Content
    BY DEF TypeInv, TypeOK
  <1>1. ASSUME NEW d \in Deliverer, NEW q \in Pages, CreatePage(d, q)
        PROVE  page'[p] # None
    BY <1>1, <1>c DEF CreatePage, NewPage
  <1>2. ASSUME NEW d \in Deliverer, WritePage(d)
        PROVE  page'[p] # None
    <2>1. item[d] \in Line /\ copy[d] \in Content
      BY <1>2, ItemInHand DEF WritePage, Busy, TypeInv, TypeOK
    <2>2. Appended(copy[d], item[d]) # None
      BY <2>1, AppendedIsContent
    <2> QED
      BY <1>2, <1>c, <2>2 DEF WritePage
  <1>3. ASSUME NEW q \in Pages, Edit(q)
        PROVE  page'[p] # None
    <2>1. (IF page[q] = None THEN Empty ELSE page[q]) \in Content /\ Author \in Line
      BY EmptyIsContent DEF TypeInv, TypeOK, Author, Line
    <2>2. Appended(IF page[q] = None THEN Empty ELSE page[q], Author) # None
      BY <2>1, AppendedIsContent
    <2> QED
      BY <1>3, <1>c, <2>2 DEF Edit
  <1>4. \/ page' = page
        \/ \E d \in Deliverer, q \in Pages : CreatePage(d, q)
        \/ \E d \in Deliverer : WritePage(d)
        \/ \E q \in Pages : Edit(q)
    BY LaneDelivers
    DEF Next, LaneStep, DeliverStep, vars, Queue, remote, local, Submit, QueueLog, Fail,
        FlushAborts, Crash, StartFlush, EndFlush, NextItem, Find, FindNone,
        Upload, Read, Send, Ack, Refuse
  <1> QED
    BY <1>1, <1>2, <1>3, <1>4

LEMMA LinesGrow ==
  ASSUME TypeInv, [Next]_vars, ~stale', NEW l \in Line, Lines(l) # {}
  PROVE  Lines(l)' # {}
  <1>1. PICK p \in Pages : page[p] # None /\ page[p][l] > 0
    BY DEF Lines
  <1>2. page[p][l] \in Nat
    BY <1>1 DEF TypeInv, TypeOK, Content
  <1>3. page'[p] # None /\ page'[p][l] >= page[p][l]
    BY <1>1, PagesGrow
  <1>4. page'[p] \in Content
    BY <1>3, TypeStep DEF TypeInv, TypeOK
  <1>5. page'[p][l] > 0
    BY <1>1, <1>2, <1>3, <1>4 DEF Content
  <1> QED
    BY <1>3, <1>5 DEF Lines

\* The step of a deliverer that comes to its acknowledgement.
LEMMA AckStep ==
  ASSUME TypeInv, [Next]_vars, NEW d \in Deliverer, pc'[d] = "ack"
  PROVE  \/ pc[d] = "ack"
         \/ \E p \in Pages : CreatePage(d, p)
         \/ Read(d)
         \/ WritePage(d)
         \/ Send(d)
  <1> USE DEF Queue, remote, local
  <1>t. DOMAIN pc = Deliverer
    BY DEF TypeInv, TypeOK
  <1>1. ASSUME NEW e \in Deliverer, DeliverStep(e), e # d
        PROVE  pc[d] = "ack"
    BY <1>1, <1>t
    DEF DeliverStep, Find, FindNone, GoTo, CreatePage, Upload, Read, WritePage, Send, Ack,
        Refuse, Leave
  <1>2. ASSUME DeliverStep(d)
        PROVE  (\E p \in Pages : CreatePage(d, p)) \/ Read(d) \/ WritePage(d) \/ Send(d)
    BY <1>2, <1>t DEF DeliverStep, Find, FindNone, GoTo, Upload, Ack, Refuse, Leave
  <1>3. CASE pc' = pc
    BY <1>3
  <1>4. CASE StartFlush \/ EndFlush \/ FlushAborts \/ Crash
    BY <1>4, <1>t, LaneDelivers DEF StartFlush, EndFlush, FlushAborts, Crash
  <1>5. ASSUME NEW i \in Item, NextItem(i)
        PROVE  pc[d] = "ack"
    <2>1. i \in 1 .. accepted /\ kind[i] \in Kinds
      BY <1>5, OutboxBounds DEF NextItem, TypeInv, TypeOK, Item
    <2>2. Step(kind[i]) # "ack"
      BY <2>1, OutboxNames DEF Step
    <2> QED
      BY <1>5, <1>t, <2>2, LaneDelivers DEF NextItem
  <1>6. ASSUME NEW r \in Requests, NEW k \in Kinds, Submit(r, k)
        PROVE  pc[d] = "ack"
    <2>1. Step(k) # "ack"
      BY OutboxNames DEF Step
    <2> QED
      BY <1>6, <1>t, <2>1, LaneDelivers DEF Submit
  <1>7. ASSUME NEW e \in Deliverer, Fail(e)
        PROVE  pc[d] = "ack"
    BY <1>7, <1>t DEF Fail, Leave
  <1> QED
    BY <1>1, <1>2, <1>3, <1>4, <1>5, <1>6, <1>7, LaneDelivers
    DEF Next, LaneStep, vars, QueueLog, Edit

\* What changes the pages, seen from one page.
LEMMA PagesBegin ==
  ASSUME TypeInv, [Next]_vars, NEW p \in Pages, page'[p] # None, page[p] = None
  PROVE  /\ NewPage(p)
         /\ \A q \in Pages : q # p => page'[q] = page[q]
         /\ (\E q \in Pages : page[q] # None) /\ ~stale' => p = 1
  <1> DEFINE Goal ==
        /\ NewPage(p)
        /\ \A q \in Pages : q # p => page'[q] = page[q]
        /\ (\E q \in Pages : page[q] # None) /\ ~stale' => p = 1
  <1>c. page \in [Pages -> Content \cup {None}]
    BY DEF TypeInv, TypeOK
  <1>1. ASSUME NEW d \in Deliverer, NEW q \in Pages, CreatePage(d, q)
        PROVE  Goal
    BY <1>1, <1>c DEF CreatePage
  <1>2. ASSUME NEW d \in Deliverer, WritePage(d)
        PROVE  FALSE
    BY <1>2, <1>c, NoneIsNoContent DEF WritePage, TypeInv, PlaceOf
  <1>3. ASSUME NEW q \in Pages, Edit(q)
        PROVE  Goal
    BY <1>3, <1>c DEF Edit
  <1>4. \/ page' = page
        \/ \E d \in Deliverer, q \in Pages : CreatePage(d, q)
        \/ \E d \in Deliverer : WritePage(d)
        \/ \E q \in Pages : Edit(q)
    BY LaneDelivers
    DEF Next, LaneStep, DeliverStep, vars, Queue, remote, local, Submit, QueueLog, Fail,
        FlushAborts, Crash, StartFlush, EndFlush, NextItem, Find, FindNone,
        Upload, Read, Send, Ack, Refuse
  <1> QED
    BY <1>1, <1>2, <1>3, <1>4

LEMMA KindStep ==
  ASSUME TypeInv, LinesInv, [Next]_vars, NEW d \in Deliverer
  PROVE  KindOf(d)'
  <1> USE DEF Queue, remote, local
  <1>t. DOMAIN pc = Deliverer /\ DOMAIN item = Deliverer /\ DOMAIN copy = Deliverer
    BY DEF TypeInv, TypeOK
  <1>k. KindOf(d)
    BY DEF LinesInv
  <1>i. Busy(d) => kind'[item[d]] = kind[item[d]]
    BY KindsStay, ItemInHand
  <1>1. CASE pc'[d] = pc[d] /\ item'[d] = item[d] /\ copy'[d] = copy[d]
    BY <1>1, <1>i, <1>k DEF KindOf, Busy
  <1>2. CASE pc'[d] \notin {"send", "write"}
    BY <1>2 DEF KindOf
  <1>3. CASE Read(d)
    <2>1. at[d] \in Pages /\ page[at[d]] \in Content /\ item[d] \in Line /\ Busy(d)
      BY <1>3, ItemInHand DEF Read, TypeInv, PlaceOf, Busy
    <2>2. copy'[d] = page[at[d]] /\ page[at[d]][item[d]] \in Nat
      BY <1>3, <1>t, <2>1 DEF Read, Content
    <2> QED
      BY <1>3, <1>i, <1>t, <2>1, <2>2 DEF Read, KindOf, Already
  <1>4. ASSUME NEW i \in Item, NextItem(i)
        PROVE  KindOf(d)'
    <2>1. i \in 1 .. accepted /\ kind[i] \in Kinds
      BY <1>4, OutboxBounds DEF NextItem, TypeInv, TypeOK, Item
    <2>2. Step(kind[i]) # "write" /\ (Step(kind[i]) = "send" => kind[i] = "post")
      BY <2>1, OutboxNames DEF Step
    <2> QED
      BY <1>1, <1>4, <1>t, <2>2, LaneDelivers DEF NextItem, KindOf
  <1>5. ASSUME NEW r \in Requests, NEW k \in Kinds, Submit(r, k)
        PROVE  KindOf(d)'
    <2>1. Step(k) # "write" /\ (Step(k) = "send" => k = "post")
      BY OutboxNames DEF Step
    <2>2. kind'[accepted + 1] = k
      BY <1>5, OutboxBounds DEF Submit, Enqueue, TypeInv, TypeOK, Item
    <2> QED
      BY <1>1, <1>5, <1>t, <2>1, <2>2, LaneDelivers DEF Submit, KindOf
  <1>6. ASSUME NEW e \in Deliverer, DeliverStep(e), ~Read(d)
        PROVE  KindOf(d)'
    <2>1. CASE e # d
      BY <1>1, <1>6, <1>t, <2>1
      DEF DeliverStep, Find, FindNone, GoTo, CreatePage, Upload, Read, WritePage, Send, Ack,
          Refuse, Leave
    <2>2. CASE e = d
      BY <1>2, <1>6, <1>t, <2>2
      DEF DeliverStep, Find, FindNone, GoTo, CreatePage, Upload, WritePage, Send, Ack,
          Refuse, Leave
    <2> QED
      BY <2>1, <2>2
  <1>7. ASSUME NEW e \in Deliverer, Fail(e)
        PROVE  KindOf(d)'
    BY <1>1, <1>2, <1>7, <1>t DEF Fail, Leave
  <1>8. CASE StartFlush \/ EndFlush \/ FlushAborts \/ Crash
    BY <1>1, <1>2, <1>8, <1>t, LaneDelivers DEF StartFlush, EndFlush, FlushAborts, Crash
  <1>9. CASE pc' = pc /\ item' = item /\ copy' = copy
    BY <1>1, <1>9
  <1> QED
    BY <1>3, <1>4, <1>5, <1>6, <1>7, <1>8, <1>9, LaneDelivers
    DEF Next, LaneStep, vars, QueueLog, Edit

\* The day has one page, and a diary line is on it once.
LEMMA OnePageStep ==
  ASSUME TypeInv, WritesAreReal, LinesInv, [Next]_vars, ~stale'
  PROVE  OnePage'
  <1>c. page \in [Pages -> Content \cup {None}]
    BY DEF TypeInv, TypeOK
  <1>1. ASSUME NEW p \in Pages, NEW q \in Pages, page'[p] # None, page'[q] # None, page[p] = None,
               p # q
        PROVE  FALSE
    <2>1. NewPage(p) /\ page[q] # None
      BY <1>1, PagesBegin
    <2>2. p = 1
      BY <1>1, <2>1, PagesBegin
    <2>3. p < q
      BY <1>1, <2>2, OutboxBounds DEF Pages
    <2> QED
      BY <1>1, <2>1, <2>3 DEF LinesInv
  <1>2. ASSUME NEW p \in Pages, NEW q \in Pages, page'[p] # None, page'[q] # None
        PROVE  p = q
    <2>1. CASE page[p] # None /\ page[q] # None
      <3>1. ~stale
        BY <2>1, PagesGrow, EmptyIsContent DEF Author, Line
      <3> QED
        BY <2>1, <3>1 DEF LinesInv, OnePage
    <2> QED
      BY <1>1, <1>2, <2>1
  <1>3. ASSUME NEW p \in Pages, NEW i \in Item, page'[p] # None, kind'[i] = "log"
        PROVE  page'[p][i] <= 1
    <2>i. i \in Line /\ Author \in Line /\ Author # i /\ i \in Nat
      BY OutboxBounds DEF Line, Item, Author
    <2>o. page[p] # None => page[p] \in Content /\ page[p][i] \in Nat /\ page[p][i] <= 1
      <3>1. CASE i > accepted /\ page[p] # None
        <4>1. page[p] \in Content /\ page[p][i] \in Nat
          BY <1>c, <2>i, <3>1 DEF Content
        <4> QED
          BY <3>1, <4>1 DEF WritesAreReal
      <3>2. CASE ~(i > accepted) /\ page[p] # None
        <4>1. kind[i] = "log"
          BY <1>3, <2>i, <3>2, KindsStay DEF Item
        <4>2. ~stale
          BY <2>i, <3>2, PagesGrow
        <4> QED
          BY <1>c, <2>i, <3>2, <4>1, <4>2 DEF LinesInv, OnePage, Content
      <3> QED
        BY <3>1, <3>2
    <2>1. ASSUME NEW d \in Deliverer, NEW q \in Pages, CreatePage(d, q)
          PROVE  page'[p][i] <= 1
      <3>1. item[d] \in Line
        BY <2>1, ItemInHand DEF CreatePage, Busy
      <3>2. Appended(Empty, item[d])[i] <= 1 /\ Empty[i] <= 1
        <4>1. Empty[i] = 0 /\ Empty \in Content
          BY <2>i, EmptyIsContent
        <4>2. CASE i = item[d]
          BY <2>i, <4>1, <4>2, AppendedIsContent
        <4>3. CASE i # item[d]
          <5>1. Appended(Empty, item[d])[i] = Empty[i]
            BY <2>i, <3>1, <4>1, <4>3, AppendedIsContent
          <5> QED
            BY <4>1, <5>1
        <4> QED
          BY <4>2, <4>3
      <3> QED
        BY <1>3, <1>c, <2>o, <2>1, <3>2 DEF CreatePage
    <2>2. ASSUME NEW d \in Deliverer, WritePage(d)
          PROVE  page'[p][i] <= 1
      <3>1. item[d] \in Line /\ item[d] \in 1 .. accepted
        BY <2>2, ItemInHand DEF WritePage, Busy
      <3>2. page[at[d]] = copy[d] /\ copy[d] \in Content
        BY <2>2 DEF WritePage, TypeInv, TypeOK
      <3>3. CASE p # at[d]
        BY <1>3, <1>c, <2>o, <2>2, <3>3 DEF WritePage
      <3>4. CASE p = at[d] /\ i # item[d]
        <4>1. Appended(copy[d], item[d])[i] = copy[d][i]
          BY <2>i, <3>1, <3>2, <3>4, AppendedIsContent
        <4>2. page'[p] = Appended(copy[d], item[d])
          BY <1>c, <2>2, <3>4 DEF WritePage
        <4>3. page[p] = copy[d] /\ page[p] # None
          BY <3>2, <3>4, NoneIsNoContent
        <4> QED
          BY <2>o, <4>1, <4>2, <4>3
      <3>5. CASE p = at[d] /\ i = item[d]
        <4>1. kind[i] = "log"
          BY <1>3, <3>1, <3>5, KindsStay
        <4>2. copy[d][i] = 0
          BY <2>2, <3>5, <4>1 DEF LinesInv, KindOf, WritePage
        <4> QED
          BY <1>c, <2>i, <2>2, <3>1, <3>2, <3>5, <4>2, AppendedIsContent DEF WritePage
      <3> QED
        BY <3>3, <3>4, <3>5
    <2>3. ASSUME NEW q \in Pages, Edit(q)
          PROVE  page'[p][i] <= 1
      <3>1. CASE p # q
        BY <1>3, <1>c, <2>o, <2>3, <3>1 DEF Edit
      <3>2. CASE p = q /\ page[p] = None
        BY <1>c, <2>i, <2>3, <3>2, EmptyIsContent, AppendedIsContent DEF Edit
      <3>3. CASE p = q /\ page[p] # None
        <4>1. page'[p] = Appended(page[p], Author)
          BY <1>c, <2>3, <3>3 DEF Edit
        <4> QED
          BY <2>i, <2>o, <3>3, <4>1, AppendedIsContent
      <3> QED
        BY <3>1, <3>2, <3>3
    <2>4. \/ page' = page
          \/ \E d \in Deliverer, q \in Pages : CreatePage(d, q)
          \/ \E d \in Deliverer : WritePage(d)
          \/ \E q \in Pages : Edit(q)
      BY LaneDelivers
      DEF Next, LaneStep, DeliverStep, vars, Queue, remote, local, Submit, QueueLog, Fail,
          FlushAborts, Crash, StartFlush, EndFlush, NextItem, Find, FindNone,
          Upload, Read, Send, Ack, Refuse
    <2> QED
      BY <1>3, <2>o, <2>1, <2>2, <2>3, <2>4
  <1> QED
    BY <1>2, <1>3 DEF OnePage

LEMMA AcknowledgedStep ==
  ASSUME TypeInv, LinesInv, [Next]_vars, ~stale'
  PROVE  Acknowledged'
  <1> SUFFICES ASSUME NEW d \in Deliverer, pc'[d] = "ack",
                      kind'[item'[d]] \in {"log", "attach"}
               PROVE  Lines(item[d])' # {}
    BY AckChange DEF Acknowledged
  <1>i. /\ item'[d] = item[d] /\ item[d] \in Line
        /\ kind[item[d]] \in {"log", "attach"}
    BY AckChange, ItemInHand, KindsStay
  <1>c. page \in [Pages -> Content \cup {None}]
    BY DEF TypeInv, TypeOK
  <1>1. CASE pc[d] = "ack" /\ ~stale
    <2>1. Lines(item[d]) # {}
      BY <1>1, <1>i DEF LinesInv, Acknowledged
    <2> QED
      BY <1>i, <2>1, LinesGrow
  <1>2. ASSUME NEW p \in Pages, CreatePage(d, p)
        PROVE  Lines(item[d])' # {}
    <2>1. Appended(Empty, item[d]) # None /\ Appended(Empty, item[d])[item[d]] > 0
      BY <1>i, EmptyIsContent, AppendedIsContent
    <2>2. pc'[d] = "ack" => page'[p] = Appended(Empty, item[d])
      BY <1>2, <1>c DEF CreatePage, TypeInv, TypeOK
    <2> QED
      BY <1>i, <2>1, <2>2 DEF Lines
  <1>3. CASE Read(d)
    <2>1. at[d] \in Pages /\ page[at[d]] # None /\ page[at[d]][item[d]] > 0
      <3>1. at[d] \in Pages /\ page[at[d]] \in Content
        BY <1>3 DEF Read, TypeInv, PlaceOf
      <3>2. Already(item[d], page[at[d]])
        BY <1>3 DEF Read, TypeInv, TypeOK
      <3> QED
        BY <3>1, <3>2, NoneIsNoContent DEF Already
    <2> QED
      BY <1>i, <2>1, LinesGrow DEF Lines
  <1>4. CASE WritePage(d)
    <2>1. at[d] \in Pages /\ copy[d] \in Content
      BY <1>4 DEF WritePage, TypeInv, TypeOK, PlaceOf
    <2>2. /\ Appended(copy[d], item[d]) # None
          /\ Appended(copy[d], item[d])[item[d]] > 0
      BY <1>i, <2>1, AppendedIsContent DEF Content
    <2>3. page'[at[d]] = Appended(copy[d], item[d])
      BY <1>4, <1>c, <2>1 DEF WritePage
    <2> QED
      BY <1>i, <2>1, <2>2, <2>3 DEF Lines
  <1>5. CASE Send(d)
    BY <1>5, <1>i DEF Send, LinesInv, KindOf
  <1>6. CASE pc[d] = "ack" /\ stale
    BY <1>6, LaneDelivers
    DEF Next, LaneStep, DeliverStep, vars, Queue, remote, local, Submit, QueueLog, Fail,
        FlushAborts, Crash, StartFlush, EndFlush, NextItem, Find, FindNone, CreatePage,
        Upload, Read, WritePage, Send, Ack, Refuse, Edit
  <1> QED
    BY <1>1, <1>2, <1>3, <1>4, <1>5, <1>6, AckStep

LEMMA LinesStep == TypeInv /\ WritesAreReal /\ LinesInv /\ [Next]_vars => LinesInv'
  <1> SUFFICES ASSUME TypeInv, WritesAreReal, LinesInv, [Next]_vars PROVE LinesInv'
    OBVIOUS
  <1>s. ~stale' => ~stale
    BY LaneDelivers
    DEF Next, LaneStep, DeliverStep, vars, Queue, remote, local, Submit, QueueLog, Fail,
        FlushAborts, Crash, StartFlush, EndFlush, NextItem, Find, FindNone, CreatePage,
        Upload, Read, WritePage, Send, Ack, Refuse, Edit
  <1>1. \A d \in Deliverer : KindOf(d)'
    BY KindStep
  <1>2. ASSUME NEW p \in Pages, NEW q \in Pages, p < q, page'[q] # None
        PROVE  page'[p] # None
    <2>1. page[p] # None => page'[p] # None
      BY PagesStay
    <2>2. CASE page[q] # None
      BY <1>2, <2>1, <2>2 DEF LinesInv
    <2>3. CASE page[q] = None
      BY <1>2, <2>3, PagesBegin DEF NewPage
    <2> QED
      BY <2>2, <2>3
  <1>3. ~stale' => OnePage' /\ Acknowledged'
    BY OnePageStep, AcknowledgedStep
  <1>4. ASSUME ~stale', NEW i \in 1 .. accepted', kind'[i] \in {"log", "attach"},
               i \notin outbox'
        PROVE  Lines(i)' # {}
    <2>1. /\ i \in 1 .. accepted /\ kind[i] \in {"log", "attach"} /\ i \in Line
          /\ i \notin outbox \/ \E d \in Deliverer : pc[d] = "ack" /\ item[d] = i
      <3>1. accepted \in Nat /\ MaxItems \in Nat /\ accepted <= MaxItems
        BY OutboxBounds DEF TypeInv, TypeOK
      <3> QED
        BY <1>4, <3>1, RowsStay, KindsStay DEF Line, Item
    <2>2. Lines(i) # {}
      BY <1>s, <1>4, <2>1 DEF LinesInv, LinesAreKept, Acknowledged
    <2> QED
      BY <1>4, <2>1, <2>2, LinesGrow
  <1>5. ASSUME ~stale', edited'
        PROVE  Lines(Author)' # {}
    <2>1. Author \in Line /\ ~stale
      BY <1>s, <1>5 DEF Author, Line
    <2>2. CASE edited
      BY <1>5, <2>1, <2>2, LinesGrow DEF LinesInv, LinesAreKept
    <2>3. CASE ~edited
      <3>1. PICK p \in Pages : Edit(p)
        BY <1>5, <2>3, LaneDelivers
        DEF Next, LaneStep, DeliverStep, vars, Queue, remote, local, Submit, QueueLog, Fail,
            FlushAborts, Crash, StartFlush, EndFlush, NextItem, Find, FindNone, CreatePage,
            Upload, Read, WritePage, Send, Ack, Refuse
      <3>2. (IF page[p] = None THEN Empty ELSE page[p]) \in Content
        BY EmptyIsContent DEF TypeInv, TypeOK
      <3> DEFINE old == IF page[p] = None THEN Empty ELSE page[p]
      <3>3. page'[p] = Appended(old, Author)
        BY <3>1 DEF Edit, TypeInv, TypeOK
      <3>4. old[Author] \in Nat
        BY <2>1, <3>2 DEF Content
      <3> HIDE DEF old
      <3>5. page'[p] # None /\ page'[p][Author] > 0
        BY <2>1, <3>2, <3>3, <3>4, AppendedIsContent DEF old
      <3> QED
        BY <3>5 DEF Lines
    <2> QED
      BY <2>2, <2>3
  <1> QED
    BY <1>1, <1>2, <1>3, <1>4, <1>5 DEF LinesInv, LinesAreKept

LEMMA SingleFollows == TypeInv /\ LinesInv => DiaryLinesAreSingle
  <1> SUFFICES ASSUME TypeInv, LinesInv, ~stale, NEW i \in Item, NEW p \in Pages,
                      kind[i] = "log", p \in Lines(i)
               PROVE  page[p][i] = 1 /\ Lines(i) = {p}
    BY DEF DiaryLinesAreSingle
  <1>1. page[p] # None /\ page[p][i] > 0 /\ page[p][i] <= 1
    BY DEF Lines, LinesInv, OnePage
  <1>2. page[p][i] \in Nat
    BY <1>1 DEF TypeInv, TypeOK, Content, Line
  <1>3. \A q \in Lines(i) : q = p
    BY <1>1 DEF Lines, LinesInv, OnePage
  <1> QED
    BY <1>1, <1>2, <1>3

\* Without a page written over, no line of the diary or of the author is lost.
THEOREM LinesStay == Spec => []LinesAreKept
  <1>1. LinesInv => LinesAreKept
    BY DEF LinesInv
  <1> QED
    BY <1>1, TypeInit, TypeStep, RealInit, RealStep, LinesInit, LinesStep, PTL DEF Spec

\* Without a page written over or a second page, retries leave one line.
THEOREM RetriesLeaveOneLine == Spec => []DiaryLinesAreSingle
  <1> QED
    BY SingleFollows, TypeInit, TypeStep, RealInit, RealStep, LinesInit, LinesStep, PTL DEF Spec

-----------------------------------------------------------------------------
(* Repeats.  For every item: the writes it had, and one for each party that *)
(* may still write it without a further cause, are no more than its causes. *)

\* A request, the flush under way, a flush to come.
Here(i)  == \E r \in Requests : item[r] = i /\ pc[r] # "ack"
There(i) == i \in todo \/ (item[Lane] = i /\ pc[Lane] # "ack")
Held(i)  == \E r \in Requests : item[r] = i
Free(i)  == i \in outbox /\ i \notin todo /\ item[Lane] # i /\ (Held(i) => i \in raced)

One(b) == IF b THEN 1 ELSE 0

CountOf(i) ==
    reached[i] + One(Here(i)) + One(There(i)) + One(Free(i)) <= 1 + setbacks + One(i \in raced)

CountInv ==
    /\ \A i \in Item : CountOf(i)
    /\ \A q, r \in Requests : item[q] = item[r] /\ item[q] # 0 => q = r
    /\ item[Lane] \notin todo
    /\ pc[Lane] = "idle" => todo = {}

LEMMA CountInit == Init => CountInv
  <1> SUFFICES ASSUME Init PROVE CountInv
    OBVIOUS
  <1>1. ASSUME NEW i \in Item PROVE CountOf(i)
    <2>1. i # 0
      BY OutboxBounds DEF Item
    <2>2. ~Here(i) /\ ~There(i) /\ ~Free(i) /\ reached[i] = 0 /\ setbacks = 0 /\ i \notin raced
      BY <2>1, LaneDelivers DEF Init, Here, There, Free, Deliverer
    <2> QED
      BY <2>2 DEF CountOf, One
  <1> QED
    BY <1>1, LaneDelivers DEF Init, CountInv

\* The tally of an item after a step that gives it no new writer,
LEMMA Tally ==
  ASSUME TypeInv, TypeInv', NEW i \in Item, CountOf(i),
         Here(i)' => Here(i), There(i)' => There(i), Free(i)' => Free(i),
         reached'[i] = reached[i], setbacks' = setbacks, i \in raced => i \in raced'
  PROVE  CountOf(i)'
  <1>1. reached[i] \in Nat /\ setbacks \in Nat
    BY OutboxBounds DEF TypeInv, TypeOK
  <1> QED
    BY <1>1 DEF CountOf, One

\* ... after a failure or a restart,
LEMMA TallySetback ==
  ASSUME TypeInv, TypeInv', NEW i \in Item, CountOf(i),
         Here(i)' => Here(i), There(i)' => There(i),
         reached'[i] = reached[i], setbacks' = setbacks + 1, raced' = raced
  PROVE  CountOf(i)'
  <1>1. reached[i] \in Nat /\ setbacks \in Nat
    BY OutboxBounds DEF TypeInv, TypeOK
  <1> QED
    BY <1>1 DEF CountOf, One

\* ... and after a step of a writer that writes it or gives it up.
LEMMA TallyTurn ==
  ASSUME TypeInv, TypeInv', NEW i \in Item, CountOf(i),
         \/ Here(i) /\ ~Here(i)' /\ (There(i)' => There(i))
         \/ There(i) /\ ~There(i)' /\ (Here(i)' => Here(i)),
         \/ reached'[i] = reached[i]
         \/ reached'[i] = reached[i] + 1 /\ (Free(i)' => Free(i)),
         setbacks' = setbacks, raced' = raced
  PROVE  CountOf(i)'
  <1>1. reached[i] \in Nat /\ setbacks \in Nat
    BY OutboxBounds DEF TypeInv, TypeOK
  <1> QED
    BY <1>1 DEF CountOf, One

\* A new item has one writer.
LEMMA TallyNew ==
  ASSUME TypeInv', NEW i \in Item,
         reached'[i] = 0, ~There(i)', ~Here(i)' \/ ~Free(i)'
  PROVE  CountOf(i)'
  <1>1. setbacks' \in Nat
    BY OutboxBounds DEF TypeInv, TypeOK
  <1>2. One(There(i))' = 0
    BY DEF One
  <1>3. One(Here(i))' + One(Free(i))' <= 1
    BY DEF One
  <1>4. One(Here(i))' \in Nat /\ One(Free(i))' \in Nat /\ One(i \in raced)' \in Nat
    BY DEF One
  <1> QED
    BY <1>1, <1>2, <1>3, <1>4 DEF CountOf

\* Delivering keeps the tally.
LEMMA CountDeliver ==
  ASSUME TypeInv, TypeInv', CountInv, NEW d \in Deliverer, DeliverStep(d)
  PROVE  CountInv'
  <1> USE DEF Queue, remote, local
  <1>t. DOMAIN pc = Deliverer /\ DOMAIN item = Deliverer /\ reached \in [Item -> Nat]
    BY DEF TypeInv, TypeOK
  <1>d. Lane \notin Requests /\ (d \in Requests \/ d = Lane) /\ Requests \subseteq Deliverer /\ Lane \in Deliverer
    BY OutboxNames DEF Deliverer
  <1>z. Busy(d)
    BY DEF DeliverStep, Find, FindNone, CreatePage, Upload, Read, WritePage, Send, Ack, Refuse, Busy
  <1>i. item[d] \in Item /\ item[d] # 0
    BY <1>z, ItemInHand, OutboxBounds DEF Item
  <1>s. setbacks' = setbacks /\ raced' = raced /\ todo' = todo
    BY DEF DeliverStep, Find, FindNone, CreatePage, Upload, Read, WritePage, Send, Ack, Refuse
  <1>e. \A e \in Deliverer : e # d => item'[e] = item[e] /\ pc'[e] = pc[e]
    BY <1>t DEF DeliverStep, Find, FindNone, GoTo, CreatePage, Upload, Read, WritePage, Send, Ack,
                Refuse, Leave
  <1>k. item'[d] = item[d] \/ item'[d] = 0
    BY <1>t DEF DeliverStep, Find, FindNone, GoTo, CreatePage, Upload, Read, WritePage, Send, Ack,
                Refuse, Leave
  <1>n. \A j \in Item : j # 0
    BY OutboxBounds DEF Item
  <1>o. \A j \in Item : (Held(j)' => Held(j)) /\ (j # item[d] => (Held(j) <=> Held(j)'))
    BY <1>d, <1>e, <1>k, <1>n DEF Held
  <1>1. ASSUME NEW j \in Item, j # item[d]
        PROVE  CountOf(j)'
    <2>1. (Here(j)' => Here(j)) /\ (There(j)' => There(j))
      BY <1>1, <1>d, <1>e, <1>k, <1>n, <1>s DEF Here, There
    <2>2. j \in outbox' <=> j \in outbox
      BY <1>1 DEF DeliverStep, Find, FindNone, CreatePage, Upload, Read, WritePage, Send, Ack,
                  Refuse
    <2>3. item[Lane] = j => item'[Lane] = j
      BY <1>1, <1>d, <1>e
    <2>4. Free(j)' => Free(j)
      BY <1>1, <1>o, <1>s, <2>2, <2>3 DEF Free
    <2>5. reached'[j] = reached[j]
      BY <1>1, <1>t DEF DeliverStep, Find, FindNone, CreatePage, Upload, Read, WritePage, Send,
                        Ack, Refuse
    <2> QED
      BY <1>s, <2>1, <2>4, <2>5, Tally DEF CountInv
  <1>2. ASSUME NEW i \in Item, i = item[d]
        PROVE  CountOf(i)'
    <2>t. item[d] = i /\ i # 0 /\ CountOf(i)
      BY <1>2, <1>i DEF CountInv
    <2>u. /\ d \in Requests => \A r \in Requests : r # d => item[r] # i
          /\ d = Lane => i \notin todo
      BY <1>2, <1>i DEF CountInv
    <2>1. CASE Find(d) \/ FindNone(d) \/ Upload(d) \/ Read(d)
      <3>1. item' = item /\ outbox' = outbox /\ reached' = reached /\ pc[d] # "ack"
        BY <2>1 DEF Find, FindNone, GoTo, Upload, Read
      <3>2. (Here(i)' => Here(i)) /\ (There(i)' => There(i)) /\ (Free(i)' => Free(i))
        BY <1>d, <1>e, <1>s, <3>1 DEF Here, There, Free, Held
      <3> QED
        BY <1>s, <2>t, <3>1, <3>2, Tally
    <2>2. CASE Ack(d)
      <3>1. i \notin outbox' /\ reached' = reached
        BY <2>2, <2>t DEF Ack
      <3>2. item'[d] = 0
        BY <1>t, <2>2 DEF Ack, Leave
      <3>3. (Here(i)' => Here(i)) /\ (There(i)' => There(i)) /\ ~Free(i)'
        BY <1>d, <1>e, <1>s, <2>t, <3>1, <3>2 DEF Here, There, Free
      <3> QED
        BY <1>s, <2>t, <3>1, <3>3, Tally
    <2>3. CASE Refuse(d)
      <3>1. item'[d] = 0 /\ reached' = reached /\ pc[d] # "ack"
        BY <1>t, <2>3 DEF Refuse, Leave
      <3>2. \/ Here(i) /\ ~Here(i)' /\ (There(i)' => There(i))
            \/ There(i) /\ ~There(i)' /\ (Here(i)' => Here(i))
        BY <1>d, <1>e, <1>s, <2>t, <2>u, <3>1 DEF Here, There
      <3> QED
        BY <1>s, <2>t, <3>1, <3>2, TallyTurn
    <2>4. ASSUME \/ \E p \in Pages : CreatePage(d, p)
                 \/ WritePage(d)
                 \/ Send(d),
                 pc'[d] = "ack"
          PROVE  CountOf(i)'
      <3>1. /\ item' = item /\ outbox' = outbox /\ pc[d] # "ack"
            /\ reached' = [reached EXCEPT ![i] = @ + 1]
        BY <1>t, <2>t, <2>4 DEF CreatePage, WritePage, Send, GoTo
      <3>2. \/ Here(i) /\ ~Here(i)' /\ (There(i)' => There(i))
            \/ There(i) /\ ~There(i)' /\ (Here(i)' => Here(i))
        BY <1>d, <1>e, <1>s, <2>4, <2>t, <2>u, <3>1 DEF Here, There
      <3>3. reached'[i] = reached[i] + 1 /\ (Free(i)' => Free(i))
        BY <1>s, <1>t, <2>t, <3>1 DEF Free, Held
      <3> QED
        BY <1>s, <2>t, <3>2, <3>3, TallyTurn
    <2>5. ASSUME NEW p \in Pages, CreatePage(d, p), pc'[d] # "ack"
          PROVE  CountOf(i)'
      <3>1. item' = item /\ outbox' = outbox /\ reached' = reached /\ pc[d] # "ack"
        BY <1>t, <2>5 DEF CreatePage
      <3>2. (Here(i)' => Here(i)) /\ (There(i)' => There(i)) /\ (Free(i)' => Free(i))
        BY <1>d, <1>e, <1>s, <3>1 DEF Here, There, Free, Held
      <3> QED
        BY <1>s, <2>t, <3>1, <3>2, Tally
    <2>6. WritePage(d) \/ Send(d) => pc'[d] = "ack"
      BY <1>t DEF WritePage, Send, GoTo
    <2> QED
      BY <2>1, <2>2, <2>3, <2>4, <2>5, <2>6 DEF DeliverStep
  <1>3. \A q, r \in Requests : item'[q] = item'[r] /\ item'[q] # 0 => q = r
    BY <1>d, <1>e, <1>k DEF CountInv
  <1>4. item'[Lane] \notin todo'
    <2>1. 0 \notin todo
      BY OutboxBounds DEF TypeInv, TypeOK
    <2> QED
      BY <1>d, <1>e, <1>k, <1>s, <2>1 DEF CountInv
  <1>5. pc'[Lane] = "idle" => todo' = {}
    <2>1. d = Lane => pc'[d] # "idle"
      BY <1>d, <1>t DEF DeliverStep, Find, FindNone, GoTo, CreatePage, Upload, Read, WritePage,
                        Send, Ack, Refuse, Leave
    <2> QED
      BY <1>d, <1>e, <1>s, <2>1 DEF CountInv
  <1> QED
    BY <1>1, <1>2, <1>3, <1>4, <1>5 DEF CountInv

\* A new item has no writes and no writer yet.
LEMMA NewItem ==
  ASSUME TypeInv, WritesAreReal, accepted < MaxItems
  PROVE  /\ accepted + 1 \in Item
         /\ accepted + 1 # 0
         /\ reached[accepted + 1] = 0
         /\ accepted + 1 \notin todo /\ accepted + 1 \notin raced
         /\ \A d \in Deliverer : item[d] # accepted + 1
  <1>1. accepted \in Nat /\ MaxItems \in Nat
    BY OutboxBounds DEF TypeInv, TypeOK
  <1>2. accepted + 1 \in Item /\ accepted + 1 > accepted
    BY <1>1 DEF Item
  <1> QED
    BY <1>1, <1>2 DEF TypeInv, TypeOK, WritesAreReal

\* The other steps keep the tally.
LEMMA CountQueue ==
  ASSUME TypeInv, TypeInv', WritesAreReal, CountInv,
         \/ StartFlush \/ EndFlush \/ FlushAborts \/ QueueLog \/ Crash
         \/ \E i \in Item : NextItem(i)
         \/ \E r \in Requests, k \in Kinds : Submit(r, k)
         \/ \E d \in Deliverer : Fail(d)
         \/ \E p \in Pages : Edit(p)
  PROVE  CountInv'
  <1> USE DEF Queue, remote, local
  <1>t. DOMAIN pc = Deliverer /\ DOMAIN item = Deliverer
    BY DEF TypeInv, TypeOK
  <1>d. Lane \notin Requests /\ Requests \subseteq Deliverer /\ Lane \in Deliverer
    BY OutboxNames DEF Deliverer
  <1>n. \A j \in Item : j # 0
    BY OutboxBounds DEF Item
  <1>0. 0 \notin todo /\ 0 \notin outbox
    BY OutboxBounds DEF TypeInv, TypeOK
  <1>1. CASE StartFlush
    <2>1. pc[Lane] = "idle" /\ item[Lane] = 0 /\ todo = {}
      BY <1>1, <1>d DEF StartFlush, CountInv, TypeInv, PlaceOf, Busy
    <2>2. item' = item /\ \A r \in Requests : pc'[r] = pc[r]
      BY <1>1, <1>d, <1>t DEF StartFlush
    <2>3. ASSUME NEW j \in Item
          PROVE  CountOf(j)'
      <3>1. (Here(j) <=> Here(j)') /\ ~There(j) /\ (There(j)' <=> j \in outbox) /\ ~Free(j)'
        BY <1>1, <1>n, <2>1, <2>2 DEF StartFlush, Here, There, Free
      <3>2. j \in outbox /\ ~Free(j) => j \in raced' /\ j \notin raced
        BY <1>1, <1>d, <1>n, <2>1 DEF StartFlush, Free, Held, TypeInv, PlaceOf, Busy
      <3>3. /\ j \in raced => j \in raced'
            /\ reached' = reached /\ setbacks' = setbacks
            /\ reached[j] \in Nat /\ setbacks \in Nat
        BY <1>1, OutboxBounds DEF StartFlush, TypeInv, TypeOK
      <3>4. CountOf(j)
        BY DEF CountInv
      <3> QED
        BY <3>1, <3>2, <3>3, <3>4 DEF CountOf, One
    <2>4. pc'[Lane] # "idle"
      BY <1>1, <1>d, <1>t DEF StartFlush
    <2> QED
      BY <1>1, <1>0, <2>1, <2>2, <2>3, <2>4 DEF StartFlush, CountInv
  <1>2. CASE EndFlush
    <2>1. /\ item' = item /\ outbox' = outbox /\ raced' = raced /\ todo' = todo /\ todo = {}
          /\ reached' = reached /\ setbacks' = setbacks
          /\ \A r \in Requests : pc'[r] = pc[r]
          /\ pc'[Lane] # "ack" /\ pc[Lane] # "ack"
      BY <1>2, <1>d, <1>t DEF EndFlush
    <2>2. ASSUME NEW j \in Item
          PROVE  CountOf(j)'
      <3>1. (Here(j)' => Here(j)) /\ (There(j)' => There(j)) /\ (Free(j)' => Free(j))
        BY <2>1 DEF Here, There, Free, Held
      <3> QED
        BY <2>1, <3>1, Tally DEF CountInv
    <2> QED
      BY <2>1, <2>2 DEF CountInv
  <1>3. ASSUME FlushAborts \/ Crash \/ \E d \in Deliverer : Fail(d)
        PROVE  CountInv'
    <2>1. setbacks' = setbacks + 1 /\ reached' = reached /\ raced' = raced /\ todo' \subseteq todo
      BY <1>3 DEF FlushAborts, Crash, Fail
    <2>2. ASSUME NEW d \in Deliverer
          PROVE  \/ item'[d] = 0
                 \/ item'[d] = item[d] /\ (pc[d] = "ack" => pc'[d] = "ack")
      BY <1>3, <1>d, <1>t DEF FlushAborts, Crash, Fail, Leave
    <2>3. ASSUME NEW j \in Item
          PROVE  CountOf(j)'
      <3>1. Here(j)' => Here(j)
        BY <1>d, <1>n, <2>2 DEF Here
      <3>2. There(j)' => There(j)
        BY <1>d, <1>n, <2>1, <2>2 DEF There
      <3> QED
        BY <2>1, <3>1, <3>2, TallySetback DEF CountInv
    <2>4. pc'[Lane] = "idle" => todo' = {}
      BY <1>3, <1>d, <1>t DEF FlushAborts, Crash, Fail, Leave, CountInv
    <2>5. item'[Lane] \notin todo'
      BY <1>0, <1>d, <2>1, <2>2 DEF CountInv
    <2>6. \A q, r \in Requests : item'[q] = item'[r] /\ item'[q] # 0 => q = r
      BY <1>d, <2>2 DEF CountInv
    <2> QED
      BY <2>3, <2>4, <2>5, <2>6 DEF CountInv
  <1>4. ASSUME NEW i \in Item, NextItem(i)
        PROVE  CountInv'
    <2>1. i \in 1 .. accepted /\ kind[i] \in Kinds
      BY <1>4, OutboxBounds DEF NextItem, TypeInv, TypeOK, Item
    <2>2. Step(kind[i]) \notin {"ack", "idle"}
      BY <2>1, OutboxNames DEF Step
    <2>3. item[Lane] = 0 /\ item'[Lane] = i /\ pc'[Lane] \notin {"ack", "idle"} /\ i \in todo
      BY <1>4, <1>d, <1>t, <2>2 DEF NextItem, TypeInv, PlaceOf, Busy
    <2>4. /\ \A r \in Requests : pc'[r] = pc[r] /\ item'[r] = item[r]
          /\ outbox' = outbox /\ todo' = todo \ {i} /\ raced' = raced
          /\ reached' = reached /\ setbacks' = setbacks
      BY <1>4, <1>d DEF NextItem
    <2>5. ASSUME NEW j \in Item
          PROVE  CountOf(j)'
      <3>1. (Here(j)' => Here(j)) /\ (There(j)' => There(j)) /\ (Free(j)' => Free(j))
        BY <1>n, <2>3, <2>4 DEF Here, There, Free, Held
      <3> QED
        BY <2>4, <3>1, Tally DEF CountInv
    <2> QED
      BY <2>3, <2>4, <2>5 DEF CountInv
  <1>5. ASSUME NEW k \in Kinds, QueueLog
        PROVE  CountInv'
    <2>1. /\ item' = item /\ pc' = pc /\ raced' = raced /\ todo' = todo
          /\ reached' = reached /\ setbacks' = setbacks
          /\ outbox' = outbox \cup {accepted + 1} /\ accepted < MaxItems
      BY <1>5 DEF QueueLog, Enqueue
    <2>2. ASSUME NEW j \in Item
          PROVE  CountOf(j)'
      <3>1. (Here(j)' <=> Here(j)) /\ (There(j)' <=> There(j))
        BY <2>1 DEF Here, There
      <3>2. CASE j # accepted + 1
        <4>1. Free(j)' => Free(j)
          BY <2>1, <3>2 DEF Free, Held
        <4> QED
          BY <2>1, <3>1, <4>1, Tally DEF CountInv
      <3>3. CASE j = accepted + 1
        <4>1. ~Here(j)' /\ ~There(j)' /\ reached'[j] = 0
          BY <1>d, <2>1, <3>1, <3>3, NewItem DEF Here, There
        <4> QED
          BY <4>1, TallyNew
      <3> QED
        BY <3>2, <3>3
    <2> QED
      BY <2>1, <2>2 DEF CountInv
  <1>6. ASSUME NEW r \in Requests, NEW k \in Kinds, Submit(r, k)
        PROVE  CountInv'
    <2>1. /\ raced' = raced /\ todo' = todo /\ reached' = reached /\ setbacks' = setbacks
          /\ outbox' = outbox \cup {accepted + 1} /\ accepted < MaxItems
      BY <1>6 DEF Submit, Enqueue
    <2>2. /\ item[r] = 0 /\ item'[r] = accepted + 1
          /\ \A d \in Deliverer : d # r => item'[d] = item[d] /\ pc'[d] = pc[d]
      BY <1>6, <1>d, <1>t DEF Submit, TypeInv, PlaceOf, Busy
    <2>3. ASSUME NEW j \in Item
          PROVE  CountOf(j)'
      <3>1. There(j)' => There(j)
        BY <1>d, <2>1, <2>2 DEF There
      <3>2. CASE j # accepted + 1
        <4>1. (Here(j)' => Here(j)) /\ (Held(j) => Held(j)')
          BY <1>d, <1>n, <2>2, <3>2 DEF Here, Held
        <4>2. Free(j)' => Free(j)
          BY <1>d, <2>1, <2>2, <3>2, <4>1 DEF Free
        <4> QED
          BY <2>1, <3>1, <4>1, <4>2, Tally DEF CountInv
      <3>3. CASE j = accepted + 1
        <4>1. Held(j)' /\ j \notin raced' /\ ~There(j) /\ reached'[j] = 0
          BY <1>d, <2>1, <2>2, <3>3, NewItem DEF Held, There
        <4>2. ~Free(j)'
          BY <4>1 DEF Free
        <4> QED
          BY <3>1, <4>1, <4>2, TallyNew
      <3> QED
        BY <3>2, <3>3
    <2>4. \A q, o \in Requests : item'[q] = item'[o] /\ item'[q] # 0 => q = o
      BY <1>d, <2>1, <2>2, NewItem DEF CountInv
    <2> QED
      BY <1>d, <2>1, <2>2, <2>3, <2>4 DEF CountInv
  <1>7. ASSUME NEW p \in Pages, Edit(p)
        PROVE  CountInv'
    BY <1>7 DEF Edit, CountInv, CountOf, Here, There, Free, Held
  <1>8. QueueLog => \E k \in Kinds : TRUE
    BY DEF QueueLog
  <1> QED
    BY <1>1, <1>2, <1>3, <1>4, <1>5, <1>6, <1>7, <1>8

LEMMA CountStep == TypeInv /\ WritesAreReal /\ CountInv /\ [Next]_vars => CountInv'
  <1> SUFFICES ASSUME TypeInv, WritesAreReal, CountInv, [Next]_vars PROVE CountInv'
    OBVIOUS
  <1>1. CASE UNCHANGED vars
    BY <1>1 DEF vars, remote, local, CountInv, CountOf, Here, There, Free, Held
  <1>2. TypeInv'
    BY TypeStep
  <1> QED
    BY <1>1, <1>2, CountDeliver, CountQueue, LaneDelivers DEF Next, LaneStep

LEMMA CountIsEnough == TypeInv /\ CountInv => RepeatsAreExcused
  <1> SUFFICES ASSUME TypeInv, CountInv, NEW i \in Item
               PROVE  reached[i] <= 1 + setbacks + (IF i \in raced THEN 1 ELSE 0)
    BY DEF RepeatsAreExcused
  <1>1. CountOf(i) /\ reached[i] \in Nat /\ setbacks \in Nat
    BY OutboxBounds DEF CountInv, TypeInv, TypeOK
  <1> QED
    BY <1>1 DEF CountOf, One

\* An item is written again only after a failure or a restart, and once when a
\* flush lists what a request delivers, however many requests there are.
THEOREM WritesHaveCauses == Spec => []RepeatsAreExcused
  <1> QED
    BY CountIsEnough, TypeInit, TypeStep, RealInit, RealStep, CountInit, CountStep, PTL DEF Spec
=============================================================================
