------------------------- MODULE WorkLifecycleProofs -------------------------
(***************************************************************************)
(* Proofs about WorkLifecycle, for any Tasks, intervals and requests.      *)
(***************************************************************************)
EXTENDS WorkLifecycle, TLAPS

USE DEF history

(***************************************************************************)
(* The inductive invariant.  A busy request names a Task; one that is past *)
(* its VEVENT write, or undoes it, names the interval it wrote.            *)
(***************************************************************************)
AssignedRequest(q) ==
    /\ q.pc # "idle" => q.task \in Task
    /\ q.pc \in {"closing", "deleting", "forgetting"}
            => q.op \notin {"start", "resume"}
    /\ q.pc \in {"putting", "compensating"} => q.op # "resume"
    /\ q.pc \in {"history", "opening"} => q.op \in {"start", "resume"}
    /\ q.pc \in {"putting", "publishing"} /\ q.op \in {"start", "resume"}
            => q.seg \in Segment

Assigned == \A r \in Request : AssignedRequest(req[r])

TypeInv == TypeOK /\ Assigned

(***************************************************************************)
(* Facts about the operators the actions are built from.                   *)
(***************************************************************************)
LEMMA IdleIsRequest == IdleRequest \in RequestState
  BY DEF IdleRequest, RequestState, PC, AllOperations, Status

\* The records a request becomes when it reads the open intervals, opens one, or is
\* confirmed.
LEMMA ReadOpenType ==
  ASSUME NEW q \in RequestState
  PROVE  [q EXCEPT !.open = OpenSegments, !.reads = q.reads \cup {"open"}]
            \in RequestState
<1>1. OpenSegments \in SUBSET Segment
  BY DEF OpenSegments
<1>2. QED
  BY <1>1 DEF RequestState

LEMMA OpenSegmentType ==
  ASSUME NEW q \in RequestState, NEW s \in Segment
  PROVE  [q EXCEPT !.seg = s, !.pc = IF q.op = "start"
                                     THEN "putting" ELSE "publishing"]
            \in RequestState
<1>1. (IF q.op = "start" THEN "putting" ELSE "publishing") \in PC
  BY DEF PC
<1>2. QED
  BY <1>1 DEF RequestState

LEMMA ConfirmType ==
  ASSUME NEW q \in RequestState
  PROVE  [q EXCEPT !.pc = "reading", !.op = "delete"] \in RequestState
<1>1. "reading" \in PC /\ "delete" \in AllOperations
  BY DEF PC, AllOperations
<1>2. QED
  BY <1>1 DEF RequestState

\* The owner of the only open interval is a Task only when there is one.
LEMMA CurrentTaskRange ==
  ASSUME TypeOK, NEW S \in SUBSET Segment
  PROVE  /\ CurrentTask(S) \in Task \cup {None, Ambiguous}
         /\ CurrentTask(S) \in Task => (CHOOSE s \in S : TRUE) \in S
<1>1. CASE S = {}
  BY <1>1, ConstantsAssumption DEF CurrentTask
<1>2. CASE S # {}
  <2>1. (CHOOSE s \in S : TRUE) \in S
    BY <1>2
  <2>2. owner[CHOOSE s \in S : TRUE] \in Task \cup {None}
    BY <2>1 DEF TypeOK
  <2>3. QED
    BY <1>2, <2>1, <2>2 DEF CurrentTask
<1>3. QED
  BY <1>1, <1>2

\* What follows a failed Task write is a compensation of the same request or the
\* end of it.
LEMMA AfterFailedPutType ==
  ASSUME NEW q \in RequestState, q.pc = "putting"
  PROVE  /\ AfterFailedPut(q) \in RequestState
         /\ AfterFailedPut(q) \in {IdleRequest, [q EXCEPT !.pc = "compensating"]}
  BY IdleIsRequest DEF AfterFailedPut, RequestState, PC

LEMMA AfterFailedPutAssigned ==
  ASSUME NEW q \in RequestState, q.pc = "putting", AssignedRequest(q)
  PROVE  AfterFailedPut(q) \in RequestState /\ AssignedRequest(AfterFailedPut(q))
<1>1. CASE AfterFailedPut(q) = IdleRequest
  BY <1>1, IdleIsRequest DEF AssignedRequest, IdleRequest
<1>2. CASE AfterFailedPut(q) = [q EXCEPT !.pc = "compensating"]
  BY <1>2, AfterFailedPutType DEF AssignedRequest, RequestState
<1>3. QED
  BY <1>1, <1>2, AfterFailedPutType

LEMMA AfterPutType ==
  ASSUME NEW q \in RequestState, q.pc = "putting"
  PROVE  /\ AfterPut(q) \in RequestState
         /\ AfterPut(q) \in {IdleRequest, [q EXCEPT !.pc = "publishing"],
                             [q EXCEPT !.pc = "forgetting"]}
         /\ AfterPut(q).pc = "forgetting" => q.op # "start"
  BY IdleIsRequest DEF AfterPut, RequestState, PC, IdleRequest

(***************************************************************************)
(* Type correctness.                                                       *)
(***************************************************************************)
LEMMA TypeInit == Init => TypeInv
  BY IdleIsRequest, ConstantsAssumption
  DEF Init, TypeInv, TypeOK, Assigned, AssignedRequest, IdleRequest, Status, Phase

\* One request moves to a well-typed record and the rest is as it was typed.
LEMMA RequestStep ==
  ASSUME TypeInv, NEW r \in Request, NEW q \in RequestState,
         AssignedRequest(q),
         req' = [req EXCEPT ![r] = q],
         status' \in [Task -> Status \cup {"ABSENT"}],
         phase' \in [Segment -> Phase],
         owner' \in [Segment -> Task \cup {None}],
         fresh' \subseteq Request,
         cache' \in Task \cup {None, Unverified},
         refresh' \in Task \cup {None, Unverified},
         granted' \subseteq Segment, severed' \subseteq Segment
  PROVE  TypeInv'
  BY DEF TypeInv, TypeOK, Assigned

LEMMA TypeBegin ==
  ASSUME TypeInv, NEW r \in Request, NEW o \in AllOperations, NEW t \in Task,
         NEW g \in Status, Begin(r, o, t, g)
  PROVE  TypeInv'
<1> DEFINE q == [IdleRequest EXCEPT !.pc = FirstStep(o), !.op = o,
                                    !.task = t, !.goal = g]
<1>1. q \in RequestState /\ AssignedRequest(q)
  BY DEF IdleRequest, RequestState, AssignedRequest, PC, FirstStep, Status
<1>2. QED
  BY <1>1, RequestStep DEF Begin, TypeInv, TypeOK

LEMMA TypeReturn ==
  ASSUME TypeInv, NEW r \in Request, Return(r),
         status' \in [Task -> Status \cup {"ABSENT"}],
         phase' \in [Segment -> Phase],
         owner' \in [Segment -> Task \cup {None}],
         cache' \in Task \cup {None, Unverified},
         refresh' \in Task \cup {None, Unverified},
         granted' \subseteq Segment, severed' \subseteq Segment
  PROVE  TypeInv'
<1>1. AssignedRequest(IdleRequest)
  BY DEF IdleRequest, AssignedRequest
<1>2. fresh' \subseteq Request
  BY DEF Return, TypeInv, TypeOK
<1>3. QED
  BY <1>1, <1>2, IdleIsRequest, RequestStep DEF Return

LEMMA TypeServe ==
  ASSUME TypeInv, NEW r \in Request, Serve(r)
  PROVE  TypeInv'
<1> DEFINE q == req[r]
<1>0. /\ TypeOK
      /\ q \in RequestState
      /\ AssignedRequest(q)
  BY DEF TypeInv, TypeOK, Assigned
<1>z. ASSUME NEW c \in PC, q.pc # "idle",
             req' = [req EXCEPT ![r].pc = c], AssignedRequest([q EXCEPT !.pc = c]),
             UNCHANGED <<status, phase, owner, fresh, cache, refresh, history>>
      PROVE  TypeInv'
  <2> DEFINE n == [q EXCEPT !.pc = c]
  <2>1. req' = [req EXCEPT ![r] = n]
    BY <1>z, <1>0 DEF TypeOK
  <2>2. n \in RequestState
    BY <1>z, <1>0 DEF RequestState
  <2> HIDE DEF n
  <2>3. QED
    BY <1>z, <1>0, <2>1, <2>2, RequestStep DEF TypeOK, n
<1>a. CASE CheckNotCurrent(r)
  <2>1. CASE Return(r)
    BY <2>1, <1>a, <1>0, TypeReturn DEF CheckNotCurrent, TypeOK
  <2>2. CASE ~Return(r)
    <3>1. AssignedRequest([q EXCEPT !.pc = "confirming"])
      BY <1>a, <1>0 DEF CheckNotCurrent, RequestState, AssignedRequest
    <3>2. QED
      BY <2>2, <1>a, <1>z, <3>1 DEF CheckNotCurrent, PC
  <2>3. QED
    BY <2>1, <2>2
<1>b. CASE ReadTask(r)
  BY <1>b, TypeReturn, RequestStep, <1>0
  DEF ReadTask, TypeOK, RequestState, PC, AssignedRequest
<1>c. CASE ReadOpen(r)
  <2> DEFINE n == [q EXCEPT !.open = OpenSegments,
                            !.reads = q.reads \cup {"open"}]
  <2>1. n \in RequestState
    BY <1>0, ReadOpenType, Zenon
  <2>2. AssignedRequest(n)
    BY <1>0 DEF AssignedRequest, RequestState
  <2>3. req' = [req EXCEPT ![r] = n]
    BY <1>c, <1>0 DEF ReadOpen, TypeOK
  <2>4. QED
    BY <1>c, <1>0, <2>1, <2>2, <2>3, RequestStep DEF ReadOpen, TypeOK
<1>d. CASE Decide(r)
  <2> DEFINE cur == CurrentTask(q.open)
             call == FirstCall(q.op, cur = q.task)
             seg == IF cur = q.task /\ q.op # "delete"
                    THEN CHOOSE s \in q.open : TRUE ELSE None
             n == [q EXCEPT !.pc = call, !.seg = seg, !.open = {}]
  <2>1. q.task \in Task /\ q.open \in SUBSET Segment
    BY <1>0, <1>d DEF Decide, RequestState, AssignedRequest
  <2>2. seg \in Segment \cup {None}
    BY <2>1, <1>0, CurrentTaskRange
  <2>3. /\ call \in {"opening", "history", "deleting", "closing", "putting"}
        /\ call \in {"closing", "deleting", "putting"}
              <=> q.op \notin {"start", "resume"}
    BY DEF FirstCall
  <2>4. CASE Return(r)
    BY <2>4, <1>d, <1>0, TypeReturn DEF Decide, TypeOK
  <2>5. CASE req' = [req EXCEPT ![r] = n] /\ UNCHANGED fresh
    <3> HIDE DEF call, seg
    <3>1. n \in RequestState
      BY <1>0, <2>2, <2>3 DEF RequestState, PC
    <3>2. n.pc = call /\ n.op = q.op /\ n.task = q.task
      BY <1>0 DEF RequestState
    <3>3. AssignedRequest(n)
      BY <2>1, <2>3, <3>2 DEF AssignedRequest
    <3>4. QED
      BY <2>5, <3>1, <3>3, <1>d, <1>0, RequestStep DEF Decide, TypeOK
  <2>6. QED
    BY <1>d, <2>4, <2>5 DEF Decide
<1>e. CASE ReadHistory(r)
  <2>1. CASE Return(r)
    BY <2>1, <1>e, <1>0, TypeReturn DEF ReadHistory, TypeOK
  <2>2. CASE ~Return(r)
    <3>1. AssignedRequest([q EXCEPT !.pc = "opening"])
      BY <1>e, <1>0 DEF ReadHistory, RequestState, AssignedRequest
    <3>2. QED
      BY <2>2, <1>e, <1>z, <3>1 DEF ReadHistory, PC
  <2>3. QED
    BY <2>1, <2>2
<1>f. CASE OpenSegment(r)
  <2>1. PICK s \in Segment :
            /\ phase' = [phase EXCEPT ![s] = "open"]
            /\ owner' = [owner EXCEPT ![s] = q.task]
            /\ req' = [req EXCEPT ![r].seg = s,
                                  ![r].pc = IF q.op = "start"
                                            THEN "putting" ELSE "publishing"]
    BY <1>f DEF OpenSegment
  <2> DEFINE n == [q EXCEPT !.seg = s,
                            !.pc = IF q.op = "start"
                                   THEN "putting" ELSE "publishing"]
  <2>2. n \in RequestState
    BY <1>0, OpenSegmentType, Zenon
  <2>a. /\ n.task = q.task /\ n.seg = s
        /\ n.pc \in {"putting", "publishing"}
        /\ n.pc = "putting" => n.op = "start"
    BY <1>0 DEF RequestState
  <2>b. q.task \in Task
    BY <1>f, <1>0 DEF OpenSegment, AssignedRequest
  <2>3. req' = [req EXCEPT ![r] = n]
    BY <2>1, <1>0 DEF TypeOK
  <2>4. QED
    <3>1. AssignedRequest(n)
      BY <2>a, <2>b DEF AssignedRequest
    <3>2. /\ phase' \in [Segment -> Phase]
          /\ owner' \in [Segment -> Task \cup {None}]
      BY <2>1, <2>b, <1>0 DEF TypeOK, Phase
    <3>3. QED
      BY <1>f, <1>0, <2>2, <2>3, <3>1, <3>2, RequestStep DEF OpenSegment, TypeOK
<1>g. CASE CloseSegment(r)
  <2>1. q.task \in Task
    BY <1>g, <1>0 DEF CloseSegment, AssignedRequest
  <2>2. CASE Return(r) /\ UNCHANGED phase
    BY <2>2, <1>g, <1>0, TypeReturn DEF CloseSegment, TypeOK
  <2>3. CASE /\ phase' = [phase EXCEPT ![q.seg] = "closed"]
             /\ req' = [req EXCEPT ![r].pc = IF q.op = "pause"
                                             THEN "publishing" ELSE "putting"]
             /\ UNCHANGED fresh
    <3> DEFINE n == [q EXCEPT !.pc = IF q.op = "pause"
                                     THEN "publishing" ELSE "putting"]
    <3>1. n \in RequestState /\ AssignedRequest(n)
      BY <1>0, <1>g DEF CloseSegment, RequestState, PC, AssignedRequest
    <3>2. req' = [req EXCEPT ![r] = n]
      BY <2>3, <1>0 DEF TypeOK
    <3>3. QED
      BY <2>3, <3>1, <3>2, <1>g, <1>0, RequestStep DEF CloseSegment, TypeOK, Phase
  <2>4. QED
    BY <1>g, <2>2, <2>3 DEF CloseSegment
<1>h. CASE PutTask(r)
  <2>1. q.task \in Task
    BY <1>h, <1>0 DEF PutTask, AssignedRequest
  <2>2. AfterPut(q) \in RequestState /\ AssignedRequest(AfterPut(q))
    <3>1. q.pc = "putting"
      BY <1>h DEF PutTask
    <3>2. CASE AfterPut(q) = IdleRequest
      BY <3>2, IdleIsRequest DEF AssignedRequest, IdleRequest
    <3>3. CASE AfterPut(q) # IdleRequest
      BY <3>1, <3>3, <1>0, AfterPutType DEF AssignedRequest, RequestState
    <3>4. QED
      BY <3>2, <3>3
  <2>3. status' \in [Task -> Status \cup {"ABSENT"}]
    BY <1>h, <1>0 DEF PutTask, TypeOK, RequestState
  <2>4. fresh' \subseteq Request
    BY <1>h, <1>0 DEF PutTask, ChangedETag, TypeOK
  <2>5. QED
    BY <1>h, <1>0, <2>2, <2>3, <2>4, RequestStep DEF PutTask, TypeOK
<1>i. CASE Conflict(r)
  <2>1. AfterFailedPut(q) \in RequestState /\ AssignedRequest(AfterFailedPut(q))
    BY <1>i, <1>0, AfterFailedPutAssigned DEF Conflict
  <2>2. QED
    BY <1>i, <1>0, <2>1, RequestStep DEF Conflict, TypeOK
<1>p. CASE RereadTask(r)
  <2>1. CASE req' = [req EXCEPT ![r] = AfterFailedPut(q)] /\ UNCHANGED fresh
    <3>1. AfterFailedPut(q) \in RequestState /\ AssignedRequest(AfterFailedPut(q))
      BY <1>p, <1>0, AfterFailedPutAssigned DEF RereadTask
    <3>2. QED
      BY <2>1, <1>p, <1>0, <3>1, RequestStep DEF RereadTask, TypeOK
  <2>2. CASE /\ req' = [req EXCEPT ![r].via = "reread"]
             /\ fresh' = fresh \cup {r}
    <3> DEFINE n == [q EXCEPT !.via = "reread"]
    <3>1. n \in RequestState /\ AssignedRequest(n)
      BY <1>0 DEF RequestState, AssignedRequest
    <3>2. req' = [req EXCEPT ![r] = n]
      BY <2>2, <1>0 DEF TypeOK
    <3>3. QED
      BY <2>2, <1>p, <1>0, <3>1, <3>2, RequestStep DEF RereadTask, TypeOK
  <2>3. QED
    BY <1>p, <2>1, <2>2 DEF RereadTask
<1>j. CASE Compensate(r)
  <2>1. phase' \in [Segment -> Phase]
    BY <1>j, <1>0 DEF Compensate, TypeOK, Phase
  <2>2. QED
    BY <1>j, <1>0, <2>1, TypeReturn DEF Compensate, TypeOK
<1>k. CASE CreateTask(r)
  <2>1. status' \in [Task -> Status \cup {"ABSENT"}]
    BY <1>k, <1>0 DEF CreateTask, TypeOK, RequestState
  <2>2. QED
    BY <1>k, <1>0, <2>1, TypeReturn DEF CreateTask, TypeOK
<1>l. CASE DeleteTask(r)
  <2>1. CASE Return(r) /\ UNCHANGED status
    BY <2>1, <1>l, <1>0, TypeReturn DEF DeleteTask, TypeOK
  <2>2. CASE /\ status' = [status EXCEPT ![q.task] = "ABSENT"]
             /\ req' = [req EXCEPT ![r].pc = "forgetting"]
             /\ fresh' = ChangedETag(q.task)
    <3> DEFINE n == [q EXCEPT !.pc = "forgetting"]
    <3>1. n \in RequestState /\ AssignedRequest(n)
      BY <1>l, <1>0 DEF DeleteTask, RequestState, PC, AssignedRequest
    <3>2. req' = [req EXCEPT ![r] = n]
      BY <2>2, <1>0 DEF TypeOK
    <3>3. fresh' \subseteq Request
      BY <2>2, <1>0 DEF ChangedETag, TypeOK
    <3>4. status' \in [Task -> Status \cup {"ABSENT"}]
      BY <2>2, <1>0 DEF TypeOK
    <3>5. QED
      BY <1>l, <1>0, <3>1, <3>2, <3>3, <3>4, RequestStep DEF DeleteTask, TypeOK
  <2>3. QED
    BY <1>l, <2>1, <2>2 DEF DeleteTask
<1>m. CASE Forget(r)
  <2>1. CASE Return(r)
    BY <2>1, <1>m, <1>0, TypeReturn DEF Forget, TypeOK
  <2>2. CASE ~Return(r)
    <3> DEFINE n == [q EXCEPT !.pc = "publishing"]
    <3>1. /\ req' = [req EXCEPT ![r].pc = "publishing"]
          /\ UNCHANGED fresh
      BY <2>2, <1>m DEF Forget
    <3>2. q.op \notin {"start", "resume"}
      BY <1>m, <1>0 DEF Forget, AssignedRequest
    <3>3. n \in RequestState /\ AssignedRequest(n)
      BY <1>m, <1>0, <3>2 DEF Forget, RequestState, PC, AssignedRequest
    <3>4. req' = [req EXCEPT ![r] = n]
      BY <3>1, <1>0 DEF TypeOK
    <3>5. QED
      BY <1>m, <1>0, <3>1, <3>3, <3>4, RequestStep DEF Forget, TypeOK
  <2>3. QED
    BY <2>1, <2>2
<1>n. CASE Publish(r)
  <2>1. /\ cache' \in Task \cup {None, Unverified}
        /\ granted' \subseteq Segment
    BY <1>n, <1>0 DEF Publish, TypeOK, AssignedRequest
  <2>2. QED
    BY <1>n, <1>0, <2>1, TypeReturn DEF Publish, TypeOK
<1>o. QED
  BY <1>a, <1>b, <1>c, <1>d, <1>e, <1>f, <1>g, <1>h, <1>i, <1>j, <1>k, <1>l,
     <1>m, <1>n, <1>p DEF Serve

\* The stale copy changes only what the request has read.
LEMMA TypeReadSnapshot ==
  ASSUME TypeInv, NEW r \in Request, ReadSnapshot(r)
  PROVE  TypeInv'
<1> DEFINE q == req[r]
           n(st) == [q EXCEPT !.saw = st, !.via = "snapshot",
                              !.reads = q.reads \cup {"task"}]
<1>0. TypeOK /\ q \in RequestState /\ AssignedRequest(q)
  BY DEF TypeInv, TypeOK, Assigned
<1>1. PICK st \in Status : req' = [req EXCEPT ![r] = n(st)]
  BY Zenon DEF ReadSnapshot
<1>2. n(st) \in RequestState
  BY <1>0 DEF RequestState
<1>3. AssignedRequest(n(st))
  BY <1>0 DEF RequestState, AssignedRequest
<1> HIDE DEF n
<1>4. QED
  BY <1>0, <1>1, <1>2, <1>3, RequestStep DEF ReadSnapshot, TypeOK

LEMMA TypeRefuse ==
  ASSUME TypeInv, NEW r \in Request, Refuse(r)
  PROVE  TypeInv'
<1>0. TypeOK /\ req[r] \in RequestState /\ AssignedRequest(req[r])
  BY DEF TypeInv, TypeOK, Assigned
<1>1. CASE Return(r) /\ severed' = severed \cup Opened(req[r])
  <2>1. severed' \subseteq Segment
    BY <1>1, <1>0 DEF Opened, RequestState, TypeOK
  <2>2. QED
    BY <1>1, <1>0, <2>1, TypeReturn DEF Refuse, TypeOK
<1>2. CASE /\ req[r].pc = "putting"
           /\ req' = [req EXCEPT ![r] = AfterFailedPut(req[r])]
           /\ fresh' = fresh \ {r}
           /\ UNCHANGED severed
  <2>1. /\ AfterFailedPut(req[r]) \in RequestState
        /\ AssignedRequest(AfterFailedPut(req[r]))
    BY <1>2, <1>0, AfterFailedPutAssigned
  <2>2. fresh' \subseteq Request
    BY <1>2, <1>0 DEF TypeOK
  <2>3. QED
    BY <1>2, <1>0, <2>1, <2>2, RequestStep DEF Refuse, TypeOK
<1>3. QED
  BY <1>1, <1>2 DEF Refuse

LEMMA TypeLoseReply ==
  ASSUME TypeInv, NEW r \in Request, LoseReply(r)
  PROVE  TypeInv'
<1> DEFINE q == req[r]
<1>0. /\ TypeOK
      /\ q \in RequestState /\ AssignedRequest(q)
      /\ UNCHANGED <<cache, refresh, granted>>
  BY DEF TypeInv, TypeOK, Assigned, LoseReply
<1>1. CASE /\ q.pc = "opening"
           /\ \E s \in Segment :
                /\ phase[s] = "unused"
                /\ phase' = [phase EXCEPT ![s] = "open"]
                /\ owner' = [owner EXCEPT ![s] = q.task]
                /\ severed' = severed \cup {s}
           /\ Return(r)
           /\ UNCHANGED status
  <2>1. /\ phase' \in [Segment -> Phase]
        /\ owner' \in [Segment -> Task \cup {None}]
        /\ severed' \subseteq Segment
    BY <1>1, <1>0 DEF TypeOK, Phase, AssignedRequest
  <2>2. QED
    BY <1>1, <1>0, <2>1, TypeReturn DEF TypeOK
<1>2. CASE /\ q.pc = "closing" /\ phase[q.seg] # "deleted"
           /\ phase' = [phase EXCEPT ![q.seg] = "closed"]
           /\ Return(r)
           /\ UNCHANGED <<status, owner, severed>>
  <2>1. phase' \in [Segment -> Phase]
    BY <1>2, <1>0 DEF TypeOK, Phase
  <2>2. QED
    BY <1>2, <1>0, <2>1, TypeReturn DEF TypeOK
<1>3. CASE /\ q.pc = "putting" /\ r \in fresh
           /\ status' = [status EXCEPT ![q.task] = q.goal]
           /\ req' = [req EXCEPT ![r] = AfterFailedPut(q)]
           /\ fresh' = ChangedETag(q.task)
           /\ UNCHANGED <<phase, owner, severed>>
  <2>1. AfterFailedPut(q) \in RequestState /\ AssignedRequest(AfterFailedPut(q))
    BY <1>3, <1>0, AfterFailedPutAssigned
  <2>2. status' \in [Task -> Status \cup {"ABSENT"}]
    BY <1>3, <1>0 DEF TypeOK, RequestState
  <2>3. fresh' \subseteq Request
    BY <1>3, <1>0 DEF TypeOK, ChangedETag
  <2>4. QED
    BY <1>3, <1>0, <2>1, <2>2, <2>3, RequestStep DEF TypeOK
<1>4. CASE /\ q.pc = "deleting" /\ status[q.task] # "ABSENT"
           /\ status' = [status EXCEPT ![q.task] = "ABSENT"]
           /\ req' = [req EXCEPT ![r] = IdleRequest]
           /\ fresh' = ChangedETag(q.task) \ {r}
           /\ UNCHANGED <<phase, owner, severed>>
  <2>1. AssignedRequest(IdleRequest)
    BY DEF IdleRequest, AssignedRequest
  <2>2. /\ status' \in [Task -> Status \cup {"ABSENT"}]
        /\ fresh' \subseteq Request
    BY <1>4, <1>0 DEF TypeOK, ChangedETag
  <2>3. QED
    BY <1>4, <1>0, <2>1, <2>2, IdleIsRequest, RequestStep DEF TypeOK
<1>5. QED
  BY <1>1, <1>2, <1>3, <1>4 DEF LoseReply

LEMMA TypeNext == TypeInv /\ [Next]_vars => TypeInv'
<1> SUFFICES ASSUME TypeInv, [Next]_vars PROVE TypeInv'
  OBVIOUS
<1>1. ASSUME NEW r \in Request, NEW o \in AllOperations, NEW t \in Task,
             NEW g \in Status, Begin(r, o, t, g)
      PROVE  TypeInv'
  BY <1>1, TypeBegin
<1>2. ASSUME NEW r \in Request, Confirm(r)
      PROVE  TypeInv'
  <2>1. CASE Return(r)
    BY <2>1, <1>2, TypeReturn DEF Confirm, TypeInv, TypeOK
  <2>2. CASE /\ req' = [req EXCEPT ![r].pc = "reading", ![r].op = "delete"]
             /\ UNCHANGED fresh
    <3> DEFINE n == [req[r] EXCEPT !.pc = "reading", !.op = "delete"]
    <3>1. req' = [req EXCEPT ![r] = n]
      BY <2>2 DEF TypeInv, TypeOK
    <3>2. /\ req[r] \in RequestState
          /\ req[r].task \in Task
      BY <1>2 DEF Confirm, TypeInv, TypeOK, Assigned, AssignedRequest
    <3>3. n \in RequestState
      BY <3>2, ConfirmType, Zenon
    <3>4. n.task = req[r].task /\ n.pc = "reading"
      BY <3>2 DEF RequestState
    <3>5. AssignedRequest(n)
      BY <3>2, <3>4 DEF AssignedRequest
    <3>6. QED
      BY <2>2, <3>1, <3>3, <3>5, <1>2, RequestStep DEF Confirm, TypeInv, TypeOK
  <2>3. QED
    BY <1>2, <2>1, <2>2 DEF Confirm
<1>3. CASE RefreshRead
  <2>1. refresh' \in Task \cup {None, Unverified}
    BY <1>3, CurrentTaskRange DEF RefreshRead, OpenSegments, TypeInv
  <2>2. QED
    BY <1>3, <2>1 DEF RefreshRead, TypeInv, TypeOK, Assigned
<1>4. CASE RefreshWrite
  BY <1>4 DEF RefreshWrite, TypeInv, TypeOK, Assigned
<1>5. ASSUME NEW t \in Task, ExternalEdit(t)
      PROVE  TypeInv'
  BY <1>5 DEF ExternalEdit, ChangedETag, TypeInv, TypeOK, Assigned
<1>6. CASE Crash
  <2>1. req' \in [Request -> RequestState]
    BY <1>6, IdleIsRequest DEF Crash, TypeInv, TypeOK
  <2>2. Assigned'
    BY <1>6 DEF Crash, TypeInv, Assigned, AssignedRequest, IdleRequest
  <2>3. severed' \subseteq Segment
    BY <1>6 DEF Crash, Opened, RequestState, TypeInv, TypeOK
  <2>4. QED
    BY <1>6, <2>1, <2>2, <2>3 DEF Crash, TypeInv, TypeOK
<1>7. CASE UNCHANGED vars
  BY <1>7 DEF vars, TypeInv, TypeOK, Assigned
<1>8. QED
  BY <1>1, <1>2, <1>3, <1>4, <1>5, <1>6, <1>7, TypeServe, TypeReadSnapshot,
     TypeRefuse, TypeLoseReply DEF Next

\* Every variable keeps its type, whatever the Tasks, intervals and requests are.
THEOREM TypeCorrect == Spec => []TypeOK
<1>1. TypeInv => TypeOK
  BY DEF TypeInv
<1>2. QED
  BY <1>1, TypeInit, TypeNext, PTL DEF Spec

(***************************************************************************)
(* Writes are authorized.  A request past its decision still holds what    *)
(* its precondition was checked on, and an ETag that is current vouches    *)
(* for it: the VTODO is as it was read, unless the read came from the      *)
(* snapshot and the ETag from the adapter's own reading.  Only a call that *)
(* has read the Task has read it from the snapshot.                        *)
(***************************************************************************)
AuthorizedRequest(q) ==
    /\ "task" \notin q.reads => q.via = "live"
    /\ q.pc \in {"history", "opening", "closing", "putting"} =>
        /\ q.op = "start" => q.via = "live" /\ q.saw \notin Terminal
        /\ q.op = "switch_away" => q.saw = "IN-PROCESS"

PreconditionHeld == \A r \in Request : AuthorizedRequest(req[r])

VersionKnown ==
    \A r \in fresh : /\ req[r].pc # "idle"
                     /\ "task" \in req[r].reads
                     /\ status[req[r].task] # "ABSENT"
                     /\ req[r].via # "snapshot"
                     /\ req[r].via = "live" => status[req[r].task] = req[r].saw

Authorized == PreconditionHeld /\ VersionKnown

\* A request moves on with the version it had, and who keeps a current ETag sees
\* no other STATUS.
LEMMA AuthorizedStep ==
  ASSUME TypeInv, Authorized, NEW r \in Request, NEW q \in RequestState,
         req' = [req EXCEPT ![r] = q],
         AuthorizedRequest(q),
         fresh' \subseteq fresh,
         r \in fresh' => /\ q.pc # "idle" /\ req[r].reads \subseteq q.reads
                         /\ q.saw = req[r].saw /\ q.via = req[r].via
                         /\ q.task = req[r].task,
         \A x \in fresh' : status'[req[x].task] = status[req[x].task]
  PROVE  Authorized'
<1>1. PreconditionHeld'
  BY DEF Authorized, PreconditionHeld, TypeInv, TypeOK
<1>2. VersionKnown'
  BY DEF Authorized, VersionKnown, TypeInv, TypeOK
<1>3. QED
  BY <1>1, <1>2 DEF Authorized

LEMMA AuthorizedReturn ==
  ASSUME TypeInv, Authorized, NEW r \in Request, Return(r),
         \A x \in fresh' : status'[req[x].task] = status[req[x].task]
  PROVE  Authorized'
<1>1. AuthorizedRequest(IdleRequest)
  BY DEF AuthorizedRequest, IdleRequest
<1>2. QED
  BY <1>1, IdleIsRequest, AuthorizedStep DEF Return

\* After a write to the VTODO of t nobody holds a current ETag of it.
LEMMA WriteRevokes ==
  ASSUME TypeInv, NEW t \in Task, NEW st,
         fresh' \subseteq ChangedETag(t),
         status' = [status EXCEPT ![t] = st]
  PROVE  \A x \in fresh' : status'[req[x].task] = status[req[x].task]
  BY DEF ChangedETag, TypeInv, TypeOK

LEMMA AuthorizedServe ==
  ASSUME TypeInv, Authorized, NEW r \in Request, Serve(r)
  PROVE  Authorized'
<1> DEFINE q == req[r]
<1>0. /\ TypeOK
      /\ q \in RequestState /\ AssignedRequest(q) /\ AuthorizedRequest(q)
  BY DEF TypeInv, TypeOK, Assigned, Authorized, PreconditionHeld
<1>a. ASSUME NEW c \in PC, UNCHANGED <<status, fresh>>, q.pc # "idle", c # "idle",
             req' = [req EXCEPT ![r].pc = c],
             c \in {"history", "opening", "closing", "putting"}
                => q.pc \in {"history", "opening", "closing", "putting"}
      PROVE  Authorized'
  <2> DEFINE n == [q EXCEPT !.pc = c]
  <2>1. req' = [req EXCEPT ![r] = n]
    BY <1>a, <1>0 DEF TypeOK
  <2>2. n \in RequestState /\ AuthorizedRequest(n)
    BY <1>a, <1>0 DEF RequestState, AuthorizedRequest
  <2>3. /\ n.pc # "idle" /\ n.saw = q.saw /\ n.task = q.task
        /\ n.via = q.via /\ n.reads = q.reads
    BY <1>a, <1>0 DEF RequestState
  <2>4. QED
    BY <1>a, <2>1, <2>2, <2>3, AuthorizedStep
<1>1. CASE CheckNotCurrent(r)
  BY <1>1, <1>a, AuthorizedReturn DEF CheckNotCurrent, PC
<1>2. CASE ReadTask(r)
  <2>1. CASE Return(r)
    BY <2>1, <1>2, AuthorizedReturn DEF ReadTask
  <2>2. CASE ~Return(r)
    <3> DEFINE n == [q EXCEPT !.saw = status[q.task],
                              !.reads = @ \cup {"task"}]
    <3>1. /\ status[q.task] # "ABSENT"
          /\ fresh' = fresh \cup {r}
          /\ UNCHANGED status
          /\ q.pc = "reading" /\ q.task \in Task
      BY <2>2, <1>2, <1>0 DEF ReadTask, AssignedRequest
    <3>2. req' = [req EXCEPT ![r] = n]
      BY <2>2, <1>2, <1>0 DEF ReadTask, TypeOK
    <3>3. /\ n.pc = "reading" /\ n.saw = status[q.task] /\ n.task = q.task
          /\ "task" \in n.reads /\ n.via = q.via /\ q.via = "live"
      BY <3>1, <1>2, <1>0 DEF RequestState, ReadTask, AuthorizedRequest
    <3>4. PreconditionHeld'
      BY <3>2, <3>3, <1>0
      DEF AuthorizedRequest, Authorized, PreconditionHeld, TypeOK
    <3>5. VersionKnown'
      BY <3>1, <3>2, <3>3, <1>0 DEF Authorized, VersionKnown, TypeOK
    <3>6. QED
      BY <3>4, <3>5 DEF Authorized
  <2>3. QED
    BY <2>1, <2>2
<1>3. CASE ReadOpen(r)
  <2> DEFINE n == [q EXCEPT !.open = OpenSegments,
                            !.reads = @ \cup {"open"}]
  <2>1. req' = [req EXCEPT ![r] = n]
    BY <1>3, <1>0 DEF ReadOpen, TypeOK
  <2>2. n \in RequestState
    BY <1>0, ReadOpenType, Zenon
  <2>3. /\ n.pc = "reading" /\ n.saw = q.saw /\ n.task = q.task
        /\ n.via = q.via /\ q.reads \subseteq n.reads
    BY <1>3, <1>0 DEF ReadOpen, RequestState
  <2>4. AuthorizedRequest(n)
    BY <2>3, <1>0 DEF AuthorizedRequest
  <2>5. QED
    BY <1>3, <2>1, <2>2, <2>3, <2>4, AuthorizedStep DEF ReadOpen
<1>4. CASE Decide(r)
  <2> DEFINE cur == CurrentTask(q.open)
             call == FirstCall(q.op, cur = q.task)
             seg == IF cur = q.task /\ q.op # "delete"
                    THEN CHOOSE s \in q.open : TRUE ELSE None
             n == [q EXCEPT !.pc = call, !.seg = seg, !.open = {}]
  <2>1. CASE Return(r)
    BY <2>1, <1>4, AuthorizedReturn DEF Decide
  <2>2. CASE ~Return(r)
    <3>1. /\ req' = [req EXCEPT ![r] = n]
          /\ Allowed(q, cur)
          /\ UNCHANGED <<status, fresh>>
      BY <2>2, <1>4 DEF Decide
    <3>2. /\ q.op = "start" => q.via = "live" /\ q.saw \notin Terminal
          /\ q.op = "switch_away" => q.saw = "IN-PROCESS"
      BY <3>1 DEF Allowed
    <3>3. call \in PC \ {"idle"}
      BY DEF FirstCall, PC
    <3>4. n \in RequestState
      <4>1. q.task \in Task /\ q.open \in SUBSET Segment
        BY <1>0, <1>4 DEF Decide, RequestState, AssignedRequest
      <4>2. seg \in Segment \cup {None}
        BY <4>1, <1>0, CurrentTaskRange
      <4> HIDE DEF call, seg
      <4>3. QED
        BY <1>0, <3>3, <4>2 DEF RequestState
    <3>5. /\ n.pc = call /\ n.op = q.op /\ n.saw = q.saw /\ n.task = q.task
          /\ n.via = q.via /\ n.reads = q.reads
      BY <1>0 DEF RequestState
    <3> HIDE DEF n
    <3>6. AuthorizedRequest(n)
      BY <1>0, <3>2, <3>5 DEF AuthorizedRequest
    <3>7. QED
      BY <3>1, <3>3, <3>4, <3>5, <3>6, AuthorizedStep
  <2>3. QED
    BY <2>1, <2>2
<1>5. CASE ReadHistory(r)
  BY <1>5, <1>a, AuthorizedReturn DEF ReadHistory, PC
<1>6. CASE OpenSegment(r)
  <2>1. PICK s \in Segment :
            req' = [req EXCEPT ![r].seg = s,
                              ![r].pc = IF q.op = "start"
                                        THEN "putting" ELSE "publishing"]
    BY <1>6 DEF OpenSegment
  <2> DEFINE n == [q EXCEPT !.seg = s,
                            !.pc = IF q.op = "start"
                                   THEN "putting" ELSE "publishing"]
  <2>2. req' = [req EXCEPT ![r] = n]
    BY <2>1, <1>0 DEF TypeOK
  <2>3. n \in RequestState
    BY <1>0, OpenSegmentType, Zenon
  <2>4. /\ n.pc \in {"putting", "publishing"}
        /\ n.op = q.op /\ n.saw = q.saw /\ n.task = q.task
        /\ n.via = q.via /\ n.reads = q.reads
    BY <1>0 DEF RequestState
  <2>5. AuthorizedRequest(n)
    BY <2>4, <1>6, <1>0 DEF OpenSegment, AuthorizedRequest
  <2>6. QED
    BY <1>6, <2>2, <2>3, <2>4, <2>5, AuthorizedStep DEF OpenSegment
<1>7. CASE CloseSegment(r)
  <2>1. CASE Return(r)
    BY <2>1, <1>7, AuthorizedReturn DEF CloseSegment
  <2>2. CASE ~Return(r)
    BY <2>2, <1>7, <1>a DEF CloseSegment, PC
  <2>3. QED
    BY <2>1, <2>2
<1>8. CASE PutTask(r)
  <2>1. /\ q.task \in Task /\ q.pc = "putting"
        /\ status' = [status EXCEPT ![q.task] = q.goal]
        /\ req' = [req EXCEPT ![r] = AfterPut(q)]
        /\ fresh' = ChangedETag(q.task)
    BY <1>8, <1>0 DEF PutTask, AssignedRequest
  <2>2. AfterPut(q) \in RequestState /\ AuthorizedRequest(AfterPut(q))
    BY <2>1, <1>0, AfterPutType DEF AuthorizedRequest, IdleRequest, RequestState
  <2>3. fresh' \subseteq fresh /\ r \notin fresh'
    BY <2>1 DEF ChangedETag
  <2>4. QED
    BY <2>1, <2>2, <2>3, WriteRevokes, AuthorizedStep
<1>9. CASE Conflict(r)
  <2>1. AfterFailedPut(q) \in RequestState /\ AuthorizedRequest(AfterFailedPut(q))
    BY <1>9, <1>0, AfterFailedPutType
    DEF Conflict, AuthorizedRequest, IdleRequest, RequestState
  <2>2. QED
    BY <1>9, <2>1, AuthorizedStep DEF Conflict
<1>10. CASE Compensate(r)
  BY <1>10, AuthorizedReturn DEF Compensate
<1>11. CASE CreateTask(r)
  <2>1. \A x \in fresh : status'[req[x].task] = status[req[x].task]
    BY <1>11, <1>0 DEF CreateTask, TypeOK, Authorized, VersionKnown
  <2>2. fresh' \subseteq fresh
    BY <1>11 DEF CreateTask, Return
  <2>3. QED
    BY <1>11, <2>1, <2>2, AuthorizedReturn DEF CreateTask
<1>12. CASE DeleteTask(r)
  <2>1. CASE Return(r) /\ UNCHANGED status
    BY <2>1, AuthorizedReturn
  <2>2. CASE /\ status' = [status EXCEPT ![q.task] = "ABSENT"]
             /\ req' = [req EXCEPT ![r].pc = "forgetting"]
             /\ fresh' = ChangedETag(q.task)
    <3> DEFINE n == [q EXCEPT !.pc = "forgetting"]
    <3>1. req' = [req EXCEPT ![r] = n]
      BY <2>2, <1>0 DEF TypeOK
    <3>2. n \in RequestState /\ AuthorizedRequest(n)
      BY <1>0 DEF RequestState, PC, AuthorizedRequest
    <3>3. fresh' \subseteq fresh /\ r \notin fresh' /\ q.task \in Task
      BY <2>2, <1>12, <1>0 DEF ChangedETag, DeleteTask, AssignedRequest
    <3>4. QED
      BY <2>2, <3>1, <3>2, <3>3, WriteRevokes, AuthorizedStep
  <2>3. QED
    BY <1>12, <2>1, <2>2 DEF DeleteTask
<1>13. CASE Forget(r)
  BY <1>13, <1>a, AuthorizedReturn DEF Forget, PC
<1>14. CASE Publish(r)
  BY <1>14, AuthorizedReturn DEF Publish
<1>15. CASE RereadTask(r)
  <2>1. q.pc = "putting" /\ q.via = "snapshot" /\ UNCHANGED status
    BY <1>15 DEF RereadTask
  <2>2. CASE req' = [req EXCEPT ![r] = AfterFailedPut(q)] /\ UNCHANGED fresh
    <3>1. AfterFailedPut(q) \in RequestState /\ AuthorizedRequest(AfterFailedPut(q))
      BY <2>1, <1>0, AfterFailedPutType
      DEF AuthorizedRequest, IdleRequest, RequestState
    <3>2. r \notin fresh
      BY <2>1 DEF Authorized, VersionKnown
    <3>3. QED
      BY <2>1, <2>2, <3>1, <3>2, AuthorizedStep
  <2>3. CASE /\ req' = [req EXCEPT ![r].via = "reread"]
             /\ fresh' = fresh \cup {r}
             /\ status[q.task] # "ABSENT"
    <3> DEFINE n == [q EXCEPT !.via = "reread"]
    <3>1. req' = [req EXCEPT ![r] = n]
      BY <2>3, <1>0 DEF TypeOK
    <3>2. /\ n.pc = "putting" /\ n.op = q.op /\ n.saw = q.saw /\ n.task = q.task
          /\ n.reads = q.reads /\ n.via = "reread" /\ "task" \in q.reads
      BY <2>1, <1>0 DEF RequestState, AuthorizedRequest
    <3>3. AuthorizedRequest(n)
      BY <2>1, <3>2, <1>0 DEF AuthorizedRequest
    <3> HIDE DEF n
    <3>4. PreconditionHeld'
      BY <3>1, <3>3, <1>0 DEF Authorized, PreconditionHeld, TypeOK
    <3>5. VersionKnown'
      BY <2>1, <2>3, <3>1, <3>2, <1>0 DEF Authorized, VersionKnown, TypeOK
    <3>6. QED
      BY <3>4, <3>5 DEF Authorized
  <2>4. QED
    BY <1>15, <2>2, <2>3 DEF RereadTask
<1>16. QED
  BY <1>1, <1>2, <1>3, <1>4, <1>5, <1>6, <1>7, <1>8, <1>9, <1>10, <1>11,
     <1>12, <1>13, <1>14, <1>15 DEF Serve

\* A copy of the snapshot is read by a call that has no ETag yet and gives it none.
LEMMA AuthorizedReadSnapshot ==
  ASSUME TypeInv, Authorized, NEW r \in Request, ReadSnapshot(r)
  PROVE  Authorized'
<1> DEFINE q == req[r]
           n(st) == [q EXCEPT !.saw = st, !.via = "snapshot",
                              !.reads = q.reads \cup {"task"}]
<1>0. TypeOK /\ q \in RequestState /\ AuthorizedRequest(q)
  BY DEF TypeInv, TypeOK, Authorized, PreconditionHeld
<1>1. PICK st \in Status : req' = [req EXCEPT ![r] = n(st)]
  BY Zenon DEF ReadSnapshot
<1>2. /\ q.pc = "reading" /\ "task" \notin q.reads
      /\ UNCHANGED <<status, fresh>>
  BY DEF ReadSnapshot
<1>3. n(st) \in RequestState
  BY <1>0 DEF RequestState
<1>4. n(st).pc = "reading" /\ "task" \in n(st).reads
  BY <1>0, <1>2 DEF RequestState
<1>5. AuthorizedRequest(n(st))
  BY <1>4 DEF AuthorizedRequest
<1>6. r \notin fresh
  BY <1>2 DEF Authorized, VersionKnown
<1> HIDE DEF n
<1>7. QED
  BY <1>1, <1>2, <1>3, <1>5, <1>6, AuthorizedStep

LEMMA AuthorizedFaults ==
  ASSUME TypeInv, Authorized, NEW r \in Request, Refuse(r) \/ LoseReply(r)
  PROVE  Authorized'
<1> DEFINE q == req[r]
<1>0. /\ TypeOK
      /\ q \in RequestState /\ AssignedRequest(q) /\ AuthorizedRequest(q)
  BY DEF TypeInv, TypeOK, Assigned, Authorized, PreconditionHeld
<1>1. q.pc = "putting" => /\ AfterFailedPut(q) \in RequestState
                          /\ AuthorizedRequest(AfterFailedPut(q))
  BY <1>0, AfterFailedPutType DEF AuthorizedRequest, IdleRequest, RequestState
<1>2. CASE Return(r) /\ UNCHANGED status
  BY <1>2, AuthorizedReturn
<1>3. CASE /\ q.pc = "putting"
           /\ req' = [req EXCEPT ![r] = AfterFailedPut(q)]
           /\ fresh' = fresh \ {r}
           /\ UNCHANGED status
  BY <1>1, <1>3, AuthorizedStep
<1>4. CASE /\ q.pc = "putting"
           /\ status' = [status EXCEPT ![q.task] = q.goal]
           /\ req' = [req EXCEPT ![r] = AfterFailedPut(q)]
           /\ fresh' = ChangedETag(q.task)
  <2>1. q.task \in Task /\ fresh' \subseteq fresh /\ r \notin fresh'
    BY <1>4, <1>0 DEF ChangedETag, AssignedRequest
  <2>2. QED
    BY <1>1, <1>4, <2>1, WriteRevokes, AuthorizedStep
<1>5. CASE /\ q.pc = "deleting"
           /\ status' = [status EXCEPT ![q.task] = "ABSENT"]
           /\ req' = [req EXCEPT ![r] = IdleRequest]
           /\ fresh' = ChangedETag(q.task) \ {r}
  <2>1. q.task \in Task /\ fresh' \subseteq fresh /\ r \notin fresh'
    BY <1>5, <1>0 DEF ChangedETag, AssignedRequest
  <2>2. AuthorizedRequest(IdleRequest)
    BY DEF AuthorizedRequest, IdleRequest
  <2>3. fresh' \subseteq ChangedETag(q.task)
    BY <1>5
  <2>4. QED
    BY <1>5, <2>1, <2>2, <2>3, IdleIsRequest, WriteRevokes, AuthorizedStep
<1>6. QED
  BY <1>2, <1>3, <1>4, <1>5 DEF Refuse, LoseReply

LEMMA AuthorizedNext == TypeInv /\ Authorized /\ [Next]_vars => Authorized'
<1> SUFFICES ASSUME TypeInv, Authorized, [Next]_vars PROVE Authorized'
  OBVIOUS
<1>1. ASSUME NEW r \in Request, NEW o \in AllOperations, NEW t \in Task,
             NEW g \in Status, Begin(r, o, t, g)
      PROVE  Authorized'
  <2> DEFINE q == [IdleRequest EXCEPT !.pc = FirstStep(o), !.op = o,
                                      !.task = t, !.goal = g]
  <2>1. q \in RequestState
    BY DEF IdleRequest, RequestState, PC, FirstStep, Status
  <2>2. q.pc \in {"checking", "creating", "reading"} /\ q.via = "live"
    BY DEF IdleRequest, FirstStep
  <2>3. AuthorizedRequest(q)
    BY <2>2 DEF AuthorizedRequest
  <2>4. r \notin fresh
    BY <1>1 DEF Begin, Authorized, VersionKnown
  <2>5. QED
    BY <1>1, <2>1, <2>3, <2>4, AuthorizedStep DEF Begin
<1>2. ASSUME NEW r \in Request, Confirm(r)
      PROVE  Authorized'
  <2>1. CASE Return(r)
    BY <2>1, <1>2, AuthorizedReturn DEF Confirm
  <2>2. CASE ~Return(r)
    <3> DEFINE n == [req[r] EXCEPT !.pc = "reading", !.op = "delete"]
    <3>1. req' = [req EXCEPT ![r] = n] /\ UNCHANGED <<status, fresh>>
      BY <1>2, <2>2 DEF Confirm, TypeInv, TypeOK
    <3>2. req[r] \in RequestState
      BY DEF TypeInv, TypeOK
    <3>3. n \in RequestState
      BY <3>2, ConfirmType, Zenon
    <3>4. /\ n.pc = "reading" /\ n.saw = req[r].saw /\ n.task = req[r].task
          /\ n.via = req[r].via /\ n.reads = req[r].reads
      BY <3>2 DEF RequestState
    <3>5. AuthorizedRequest(n)
      BY <3>4 DEF AuthorizedRequest, Authorized, PreconditionHeld
    <3>6. QED
      BY <3>1, <3>3, <3>4, <3>5, AuthorizedStep
  <2>3. QED
    BY <2>1, <2>2
<1>3. CASE RefreshRead \/ RefreshWrite \/ UNCHANGED vars
  BY <1>3 DEF RefreshRead, RefreshWrite, vars, Authorized, PreconditionHeld, VersionKnown
<1>4. ASSUME NEW t \in Task, ExternalEdit(t)
      PROVE  Authorized'
  <2>1. /\ UNCHANGED req
        /\ fresh' = ChangedETag(t)
        /\ \E st : status' = [status EXCEPT ![t] = st]
    BY <1>4 DEF ExternalEdit
  <2>2. \A x \in fresh' : status'[req[x].task] = status[req[x].task]
    BY <2>1, WriteRevokes
  <2>3. fresh' \subseteq fresh
    BY <2>1 DEF ChangedETag
  <2>4. QED
    BY <2>1, <2>2, <2>3 DEF Authorized, PreconditionHeld, VersionKnown
<1>5. CASE Crash
  <2>1. AuthorizedRequest(IdleRequest)
    BY DEF AuthorizedRequest, IdleRequest
  <2>2. PreconditionHeld'
    BY <1>5, <2>1 DEF Crash, Authorized, PreconditionHeld
  <2>3. VersionKnown'
    BY <1>5, ConstantsAssumption DEF Crash, Authorized, VersionKnown
  <2>4. QED
    BY <2>2, <2>3 DEF Authorized
<1>6. QED
  BY <1>1, <1>2, <1>3, <1>4, <1>5, AuthorizedServe, AuthorizedReadSnapshot,
     AuthorizedFaults DEF Next

LEMMA AuthorizedInit == Init => Authorized
  BY DEF Init, Authorized, PreconditionHeld, VersionKnown, AuthorizedRequest,
         IdleRequest

\* Only the two Task writes of a request, answered or not, leave "putting" and
\* change a VTODO, and both need the current ETag.
LEMMA TaskWriteIsConditional ==
  ASSUME TypeInv, Next, NEW r \in Request, TaskWrite(r)
  PROVE  r \in fresh
<1>1. ASSUME NEW x \in Request, x # r,
             Serve(x) \/ Confirm(x) \/ Refuse(x) \/ LoseReply(x)
      PROVE  FALSE
  BY <1>1 DEF TaskWrite, Serve, CheckNotCurrent, ReadTask, ReadOpen, Decide,
              ReadHistory, OpenSegment, CloseSegment, PutTask, RereadTask, Conflict,
              Compensate, CreateTask, DeleteTask, Forget, Publish, Confirm, Refuse,
              LoseReply, Return, TypeInv, TypeOK
<1>2. CASE Serve(r) \/ Confirm(r) \/ Refuse(r) \/ LoseReply(r)
  BY <1>2 DEF TaskWrite, Serve, CheckNotCurrent, ReadTask, ReadOpen, Decide,
              ReadHistory, OpenSegment, CloseSegment, PutTask, RereadTask, Conflict,
              Compensate, CreateTask, DeleteTask, Forget, Publish, Confirm, Refuse,
              LoseReply
<1>3. ASSUME NEW x \in Request,
             \/ ReadSnapshot(x)
             \/ \E o \in AllOperations, t \in Task, g \in Status : Begin(x, o, t, g)
      PROVE  FALSE
  <2>1. ReadSnapshot(x) => UNCHANGED status
    BY Zenon DEF ReadSnapshot
  <2>2. (\E o \in AllOperations, t \in Task, g \in Status : Begin(x, o, t, g))
            => UNCHANGED status
    BY DEF Begin
  <2>3. QED
    BY <1>3, <2>1, <2>2 DEF TaskWrite
<1>4. ASSUME RefreshRead \/ RefreshWrite \/ Crash \/ \E t \in Task : ExternalEdit(t)
      PROVE  FALSE
  BY <1>4 DEF TaskWrite, RefreshRead, RefreshWrite, Crash, ExternalEdit
<1>5. QED
  BY <1>1, <1>2, <1>3, <1>4 DEF Next

\* No lifecycle write overwrites a VTODO that is not the one its precondition was
\* checked on, for any number of requests, devices, faults and foreign edits; only a
\* call that had to read the Task from the snapshot overwrites what the adapter finds,
\* and a start is never such a call.
THEOREM WritesAuthorized == Spec => WritesAreAuthorized
<1> DEFINE A == \A r \in Request :
                  LET q == req[r] IN
                  TaskWrite(r)
                      => \/ q.via = "reread" /\ q.op # "start"
                         \/ /\ status[q.task] = q.saw
                            /\ q.op = "start" => status[q.task] \notin Terminal
                            /\ q.op = "switch_away" => status[q.task] = "IN-PROCESS"
<1>1. TypeInv /\ Authorized /\ [Next]_vars => [A]_vars
  <2> SUFFICES ASSUME TypeInv, Authorized, Next, NEW r \in Request, TaskWrite(r)
               PROVE  \/ req[r].via = "reread" /\ req[r].op # "start"
                      \/ /\ status[req[r].task] = req[r].saw
                         /\ req[r].op = "start"
                               => status[req[r].task] \notin Terminal
                         /\ req[r].op = "switch_away"
                               => status[req[r].task] = "IN-PROCESS"
    OBVIOUS
  <2>1. r \in fresh /\ req[r].pc = "putting" /\ req[r] \in RequestState
    BY TaskWriteIsConditional DEF TaskWrite, TypeInv, TypeOK
  <2>2. AuthorizedRequest(req[r])
    BY DEF Authorized, PreconditionHeld
  <2>3. CASE req[r].via = "reread"
    BY <2>1, <2>2, <2>3 DEF AuthorizedRequest
  <2>4. CASE req[r].via # "reread"
    <3>1. status[req[r].task] = req[r].saw
      BY <2>1, <2>4 DEF RequestState, Authorized, VersionKnown
    <3>2. QED
      BY <2>1, <2>2, <3>1 DEF AuthorizedRequest
  <2>5. QED
    BY <2>3, <2>4
<1>2. QED
  BY <1>1, TypeInit, TypeNext, AuthorizedInit, AuthorizedNext, PTL
  DEF Spec, WritesAreAuthorized

-----------------------------------------------------------------------------
(***************************************************************************)
(* Work intervals: answered work is never thrown away, and every interval  *)
(* is accounted for.                                                       *)
(***************************************************************************)

(***************************************************************************)
(* The inductive invariant.  Opens(q, s): request q has opened s and not   *)
(* yet answered.  Such an s belongs to q alone, is no answered work, and   *)
(* still exists; whatever a request has seen was opened at some time.      *)
(***************************************************************************)
Opens(q, s) ==
    /\ q.op \in {"start", "resume"} /\ q.seg = s
    /\ q.pc \in {"putting", "compensating", "publishing"}

Seen ==
    \A r \in Request, s \in Segment :
        s \in req[r].open \/ s = req[r].seg => phase[s] # "unused"

OwnInterval ==
    \A r \in Request, s \in Segment :
        Opens(req[r], s) =>
            /\ s \notin granted
            /\ phase[s] \in {"open", "closed"}
            /\ \A x \in Request : Opens(req[x], s) => x = r

Kept == Seen /\ OwnInterval /\ GrantedWorkIsKept

\* A request moves on; what was opened stays opened, and only an interval of its
\* own is deleted or answered.
LEMMA KeptStep ==
  ASSUME TypeInv, Kept, NEW r \in Request, NEW q \in RequestState,
         req' = [req EXCEPT ![r] = q],
         \A s \in Segment : s \in q.open \/ s = q.seg => phase'[s] # "unused",
         \A s \in Segment : phase[s] # "unused" => phase'[s] # "unused",
         \A s \in Segment :
            phase[s] \in {"open", "closed"} =>
                phase'[s] \in {"open", "closed"} \/ (Opens(req[r], s) /\ ~Opens(q, s)),
         \A s \in Segment :
            Opens(q, s) => Opens(req[r], s) \/ (phase[s] = "unused" /\ phase'[s] = "open"),
         \A s \in granted' : \/ s \in granted
                             \/ /\ Opens(req[r], s) /\ ~Opens(q, s)
                                /\ phase'[s] \in {"open", "closed"},
         granted' \subseteq Segment
  PROVE  Kept'
<1>0. /\ req'[r] = q
      /\ \A x \in Request : x # r => req'[x] = req[x]
  BY DEF TypeInv, TypeOK
<1>1. Seen'
  BY <1>0 DEF Kept, Seen
<1>2. \A s \in Segment : phase[s] = "unused" =>
            s \notin granted /\ \A x \in Request : ~Opens(req[x], s)
  BY DEF Kept, Seen, GrantedWorkIsKept, Opens
<1>3. OwnInterval'
  <2> SUFFICES ASSUME NEW x \in Request, NEW s \in Segment, Opens(req'[x], s)
               PROVE  /\ s \notin granted'
                      /\ phase'[s] \in {"open", "closed"}
                      /\ \A y \in Request : Opens(req'[y], s) => y = x
    BY DEF OwnInterval, Opens
  <2>1. CASE x = r
    BY <2>1, <1>0, <1>2 DEF Kept, OwnInterval
  <2>2. CASE x # r
    BY <2>2, <1>0, <1>2 DEF Kept, OwnInterval
  <2>3. QED
    BY <2>1, <2>2
<1>4. GrantedWorkIsKept'
  BY DEF Kept, OwnInterval, GrantedWorkIsKept, TypeInv, TypeOK
<1>5. QED
  BY <1>1, <1>3, <1>4 DEF Kept

\* A request that is not about to answer or to undo is over without a trace.
LEMMA KeptReturn ==
  ASSUME TypeInv, Kept, NEW r \in Request, Return(r), UNCHANGED <<phase, granted>>
  PROVE  Kept'
<1>1. \A s \in Segment : ~Opens(IdleRequest, s) /\ s \notin IdleRequest.open
                            /\ s # IdleRequest.seg
  BY ConstantsAssumption DEF Opens, IdleRequest
<1>2. \A s \in granted' : s \in granted
  OBVIOUS
<1>3. granted' \subseteq Segment
  BY DEF TypeInv, TypeOK
<1>4. QED
  BY <1>1, <1>2, <1>3, IdleIsRequest, KeptStep DEF Return

\* A request moves on and touches no interval.
LEMMA KeptMove ==
  ASSUME TypeInv, Kept, NEW r \in Request, NEW q \in RequestState,
         req' = [req EXCEPT ![r] = q], UNCHANGED <<phase, granted>>,
         q.open \subseteq req[r].open \cup OpenSegments,
         q.seg \in {None, req[r].seg} \cup req[r].open,
         \A s \in Segment : Opens(q, s) => Opens(req[r], s)
  PROVE  Kept'
<1>1. \A s \in Segment : s \in q.open \/ s = q.seg => phase'[s] # "unused"
  BY ConstantsAssumption DEF Kept, Seen, OpenSegments
<1>2. granted' \subseteq Segment /\ \A s \in granted' : s \in granted
  BY DEF TypeInv, TypeOK
<1>3. QED
  BY <1>1, <1>2, KeptStep

LEMMA KeptFailedPut ==
  ASSUME TypeInv, Kept, NEW r \in Request, req[r].pc = "putting",
         req' = [req EXCEPT ![r] = AfterFailedPut(req[r])],
         UNCHANGED <<phase, granted>>
  PROVE  Kept'
<1> DEFINE n == AfterFailedPut(req[r])
<1>1. req[r] \in RequestState
  BY DEF TypeInv, TypeOK
<1>2. /\ n \in RequestState
      /\ n \in {IdleRequest, [req[r] EXCEPT !.pc = "compensating"]}
  BY <1>1, AfterFailedPutType
<1>3. /\ n.open \subseteq req[r].open
      /\ n.seg \in {None, req[r].seg}
      /\ \A s \in Segment : Opens(n, s) => Opens(req[r], s)
  BY <1>1, <1>2, ConstantsAssumption DEF Opens, IdleRequest, RequestState
<1> HIDE DEF n
<1>4. QED
  BY <1>2, <1>3, KeptMove DEF n

LEMMA KeptServe ==
  ASSUME TypeInv, Kept, NEW r \in Request, Serve(r)
  PROVE  Kept'
<1> DEFINE q == req[r]
<1>0. /\ TypeOK
      /\ q \in RequestState /\ AssignedRequest(q)
      /\ granted \subseteq Segment
  BY DEF TypeInv, TypeOK, Assigned
<1>a. ASSUME NEW c \in PC, UNCHANGED <<phase, granted>>,
             req' = [req EXCEPT ![r].pc = c],
             c \in {"putting", "compensating", "publishing"}
                => \/ q.pc \in {"putting", "compensating", "publishing"}
                   \/ q.op \notin {"start", "resume"}
      PROVE  Kept'
  <2> DEFINE n == [q EXCEPT !.pc = c]
  <2>1. req' = [req EXCEPT ![r] = n]
    BY <1>a, <1>0 DEF TypeOK
  <2>2. n \in RequestState
    BY <1>a, <1>0 DEF RequestState
  <2>3. n.pc = c /\ n.seg = q.seg /\ n.open = q.open /\ n.op = q.op
    BY <1>0 DEF RequestState
  <2>4. \A s \in Segment : Opens(n, s) => Opens(q, s)
    BY <1>a, <2>3 DEF Opens
  <2> HIDE DEF n
  <2>5. QED
    BY <1>a, <2>1, <2>2, <2>3, <2>4, KeptMove
<1>1. CASE CheckNotCurrent(r)
  BY <1>1, <1>a, KeptReturn DEF CheckNotCurrent, PC
<1>2. CASE ReadTask(r)
  <2>1. CASE Return(r)
    BY <2>1, <1>2, KeptReturn DEF ReadTask
  <2>2. CASE ~Return(r)
    <3> DEFINE n == [q EXCEPT !.saw = status[q.task],
                              !.reads = @ \cup {"task"}]
    <3>1. req' = [req EXCEPT ![r] = n] /\ UNCHANGED <<phase, granted>>
      BY <2>2, <1>2, <1>0 DEF ReadTask, TypeOK
    <3>2. n \in RequestState
      BY <1>2, <1>0 DEF ReadTask, RequestState, TypeOK, AssignedRequest
    <3>3. n.pc = q.pc /\ n.seg = q.seg /\ n.open = q.open /\ n.op = q.op
      BY <1>0 DEF RequestState
    <3> HIDE DEF n
    <3>4. \A s \in Segment : Opens(n, s) => Opens(q, s)
      BY <3>3 DEF Opens
    <3>5. QED
      BY <3>1, <3>2, <3>3, <3>4, KeptMove
  <2>3. QED
    BY <2>1, <2>2
<1>3. CASE ReadOpen(r)
  <2> DEFINE n == [q EXCEPT !.open = OpenSegments,
                            !.reads = @ \cup {"open"}]
  <2>1. req' = [req EXCEPT ![r] = n] /\ UNCHANGED <<phase, granted>>
    BY <1>3, <1>0 DEF ReadOpen, TypeOK
  <2>2. n \in RequestState
    BY <1>0, ReadOpenType, Zenon
  <2>3. n.pc = q.pc /\ n.seg = q.seg /\ n.open = OpenSegments /\ n.op = q.op
    BY <1>0 DEF RequestState
  <2> HIDE DEF n
  <2>4. \A s \in Segment : Opens(n, s) => Opens(q, s)
    BY <2>3 DEF Opens
  <2>5. QED
    BY <2>1, <2>2, <2>3, <2>4, KeptMove
<1>4. CASE Decide(r)
  <2> DEFINE cur == CurrentTask(q.open)
             call == FirstCall(q.op, cur = q.task)
             seg == IF cur = q.task /\ q.op # "delete"
                    THEN CHOOSE s \in q.open : TRUE ELSE None
             n == [q EXCEPT !.pc = call, !.seg = seg, !.open = {}]
  <2>1. CASE Return(r)
    BY <2>1, <1>4, KeptReturn DEF Decide
  <2>2. CASE ~Return(r)
    <3>1. req' = [req EXCEPT ![r] = n] /\ UNCHANGED <<phase, granted>>
      BY <2>2, <1>4 DEF Decide
    <3>2. q.task \in Task /\ q.open \in SUBSET Segment
      BY <1>0, <1>4 DEF Decide, RequestState, AssignedRequest
    <3>3. seg \in {None} \cup q.open
      BY <3>2, <1>0, CurrentTaskRange
    <3>4. /\ call \in PC
          /\ call \in {"putting", "compensating", "publishing"}
                => q.op \notin {"start", "resume"}
      BY DEF FirstCall, PC
    <3> HIDE DEF call, seg
    <3>5. n \in RequestState
      BY <1>0, <3>2, <3>3, <3>4 DEF RequestState
    <3>6. n.pc = call /\ n.seg = seg /\ n.open = {} /\ n.op = q.op
      BY <1>0 DEF RequestState
    <3> HIDE DEF n
    <3>7. QED
      BY <3>1, <3>3, <3>4, <3>5, <3>6, KeptMove DEF Opens
  <2>3. QED
    BY <2>1, <2>2
<1>5. CASE ReadHistory(r)
  BY <1>5, <1>a, KeptReturn DEF ReadHistory, PC
<1>6. CASE OpenSegment(r)
  <2>1. PICK s \in Segment :
            /\ phase[s] = "unused"
            /\ phase' = [phase EXCEPT ![s] = "open"]
            /\ req' = [req EXCEPT ![r].seg = s,
                                  ![r].pc = IF q.op = "start"
                                            THEN "putting" ELSE "publishing"]
    BY <1>6 DEF OpenSegment
  <2> DEFINE n == [q EXCEPT !.seg = s,
                            !.pc = IF q.op = "start"
                                   THEN "putting" ELSE "publishing"]
  <2>2. req' = [req EXCEPT ![r] = n]
    BY <2>1, <1>0 DEF TypeOK
  <2>3. n \in RequestState
    BY <1>0, OpenSegmentType, Zenon
  <2>4. n.seg = s /\ n.open = q.open
    BY <1>0 DEF RequestState
  <2> HIDE DEF n
  <2>5. phase'[s] = "open" /\ \A x \in Segment \ {s} : phase'[x] = phase[x]
    BY <2>1, <1>0 DEF TypeOK
  <2>6. \A x \in Segment : x \in n.open \/ x = n.seg => phase'[x] # "unused"
    BY <2>4, <2>5 DEF Kept, Seen
  <2>7. \A x \in Segment : Opens(n, x) => phase[x] = "unused" /\ phase'[x] = "open"
    BY <2>1, <2>4, <2>5 DEF Opens
  <2>8. granted' = granted
    BY <1>6 DEF OpenSegment
  <2>9. /\ \A x \in Segment : phase[x] # "unused" => phase'[x] # "unused"
        /\ \A x \in Segment :
              phase[x] \in {"open", "closed"} => phase'[x] \in {"open", "closed"}
    BY <2>1, <2>5
  <2>10. granted' \subseteq Segment /\ \A x \in granted' : x \in granted
    BY <2>8, <1>0
  <2>11. QED
    BY <2>2, <2>3, <2>6, <2>7, <2>9, <2>10, KeptStep
<1>7. CASE CloseSegment(r)
  <2>1. CASE Return(r) /\ UNCHANGED phase
    BY <2>1, <1>7, KeptReturn DEF CloseSegment
  <2>2. CASE ~(Return(r) /\ UNCHANGED phase)
    <3> DEFINE n == [q EXCEPT !.pc = IF q.op = "pause"
                                     THEN "publishing" ELSE "putting"]
    <3>1. /\ phase' = [phase EXCEPT ![q.seg] = "closed"]
          /\ phase[q.seg] # "deleted"
          /\ req' = [req EXCEPT ![r] = n]
          /\ granted' = granted
          /\ q.op \notin {"start", "resume"}
      BY <2>2, <1>7, <1>0 DEF CloseSegment, TypeOK, AssignedRequest
    <3>2. n \in RequestState
      BY <1>0 DEF RequestState, PC
    <3>3. n.seg = q.seg /\ n.open = q.open /\ n.op = q.op
      BY <1>0 DEF RequestState
    <3> HIDE DEF n
    <3>4. \A x \in Segment : ~Opens(n, x)
      BY <3>1, <3>3 DEF Opens
    <3>5. \A x \in Segment : phase'[x] = IF x = q.seg THEN "closed" ELSE phase[x]
      BY <3>1, <1>0 DEF TypeOK
    <3>6. \A x \in Segment : x \in n.open \/ x = n.seg => phase'[x] # "unused"
      BY <3>3, <3>5 DEF Kept, Seen
    <3>7. /\ \A x \in Segment : phase[x] # "unused" => phase'[x] # "unused"
          /\ \A x \in Segment :
                phase[x] \in {"open", "closed"} => phase'[x] \in {"open", "closed"}
      BY <3>5
    <3>8. granted' \subseteq Segment /\ \A x \in granted' : x \in granted
      BY <3>1, <1>0
    <3>9. QED
      BY <3>1, <3>2, <3>4, <3>6, <3>7, <3>8, KeptStep
  <2>3. QED
    BY <2>1, <2>2
<1>8. CASE PutTask(r)
  <2>1. /\ q.pc = "putting"
        /\ req' = [req EXCEPT ![r] = AfterPut(q)]
        /\ UNCHANGED <<phase, granted>>
    BY <1>8 DEF PutTask
  <2>2. AfterPut(q) \in RequestState
    BY <2>1, <1>0, AfterPutType
  <2>3. /\ AfterPut(q).open \subseteq q.open
        /\ AfterPut(q).seg \in {None, q.seg}
        /\ \A s \in Segment : Opens(AfterPut(q), s) => Opens(q, s)
    BY <2>1, <1>0, AfterPutType, ConstantsAssumption
    DEF Opens, IdleRequest, RequestState
  <2>4. QED
    BY <2>1, <2>2, <2>3, KeptMove
<1>9. CASE Conflict(r)
  <2>1. /\ q.pc = "putting"
        /\ req' = [req EXCEPT ![r] = AfterFailedPut(q)]
        /\ UNCHANGED <<phase, granted>>
    BY <1>9 DEF Conflict
  <2>2. QED
    BY <2>1, <1>0, KeptFailedPut
<1>10. CASE Compensate(r)
  <2>1. /\ q.pc = "compensating"
        /\ req' = [req EXCEPT ![r] = IdleRequest]
        /\ granted' = granted
    BY <1>10 DEF Compensate, Return
  <2>2. \A x \in Segment : ~Opens(IdleRequest, x) /\ x \notin IdleRequest.open
                                /\ x # IdleRequest.seg
    BY ConstantsAssumption DEF Opens, IdleRequest
  <2>3. \A x \in Segment : x # q.seg => phase'[x] = phase[x]
    BY <1>10, <1>0 DEF Compensate, TypeOK
  <2>4. CASE q.op = "start"
    <3>1. \A x \in Segment : x = q.seg => Opens(q, x)
      BY <2>1, <2>4 DEF Opens
    <3>2. \A x \in Segment : x = q.seg => phase'[x] = "deleted"
      BY <1>10, <2>4, <1>0 DEF Compensate, TypeOK
    <3>3. /\ \A x \in Segment : phase[x] # "unused" => phase'[x] # "unused"
          /\ \A x \in Segment :
                phase[x] \in {"open", "closed"} =>
                    \/ phase'[x] \in {"open", "closed"}
                    \/ Opens(q, x) /\ ~Opens(IdleRequest, x)
      BY <2>2, <2>3, <3>1, <3>2
    <3>4. granted' \subseteq Segment /\ \A x \in granted' : x \in granted
      BY <2>1, <1>0
    <3>5. QED
      BY <2>1, <2>2, <3>3, <3>4, IdleIsRequest, KeptStep
  <2>5. CASE q.op # "start"
    <3>1. \A x \in Segment : x = q.seg =>
              phase'[x] = IF phase[x] = "deleted" THEN "deleted" ELSE "open"
      BY <1>10, <2>5, <1>0 DEF Compensate, TypeOK
    <3>2. phase[q.seg] # "unused" \/ q.seg \notin Segment
      BY DEF Kept, Seen
    <3>3. /\ \A x \in Segment : phase[x] # "unused" => phase'[x] # "unused"
          /\ \A x \in Segment :
                phase[x] \in {"open", "closed"} => phase'[x] \in {"open", "closed"}
      BY <2>3, <3>1, <3>2
    <3>4. granted' \subseteq Segment /\ \A x \in granted' : x \in granted
      BY <2>1, <1>0
    <3>5. QED
      BY <2>1, <2>2, <3>3, <3>4, IdleIsRequest, KeptStep
  <2>6. QED
    BY <2>4, <2>5
<1>11. CASE CreateTask(r)
  BY <1>11, KeptReturn DEF CreateTask
<1>12. CASE DeleteTask(r)
  <2>1. CASE Return(r)
    BY <2>1, <1>12, KeptReturn DEF DeleteTask
  <2>2. CASE ~Return(r)
    BY <2>2, <1>12, <1>a DEF DeleteTask, PC
  <2>3. QED
    BY <2>1, <2>2
<1>13. CASE Forget(r)
  <2>1. q.op \notin {"start", "resume"}
    BY <1>13, <1>0 DEF Forget, AssignedRequest
  <2>2. QED
    BY <1>13, <2>1, <1>a, KeptReturn DEF Forget, PC
<1>14. CASE Publish(r)
  <2>1. /\ q.pc = "publishing"
        /\ req' = [req EXCEPT ![r] = IdleRequest]
        /\ phase' = phase
        /\ granted' = IF q.op \in {"start", "resume"}
                       THEN granted \cup {q.seg} ELSE granted
    BY <1>14 DEF Publish, Return
  <2>2. \A x \in Segment : ~Opens(IdleRequest, x) /\ x \notin IdleRequest.open
                                /\ x # IdleRequest.seg
    BY ConstantsAssumption DEF Opens, IdleRequest
  <2>3. q.op \in {"start", "resume"} =>
            /\ q.seg \in Segment /\ Opens(q, q.seg)
            /\ phase[q.seg] \in {"open", "closed"}
    BY <2>1, <1>0 DEF AssignedRequest, Opens, Kept, OwnInterval
  <2>4. QED
    BY <1>0, <2>1, <2>2, <2>3, IdleIsRequest, KeptStep
<1>15. CASE RereadTask(r)
  <2>1. q.pc = "putting" /\ UNCHANGED <<phase, granted>>
    BY <1>15 DEF RereadTask
  <2>2. CASE req' = [req EXCEPT ![r] = AfterFailedPut(q)]
    BY <2>1, <2>2, <1>0, KeptFailedPut
  <2>3. CASE req' = [req EXCEPT ![r].via = "reread"]
    <3> DEFINE n == [q EXCEPT !.via = "reread"]
    <3>1. req' = [req EXCEPT ![r] = n]
      BY <2>3, <1>0 DEF TypeOK
    <3>2. n \in RequestState
      BY <1>0 DEF RequestState
    <3>3. n.pc = q.pc /\ n.seg = q.seg /\ n.open = q.open /\ n.op = q.op
      BY <1>0 DEF RequestState
    <3> HIDE DEF n
    <3>4. QED
      BY <2>1, <3>1, <3>2, <3>3, KeptMove DEF Opens
  <2>4. QED
    BY <1>15, <2>2, <2>3 DEF RereadTask
<1>16. QED
  BY <1>1, <1>2, <1>3, <1>4, <1>5, <1>6, <1>7, <1>8, <1>9, <1>10, <1>11,
     <1>12, <1>13, <1>14, <1>15 DEF Serve

LEMMA KeptReadSnapshot ==
  ASSUME TypeInv, Kept, NEW r \in Request, ReadSnapshot(r)
  PROVE  Kept'
<1> DEFINE q == req[r]
           n(st) == [q EXCEPT !.saw = st, !.via = "snapshot",
                              !.reads = q.reads \cup {"task"}]
<1>0. q \in RequestState
  BY DEF TypeInv, TypeOK
<1>1. PICK st \in Status : req' = [req EXCEPT ![r] = n(st)]
  BY Zenon DEF ReadSnapshot
<1>2. UNCHANGED <<phase, granted>>
  BY DEF ReadSnapshot
<1>3. n(st) \in RequestState
  BY <1>0 DEF RequestState
<1>4. /\ n(st).pc = q.pc /\ n(st).seg = q.seg
      /\ n(st).open = q.open /\ n(st).op = q.op
  BY <1>0 DEF RequestState
<1> HIDE DEF n
<1>5. QED
  BY <1>1, <1>2, <1>3, <1>4, KeptMove DEF Opens

LEMMA KeptFaults ==
  ASSUME TypeInv, Kept, NEW r \in Request, Refuse(r) \/ LoseReply(r)
  PROVE  Kept'
<1> DEFINE q == req[r]
<1>0. /\ TypeOK
      /\ q \in RequestState /\ AssignedRequest(q)
      /\ granted' = granted /\ granted \subseteq Segment
      /\ \A s \in granted' : s \in granted
  BY DEF TypeInv, TypeOK, Assigned, Refuse, LoseReply
<1>1. \A x \in Segment : ~Opens(IdleRequest, x) /\ x \notin IdleRequest.open
                              /\ x # IdleRequest.seg
  BY ConstantsAssumption DEF Opens, IdleRequest
<1>2. CASE Return(r) /\ UNCHANGED phase
  BY <1>0, <1>2, KeptReturn
<1>3. CASE /\ q.pc = "putting"
           /\ req' = [req EXCEPT ![r] = AfterFailedPut(q)]
           /\ UNCHANGED phase
  BY <1>0, <1>3, KeptFailedPut
<1>4. CASE /\ q.pc = "opening" /\ Return(r)
           /\ \E s \in Segment :
                /\ phase[s] = "unused"
                /\ phase' = [phase EXCEPT ![s] = "open"]
  <2>1. /\ \A x \in Segment : phase[x] # "unused" => phase'[x] # "unused"
        /\ \A x \in Segment :
              phase[x] \in {"open", "closed"} => phase'[x] \in {"open", "closed"}
    BY <1>4, <1>0 DEF TypeOK
  <2>2. req' = [req EXCEPT ![r] = IdleRequest]
    BY <1>4 DEF Return
  <2>3. QED
    BY <1>0, <1>1, <2>1, <2>2, IdleIsRequest, KeptStep
<1>5. CASE /\ q.pc = "closing" /\ phase[q.seg] # "deleted" /\ Return(r)
           /\ phase' = [phase EXCEPT ![q.seg] = "closed"]
  <2>1. /\ \A x \in Segment : phase[x] # "unused" => phase'[x] # "unused"
        /\ \A x \in Segment :
              phase[x] \in {"open", "closed"} => phase'[x] \in {"open", "closed"}
    BY <1>5, <1>0 DEF TypeOK
  <2>2. req' = [req EXCEPT ![r] = IdleRequest]
    BY <1>5 DEF Return
  <2>3. QED
    BY <1>0, <1>1, <2>1, <2>2, IdleIsRequest, KeptStep
<1>6. CASE /\ q.pc = "deleting"
           /\ req' = [req EXCEPT ![r] = IdleRequest]
           /\ UNCHANGED phase
  BY <1>0, <1>1, <1>6, IdleIsRequest, KeptStep
<1>7. QED
  BY <1>2, <1>3, <1>4, <1>5, <1>6 DEF Refuse, LoseReply

LEMMA KeptNext == TypeInv /\ Kept /\ [Next]_vars => Kept'
<1> SUFFICES ASSUME TypeInv, Kept, [Next]_vars PROVE Kept'
  OBVIOUS
<1>0. \A x \in Segment : ~Opens(IdleRequest, x) /\ x \notin IdleRequest.open
                              /\ x # IdleRequest.seg
  BY ConstantsAssumption DEF Opens, IdleRequest
<1>1. ASSUME NEW r \in Request, NEW o \in AllOperations, NEW t \in Task,
             NEW g \in Status, Begin(r, o, t, g)
      PROVE  Kept'
  <2> DEFINE q == [IdleRequest EXCEPT !.pc = FirstStep(o), !.op = o,
                                      !.task = t, !.goal = g]
  <2>1. q \in RequestState
    BY DEF IdleRequest, RequestState, PC, FirstStep, Status
  <2>2. q.pc \in {"checking", "creating", "reading"} /\ q.open = {} /\ q.seg = None
    BY DEF IdleRequest, FirstStep
  <2>3. req' = [req EXCEPT ![r] = q] /\ UNCHANGED <<phase, granted>>
    BY <1>1 DEF Begin
  <2> HIDE DEF q
  <2>4. QED
    BY <2>1, <2>2, <2>3, KeptMove DEF Opens
<1>2. ASSUME NEW r \in Request, Confirm(r)
      PROVE  Kept'
  <2>1. CASE Return(r)
    BY <2>1, <1>2, KeptReturn DEF Confirm
  <2>2. CASE ~Return(r)
    <3> DEFINE n == [req[r] EXCEPT !.pc = "reading", !.op = "delete"]
    <3>1. req' = [req EXCEPT ![r] = n] /\ UNCHANGED <<phase, granted>>
      BY <1>2, <2>2 DEF Confirm, TypeInv, TypeOK
    <3>2. req[r] \in RequestState
      BY DEF TypeInv, TypeOK
    <3>3. n \in RequestState
      BY <3>2, ConfirmType, Zenon
    <3>4. n.pc = "reading" /\ n.seg = req[r].seg /\ n.open = req[r].open
      BY <3>2 DEF RequestState
    <3> HIDE DEF n
    <3>5. QED
      BY <3>1, <3>3, <3>4, KeptMove DEF Opens
  <2>3. QED
    BY <2>1, <2>2
<1>3. ASSUME UNCHANGED <<req, phase, granted>>
      PROVE  Kept'
  BY <1>3 DEF Kept, Seen, OwnInterval, GrantedWorkIsKept
<1>4. CASE RefreshRead \/ RefreshWrite \/ UNCHANGED vars
  BY <1>3, <1>4 DEF RefreshRead, RefreshWrite, vars
<1>5. ASSUME NEW t \in Task, ExternalEdit(t)
      PROVE  Kept'
  BY <1>3, <1>5 DEF ExternalEdit
<1>6. CASE Crash
  <2>1. /\ UNCHANGED <<phase, granted>>
        /\ \A r \in Request : req'[r] \in {req[r], IdleRequest}
    BY <1>6 DEF Crash
  <2>2. QED
    BY <1>0, <2>1 DEF Kept, Seen, OwnInterval, GrantedWorkIsKept
<1>7. QED
  BY <1>1, <1>2, <1>4, <1>5, <1>6, KeptServe, KeptReadSnapshot, KeptFaults
  DEF Next

\* Work that was answered "ok" is never thrown away, whatever fails.
THEOREM GrantedWorkKept == Spec => []GrantedWorkIsKept
<1>1. Init => Kept
  BY ConstantsAssumption
  DEF Init, Kept, Seen, OwnInterval, Opens, GrantedWorkIsKept, IdleRequest
<1>2. Kept => GrantedWorkIsKept
  BY DEF Kept
<1>3. QED
  BY <1>1, <1>2, TypeInit, TypeNext, KeptNext, PTL DEF Spec

(***************************************************************************)
(* Every interval is accounted for, whatever fails.                        *)
(***************************************************************************)
Accounted == Kept /\ IntervalsAreAccounted

\* Whoever opened an interval and has not answered still has it after a step, has
\* answered, was cut short, or has deleted it.
LEMMA AccountedStep ==
  ASSUME IntervalsAreAccounted, NEW r \in Request,
         \A x \in Request : x # r => req'[x] = req[x],
         granted \cup severed \subseteq granted' \cup severed',
         \A s \in Segment : phase'[s] \in {"open", "closed"} =>
            \/ phase[s] \in {"open", "closed"} /\ ~Opens(req[r], s)
            \/ s \in granted' \cup severed' \/ Opens(req'[r], s)
  PROVE  IntervalsAreAccounted'
<1> SUFFICES ASSUME NEW s \in Segment, phase'[s] \in {"open", "closed"},
                    s \notin granted' \cup severed'
             PROVE  OpenerInFlight(s)'
  BY DEF IntervalsAreAccounted
<1>1. CASE Opens(req'[r], s)
  BY <1>1 DEF OpenerInFlight, Opens
<1>2. CASE ~Opens(req'[r], s)
  <2>1. phase[s] \in {"open", "closed"} /\ ~Opens(req[r], s)
        /\ s \notin granted \cup severed
    BY <1>2
  <2>2. PICK x \in Request : Opens(req[x], s)
    BY <2>1 DEF IntervalsAreAccounted, OpenerInFlight, Opens
  <2>3. x # r
    BY <2>1, <2>2
  <2>4. QED
    BY <2>2, <2>3 DEF OpenerInFlight, Opens
<1>3. QED
  BY <1>1, <1>2

LEMMA OthersStand ==
  ASSUME TypeInv, NEW r \in Request, Serve(r)
  PROVE  \A x \in Request : x # r => req'[x] = req[x]
  BY DEF Serve, CheckNotCurrent, ReadTask, ReadOpen, Decide, ReadHistory,
         OpenSegment, CloseSegment, PutTask, RereadTask, Conflict, Compensate, CreateTask,
         DeleteTask, Forget, Publish, Return, TypeInv, TypeOK

LEMMA AccountedServe ==
  ASSUME TypeInv, Accounted, NEW r \in Request, Serve(r)
  PROVE  IntervalsAreAccounted'
<1> DEFINE q == req[r]
<1>0. /\ TypeOK /\ Seen /\ IntervalsAreAccounted
      /\ q \in RequestState /\ AssignedRequest(q)
  BY DEF TypeInv, TypeOK, Assigned, Accounted, Kept
<1>1. CASE CheckNotCurrent(r) \/ ReadTask(r) \/ ReadOpen(r) \/ Decide(r)
            \/ ReadHistory(r) \/ CreateTask(r) \/ DeleteTask(r) \/ Forget(r)
  <2>1. UNCHANGED <<phase, history>> /\ \A s \in Segment : ~Opens(q, s)
    BY <1>1 DEF CheckNotCurrent, ReadTask, ReadOpen, Decide, ReadHistory,
                CreateTask, DeleteTask, Forget, Opens
  <2>2. QED
    BY <1>0, <2>1, OthersStand, AccountedStep
<1>2. CASE OpenSegment(r)
  <2>1. PICK s \in Segment :
            /\ phase' = [phase EXCEPT ![s] = "open"]
            /\ req' = [req EXCEPT ![r].seg = s,
                                  ![r].pc = IF q.op = "start"
                                            THEN "putting" ELSE "publishing"]
    BY <1>2 DEF OpenSegment
  <2>2. /\ req'[r].seg = s /\ req'[r].op = q.op
        /\ req'[r].pc \in {"putting", "publishing"}
    BY <2>1, <1>0 DEF TypeOK, RequestState
  <2>3. q.op \in {"start", "resume"} /\ q.pc = "opening" /\ UNCHANGED history
    BY <1>2, <1>0 DEF OpenSegment, AssignedRequest
  <2>4. Opens(req'[r], s) /\ \A x \in Segment : ~Opens(q, x)
    BY <2>2, <2>3 DEF Opens
  <2>5. \A x \in Segment : x # s => phase'[x] = phase[x]
    BY <2>1, <1>0 DEF TypeOK
  <2>6. QED
    BY <1>0, <2>3, <2>4, <2>5, OthersStand, AccountedStep
<1>3. CASE CloseSegment(r)
  <2>1. UNCHANGED history /\ \A s \in Segment : ~Opens(q, s)
    BY <1>3 DEF CloseSegment, Opens
  <2>2. \A s \in Segment :
            phase'[s] \in {"open", "closed"} => phase[s] \in {"open", "closed"}
    BY <1>3, <1>0 DEF CloseSegment, TypeOK, Phase, Seen
  <2>3. QED
    BY <1>0, <2>1, <2>2, OthersStand, AccountedStep
<1>4. CASE PutTask(r)
  <2>1. UNCHANGED <<phase, history>> /\ q.pc = "putting" /\ req'[r] = AfterPut(q)
    BY <1>4, <1>0 DEF PutTask, TypeOK
  <2>2. \A s \in Segment : Opens(q, s) => Opens(AfterPut(q), s)
    BY <2>1, <1>0 DEF Opens, AfterPut, RequestState, AssignedRequest
  <2>3. QED
    BY <1>0, <2>1, <2>2, OthersStand, AccountedStep
<1>5. CASE Conflict(r)
  <2>1. UNCHANGED <<phase, history>> /\ q.pc = "putting" /\ req'[r] = AfterFailedPut(q)
    BY <1>5, <1>0 DEF Conflict, TypeOK
  <2>2. \A s \in Segment : Opens(q, s) => Opens(AfterFailedPut(q), s)
    BY <2>1, <1>0, ConstantsAssumption
    DEF Opens, AfterFailedPut, RequestState, AssignedRequest
  <2>3. QED
    BY <1>0, <2>1, <2>2, OthersStand, AccountedStep
<1>6. CASE Compensate(r)
  <2>1. UNCHANGED history /\ \A s \in Segment : s # q.seg => phase'[s] = phase[s]
    BY <1>6, <1>0 DEF Compensate, TypeOK
  <2>2. q.op = "start" => \A s \in Segment : s = q.seg => phase'[s] = "deleted"
    BY <1>6, <1>0 DEF Compensate, TypeOK
  <2>3. q.op # "start" => \A s \in Segment : ~Opens(q, s)
    BY <1>6, <1>0 DEF Compensate, Opens, AssignedRequest
  <2>4. \A s \in Segment :
            phase'[s] \in {"open", "closed"} => phase[s] \in {"open", "closed"}
    BY <1>6, <1>0 DEF Compensate, TypeOK, Phase, Seen
  <2>5. \A s \in Segment : s # q.seg => ~Opens(q, s)
    BY DEF Opens
  <2>6. \A s \in Segment : phase'[s] \in {"open", "closed"} =>
            phase[s] \in {"open", "closed"} /\ ~Opens(q, s)
    BY <2>2, <2>3, <2>4, <2>5
  <2>7. QED
    BY <1>0, <2>1, <2>6, OthersStand, AccountedStep
<1>7. CASE Publish(r)
  <2>1. /\ UNCHANGED <<phase, severed>> /\ q.pc = "publishing"
        /\ granted' = IF q.op \in {"start", "resume"}
                       THEN granted \cup {q.seg} ELSE granted
    BY <1>7 DEF Publish
  <2>2. \A s \in Segment : Opens(q, s) => s \in granted'
    BY <2>1 DEF Opens
  <2>3. QED
    BY <1>0, <2>1, <2>2, OthersStand, AccountedStep
<1>8. CASE RereadTask(r)
  <2>1. UNCHANGED <<phase, history>> /\ q.pc = "putting"
    BY <1>8 DEF RereadTask
  <2>2. req'[r] \in {AfterFailedPut(q), [q EXCEPT !.via = "reread"]}
    BY <1>8, <1>0 DEF RereadTask, TypeOK
  <2>3. \A s \in Segment : Opens(q, s) => Opens(AfterFailedPut(q), s)
    BY <2>1, <1>0, ConstantsAssumption
    DEF Opens, AfterFailedPut, RequestState, AssignedRequest
  <2>4. \A s \in Segment : Opens(q, s) => Opens([q EXCEPT !.via = "reread"], s)
    BY <1>0 DEF Opens, RequestState
  <2>5. \A s \in Segment : Opens(q, s) => Opens(req'[r], s)
    BY <2>2, <2>3, <2>4
  <2>6. QED
    BY <1>0, <2>1, <2>5, OthersStand, AccountedStep
<1>9. QED
  BY <1>1, <1>2, <1>3, <1>4, <1>5, <1>6, <1>7, <1>8 DEF Serve

\* A fault that ends a call which has opened an interval puts it down as cut short.
LEMMA AccountedFaults ==
  ASSUME TypeInv, Accounted, NEW r \in Request, Refuse(r) \/ LoseReply(r)
  PROVE  IntervalsAreAccounted'
<1> DEFINE q == req[r]
<1>0. /\ TypeOK /\ Seen /\ IntervalsAreAccounted
      /\ q \in RequestState /\ AssignedRequest(q)
      /\ UNCHANGED granted
  BY DEF TypeInv, TypeOK, Assigned, Accounted, Kept, Refuse, LoseReply
<1>1. \A x \in Request : x # r => req'[x] = req[x]
  BY <1>0 DEF Refuse, LoseReply, Return, TypeOK
<1>2. CASE Return(r) /\ severed' = severed \cup Opened(q) /\ UNCHANGED phase
  <2>1. \A s \in Segment : Opens(q, s) => s \in severed'
    BY <1>2, ConstantsAssumption DEF Opens, Opened
  <2>2. QED
    BY <1>0, <1>1, <1>2, <2>1, AccountedStep
<1>3. CASE /\ q.pc = "putting" /\ UNCHANGED <<phase, severed>>
           /\ req' = [req EXCEPT ![r] = AfterFailedPut(q)]
  <2>1. req'[r] = AfterFailedPut(q)
    BY <1>3, <1>0 DEF TypeOK
  <2>2. \A s \in Segment : Opens(q, s) => Opens(AfterFailedPut(q), s)
    BY <1>3, <1>0, ConstantsAssumption
    DEF Opens, AfterFailedPut, RequestState, AssignedRequest
  <2>3. QED
    BY <1>0, <1>1, <1>3, <2>1, <2>2, AccountedStep
<1>4. CASE /\ q.pc = "opening"
           /\ \E s \in Segment : /\ phase' = [phase EXCEPT ![s] = "open"]
                                 /\ severed' = severed \cup {s}
  <2>1. \A s \in Segment : ~Opens(q, s)
    BY <1>4 DEF Opens
  <2>2. \A s \in Segment : phase'[s] \in {"open", "closed"} =>
            phase[s] \in {"open", "closed"} \/ s \in severed'
    BY <1>4, <1>0 DEF TypeOK
  <2>3. severed \subseteq severed'
    BY <1>4
  <2>4. QED
    BY <1>0, <1>1, <2>1, <2>2, <2>3, AccountedStep
<1>5. CASE /\ q.pc = "closing" /\ phase[q.seg] # "deleted" /\ UNCHANGED severed
           /\ phase' = [phase EXCEPT ![q.seg] = "closed"]
  <2>1. \A s \in Segment : ~Opens(q, s)
    BY <1>5 DEF Opens
  <2>2. \A s \in Segment :
            phase'[s] \in {"open", "closed"} => phase[s] \in {"open", "closed"}
    BY <1>5, <1>0 DEF TypeOK, Phase, Seen
  <2>3. QED
    BY <1>0, <1>1, <1>5, <2>1, <2>2, AccountedStep
<1>6. CASE q.pc = "deleting" /\ UNCHANGED <<phase, severed>>
  BY <1>0, <1>1, <1>6, AccountedStep DEF Opens
<1>7. QED
  BY <1>2, <1>3, <1>4, <1>5, <1>6 DEF Refuse, LoseReply

LEMMA AccountedCrash ==
  ASSUME TypeInv, Accounted, Crash
  PROVE  IntervalsAreAccounted'
<1> SUFFICES ASSUME NEW s \in Segment, phase'[s] \in {"open", "closed"},
                    s \notin granted' \cup severed'
             PROVE  OpenerInFlight(s)'
  BY DEF IntervalsAreAccounted
<1>1. phase[s] \in {"open", "closed"} /\ s \notin granted \cup severed
  BY DEF Crash
<1>2. PICK x \in Request : Opens(req[x], s)
  BY <1>1 DEF Accounted, IntervalsAreAccounted, OpenerInFlight, Opens
<1>3. s \in Opened(req[x])
  BY <1>2, ConstantsAssumption DEF Opens, Opened
<1>4. x \in Remote
  BY <1>3 DEF Crash
<1>5. req'[x] = req[x]
  BY <1>4 DEF Crash
<1>6. QED
  BY <1>2, <1>5 DEF OpenerInFlight, Opens


LEMMA AccountedNext ==
  TypeInv /\ Accounted /\ [Next]_vars => Accounted'
<1> SUFFICES ASSUME TypeInv, Accounted, [Next]_vars
             PROVE  IntervalsAreAccounted'
  BY KeptNext DEF Accounted
<1>0. IntervalsAreAccounted
  BY DEF Accounted
<1>1. ASSUME NEW r \in Request,
             \/ Confirm(r)
             \/ \E o \in AllOperations, t \in Task, g \in Status : Begin(r, o, t, g)
      PROVE  IntervalsAreAccounted'
  <2>1. UNCHANGED <<phase, history>> /\ req[r].pc \in {"confirming", "idle"}
    <3>1. CASE Confirm(r)
      BY <3>1 DEF Confirm
    <3>2. CASE \E o \in AllOperations, t \in Task, g \in Status : Begin(r, o, t, g)
      BY <3>2 DEF Begin
    <3>3. QED
      BY <1>1, <3>1, <3>2
  <2>2. \A x \in Request : x # r => req'[x] = req[x]
    <3>1. CASE Confirm(r)
      BY <3>1 DEF Confirm, Return, TypeInv, TypeOK
    <3>2. CASE \E o \in AllOperations, t \in Task, g \in Status : Begin(r, o, t, g)
      BY <3>2 DEF Begin, TypeInv, TypeOK
    <3>3. QED
      BY <1>1, <3>1, <3>2
  <2>3. \A s \in Segment : ~Opens(req[r], s)
    BY <2>1 DEF Opens
  <2>4. QED
    BY <1>0, <2>1, <2>2, <2>3, AccountedStep
<1>2. ASSUME NEW r \in Request, ReadSnapshot(r)
      PROVE  IntervalsAreAccounted'
  <2> DEFINE n(st) == [req[r] EXCEPT !.saw = st, !.via = "snapshot",
                                     !.reads = req[r].reads \cup {"task"}]
  <2>1. UNCHANGED <<phase, granted, severed>> /\ req[r].pc = "reading"
    BY <1>2, Zenon DEF ReadSnapshot
  <2>2. PICK st \in Status : req' = [req EXCEPT ![r] = n(st)]
    BY <1>2, Zenon DEF ReadSnapshot
  <2> HIDE DEF n
  <2>3. \A x \in Request : x # r => req'[x] = req[x]
    BY <2>2 DEF TypeInv, TypeOK
  <2>4. \A s \in Segment : ~Opens(req[r], s)
    BY <2>1 DEF Opens
  <2>5. QED
    BY <1>0, <2>1, <2>3, <2>4, AccountedStep
<1>3. CASE \/ RefreshRead \/ RefreshWrite \/ UNCHANGED vars
           \/ \E t \in Task : ExternalEdit(t)
  <2>1. UNCHANGED <<req, phase, history>>
    BY <1>3 DEF RefreshRead, RefreshWrite, vars, ExternalEdit
  <2>2. QED
    BY <1>0, <2>1 DEF IntervalsAreAccounted, OpenerInFlight
<1>4. QED
  BY <1>1, <1>2, <1>3, AccountedServe, AccountedFaults, AccountedCrash DEF Next

\* Every interval in the Work collection was answered "ok" to somebody, is about to
\* be, or was opened by a call that a fault cut short, for any number of requests that
\* race, any edit other clients make to the Tasks and any fault.
THEOREM EveryIntervalAccounted == Spec => []IntervalsAreAccounted
<1>1. Init => Accounted
  BY ConstantsAssumption
  DEF Init, Accounted, Kept, Seen, OwnInterval, Opens, GrantedWorkIsKept,
      IntervalsAreAccounted, IdleRequest
<1>2. TypeInv /\ Accounted /\ [Next]_vars => Accounted'
  BY AccountedNext
<1>3. Accounted => IntervalsAreAccounted
  BY DEF Accounted
<1>4. QED
  BY <1>1, <1>2, <1>3, TypeInit, TypeNext, PTL DEF Spec

-----------------------------------------------------------------------------
(***************************************************************************)
(* One client that makes one call at a time, on Tasks that only it         *)
(* changes, whose replies are not lost and which reads no Task from the    *)
(* snapshot.                                                               *)
(***************************************************************************)
LoneClient ==
    /\ \A r, x \in Request : r = x
    /\ ~ExternalEdits
    /\ "lost" \notin Faults /\ "stale" \notin Faults
    /\ Operations \cap {"delete", "update"} = {}

(***************************************************************************)
(* The inductive invariant.  Holds(q): the request has an interval of its  *)
(* Task open.  Released(q): it has closed it and may open it again.        *)
(***************************************************************************)
Finished == {t \in Task : status[t] \in Terminal \cup {"ABSENT"}}
WorkedOn(t) == \E s \in OpenSegments : owner[s] = t
Holds(q) == q.seg \in OpenSegments /\ owner[q.seg] = q.task
Released(q) ==
    /\ q.seg \in Segment /\ phase[q.seg] = "closed" /\ owner[q.seg] = q.task
    /\ OpenSegments = {} /\ q.task \notin Finished

LonePlace(q) ==
    /\ q.pc = "reading" =>
          /\ q.op \in AllOperations \ {"remove", "create", "update"}
          /\ "task" \in q.reads => q.saw = status[q.task] /\ q.saw # "ABSENT"
          /\ "open" \in q.reads => q.open = OpenSegments
    /\ q.pc \in {"confirming", "deleting"} \/ (q.pc = "reading" /\ q.op = "delete")
          => ~WorkedOn(q.task)
    /\ q.pc \in {"history", "opening"} => OpenSegments = {} /\ q.task \notin Finished
    /\ q.pc = "closing" => Holds(q)
    /\ q.pc \in {"putting", "compensating"} /\ q.op = "start" => Holds(q)
    /\ q.pc = "putting" /\ q.op # "start" => ~WorkedOn(q.task)
    /\ q.pc \in {"putting", "compensating"} /\ q.seg # None
       /\ q.op \in {"switch_away", "complete"} => Released(q)
    /\ q.pc = "compensating" =>
          q.op \in {"start", "switch_away", "complete"} /\ q.seg # None
    /\ q.op = "start" => q.goal = "IN-PROCESS"
    /\ q.pc \in {"checking", "confirming"} => q.reads = {}

WorkIsUnfinished == \A s \in OpenSegments : owner[s] \in Task \ Finished

LoneInv ==
    /\ AtMostOneOpen
    /\ WorkIsUnfinished
    /\ \A r \in Request : LonePlace(req[r])

LEMMA LoneInit == Init => LoneInv
  BY DEF Init, LoneInv, AtMostOneOpen, WorkIsUnfinished, OpenSegments, LonePlace,
         IdleRequest

LEMMA IdlePlace == LonePlace(IdleRequest)
  BY DEF LonePlace, IdleRequest

\* Who is alone and writes nothing only has to be in a place of the invariant.
LEMMA LoneMove ==
  ASSUME LoneClient, TypeInv, LoneInv, NEW r \in Request, NEW q,
         req' = [req EXCEPT ![r] = q], LonePlace(q),
         UNCHANGED <<status, phase, owner>>
  PROVE  LoneInv'
<1>1. \A x \in Request : req'[x] = q
  BY DEF LoneClient, TypeInv, TypeOK
<1>2. UNCHANGED <<OpenSegments, Finished>>
  BY DEF OpenSegments, Finished
<1>3. (\A x \in Request : LonePlace(req[x]))'
  BY <1>1, <1>2 DEF LonePlace, WorkedOn, Holds, Released
<1>4. QED
  BY <1>2, <1>3 DEF LoneInv, AtMostOneOpen, WorkIsUnfinished

LEMMA LoneReturn ==
  ASSUME LoneClient, TypeInv, LoneInv, NEW r \in Request, Return(r),
         UNCHANGED <<status, phase, owner>>
  PROVE  LoneInv'
  BY IdlePlace, LoneMove DEF Return

\* The current Task is the owner of the open interval.
LEMMA CurrentIsOwner ==
  ASSUME AtMostOneOpen
  PROVE  /\ OpenSegments = {} => CurrentTask(OpenSegments) = None
         /\ \A s \in OpenSegments : CurrentTask(OpenSegments) = owner[s]
<1>1. ASSUME NEW s \in OpenSegments
      PROVE  CurrentTask(OpenSegments) = owner[s]
  <2>1. OpenSegments = {s}
    BY <1>1 DEF AtMostOneOpen
  <2>2. (CHOOSE x \in OpenSegments : TRUE) = s
    BY <2>1
  <2>3. QED
    BY <1>1, <2>1, <2>2 DEF CurrentTask
<1>2. QED
  BY <1>1 DEF CurrentTask

LEMMA LoneDecide ==
  ASSUME LoneClient, TypeInv, LoneInv, NEW r \in Request, Decide(r)
  PROVE  LoneInv'
<1> DEFINE q == req[r]
           cur == CurrentTask(q.open)
           call == FirstCall(q.op, cur = q.task)
           seg == IF cur = q.task /\ q.op # "delete"
                  THEN CHOOSE s \in q.open : TRUE ELSE None
           n == [q EXCEPT !.pc = call, !.seg = seg, !.open = {}]
<1>0. /\ TypeOK /\ q \in RequestState /\ AssignedRequest(q) /\ LonePlace(q)
      /\ UNCHANGED <<status, phase, owner>>
  BY DEF TypeInv, TypeOK, Assigned, LoneInv, Decide
<1>1. q.task \in Task /\ q.pc = "reading"
      /\ q.op \in AllOperations \ {"remove", "create", "update"}
  BY <1>0 DEF Decide, AssignedRequest, LonePlace
<1>2. /\ q.saw = status[q.task] /\ q.saw # "ABSENT"
      /\ q.open = OpenSegments
      /\ q.op = "delete" => ~WorkedOn(q.task)
  BY <1>0, <1>1 DEF Decide, LonePlace, Needs
<1>3. CASE Return(r)
  BY <1>0, <1>3, LoneReturn
<1>4. CASE ~Return(r)
  <2>1. /\ Allowed(q, cur)
        /\ req' = [req EXCEPT ![r] = n]
    BY <1>4 DEF Decide
  <2>2. /\ cur = None => OpenSegments = {}
        /\ cur = q.task => WorkedOn(q.task) /\ q.task \notin Finished
        /\ cur # q.task => ~WorkedOn(q.task)
        /\ cur = q.task /\ q.op # "delete" => seg \in OpenSegments /\ owner[seg] = q.task
        /\ cur # q.task \/ q.op = "delete" => seg = None
    <3>1. CASE OpenSegments = {}
      <4>1. cur = None
        BY <1>2, <3>1, CurrentIsOwner DEF LoneInv
      <4>2. QED
        BY <4>1, <3>1, <1>1, ConstantsAssumption DEF WorkedOn
    <3>2. CASE OpenSegments # {}
      <4>1. PICK s \in OpenSegments : TRUE
        BY <3>2
      <4>2. cur = owner[s] /\ OpenSegments = {s} /\ owner[s] \in Task \ Finished
        BY <1>2, <4>1, CurrentIsOwner DEF LoneInv, AtMostOneOpen, WorkIsUnfinished
      <4>3. (CHOOSE x \in OpenSegments : TRUE) = s
        BY <4>2
      <4>4. QED
        BY <4>2, <4>3, <1>1, <1>2, ConstantsAssumption DEF WorkedOn
    <3>3. QED
      BY <3>1, <3>2
  <2>3. /\ n.pc = call /\ n.op = q.op /\ n.seg = seg /\ n.task = q.task
        /\ n.goal = q.goal /\ (q.op = "start" => q.goal = "IN-PROCESS")
    BY <1>0 DEF RequestState, LonePlace
  <2>4. q.saw \notin Terminal => q.task \notin Finished
    BY <1>1, <1>2 DEF Finished
  <2> HIDE DEF cur, seg
  <2>5. call \in {"opening", "history"} => OpenSegments = {} /\ q.task \notin Finished
    BY <2>1, <2>2, <2>4, <1>1 DEF FirstCall, Allowed, Terminal
  <2>6. call = "closing" => cur = q.task /\ q.op # "delete"
    BY <2>1 DEF FirstCall, Allowed
  <2>7. call = "putting" => q.op # "start" /\ ~WorkedOn(q.task) /\ seg = None
    <3>1. call = "putting" => q.op \in {"complete", "cancel"} /\ cur # q.task
      BY <1>1 DEF FirstCall, AllOperations
    <3>2. QED
      BY <3>1, <2>2
  <2>8. call = "deleting" => ~WorkedOn(q.task)
    BY <1>2 DEF FirstCall
  <2>9. call \in {"opening", "history", "deleting", "closing", "putting"}
    BY DEF FirstCall
  <2> HIDE DEF call, n
  <2>10. LonePlace(n)
    BY <2>2, <2>3, <2>5, <2>6, <2>7, <2>8, <2>9, <1>1 DEF LonePlace, Holds
  <2>11. QED
    BY <1>0, <2>1, <2>10, LoneMove
<1>5. QED
  BY <1>3, <1>4

LEMMA LoneOpen ==
  ASSUME LoneClient, TypeInv, LoneInv, NEW r \in Request, OpenSegment(r)
  PROVE  LoneInv'
<1> DEFINE q == req[r]
<1>0. /\ TypeOK /\ q \in RequestState /\ AssignedRequest(q) /\ LonePlace(q)
      /\ UNCHANGED status /\ q.pc = "opening" /\ q.task \in Task
  BY DEF TypeInv, TypeOK, Assigned, AssignedRequest, LoneInv, OpenSegment
<1>1. PICK s \in Segment :
            /\ phase[s] = "unused"
            /\ phase' = [phase EXCEPT ![s] = "open"]
            /\ owner' = [owner EXCEPT ![s] = q.task]
            /\ req' = [req EXCEPT ![r].seg = s,
                                  ![r].pc = IF q.op = "start"
                                            THEN "putting" ELSE "publishing"]
  BY DEF OpenSegment
<1>2. OpenSegments = {} /\ q.task \notin Finished
  BY <1>0 DEF LonePlace
<1>3. OpenSegments' = {s} /\ owner'[s] = q.task /\ UNCHANGED Finished
  BY <1>0, <1>1, <1>2 DEF OpenSegments, Finished, TypeOK
<1>4. /\ req'[r].pc = IF q.op = "start" THEN "putting" ELSE "publishing"
      /\ req'[r].op = q.op /\ req'[r].seg = s /\ req'[r].task = q.task
      /\ req'[r].goal = q.goal
      /\ \A x \in Request : x = r
  BY <1>0, <1>1 DEF TypeOK, RequestState, LoneClient
<1>5. LonePlace(req[r])'
  BY <1>0, <1>3, <1>4 DEF LonePlace, Holds
<1>6. QED
  BY <1>0, <1>2, <1>3, <1>4, <1>5 DEF LoneInv, AtMostOneOpen, WorkIsUnfinished

LEMMA LoneClose ==
  ASSUME LoneClient, TypeInv, LoneInv, NEW r \in Request, CloseSegment(r)
  PROVE  LoneInv'
<1> DEFINE q == req[r]
<1>0. /\ TypeOK /\ q \in RequestState /\ AssignedRequest(q) /\ LonePlace(q)
      /\ UNCHANGED <<status, owner>> /\ q.pc = "closing"
  BY DEF TypeInv, TypeOK, Assigned, LoneInv, CloseSegment
<1>1. q.seg \in OpenSegments /\ owner[q.seg] = q.task
  BY <1>0 DEF LonePlace, Holds
<1>2. /\ phase' = [phase EXCEPT ![q.seg] = "closed"]
      /\ req' = [req EXCEPT ![r].pc = IF q.op = "pause" THEN "publishing" ELSE "putting"]
  BY <1>1 DEF CloseSegment, OpenSegments
<1>3. OpenSegments = {q.seg}
  BY <1>1 DEF LoneInv, AtMostOneOpen
<1>4. /\ OpenSegments' = {} /\ phase'[q.seg] = "closed" /\ UNCHANGED Finished
      /\ q.task \notin Finished /\ q.seg \in Segment
  BY <1>0, <1>1, <1>2, <1>3 DEF OpenSegments, Finished, TypeOK, LoneInv, WorkIsUnfinished
<1>5. /\ req'[r].pc = IF q.op = "pause" THEN "publishing" ELSE "putting"
      /\ req'[r].op = q.op /\ req'[r].seg = q.seg /\ req'[r].task = q.task
      /\ req'[r].goal = q.goal
      /\ q.op \notin {"start", "resume"}
      /\ \A x \in Request : x = r
  BY <1>0, <1>2 DEF TypeOK, RequestState, LoneClient, AssignedRequest
<1>6. LonePlace(req[r])'
  BY <1>0, <1>1, <1>4, <1>5 DEF LonePlace, Released, WorkedOn
<1>7. QED
  BY <1>4, <1>5, <1>6 DEF LoneInv, AtMostOneOpen, WorkIsUnfinished

LEMMA LonePut ==
  ASSUME LoneClient, TypeInv, LoneInv, NEW r \in Request, PutTask(r)
  PROVE  LoneInv'
<1> DEFINE q == req[r]
<1>0. /\ TypeOK /\ q \in RequestState /\ AssignedRequest(q) /\ LonePlace(q)
      /\ UNCHANGED <<phase, owner>> /\ q.pc = "putting"
      /\ status' = [status EXCEPT ![q.task] = q.goal]
      /\ req' = [req EXCEPT ![r] = AfterPut(q)]
  BY DEF TypeInv, TypeOK, Assigned, LoneInv, PutTask
<1> DEFINE n == AfterPut(q)
<1>1. /\ n.pc \in {"idle", "publishing", "forgetting"}
      /\ n.op = "start" => n.goal = "IN-PROCESS"
  BY <1>0, AfterPutType DEF IdleRequest, RequestState, LonePlace
<1> HIDE DEF n
<1>2. \A x \in Request : req'[x] = n
  BY <1>0 DEF TypeOK, LoneClient, n
<1>3. \A x \in Request : LonePlace(req[x])'
  BY <1>1, <1>2 DEF LonePlace
<1>4. UNCHANGED OpenSegments
  BY <1>0 DEF OpenSegments
<1>5. WorkIsUnfinished'
  <2>1. CASE q.op = "start"
    <3>1. q.goal = "IN-PROCESS"
      BY <2>1, <1>0 DEF LonePlace
    <3>2. QED
      BY <3>1, <2>1, <1>0, <1>4 DEF WorkIsUnfinished, Finished, TypeOK, LoneInv, Terminal
  <2>2. CASE q.op # "start"
    BY <2>2, <1>0, <1>4 DEF WorkIsUnfinished, Finished, TypeOK, LoneInv, LonePlace, WorkedOn
  <2>3. QED
    BY <2>1, <2>2
<1>6. QED
  BY <1>0, <1>3, <1>4, <1>5 DEF LoneInv, AtMostOneOpen

\* A failed Task write: nothing is written, the request compensates or ends.
LEMMA LoneFailedPut ==
  ASSUME LoneClient, TypeInv, LoneInv, NEW r \in Request, req[r].pc = "putting",
         req' = [req EXCEPT ![r] = AfterFailedPut(req[r])],
         UNCHANGED <<status, phase, owner>>
  PROVE  LoneInv'
<1> DEFINE q == req[r]
           n == AfterFailedPut(q)
<1>0. q \in RequestState /\ LonePlace(q)
  BY DEF TypeInv, TypeOK, LoneInv
<1>1. CASE n = IdleRequest
  BY <1>1, IdlePlace, LoneMove
<1>2. CASE n = [q EXCEPT !.pc = "compensating"] /\ n # IdleRequest
  <2>1. q.seg # None /\ q.op \in {"start", "switch_away", "complete"}
    BY <1>2 DEF AfterFailedPut
  <2>2. /\ n.pc = "compensating" /\ n.op = q.op /\ n.seg = q.seg
        /\ n.task = q.task /\ n.goal = q.goal
    BY <1>0, <1>2 DEF RequestState
  <2> HIDE DEF n
  <2>3. LonePlace(n)
    BY <1>0, <2>1, <2>2 DEF LonePlace, Holds, Released
  <2>4. QED
    BY <2>3, LoneMove DEF n
<1>3. QED
  BY <1>0, <1>1, <1>2, AfterFailedPutType

LEMMA LoneCompensate ==
  ASSUME LoneClient, TypeInv, LoneInv, NEW r \in Request, Compensate(r)
  PROVE  LoneInv'
<1> DEFINE q == req[r]
<1>0. /\ TypeOK /\ q \in RequestState /\ LonePlace(q) /\ q.task \in Task
      /\ UNCHANGED <<status, owner>> /\ q.pc = "compensating"
      /\ \A x \in Request : req'[x] = IdleRequest
  BY DEF TypeInv, TypeOK, Assigned, AssignedRequest, LoneInv, Compensate, Return, LoneClient
<1>1. \A x \in Request : LonePlace(req[x])'
  BY <1>0 DEF LonePlace, IdleRequest
<1>2. CASE q.op = "start"
  <2>1. q.seg \in OpenSegments
    BY <1>0, <1>2 DEF LonePlace, Holds
  <2>2. phase' = [phase EXCEPT ![q.seg] = "deleted"]
    BY <1>2, <2>1 DEF Compensate, OpenSegments
  <2>3. OpenSegments' \subseteq OpenSegments /\ UNCHANGED Finished
    BY <1>0, <2>2 DEF OpenSegments, Finished, TypeOK
  <2>4. QED
    BY <1>0, <1>1, <2>3 DEF LoneInv, AtMostOneOpen, WorkIsUnfinished
<1>3. CASE q.op # "start"
  <2>1. Released(q)
    BY <1>0, <1>3 DEF LonePlace
  <2>2. phase' = [phase EXCEPT ![q.seg] = "open"]
    BY <1>3, <2>1 DEF Compensate, Released
  <2>3. OpenSegments' = {q.seg} /\ UNCHANGED Finished
    BY <1>0, <2>1, <2>2 DEF OpenSegments, Finished, TypeOK, Released
  <2>4. q.seg \in Segment /\ owner[q.seg] = q.task /\ q.task \in Task
    BY <1>0, <2>1 DEF Released
  <2>5. QED
    BY <1>0, <1>1, <2>1, <2>3, <2>4 DEF LoneInv, AtMostOneOpen, WorkIsUnfinished, Released
<1>4. QED
  BY <1>2, <1>3

LEMMA LoneCreate ==
  ASSUME LoneClient, TypeInv, LoneInv, NEW r \in Request, CreateTask(r)
  PROVE  LoneInv'
<1> DEFINE t == req[r].task
<1>0. /\ TypeOK /\ UNCHANGED <<phase, owner>> /\ t \in Task
      /\ req[r] \in RequestState
      /\ \A x \in Request : req'[x] = IdleRequest
  BY DEF TypeInv, TypeOK, Assigned, AssignedRequest, CreateTask, Return, LoneClient
<1>1. \A x \in Request : LonePlace(req[x])'
  BY <1>0 DEF LonePlace, IdleRequest
<1>2. \A x \in Task : x \notin Finished => status'[x] = status[x]
  BY <1>0 DEF CreateTask, Finished, TypeOK
<1>3. UNCHANGED OpenSegments
  BY <1>0 DEF OpenSegments
<1>4. QED
  BY <1>0, <1>1, <1>2, <1>3
  DEF LoneInv, AtMostOneOpen, WorkIsUnfinished, Finished, TypeOK

LEMMA LoneDelete ==
  ASSUME LoneClient, TypeInv, LoneInv, NEW r \in Request, DeleteTask(r)
  PROVE  LoneInv'
<1> DEFINE q == req[r]
<1>0. /\ TypeOK /\ UNCHANGED <<phase, owner>> /\ q \in RequestState
      /\ q.pc = "deleting" /\ LonePlace(q)
  BY DEF TypeInv, TypeOK, LoneInv, DeleteTask
<1>1. CASE Return(r) /\ UNCHANGED status
  BY <1>0, <1>1, LoneReturn
<1>2. CASE /\ status' = [status EXCEPT ![q.task] = "ABSENT"]
           /\ req' = [req EXCEPT ![r].pc = "forgetting"]
  <2>1. /\ \A x \in Request : x = r
        /\ req'[r].pc = "forgetting" /\ req'[r].op = q.op /\ req'[r].goal = q.goal
    BY <1>0, <1>2 DEF LoneClient, TypeOK, RequestState
  <2>2. \A x \in Request : LonePlace(req[x])'
    BY <1>0, <2>1 DEF LonePlace
  <2>3. ~WorkedOn(q.task)
    BY <1>0 DEF LonePlace
  <2>4. UNCHANGED OpenSegments
    BY <1>0 DEF OpenSegments
  <2>5. \A s \in OpenSegments : owner[s] \in Task \ Finished'
    BY <1>2, <2>3 DEF LoneInv, WorkIsUnfinished, WorkedOn, Finished, TypeInv, TypeOK
  <2>6. QED
    BY <1>0, <2>2, <2>4, <2>5 DEF LoneInv, AtMostOneOpen, WorkIsUnfinished
<1>3. QED
  BY <1>1, <1>2 DEF DeleteTask

\* The other steps of a call write nothing.
LEMMA LoneRead ==
  ASSUME LoneClient, TypeInv, LoneInv, NEW r \in Request,
         CheckNotCurrent(r) \/ ReadTask(r) \/ ReadOpen(r) \/ ReadHistory(r)
         \/ Forget(r) \/ Publish(r)
  PROVE  LoneInv'
<1> DEFINE q == req[r]
<1>0. /\ TypeOK /\ q \in RequestState /\ LonePlace(q) /\ AssignedRequest(q)
      /\ UNCHANGED <<status, phase, owner>>
  BY DEF TypeInv, TypeOK, Assigned, LoneInv, CheckNotCurrent, ReadTask, ReadOpen,
         ReadHistory, Forget, Publish
<1>1. CASE Return(r)
  BY <1>0, <1>1, LoneReturn
<1>2. ASSUME CheckNotCurrent(r), ~Return(r) PROVE LoneInv'
  <2>1. /\ q.pc = "checking"
        /\ CurrentTask(OpenSegments) # q.task
        /\ req' = [req EXCEPT ![r].pc = "confirming"]
    BY <1>2 DEF CheckNotCurrent
  <2>2. ~WorkedOn(q.task)
    BY <2>1, CurrentIsOwner DEF WorkedOn, LoneInv
  <2> DEFINE n == [q EXCEPT !.pc = "confirming"]
  <2>3. /\ n.pc = "confirming" /\ n.op = q.op /\ n.task = q.task /\ n.goal = q.goal
        /\ n.reads = q.reads
        /\ req' = [req EXCEPT ![r] = n]
    BY <1>0, <2>1 DEF RequestState, TypeOK
  <2> HIDE DEF n
  <2>4. LonePlace(n)
    BY <1>0, <2>1, <2>2, <2>3 DEF LonePlace
  <2>5. QED
    BY <1>0, <2>3, <2>4, LoneMove
<1>3. ASSUME ReadTask(r), ~Return(r) PROVE LoneInv'
  <2> DEFINE n == [q EXCEPT !.saw = status[q.task], !.reads = @ \cup {"task"}]
  <2>1. /\ q.pc = "reading" /\ status[q.task] # "ABSENT"
        /\ req' = [req EXCEPT ![r] = n]
    BY <1>0, <1>3 DEF ReadTask, TypeOK
  <2>2. /\ n.pc = q.pc /\ n.op = q.op /\ n.task = q.task /\ n.goal = q.goal
        /\ n.saw = status[q.task] /\ n.open = q.open
        /\ n.reads = q.reads \cup {"task"}
    BY <1>0 DEF RequestState
  <2> HIDE DEF n
  <2>3. LonePlace(n)
    BY <1>0, <2>1, <2>2 DEF LonePlace
  <2>4. QED
    BY <1>0, <2>1, <2>3, LoneMove
<1>4. ASSUME ReadOpen(r) PROVE LoneInv'
  <2> DEFINE n == [q EXCEPT !.open = OpenSegments, !.reads = @ \cup {"open"}]
  <2>1. /\ q.pc = "reading"
        /\ req' = [req EXCEPT ![r] = n]
    BY <1>0, <1>4 DEF ReadOpen, TypeOK
  <2>2. /\ n.pc = q.pc /\ n.op = q.op /\ n.task = q.task /\ n.goal = q.goal
        /\ n.saw = q.saw /\ n.open = OpenSegments
        /\ n.reads = q.reads \cup {"open"}
    BY <1>0 DEF RequestState
  <2> HIDE DEF n
  <2>3. LonePlace(n)
    BY <1>0, <2>1, <2>2 DEF LonePlace
  <2>4. QED
    BY <1>0, <2>1, <2>3, LoneMove
<1>5. ASSUME ReadHistory(r), ~Return(r) PROVE LoneInv'
  <2> DEFINE n == [q EXCEPT !.pc = "opening"]
  <2>1. q.pc = "history" /\ req' = [req EXCEPT ![r] = n]
    BY <1>0, <1>5 DEF ReadHistory, TypeOK
  <2>2. n.pc = "opening" /\ n.op = q.op /\ n.task = q.task /\ n.goal = q.goal
    BY <1>0 DEF RequestState
  <2> HIDE DEF n
  <2>3. LonePlace(n)
    BY <1>0, <2>1, <2>2 DEF LonePlace
  <2>4. QED
    BY <1>0, <2>1, <2>3, LoneMove
<1>6. ASSUME Forget(r), ~Return(r) PROVE LoneInv'
  <2> DEFINE n == [q EXCEPT !.pc = "publishing"]
  <2>1. req' = [req EXCEPT ![r] = n]
    BY <1>0, <1>6 DEF Forget, TypeOK
  <2>2. n.pc = "publishing" /\ n.op = q.op /\ n.goal = q.goal
    BY <1>0 DEF RequestState
  <2> HIDE DEF n
  <2>3. LonePlace(n)
    BY <1>0, <2>2 DEF LonePlace
  <2>4. QED
    BY <1>0, <2>1, <2>3, LoneMove
<1>7. QED
  BY <1>1, <1>2, <1>3, <1>4, <1>5, <1>6 DEF Publish

LEMMA LoneServe ==
  ASSUME LoneClient, TypeInv, LoneInv, NEW r \in Request, Serve(r)
  PROVE  LoneInv'
<1>1. CASE Conflict(r)
  BY <1>1, LoneFailedPut DEF Conflict
<1>2. CASE RereadTask(r)
  <2>0. req[r].pc = "putting" /\ UNCHANGED <<status, phase, owner>>
    BY <1>2 DEF RereadTask
  <2>1. CASE req' = [req EXCEPT ![r] = AfterFailedPut(req[r])]
    BY <2>0, <2>1, LoneFailedPut
  <2>2. CASE req' = [req EXCEPT ![r].via = "reread"]
    <3> DEFINE n == [req[r] EXCEPT !.via = "reread"]
    <3>1. req' = [req EXCEPT ![r] = n] /\ req[r] \in RequestState /\ LonePlace(req[r])
      BY <2>2 DEF TypeInv, TypeOK, LoneInv
    <3>2. /\ n.pc = req[r].pc /\ n.op = req[r].op /\ n.task = req[r].task
          /\ n.goal = req[r].goal /\ n.saw = req[r].saw /\ n.open = req[r].open
          /\ n.reads = req[r].reads /\ n.seg = req[r].seg
      BY <3>1 DEF RequestState
    <3> HIDE DEF n
    <3>3. LonePlace(n)
      BY <3>1, <3>2 DEF LonePlace, Holds, Released
    <3>4. QED
      BY <2>0, <3>1, <3>3, LoneMove
  <2>3. QED
    BY <1>2, <2>1, <2>2 DEF RereadTask
<1>3. QED
  BY <1>1, <1>2, LoneRead, LoneDecide, LoneOpen, LoneClose, LonePut, LoneCompensate,
     LoneCreate, LoneDelete DEF Serve

LEMMA LoneFaults ==
  ASSUME LoneClient, TypeInv, LoneInv, NEW r \in Request, Refuse(r) \/ LoseReply(r)
  PROVE  LoneInv'
<1>1. Refuse(r) /\ UNCHANGED <<status, phase, owner>>
  BY DEF LoneClient, LoseReply, Refuse
<1>2. QED
  BY <1>1, LoneReturn, LoneFailedPut DEF Refuse

LEMMA LoneBegin ==
  ASSUME LoneClient, TypeInv, LoneInv, NEW r \in Request, NEW o \in AllOperations,
         NEW t \in Task, NEW g \in Status, Begin(r, o, t, g)
  PROVE  LoneInv'
<1> DEFINE n == [IdleRequest EXCEPT !.pc = FirstStep(o), !.op = o,
                                    !.task = t, !.goal = g]
<1>1. /\ n.pc = FirstStep(o) /\ n.op = o /\ n.goal = g /\ n.reads = {}
  BY DEF IdleRequest
<1>2. o \notin {"delete", "update"}
  BY DEF Begin, LoneClient
<1>3. o = "start" => g = "IN-PROCESS"
  BY DEF Begin, Goals
<1>4. req' = [req EXCEPT ![r] = n] /\ UNCHANGED <<status, phase, owner>>
  BY DEF Begin
<1>5. n.pc \in {"checking", "creating", "reading"}
      /\ (n.pc = "reading" => o \notin {"remove", "create"})
  BY <1>1 DEF FirstStep
<1> HIDE DEF n
<1>6. LonePlace(n)
  BY <1>1, <1>2, <1>3, <1>5 DEF LonePlace
<1>7. QED
  BY <1>4, <1>6, LoneMove

LEMMA LoneConfirm ==
  ASSUME LoneClient, TypeInv, LoneInv, NEW r \in Request, Confirm(r)
  PROVE  LoneInv'
<1> DEFINE q == req[r]
           n == [q EXCEPT !.pc = "reading", !.op = "delete"]
<1>0. /\ TypeOK /\ q \in RequestState /\ LonePlace(q) /\ q.pc = "confirming"
      /\ UNCHANGED <<status, phase, owner>>
  BY DEF TypeInv, TypeOK, LoneInv, Confirm
<1>1. CASE Return(r)
  BY <1>0, <1>1, LoneReturn
<1>2. CASE req' = [req EXCEPT ![r] = n]
  <2>1. q.reads = {}
    BY <1>0 DEF LonePlace
  <2>2. /\ n.pc = "reading" /\ n.op = "delete" /\ n.task = q.task /\ n.reads = {}
    BY <1>0, <2>1 DEF RequestState
  <2> HIDE DEF n
  <2>3. LonePlace(n)
    BY <1>0, <2>2 DEF LonePlace, AllOperations
  <2>4. QED
    BY <1>0, <1>2, <2>3, LoneMove
<1>3. QED
  BY <1>0, <1>1, <1>2 DEF Confirm, TypeOK

LEMMA LoneNext == LoneClient /\ TypeInv /\ LoneInv /\ [Next]_vars => LoneInv'
<1> SUFFICES ASSUME LoneClient, TypeInv, LoneInv, [Next]_vars PROVE LoneInv'
  OBVIOUS
<1>1. CASE RefreshRead \/ RefreshWrite \/ UNCHANGED vars
  <2>1. UNCHANGED <<req, status, phase, owner>>
    BY <1>1 DEF RefreshRead, RefreshWrite, vars
  <2>2. QED
    BY <2>1 DEF LoneInv, LonePlace, AtMostOneOpen, WorkIsUnfinished, OpenSegments,
                Finished, WorkedOn, Holds, Released
<1>2. CASE Crash
  <2>1. UNCHANGED <<status, phase, owner>>
        /\ req' = [r \in Request |-> IF r \in Remote THEN req[r] ELSE IdleRequest]
    BY <1>2 DEF Crash
  <2>2. UNCHANGED <<OpenSegments, Finished>>
    BY <2>1 DEF OpenSegments, Finished
  <2>3. (\A x \in Request : LonePlace(req[x]))'
    <3> SUFFICES ASSUME NEW x \in Request PROVE LonePlace(req[x])'
      OBVIOUS
    <3>1. CASE req'[x] = req[x]
      BY <3>1, <2>1, <2>2 DEF LoneInv, LonePlace, WorkedOn, Holds, Released
    <3>2. CASE req'[x] = IdleRequest
      BY <3>2 DEF LonePlace, IdleRequest
    <3>3. QED
      BY <2>1, <3>1, <3>2
  <2>4. QED
    BY <2>1, <2>2, <2>3 DEF LoneInv, AtMostOneOpen, WorkIsUnfinished
<1>3. /\ \A t \in Task : ~ExternalEdit(t)
      /\ \A r \in Request : ~ReadSnapshot(r)
  <2>1. \A t \in Task : ~ExternalEdit(t)
    BY DEF LoneClient, ExternalEdit
  <2>2. \A r \in Request : ~ReadSnapshot(r)
    BY Zenon DEF LoneClient, ReadSnapshot
  <2>3. QED
    BY <2>1, <2>2
<1>4. QED
  BY <1>1, <1>2, <1>3, LoneServe, LoneFaults, LoneBegin, LoneConfirm DEF Next

(***************************************************************************)
(* The refinement of WorkPromise.  Working is having an interval open.     *)
(***************************************************************************)
Active == CurrentTask(OpenSegments)

LEMMA NotActive ==
  ASSUME TypeInv, LoneInv, NEW t \in Task, ~WorkedOn(t)
  PROVE  Active # t
<1>1. CASE OpenSegments = {}
  BY <1>1, CurrentIsOwner, ConstantsAssumption DEF LoneInv, Active
<1>2. CASE OpenSegments # {}
  BY <1>2, CurrentIsOwner DEF LoneInv, Active, WorkedOn
<1>3. QED
  BY <1>1, <1>2

\* Opening the interval of an unfinished Task while none is open is to start work.
LEMMA OpeningIsWork ==
  ASSUME OpenSegments = {}, NEW s \in Segment, NEW t \in Task \ Finished,
         OpenSegments' = {s}, owner'[s] = t, UNCHANGED Finished
  PROVE  Promise!Next
<1>1. Active = None
  BY DEF Active, CurrentTask
<1>2. Active' = t
  <2>1. (CHOOSE x \in {s} : TRUE) = s
    OBVIOUS
  <2>2. QED
    BY <2>1 DEF Active, CurrentTask
<1>3. Promise!Work(t)
  BY <1>1, <1>2 DEF Promise!Work, Active, Finished
<1>4. QED
  BY <1>3 DEF Promise!Next

\* Ending the only open interval is to rest.
LEMMA ClosingIsRest ==
  ASSUME TypeInv, LoneInv, NEW s \in OpenSegments, OpenSegments' = {},
         UNCHANGED Finished
  PROVE  Promise!Next
<1>1. Active \in Task
  BY CurrentIsOwner DEF LoneInv, WorkIsUnfinished, Active
<1>2. Active' = None
  BY DEF Active, CurrentTask
<1>3. Promise!Rest
  BY <1>1, <1>2, ConstantsAssumption DEF Promise!Rest, Active, Finished
<1>4. QED
  BY <1>3 DEF Promise!Next

\* A Task write finishes a Task nobody works on, or is what Restore allows.
LEMMA WritingIsFinishOrRestore ==
  ASSUME TypeInv, LoneInv, NEW t \in Task, NEW st \in Status \cup {"ABSENT"},
         status' = [status EXCEPT ![t] = st], UNCHANGED <<phase, owner>>,
         st \in Terminal \cup {"ABSENT"} => ~WorkedOn(t)
  PROVE  Promise!Next
<1>1. UNCHANGED Active
  BY DEF Active, CurrentTask, OpenSegments
<1>2. CASE st \in Terminal \cup {"ABSENT"}
  <2>1. Active # t /\ Finished' = Finished \cup {t}
    BY <1>2, NotActive DEF TypeInv, TypeOK, Finished
  <2>2. Promise!Finish(t)
    BY <1>1, <2>1 DEF Promise!Finish, Active, Finished
  <2>3. QED
    BY <2>2 DEF Promise!Next
<1>3. CASE st \notin Terminal \cup {"ABSENT"}
  <2>1. Finished' = Finished \ {t}
    BY <1>3 DEF TypeInv, TypeOK, Finished
  <2>2. Promise!Restore(t)
    BY <1>1, <2>1 DEF Promise!Restore, Active, Finished
  <2>3. QED
    BY <2>2 DEF Promise!Next
<1>4. QED
  BY <1>2, <1>3

LEMMA ServeKeepsPromise ==
  ASSUME LoneClient, TypeInv, LoneInv, NEW r \in Request, Serve(r)
  PROVE  Promise!Next \/ UNCHANGED <<Active, Finished>>
<1> DEFINE q == req[r]
<1>0. /\ TypeOK /\ q \in RequestState /\ AssignedRequest(q) /\ LonePlace(q)
      /\ q.pc # "idle" => q.task \in Task
  BY DEF TypeInv, TypeOK, Assigned, AssignedRequest, LoneInv
<1>1. CASE UNCHANGED <<status, phase, owner>>
  BY <1>1 DEF Active, Finished, CurrentTask, OpenSegments
<1>2. CASE OpenSegment(r)
  <2>1. /\ q.pc = "opening" /\ q.task \in Task /\ UNCHANGED status
        /\ OpenSegments = {} /\ q.task \notin Finished
    BY <1>0, <1>2 DEF OpenSegment, LonePlace
  <2>2. PICK s \in Segment :
            /\ phase' = [phase EXCEPT ![s] = "open"]
            /\ owner' = [owner EXCEPT ![s] = q.task]
    BY <1>2 DEF OpenSegment
  <2>3. OpenSegments' = {s} /\ owner'[s] = q.task /\ UNCHANGED Finished
    BY <1>0, <2>1, <2>2 DEF OpenSegments, Finished, TypeOK
  <2>4. QED
    BY <2>1, <2>3, OpeningIsWork
<1>3. CASE CloseSegment(r)
  <2>1. UNCHANGED status /\ q.seg \in OpenSegments
    BY <1>0, <1>3 DEF CloseSegment, LonePlace, Holds
  <2>2. phase' = [phase EXCEPT ![q.seg] = "closed"]
    BY <1>3, <2>1 DEF CloseSegment, OpenSegments
  <2>3. OpenSegments = {q.seg}
    BY <2>1 DEF LoneInv, AtMostOneOpen
  <2>4. OpenSegments' = {} /\ UNCHANGED Finished
    BY <1>0, <2>1, <2>2, <2>3 DEF OpenSegments, Finished, TypeOK
  <2>5. QED
    BY <2>1, <2>4, ClosingIsRest
<1>4. CASE Compensate(r) /\ q.op = "start"
  <2>1. UNCHANGED status /\ q.seg \in OpenSegments
    BY <1>0, <1>4 DEF Compensate, LonePlace, Holds
  <2>2. phase' = [phase EXCEPT ![q.seg] = "deleted"]
    BY <1>4, <2>1 DEF Compensate, OpenSegments
  <2>3. OpenSegments = {q.seg}
    BY <2>1 DEF LoneInv, AtMostOneOpen
  <2>4. OpenSegments' = {} /\ UNCHANGED Finished
    BY <1>0, <2>1, <2>2, <2>3 DEF OpenSegments, Finished, TypeOK
  <2>5. QED
    BY <2>1, <2>4, ClosingIsRest
<1>5. CASE Compensate(r) /\ q.op # "start"
  <2>1. /\ UNCHANGED <<status, owner>> /\ Released(q) /\ q.task \in Task
    BY <1>0, <1>5 DEF Compensate, LonePlace
  <2>2. phase' = [phase EXCEPT ![q.seg] = "open"]
    BY <1>5, <2>1 DEF Compensate, Released
  <2>3. /\ OpenSegments' = {q.seg} /\ UNCHANGED Finished
        /\ OpenSegments = {} /\ q.task \notin Finished
        /\ q.seg \in Segment /\ owner'[q.seg] = q.task
    BY <1>0, <2>1, <2>2 DEF OpenSegments, Finished, TypeOK, Released
  <2>4. QED
    BY <2>1, <2>3, OpeningIsWork
<1>6. CASE PutTask(r)
  <2>1. /\ q.task \in Task /\ q.goal \in Status /\ q.pc = "putting"
        /\ status' = [status EXCEPT ![q.task] = q.goal] /\ UNCHANGED <<phase, owner>>
    BY <1>0, <1>6 DEF PutTask, RequestState
  <2>2. q.goal \in Terminal => ~WorkedOn(q.task)
    BY <1>0, <2>1 DEF LonePlace, Terminal
  <2>3. QED
    BY <2>1, <2>2, WritingIsFinishOrRestore DEF Status
<1>7. CASE DeleteTask(r)
  <2>1. CASE UNCHANGED status
    BY <1>1, <1>7, <2>1 DEF DeleteTask
  <2>2. CASE status' = [status EXCEPT ![q.task] = "ABSENT"]
    <3>1. q.task \in Task /\ UNCHANGED <<phase, owner>> /\ ~WorkedOn(q.task)
      BY <1>0, <1>7 DEF DeleteTask, LonePlace
    <3>2. QED
      BY <2>2, <3>1, WritingIsFinishOrRestore
  <2>3. QED
    BY <1>7, <2>1, <2>2 DEF DeleteTask
<1>8. CASE CreateTask(r)
  <2>1. CASE UNCHANGED status
    BY <1>1, <1>8, <2>1 DEF CreateTask
  <2>2. CASE status[q.task] = "ABSENT" /\ status' = [status EXCEPT ![q.task] = q.goal]
    <3>1. q.task \in Task /\ UNCHANGED <<phase, owner>> /\ q.goal \in Status
      BY <1>0, <1>8 DEF CreateTask, RequestState
    <3>2. ~WorkedOn(q.task)
      BY <2>2, <3>1 DEF LoneInv, WorkIsUnfinished, WorkedOn, Finished
    <3>3. QED
      BY <2>2, <3>1, <3>2, WritingIsFinishOrRestore
  <2>3. QED
    BY <1>8, <2>1, <2>2 DEF CreateTask
<1>9. QED
  BY <1>1, <1>2, <1>3, <1>4, <1>5, <1>6, <1>7, <1>8
  DEF Serve, CheckNotCurrent, ReadTask, ReadOpen, Decide, ReadHistory, RereadTask,
      Conflict, Forget, Publish

LEMMA StepKeepsPromise ==
  LoneClient /\ TypeInv /\ LoneInv /\ [Next]_vars
    => [Promise!Next]_<<Active, Finished>>
<1> SUFFICES ASSUME LoneClient, TypeInv, LoneInv, [Next]_vars
             PROVE  Promise!Next \/ UNCHANGED <<Active, Finished>>
  OBVIOUS
<1>1. CASE \E r \in Request : Serve(r)
  BY <1>1, ServeKeepsPromise
<1>2. CASE UNCHANGED <<status, phase, owner>>
  BY <1>2 DEF Active, Finished, CurrentTask, OpenSegments
<1>3. /\ \A t \in Task : ~ExternalEdit(t)
      /\ \A r \in Request : ~LoseReply(r) /\ ~ReadSnapshot(r)
  <2>1. (\A t \in Task : ~ExternalEdit(t)) /\ \A r \in Request : ~LoseReply(r)
    BY DEF LoneClient, ExternalEdit, LoseReply
  <2>2. \A r \in Request : ~ReadSnapshot(r)
    BY Zenon DEF LoneClient, ReadSnapshot
  <2>3. QED
    BY <2>1, <2>2
<1>4. ASSUME NEW r \in Request,
             \/ Confirm(r) \/ Refuse(r)
             \/ \E o \in AllOperations, t \in Task, g \in Status : Begin(r, o, t, g)
      PROVE  UNCHANGED <<status, phase, owner>>
  <2>1. CASE Confirm(r) \/ Refuse(r)
    BY <2>1 DEF Confirm, Refuse
  <2>2. CASE \E o \in AllOperations, t \in Task, g \in Status : Begin(r, o, t, g)
    BY <2>2 DEF Begin
  <2>3. QED
    BY <1>4, <2>1, <2>2
<1>5. RefreshRead \/ RefreshWrite \/ Crash \/ UNCHANGED vars
        => UNCHANGED <<status, phase, owner>>
  BY DEF RefreshRead, RefreshWrite, Crash, vars
<1>6. QED
  BY <1>1, <1>2, <1>3, <1>4, <1>5 DEF Next

\* A person with one client works on at most one Task at a time, passes from one
\* to another only through working on none, never works on a finished Task, and no
\* Task is finished while they work on it, although each call is several writes
\* any of which may fail or be cut off by a crash.
THEOREM WorkKeepsPromise ==
  ASSUME LoneClient PROVE Spec => PromiseSpec
<1>1. Init => Promise!Init
  BY DEF Init, Promise!Init, CurrentTask, OpenSegments
<1>2. TypeInv /\ LoneInv /\ [Next]_vars => LoneInv'
  BY LoneNext
<1>3. TypeInv /\ LoneInv /\ [Next]_vars
        => [Promise!Next]_<<CurrentTask(OpenSegments),
                  {t \in Task : status[t] \in Terminal \cup {"ABSENT"}}>>
  BY StepKeepsPromise DEF Active, Finished
<1>4. QED
  BY <1>1, <1>2, <1>3, LoneInit, TypeInit, TypeNext, PTL
  DEF Spec, PromiseSpec, Promise!Spec

\* The open intervals of one client never leave it with more than one current Task.
THEOREM OneOpenForOneClient ==
  ASSUME LoneClient PROVE Spec => []AtMostOneOpen
<1>1. TypeInv /\ LoneInv /\ [Next]_vars => LoneInv'
  BY LoneNext
<1>2. LoneInv => AtMostOneOpen
  BY DEF LoneInv
<1>3. QED
  BY <1>1, <1>2, LoneInit, TypeInit, TypeNext, PTL DEF Spec

(***************************************************************************)
(* The two halves agree.  Without faults the ETag of the only client stays *)
(* current from its read to its write, so no Task write fails, and an open *)
(* interval belongs to a Task that is IN-PROCESS or that a start is about  *)
(* to make IN-PROCESS.                                                     *)
(***************************************************************************)
ReadsAreLive == \A r \in Request : req[r].via = "live"

Starting(q, s) == q.pc = "putting" /\ q.op = "start" /\ q.seg = s

InTime(r) ==
    /\ req[r].pc # "compensating"
    /\ req[r].pc \in {"history", "opening", "closing", "putting"} => r \in fresh
    /\ req[r].pc = "reading" /\ "task" \in req[r].reads => r \in fresh
    /\ req[r].pc \in {"history", "opening"} /\ req[r].op = "resume"
          => status[req[r].task] = "IN-PROCESS"

HalvesAgree ==
    /\ \A r \in Request : InTime(r)
    /\ \A s \in OpenSegments :
            \/ status[owner[s]] = "IN-PROCESS"
            \/ \E r \in Request : Starting(req[r], s)

\* While the server answers no Task is read from the snapshot.
LEMMA LiveNext ==
  LoneClient /\ TypeInv /\ ReadsAreLive /\ [Next]_vars => ReadsAreLive'
<1> SUFFICES ASSUME LoneClient, TypeInv, ReadsAreLive, [Next]_vars,
                    NEW x \in Request
             PROVE  req'[x].via = "live"
  BY DEF ReadsAreLive
<1>0. /\ req \in [Request -> RequestState] /\ req[x].via = "live"
      /\ IdleRequest.via = "live"
  BY DEF TypeInv, TypeOK, ReadsAreLive, IdleRequest
<1>1. ASSUME NEW r \in Request, NEW q, q.via = "live",
             req' = [req EXCEPT ![r] = q]
      PROVE  req'[x].via = "live"
  BY <1>0, <1>1
<1>2. ASSUME NEW r \in Request, Return(r)
      PROVE  req'[x].via = "live"
  BY <1>0, <1>2 DEF Return
<1>3. ASSUME NEW r \in Request, req[r].pc = "putting",
             req' \in {[req EXCEPT ![r] = AfterPut(req[r])],
                      [req EXCEPT ![r] = AfterFailedPut(req[r])]}
      PROVE  req'[x].via = "live"
  <2>1. req[r] \in RequestState /\ req[r].via = "live"
    BY <1>0 DEF ReadsAreLive
  <2>2. AfterPut(req[r]).via = "live" /\ AfterFailedPut(req[r]).via = "live"
    BY <1>0, <1>3, <2>1, AfterPutType, AfterFailedPutType DEF RequestState
  <2>3. QED
    BY <1>0, <1>3, <2>2
<1>4. ASSUME NEW r \in Request, Serve(r) \/ Confirm(r) \/ Refuse(r) \/ LoseReply(r)
      PROVE  req'[x].via = "live"
  <2>1. CASE Return(r) \/ req' = [req EXCEPT ![r] = IdleRequest]
    BY <1>0, <1>2, <2>1
  <2>2. ASSUME PutTask(r) \/ Conflict(r) \/ Refuse(r) \/ LoseReply(r), ~Return(r),
               req' # [req EXCEPT ![r] = IdleRequest]
        PROVE  req'[x].via = "live"
    <3>1. /\ req[r].pc = "putting"
          /\ \/ req' = [req EXCEPT ![r] = AfterPut(req[r])]
             \/ req' = [req EXCEPT ![r] = AfterFailedPut(req[r])]
      BY <2>2 DEF PutTask, Conflict, Refuse, LoseReply
    <3>2. QED
      BY <1>3, <3>1
  <2>3. ~RereadTask(r)
    BY DEF RereadTask, ReadsAreLive
  <2>4. ASSUME \/ CheckNotCurrent(r) \/ ReadHistory(r) \/ CloseSegment(r)
               \/ DeleteTask(r) \/ Forget(r) \/ Confirm(r) \/ ReadTask(r),
               ~Return(r)
        PROVE  req'[x].via = "live"
    BY <1>0, <2>4
    DEF CheckNotCurrent, ReadHistory, CloseSegment, DeleteTask, Forget, Confirm,
        ReadTask, RequestState
  <2>5. CASE ReadOpen(r)
    BY <1>0, <2>5 DEF ReadOpen, RequestState
  <2>6. CASE OpenSegment(r)
    BY <1>0, <2>6 DEF OpenSegment, RequestState
  <2>7. CASE Decide(r) /\ ~Return(r)
    <3> DEFINE c == FirstCall(req[r].op, CurrentTask(req[r].open) = req[r].task)
               g == IF CurrentTask(req[r].open) = req[r].task /\ req[r].op # "delete"
                    THEN CHOOSE s \in req[r].open : TRUE ELSE None
               n == [req[r] EXCEPT !.pc = c, !.seg = g, !.open = {}]
    <3>1. req' = [req EXCEPT ![r] = n]
      BY <2>7 DEF Decide
    <3>2. req[r].via = "live" /\ req[r] \in RequestState
      BY <1>0 DEF ReadsAreLive
    <3> HIDE DEF c, g
    <3>3. n.via = "live"
      BY <3>2 DEF RequestState
    <3> HIDE DEF n
    <3>4. QED
      BY <1>1, <3>1, <3>3
  <2>8. QED
    BY <1>4, <2>1, <2>2, <2>3, <2>4, <2>5, <2>6, <2>7
    DEF Serve, Compensate, CreateTask, Publish
<1>5. ASSUME NEW r \in Request, NEW o \in AllOperations, NEW t \in Task,
             NEW g \in Status, Begin(r, o, t, g)
      PROVE  req'[x].via = "live"
  BY <1>0, <1>5 DEF Begin, IdleRequest
<1>6. /\ \A r \in Request : ~ReadSnapshot(r)
      /\ RefreshRead \/ RefreshWrite \/ UNCHANGED vars \/ (\E t \in Task : ExternalEdit(t))
            => UNCHANGED req
  <2>1. \A r \in Request : ~ReadSnapshot(r)
    BY Zenon DEF LoneClient, ReadSnapshot
  <2>2. RefreshRead \/ RefreshWrite \/ UNCHANGED vars \/ (\E t \in Task : ExternalEdit(t))
            => UNCHANGED req
    BY DEF RefreshRead, RefreshWrite, vars, ExternalEdit
  <2>3. QED
    BY <2>1, <2>2
<1>7. Crash => req'[x] \in {req[x], IdleRequest}
  BY DEF Crash
<1>8. QED
  BY <1>0, <1>4, <1>5, <1>6, <1>7 DEF Next

\* A step that writes nothing and leaves no start unfinished.
LEMMA AgreeStep ==
  ASSUME LoneClient, HalvesAgree, NEW r \in Request,
         UNCHANGED <<status, phase, owner>>, InTime(r)',
         \A s \in Segment : Starting(req[r], s) => Starting(req'[r], s)
  PROVE  HalvesAgree'
<1>1. \A x \in Request : x = r
  BY DEF LoneClient
<1>2. (\A x \in Request : InTime(x))'
  BY <1>1
<1>3. UNCHANGED OpenSegments /\ OpenSegments \subseteq Segment
  BY DEF OpenSegments
<1>4. QED
  BY <1>1, <1>2, <1>3 DEF HalvesAgree

LEMMA AgreeReturn ==
  ASSUME LoneClient, TypeInv, HalvesAgree, NEW r \in Request, Return(r),
         UNCHANGED <<status, phase, owner>>, req[r].pc # "putting"
  PROVE  HalvesAgree'
<1>1. req'[r].pc = "idle"
  BY DEF Return, IdleRequest, TypeInv, TypeOK
<1>2. InTime(r)'
  BY <1>1 DEF InTime
<1>3. QED
  BY <1>2, AgreeStep DEF Starting

LEMMA AgreeServe ==
  ASSUME LoneClient, TypeInv, LoneInv, ReadsAreLive, HalvesAgree, NEW r \in Request,
         Serve(r)
  PROVE  HalvesAgree'
<1> DEFINE q == req[r]
<1>0. /\ TypeOK /\ q \in RequestState /\ AssignedRequest(q) /\ LonePlace(q)
      /\ q.pc # "idle" => q.task \in Task
      /\ InTime(r)
      /\ \A x \in Request : x = r
  BY DEF TypeInv, TypeOK, Assigned, AssignedRequest, LoneInv, HalvesAgree, LoneClient
<1>1. CASE Return(r) /\ q.pc # "putting" /\ UNCHANGED <<status, phase, owner>>
  BY <1>1, AgreeReturn
<1>2. ASSUME NEW c \in {"confirming", "publishing"}, q.pc # "putting",
             req' = [req EXCEPT ![r].pc = c], UNCHANGED <<status, phase, owner>>
      PROVE  HalvesAgree'
  <2>1. req'[r].pc = c
    BY <1>2, <1>0 DEF TypeOK, RequestState
  <2>2. InTime(r)'
    BY <1>2, <2>1 DEF InTime
  <2>3. QED
    BY <1>2, <2>2, AgreeStep DEF Starting
<1>3. ASSUME ReadTask(r), ~Return(r) PROVE HalvesAgree'
  <2>1. /\ q.pc = "reading" /\ fresh' = fresh \cup {r}
        /\ req' = [req EXCEPT ![r].saw = status[q.task], ![r].reads = @ \cup {"task"}]
        /\ UNCHANGED <<status, phase, owner>>
    BY <1>3 DEF ReadTask
  <2>2. req'[r].pc = "reading"
    BY <1>0, <2>1 DEF TypeOK, RequestState
  <2>3. InTime(r)'
    BY <2>1, <2>2 DEF InTime
  <2>4. QED
    BY <2>1, <2>3, AgreeStep DEF Starting
<1>4. CASE ReadOpen(r)
  <2>1. /\ q.pc = "reading" /\ UNCHANGED fresh
        /\ req' = [req EXCEPT ![r].open = OpenSegments, ![r].reads = @ \cup {"open"}]
        /\ UNCHANGED <<status, phase, owner>>
    BY <1>4 DEF ReadOpen
  <2>2. req'[r].pc = "reading" /\ req'[r].reads = q.reads \cup {"open"}
    BY <1>0, <2>1 DEF TypeOK, RequestState
  <2>3. InTime(r)'
    BY <1>0, <2>1, <2>2 DEF InTime
  <2>4. QED
    BY <2>1, <2>3, AgreeStep DEF Starting
<1>5. ASSUME Decide(r), ~Return(r) PROVE HalvesAgree'
  <2> DEFINE cur == CurrentTask(q.open)
  <2>1. /\ q.pc = "reading" /\ q.reads = Needs(q.op) /\ UNCHANGED fresh
        /\ Allowed(q, cur)
        /\ UNCHANGED <<status, phase, owner>>
        /\ req' = [req EXCEPT ![r] =
                        [q EXCEPT !.pc = FirstCall(q.op, cur = q.task),
                                  !.seg = IF cur = q.task /\ q.op # "delete"
                                          THEN CHOOSE s \in q.open : TRUE
                                          ELSE None,
                                  !.open = {}]]
    BY <1>5 DEF Decide
  <2>2. "task" \in q.reads
    BY <2>1 DEF Needs
  <2>3. r \in fresh /\ q.saw = status[q.task]
    BY <1>0, <2>1, <2>2 DEF InTime, LonePlace
  <2>4. q.op = "resume" => status[q.task] = "IN-PROCESS"
    BY <2>1, <2>3 DEF Allowed
  <2>5. req'[r].op = q.op /\ req'[r].task = q.task
        /\ req'[r].pc = FirstCall(q.op, cur = q.task)
    BY <1>0, <2>1 DEF TypeOK, RequestState
  <2>6. FirstCall(q.op, cur = q.task) # "compensating"
    BY DEF FirstCall
  <2> HIDE DEF cur
  <2>7. InTime(r)'
    BY <2>1, <2>3, <2>4, <2>5, <2>6 DEF InTime
  <2>8. QED
    BY <2>1, <2>7, AgreeStep DEF Starting
<1>6. ASSUME ReadHistory(r), ~Return(r) PROVE HalvesAgree'
  <2>1. /\ q.pc = "history" /\ UNCHANGED fresh
        /\ req' = [req EXCEPT ![r].pc = "opening"]
        /\ UNCHANGED <<status, phase, owner>>
    BY <1>6 DEF ReadHistory
  <2>2. req'[r].pc = "opening" /\ req'[r].op = q.op /\ req'[r].task = q.task
    BY <1>0, <2>1 DEF TypeOK, RequestState
  <2>3. InTime(r)'
    BY <1>0, <2>1, <2>2 DEF InTime
  <2>4. QED
    BY <2>1, <2>3, AgreeStep DEF Starting
<1>7. CASE OpenSegment(r)
  <2>1. /\ q.pc = "opening" /\ OpenSegments = {} /\ UNCHANGED <<status, fresh>>
        /\ q.op \in {"start", "resume"}
    BY <1>0, <1>7 DEF OpenSegment, LonePlace, AssignedRequest
  <2>2. PICK s \in Segment :
            /\ phase' = [phase EXCEPT ![s] = "open"]
            /\ owner' = [owner EXCEPT ![s] = q.task]
            /\ req' = [req EXCEPT ![r].seg = s,
                                  ![r].pc = IF q.op = "start"
                                            THEN "putting" ELSE "publishing"]
    BY <1>7 DEF OpenSegment
  <2>3. OpenSegments' = {s} /\ owner'[s] = q.task
    BY <1>0, <2>1, <2>2 DEF OpenSegments, TypeOK
  <2>4. /\ req'[r].pc = IF q.op = "start" THEN "putting" ELSE "publishing"
        /\ req'[r].op = q.op /\ req'[r].seg = s
    BY <1>0, <2>2 DEF TypeOK, RequestState
  <2>5. InTime(r)'
    BY <1>0, <2>1, <2>4 DEF InTime
  <2>6. q.op = "start" => Starting(req'[r], s)
    BY <2>4 DEF Starting
  <2>7. q.op = "resume" => status'[q.task] = "IN-PROCESS"
    BY <1>0, <2>1 DEF InTime
  <2>8. QED
    BY <1>0, <2>1, <2>3, <2>5, <2>6, <2>7 DEF HalvesAgree
<1>8. ASSUME CloseSegment(r), ~Return(r) PROVE HalvesAgree'
  <2>1. q.pc = "closing" /\ q.seg \in OpenSegments /\ UNCHANGED fresh
    BY <1>0, <1>8 DEF CloseSegment, LonePlace, Holds
  <2>2. /\ phase' = [phase EXCEPT ![q.seg] = "closed"]
        /\ req' = [req EXCEPT ![r].pc = IF q.op = "pause"
                                        THEN "publishing" ELSE "putting"]
    BY <1>8, <2>1 DEF CloseSegment, OpenSegments
  <2>3. OpenSegments = {q.seg}
    BY <2>1 DEF LoneInv, AtMostOneOpen
  <2>4. OpenSegments' = {}
    BY <1>0, <2>1, <2>2, <2>3 DEF OpenSegments, TypeOK
  <2>5. req'[r].pc = IF q.op = "pause" THEN "publishing" ELSE "putting"
    BY <1>0, <2>2 DEF TypeOK, RequestState
  <2>6. InTime(r)'
    BY <1>0, <2>1, <2>5 DEF InTime
  <2>7. QED
    BY <1>0, <2>4, <2>6 DEF HalvesAgree
<1>9. CASE PutTask(r)
  <2>1. /\ q.pc = "putting" /\ q.task \in Task /\ UNCHANGED <<phase, owner>>
        /\ status' = [status EXCEPT ![q.task] = q.goal]
        /\ req' = [req EXCEPT ![r] = AfterPut(q)]
    BY <1>0, <1>9 DEF PutTask
  <2>2. req'[r].pc \in {"idle", "publishing", "forgetting"}
    BY <1>0, <2>1, AfterPutType DEF TypeOK, RequestState, IdleRequest
  <2>3. InTime(r)'
    BY <2>2 DEF InTime
  <2>4. UNCHANGED OpenSegments
    BY <2>1 DEF OpenSegments
  <2>5. ASSUME NEW s \in OpenSegments PROVE status'[owner[s]] = "IN-PROCESS"
    <3>1. CASE q.op = "start"
      <4>1. q.goal = "IN-PROCESS" /\ q.seg \in OpenSegments /\ owner[q.seg] = q.task
        BY <1>0, <2>1, <3>1 DEF LonePlace, Holds
      <4>2. s = q.seg
        BY <4>1 DEF LoneInv, AtMostOneOpen
      <4>3. QED
        BY <1>0, <2>1, <4>1, <4>2 DEF TypeOK
    <3>2. CASE q.op # "start"
      <4>1. owner[s] # q.task /\ owner[s] \in Task
        BY <1>0, <2>1, <3>2 DEF LonePlace, WorkedOn, LoneInv, WorkIsUnfinished
      <4>2. status[owner[s]] = "IN-PROCESS"
        BY <1>0, <3>2 DEF HalvesAgree, Starting
      <4>3. QED
        BY <1>0, <2>1, <4>1, <4>2 DEF TypeOK
    <3>3. QED
      BY <3>1, <3>2
  <2>6. QED
    BY <1>0, <2>1, <2>3, <2>4, <2>5 DEF HalvesAgree
<1>10. ~Conflict(r) /\ ~Compensate(r) /\ ~RereadTask(r)
  BY <1>0 DEF InTime, Conflict, Compensate, RereadTask, ReadsAreLive
<1>11. ASSUME q.pc \in {"creating", "deleting"}, q.task \in Task,
              UNCHANGED <<phase, owner>>, ~WorkedOn(q.task),
              \A t \in Task : t # q.task => status'[t] = status[t],
              req'[r].pc \in {"idle", "forgetting"}
       PROVE  HalvesAgree'
  <2>1. InTime(r)'
    BY <1>11 DEF InTime
  <2>2. UNCHANGED OpenSegments
    BY <1>11 DEF OpenSegments
  <2>3. ASSUME NEW s \in OpenSegments PROVE status'[owner[s]] = "IN-PROCESS"
    <3>1. owner[s] # q.task /\ owner[s] \in Task
      BY <1>11 DEF WorkedOn, LoneInv, WorkIsUnfinished
    <3>2. status[owner[s]] = "IN-PROCESS"
      BY <1>0, <1>11 DEF HalvesAgree, Starting
    <3>3. QED
      BY <1>11, <3>1, <3>2
  <2>4. QED
    BY <1>0, <1>11, <2>1, <2>2, <2>3 DEF HalvesAgree
<1>12. CASE CreateTask(r)
  <2>1. /\ q.pc = "creating" /\ q.task \in Task /\ UNCHANGED <<phase, owner>>
        /\ Return(r)
    BY <1>0, <1>12 DEF CreateTask
  <2>2. CASE UNCHANGED status
    BY <1>1, <2>1, <2>2
  <2>3. CASE status[q.task] = "ABSENT" /\ status' = [status EXCEPT ![q.task] = q.goal]
    <3>1. ~WorkedOn(q.task)
      BY <2>1, <2>3 DEF LoneInv, WorkIsUnfinished, WorkedOn, Finished
    <3>2. req'[r].pc = "idle" /\ \A t \in Task : t # q.task => status'[t] = status[t]
      BY <1>0, <2>1, <2>3 DEF Return, IdleRequest, TypeOK
    <3>3. QED
      BY <1>11, <2>1, <3>1, <3>2
  <2>4. QED
    BY <1>12, <2>2, <2>3 DEF CreateTask
<1>13. CASE DeleteTask(r)
  <2>1. /\ q.pc = "deleting" /\ q.task \in Task /\ UNCHANGED <<phase, owner>>
        /\ ~WorkedOn(q.task)
    BY <1>0, <1>13 DEF DeleteTask, LonePlace
  <2>2. CASE Return(r) /\ UNCHANGED status
    BY <1>1, <2>1, <2>2
  <2>3. CASE /\ status' = [status EXCEPT ![q.task] = "ABSENT"]
             /\ req' = [req EXCEPT ![r].pc = "forgetting"]
    <3>1. req'[r].pc = "forgetting" /\ \A t \in Task : t # q.task => status'[t] = status[t]
      BY <1>0, <2>3 DEF TypeOK, RequestState
    <3>2. QED
      BY <1>11, <2>1, <3>1
  <2>4. QED
    BY <1>13, <2>2, <2>3 DEF DeleteTask
<1>14. CASE CheckNotCurrent(r) \/ Forget(r) \/ Publish(r)
  BY <1>1, <1>2, <1>14 DEF CheckNotCurrent, Forget, Publish
<1>15. CASE Return(r) /\ (ReadTask(r) \/ Decide(r) \/ ReadHistory(r))
  BY <1>1, <1>15 DEF ReadTask, Decide, ReadHistory
<1>16. CASE Return(r) /\ CloseSegment(r)
  <2>1. phase[q.seg] = "open"
    BY <1>0, <1>16 DEF CloseSegment, LonePlace, Holds, OpenSegments
  <2>2. req' = [req EXCEPT ![r].pc = IF q.op = "pause" THEN "publishing" ELSE "putting"]
    BY <1>16, <2>1 DEF CloseSegment
  <2>3. req'[r].pc \in {"publishing", "putting"} /\ req'[r].pc = "idle"
    BY <1>0, <1>16, <2>2 DEF Return, IdleRequest, TypeOK, RequestState
  <2>4. QED
    BY <2>3
<1>17. QED
  BY <1>3, <1>4, <1>5, <1>6, <1>7, <1>8, <1>9, <1>10, <1>12, <1>13, <1>14, <1>15,
     <1>16 DEF Serve

LEMMA AgreeNext ==
  LoneClient /\ Faults = {} /\ TypeInv /\ LoneInv /\ ReadsAreLive /\ HalvesAgree
    /\ [Next]_vars => HalvesAgree'
<1> SUFFICES ASSUME LoneClient, Faults = {}, TypeInv, LoneInv, ReadsAreLive,
                    HalvesAgree, [Next]_vars
             PROVE  HalvesAgree'
  OBVIOUS
<1>1. CASE RefreshRead \/ RefreshWrite \/ UNCHANGED vars
  <2>1. UNCHANGED <<req, fresh, status, phase, owner>>
    BY <1>1 DEF RefreshRead, RefreshWrite, vars
  <2>2. QED
    BY <2>1 DEF HalvesAgree, InTime, Starting, OpenSegments
<1>2. /\ ~Crash /\ \A t \in Task : ~ExternalEdit(t)
      /\ \A r \in Request : ~LoseReply(r) /\ ~Refuse(r) /\ ~ReadSnapshot(r)
  <2>1. ~Crash /\ (\A t \in Task : ~ExternalEdit(t))
        /\ \A r \in Request : ~LoseReply(r) /\ ~Refuse(r)
    BY DEF LoneClient, ExternalEdit, Crash, LoseReply, Refuse
  <2>2. \A r \in Request : ~ReadSnapshot(r)
    BY Zenon DEF ReadSnapshot
  <2>3. QED
    BY <2>1, <2>2
<1>3. ASSUME NEW r \in Request, NEW o \in AllOperations, NEW t \in Task,
             NEW g \in Status, Begin(r, o, t, g)
      PROVE  HalvesAgree'
  <2>1. /\ req[r].pc = "idle" /\ UNCHANGED <<status, phase, owner, fresh>>
        /\ req'[r].pc \in {"checking", "creating", "reading"} /\ req'[r].reads = {}
    BY <1>3 DEF Begin, FirstStep, IdleRequest, TypeInv, TypeOK
  <2>2. InTime(r)'
    BY <2>1 DEF InTime
  <2>3. QED
    BY <2>1, <2>2, AgreeStep DEF Starting
<1>4. ASSUME NEW r \in Request, Confirm(r) PROVE HalvesAgree'
  <2>1. req[r].pc = "confirming" /\ UNCHANGED <<status, phase, owner>>
        /\ req[r].reads = {}
    BY <1>4 DEF Confirm, LoneInv, LonePlace
  <2>2. CASE Return(r)
    BY <2>1, <2>2, AgreeReturn
  <2>3. CASE req' = [req EXCEPT ![r].pc = "reading", ![r].op = "delete"]
    <3>1. req'[r].pc = "reading" /\ req'[r].reads = {}
      BY <2>1, <2>3 DEF TypeInv, TypeOK, RequestState
    <3>2. InTime(r)'
      BY <3>1 DEF InTime
    <3>3. QED
      BY <2>1, <3>2, AgreeStep DEF Starting
  <2>4. QED
    BY <1>4, <2>2, <2>3 DEF Confirm
<1>5. QED
  BY <1>1, <1>2, <1>3, <1>4, AgreeServe DEF Next

\* Once a call is over, the interval left open belongs to a Task that is IN-PROCESS:
\* what the Work collection and the Task list say is the same, for one client on a
\* server that answers.
THEOREM WorkAgreesWithTask ==
  ASSUME LoneClient, Faults = {} PROVE Spec => []WorkIsInProcess
<1>1. Init => HalvesAgree /\ ReadsAreLive
  BY DEF Init, HalvesAgree, InTime, OpenSegments, IdleRequest, ReadsAreLive
<1>2. TypeInv /\ LoneInv /\ ReadsAreLive /\ HalvesAgree /\ [Next]_vars
        => LoneInv' /\ ReadsAreLive' /\ HalvesAgree'
  BY LoneNext, LiveNext, AgreeNext
<1>3. HalvesAgree => WorkIsInProcess
  BY DEF HalvesAgree, WorkIsInProcess, Quiet, Starting
<1>4. QED
  BY <1>1, <1>2, <1>3, LoneInit, TypeInit, TypeNext, PTL DEF Spec

=============================================================================
