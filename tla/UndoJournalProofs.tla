-------------------------- MODULE UndoJournalProofs --------------------------
(***************************************************************************)
(* Proofs about UndoJournal: types, when the journal is suspended, what    *)
(* gets into it and what never does, when an entry leaves it, and that it  *)
(* implements UndoPromise.                                                 *)
(***************************************************************************)
EXTENDS UndoJournal, FiniteSetTheorems, TLAPS

(***************************************************************************)
(* Type correctness.                                                       *)
(***************************************************************************)
LEMMA FreshIsJob ==
  ASSUME NEW m \in Mutation, NEW o \in Object, NEW v \in State, NEW at \in Places
  PROVE  Fresh(m, o, v, at) \in Job
  BY DEF Fresh, Job, State

LEMMA IdleIsJob == Idle \in Job
  <1> DEFINE o == CHOOSE x \in Object : TRUE
  <1>1. o \in Object
    BY SomeObject
  <1>2. Fresh("update", o, Absent, "idle") \in Job
    <2>1. "update" \in Mutation /\ Absent \in State /\ "idle" \in Places
      BY DEF Mutation, State, Places
    <2> QED
      BY <1>1, <2>1, FreshIsJob
  <1> QED
    BY <1>2 DEF Idle

\* Where a step leads its own request
LEMMA GoneIsTyped ==
  ASSUME req \in [Request -> Job], NEW r \in Request, NEW at \in Places
  PROVE  Gone(r, at) \in [Request -> Job]
  BY IdleIsJob DEF Gone, Job

\* What place and entry a request has after a step
LEMMA GoneFields ==
  ASSUME req \in [Request -> Job], NEW r \in Request, NEW at \in Places
  PROVE  \A q \in Request :
            /\ q # r => Gone(r, at)[q] = req[q]
            /\ q = r => /\ Gone(r, at)[q].at = at
                        /\ Gone(r, at)[q].entry = IF at = "idle" THEN 0 ELSE req[q].entry
                        /\ at # "idle" => Gone(r, at)[q].flag = req[q].flag
  BY DEF Gone, Job, Idle, Fresh

\* A change on the server leaves a request its place, its entry and its flag
LEMMA OutdatedFields ==
  ASSUME NEW jobs \in [Request -> Job], NEW o \in Object
  PROVE  /\ Outdated(jobs, o) \in [Request -> Job]
         /\ \A q \in Request : /\ Outdated(jobs, o)[q].at = jobs[q].at
                               /\ Outdated(jobs, o)[q].entry = jobs[q].entry
                               /\ Outdated(jobs, o)[q].flag = jobs[q].flag
  BY DEF Outdated, Job

\* What a read the snapshot answers leaves alone, and what it does to its request
LEMMA SnapshotKeeps ==
  ASSUME NEW r \in Request, ReadSnapshot(r)
  PROVE  /\ Setback /\ req[r].at = "read"
         /\ UNCHANGED <<serverVars, storeVars, applying, applied, nested, crowded, foreign>>
         /\ UNCHANGED <<server, journal>>
  <1>1. /\ Setback /\ req[r].at = "read"
        /\ UNCHANGED <<serverVars, storeVars, applying, applied, nested, crowded, foreign>>
    BY Zenon DEF ReadSnapshot
  <1> QED
    BY <1>1 DEF serverVars, storeVars

LEMMA SnapshotFields ==
  ASSUME req \in [Request -> Job], NEW r \in Request, ReadSnapshot(r)
  PROVE  /\ req' \in [Request -> Job]
         /\ \A q \in Request \ {r} : req'[q] = req[q]
         /\ req[r].at = "read" /\ req'[r].at = "write" /\ req'[r].stale
         /\ req'[r].entry = req[r].entry /\ req'[r].flag = req[r].flag
         /\ req'[r].object = req[r].object
  <1> DEFINE j(v) == [req[r] EXCEPT !.at = "write", !.before = v, !.stale = TRUE]
  <1>1. PICK v \in Value : req' = [req EXCEPT ![r] = j(v)]
    BY Zenon DEF ReadSnapshot
  <1>2. /\ j(v) \in Job /\ j(v).at = "write" /\ j(v).stale
        /\ j(v).entry = req[r].entry /\ j(v).flag = req[r].flag
        /\ j(v).object = req[r].object
    BY DEF Job, Places, State
  <1> HIDE DEF j
  <1>3. req[r].at = "read"
    BY SnapshotKeeps
  <1> QED
    BY <1>1, <1>2, <1>3

(***************************************************************************)
(* The entries: ids are given out once, only an undo has an entry, and it  *)
(* has carried out the inverse before it remembers, leaves or discards.    *)
(***************************************************************************)
Done == {"remember", "leave", "discard"}

JobsOK ==
    \A r \in Request :
        /\ req[r].at = "idle" => req[r].entry = 0
        /\ req[r].entry <= lastId
        /\ Undoing(r) /\ req[r].at \in Done => applied[req[r].entry] > 0

IdsOK == \A e \in journal : e.id <= lastId

EntryInv == TypeOK /\ JobsOK /\ IdsOK

LEMMA EntryInit == Init => EntryInv
  <1> SUFFICES ASSUME Init PROVE EntryInv
    OBVIOUS
  <1>1. req \in [Request -> Job]
    BY IdleIsJob DEF Init
  <1>2. \A r \in Request : req[r].at = "idle" /\ req[r].entry = 0
    BY DEF Init, Idle, Fresh
  <1>3. 0 \in 0 .. MaxEntries /\ 0 \in 0 .. MaxForeign /\ 0 \in 0 .. MaxSetbacks
    BY BoundsAreNatural
  <1>4. TypeOK
    BY <1>1, <1>2, <1>3 DEF Init, TypeOK, Undoing
  <1> QED
    BY <1>2, <1>4 DEF Init, EntryInv, JobsOK, IdsOK, Done, Undoing

\* The steps of an undo around its mutation
LEMMA EntrySteps ==
  ASSUME EntryInv, NEW r \in Request, Latest(r) \/ Suspend(r) \/ Leave(r) \/ Discard(r)
  PROVE  EntryInv'
  <1> USE DEF EntryInv
  <1>t. req \in [Request -> Job]
    BY DEF TypeOK
  <1>1. CASE Latest(r)
    <2>1. PICK e \in journal :
              req' = [req EXCEPT ![r] =
                         [Fresh(Opposite(e.action), e.object, e.before, "suspend")
                              EXCEPT !.entry = e.id]]
      BY <1>1 DEF Latest
    <2> DEFINE f == Fresh(Opposite(e.action), e.object, e.before, "suspend")
    <2>2. e.id \in Ids /\ e.id <= lastId /\ e.object \in Object /\ e.before \in State
      BY DEF TypeOK, Entry, IdsOK
    <2>3. Opposite(e.action) \in Mutation /\ "suspend" \in Places
      BY DEF TypeOK, Entry, Opposite, Mutation, Places
    <2>4. f \in Job /\ f.at = "suspend"
      BY <2>2, <2>3, FreshIsJob DEF Fresh
    <2>5. [f EXCEPT !.entry = e.id] \in Job
      BY <2>2, <2>4 DEF Job
    <2>6. /\ [f EXCEPT !.entry = e.id].at = "suspend"
          /\ [f EXCEPT !.entry = e.id].entry = e.id
      BY <2>4 DEF Fresh
    <2>7. req' \in [Request -> Job] /\ req'[r].at = "suspend" /\ req'[r].entry = e.id
      BY <1>t, <2>1, <2>5, <2>6
    <2>8. \A q \in Request \ {r} : req'[q] = req[q]
      BY <1>t, <2>1
    <2>9. TypeOK'
      BY <1>1, <2>2, <2>7, <2>8 DEF Latest, TypeOK, Undoing, Ids, serverVars, storeVars,
         counts, Disturb
    <2> QED
      BY <1>1, <2>2, <2>7, <2>8, <2>9 DEF Latest, JobsOK, IdsOK, Undoing, Done, storeVars
  <1>2. CASE Suspend(r)
    <2> DEFINE j == [req[r] EXCEPT !.at = First(r), !.flag = applying]
    <2>0. j \in Job /\ j.at \in {"write", "read"} /\ j.entry = req[r].entry
      <3>1. First(r) \in {"write", "read"} /\ First(r) \in Places
        BY DEF First, Places
      <3>2. req[r] \in Job /\ applying \in BOOLEAN
        BY <1>t DEF TypeOK
      <3> QED
        BY <3>1, <3>2 DEF Job
    <2>1. req' \in [Request -> Job]
      BY <1>t, <1>2, <2>0 DEF Suspend
    <2>2. \A q \in Request \ {r} : req'[q] = req[q]
      BY <1>t, <1>2 DEF Suspend
    <2>3. req'[r].at \in {"write", "read"} /\ req'[r].entry = req[r].entry
      BY <1>t, <1>2, <2>0 DEF Suspend
    <2>4. TypeOK'
      BY <1>2, <2>1, <2>2, <2>3 DEF Suspend, TypeOK, Undoing, serverVars, storeVars, counts
    <2> QED
      BY <1>2, <2>2, <2>3, <2>4 DEF Suspend, JobsOK, IdsOK, Undoing, Done, storeVars
  <1>3. ASSUME NEW at \in Places, GoTo(r, at), at # "idle" => Undoing(r),
               at \in Done => req[r].at \in Done,
               journal' \subseteq journal, applying' \in BOOLEAN,
               UNCHANGED <<serverVars, lastId, history, counts>>
        PROVE  EntryInv'
    <2>1. req' \in [Request -> Job]
      BY <1>t, <1>3, GoneIsTyped DEF GoTo
    <2>2. \A q \in Request \ {r} : req'[q] = req[q]
      BY <1>t, <1>3, GoneFields DEF GoTo
    <2>3. req'[r].at = at /\ req'[r].entry = IF at = "idle" THEN 0 ELSE req[r].entry
      BY <1>t, <1>3, GoneFields DEF GoTo
    <2>4. TypeOK'
      BY <1>3, <2>1, <2>2, <2>3 DEF TypeOK, Undoing, serverVars, history, counts
    <2>5. lastId \in Nat
      BY BoundsAreNatural DEF TypeOK
    <2> QED
      BY <1>3, <2>2, <2>3, <2>4, <2>5 DEF JobsOK, IdsOK, Undoing, Done, history
  <1>4. CASE Leave(r)
    <2>1. req[r].flag \in BOOLEAN
      BY <1>t DEF Job
    <2>2. Undoing(r)
      BY <1>4 DEF Leave, TypeOK
    <2>3. CASE req[r].at = "leave"
      BY <1>3, <1>4, <2>1, <2>2, <2>3 DEF Leave, Places, Done, storeVars
    <2>4. CASE req[r].at # "leave"
      BY <1>3, <1>4, <2>1, <2>2, <2>4 DEF Leave, Places, Done, storeVars
    <2> QED
      BY <2>3, <2>4
  <1>5. CASE Discard(r)
    <2>1. applying' \in BOOLEAN
      BY <1>5 DEF Discard, TypeOK
    <2> QED
      BY <1>3, <1>5, <2>1 DEF Discard, Places, Done
  <1> QED
    BY <1>1, <1>2, <1>4, <1>5

\* The steps of the mutation, whether it succeeds or not
LEMMA MutationSteps ==
  ASSUME EntryInv, NEW r \in Request,
         \/ Read(r) \/ Write(r) \/ Remember(r)
         \/ Fail(r) \/ ReadSnapshot(r) \/ LoseReply(r)
  PROVE  EntryInv'
  <1> USE DEF EntryInv
  <1>t. req \in [Request -> Job]
    BY DEF TypeOK
  <1>n. lastId \in Nat /\ MaxEntries \in Nat
    BY BoundsAreNatural DEF TypeOK
  \* A step that leads r to a place, and keeps the journal
  <1>1. ASSUME NEW at \in Places, GoTo(r, at),
               at \in {"suspend", "leave", "failed", "discard"} => Undoing(r),
               at \in Done => req[r].at \in Done,
               UNCHANGED <<serverVars, storeVars, applying, applied>>,
               nested' \in BOOLEAN, crowded' \in BOOLEAN, disturbed' \in BOOLEAN,
               foreign' \in 0 .. MaxForeign, setbacks' \in 0 .. MaxSetbacks
        PROVE  EntryInv'
    <2>1. req' \in [Request -> Job]
      BY <1>t, <1>1, GoneIsTyped DEF GoTo
    <2>2. \A q \in Request \ {r} : req'[q] = req[q]
      BY <1>t, <1>1, GoneFields DEF GoTo
    <2>3. req'[r].at = at /\ req'[r].entry = IF at = "idle" THEN 0 ELSE req[r].entry
      BY <1>t, <1>1, GoneFields DEF GoTo
    <2>4. TypeOK'
      BY <1>1, <2>1, <2>2, <2>3 DEF TypeOK, Undoing, serverVars, storeVars
    <2> QED
      BY <1>1, <1>n, <2>2, <2>3, <2>4 DEF JobsOK, IdsOK, Undoing, Done, storeVars
  \* A step that changes the server
  <1>2. ASSUME NEW at \in Places, Take(r, at),
               at \in {"suspend", "leave", "failed", "discard"} => Undoing(r),
               UNCHANGED <<unused, storeVars, applying>>,
               nested' \in BOOLEAN, crowded' \in BOOLEAN, disturbed' \in BOOLEAN,
               foreign' \in 0 .. MaxForeign, setbacks' \in 0 .. MaxSetbacks
        PROVE  EntryInv'
    <2>1. Gone(r, at) \in [Request -> Job]
      BY <1>t, GoneIsTyped
    <2>2. req[r].object \in Object /\ req[r].value \in State /\ req[r].entry \in Ids \cup {0}
      BY <1>t DEF Job
    <2>3. /\ req' \in [Request -> Job]
          /\ \A q \in Request : req'[q].at = Gone(r, at)[q].at /\ req'[q].entry = Gone(r, at)[q].entry
      BY <1>2, <2>1, <2>2, OutdatedFields DEF Take
    <2>4. /\ \A q \in Request \ {r} : req'[q].at = req[q].at /\ req'[q].entry = req[q].entry
          /\ req'[r].at = at /\ req'[r].entry = IF at = "idle" THEN 0 ELSE req[r].entry
      BY <1>t, <2>3, GoneFields
    <2>5. /\ applied' \in [Ids -> Nat]
          /\ \A i \in Ids : applied'[i] >= applied[i]
          /\ Undoing(r) => applied'[req[r].entry] > 0
      BY <1>2, <2>2 DEF Take, TypeOK, Undoing
    <2>6. server' \in [Object -> State]
      BY <1>2, <2>2 DEF Take, TypeOK
    <2>7. TypeOK'
      BY <1>2, <2>3, <2>4, <2>5, <2>6 DEF TypeOK, Undoing, storeVars
    <2>8. \A q \in Request : Undoing(q) => req[q].entry \in Ids
      BY <1>t DEF Job, Undoing
    <2>9. JobsOK'
      <3> SUFFICES ASSUME NEW q \in Request
                   PROVE  /\ req'[q].at = "idle" => req'[q].entry = 0
                          /\ req'[q].entry <= lastId
                          /\ Undoing(q)' /\ req'[q].at \in Done => applied'[req'[q].entry] > 0
        BY <1>2 DEF JobsOK, storeVars
      <3>1. CASE q = r
        BY <1>n, <2>4, <2>5, <3>1 DEF JobsOK, Undoing
      <3>2. CASE q # r
        <4>1. Undoing(q) /\ req[q].at \in Done
              => /\ applied[req[q].entry] > 0
                 /\ applied[req[q].entry] \in Nat
                 /\ applied'[req[q].entry] \in Nat
                 /\ applied'[req[q].entry] >= applied[req[q].entry]
          BY <2>5, <2>8 DEF JobsOK, TypeOK
        <4> QED
          BY <2>4, <3>2, <4>1 DEF JobsOK, Undoing
      <3> QED
        BY <3>1, <3>2
    <2> QED
      BY <1>2, <2>7, <2>9 DEF IdsOK, storeVars
  <1>3. CASE Read(r)
    <2>1. CASE Refused(r)
      <3>1. CASE Undoing(r)
        BY <1>1, <1>3, <2>1, <3>1 DEF Read, Refused, Places, Done, history, counts, TypeOK
      <3>2. CASE ~Undoing(r)
        BY <1>1, <1>3, <2>1, <3>2 DEF Read, Refused, Places, Done, history, counts, TypeOK
      <3> QED
        BY <3>1, <3>2
    <2>2. CASE ~Refused(r)
      <3> DEFINE j == [req[r] EXCEPT !.at = "write", !.before = server[req[r].object],
                                     !.current = TRUE]
      <3>0. server[req[r].object] \in State
        BY <1>t DEF TypeOK, Job
      <3>1. j \in Job /\ j.at = "write" /\ j.entry = req[r].entry
        BY <1>t, <3>0 DEF Job, Places
      <3>2. req' = [req EXCEPT ![r] = j]
        BY <1>3, <2>2 DEF Read
      <3>3. /\ req' \in [Request -> Job] /\ req'[r].at = "write"
            /\ req'[r].entry = req[r].entry
            /\ \A q \in Request \ {r} : req'[q] = req[q]
        BY <1>t, <3>1, <3>2
      <3>4. TypeOK'
        BY <1>3, <3>3 DEF Read, TypeOK, Undoing, serverVars, storeVars, history, counts
      <3> QED
        BY <1>3, <3>3, <3>4 DEF Read, JobsOK, IdsOK, Undoing, Done, storeVars, history
    <2> QED
      BY <2>1, <2>2
  <1>4. CASE Write(r)
    <2>1. CASE Accepted(r)
      BY <1>2, <1>4, <2>1 DEF Write, Places, counts, TypeOK
    <2>2. CASE ~Accepted(r)
      <3>1. CASE Undoing(r)
        BY <1>1, <1>4, <2>2, <3>1 DEF Write, Refused, Places, Done, serverVars, counts, TypeOK
      <3>2. CASE ~Undoing(r)
        BY <1>1, <1>4, <2>2, <3>2 DEF Write, Refused, Places, Done, serverVars, counts, TypeOK
      <3> QED
        BY <3>1, <3>2
    <2> QED
      BY <2>1, <2>2
  <1>5. CASE Remember(r)
    <2> DEFINE at == IF Undoing(r) THEN "leave" ELSE "idle"
    <2>0. at \in Places /\ GoTo(r, at) /\ req[r].at \in Done /\ (at = "leave" => Undoing(r))
          /\ at \in {"leave", "idle"}
      BY <1>5 DEF Remember, Places, Done
    <2>1. CASE applying
      BY <1>1, <1>5, <2>0, <2>1 DEF Remember, counts, TypeOK
    <2>2. CASE ~applying
      <3>1. req' \in [Request -> Job]
        BY <1>t, <2>0, GoneIsTyped DEF GoTo
      <3>2. \A q \in Request \ {r} : req'[q] = req[q]
        BY <1>t, <2>0, GoneFields DEF GoTo
      <3>3. req'[r].at = at /\ req'[r].entry = IF at = "idle" THEN 0 ELSE req[r].entry
        BY <1>t, <2>0, GoneFields DEF GoTo
      <3> DEFINE e == [id |-> NewId, action |-> req[r].does, object |-> req[r].object,
                       before |-> req[r].before, byUndo |-> Undoing(r)]
      <3>4. /\ lastId < MaxEntries /\ lastId' = lastId + 1
            /\ journal' = journal \cup {e}
            /\ applied' = [applied EXCEPT ![NewId] = 0]
        BY <1>5, <2>2 DEF Remember, Store
      <3>5. NewId = lastId + 1 /\ NewId \in Ids /\ lastId' \in 0 .. MaxEntries
        BY <1>n, <3>4 DEF NewId, Ids
      <3>6. e \in Entry
        BY <1>t, <3>5 DEF Entry, Job, Undoing
      <3>7. \A f \in journal : f.id <= lastId /\ f.id \in Nat
        BY DEF IdsOK, TypeOK, Entry, Ids
      <3>8. \A f, g \in journal' : f.id = g.id => f = g
        BY <1>n, <3>4, <3>5, <3>7 DEF TypeOK
      <3>9. journal' \subseteq Entry /\ applied' \in [Ids -> Nat]
        BY <3>4, <3>5, <3>6 DEF TypeOK
      <3>10. TypeOK'
        BY <1>5, <2>0, <3>1, <3>2, <3>3, <3>5, <3>8, <3>9
        DEF Remember, TypeOK, Undoing, serverVars, counts
      <3>11. IdsOK'
        BY <1>n, <3>4, <3>5, <3>7 DEF IdsOK
      <3>12. \A q \in Request : req[q].entry <= lastId /\ req[q].entry \in Nat
        BY <1>t DEF JobsOK, Job, Ids
      <3>13. JobsOK'
        <4> SUFFICES ASSUME NEW q \in Request
                     PROVE  /\ req'[q].at = "idle" => req'[q].entry = 0
                            /\ req'[q].entry <= lastId + 1
                            /\ Undoing(q)' /\ req'[q].at \in Done => applied'[req'[q].entry] > 0
          BY <3>4 DEF JobsOK
        <4>1. req'[q].entry \in {0, req[q].entry}
          BY <3>2, <3>3
        <4>2. req'[q].entry <= lastId + 1
          BY <1>n, <3>12, <4>1
        <4>3. req'[q].at \in Done /\ req'[q].entry # 0
              => req[q].at \in Done /\ req'[q].entry = req[q].entry
          BY <2>0, <3>2, <3>3 DEF Done
        <4>4. req[q].entry # 0 => applied'[req[q].entry] = applied[req[q].entry]
          BY <1>n, <1>t, <3>4, <3>5, <3>12 DEF Job, TypeOK
        <4> QED
          BY <2>0, <3>2, <3>3, <4>2, <4>3, <4>4 DEF JobsOK, Undoing
      <3> QED
        BY <3>10, <3>11, <3>13
    <2> QED
      BY <2>1, <2>2
  <1>6. Setback => setbacks' \in 0 .. MaxSetbacks /\ disturbed' \in BOOLEAN
    BY BoundsAreNatural DEF Setback, TypeOK
  <1>7. CASE Fail(r)
    <2>1. CASE Refused(r)
      <3>1. CASE Undoing(r)
        BY <1>1, <1>6, <1>7, <2>1, <3>1 DEF Fail, Refused, Places, Done, counts, TypeOK
      <3>2. CASE ~Undoing(r)
        BY <1>1, <1>6, <1>7, <2>1, <3>2 DEF Fail, Refused, Places, Done, counts, TypeOK
      <3> QED
        BY <3>1, <3>2
    <2>2. CASE GoTo(r, "idle")
      BY <1>1, <1>6, <1>7, <2>2 DEF Fail, Places, Done, counts, TypeOK
    <2> QED
      BY <1>7, <2>1, <2>2 DEF Fail
  <1>8. CASE LoseReply(r)
    <2>1. CASE Undoing(r)
      BY <1>2, <1>6, <1>8, <2>1 DEF LoseReply, Places, counts, TypeOK
    <2>2. CASE ~Undoing(r)
      BY <1>2, <1>6, <1>8, <2>2 DEF LoseReply, Places, counts, TypeOK
    <2> QED
      BY <2>1, <2>2
  <1>9. CASE ReadSnapshot(r)
    <2>1. /\ req' \in [Request -> Job]
          /\ \A q \in Request \ {r} : req'[q] = req[q]
          /\ req'[r].at = "write" /\ req'[r].entry = req[r].entry
      BY <1>t, <1>9, SnapshotFields
    <2>2. /\ UNCHANGED <<serverVars, storeVars, applying, applied, nested, crowded, foreign>>
          /\ setbacks' \in 0 .. MaxSetbacks /\ disturbed' \in BOOLEAN
      BY <1>6, <1>9, SnapshotKeeps DEF Setback
    <2>3. TypeOK'
      BY <2>1, <2>2 DEF TypeOK, Undoing, serverVars, storeVars
    <2> QED
      BY <2>1, <2>2, <2>3 DEF JobsOK, IdsOK, Undoing, Done, storeVars
  <1> QED
    BY <1>3, <1>4, <1>5, <1>7, <1>8, <1>9

\* A change that begins, and what nobody asked for
LEMMA OtherSteps ==
  ASSUME EntryInv,
         \/ \E r \in Request, o \in Object :
               Delete(r, o) \/ \E v \in Value : Create(r, o, v) \/ Update(r, o, v)
         \/ Crash
         \/ \E o \in Object : ForeignEdit(o)
  PROVE  EntryInv'
  <1> USE DEF EntryInv
  <1>t. req \in [Request -> Job]
    BY DEF TypeOK
  <1>n. lastId \in Nat
    BY BoundsAreNatural DEF TypeOK
  <1>1. ASSUME NEW r \in Request, NEW m \in Mutation, NEW o \in Object, NEW v \in State,
               NEW at \in {"read", "write"},
               req' = [req EXCEPT ![r] = Fresh(m, o, v, at)],
               unused' \subseteq unused, disturbed' \in BOOLEAN,
               UNCHANGED <<server, storeVars, applying, applied, nested, crowded, counts>>
        PROVE  EntryInv'
    <2>1. Fresh(m, o, v, at) \in Job
      BY <1>1, FreshIsJob DEF Places
    <2>2. /\ req' \in [Request -> Job]
          /\ req'[r].at = at /\ req'[r].entry = 0
          /\ \A q \in Request \ {r} : req'[q] = req[q]
      BY <1>t, <1>1, <2>1 DEF Fresh
    <2>3. TypeOK'
      BY <1>1, <2>2 DEF TypeOK, Undoing, storeVars, counts
    <2> QED
      BY <1>1, <1>n, <2>2, <2>3 DEF JobsOK, IdsOK, Undoing, Done, storeVars
  <1>2. ASSUME NEW r \in Request, NEW o \in Object,
               Delete(r, o) \/ \E v \in Value : Create(r, o, v) \/ Update(r, o, v)
        PROVE  EntryInv'
    <2>1. disturbed' \in BOOLEAN
      BY <1>2 DEF Delete, Create, Update, Disturb, TypeOK
    <2>2. CASE Delete(r, o)
      <3>1. "delete" \in Mutation /\ Absent \in State
        BY DEF Mutation, State
      <3> QED
        BY <1>1, <2>1, <2>2, <3>1 DEF Delete, serverVars
    <2>3. ASSUME NEW v \in Value, Create(r, o, v)
          PROVE  EntryInv'
      <3>1. "create" \in Mutation /\ v \in State
        BY DEF Mutation, State
      <3> QED
        BY <1>1, <2>1, <2>3, <3>1 DEF Create
    <2>4. ASSUME NEW v \in Value, Update(r, o, v)
          PROVE  EntryInv'
      <3>1. "update" \in Mutation /\ v \in State
        BY DEF Mutation, State
      <3> QED
        BY <1>1, <2>1, <2>4, <3>1 DEF Update, serverVars
    <2> QED
      BY <1>2, <2>2, <2>3, <2>4
  <1>3. CASE Crash
    <2>1. req' \in [Request -> Job] /\ \A q \in Request : req'[q].at = "idle" /\ req'[q].entry = 0
      BY <1>3, IdleIsJob DEF Crash, Idle, Fresh
    <2>2. setbacks' \in 0 .. MaxSetbacks
      BY <1>3, BoundsAreNatural DEF Crash, Setback, TypeOK
    <2>3. TypeOK'
      BY <1>3, <2>1, <2>2 DEF Crash, Setback, TypeOK, serverVars, storeVars
    <2> QED
      BY <1>3, <1>n, <2>1, <2>3 DEF Crash, JobsOK, IdsOK, Undoing, storeVars
  <1>4. ASSUME NEW o \in Object, ForeignEdit(o)
        PROVE  EntryInv'
    <2>1. /\ req' \in [Request -> Job]
          /\ \A q \in Request : req'[q].at = req[q].at /\ req'[q].entry = req[q].entry
      BY <1>t, <1>4, OutdatedFields DEF ForeignEdit
    <2>2. foreign' \in 0 .. MaxForeign
      BY <1>4, BoundsAreNatural DEF ForeignEdit, TypeOK
    <2>3. server' \in [Object -> State]
      BY <1>4 DEF ForeignEdit, TypeOK
    <2>4. TypeOK'
      BY <1>4, <2>1, <2>2, <2>3 DEF ForeignEdit, TypeOK, Undoing, storeVars
    <2> QED
      BY <1>4, <2>1, <2>4 DEF ForeignEdit, JobsOK, IdsOK, Undoing, storeVars
  <1> QED
    BY <1>2, <1>3, <1>4

LEMMA EntryStutter ==
  ASSUME EntryInv, UNCHANGED vars
  PROVE  EntryInv'
  BY DEF EntryInv, TypeOK, JobsOK, IdsOK, Undoing, vars, serverVars, storeVars, history, counts

LEMMA EntryNext == EntryInv /\ [Next]_vars => EntryInv'
  BY EntrySteps, MutationSteps, OtherSteps, EntryStutter DEF Next, Call, Step

LEMMA EntryAlways == Spec => []EntryInv
  BY EntryInit, EntryNext, PTL DEF Spec

\* Every variable keeps its type, whatever runs and fails at the same time.
THEOREM TypeCorrect == Spec => []TypeOK
  <1>1. EntryInv => TypeOK
    BY DEF EntryInv
  <1> QED
    BY <1>1, EntryAlways, PTL

\* UndoManager.undo_last discards an entry only after its inverse has been
\* carried out: as no id is given out twice (AUTOINCREMENT), the entry it
\* discards is the one it has applied, also when another undo or another change
\* came in between.
THEOREM AppliedBeforeTheyLeave == Spec => EntriesLeaveApplied
  <1>1. EntryInv /\ [Next]_vars
        => [\A e \in journal : e \notin journal' => applied[e.id] > 0]_vars
    <2> SUFFICES ASSUME EntryInv, [Next]_vars, NEW e \in journal, e \notin journal'
                 PROVE  applied[e.id] > 0
      OBVIOUS
    <2>1. ASSUME NEW r \in Request, Discard(r)
          PROVE  applied[e.id] > 0
      <3>1. req[r].entry = e.id /\ req[r].at = "discard"
        BY <2>1 DEF Discard
      <3>2. Undoing(r)
        BY <2>1 DEF Discard, EntryInv, TypeOK
      <3> QED
        BY <3>1, <3>2 DEF EntryInv, JobsOK, Done
    <2>2. ASSUME NEW r \in Request, Remember(r)
          PROVE  FALSE
      BY <2>2 DEF Remember, Store, storeVars
    <2>3. CASE UNCHANGED journal
      BY <2>3
    <2>4. \/ UNCHANGED journal
          \/ \E r \in Request : Discard(r) \/ Remember(r)
      <3> USE DEF storeVars
      <3>1. ASSUME NEW r \in Request, Call(r)
            PROVE  UNCHANGED journal
        BY <3>1 DEF Call, Latest, Create, Update, Delete
      <3>2. ASSUME NEW r \in Request, Suspend(r) \/ Read(r) \/ Write(r) \/ Leave(r)
            PROVE  UNCHANGED journal
        BY <3>2 DEF Suspend, Read, Write, Leave
      <3>3. ASSUME NEW r \in Request, Fail(r) \/ ReadSnapshot(r) \/ LoseReply(r)
            PROVE  UNCHANGED journal
        BY <3>3, SnapshotKeeps DEF Fail, LoseReply
      <3>4. ASSUME Crash \/ (\E o \in Object : ForeignEdit(o)) \/ UNCHANGED vars
            PROVE  UNCHANGED journal
        BY <3>4 DEF Crash, ForeignEdit, vars
      <3> QED
        BY <3>1, <3>2, <3>3, <3>4 DEF Next, Step
    <2> QED
      BY <2>1, <2>2, <2>3, <2>4
  <1> QED
    BY <1>1, EntryAlways, PTL DEF Spec, EntriesLeaveApplied

(***************************************************************************)
(* The suspension.  Unless two undos have been nested, one at most has     *)
(* suspended the journal, the flag it will restore says so, and nothing it *)
(* does is stored.                                                         *)
(***************************************************************************)
SuspendInv ==
    ~nested =>
        /\ \A r \in Request : Suspending(r) => applying /\ ~req[r].flag
        /\ \A r, q \in Request : Suspending(r) /\ Suspending(q) => r = q
        /\ applying => \E r \in Request : Suspending(r)
        /\ \A e \in journal : ~e.byUndo

LEMMA SuspendInit == Init => SuspendInv
  BY DEF Init, SuspendInv, Suspending, Undoing, Idle, Fresh

\* A step of r leaves the other requests where they are, and r's flag except
\* where it suspends
LEMMA StepFields ==
  ASSUME EntryInv, NEW r \in Request,
         Call(r) \/ Step(r) \/ Fail(r) \/ ReadSnapshot(r) \/ LoseReply(r)
  PROVE  \A q \in Request \ {r} : /\ req'[q].at = req[q].at
                                  /\ req'[q].entry = req[q].entry
                                  /\ req'[q].flag = req[q].flag
  <1>t. req \in [Request -> Job]
    BY DEF EntryInv, TypeOK
  <1>p. /\ "leave" \in Places /\ "idle" \in Places /\ "discard" \in Places
        /\ "failed" \in Places /\ "remember" \in Places
    BY DEF Places
  <1>g. ASSUME NEW at \in Places, GoTo(r, at)
        PROVE  \A q \in Request \ {r} : req'[q] = req[q]
    BY <1>t, <1>g, GoneFields DEF GoTo
  <1>k. ASSUME NEW at \in Places, Take(r, at)
        PROVE  \A q \in Request \ {r} : /\ req'[q].at = req[q].at
                                        /\ req'[q].entry = req[q].entry
                                        /\ req'[q].flag = req[q].flag
    <2>1. Gone(r, at) \in [Request -> Job]
      BY <1>t, GoneIsTyped
    <2>2. \A q \in Request \ {r} : Gone(r, at)[q] = req[q]
      BY <1>t, GoneFields
    <2>3. req[r].object \in Object
      BY <1>t DEF Job
    <2> QED
      BY <1>k, <2>1, <2>2, <2>3, OutdatedFields DEF Take
  <1>f. Refused(r) => \A q \in Request \ {r} : req'[q] = req[q]
    BY <1>g, <1>p DEF Refused
  <1>1. CASE Call(r)
    BY <1>t, <1>1 DEF Call, Latest, Create, Update, Delete
  <1>2. CASE Suspend(r)
    BY <1>t, <1>2 DEF Suspend
  <1>3. CASE Leave(r) \/ Discard(r) \/ Remember(r)
    BY <1>g, <1>p, <1>3 DEF Leave, Discard, Remember
  <1>4. CASE Read(r)
    <2>1. CASE Refused(r)
      BY <1>f, <2>1
    <2>2. CASE ~Refused(r)
      BY <1>t, <1>4, <2>2 DEF Read
    <2> QED
      BY <2>1, <2>2
  <1>5. CASE Write(r)
    BY <1>k, <1>p, <1>f, <1>5 DEF Write
  <1>6. CASE Fail(r)
    BY <1>f, <1>g, <1>p, <1>6 DEF Fail
  <1>7. CASE LoseReply(r)
    BY <1>k, <1>p, <1>7 DEF LoseReply
  <1>8. CASE ReadSnapshot(r)
    BY <1>t, <1>8, SnapshotFields
  <1> QED
    BY <1>1, <1>2, <1>3, <1>4, <1>5, <1>6, <1>7, <1>8 DEF Step

\* A step of r inside its mutation: it keeps its entry and its flag, or ends
LEMMA OwnFields ==
  ASSUME EntryInv, NEW r \in Request,
         \/ Read(r) \/ Write(r) \/ Remember(r) \/ LoseReply(r) \/ ReadSnapshot(r)
         \/ (Fail(r) /\ req[r].at \notin {"suspend", "discard"})
  PROVE  /\ Suspending(r)' <=> Suspending(r)
         /\ Suspending(r) => req'[r].flag = req[r].flag
  <1>t. req \in [Request -> Job]
    BY DEF EntryInv, TypeOK
  <1>p. /\ "leave" \in Places /\ "idle" \in Places
        /\ "failed" \in Places /\ "remember" \in Places
    BY DEF Places
  <1>0. req[r].at \in {"read", "write", "remember"}
    BY SnapshotKeeps DEF Read, Write, Remember, LoseReply, Fail
  <1>5. CASE ReadSnapshot(r)
    <2>1. req'[r].at = "write" /\ req'[r].entry = req[r].entry /\ req'[r].flag = req[r].flag
      BY <1>t, <1>5, SnapshotFields
    <2> QED
      BY <1>0, <2>1 DEF Suspending, Undoing
  <1>1. ASSUME NEW at \in {"failed", "remember", "leave"}, GoTo(r, at) \/ Take(r, at)
        PROVE  /\ req'[r].at = at /\ req'[r].entry = req[r].entry
               /\ req'[r].flag = req[r].flag
    <2>0. at \in Places /\ at # "idle"
      BY <1>p
    <2>1. Gone(r, at) \in [Request -> Job]
      BY <1>t, <2>0, GoneIsTyped
    <2>2. /\ Gone(r, at)[r].at = at /\ Gone(r, at)[r].entry = req[r].entry
          /\ Gone(r, at)[r].flag = req[r].flag
      BY <1>t, <2>0, GoneFields
    <2>3. req[r].object \in Object
      BY <1>t DEF Job
    <2> QED
      BY <1>1, <2>1, <2>2, <2>3, OutdatedFields DEF Take, GoTo
  <1>2. ASSUME GoTo(r, "idle") \/ Take(r, "idle")
        PROVE  req'[r].entry = 0
    <2>1. Gone(r, "idle") \in [Request -> Job]
      BY <1>t, <1>p, GoneIsTyped
    <2>2. Gone(r, "idle")[r].entry = 0
      BY <1>t, <1>p, GoneFields
    <2>3. req[r].object \in Object
      BY <1>t DEF Job
    <2> QED
      BY <1>2, <2>1, <2>2, <2>3, OutdatedFields DEF Take, GoTo
  <1>3. CASE Undoing(r) /\ ~ReadSnapshot(r)
    <2>1. \/ \E at \in {"failed", "remember", "leave"} : GoTo(r, at) \/ Take(r, at)
          \/ Read(r) /\ ~Refused(r)
      BY <1>0, <1>3 DEF Read, Write, Remember, LoseReply, Fail, Refused
    <2>2. CASE Read(r) /\ ~Refused(r)
      <3> DEFINE j == [req[r] EXCEPT !.at = "write", !.before = server[req[r].object],
                                     !.current = TRUE]
      <3>0. req' = [req EXCEPT ![r] = j]
        BY <2>2 DEF Read
      <3>1. /\ req'[r].at = "write" /\ req'[r].entry = req[r].entry
            /\ req'[r].flag = req[r].flag
        BY <1>t, <3>0 DEF Job
      <3> QED
        BY <1>0, <1>3, <3>1 DEF Suspending, Undoing
    <2>3. CASE \E at \in {"failed", "remember", "leave"} : GoTo(r, at) \/ Take(r, at)
      BY <1>0, <1>1, <1>3, <2>3 DEF Suspending, Undoing
    <2> QED
      BY <2>1, <2>2, <2>3
  <1>4. CASE ~Undoing(r) /\ ~ReadSnapshot(r)
    <2>1. \/ Read(r) /\ ~Refused(r)
          \/ Write(r) /\ Take(r, "remember")
          \/ GoTo(r, "idle") \/ Take(r, "idle")
      BY <1>0, <1>4 DEF Read, Write, Remember, LoseReply, Fail, Refused
    <2>2. CASE Read(r) /\ ~Refused(r)
      <3>1. req'[r].entry = req[r].entry
        BY <1>t, <2>2 DEF Read, Job
      <3> QED
        BY <1>4, <3>1 DEF Suspending, Undoing
    <2>3. CASE Write(r) /\ Take(r, "remember")
      BY <1>1, <1>4, <2>3 DEF Suspending, Undoing
    <2>4. CASE GoTo(r, "idle") \/ Take(r, "idle")
      BY <1>2, <1>4, <2>4 DEF Suspending, Undoing
    <2> QED
      BY <2>1, <2>2, <2>3, <2>4
  <1> QED
    BY <1>3, <1>4, <1>5

LEMMA SuspendNext ==
  ASSUME EntryInv, SuspendInv, [Next]_vars
  PROVE  SuspendInv'
  <1>t. req \in [Request -> Job] /\ applying \in BOOLEAN
    BY DEF EntryInv, TypeOK
  <1>p. "idle" \in Places /\ "discard" \in Places
    BY DEF Places
  <1> SUFFICES ASSUME ~nested'
               PROVE  /\ \A r \in Request : Suspending(r)' => applying' /\ ~req'[r].flag
                      /\ \A r, q \in Request : Suspending(r)' /\ Suspending(q)' => r = q
                      /\ applying' => \E r \in Request : Suspending(r)'
                      /\ \A e \in journal' : ~e.byUndo
    BY DEF SuspendInv
  \* A step that neither suspends nor leaves
  <1>1. ASSUME NEW r \in Request,
               Call(r) \/ Step(r) \/ Fail(r) \/ ReadSnapshot(r) \/ LoseReply(r),
               Suspending(r)' <=> Suspending(r),
               Suspending(r) => req'[r].flag = req[r].flag,
               UNCHANGED <<applying, nested>>, \A e \in journal' : ~e.byUndo
        PROVE  /\ \A q \in Request : Suspending(q)' => applying' /\ ~req'[q].flag
               /\ \A p, q \in Request : Suspending(p)' /\ Suspending(q)' => p = q
               /\ applying' => \E q \in Request : Suspending(q)'
               /\ \A e \in journal' : ~e.byUndo
    <2>1. \A q \in Request : /\ Suspending(q)' <=> Suspending(q)
                             /\ Suspending(q) => req'[q].flag = req[q].flag
      BY <1>1, StepFields DEF Suspending, Undoing
    <2>2. ~nested /\ applying' = applying
      BY <1>1
    <2>3. \A q \in Request : Suspending(q)' => applying' /\ ~req'[q].flag
      BY <2>1, <2>2 DEF SuspendInv
    <2>4. \A p, q \in Request : Suspending(p)' /\ Suspending(q)' => p = q
      BY <2>1, <2>2 DEF SuspendInv
    <2>5. applying' => \E q \in Request : Suspending(q)'
      BY <2>1, <2>2 DEF SuspendInv
    <2> QED
      BY <1>1, <2>3, <2>4, <2>5
  <1>2. ASSUME NEW r \in Request, Call(r)
        PROVE  ~Suspending(r) /\ ~Suspending(r)' /\ UNCHANGED <<applying, nested, journal>>
    <2>1. req[r].at = "idle" /\ req'[r].at \in {"suspend", "read", "write"}
          /\ (req'[r].at # "suspend" => req'[r].entry = 0)
      <3>1. CASE Latest(r)
        <4>1. PICK e \in journal :
                  req' = [req EXCEPT ![r] =
                             [Fresh(Opposite(e.action), e.object, e.before, "suspend")
                                  EXCEPT !.entry = e.id]]
          BY <3>1 DEF Latest
        <4> QED
          BY <1>t, <3>1, <4>1 DEF Latest, Busy, Fresh
      <3>2. CASE ~Latest(r)
        BY <1>t, <1>2, <3>2 DEF Call, Create, Update, Delete, Busy, Fresh
      <3> QED
        BY <3>1, <3>2
    <2> QED
      BY <1>2, <2>1 DEF Call, Latest, Create, Update, Delete, Suspending, Undoing, storeVars
  <1>3. ASSUME NEW r \in Request, Suspend(r)
        PROVE  /\ \A q \in Request : Suspending(q)' => applying' /\ ~req'[q].flag
               /\ \A p, q \in Request : Suspending(p)' /\ Suspending(q)' => p = q
               /\ applying' => \E q \in Request : Suspending(q)'
               /\ \A e \in journal' : ~e.byUndo
    <2>1. ~nested /\ (\A q \in Request \ {r} : ~Suspending(q)) /\ applying' = TRUE
          /\ journal' = journal
      BY <1>3 DEF Suspend, storeVars
    <2>2. ~Suspending(r)
      BY <1>3 DEF Suspend, Suspending
    <2>3. applying = FALSE
      BY <1>t, <2>1, <2>2 DEF SuspendInv
    <2> DEFINE j == [req[r] EXCEPT !.at = First(r), !.flag = applying]
    <2>4. req' = [req EXCEPT ![r] = j]
      BY <1>3 DEF Suspend
    <2>5. j.at \in {"read", "write"} /\ j.flag = applying /\ j.entry = req[r].entry
      BY <1>t DEF Job, First
    <2>6. Undoing(r)
      BY <1>3 DEF Suspend, EntryInv, TypeOK
    <2>7. Suspending(r)' /\ req'[r].flag = FALSE
      BY <1>t, <2>3, <2>4, <2>5, <2>6 DEF Suspending, Undoing
    <2>8. \A q \in Request \ {r} : ~Suspending(q)'
      BY <1>t, <2>1, <2>4 DEF Suspending, Undoing
    <2> QED
      BY <2>1, <2>7, <2>8 DEF SuspendInv
  <1>4. ASSUME NEW r \in Request, Read(r) \/ Write(r) \/ LoseReply(r) \/ ReadSnapshot(r)
        PROVE  UNCHANGED <<applying, nested, journal>>
    BY <1>4, SnapshotKeeps DEF Read, Write, LoseReply, history, storeVars
  <1>5. ASSUME NEW r \in Request, Remember(r)
        PROVE  UNCHANGED <<applying, nested>> /\ \A e \in journal' : ~e.byUndo
    <2>1. UNCHANGED <<applying, nested>>
      BY <1>5 DEF Remember
    <2>2. CASE applying
      BY <1>5, <2>1, <2>2 DEF Remember, SuspendInv, storeVars
    <2>3. CASE ~applying
      <3>1. ~Suspending(r)
        BY <2>1, <2>3 DEF SuspendInv
      <3>2. ~Undoing(r)
        BY <1>5, <3>1 DEF Remember, Suspending
      <3> QED
        BY <1>5, <2>1, <2>3, <3>2 DEF Remember, Store, SuspendInv
    <2> QED
      BY <2>2, <2>3
  <1>6. ASSUME NEW r \in Request, Leave(r)
        PROVE  /\ \A q \in Request : Suspending(q)' => applying' /\ ~req'[q].flag
               /\ \A p, q \in Request : Suspending(p)' /\ Suspending(q)' => p = q
               /\ applying' => \E q \in Request : Suspending(q)'
               /\ \A e \in journal' : ~e.byUndo
    <2>1. Suspending(r) /\ ~nested /\ journal' = journal /\ applying' = req[r].flag
      BY <1>6 DEF Leave, EntryInv, TypeOK, Suspending, history, storeVars
    <2>2. ~req[r].flag /\ \A q \in Request \ {r} : ~Suspending(q)
      BY <2>1 DEF SuspendInv
    <2>3. \A q \in Request \ {r} : ~Suspending(q)'
      BY <1>6, <2>2, StepFields DEF Step, Suspending, Undoing
    <2>4. ~Suspending(r)'
      <3>1. req'[r].at \in {"idle", "discard"}
        BY <1>t, <1>p, <1>6, GoneFields DEF Leave, GoTo
      <3> QED
        BY <3>1 DEF Suspending
    <2> QED
      BY <2>1, <2>2, <2>3, <2>4 DEF SuspendInv
  <1>7. ASSUME NEW r \in Request, Discard(r) \/ (Fail(r) /\ req[r].at \in {"suspend", "discard"})
        PROVE  /\ ~Suspending(r) /\ ~Suspending(r)'
               /\ UNCHANGED <<applying, nested>> /\ journal' \subseteq journal
    <2>1. GoTo(r, "idle") /\ req[r].at \in {"suspend", "discard"}
      BY <1>7 DEF Discard, Fail, Refused
    <2>2. req'[r].at = "idle"
      BY <1>t, <1>p, <2>1, GoneFields DEF GoTo
    <2> QED
      BY <1>7, <2>1, <2>2 DEF Discard, Fail, Suspending, history, storeVars
  <1>8. ASSUME NEW r \in Request, Fail(r)
        PROVE  UNCHANGED <<applying, nested, journal>>
    BY <1>8 DEF Fail, storeVars
  <1>9. CASE Crash
    BY <1>9 DEF Crash, Idle, Fresh, Suspending, Undoing, SuspendInv, storeVars
  <1>10. ASSUME NEW o \in Object, ForeignEdit(o)
         PROVE  SuspendInv'
    <2>1. \A q \in Request : req'[q].at = req[q].at /\ req'[q].entry = req[q].entry
                            /\ req'[q].flag = req[q].flag
      BY <1>t, <1>10, OutdatedFields DEF ForeignEdit
    <2> QED
      BY <1>10, <2>1 DEF ForeignEdit, SuspendInv, Suspending, Undoing, storeVars
  <1>11. CASE UNCHANGED vars
    BY <1>11 DEF vars, SuspendInv, Suspending, Undoing, history, storeVars
  <1>12. ASSUME NEW r \in Request,
                Call(r) \/ Step(r) \/ Fail(r) \/ ReadSnapshot(r) \/ LoseReply(r)
         PROVE  SuspendInv'
    <2>1. CASE Call(r)
      BY <1>1, <1>2, <2>1 DEF SuspendInv
    <2>2. CASE Suspend(r)
      BY <1>3, <2>2 DEF SuspendInv
    <2>3. CASE Read(r) \/ Write(r) \/ LoseReply(r) \/ ReadSnapshot(r)
      BY <1>1, <1>4, <2>3, OwnFields DEF SuspendInv, Step
    <2>4. CASE Remember(r)
      BY <1>1, <1>5, <2>4, OwnFields DEF SuspendInv, Step
    <2>5. CASE Leave(r)
      BY <1>6, <2>5 DEF SuspendInv
    <2>6. CASE Discard(r)
      BY <1>1, <1>7, <2>6 DEF SuspendInv, Step
    <2>7. CASE Fail(r) /\ req[r].at \in {"suspend", "discard"}
      BY <1>1, <1>7, <2>7 DEF SuspendInv
    <2>8. CASE Fail(r) /\ req[r].at \notin {"suspend", "discard"}
      BY <1>1, <1>8, <2>8, OwnFields DEF SuspendInv
    <2> QED
      BY <1>12, <2>1, <2>2, <2>3, <2>4, <2>5, <2>6, <2>7, <2>8 DEF Step
  <1>13. SuspendInv'
    BY <1>9, <1>10, <1>11, <1>12 DEF Next, SuspendInv
  <1> QED
    BY <1>13 DEF SuspendInv

LEMMA SuspendAlways == Spec => []SuspendInv
  BY EntryAlways, SuspendInit, SuspendNext, PTL DEF Spec

(***************************************************************************)
(* What the journal holds.  As long as the version a request has read on   *)
(* the server is current, the server says what the request has read.       *)
(***************************************************************************)
Live(jobs, values) ==
    \A r \in Request : jobs[r].current /\ ~jobs[r].stale
                          => jobs[r].before = values[jobs[r].object]
LiveInv == Live(req, server)

LEMMA LiveInit == Init => LiveInv
  BY DEF Init, LiveInv, Live, Idle, Fresh

LEMMA GoneIsLive ==
  ASSUME req \in [Request -> Job], LiveInv, NEW r \in Request, NEW at \in Places
  PROVE  Live(Gone(r, at), server)
  <1> SUFFICES ASSUME NEW q \in Request, Gone(r, at)[q].current, ~Gone(r, at)[q].stale
               PROVE  Gone(r, at)[q].before = server[Gone(r, at)[q].object]
    BY DEF Live
  <1>1. CASE q = r /\ at = "idle"
    BY <1>1 DEF Gone, Idle, Fresh
  <1>2. CASE ~(q = r /\ at = "idle")
    <2>1. /\ Gone(r, at)[q].current = req[q].current
          /\ Gone(r, at)[q].stale = req[q].stale
          /\ Gone(r, at)[q].before = req[q].before
          /\ Gone(r, at)[q].object = req[q].object
      BY <1>2 DEF Gone, Job
    <2> QED
      BY <2>1 DEF LiveInv, Live
  <1> QED
    BY <1>1, <1>2

\* A change of o on the server makes every version of o that was read outdated
LEMMA OutdatedIsLive ==
  ASSUME NEW jobs \in [Request -> Job], NEW o \in Object, NEW s,
         server \in [Object -> State], Live(jobs, server)
  PROVE  Live(Outdated(jobs, o), [server EXCEPT ![o] = s])
  <1> SUFFICES ASSUME NEW q \in Request,
                      Outdated(jobs, o)[q].current, ~Outdated(jobs, o)[q].stale
               PROVE  Outdated(jobs, o)[q].before
                         = [server EXCEPT ![o] = s][Outdated(jobs, o)[q].object]
    BY DEF Live
  <1>1. /\ Outdated(jobs, o)[q].current = (jobs[q].current /\ jobs[q].object # o)
        /\ Outdated(jobs, o)[q].stale = jobs[q].stale
        /\ Outdated(jobs, o)[q].before = jobs[q].before
        /\ Outdated(jobs, o)[q].object = jobs[q].object
    BY DEF Outdated, Job
  <1>2. jobs[q].object \in Object
    BY DEF Job
  <1> QED
    BY <1>1, <1>2 DEF Live

LEMMA LiveNext ==
  ASSUME EntryInv, LiveInv, [Next]_vars
  PROVE  LiveInv'
  <1>t. req \in [Request -> Job] /\ server \in [Object -> State]
    BY DEF EntryInv, TypeOK
  <1>p. /\ "leave" \in Places /\ "idle" \in Places /\ "discard" \in Places
        /\ "failed" \in Places /\ "remember" \in Places
    BY DEF Places
  <1>g. ASSUME NEW r \in Request, NEW at \in Places, GoTo(r, at), UNCHANGED server
        PROVE  LiveInv'
    BY <1>t, <1>g, GoneIsLive DEF GoTo, LiveInv
  <1>f. ASSUME NEW r \in Request, Refused(r), UNCHANGED server
        PROVE  LiveInv'
    BY <1>f, <1>g, <1>p DEF Refused
  <1>k. ASSUME NEW r \in Request, NEW at \in Places, Take(r, at)
        PROVE  LiveInv'
    <2>1. Gone(r, at) \in [Request -> Job] /\ Live(Gone(r, at), server)
      BY <1>t, GoneIsTyped, GoneIsLive
    <2>2. req[r].object \in Object
      BY <1>t DEF Job
    <2> QED
      BY <1>t, <1>k, <2>1, <2>2, OutdatedIsLive DEF Take, LiveInv
  \* A step that gives r another job on the same server
  <1>j. ASSUME NEW r \in Request, NEW j, req' = [req EXCEPT ![r] = j], UNCHANGED server,
               j.current /\ ~j.stale => j.before = server[j.object]
        PROVE  LiveInv'
    BY <1>t, <1>j DEF LiveInv, Live
  <1>1. ASSUME NEW r \in Request, Call(r)
        PROVE  LiveInv'
    <2>1. CASE Latest(r)
      <3>1. PICK e \in journal :
                req' = [req EXCEPT ![r] =
                           [Fresh(Opposite(e.action), e.object, e.before, "suspend")
                                EXCEPT !.entry = e.id]]
        BY <2>1 DEF Latest
      <3>2. ~[Fresh(Opposite(e.action), e.object, e.before, "suspend")
                                EXCEPT !.entry = e.id].current
        BY DEF Fresh
      <3> QED
        BY <1>j, <2>1, <3>1, <3>2 DEF Latest, serverVars
    <2>2. ASSUME NEW m, NEW o, NEW v, NEW at, UNCHANGED server,
                 req' = [req EXCEPT ![r] = Fresh(m, o, v, at)]
          PROVE  LiveInv'
      BY <1>j, <2>2 DEF Fresh
    <2> QED
      BY <1>1, <2>1, <2>2 DEF Call, Create, Update, Delete, serverVars
  <1>2. ASSUME NEW r \in Request, Suspend(r)
        PROVE  LiveInv'
    <2> DEFINE j == [req[r] EXCEPT !.at = First(r), !.flag = applying]
    <2>1. /\ j.current = req[r].current /\ j.stale = req[r].stale
          /\ j.before = req[r].before /\ j.object = req[r].object
      BY <1>t DEF Job
    <2>2. req' = [req EXCEPT ![r] = j] /\ UNCHANGED server
      BY <1>2 DEF Suspend, serverVars
    <2> HIDE DEF j
    <2> QED
      BY <1>j, <2>1, <2>2 DEF LiveInv, Live
  <1>3. ASSUME NEW r \in Request, Read(r)
        PROVE  LiveInv'
    <2>1. UNCHANGED server
      BY <1>3 DEF Read, serverVars
    <2>2. CASE Refused(r)
      BY <1>f, <2>1, <2>2
    <2>3. CASE ~Refused(r)
      <3> DEFINE j == [req[r] EXCEPT !.at = "write", !.before = server[req[r].object],
                                     !.current = TRUE]
      <3>1. j.before = server[j.object]
        BY <1>t DEF Job
      <3>2. req' = [req EXCEPT ![r] = j]
        BY <1>3, <2>3 DEF Read
      <3> HIDE DEF j
      <3> QED
        BY <1>j, <2>1, <3>1, <3>2
    <2> QED
      BY <2>2, <2>3
  <1>4. ASSUME NEW r \in Request, Write(r)
        PROVE  LiveInv'
    BY <1>k, <1>f, <1>p, <1>4 DEF Write
  <1>5. ASSUME NEW r \in Request, Remember(r) \/ Leave(r) \/ Discard(r)
        PROVE  LiveInv'
    <2>1. UNCHANGED server
      BY <1>5 DEF Remember, Leave, Discard, serverVars
    <2>2. \E at \in Places : GoTo(r, at)
      BY <1>5, <1>p DEF Remember, Leave, Discard
    <2> QED
      BY <1>g, <2>1, <2>2
  <1>6. ASSUME NEW r \in Request, Fail(r)
        PROVE  LiveInv'
    BY <1>f, <1>g, <1>p, <1>6 DEF Fail, serverVars
  <1>7. ASSUME NEW r \in Request, ReadSnapshot(r)
        PROVE  LiveInv'
    <2>1. UNCHANGED server
      BY <1>7, SnapshotKeeps
    <2>2. req'[r].stale /\ \A q \in Request \ {r} : req'[q] = req[q]
      BY <1>t, <1>7, SnapshotFields
    <2> QED
      BY <2>1, <2>2 DEF LiveInv, Live
  <1>8. ASSUME NEW r \in Request, LoseReply(r)
        PROVE  LiveInv'
    BY <1>k, <1>p, <1>8 DEF LoseReply
  <1>9. CASE Crash
    BY <1>9 DEF Crash, LiveInv, Live, Idle, Fresh
  <1>10. ASSUME NEW o \in Object, ForeignEdit(o)
         PROVE  LiveInv'
    <2>1. PICK s : server' = [server EXCEPT ![o] = s]
      BY <1>10 DEF ForeignEdit
    <2>2. req' = Outdated(req, o)
      BY <1>10 DEF ForeignEdit
    <2> QED
      BY <1>t, <2>1, <2>2, OutdatedIsLive DEF LiveInv
  <1>11. CASE UNCHANGED vars
    BY <1>11 DEF vars, serverVars, LiveInv, Live
  <1> QED
    BY <1>1, <1>2, <1>3, <1>4, <1>5, <1>6, <1>7, <1>8, <1>9, <1>10, <1>11 DEF Next, Step

LEMMA LiveAlways == Spec => []LiveInv
  BY EntryAlways, LiveInit, LiveNext, PTL DEF Spec

\* Only Write leads from "write" to "remember", and only remember leads on
LEMMA WhoWrites ==
  ASSUME EntryInv, [Next]_vars, NEW r \in Request
  PROVE  /\ Written(r) => Write(r) /\ Accepted(r)
         /\ Answered(r) => Remember(r)
  <1>t. req \in [Request -> Job] /\ setbacks \in Nat
    BY BoundsAreNatural DEF EntryInv, TypeOK
  <1>p. /\ "leave" \in Places /\ "idle" \in Places /\ "discard" \in Places
        /\ "failed" \in Places /\ "remember" \in Places
    BY DEF Places
  <1> SUFFICES ASSUME Written(r) \/ Answered(r)
               PROVE  /\ Written(r) => Write(r) /\ Accepted(r)
                      /\ Answered(r) => Remember(r)
    OBVIOUS
  <1>m. /\ req[r].at \in {"write", "remember"} /\ req'[r].at # req[r].at
        /\ req[r].at = "write" => req'[r].at = "remember"
        /\ req[r].at = "remember" => setbacks' = setbacks
    BY DEF Written, Answered
  <1>s. Setback => setbacks' # setbacks
    BY <1>t DEF Setback
  <1>g. ASSUME NEW at \in Places, GoTo(r, at)
        PROVE  req'[r].at = at
    BY <1>t, <1>g, GoneFields DEF GoTo
  <1>k. ASSUME NEW at \in Places, Take(r, at)
        PROVE  req'[r].at = at
    <2>1. Gone(r, at) \in [Request -> Job] /\ Gone(r, at)[r].at = at
      BY <1>t, GoneIsTyped, GoneFields
    <2>2. req[r].object \in Object
      BY <1>t DEF Job
    <2> QED
      BY <1>k, <2>1, <2>2, OutdatedFields DEF Take
  <1>f. Refused(r) => req'[r].at \in {"failed", "idle"}
    BY <1>g, <1>p DEF Refused
  <1>1. ASSUME NEW q \in Request, q # r,
               Call(q) \/ Step(q) \/ Fail(q) \/ ReadSnapshot(q) \/ LoseReply(q)
        PROVE  FALSE
    BY <1>1, <1>m, StepFields
  <1>2. ASSUME Call(r)
        PROVE  FALSE
    BY <1>2, <1>m DEF Call, Latest, Create, Update, Delete, Busy
  <1>3. ASSUME Suspend(r) \/ Read(r) \/ Leave(r) \/ Discard(r) \/ ReadSnapshot(r)
        PROVE  FALSE
    BY <1>3, <1>m, SnapshotKeeps DEF Suspend, Read, Leave, Discard
  <1>4. ASSUME Fail(r)
        PROVE  FALSE
    <2>1. Refused(r) /\ req[r].at = "write"
      BY <1>4, <1>m, <1>s DEF Fail
    <2> QED
      BY <1>f, <1>m, <2>1
  <1>5. ASSUME LoseReply(r)
        PROVE  FALSE
    <2>1. req[r].at = "write" /\ Take(r, IF Undoing(r) THEN "failed" ELSE "idle")
      BY <1>5 DEF LoseReply
    <2>2. req'[r].at \in {"failed", "idle"}
      BY <1>k, <1>p, <2>1
    <2> QED
      BY <1>m, <2>1, <2>2
  <1>6. ASSUME Crash
        PROVE  FALSE
    BY <1>6, <1>m, <1>s DEF Crash, Idle, Fresh
  <1>7. ASSUME NEW o \in Object, ForeignEdit(o)
        PROVE  FALSE
    BY <1>t, <1>7, <1>m, OutdatedFields DEF ForeignEdit
  <1>8. ASSUME UNCHANGED vars
        PROVE  FALSE
    BY <1>8, <1>m DEF vars
  <1>9. ASSUME Write(r)
        PROVE  ~Answered(r) /\ (Written(r) => Accepted(r))
    BY <1>9, <1>f DEF Write, Answered, Written
  <1>10. ASSUME Remember(r)
         PROVE  ~Written(r)
    BY <1>10 DEF Remember, Written
  <1> QED
    BY <1>1, <1>2, <1>3, <1>4, <1>5, <1>6, <1>7, <1>8, <1>9, <1>10 DEF Next, Step

\* TaskService._update, UndoManager.remember and _suspended: what an update that
\* read the server remembers is what it replaced, whatever other requests and
\* clients write in between.  As long as no two undos have been nested, a change
\* that remember has returned from is in the journal, unless another request's
\* undo was suspending it at that moment: no failure, lost answer or restart
\* leaves it suspended.  And an undo never stores what it does.
THEOREM ChangesGetIn == Spec => JournalHoldsChanges
  <1>1. ASSUME EntryInv, SuspendInv, LiveInv, [Next]_vars, NEW r \in Request
        PROVE  /\ Written(r) /\ req[r].does = "update" /\ ~req[r].stale
                  => req[r].before = server[req[r].object]
               /\ Answered(r) /\ ~nested
                  => IF Undoing(r) THEN UNCHANGED journal
                     ELSE Stored(r) \/ \E q \in Request \ {r} : Suspending(q)
    <2>1. ASSUME Written(r), req[r].does = "update", ~req[r].stale
          PROVE  req[r].before = server[req[r].object]
      <3>1. Accepted(r)
        BY <1>1, <2>1, WhoWrites
      <3>2. req[r].current
        BY <2>1, <3>1 DEF Accepted
      <3> QED
        BY <1>1, <2>1, <3>2 DEF LiveInv, Live
    <2>2. ASSUME Answered(r), ~nested
          PROVE  IF Undoing(r) THEN UNCHANGED journal
                 ELSE Stored(r) \/ \E q \in Request \ {r} : Suspending(q)
      <3>1. Remember(r) /\ req[r].at = "remember"
        BY <1>1, <2>2, WhoWrites DEF Remember
      <3>2. CASE applying
        <4>1. UNCHANGED journal
          BY <3>1, <3>2 DEF Remember, storeVars
        <4>2. PICK q \in Request : Suspending(q)
          BY <1>1, <2>2, <3>2 DEF SuspendInv
        <4>3. ~Undoing(r) => q # r
          BY <4>2 DEF Suspending
        <4> QED
          BY <4>1, <4>2, <4>3
      <3>3. CASE ~applying
        <4>1. ~Undoing(r)
          BY <1>1, <2>2, <3>1, <3>3 DEF SuspendInv, Suspending
        <4> DEFINE e == [id |-> NewId, action |-> req[r].does, object |-> req[r].object,
                         before |-> req[r].before, byUndo |-> Undoing(r)]
        <4>2. journal' = journal \cup {e}
          BY <3>1, <3>3 DEF Remember, Store
        <4>3. \A f \in journal : f.id <= lastId /\ f.id \in Nat
          BY <1>1 DEF EntryInv, IdsOK, TypeOK, Entry, Ids
        <4>4. lastId \in Nat /\ e.id = lastId + 1
          BY <1>1, BoundsAreNatural DEF EntryInv, TypeOK, NewId
        <4>5. e \notin journal
          BY <4>3, <4>4
        <4>6. Stored(r)
          BY <4>1, <4>2, <4>5 DEF Stored
        <4> QED
          BY <4>1, <4>6
      <3> QED
        BY <3>2, <3>3
    <2> QED
      BY <2>1, <2>2
  <1>2. EntryInv /\ SuspendInv /\ LiveInv /\ [Next]_vars
        => [\A r \in Request :
               /\ Written(r) /\ req[r].does = "update" /\ ~req[r].stale
                  => req[r].before = server[req[r].object]
               /\ Answered(r) /\ ~nested
                  => IF Undoing(r) THEN UNCHANGED journal
                     ELSE Stored(r) \/ \E q \in Request \ {r} : Suspending(q)]_vars
    BY <1>1
  <1> QED
    BY <1>2, EntryAlways, SuspendAlways, LiveAlways, PTL DEF Spec, JournalHoldsChanges

(***************************************************************************)
(* Undone once.  As long as two undos do not overlap and nothing fails,    *)
(* only the entry of a running undo has been carried out and is still in   *)
(* the table.                                                              *)
(***************************************************************************)
OnceInv ==
    ~crowded /\ setbacks = 0 =>
        /\ \A r, q \in Request : Undoing(r) /\ Undoing(q) => r = q
        /\ \A i \in Ids : applied[i] <= 1
        /\ \A r \in Request : Undoing(r) /\ req[r].at \notin Done => applied[req[r].entry] = 0
        /\ \A e \in journal :
               applied[e.id] = 0 \/ \E r \in Request : Undoing(r) /\ req[r].entry = e.id

LEMMA OnceInit == Init => OnceInv
  BY DEF Init, OnceInv, Undoing, Idle, Fresh

LEMMA OnceNext ==
  ASSUME EntryInv, OnceInv, [Next]_vars
  PROVE  OnceInv'
  <1>t. /\ req \in [Request -> Job] /\ applied \in [Ids -> Nat] /\ setbacks \in Nat
        /\ \A e \in journal : e.id \in Ids
        /\ \A q \in Request : Undoing(q) => req[q].entry \in Ids
    BY BoundsAreNatural DEF EntryInv, TypeOK, Job, Entry, Undoing
  <1> SUFFICES ASSUME ~crowded', setbacks' = 0
               PROVE  OnceInv'
    BY DEF OnceInv
  <1>s. ASSUME Setback
        PROVE  FALSE
    BY <1>t, <1>s DEF Setback
  \* A step that carries nothing out and after which r, if it was undoing, goes on
  <1>1. ASSUME NEW r \in Request, Call(r) \/ Step(r),
               ~crowded, setbacks = 0,
               UNCHANGED applied, journal' \subseteq journal,
               \/ req'[r].entry = req[r].entry /\ (req'[r].at \in Done <=> req[r].at \in Done)
               \/ req'[r].entry = 0 /\ ~Undoing(r)
        PROVE  OnceInv'
    <2>1. \A q \in Request :
             /\ Undoing(q)' <=> Undoing(q)
             /\ Undoing(q) => req'[q].entry = req[q].entry
             /\ Undoing(q) => (req'[q].at \in Done <=> req[q].at \in Done)
      BY <1>1, StepFields DEF Undoing
    <2> QED
      BY <1>1, <2>1 DEF OnceInv
  \* A step with which r stops undoing
  <1>2. ASSUME NEW r \in Request, Step(r), ~crowded, setbacks = 0, Undoing(r),
               UNCHANGED applied, req'[r].entry = 0, journal' \subseteq journal,
               \A e \in journal' : e.id = req[r].entry => applied[e.id] = 0
        PROVE  OnceInv'
    <2>1. \A q \in Request : ~Undoing(q)'
      BY <1>2, StepFields DEF Undoing, OnceInv
    <2>2. \A e \in journal' : applied[e.id] = 0
      BY <1>2 DEF OnceInv
    <2> QED
      BY <1>2, <2>1, <2>2 DEF OnceInv
  <1>g. ASSUME NEW r \in Request, NEW at \in Places, GoTo(r, at)
        PROVE  req'[r].at = at /\ req'[r].entry = IF at = "idle" THEN 0 ELSE req[r].entry
    BY <1>t, <1>g, GoneFields DEF GoTo
  <1>p. /\ "leave" \in Places /\ "idle" \in Places /\ "discard" \in Places
        /\ "failed" \in Places /\ "remember" \in Places
    BY DEF Places
  <1>3. ASSUME NEW r \in Request, Latest(r)
        PROVE  OnceInv'
    <2>1. PICK e \in journal :
              req' = [req EXCEPT ![r] =
                         [Fresh(Opposite(e.action), e.object, e.before, "suspend")
                              EXCEPT !.entry = e.id]]
      BY <1>3 DEF Latest
    <2>2. req'[r].at = "suspend" /\ req'[r].entry = e.id /\ req[r].entry = 0
      BY <1>t, <1>3, <2>1 DEF Latest, Fresh, Busy, EntryInv, JobsOK
    <2>3. ~crowded /\ setbacks = 0 /\ UNCHANGED <<applied, journal>>
      BY <1>3 DEF Latest, counts, storeVars
    <2>4. \A q \in Request \ {r} : ~(Busy(q) /\ Undoing(q))
      BY <1>3 DEF Latest
    <2>5. \A q \in Request : ~Undoing(q)
      BY <2>2, <2>4 DEF Busy, Undoing, EntryInv, JobsOK
    <2>6. \A q \in Request \ {r} : ~Undoing(q)'
      BY <1>3, <2>5, StepFields DEF Call, Undoing
    <2>7. \A f \in journal : applied[f.id] = 0
      BY <2>3, <2>5 DEF OnceInv
    <2> QED
      BY <2>2, <2>3, <2>6, <2>7 DEF OnceInv, Undoing, Done
  <1>4. ASSUME NEW r \in Request, Call(r), ~Latest(r)
        PROVE  OnceInv'
    <2>1. req'[r].entry = 0 /\ req[r].entry = 0
      BY <1>t, <1>4 DEF Call, Create, Update, Delete, Busy, Fresh, EntryInv, JobsOK
    <2>2. ~crowded /\ setbacks = 0 /\ UNCHANGED <<applied, journal>>
      BY <1>4 DEF Call, Create, Update, Delete, counts, storeVars
    <2> QED
      BY <1>1, <1>4, <2>1, <2>2 DEF Undoing
  <1>5. ASSUME NEW r \in Request, Suspend(r)
        PROVE  OnceInv'
    <2> DEFINE j == [req[r] EXCEPT !.at = First(r), !.flag = applying]
    <2>1. req' = [req EXCEPT ![r] = j]
      BY <1>5 DEF Suspend
    <2>2. j.at \in {"read", "write"} /\ j.entry = req[r].entry
      BY <1>t DEF Job, First
    <2>3. req'[r].entry = req[r].entry /\ req'[r].at \notin Done /\ req[r].at \notin Done
      BY <1>t, <1>5, <2>1, <2>2 DEF Done, Suspend
    <2>4. ~crowded /\ setbacks = 0 /\ UNCHANGED <<applied, journal>>
      BY <1>5 DEF Suspend, storeVars, counts
    <2>5. Step(r)
      BY <1>5 DEF Step
    <2> QED
      BY <1>1, <2>3, <2>4, <2>5
  <1>6. ASSUME NEW r \in Request, Refused(r), Read(r) \/ Write(r),
               UNCHANGED <<applied, journal, crowded, setbacks>>
        PROVE  OnceInv'
    <2>1. req[r].at \in {"read", "write"}
      BY <1>6 DEF Read, Write
    <2>2. CASE Undoing(r)
      BY <1>1, <1>6, <1>g, <1>p, <2>1, <2>2 DEF Refused, Done, Step
    <2>3. CASE ~Undoing(r)
      BY <1>1, <1>6, <1>g, <1>p, <2>1, <2>3 DEF Refused, Done, Step
    <2> QED
      BY <2>2, <2>3
  <1>7. ASSUME NEW r \in Request, Read(r)
        PROVE  OnceInv'
    <2>1. UNCHANGED <<applied, journal, crowded, setbacks>>
      BY <1>7 DEF Read, history, storeVars, counts
    <2>2. CASE Refused(r)
      BY <1>6, <1>7, <2>1, <2>2
    <2>3. CASE ~Refused(r)
      <3> DEFINE j == [req[r] EXCEPT !.at = "write", !.before = server[req[r].object],
                                     !.current = TRUE]
      <3>1. req' = [req EXCEPT ![r] = j]
        BY <1>7, <2>3 DEF Read
      <3>2. req'[r].entry = req[r].entry /\ req'[r].at \notin Done /\ req[r].at \notin Done
        BY <1>t, <1>7, <3>1 DEF Done, Read, Job
      <3> QED
        BY <1>1, <1>7, <2>1, <3>2 DEF Step
    <2> QED
      BY <2>2, <2>3
  <1>8. ASSUME NEW r \in Request, Write(r)
        PROVE  OnceInv'
    <2>1. UNCHANGED <<journal, crowded, setbacks>> /\ req[r].at = "write"
      BY <1>8 DEF Write, storeVars, counts
    <2>2. CASE ~Accepted(r)
      BY <1>6, <1>8, <2>1, <2>2 DEF Write
    <2>3. CASE Accepted(r)
      <3>1. Take(r, "remember")
        BY <1>8, <2>3 DEF Write
      <3>2. req[r].object \in Object /\ Gone(r, "remember") \in [Request -> Job]
        BY <1>t, <1>p, GoneIsTyped DEF Job
      <3>3. req'[r].at = "remember" /\ req'[r].entry = req[r].entry
        BY <1>t, <1>p, <3>1, <3>2, GoneFields, OutdatedFields DEF Take
      <3>4. \A q \in Request : /\ Undoing(q)' <=> Undoing(q)
                               /\ Undoing(q) => req'[q].entry = req[q].entry
        BY <1>8, <3>3, StepFields DEF Step, Undoing
      <3>5. CASE Undoing(r)
        <4>1. \A q \in Request \ {r} : ~Undoing(q)
          BY <2>1, <3>5 DEF OnceInv
        <4>2. applied[req[r].entry] = 0 /\ req[r].entry \in Ids
          BY <1>t, <2>1, <3>5 DEF OnceInv, Done
        <4>3. applied' = [applied EXCEPT ![req[r].entry] = @ + 1]
          BY <3>1, <3>5 DEF Take
        <4>4. \A i \in Ids : applied'[i] <= 1
          BY <1>t, <2>1, <4>2, <4>3 DEF OnceInv
        <4>5. \A e \in journal : e.id # req[r].entry => applied'[e.id] = 0
          BY <1>t, <2>1, <4>1, <4>2, <4>3 DEF OnceInv
        <4> QED
          BY <2>1, <3>3, <3>4, <3>5, <4>1, <4>4, <4>5 DEF OnceInv, Done
      <3>6. CASE ~Undoing(r)
        <4>1. applied' = applied
          BY <3>1, <3>6 DEF Take
        <4>2. req'[r].entry = 0
          BY <3>3, <3>6 DEF Undoing
        <4> QED
          BY <1>1, <1>8, <2>1, <3>6, <4>1, <4>2 DEF Step
      <3> QED
        BY <3>5, <3>6
    <2> QED
      BY <2>2, <2>3
  <1>9. ASSUME NEW r \in Request, Remember(r)
        PROVE  OnceInv'
    <2>1. ~crowded /\ setbacks = 0 /\ req[r].at = "remember"
          /\ GoTo(r, IF Undoing(r) THEN "leave" ELSE "idle")
      BY <1>9 DEF Remember, counts
    <2>2. \/ req'[r].entry = req[r].entry /\ (req'[r].at \in Done <=> req[r].at \in Done)
          \/ req'[r].entry = 0 /\ ~Undoing(r)
      BY <1>g, <1>p, <2>1 DEF Done
    <2>3. CASE applying
      BY <1>1, <1>9, <2>1, <2>2, <2>3 DEF Remember, Step, storeVars
    <2>4. CASE ~applying
      <3>1. \A q \in Request :
               /\ Undoing(q)' <=> Undoing(q)
               /\ Undoing(q) => req'[q].entry = req[q].entry
               /\ Undoing(q) => (req'[q].at \in Done <=> req[q].at \in Done)
        BY <1>9, <2>2, StepFields DEF Undoing, Step
      <3>2. PICK e : /\ e.id = NewId
                     /\ journal' = journal \cup {e}
                     /\ applied' = [applied EXCEPT ![NewId] = 0]
        BY <1>9, <2>4 DEF Remember, Store
      <3>3. \A i \in Ids : applied'[i] = 0 \/ applied'[i] = applied[i]
        BY <1>t, <3>2
      <3>4. NewId \in Ids
        BY <1>9, <2>4, BoundsAreNatural DEF Remember, Store, NewId, Ids, EntryInv, TypeOK
      <3>5. \A f \in journal' : f.id \in Ids /\ (f \notin journal => applied'[f.id] = 0)
        BY <1>t, <3>2, <3>4
      <3> QED
        BY <1>t, <2>1, <3>1, <3>3, <3>5 DEF OnceInv
    <2> QED
      BY <2>3, <2>4
  <1>10. ASSUME NEW r \in Request, Leave(r)
         PROVE  OnceInv'
    <2>1. ~crowded /\ setbacks = 0 /\ UNCHANGED <<applied, journal>>
          /\ Undoing(r)
      BY <1>10 DEF Leave, history, counts, storeVars, EntryInv, TypeOK
    <2>2. CASE req[r].at = "leave"
      BY <1>1, <1>10, <1>g, <1>p, <2>1, <2>2 DEF Leave, Done, Step
    <2>3. CASE req[r].at = "failed"
      <3>1. applied[req[r].entry] = 0
        BY <2>1, <2>3 DEF OnceInv, Done
      <3> QED
        BY <1>2, <1>10, <1>g, <1>p, <2>1, <2>3, <3>1 DEF Leave, Step
    <2> QED
      BY <1>10, <2>2, <2>3 DEF Leave
  <1>11. ASSUME NEW r \in Request, Discard(r)
         PROVE  OnceInv'
    <2>1. ~crowded /\ setbacks = 0 /\ UNCHANGED applied /\ Undoing(r)
      BY <1>11 DEF Discard, history, counts, EntryInv, TypeOK
    <2>2. req'[r].entry = 0 /\ journal' = {e \in journal : e.id # req[r].entry}
      BY <1>11, <1>g, <1>p DEF Discard
    <2> QED
      BY <1>2, <1>11, <2>1, <2>2 DEF Step
  <1>12. ASSUME Crash \/ \E r \in Request : Fail(r) \/ ReadSnapshot(r) \/ LoseReply(r)
         PROVE  OnceInv'
    BY <1>s, <1>12, SnapshotKeeps DEF Crash, Fail, LoseReply
  <1>13. ASSUME NEW o \in Object, ForeignEdit(o)
         PROVE  OnceInv'
    <2>1. \A q \in Request : req'[q].at = req[q].at /\ req'[q].entry = req[q].entry
      BY <1>t, <1>13, OutdatedFields DEF ForeignEdit
    <2> QED
      BY <1>13, <2>1 DEF ForeignEdit, OnceInv, Undoing, storeVars
  <1>14. CASE UNCHANGED vars
    BY <1>14 DEF vars, OnceInv, Undoing, history, storeVars, counts
  <1> QED
    BY <1>3, <1>4, <1>5, <1>7, <1>8, <1>9, <1>10, <1>11, <1>12, <1>13, <1>14 DEF Next, Step

\* UndoManager.undo_last reads, applies and discards in three steps, so an entry
\* can be carried out twice; that takes a second undo at the same time or a
\* failure between the mutation and the discard.
THEOREM CarriedOutOnce == Spec => []UndoneOnce
  <1>1. EntryInv /\ OnceInv => UndoneOnce
    BY BoundsAreNatural DEF EntryInv, TypeOK, OnceInv, UndoneOnce
  <1> QED
    BY <1>1, EntryAlways, OnceInit, OnceNext, PTL DEF Spec

(***************************************************************************)
(* The changes that can be taken back, in the order of their ids: an entry *)
(* with a new highest id comes last and moves no other.                    *)
(***************************************************************************)
IsNewest(n, S) ==
    /\ n.id \in Nat
    /\ \A e \in S : e.id \in Nat /\ e.id < n.id

LEMMA OlderStay ==
  ASSUME NEW S, IsFiniteSet(S), NEW n, IsNewest(n, S)
  PROVE  /\ \A e \in S : /\ Older(S \cup {n}, e) = Older(S, e)
                         /\ Cardinality(Older(S, e)) \in Nat
                         /\ Cardinality(Older(S, e)) <= Cardinality(S)
         /\ Cardinality(Older(S \cup {n}, n)) = Cardinality(S) + 1
         /\ Cardinality(S) \in Nat
         /\ Cardinality(S \cup {n}) = Cardinality(S) + 1
  <1>1. n \notin S
    BY DEF IsNewest
  <1>2. ASSUME NEW e \in S
        PROVE  /\ Older(S \cup {n}, e) = Older(S, e)
               /\ Cardinality(Older(S, e)) \in Nat
               /\ Cardinality(Older(S, e)) <= Cardinality(S)
    <2>1. Older(S \cup {n}, e) = Older(S, e)
      BY DEF Older, IsNewest
    <2>2. Older(S, e) \in SUBSET S
      BY DEF Older
    <2>3. IsFiniteSet(Older(S, e)) /\ Cardinality(Older(S, e)) <= Cardinality(S)
      BY <2>2, FS_Subset
    <2> QED
      BY <2>1, <2>3, FS_CardinalityType
  <1>3. Older(S \cup {n}, n) = S \cup {n}
    BY DEF Older, IsNewest
  <1> QED
    BY <1>1, <1>2, <1>3, FS_CardinalityType, FS_AddElement

LEMMA NthStays ==
  ASSUME NEW S, IsFiniteSet(S), NEW n, IsNewest(n, S), NEW i \in 1 .. Cardinality(S)
  PROVE  Nth(S \cup {n}, i) = Nth(S, i)
  <1>0. /\ \A e \in S : /\ Older(S \cup {n}, e) = Older(S, e)
                      /\ Cardinality(Older(S, e)) \in Nat
                      /\ Cardinality(Older(S, e)) <= Cardinality(S)
        /\ Cardinality(Older(S \cup {n}, n)) = Cardinality(S) + 1
        /\ Cardinality(S) \in Nat
    BY OlderStay
  <1>1. Cardinality(Older(S \cup {n}, n)) # i
    BY <1>0
  <1>2. {f \in S \cup {n} : Cardinality(Older(S \cup {n}, f)) = i}
        = {f \in S : Cardinality(Older(S, f)) = i}
    BY <1>0, <1>1
  <1> QED
    BY <1>2 DEF Nth

LEMMA NewestIsLast ==
  ASSUME NEW S, IsFiniteSet(S), NEW n, IsNewest(n, S)
  PROVE  Nth(S \cup {n}, Cardinality(S) + 1) = n
  <1> DEFINE A == {f \in S \cup {n} :
                      Cardinality(Older(S \cup {n}, f)) = Cardinality(S) + 1}
  <1>0. /\ \A e \in S : /\ Older(S \cup {n}, e) = Older(S, e)
                      /\ Cardinality(Older(S, e)) \in Nat
                      /\ Cardinality(Older(S, e)) <= Cardinality(S)
        /\ Cardinality(Older(S \cup {n}, n)) = Cardinality(S) + 1
        /\ Cardinality(S) \in Nat
    BY OlderStay
  <1>1. n \in A
    BY <1>0
  <1>2. ASSUME NEW f \in S
        PROVE  f \notin A
    <2>1. Cardinality(Older(S, f)) # Cardinality(S) + 1
      BY <1>0
    <2>2. Older(S \cup {n}, f) = Older(S, f)
      BY <1>0
    <2> QED
      BY <2>1, <2>2
  <1>3. A = {n}
    BY <1>1, <1>2
  <1>4. (CHOOSE f \in A : TRUE) = n
    BY <1>3
  <1> QED
    BY <1>4 DEF Nth

LEMMA ChangesGrow ==
  ASSUME NEW S, IsFiniteSet(S), NEW n, IsNewest(n, S)
  PROVE  /\ Changes(S \cup {n})
              = Append(Changes(S), [object |-> n.object, was |-> n.before])
         /\ Len(Changes(S \cup {n})) = Cardinality(S) + 1
         /\ Changes(S \cup {n})[Cardinality(S) + 1]
              = [object |-> n.object, was |-> n.before]
         /\ Changes(S) = SubSeq(Changes(S \cup {n}), 1, Cardinality(S))
         /\ Changes(S \cup {n}) # <<>>
  <1> DEFINE c == Cardinality(S)
             old == Changes(S)
             new == Changes(S \cup {n})
             last == [object |-> n.object, was |-> n.before]
             X == {old[i] : i \in 1 .. c} \cup {last}
  <1>1. c \in Nat /\ Cardinality(S \cup {n}) = c + 1
    BY OlderStay
  <1>2. old \in [1 .. c -> X]
    BY DEF Changes
  <1>3. \A i \in 1 .. c : new[i] = old[i]
    BY <1>1, NthStays DEF Changes
  <1>4. new[c + 1] = last
    BY <1>1, NewestIsLast DEF Changes
  <1>5. new \in [1 .. c + 1 -> X]
    <2>1. \A i \in 1 .. c + 1 : new[i] \in X
      <3>1. ASSUME NEW i \in 1 .. c
            PROVE  old[i] \in X
        OBVIOUS
      <3>2. last \in X
        OBVIOUS
      <3> HIDE DEF c, old, new, last, X
      <3> QED
        BY <1>1, <1>3, <1>4, <3>1, <3>2
    <2>2. new = [i \in 1 .. c + 1 |-> new[i]]
      BY <1>1 DEF Changes
    <2> HIDE DEF new, X
    <2> QED
      BY <2>1, <2>2
  <1> HIDE DEF c, old, new, last, X
  <1>6. last \in X
    BY DEF X
  <1>7. old \in Seq(X) /\ new \in Seq(X) /\ Len(old) = c /\ Len(new) = c + 1
    BY <1>1, <1>2, <1>5
  <1>8. new = Append(old, last)
    BY <1>1, <1>3, <1>4, <1>6, <1>7
  <1>9. old = SubSeq(new, 1, c)
    BY <1>1, <1>3, <1>7
  <1> QED
    BY <1>1, <1>4, <1>7, <1>8, <1>9 DEF c, old, new, last

(***************************************************************************)
(* What undo promises.  While nothing interferes one request runs at most, *)
(* and it finds the object as it read it.  SeenIn is Seen for any jobs and *)
(* any server.                                                             *)
(***************************************************************************)
SeenIn(jobs, values) ==
    [o \in Object |->
        IF \E r \in Request : jobs[r].at \in Done /\ jobs[r].object = o
        THEN jobs[CHOOSE r \in Request : jobs[r].at \in Done /\ jobs[r].object = o].before
        ELSE values[o]]

Later(e, S) == {f \in S : f.object = e.object /\ f.id > e.id}

\* A deleted object is there again only once its deletion has been taken back:
\* the next change of it, if any, is its creation
StaysDeleted(S, seen) ==
    \A e \in S : e.action = "delete" =>
        IF Later(e, S) = {} THEN seen[e.object] = Absent
        ELSE \E f \in Later(e, S) : /\ \A g \in Later(e, S) : f.id <= g.id
                                    /\ f.before = Absent

\* A request q in a journal S, with the values on the server
ChangeFits(q, values) ==
    /\ q.does = "create" => q.before = Absent /\ q.at # "read"
    /\ q.does = "create" /\ q.at \in {"suspend", "write"} => values[q.object] = Absent
    /\ q.does = "delete" /\ q.entry = 0 => q.value = Absent
    /\ q.does # "create" /\ q.at = "write" => q.before = values[q.object]
    /\ q.at \in Done => values[q.object] = q.value

UndoFits(q, S) ==
    q.entry # 0 =>
        \E e \in S : /\ e.id = q.entry
                     /\ \A f \in S : f.id <= e.id
                     /\ e.object = q.object /\ e.before = q.value

Alone(r) == \A q \in Request : Busy(q) => q = r

QuietInv ==
    /\ nested => disturbed
    /\ ~disturbed =>
          /\ \A r \in Request : Busy(r) =>
                /\ Alone(r)
                /\ req[r].object \notin unused
                /\ ChangeFits(req[r], server) /\ UndoFits(req[r], journal)
          /\ \A o \in unused : server[o] = Absent
          /\ \A e \in journal : e.object \notin unused
          /\ StaysDeleted(journal, SeenIn(req, server))

LEMMA SeenOfOne ==
  ASSUME NEW jobs \in [Request -> Job], NEW values \in [Object -> State],
         NEW r \in Request, \A q \in Request : jobs[q].at # "idle" => q = r
  PROVE  /\ jobs[r].at \notin Done => SeenIn(jobs, values) = values
         /\ jobs[r].at \in Done =>
               SeenIn(jobs, values) = [values EXCEPT ![jobs[r].object] = jobs[r].before]
  <1>1. \A q \in Request : jobs[q].at \in Done => q = r
    BY DEF Done
  <1>2. ASSUME jobs[r].at \notin Done
        PROVE  SeenIn(jobs, values) = values
    <2>1. \A q \in Request : jobs[q].at \notin Done
      BY <1>1, <1>2
    <2> QED
      BY <2>1 DEF SeenIn
  <1>3. ASSUME jobs[r].at \in Done
        PROVE  SeenIn(jobs, values) = [values EXCEPT ![jobs[r].object] = jobs[r].before]
    <2>1. ASSUME NEW o \in Object
          PROVE  SeenIn(jobs, values)[o]
                    = IF o = jobs[r].object THEN jobs[r].before ELSE values[o]
      <3>1. CASE o = jobs[r].object
        <4> DEFINE P(q) == q \in Request /\ jobs[q].at \in Done /\ jobs[q].object = o
                   w == CHOOSE q \in Request : jobs[q].at \in Done /\ jobs[q].object = o
        <4>1. \E q \in Request : jobs[q].at \in Done /\ jobs[q].object = o
          BY <1>3, <3>1
        <4>2. w \in Request /\ jobs[w].at \in Done
          BY <4>1
        <4>3. w = r
          BY <1>1, <4>2
        <4> QED
          BY <3>1, <4>1, <4>3 DEF SeenIn
      <3>2. CASE o # jobs[r].object
        <4>1. ~\E q \in Request : jobs[q].at \in Done /\ jobs[q].object = o
          BY <1>1, <3>2
        <4> QED
          BY <3>2, <4>1 DEF SeenIn
      <3> QED
        BY <3>1, <3>2
    <2>2. SeenIn(jobs, values) = [o \in Object |-> SeenIn(jobs, values)[o]]
      BY DEF SeenIn
    <2> QED
      BY <2>1, <2>2
  <1> QED
    BY <1>2, <1>3

\* What a request is about stays with it until it is over
LEMMA GoneWork ==
  ASSUME req \in [Request -> Job], NEW r \in Request, NEW at \in Places
  PROVE  /\ at = "idle" => Gone(r, at)[r] = Idle
         /\ at # "idle" => /\ Gone(r, at)[r].does = req[r].does
                           /\ Gone(r, at)[r].object = req[r].object
                           /\ Gone(r, at)[r].value = req[r].value
                           /\ Gone(r, at)[r].before = req[r].before
  BY DEF Gone, Job

LEMMA OutdatedWork ==
  ASSUME NEW jobs \in [Request -> Job], NEW o \in Object, NEW r \in Request
  PROVE  /\ Outdated(jobs, o)[r].does = jobs[r].does
         /\ Outdated(jobs, o)[r].object = jobs[r].object
         /\ Outdated(jobs, o)[r].value = jobs[r].value
         /\ Outdated(jobs, o)[r].before = jobs[r].before
  BY DEF Outdated, Job

LEMMA IdleIsIdle == Idle.at = "idle" /\ Idle.entry = 0
  BY DEF Idle, Fresh

\* While nothing interferes, whoever makes a step is the only one at work
LEMMA QuietAlone ==
  ASSUME EntryInv, QuietInv, NEW r \in Request, Call(r) \/ Step(r), ~disturbed'
  PROVE  ~disturbed /\ Alone(r) /\ Alone(r)' /\ ~nested'
  <1>1. ~disturbed /\ Alone(r)
    <2>1. CASE Call(r)
      BY <2>1 DEF Call, Latest, Create, Update, Delete, Disturb, Alone
    <2>2. CASE Step(r)
      <3>1. ~disturbed
        BY <2>2 DEF Step, Suspend, Read, Write, Remember, Leave, Discard, history
      <3>2. Busy(r)
        BY <2>2 DEF Step, Suspend, Read, Write, Remember, Leave, Discard, Busy
      <3> QED
        BY <3>1, <3>2 DEF QuietInv
    <2> QED
      BY <2>1, <2>2
  <1>2. Alone(r)'
    BY <1>1, StepFields DEF Alone, Busy
  <1>3. ~nested'
    <2>1. \A q \in Request \ {r} : ~Suspending(q)
      BY <1>1 DEF Alone, Busy, Suspending
    <2> QED
      BY <1>1, <2>1 DEF QuietInv, Call, Step, Latest, Create, Update, Delete, Suspend,
         Read, Write, Remember, Leave, Discard, history
  <1> QED
    BY <1>1, <1>2, <1>3

Kept == SeenIn(req, server)' = SeenIn(req, server) /\ journal' = journal

\* The beginning of a call
LEMMA QuietCall ==
  ASSUME EntryInv, EntryInv', QuietInv, NEW r \in Request, Call(r), ~disturbed'
  PROVE  QuietInv' /\ Kept
  <1>t. /\ req \in [Request -> Job] /\ server \in [Object -> State]
        /\ req' \in [Request -> Job] /\ server' \in [Object -> State]
    BY DEF EntryInv, TypeOK
  <1>a. ~disturbed /\ Alone(r) /\ Alone(r)' /\ ~nested'
    BY QuietAlone
  <1>b. req[r].at = "idle" /\ UNCHANGED <<server, journal>>
    BY DEF Call, Latest, Create, Update, Delete, Busy, serverVars, storeVars
  <1>c. SeenIn(req, server) = server
    BY <1>t, <1>a, <1>b, SeenOfOne DEF Alone, Busy, Done
  <1>q. /\ \A o \in unused : server[o] = Absent
        /\ \A e \in journal : e.object \notin unused
        /\ StaysDeleted(journal, server)
    BY <1>a, <1>c DEF QuietInv
  \* What is left to show of each kind of call
  <1>1. ASSUME req'[r].at \notin Done, req'[r].object \notin unused',
               unused' \subseteq unused,
               ChangeFits(req'[r], server), UndoFits(req'[r], journal)
        PROVE  QuietInv' /\ Kept
    <2>1. SeenIn(req', server') = server'
      BY <1>t, <1>a, <1>1, SeenOfOne DEF Alone, Busy
    <2>2. Kept
      BY <1>b, <1>c, <2>1 DEF Kept
    <2>3. StaysDeleted(journal', SeenIn(req', server'))
      BY <1>b, <1>q, <2>1
    <2>4. \A q \in Request : Busy(q)' => q = r
      BY <1>a DEF Alone
    <2> QED
      BY <1>1, <1>a, <1>b, <1>q, <2>2, <2>3, <2>4 DEF QuietInv
  <1>2. ASSUME NEW o \in Object, NEW v \in Value, Create(r, o, v)
        PROVE  QuietInv' /\ Kept
    <2>1. req'[r] = Fresh("create", o, v, "write") /\ o \in unused /\ unused' = unused \ {o}
      BY <1>t, <1>2 DEF Create
    <2> QED
      BY <1>1, <1>q, <2>1 DEF Fresh, ChangeFits, UndoFits, Done
  <1>3. ASSUME NEW o \in Object, NEW v \in Value, Update(r, o, v)
        PROVE  QuietInv' /\ Kept
    <2>1. req'[r] = Fresh("update", o, v, "read") /\ o \notin unused /\ unused' = unused
      BY <1>t, <1>3 DEF Update, serverVars
    <2> QED
      BY <1>1, <2>1 DEF Fresh, ChangeFits, UndoFits, Done
  <1>4. ASSUME NEW o \in Object, Delete(r, o)
        PROVE  QuietInv' /\ Kept
    <2>1. req'[r] = Fresh("delete", o, Absent, "read") /\ o \notin unused /\ unused' = unused
      BY <1>t, <1>4 DEF Delete, serverVars
    <2> QED
      BY <1>1, <2>1 DEF Fresh, ChangeFits, UndoFits, Done
  <1>5. CASE Latest(r)
    <2>1. PICK e \in journal :
              /\ \A f \in journal : f.id <= e.id
              /\ req' = [req EXCEPT ![r] =
                            [Fresh(Opposite(e.action), e.object, e.before, "suspend")
                                 EXCEPT !.entry = e.id]]
      BY <1>5 DEF Latest
    <2>2. /\ req'[r].at = "suspend" /\ req'[r].does = Opposite(e.action)
          /\ req'[r].object = e.object /\ req'[r].value = e.before
          /\ req'[r].before = Absent /\ req'[r].entry = e.id
      BY <1>t, <2>1 DEF Fresh
    <2>3. unused' = unused
      BY <1>5 DEF Latest, serverVars
    <2>4. UndoFits(req'[r], journal)
      BY <2>1, <2>2 DEF UndoFits
    <2>5. e.action \in Mutation /\ \A f \in journal : f.id \in Nat
      BY DEF EntryInv, TypeOK, Entry, Ids
    <2>6. Later(e, journal) = {}
      BY <2>1, <2>5 DEF Later
    <2>7. Opposite(e.action) = "create" => server[e.object] = Absent
      BY <1>q, <2>5, <2>6 DEF Opposite, Mutation, StaysDeleted
    <2>8. e.id # 0
      BY DEF EntryInv, TypeOK, Entry, Ids
    <2>9. ChangeFits(req'[r], server)
      BY <2>2, <2>7, <2>8 DEF ChangeFits, Done
    <2> QED
      BY <1>1, <1>q, <2>2, <2>3, <2>4, <2>9 DEF Done
  <1> QED
    BY <1>2, <1>3, <1>4, <1>5 DEF Call


LEMMA QuietFacts ==
  ASSUME EntryInv, EntryInv', QuietInv, NEW r \in Request, Step(r), ~disturbed'
  PROVE  /\ req \in [Request -> Job] /\ server \in [Object -> State]
         /\ req' \in [Request -> Job] /\ server' \in [Object -> State]
         /\ ~disturbed /\ Alone(r) /\ Alone(r)' /\ ~nested /\ ~nested'
         /\ req[r].object \in Object \ unused
         /\ ChangeFits(req[r], server) /\ UndoFits(req[r], journal)
         /\ \A o \in unused : server[o] = Absent
         /\ \A e \in journal : e.object \notin unused
         /\ StaysDeleted(journal, SeenIn(req, server))
         /\ unused' = unused
  <1>1. ~disturbed /\ Alone(r) /\ Alone(r)' /\ ~nested'
    BY QuietAlone
  <1>2. Busy(r)
    BY DEF Step, Suspend, Read, Write, Remember, Leave, Discard, Busy
  <1>3. unused' = unused
    BY DEF Step, Suspend, Read, Write, Remember, Leave, Discard, serverVars
  <1>4. /\ req \in [Request -> Job] /\ server \in [Object -> State]
        /\ req' \in [Request -> Job] /\ server' \in [Object -> State]
    BY DEF EntryInv, TypeOK
  <1>5. req[r].object \in Object
    BY <1>4 DEF Job
  <1> QED
    BY <1>1, <1>2, <1>3, <1>4, <1>5 DEF QuietInv

\* A step that leads r to another place and changes nothing but what it reads
LEMMA QuietMove ==
  ASSUME EntryInv, EntryInv', QuietInv, NEW r \in Request, Step(r), ~disturbed',
         req'[r].at = "idle" \/ /\ req'[r].object = req[r].object
                                /\ ChangeFits(req'[r], server')
                                /\ UndoFits(req'[r], journal),
         SeenIn(req', server') = SeenIn(req, server), UNCHANGED journal,
         \A o \in unused : server'[o] = server[o]
  PROVE  QuietInv' /\ Kept
  <1>1. /\ ~disturbed /\ Alone(r)' /\ ~nested' /\ unused' = unused
        /\ req[r].object \notin unused
        /\ \A o \in unused : server[o] = Absent
        /\ \A e \in journal : e.object \notin unused
        /\ StaysDeleted(journal, SeenIn(req, server))
    BY QuietFacts
  <1>2. StaysDeleted(journal', SeenIn(req', server'))
    BY <1>1
  <1>3. \A q \in Request : Busy(q)' => q = r
    BY <1>1 DEF Alone
  <1>4. Busy(r)' => /\ req'[r].object \notin unused'
                    /\ ChangeFits(req'[r], server') /\ UndoFits(req'[r], journal')
    BY <1>1 DEF Busy
  <1> QED
    BY <1>1, <1>2, <1>3, <1>4 DEF QuietInv, Kept

\* The steps of an undo around its mutation, and a refusal
LEMMA QuietGoes ==
  ASSUME EntryInv, EntryInv', QuietInv, NEW r \in Request, Step(r), ~disturbed',
         NEW at \in Places, GoTo(r, at), UNCHANGED <<server, journal>>,
         \/ req[r].at \in Done /\ at \in Done
         \/ req[r].at \notin Done /\ at \in {"idle", "failed"}
         \/ req[r].at = "failed" /\ at = "idle"
  PROVE  QuietInv' /\ Kept
  <1>q. /\ req \in [Request -> Job] /\ server \in [Object -> State]
        /\ req' \in [Request -> Job] /\ server' \in [Object -> State]
        /\ Alone(r) /\ Alone(r)'
        /\ ChangeFits(req[r], server) /\ UndoFits(req[r], journal)
    BY QuietFacts
  <1>1. req' = Gone(r, at)
    BY DEF GoTo
  <1>2. /\ req'[r].at = at
        /\ at # "idle" => /\ req'[r].entry = req[r].entry
                          /\ req'[r].does = req[r].does
                          /\ req'[r].object = req[r].object
                          /\ req'[r].value = req[r].value
                          /\ req'[r].before = req[r].before
    BY <1>q, <1>1, GoneFields, GoneWork
  <1>3. at \in Done <=> req[r].at \in Done
    BY DEF Done
  <1>4. SeenIn(req', server') = SeenIn(req, server)
    <2>1. CASE at \in Done
      <3>1. at # "idle"
        BY <2>1 DEF Done
      <3> QED
        BY <1>q, <1>2, <1>3, <2>1, <3>1, SeenOfOne DEF Alone, Busy
    <2>2. CASE at \notin Done
      BY <1>q, <1>2, <1>3, <2>2, SeenOfOne DEF Alone, Busy
    <2> QED
      BY <2>1, <2>2
  <1>5. at # "idle" => ChangeFits(req'[r], server') /\ UndoFits(req'[r], journal)
    <2>1. at # "idle" => UndoFits(req'[r], journal)
      BY <1>q, <1>2 DEF UndoFits
    <2>2. at # "idle" => ChangeFits(req'[r], server')
      BY <1>q, <1>2 DEF ChangeFits, Done
    <2> QED
      BY <2>1, <2>2
  <1> QED
    BY <1>2, <1>4, <1>5, QuietMove

LEMMA QuietStep ==
  ASSUME EntryInv, EntryInv', SuspendInv, QuietInv, NEW r \in Request, ~disturbed',
         Suspend(r) \/ Read(r) \/ Write(r) \/ Leave(r) \/ (Remember(r) /\ Undoing(r))
  PROVE  QuietInv' /\ Kept
  <1>s. Step(r)
    BY DEF Step
  <1>q. /\ req \in [Request -> Job] /\ server \in [Object -> State]
        /\ req' \in [Request -> Job] /\ server' \in [Object -> State]
        /\ Alone(r) /\ Alone(r)' /\ ~nested
        /\ req[r].object \in Object \ unused
        /\ ChangeFits(req[r], server) /\ UndoFits(req[r], journal)
    BY <1>s, QuietFacts
  <1>p. /\ "leave" \in Places /\ "idle" \in Places /\ "discard" \in Places
        /\ "failed" \in Places /\ "remember" \in Places
    BY DEF Places
  <1>r. ASSUME Refused(r), UNCHANGED <<server, journal>>, req[r].at \in {"read", "write"}
        PROVE  QuietInv' /\ Kept
    BY <1>s, <1>p, <1>r, QuietGoes DEF Refused, Done
  \* A step on the same server that leads to a place before the mutation is done
  <1>b. ASSUME UNCHANGED <<server, journal>>, req[r].at \notin Done, req'[r].at \notin Done,
               req'[r].object = req[r].object, ChangeFits(req'[r], server),
               req'[r].entry = req[r].entry, req'[r].value = req[r].value
        PROVE  QuietInv' /\ Kept
    <2>1. SeenIn(req', server') = SeenIn(req, server)
      BY <1>q, <1>b, SeenOfOne DEF Alone, Busy
    <2>2. UndoFits(req'[r], journal)
      BY <1>q, <1>b DEF UndoFits
    <2> QED
      BY <1>s, <1>b, <2>1, <2>2, QuietMove
  <1>1. CASE Suspend(r)
    <2> DEFINE j == [req[r] EXCEPT !.at = First(r), !.flag = applying]
    <2>1. req'[r] = j /\ req[r].at = "suspend" /\ UNCHANGED <<server, journal>>
      BY <1>q, <1>1 DEF Suspend, serverVars, storeVars
    <2>2. /\ j.at = First(r) /\ j.object = req[r].object /\ j.does = req[r].does
          /\ j.value = req[r].value /\ j.before = req[r].before /\ j.entry = req[r].entry
      BY <1>q DEF Job
    <2> HIDE DEF j
    <2>3. Undoing(r)
      BY <2>1 DEF EntryInv, TypeOK
    <2>4. ChangeFits(j, server)
      BY <1>q, <2>1, <2>2, <2>3 DEF ChangeFits, First, Done, Undoing
    <2> QED
      BY <1>b, <2>1, <2>2, <2>4 DEF Done, First
  <1>2. CASE Read(r)
    <2>1. req[r].at = "read" /\ UNCHANGED <<server, journal>>
      BY <1>2 DEF Read, serverVars, storeVars
    <2>2. CASE Refused(r)
      BY <1>r, <2>1, <2>2
    <2>3. CASE ~Refused(r)
      <3> DEFINE j == [req[r] EXCEPT !.at = "write", !.before = server[req[r].object],
                                     !.current = TRUE]
      <3>1. req'[r] = j
        BY <1>q, <1>2, <2>3 DEF Read
      <3>2. /\ j.at = "write" /\ j.object = req[r].object /\ j.does = req[r].does
            /\ j.value = req[r].value /\ j.before = server[req[r].object]
            /\ j.entry = req[r].entry
        BY <1>q DEF Job
      <3> HIDE DEF j
      <3>3. ChangeFits(j, server)
        BY <1>q, <2>1, <3>2 DEF ChangeFits, Done
      <3> QED
        BY <1>b, <2>1, <3>1, <3>2, <3>3 DEF Done
    <2> QED
      BY <2>2, <2>3
  <1>3. CASE Write(r)
    <2>1. req[r].at = "write" /\ journal' = journal
      BY <1>3 DEF Write, storeVars
    <2>2. CASE ~Accepted(r)
      BY <1>3, <1>r, <2>1, <2>2 DEF Write
    <2>3. CASE Accepted(r)
      <3> DEFINE o == req[r].object
      <3>1. /\ server' = [server EXCEPT ![o] = req[r].value]
            /\ req' = Outdated(Gone(r, "remember"), o)
        BY <1>3, <2>3 DEF Write, Take
      <3>2. Gone(r, "remember") \in [Request -> Job]
        BY <1>q, <1>p, GoneIsTyped
      <3>3. /\ req'[r].at = "remember" /\ req'[r].entry = req[r].entry
            /\ req'[r].does = req[r].does /\ req'[r].object = o
            /\ req'[r].value = req[r].value /\ req'[r].before = req[r].before
        <4> DEFINE g == Gone(r, "remember")
        <4>1. /\ g[r].at = "remember" /\ g[r].entry = req[r].entry
              /\ g[r].does = req[r].does /\ g[r].object = o
              /\ g[r].value = req[r].value /\ g[r].before = req[r].before
          BY <1>q, <1>p, GoneFields, GoneWork
        <4> HIDE DEF g
        <4>2. /\ req'[r].at = g[r].at /\ req'[r].entry = g[r].entry
              /\ req'[r].does = g[r].does /\ req'[r].object = g[r].object
              /\ req'[r].value = g[r].value /\ req'[r].before = g[r].before
          BY <1>q, <3>1, <3>2, OutdatedFields, OutdatedWork DEF g
        <4> QED
          BY <4>1, <4>2
      <3>4. req[r].before = server[o]
        BY <1>q, <2>1 DEF ChangeFits
      <3>5. SeenIn(req', server') = server
        <4>1. SeenIn(req', server') = [server' EXCEPT ![o] = server[o]]
          BY <1>q, <3>3, <3>4, SeenOfOne DEF Alone, Busy, Done
        <4> QED
          BY <1>q, <3>1, <4>1
      <3>6. SeenIn(req, server) = server
        BY <1>q, <2>1, SeenOfOne DEF Alone, Busy, Done
      <3>7. server'[o] = req[r].value
        BY <1>q, <3>1
      <3>8. ChangeFits(req'[r], server')
        BY <1>q, <2>1, <3>3, <3>7 DEF ChangeFits, Done
      <3>9. UndoFits(req'[r], journal)
        BY <1>q, <3>3 DEF UndoFits
      <3>10. \A u \in unused : server'[u] = server[u]
        BY <1>q, <3>1 DEF EntryInv, TypeOK
      <3> QED
        BY <1>s, <2>1, <3>3, <3>5, <3>6, <3>8, <3>9, <3>10, QuietMove
    <2> QED
      BY <2>2, <2>3
  <1>4. CASE Leave(r)
    <2>1. UNCHANGED <<server, journal>> /\ req[r].at \in {"leave", "failed"}
          /\ GoTo(r, IF req[r].at = "leave" THEN "discard" ELSE "idle")
      BY <1>4 DEF Leave, serverVars, storeVars
    <2>2. CASE req[r].at = "leave"
      BY <1>s, <1>p, <2>1, <2>2, QuietGoes DEF Done
    <2>3. CASE req[r].at = "failed"
      BY <1>s, <1>p, <2>1, <2>3, QuietGoes
    <2> QED
      BY <2>1, <2>2, <2>3
  <1>5. CASE Remember(r) /\ Undoing(r)
    <2>1. Suspending(r)
      BY <1>5 DEF Remember, Suspending
    <2>2. applying
      BY <1>q, <2>1 DEF SuspendInv
    <2>3. UNCHANGED <<server, journal>> /\ GoTo(r, "leave") /\ req[r].at = "remember"
      BY <1>5, <2>2 DEF Remember, serverVars, storeVars
    <2> QED
      BY <1>s, <1>p, <2>3, QuietGoes DEF Done
  <1> QED
    BY <1>1, <1>2, <1>3, <1>4, <1>5


LEMMA JournalIsFinite == ASSUME EntryInv PROVE IsFiniteSet(journal)
  <1> DEFINE f == [e \in journal |-> e.id]
  <1>1. MaxEntries \in Nat /\ \A e \in journal : e.id \in 1 .. MaxEntries
    BY BoundsAreNatural DEF EntryInv, TypeOK, Entry, Ids
  <1>2. f \in [journal -> 1 .. MaxEntries] /\ \A d, e \in journal : f[d] = f[e] => d = e
    BY <1>1 DEF EntryInv, TypeOK
  <1>3. f \in Injection(journal, 1 .. MaxEntries)
    BY <1>2 DEF Injection, IsInjective
  <1>4. IsFiniteSet(1 .. MaxEntries)
    BY <1>1, FS_Interval
  <1> QED
    BY <1>3, <1>4, FS_Injection

\* A change that is remembered is one the person may take back
LEMMA QuietRemember ==
  ASSUME EntryInv, EntryInv', SuspendInv, QuietInv, NEW r \in Request, ~disturbed',
         Remember(r), ~Undoing(r)
  PROVE  /\ QuietInv'
         /\ \E o \in Object, s \in State :
               /\ SeenIn(req', server') = [SeenIn(req, server) EXCEPT ![o] = s]
               /\ Changes(journal') = Append(Changes(journal),
                     [object |-> o, was |-> SeenIn(req, server)[o]])
  <1> DEFINE o == req[r].object
             n == [id |-> NewId, action |-> req[r].does, object |-> o,
                   before |-> req[r].before, byUndo |-> Undoing(r)]
  <1>s. Step(r)
    BY DEF Step
  <1>q. /\ req \in [Request -> Job] /\ server \in [Object -> State]
        /\ req' \in [Request -> Job] /\ server' \in [Object -> State]
        /\ Alone(r) /\ Alone(r)' /\ ~nested /\ ~nested' /\ ~disturbed
        /\ o \in Object \ unused /\ unused' = unused
        /\ ChangeFits(req[r], server)
        /\ \A u \in unused : server[u] = Absent
        /\ \A e \in journal : e.object \notin unused
        /\ StaysDeleted(journal, SeenIn(req, server))
    BY <1>s, QuietFacts
  <1>1. ~applying
    <2>1. \A q \in Request : ~Suspending(q)
      BY <1>q DEF Alone, Suspending, Busy
    <2> QED
      BY <1>q, <2>1 DEF SuspendInv
  <1>2. /\ req[r].at = "remember" /\ server' = server /\ lastId < MaxEntries
        /\ journal' = journal \cup {n} /\ GoTo(r, "idle")
    BY <1>1 DEF Remember, Store, serverVars
  <1>3. req'[r].at = "idle"
    BY <1>q, <1>2, GoneFields DEF GoTo, Places
  <1>4. IsNewest(n, journal) /\ n.id = NewId /\ n.object = o /\ n.before = req[r].before
        /\ n.action = req[r].does
    BY BoundsAreNatural DEF IsNewest, NewId, EntryInv, IdsOK, TypeOK, Entry, Ids
  <1>5. SeenIn(req, server) = [server EXCEPT ![o] = req[r].before]
    BY <1>q, <1>2, SeenOfOne DEF Alone, Busy, Done
  <1>6. SeenIn(req', server') = server
    BY <1>q, <1>2, <1>3, SeenOfOne DEF Alone, Busy, Done
  <1> HIDE DEF n, o
  <1>7. SeenIn(req, server)[o] = n.before /\ server[o] = req[r].value
    BY <1>q, <1>2, <1>4, <1>5 DEF ChangeFits, Done, o
  <1>8. StaysDeleted(journal', server)
    <2> SUFFICES ASSUME NEW e \in journal \cup {n}, e.action = "delete"
                 PROVE  IF Later(e, journal') = {} THEN server[e.object] = Absent
                        ELSE \E f \in Later(e, journal') :
                                /\ \A g \in Later(e, journal') : f.id <= g.id
                                /\ f.before = Absent
      BY <1>2 DEF StaysDeleted
    <2>1. CASE e = n
      <3>1. Later(e, journal') = {}
        BY <1>2, <1>4, <2>1 DEF Later, IsNewest
      <3>2. req[r].value = Absent
        BY <1>q, <1>4, <2>1 DEF ChangeFits, Undoing
      <3> QED
        BY <1>4, <1>7, <2>1, <3>1, <3>2
    <2>2. CASE e # n /\ e.object = o
      <3>1. Later(e, journal') = Later(e, journal) \cup {n}
        BY <1>2, <1>4, <2>2 DEF Later, IsNewest
      <3>2. \A f \in Later(e, journal) : f.id <= n.id
        BY <1>4 DEF Later, IsNewest
      <3>3. CASE Later(e, journal) = {}
        <4>1. n.before = Absent
          BY <1>q, <1>7, <2>2, <3>3 DEF StaysDeleted
        <4>2. \A g \in Later(e, journal') : n.id <= g.id
          BY <1>4, <3>1, <3>3 DEF IsNewest
        <4> QED
          BY <3>1, <4>1, <4>2
      <3>4. CASE Later(e, journal) # {}
        <4>1. PICK f \in Later(e, journal) :
                 /\ \A g \in Later(e, journal) : f.id <= g.id
                 /\ f.before = Absent
          BY <1>q, <2>2, <3>4 DEF StaysDeleted
        <4> QED
          BY <3>1, <3>2, <4>1
      <3> QED
        BY <3>3, <3>4
    <2>3. CASE e # n /\ e.object # o
      <3>1. Later(e, journal') = Later(e, journal)
        BY <1>2, <1>4, <2>3 DEF Later
      <3>2. e.object \in Object
        BY <2>3 DEF EntryInv, TypeOK, Entry
      <3>3. SeenIn(req, server)[e.object] = server[e.object]
        BY <1>q, <1>5, <2>3, <3>2
      <3> QED
        BY <1>q, <2>3, <3>1, <3>3 DEF StaysDeleted
    <2> QED
      BY <2>1, <2>2, <2>3
  <1>9. QuietInv'
    <2>1. \A q \in Request : ~Busy(q)'
      BY <1>q, <1>3 DEF Alone, Busy
    <2>2. \A e \in journal' : e.object \notin unused'
      BY <1>q, <1>2, <1>4 DEF o
    <2>3. StaysDeleted(journal', SeenIn(req', server'))
      BY <1>6, <1>8
    <2> QED
      BY <1>2, <1>q, <2>1, <2>2, <2>3 DEF QuietInv
  <1>10. IsFiniteSet(journal)
    BY JournalIsFinite
  <1>11. Changes(journal') = Append(Changes(journal), [object |-> n.object, was |-> n.before])
    BY <1>2, <1>4, <1>10, ChangesGrow
  <1>12. server = [SeenIn(req, server) EXCEPT ![o] = req[r].value]
    BY <1>q, <1>5, <1>7
  <1>13. req[r].value \in State /\ o \in Object
    BY <1>q DEF Job
  <1> QED
    BY <1>4, <1>6, <1>7, <1>9, <1>11, <1>12, <1>13

\* An entry that is discarded is the last one, and its change has been taken back
LEMMA QuietDiscard ==
  ASSUME EntryInv, EntryInv', QuietInv, NEW r \in Request, ~disturbed', Discard(r)
  PROVE  /\ QuietInv'
         /\ Changes(journal) # <<>>
         /\ LET last == Changes(journal)[Len(Changes(journal))] IN
               SeenIn(req', server')
                  = [SeenIn(req, server) EXCEPT ![last.object] = last.was]
         /\ Changes(journal')
               = SubSeq(Changes(journal), 1, Len(Changes(journal)) - 1)
  <1> DEFINE o == req[r].object
  <1>s. Step(r)
    BY DEF Step
  <1>q. /\ req \in [Request -> Job] /\ server \in [Object -> State]
        /\ req' \in [Request -> Job] /\ server' \in [Object -> State]
        /\ Alone(r) /\ Alone(r)' /\ ~nested' /\ ~disturbed
        /\ o \in Object /\ unused' = unused
        /\ ChangeFits(req[r], server) /\ UndoFits(req[r], journal)
        /\ \A u \in unused : server[u] = Absent
        /\ \A e \in journal : e.object \notin unused
        /\ StaysDeleted(journal, SeenIn(req, server))
    BY <1>s, QuietFacts
  <1>1. /\ req[r].at = "discard" /\ server' = server /\ GoTo(r, "idle")
        /\ journal' = {e \in journal : e.id # req[r].entry}
    BY DEF Discard, serverVars
  <1>2. req'[r].at = "idle"
    BY <1>q, <1>1, GoneFields DEF GoTo, Places
  <1>3. Undoing(r)
    BY <1>1 DEF EntryInv, TypeOK
  <1>4. PICK t \in journal : /\ t.id = req[r].entry
                             /\ \A f \in journal : f.id <= t.id
                             /\ t.object = o /\ t.before = req[r].value
    BY <1>q, <1>3 DEF UndoFits, Undoing
  <1>5. journal' = journal \ {t} /\ journal = journal' \cup {t}
    BY <1>1, <1>4 DEF EntryInv, TypeOK
  <1>6. \A e \in journal : e.id \in Nat /\ e.object \in Object
    BY DEF EntryInv, TypeOK, Entry, Ids
  <1>7. IsNewest(t, journal')
    <2>1. \A e \in journal' : e.id # t.id
      BY <1>1, <1>4
    <2> QED
      BY <1>4, <1>5, <1>6, <2>1 DEF IsNewest
  <1>8. SeenIn(req, server) = [server EXCEPT ![o] = req[r].before]
    BY <1>q, <1>1, SeenOfOne DEF Alone, Busy, Done
  <1>9. SeenIn(req', server') = server
    BY <1>q, <1>1, <1>2, SeenOfOne DEF Alone, Busy, Done
  <1>10. server[o] = t.before
    BY <1>q, <1>1, <1>4 DEF ChangeFits, Done
  <1> HIDE DEF o
  <1>11. StaysDeleted(journal', server)
    <2> SUFFICES ASSUME NEW e \in journal', e.action = "delete"
                 PROVE  IF Later(e, journal') = {} THEN server[e.object] = Absent
                        ELSE \E f \in Later(e, journal') :
                                /\ \A g \in Later(e, journal') : f.id <= g.id
                                /\ f.before = Absent
      BY DEF StaysDeleted
    <2>0. e \in journal /\ e.id < t.id
      BY <1>5, <1>7 DEF IsNewest
    <2>1. CASE e.object = o
      <3>1. Later(e, journal) = Later(e, journal') \cup {t}
        BY <1>4, <1>5, <1>6, <2>0, <2>1 DEF Later
      <3>2. PICK f \in Later(e, journal) :
               /\ \A g \in Later(e, journal) : f.id <= g.id
               /\ f.before = Absent
        BY <1>q, <2>0, <3>1 DEF StaysDeleted
      <3>3. CASE Later(e, journal') = {}
        BY <1>10, <2>1, <3>1, <3>2, <3>3
      <3>4. CASE Later(e, journal') # {}
        <4>1. f # t
          <5>1. PICK g \in Later(e, journal') : TRUE
            BY <3>4
          <5>2. g.id < t.id /\ g.id \in Nat /\ t.id \in Nat
            BY <1>6, <1>7, <5>1 DEF Later, IsNewest
          <5> QED
            BY <3>1, <3>2, <5>1, <5>2
        <4> QED
          BY <3>1, <3>2, <3>4, <4>1
      <3> QED
        BY <3>3, <3>4
    <2>2. CASE e.object # o
      <3>1. Later(e, journal') = Later(e, journal)
        BY <1>4, <1>5, <2>2 DEF Later
      <3>2. SeenIn(req, server)[e.object] = server[e.object]
        BY <1>q, <1>6, <1>8, <2>0, <2>2
      <3> QED
        BY <1>q, <2>0, <3>1, <3>2 DEF StaysDeleted
    <2> QED
      BY <2>1, <2>2
  <1>12. QuietInv'
    <2>1. \A q \in Request : ~Busy(q)'
      BY <1>q, <1>2 DEF Alone, Busy
    <2>2. StaysDeleted(journal', SeenIn(req', server'))
      BY <1>9, <1>11
    <2> QED
      BY <1>1, <1>q, <1>5, <2>1, <2>2 DEF QuietInv
  <1>13. IsFiniteSet(journal') /\ Cardinality(journal') \in Nat
    BY JournalIsFinite, FS_RemoveElement, FS_CardinalityType, <1>5
  <1>14. /\ Changes(journal) # <<>> /\ Len(Changes(journal)) = Cardinality(journal') + 1
         /\ Changes(journal)[Cardinality(journal') + 1]
               = [object |-> t.object, was |-> t.before]
         /\ Changes(journal') = SubSeq(Changes(journal), 1, Cardinality(journal'))
    <2>1. PICK S : S = journal'
      OBVIOUS
    <2>2. IsFiniteSet(S) /\ IsNewest(t, S) /\ journal = S \cup {t}
      BY <1>5, <1>7, <1>13, <2>1
    <2>3. /\ Changes(S \cup {t}) # <<>> /\ Len(Changes(S \cup {t})) = Cardinality(S) + 1
          /\ Changes(S \cup {t})[Cardinality(S) + 1]
                = [object |-> t.object, was |-> t.before]
          /\ Changes(S) = SubSeq(Changes(S \cup {t}), 1, Cardinality(S))
      BY <2>2, ChangesGrow
    <2> QED
      BY <2>1, <2>2, <2>3
  <1>15. server = [SeenIn(req, server) EXCEPT ![o] = t.before]
    BY <1>q, <1>8, <1>10
  <1> QED
    BY <1>4, <1>9, <1>12, <1>13, <1>14, <1>15


LEMMA QuietInit == Init => QuietInv
  BY IdleIsIdle DEF Init, QuietInv, Busy, StaysDeleted

\* Steps that interfere, and no step
LEMMA QuietLost ==
  ASSUME QuietInv, disturbed' \/ UNCHANGED vars
  PROVE  QuietInv'
  <1>1. CASE disturbed'
    BY <1>1 DEF QuietInv
  <1>2. CASE UNCHANGED vars
    BY <1>2 DEF vars, serverVars, storeVars, history, counts, QuietInv, Alone, Busy,
       ChangeFits, UndoFits, StaysDeleted, SeenIn, Later
  <1> QED
    BY <1>1, <1>2

LEMMA SeenIsSeen == Seen = SeenIn(req, server)
  BY DEF Seen, SeenIn, Pending, Done

LEMMA QuietNext ==
  ASSUME EntryInv, EntryInv', SuspendInv, QuietInv, [Next]_vars
  PROVE  QuietInv' /\ [Promise!Next]_(Promise!vars)
  <1>s. Seen = SeenIn(req, server) /\ Seen' = SeenIn(req', server')
    BY DEF Seen, SeenIn, Pending, Done
  <1>1. CASE disturbed' \/ UNCHANGED vars
    <2>1. UNCHANGED vars => Seen' = Seen /\ Changes(journal)' = Changes(journal)
                           /\ disturbed' = disturbed
      <3> SUFFICES ASSUME UNCHANGED vars
                   PROVE  Seen' = Seen /\ Changes(journal)' = Changes(journal)
                          /\ disturbed' = disturbed
        OBVIOUS
      <3>1. req' = req /\ server' = server /\ journal' = journal /\ disturbed' = disturbed
        BY DEF vars, serverVars, storeVars, history
      <3> QED
        BY <1>s, <3>1
    <2>2. disturbed' => Promise!Next
      BY DEF Promise!Next
    <2>3. UNCHANGED vars => UNCHANGED Promise!vars
      BY <2>1 DEF Promise!vars
    <2> QED
      BY <1>1, <2>2, <2>3, QuietLost
  <1>2. ASSUME Kept, ~disturbed, ~disturbed'
        PROVE  UNCHANGED Promise!vars
    <2>1. Seen' = Seen /\ Changes(journal)' = Changes(journal)
      BY <1>s, <1>2 DEF Kept
    <2>2. disturbed' = disturbed
      BY <1>2 DEF EntryInv, TypeOK
    <2> QED
      BY <2>1, <2>2 DEF Promise!vars
  <1>3. ASSUME ~disturbed', NEW r \in Request, Call(r)
        PROVE  QuietInv' /\ [Promise!Next]_(Promise!vars)
    BY <1>2, <1>3, QuietCall, QuietAlone
  <1>4. ASSUME ~disturbed', NEW r \in Request, Step(r)
        PROVE  QuietInv' /\ [Promise!Next]_(Promise!vars)
    <2>1. ~disturbed /\ disturbed' = disturbed
      BY <1>4, QuietAlone DEF EntryInv, TypeOK
    <2>2. CASE Suspend(r) \/ Read(r) \/ Write(r) \/ Leave(r) \/ (Remember(r) /\ Undoing(r))
      BY <1>2, <1>4, <2>1, <2>2, QuietStep
    <2>3. CASE Remember(r) /\ ~Undoing(r)
      <3>1. QuietInv'
        BY <1>4, <2>3, QuietRemember
      <3>2. PICK o \in Object, s \in State :
               /\ SeenIn(req', server') = [SeenIn(req, server) EXCEPT ![o] = s]
               /\ Changes(journal') = Append(Changes(journal),
                     [object |-> o, was |-> SeenIn(req, server)[o]])
        BY <1>4, <2>3, QuietRemember
      <3>3. Promise!Change(o, s)
        BY <1>s, <2>1, <3>2 DEF Promise!Change
      <3> QED
        BY <3>1, <3>3 DEF Promise!Next
    <2>4. CASE Discard(r)
      <3>1. /\ QuietInv'
            /\ Changes(journal) # <<>>
            /\ LET last == Changes(journal)[Len(Changes(journal))] IN
                  SeenIn(req', server')
                     = [SeenIn(req, server) EXCEPT ![last.object] = last.was]
            /\ Changes(journal')
                  = SubSeq(Changes(journal), 1, Len(Changes(journal)) - 1)
        BY <1>4, <2>4, QuietDiscard
      <3>2. Promise!Undo
        BY <1>s, <2>1, <3>1 DEF Promise!Undo
      <3> QED
        BY <3>1, <3>2 DEF Promise!Next
    <2> QED
      BY <1>4, <2>2, <2>3, <2>4 DEF Step
  <1>5. \/ Crash \/ (\E r \in Request : Fail(r) \/ ReadSnapshot(r) \/ LoseReply(r))
        \/ \E o \in Object : ForeignEdit(o)
        => disturbed'
    BY SnapshotKeeps DEF Crash, Fail, LoseReply, ForeignEdit, Setback
  <1> QED
    BY <1>1, <1>3, <1>4, <1>5 DEF Next

\* undo_last takes back the last change that was remembered and not taken back,
\* and puts the object in the state before it, although a change and its entry, and
\* the inverse mutation and the removal of the entry, are separate steps: for any
\* number of objects, values and entries, until something interferes.
THEOREM UndoKeepsPromise == Spec => PromiseSpec
  <1>1. Init => Promise!Init
    <2> SUFFICES ASSUME Init PROVE Promise!Init
      OBVIOUS
    <2>1. SeenIn(req, server) = server
      BY IdleIsIdle DEF Init, SeenIn, Done
    <2>2. Changes(journal) = <<>>
      BY FS_EmptySet DEF Init, Changes
    <2> QED
      BY <2>1, <2>2, SeenIsSeen DEF Init, Promise!Init
  <1>2. EntryInv /\ EntryInv' /\ SuspendInv /\ QuietInv /\ [Next]_vars
        => QuietInv' /\ [Promise!Next]_(Promise!vars)
    BY QuietNext
  <1> QED
    BY <1>1, <1>2, QuietInit, EntryAlways, SuspendAlways, PTL
    DEF Spec, PromiseSpec, Promise!Spec
=============================================================================
