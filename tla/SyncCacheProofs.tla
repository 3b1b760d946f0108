--------------------------- MODULE SyncCacheProofs ---------------------------
(***************************************************************************)
(* Proofs about SyncCache: every variable keeps its type, and no change of *)
(* the server falls between the stored snapshot and the stored tokens.     *)
(***************************************************************************)
EXTENDS SyncCache, TLAPS

(***************************************************************************)
(* Where a sync stands: what its program counter says of its locals.  The  *)
(* snapshot it merges into exists, or it has read every object.            *)
(***************************************************************************)
Unstarted == \A o \in Object : seen[o] = Unread

Progress ==
    /\ pc \in {"idle", "seed", "seeding", "tasks", "changes"} => Unstarted
    /\ pc \notin {"seeding", "delta"} => todo = {}
    /\ pc # "delta" => due = {}
    /\ pc = "events" => \A o \in Object : Kind[o] = "tasks" => seen[o] # Unread
    /\ pc \in {"changes", "delta"} => snapshot # NoSnapshot /\ token.state = "supported"
    /\ pc = "storing" => \/ snapshot # NoSnapshot
                         \/ \A o \in Object : seen[o] # Unread
    /\ pc = "delta" =>
         \A o \in Object : Home[o] \in todo => seen[o] = Unread /\ o \notin due
    /\ token.state = "supported" => token.roles # NoRoles
    /\ pc \in {"seeding", "delta", "tokens"} => marked # NoRoles

TypeInv == TypeOK /\ Progress

(***************************************************************************)
(* The inductive invariant behind NoChangeIsLost.                          *)
(***************************************************************************)
\* No revision is ahead of the server's
Bounded ==
    /\ \A o \in Object : server[o].rev <= rev
    /\ \A c \in Collection : token.at[c] <= rev /\ marks[c] <= rev

\* Tokens are for roles that were set, and a change of the roles outdates them
RolesAgree ==
    /\ moves = 0 => /\ roles = InitialRoles
                    /\ {token.roles, marked} \subseteq {NoRoles, InitialRoles}
    /\ token.state = "supported" => Unset \notin Urls(token.roles)
    /\ marked # NoRoles => Unset \notin Urls(marked)
    /\ pc = "delta" => token.roles = marked

\* A write that waits to be patched in is still the last change of its object
PendingIsCurrent ==
    \A w \in Writer : pending[w] # Idle =>
        /\ pending[w].object \in Owns[w]
        /\ pending[w].shows = Fetched(pending[w].object)

\* v is right for o unless o changed after revision b
RightSince(o, v, b) == server[o].rev <= b => v = Listed(o)

Served(o) == Home[o] \in Urls(roles)

\* What was read is right for the stored tokens and for the ones to be stored
ReadIsRight ==
    \A o \in Object : Served(o) /\ seen[o] # Unread =>
        /\ token.state = "supported" /\ token.roles = roles
             => RightSince(o, seen[o], token.at[Home[o]])
        /\ marked = roles => RightSince(o, seen[o], marks[Home[o]])

\* What a delta did not report is right in the snapshot
UnreportedIsRight ==
    pc \in {"delta", "storing"} /\ marked = roles =>
        \A o \in Object :
            Served(o) /\ seen[o] = Unread /\ o \notin due /\ Home[o] \notin todo
                => RightSince(o, snapshot[o], marks[Home[o]])

\* The stored snapshot is right for the tokens about to be stored
SnapshotIsReady ==
    pc = "tokens" /\ marked = roles =>
        \A o \in Object : Served(o) => RightSince(o, snapshot[o], marks[Home[o]])

Covered ==
    /\ TypeInv
    /\ Bounded /\ RolesAgree /\ PendingIsCurrent
    /\ ReadIsRight /\ UnreportedIsRight /\ SnapshotIsReady
    /\ NoChangeIsLost

(***************************************************************************)
(* Type correctness.                                                       *)
(***************************************************************************)
LEMMA TypeInit == Init => TypeInv
  <1> SUFFICES ASSUME Init PROVE TypeInv
    OBVIOUS
  <1>1. token \in TokenState
    BY DEF Init, NoToken, TokenState
  <1>2. faults \in 0 .. MaxFaults /\ moves \in 0 .. MaxRoleChanges
    BY SyncAssumption DEF Init
  <1>3. /\ server \in [Object -> [rev : Nat, live : BOOLEAN]]
        /\ seen \in [Object -> Nat \cup {Absent, Unread}]
        /\ marks \in [Collection -> Nat]
        /\ pending \in [Writer -> Write \cup {Idle}]
        /\ answered \in [Object -> Nat]
    BY DEF Init
  <1>4. TypeOK
    BY <1>1, <1>2, <1>3, SyncAssumption DEF Init, TypeOK, PC
  <1>5. Progress
    BY DEF Init, Progress, Unstarted, NoToken
  <1> QED
    BY <1>4, <1>5 DEF TypeInv

\* Fresh locals have their types, and a sync with fresh locals has not started
LEMMA FreshType ==
  ASSUME Fresh
  PROVE  /\ todo' \subseteq Collection /\ due' \subseteq Object
         /\ seen' \in [Object -> Nat \cup {Absent, Unread}]
         /\ marks' \in [Collection -> Nat]
         /\ marked' \in Roles \cup {NoRoles}
         /\ todo' = {} /\ due' = {} /\ Unstarted'
  BY DEF Fresh, Unstarted

\* A fault fits the budget
LEMMA FaultType ==
  ASSUME faults \in 0 .. MaxFaults, faults < MaxFaults
  PROVE  faults + 1 \in 0 .. MaxFaults
  BY SyncAssumption

LEMMA TypeStep == TypeInv /\ [Next]_vars => TypeInv'
  <1> SUFFICES ASSUME TypeInv, [Next]_vars PROVE TypeInv'
    OBVIOUS
  <1> USE SyncAssumption DEF TypeInv, TypeOK, Progress, Unstarted, PC, Image
  <1>1. CASE BeginRefresh
    BY <1>1 DEF BeginRefresh, serverVars, cacheVars, readVars, writeVars
  <1>2. CASE BeginIncremental
    BY <1>2 DEF BeginIncremental, ValidState, serverVars, cacheVars, writeVars
  <1>3. CASE StartChanges
    <2>1. CASE FullSyncInstead
      BY <1>3, <2>1, FreshType DEF StartChanges, FullSyncInstead, serverVars,
                                   cacheVars, writeVars
    <2>2. CASE ~FullSyncInstead
      <3>1. RoleUrls = roles
        BY <1>3, <2>2 DEF StartChanges, RoleUrls
      <3>2. Urls(roles) \subseteq Collection
        BY <3>1 DEF RoleUrls, Urls, Kinds
      <3> QED
        BY <1>3, <2>2, <3>2 DEF StartChanges, serverVars, cacheVars, writeVars
    <2> QED
      BY <2>1, <2>2
  <1>4. ASSUME NEW c \in Collection, Report(c) PROVE TypeInv'
    BY <1>4 DEF Report, NextDelta, serverVars, cacheVars, writeVars
  <1>5. ASSUME NEW o \in Object, Load(o) PROVE TypeInv'
    <2>1. Fetched(o) \in Nat \cup {Absent}
      BY DEF Fetched
    <2>2. TypeOK'
      BY <1>5, <2>1 DEF Load, NextDelta, serverVars, cacheVars, writeVars
    <2> QED
      BY <1>5, <2>1, <2>2 DEF Load, NextDelta, serverVars, cacheVars, writeVars
  <1>6. CASE TokenRefused
    BY <1>6, FreshType, FaultType
    DEF TokenRefused, FullSyncInstead, serverVars, cacheVars, writeVars
  <1>7. CASE StartSeed
    BY <1>7 DEF StartSeed, RoleUrls, Urls, serverVars, cacheVars, writeVars
  <1>8. ASSUME NEW c \in Collection, Seed(c) PROVE TypeInv'
    BY <1>8 DEF Seed, serverVars, cacheVars, writeVars
  <1>9. CASE SeedUnavailable
    BY <1>9 DEF SeedUnavailable, TokenState, NoToken, serverVars, writeVars
  <1>10. ASSUME NEW k \in Kinds, Scan(k) PROVE TypeInv'
    BY <1>10 DEF Scan, Kinds, Listed, Fetched, serverVars, cacheVars, writeVars
  <1>11. CASE StoreSnapshot
    BY <1>11 DEF StoreSnapshot, serverVars, readVars, writeVars
  <1>12. CASE StoreTokens
    BY <1>12 DEF StoreTokens, TokenState, serverVars, readVars, writeVars
  <1>13. CASE Finish
    BY <1>13, FreshType DEF Finish, serverVars, writeVars
  <1>14. CASE Fail
    BY <1>14, FreshType, FaultType DEF Fail, serverVars, writeVars
  <1>15. ASSUME NEW w \in Writer, Patch(w) PROVE TypeInv'
    BY <1>15 DEF Patch, Patched, Write, serverVars, readVars
  <1>16. ASSUME NEW w \in Writer, NEW o \in Object, WriteServer(w, o) PROVE TypeInv'
    BY <1>16 DEF WriteServer, Change, Write, cacheVars, readVars
  <1>17. ASSUME NEW o \in Object, ForeignEdit(o) PROVE TypeInv'
    BY <1>17 DEF ForeignEdit, Change, cacheVars, readVars, writeVars
  <1>18. CASE SwitchSupport
    BY <1>18 DEF SwitchSupport, cacheVars, readVars, writeVars
  <1>19. CASE ChangeRoles
    BY <1>19 DEF ChangeRoles, serverVars, cacheVars, readVars, writeVars
  <1>20. CASE RetryTimePasses
    BY <1>20 DEF RetryTimePasses, serverVars, readVars, writeVars
  <1>21. CASE Crash
    BY <1>21, FreshType, FaultType DEF Crash, serverVars, cacheVars
  <1>22. CASE UNCHANGED vars
    BY <1>22 DEF vars, serverVars, cacheVars, readVars, writeVars
  <1> QED
    BY <1>1, <1>2, <1>3, <1>4, <1>5, <1>6, <1>7, <1>8, <1>9, <1>10, <1>11, <1>12,
       <1>13, <1>14, <1>15, <1>16, <1>17, <1>18, <1>19, <1>20, <1>21, <1>22
       DEF Next, SyncStep

\* Every variable of the sync and of the writers keeps its type, from the invariant
\* that a sync which stores a snapshot has one to merge into or has read everything
THEOREM SyncTypeCorrect == Spec => []TypeOK
  <1>1. TypeInv => TypeOK
    BY DEF TypeInv
  <1> QED
    BY <1>1, TypeInit, TypeStep, PTL DEF Spec

(***************************************************************************)
(* No change is lost.  It takes one author per object (the daemon or other *)
(* clients, never both), collections that hold one kind, and at most one   *)
(* change of the roles: TLC refutes the theorem without the first.         *)
(***************************************************************************)
OneAuthor ==
    \A w \in Writer :
        /\ Owns[w] \cap Edited = {}
        /\ \A v \in Writer : v # w => Owns[v] \cap Owns[w] = {}

KindsApart ==
    \A r \in Roles, o \in Object : Home[o] \in Urls(r) => Home[o] = r[Kind[o]]

\* An object of a configured collection is listed as it is fetched
LEMMA ServedIsListed ==
  ASSUME KindsApart, TypeOK, NEW o \in Object, Served(o)
  PROVE  Listed(o) = Fetched(o)
  <1>1. Home[o] = roles[Kind[o]] /\ roles[Kind[o]] \in Collection
    BY SyncAssumption DEF KindsApart, TypeOK, Served
  <1>2. Home[o] \in Scope(Kind[o])
    BY <1>1, SyncAssumption DEF Scope
  <1> QED
    BY <1>2 DEF Listed

\* A step that touches neither the server nor what is stored
LEMMA QuietStep ==
  ASSUME Covered,
         UNCHANGED <<server, rev, roles, snapshot, token>>,
         pending' \in {pending, [w \in Writer |-> Idle]},
         \A c \in Collection : marks'[c] <= rev
  PROVE  Bounded' /\ PendingIsCurrent' /\ NoChangeIsLost'
  <1>1. Bounded'
    BY DEF Covered, Bounded
  <1>2. PendingIsCurrent'
    BY DEF Covered, PendingIsCurrent, Fetched
  <1>3. NoChangeIsLost'
    BY DEF Covered, NoChangeIsLost, ValidState, RoleUrls, Listed, Fetched, Scope
  <1> QED
    BY <1>1, <1>2, <1>3

\* A step to a point where nothing is read
LEMMA NothingRead ==
  ASSUME Unstarted', pc' \notin {"delta", "storing", "tokens"}
  PROVE  ReadIsRight' /\ UnreportedIsRight' /\ SnapshotIsReady'
  BY DEF Unstarted, ReadIsRight, UnreportedIsRight, SnapshotIsReady

\* A change of the server gets a revision beyond every token
LEMMA ChangeStep ==
  ASSUME Covered, NEW o \in Object, NEW alive \in BOOLEAN, Change(o, alive),
         UNCHANGED <<roles, snapshot, token, pc, todo, due, seen, marks, marked, moves>>
  PROVE  /\ Bounded' /\ RolesAgree' /\ ReadIsRight' /\ UnreportedIsRight'
         /\ SnapshotIsReady' /\ NoChangeIsLost'
  <1> USE DEF Covered, TypeInv, TypeOK
  <1>1. /\ rev' = rev + 1 /\ server'[o].rev = rev + 1
        /\ \A x \in Object : x # o => server'[x] = server[x]
    BY DEF Change
  <1>2. Bounded'
    BY <1>1, SyncAssumption DEF Bounded, TokenState
  <1>3. RolesAgree'
    BY DEF RolesAgree
  <1>4. ASSUME NEW x \in Object, NEW v, NEW b \in Nat, b <= rev, RightSince(x, v, b)
        PROVE  RightSince(x, v, b)'
    <2>1. CASE x = o
      BY <2>1, <1>1, <1>4 DEF RightSince
    <2>2. CASE x # o
      BY <2>2, <1>1, <1>4 DEF RightSince, Listed, Fetched, Scope
    <2> QED
      BY <2>1, <2>2
  <1>5. \A x \in Object : /\ token.at[Home[x]] \in Nat /\ token.at[Home[x]] <= rev
                          /\ marks[Home[x]] \in Nat /\ marks[Home[x]] <= rev
    BY SyncAssumption DEF Bounded, TokenState
  <1>6. ReadIsRight'
    BY <1>4, <1>5 DEF ReadIsRight, Served
  <1>7. UnreportedIsRight'
    BY <1>4, <1>5 DEF UnreportedIsRight, Served
  <1>8. SnapshotIsReady'
    BY <1>4, <1>5 DEF SnapshotIsReady, Served
  <1>9. NoChangeIsLost'
    <2>1. NoChangeIsLost <=>
            (ValidState => \A x \in Object :
                Served(x) => RightSince(x, snapshot[x], token.at[Home[x]]))
      BY DEF NoChangeIsLost, RightSince, Served
    <2>2. NoChangeIsLost' <=>
            (ValidState' => \A x \in Object :
                Served(x)' => RightSince(x, snapshot[x], token.at[Home[x]])')
      BY DEF NoChangeIsLost, RightSince, Served
    <2>3. ValidState' = ValidState /\ \A x \in Object : Served(x)' = Served(x)
      BY DEF ValidState, RoleUrls, Served
    <2> QED
      BY <2>1, <2>2, <2>3, <1>4, <1>5
  <1> QED
    BY <1>2, <1>3, <1>6, <1>7, <1>8, <1>9

LEMMA CoveredInit == Init => Covered
  <1> SUFFICES ASSUME Init PROVE Covered
    OBVIOUS
  <1>1. TypeInv
    BY TypeInit
  <1>2. Bounded /\ RolesAgree
    BY DEF Init, Bounded, RolesAgree, NoToken
  <1>3. PendingIsCurrent /\ ReadIsRight /\ UnreportedIsRight /\ SnapshotIsReady
    BY DEF Init, PendingIsCurrent, ReadIsRight, UnreportedIsRight, SnapshotIsReady
  <1>4. NoChangeIsLost
    BY DEF Init, NoChangeIsLost, ValidState
  <1> QED
    BY <1>1, <1>2, <1>3, <1>4 DEF Covered

LEMMA CoveredStep ==
  ASSUME OneAuthor, KindsApart, MaxRoleChanges <= 1, Covered, [Next]_vars
  PROVE  Covered'
  <1> USE DEF serverVars, cacheVars, readVars, writeVars
  <1>0. TypeInv /\ TypeInv'
    BY TypeStep DEF Covered
  <1>a. /\ \A c \in Collection : marks[c] \in Nat /\ token.at[c] \in Nat
        /\ \A c \in Collection : marks[c] <= rev /\ token.at[c] <= rev /\ 0 <= rev
        /\ rev \in Nat
    BY <1>0 DEF TypeInv, TypeOK, TokenState, Covered, Bounded
  <1>b. \A c \in Collection : [x \in Collection |-> 0][c] <= rev
    BY <1>a
  <1>c. TypeOK /\ Progress /\ TypeOK' /\ Progress'
    BY <1>0 DEF TypeInv
  <1> DEFINE Rest == Bounded /\ RolesAgree /\ PendingIsCurrent /\ ReadIsRight
                     /\ UnreportedIsRight /\ SnapshotIsReady /\ NoChangeIsLost
  <1> SUFFICES Rest'
    BY <1>0 DEF Covered
  <1>1. CASE BeginRefresh
    <2>1. Bounded' /\ PendingIsCurrent' /\ NoChangeIsLost'
      BY <1>1, <1>a, <1>b, QuietStep DEF BeginRefresh
    <2>2. ReadIsRight' /\ UnreportedIsRight' /\ SnapshotIsReady'
      BY <1>1, <1>c, NothingRead DEF BeginRefresh, Progress
    <2>3. RolesAgree'
      BY <1>1 DEF Covered, RolesAgree, BeginRefresh
    <2> QED
      BY <2>1, <2>2, <2>3
  <1>2. CASE BeginIncremental
    <2>1. Bounded' /\ PendingIsCurrent' /\ NoChangeIsLost'
      BY <1>2, <1>a, <1>b, QuietStep DEF BeginIncremental
    <2>2. ReadIsRight' /\ UnreportedIsRight' /\ SnapshotIsReady'
      BY <1>2, <1>c, NothingRead DEF BeginIncremental, Progress
    <2>3. RolesAgree'
      BY <1>2 DEF Covered, RolesAgree, BeginIncremental
    <2> QED
      BY <2>1, <2>2, <2>3
  <1>3. CASE TokenRefused
    <2>1. Bounded' /\ PendingIsCurrent' /\ NoChangeIsLost'
      BY <1>3, <1>a, <1>b, QuietStep DEF TokenRefused, FullSyncInstead, Fresh
    <2>2. ReadIsRight' /\ UnreportedIsRight' /\ SnapshotIsReady'
      BY <1>3, <1>c, NothingRead DEF TokenRefused, FullSyncInstead, Fresh, Progress
    <2>3. RolesAgree'
      BY <1>3 DEF Covered, RolesAgree, TokenRefused, FullSyncInstead, Fresh
    <2> QED
      BY <2>1, <2>2, <2>3
  <1>4. CASE StartSeed
    <2>1. Bounded' /\ PendingIsCurrent' /\ NoChangeIsLost'
      BY <1>4, <1>a, <1>b, QuietStep DEF StartSeed
    <2>2. ReadIsRight' /\ UnreportedIsRight' /\ SnapshotIsReady'
      BY <1>4, <1>c, NothingRead DEF StartSeed, Progress
    <2>3. RolesAgree'
      BY <1>4 DEF Covered, RolesAgree, StartSeed, RoleUrls, Urls
    <2> QED
      BY <2>1, <2>2, <2>3
  <1>5. CASE Finish
    <2>1. Bounded' /\ PendingIsCurrent' /\ NoChangeIsLost'
      BY <1>5, <1>a, <1>b, QuietStep DEF Finish, Fresh
    <2>2. ReadIsRight' /\ UnreportedIsRight' /\ SnapshotIsReady'
      BY <1>5, <1>c, NothingRead DEF Finish, Fresh, Progress
    <2>3. RolesAgree'
      BY <1>5 DEF Covered, RolesAgree, Finish, Fresh
    <2> QED
      BY <2>1, <2>2, <2>3
  <1>6. CASE Fail
    <2>1. Bounded' /\ PendingIsCurrent' /\ NoChangeIsLost'
      BY <1>6, <1>a, <1>b, QuietStep DEF Fail, Fresh
    <2>2. ReadIsRight' /\ UnreportedIsRight' /\ SnapshotIsReady'
      BY <1>6, <1>c, NothingRead DEF Fail, Fresh, Progress
    <2>3. RolesAgree'
      BY <1>6 DEF Covered, RolesAgree, Fail, Fresh
    <2> QED
      BY <2>1, <2>2, <2>3
  <1>7. CASE Crash
    <2>1. Bounded' /\ PendingIsCurrent' /\ NoChangeIsLost'
      BY <1>7, <1>a, <1>b, QuietStep DEF Crash, Fresh
    <2>2. ReadIsRight' /\ UnreportedIsRight' /\ SnapshotIsReady'
      BY <1>7, <1>c, NothingRead DEF Crash, Fresh, Progress
    <2>3. RolesAgree'
      BY <1>7 DEF Covered, RolesAgree, Crash, Fresh
    <2> QED
      BY <2>1, <2>2, <2>3
  <1>8. CASE StartChanges
    <2>1. Bounded' /\ PendingIsCurrent' /\ NoChangeIsLost'
      BY <1>8, <1>a, <1>b, QuietStep
      DEF StartChanges, FullSyncInstead, Fresh
    <2>2. RolesAgree'
      BY <1>8, <1>c
     
      DEF Covered, RolesAgree, Progress, StartChanges, RoleUrls, Urls,
          FullSyncInstead, Fresh
    <2>3. Unstarted /\ due = {} /\ todo = {}
      BY <1>8, <1>c DEF StartChanges, Progress
    <2>4. CASE FullSyncInstead
      BY <1>8, <1>c, <2>1, <2>2, <2>4, NothingRead
      DEF Progress, FullSyncInstead
    <2>5. CASE ~FullSyncInstead
      <3>1. ReadIsRight' /\ SnapshotIsReady'
        BY <1>8, <2>3, <2>5 DEF StartChanges, Unstarted, ReadIsRight, SnapshotIsReady
      <3>2. UnreportedIsRight'
        BY <1>8, <2>5 DEF StartChanges, UnreportedIsRight, Served
      <3> QED
        BY <2>1, <2>2, <3>1, <3>2
    <2> QED
      BY <2>4, <2>5
  <1>9. ASSUME NEW c \in Collection, Report(c) PROVE Rest'
    <2>1. Bounded' /\ PendingIsCurrent' /\ NoChangeIsLost'
      BY <1>9, <1>a, <1>c, QuietStep DEF Report, TypeOK
    <2>2. RolesAgree'
      BY <1>9 DEF Covered, RolesAgree, Report, NextDelta
    <2>3. /\ snapshot # NoSnapshot /\ token.state = "supported" /\ token.roles = marked
          /\ marked # NoRoles /\ due = {}
      BY <1>9, <1>c DEF Report, Progress, Covered, RolesAgree
    <2>4. /\ marks'[c] = rev /\ \A d \in Collection : d # c => marks'[d] = marks[d]
          /\ todo' = todo \ {c} /\ c \in todo
      BY <1>9, <1>c DEF Report, TypeOK
    <2>5. UNCHANGED <<server, rev, roles, snapshot, token, marked>>
      BY <1>9 DEF Report
    <2>6. ASSUME NEW o \in Object PROVE Listed(o)' = Listed(o) /\ Fetched(o)' = Fetched(o)
      BY <2>5 DEF Listed, Fetched, Scope
    <2>7. \A o \in Object : Home[o] \in Collection /\ server[o].rev <= rev
      BY SyncAssumption DEF Covered, Bounded
    <2>8. SnapshotIsReady'
      BY <1>9 DEF Report, NextDelta, SnapshotIsReady
    <2>9. ReadIsRight'
      <3> SUFFICES ASSUME NEW o \in Object, Served(o)', seen'[o] # Unread
                   PROVE  /\ (token.state = "supported" /\ token.roles = roles)'
                               => RightSince(o, seen[o], token.at[Home[o]])'
                          /\ (marked = roles)' => RightSince(o, seen[o], marks[Home[o]])'
        BY DEF ReadIsRight
      <3>1. Served(o)
        BY <2>5 DEF Served
      <3>2. CASE Home[o] = c
        <4>1. seen[o] = Unread
          BY <1>9, <1>c, <3>2 DEF Report, Progress
        <4>2. seen'[o] = Absent /\ ~server[o].live
          BY <1>9, <4>1 DEF Report
        <4>3. seen'[o] = Listed(o)
          BY <4>2, <3>1, <1>c, ServedIsListed DEF Fetched
        <4> QED
          BY <4>3, <2>6 DEF RightSince
      <3>3. CASE Home[o] # c
        <4>1. seen'[o] = seen[o]
          BY <1>9, <3>3, <1>c DEF Report, TypeOK
        <4>2. marks'[Home[o]] = marks[Home[o]]
          BY <3>3, <2>4, <2>7
        <4> QED
          BY <4>1, <4>2, <3>1, <2>5, <2>6 DEF Covered, ReadIsRight, RightSince
      <3> QED
        BY <3>2, <3>3
    <2>10. UnreportedIsRight'
      <3> SUFFICES ASSUME NEW o \in Object, (marked = roles)', Served(o)', seen'[o] = Unread,
                          o \notin due', Home[o] \notin todo'
                   PROVE  RightSince(o, snapshot[o], marks[Home[o]])'
        BY DEF UnreportedIsRight
      <3>1. Served(o) /\ marked = roles
        BY <2>5 DEF Served
      <3>2. CASE Home[o] = c
        <4>1. ~(server[o].rev > token.at[c])
          BY <1>9, <3>2, <1>c, SyncAssumption DEF Report, TypeOK
        <4>2. server[o].rev <= token.at[Home[o]]
          BY <4>1, <3>2, <1>a, <1>c DEF TypeOK
        <4>3. RoleUrls = roles
          BY <2>3, <3>1 DEF RoleUrls, Covered, RolesAgree, Urls
        <4>4. ValidState
          BY <4>3, <2>3, <3>1 DEF ValidState
        <4>5. snapshot[o] = Listed(o)
          BY <4>2, <4>4, <3>1 DEF Covered, NoChangeIsLost, Served
        <4> QED
          BY <4>5, <2>5, <2>6 DEF RightSince
      <3>3. CASE Home[o] # c
        <4>1. seen[o] = Unread /\ o \notin due /\ Home[o] \notin todo
          BY <1>9, <3>3, <2>3, <2>4, <1>c DEF Report, TypeOK
        <4>2. pc = "delta" /\ marks'[Home[o]] = marks[Home[o]]
          BY <1>9, <3>3, <2>4, <2>7 DEF Report
        <4> QED
          BY <4>1, <4>2, <3>1, <2>5, <2>6 DEF Covered, UnreportedIsRight, RightSince
      <3> QED
        BY <3>2, <3>3
    <2> QED
      BY <2>1, <2>2, <2>8, <2>9, <2>10
  <1>10. ASSUME NEW x \in Object, Load(x) PROVE Rest'
    <2>1. Bounded' /\ PendingIsCurrent' /\ NoChangeIsLost'
      BY <1>10, <1>a, <1>c, QuietStep DEF Load, TypeOK
    <2>2. RolesAgree'
      BY <1>10 DEF Covered, RolesAgree, Load, NextDelta
    <2>3. UNCHANGED <<server, roles, snapshot, token, marks, marked, todo>>
      BY <1>10 DEF Load
    <2>4. \A o \in Object : Listed(o)' = Listed(o) /\ Served(o)' = Served(o)
      BY <2>3 DEF Listed, Fetched, Scope, Served
    <2>5. SnapshotIsReady'
      BY <1>10 DEF Load, NextDelta, SnapshotIsReady
    <2>6. /\ seen'[x] = Fetched(x) /\ \A o \in Object : o # x => seen'[o] = seen[o]
          /\ due' = due \ {x} /\ pc = "delta"
      BY <1>10, <1>c DEF Load, TypeOK
    <2>7. Served(x) => seen'[x] = Listed(x)
      BY <2>6, <1>c, ServedIsListed
    <2>8. ReadIsRight'
      BY <2>3, <2>4, <2>6, <2>7 DEF Covered, ReadIsRight, RightSince
    <2>9. seen'[x] # Unread
      BY <2>6, <1>c, SyncAssumption DEF Fetched, TypeOK
    <2>10. UnreportedIsRight'
      BY <2>3, <2>4, <2>6, <2>9 DEF Covered, UnreportedIsRight, RightSince
    <2> QED
      BY <2>1, <2>2, <2>5, <2>8, <2>10
  <1>11. ASSUME NEW c \in Collection, Seed(c) PROVE Rest'
    <2>1. Bounded' /\ PendingIsCurrent' /\ NoChangeIsLost'
      BY <1>11, <1>a, <1>c, QuietStep DEF Seed, TypeOK
    <2>2. ReadIsRight' /\ UnreportedIsRight' /\ SnapshotIsReady'
      BY <1>11, <1>c, NothingRead DEF Seed, Progress
    <2>3. RolesAgree'
      BY <1>11 DEF Covered, RolesAgree, Seed
    <2> QED
      BY <2>1, <2>2, <2>3
  <1>12. CASE SeedUnavailable
    <2>1. UNCHANGED <<server, rev, roles, snapshot, pending, marks, moves>>
          /\ token'.state = "unsupported" /\ token'.at = [c \in Collection |-> 0]
          /\ token'.roles = marked /\ pc' = "tasks" /\ marked' = NoRoles
      BY <1>12 DEF SeedUnavailable, NoToken
    <2>2. Bounded'
      BY <2>1, <1>a, <1>b DEF Covered, Bounded
    <2>3. PendingIsCurrent'
      BY <2>1 DEF Covered, PendingIsCurrent, Fetched
    <2>4. NoChangeIsLost'
      BY <2>1 DEF NoChangeIsLost, ValidState
    <2>5. RolesAgree'
      BY <2>1 DEF Covered, RolesAgree
    <2>6. ReadIsRight' /\ UnreportedIsRight' /\ SnapshotIsReady'
      BY <2>1, <1>c, NothingRead DEF Progress
    <2> QED
      BY <2>2, <2>3, <2>4, <2>5, <2>6
  <1>13. ASSUME NEW k \in Kinds, Scan(k) PROVE Rest'
    <2>1. Bounded' /\ PendingIsCurrent' /\ NoChangeIsLost'
      BY <1>13, <1>a, <1>c, QuietStep DEF Scan, TypeOK
    <2>2. RolesAgree'
      BY <1>13 DEF Covered, RolesAgree, Scan
    <2>3. UNCHANGED <<server, roles, snapshot, token, marks, marked>>
      BY <1>13 DEF Scan
    <2>4. \A o \in Object : Listed(o)' = Listed(o) /\ Served(o)' = Served(o)
      BY <2>3 DEF Listed, Fetched, Scope, Served
    <2>5. \A o \in Object : seen'[o] = IF Kind[o] = k THEN Listed(o) ELSE seen[o]
      BY <1>13 DEF Scan
    <2>6. ReadIsRight'
      BY <2>3, <2>4, <2>5 DEF Covered, ReadIsRight, RightSince
    <2>7. \A o \in Object : Listed(o) # Unread
      BY <1>c, SyncAssumption DEF Listed, Fetched, TypeOK
    <2>8. SnapshotIsReady'
      BY <1>13 DEF Scan, SnapshotIsReady
    <2>9. UnreportedIsRight'
      <3>1. CASE k = "tasks"
        BY <1>13, <3>1 DEF Scan, UnreportedIsRight
      <3>2. CASE k = "events"
        <4>1. \A o \in Object : seen'[o] # Unread
          BY <1>13, <3>2, <2>5, <2>7, <1>c, SyncAssumption DEF Scan, Progress, Kinds
        <4> QED
          BY <4>1 DEF UnreportedIsRight
      <3> QED
        BY <3>1, <3>2 DEF Kinds
    <2> QED
      BY <2>1, <2>2, <2>6, <2>8, <2>9
  <1>14. CASE StoreSnapshot
    <2>1. /\ UNCHANGED <<server, rev, roles, token, seen, marks, marked, pending, moves>>
          /\ pc = "storing" /\ pc' \in {"tokens", "finishing"} /\ todo = {} /\ due = {}
          /\ pc' = "tokens" => marked # NoRoles
      BY <1>14, <1>c DEF StoreSnapshot, Progress
    <2>2. Bounded' /\ PendingIsCurrent' /\ RolesAgree'
      BY <2>1 DEF Covered, Bounded, PendingIsCurrent, RolesAgree, Fetched
    <2>3. ReadIsRight'
      BY <2>1 DEF Covered, ReadIsRight, RightSince, Listed, Fetched, Scope, Served
    <2>4. UnreportedIsRight'
      BY <2>1 DEF UnreportedIsRight
    <2>5. /\ \A o \in Object : snapshot'[o] = IF seen[o] = Unread THEN snapshot[o] ELSE seen[o]
          /\ snapshot = NoSnapshot => \A o \in Object : seen[o] # Unread
      BY <1>14, <1>c DEF StoreSnapshot, Progress
    <2>6. \A o \in Object : Listed(o)' = Listed(o) /\ Served(o)' = Served(o)
      BY <2>1 DEF Listed, Fetched, Scope, Served
    <2>7. SnapshotIsReady'
      BY <2>1, <2>5, <2>6
      DEF Covered, SnapshotIsReady, ReadIsRight, UnreportedIsRight, RightSince
    <2>8. NoChangeIsLost'
      <3> SUFFICES ASSUME ValidState', NEW o \in Object, Served(o),
                          server[o].rev <= token.at[Home[o]]
                   PROVE  snapshot'[o] = Listed(o)
        BY <2>1, <2>6 DEF NoChangeIsLost, Served
      <3>1. token.state = "supported" /\ token.roles = RoleUrls /\ token.roles = roles
        BY <2>1, <1>c DEF ValidState, RoleUrls, Progress
      <3>2. CASE seen[o] # Unread
        BY <3>1, <3>2, <2>5 DEF Covered, ReadIsRight, RightSince
      <3>3. CASE seen[o] = Unread
        <4>1. ValidState
          BY <3>1, <3>3, <2>5 DEF ValidState
        <4> QED
          BY <4>1, <3>3, <2>5 DEF Covered, NoChangeIsLost, Served
      <3> QED
        BY <3>2, <3>3
    <2> QED
      BY <2>2, <2>3, <2>4, <2>7, <2>8
  <1>15. CASE StoreTokens
    <2>1. UNCHANGED <<server, rev, roles, snapshot, seen, marks, marked, pending, moves>>
          /\ pc = "tokens" /\ pc' = "finishing" /\ marked # NoRoles
          /\ token' = [state |-> "supported", roles |-> marked, at |-> marks]
      BY <1>15, <1>c DEF StoreTokens, Progress
    <2>2. Bounded' /\ PendingIsCurrent' /\ RolesAgree'
      BY <2>1 DEF Covered, Bounded, PendingIsCurrent, RolesAgree, Fetched
    <2>3. \A o \in Object : Listed(o)' = Listed(o) /\ Served(o)' = Served(o)
      BY <2>1 DEF Listed, Fetched, Scope, Served
    <2>4. ReadIsRight'
      BY <2>1, <2>3 DEF Covered, ReadIsRight, RightSince
    <2>5. UnreportedIsRight' /\ SnapshotIsReady'
      BY <2>1 DEF UnreportedIsRight, SnapshotIsReady
    <2>6. NoChangeIsLost'
      <3> SUFFICES ASSUME ValidState', NEW o \in Object, Served(o),
                          server[o].rev <= marks[Home[o]]
                   PROVE  snapshot[o] = Listed(o)
        BY <2>1, <2>3 DEF NoChangeIsLost, Served
      <3>1. marked = roles
        BY <2>1 DEF ValidState, RoleUrls
      <3> QED
        BY <3>1, <2>1 DEF Covered, SnapshotIsReady, RightSince
    <2> QED
      BY <2>2, <2>4, <2>5, <2>6
  <1>16. ASSUME NEW w \in Writer, Patch(w) PROVE Rest'
    <2>1. UNCHANGED <<server, rev, roles, token, seen, marks, marked, moves, pc>>
          /\ pc = "idle" /\ pending[w] # Idle
          /\ snapshot' = Patched(snapshot, pending[w].object, pending[w].shows)
          /\ pending' = [pending EXCEPT ![w] = Idle]
      BY <1>16 DEF Patch
    <2>2. Bounded' /\ RolesAgree'
      BY <2>1 DEF Covered, Bounded, RolesAgree
    <2>3. PendingIsCurrent'
      BY <2>1, <1>c DEF Covered, PendingIsCurrent, Fetched, TypeOK
    <2>4. ReadIsRight' /\ UnreportedIsRight' /\ SnapshotIsReady'
      BY <2>1, <1>c, NothingRead DEF Progress
    <2>5. pending[w].object \in Object /\ pending[w].shows = Fetched(pending[w].object)
      BY <2>1, <1>c DEF Covered, PendingIsCurrent, TypeOK, Write
    <2>6. \A o \in Object : Listed(o)' = Listed(o) /\ Served(o)' = Served(o)
      BY <2>1 DEF Listed, Fetched, Scope, Served
    <2>7. NoChangeIsLost'
      <3> SUFFICES ASSUME ValidState', NEW o \in Object, Served(o),
                          server[o].rev <= token.at[Home[o]]
                   PROVE  snapshot'[o] = Listed(o)
        BY <2>1, <2>6 DEF NoChangeIsLost, Served
      <3>1. snapshot # NoSnapshot /\ ValidState
        BY <2>1 DEF ValidState, Patched, RoleUrls
      <3>2. snapshot' = [snapshot EXCEPT ![pending[w].object] = pending[w].shows]
            /\ snapshot \in Image
        BY <2>1, <3>1, <1>c DEF Patched, TypeOK
      <3>3. CASE o = pending[w].object
        BY <3>2, <3>3, <2>5, <1>c, ServedIsListed DEF Image
      <3>4. CASE o # pending[w].object
        BY <3>1, <3>2, <3>4 DEF Image, Covered, NoChangeIsLost, Served
      <3> QED
        BY <3>3, <3>4
    <2> QED
      BY <2>2, <2>3, <2>4, <2>7
  <1>17. ASSUME NEW w \in Writer, NEW o \in Object, WriteServer(w, o) PROVE Rest'
    <2>1. PICK alive \in BOOLEAN :
             /\ Change(o, alive)
             /\ pending' = [pending EXCEPT
                  ![w] = [object |-> o, shows |-> IF alive THEN rev + 1 ELSE Absent]]
      BY <1>17 DEF WriteServer
    <2>2. UNCHANGED <<roles, snapshot, token, pc, todo, due, seen, marks, marked, moves>>
      BY <1>17 DEF WriteServer, cacheVars, readVars
    <2>3. /\ Bounded' /\ RolesAgree' /\ ReadIsRight' /\ UnreportedIsRight'
          /\ SnapshotIsReady' /\ NoChangeIsLost'
      BY <2>1, <2>2, ChangeStep
    <2>4. PendingIsCurrent'
      <3> SUFFICES ASSUME NEW v \in Writer, pending'[v] # Idle
                   PROVE  (/\ pending[v].object \in Owns[v]
                           /\ pending[v].shows = Fetched(pending[v].object))'
        BY DEF PendingIsCurrent
      <3>1. server' = [server EXCEPT ![o] = [rev |-> rev + 1, live |-> alive]]
            /\ o \in Owns[w]
        BY <1>17, <2>1 DEF Change, WriteServer
      <3>2. CASE v = w
        BY <3>1, <3>2, <2>1, <1>c DEF TypeOK, Fetched
      <3>3. CASE v # w
        <4>1. pending'[v] = pending[v] /\ pending[v].object \in Owns[v]
              /\ pending[v].shows = Fetched(pending[v].object)
          BY <2>1, <3>3, <1>c DEF TypeOK, Covered, PendingIsCurrent
        <4>2. pending[v].object # o
          BY <4>1, <3>1, <3>3 DEF OneAuthor
        <4> QED
          BY <4>1, <4>2, <3>1, <1>c, SyncAssumption DEF TypeOK, Fetched
      <3> QED
        BY <3>2, <3>3
    <2> QED
      BY <2>3, <2>4
  <1>18. ASSUME NEW o \in Object, ForeignEdit(o) PROVE Rest'
    <2>1. PICK alive \in BOOLEAN : Change(o, alive)
      BY <1>18 DEF ForeignEdit
    <2>2. UNCHANGED <<roles, snapshot, token, pc, todo, due, seen, marks, marked, moves,
                      pending>>
          /\ o \in Edited
      BY <1>18 DEF ForeignEdit, cacheVars, readVars, writeVars
    <2>3. /\ Bounded' /\ RolesAgree' /\ ReadIsRight' /\ UnreportedIsRight'
          /\ SnapshotIsReady' /\ NoChangeIsLost'
      BY <2>1, <2>2, ChangeStep
    <2>4. \A x \in Object : x # o => server'[x] = server[x]
      BY <2>1, <1>c DEF Change, TypeOK
    <2>5. PendingIsCurrent'
      <3> SUFFICES ASSUME NEW v \in Writer, pending[v] # Idle
                   PROVE  /\ pending[v].object \in Owns[v]
                          /\ pending[v].shows = Fetched(pending[v].object)'
        BY <2>2 DEF PendingIsCurrent
      <3>1. pending[v].object \in Owns[v] /\ pending[v].shows = Fetched(pending[v].object)
        BY DEF Covered, PendingIsCurrent
      <3>2. pending[v].object # o /\ pending[v].object \in Object
        BY <3>1, <2>2, SyncAssumption DEF OneAuthor
      <3> QED
        BY <3>1, <3>2, <2>2, <2>4 DEF Fetched
    <2> QED
      BY <2>3, <2>5
  <1>19. CASE SwitchSupport
    <2>1. UNCHANGED <<server, rev, roles, snapshot, token, pc, todo, due, seen, marks,
                      marked, pending, moves>>
      BY <1>19 DEF SwitchSupport, vars
    <2>2. Bounded' /\ PendingIsCurrent' /\ NoChangeIsLost'
      BY <2>1, <1>a, QuietStep
    <2>3. \A o \in Object : Listed(o)' = Listed(o) /\ Served(o)' = Served(o)
      BY <2>1 DEF Listed, Fetched, Scope, Served
    <2>4. RolesAgree' /\ ReadIsRight' /\ UnreportedIsRight' /\ SnapshotIsReady'
      BY <2>1, <2>3 DEF Covered, RolesAgree, ReadIsRight, UnreportedIsRight,
                        SnapshotIsReady, RightSince
    <2> QED
      BY <2>2, <2>4
  <1>20. CASE RetryTimePasses
    <2>1. UNCHANGED <<server, rev, roles, snapshot, token, pc, todo, due, seen, marks,
                      marked, pending, moves>>
      BY <1>20 DEF RetryTimePasses, vars
    <2>2. Bounded' /\ PendingIsCurrent' /\ NoChangeIsLost'
      BY <2>1, <1>a, QuietStep
    <2>3. \A o \in Object : Listed(o)' = Listed(o) /\ Served(o)' = Served(o)
      BY <2>1 DEF Listed, Fetched, Scope, Served
    <2>4. RolesAgree' /\ ReadIsRight' /\ UnreportedIsRight' /\ SnapshotIsReady'
      BY <2>1, <2>3 DEF Covered, RolesAgree, ReadIsRight, UnreportedIsRight,
                        SnapshotIsReady, RightSince
    <2> QED
      BY <2>2, <2>4
  <1>21. CASE UNCHANGED vars
    <2>1. UNCHANGED <<server, rev, roles, snapshot, token, pc, todo, due, seen, marks,
                      marked, pending, moves>>
      BY <1>21 DEF vars
    <2>2. Bounded' /\ PendingIsCurrent' /\ NoChangeIsLost'
      BY <2>1, <1>a, QuietStep
    <2>3. \A o \in Object : Listed(o)' = Listed(o) /\ Served(o)' = Served(o)
      BY <2>1 DEF Listed, Fetched, Scope, Served
    <2>4. RolesAgree' /\ ReadIsRight' /\ UnreportedIsRight' /\ SnapshotIsReady'
      BY <2>1, <2>3 DEF Covered, RolesAgree, ReadIsRight, UnreportedIsRight,
                        SnapshotIsReady, RightSince
    <2> QED
      BY <2>2, <2>4
  <1>22. CASE ChangeRoles
    <2>1. UNCHANGED <<server, rev, snapshot, token, pc, todo, due, seen, marks, marked,
                      pending>>
          /\ moves' = moves + 1 /\ moves < MaxRoleChanges /\ roles' \in Roles \ {roles}
      BY <1>22 DEF ChangeRoles
    <2>2. moves = 0 /\ roles = InitialRoles
      BY <2>1, <1>c, SyncAssumption DEF TypeOK, Covered, RolesAgree
    <2>3. /\ token.roles # roles' /\ marked # roles'
          /\ token.state = "supported" => token.roles # RoleUrls'
      BY <2>1, <2>2, <1>c, SyncAssumption DEF Covered, RolesAgree, RoleUrls, Progress
    <2>4. Bounded' /\ PendingIsCurrent'
      BY <2>1 DEF Covered, Bounded, PendingIsCurrent, Fetched
    <2>5. RolesAgree'
      BY <2>1, <2>2 DEF Covered, RolesAgree
    <2>6. ReadIsRight' /\ UnreportedIsRight' /\ SnapshotIsReady' /\ NoChangeIsLost'
      BY <2>1, <2>3 DEF ReadIsRight, UnreportedIsRight, SnapshotIsReady, NoChangeIsLost,
                        ValidState
    <2> QED
      BY <2>4, <2>5, <2>6
  <1> QED
    BY <1>1, <1>2, <1>3, <1>4, <1>5, <1>6, <1>7, <1>8, <1>9, <1>10, <1>11, <1>12,
       <1>13, <1>14, <1>15, <1>16, <1>17, <1>18, <1>19, <1>20, <1>21, <1>22
    DEF Next, SyncStep

\* Whatever the server, the settings and the writers do, and whenever the daemon
\* dies, the next delta reports every change the stored snapshot does not show
THEOREM NothingIsLost ==
  ASSUME OneAuthor, KindsApart, MaxRoleChanges <= 1
  PROVE  Spec => []NoChangeIsLost
  <1>1. Covered /\ [Next]_vars => Covered'
    BY CoveredStep
  <1>2. Covered => NoChangeIsLost
    BY DEF Covered
  <1> QED
    BY <1>1, <1>2, CoveredInit, PTL DEF Spec

(***************************************************************************)
(* An answered write stays visible.  No sync overlaps a patch, so what it  *)
(* has read of an object is as new as the last answered write of it, and a *)
(* written object was in scope when it was written.                        *)
(***************************************************************************)
\* v shows o as of its last answered write, or what became of it since
Shows(o, v) ==
    \/ v # Absent /\ v >= answered[o]
    \/ v = Absent /\ (server[o].live => server[o].rev > answered[o])

InScope(o) == Home[o] \in Scope(Kind[o])

Behind ==
    \A o \in Object : answered[o] <= server[o].rev /\ server[o].rev <= rev

PendingIsKnown ==
    \A w \in Writer : pending[w] # Idle /\ pending[w].shows # Absent =>
        pending[w].shows <= server[pending[w].object].rev

WrittenInScope ==
    moves = 0 =>
        /\ \A o \in Object : answered[o] # 0 => InScope(o)
        /\ \A w \in Writer : pending[w] # Idle => InScope(pending[w].object)

WritesAreVisible ==
    \A o \in Object : answered[o] # 0 /\ InScope(o) =>
        /\ snapshot # NoSnapshot => Shows(o, snapshot[o])
        /\ seen[o] # Unread => Shows(o, seen[o])

Visible == Behind /\ PendingIsKnown /\ WrittenInScope /\ WritesAreVisible

LEMMA VisibleInit == Init => Visible
  BY DEF Init, Visible, Behind, PendingIsKnown, WrittenInScope, WritesAreVisible

\* What is fetched now is as new as every answered write
LEMMA FetchedShows ==
  ASSUME TypeInv, Visible, NEW o \in Object
  PROVE  Shows(o, Fetched(o)) /\ (~server[o].live => Shows(o, Absent))
  BY SyncAssumption DEF TypeInv, TypeOK, Visible, Behind, Shows, Fetched

\* A step of the sync: what it reads is fetched, what it stores it has read
LEMMA VisibleRead ==
  ASSUME TypeInv, Visible, UNCHANGED <<serverVars, roles, writeVars, moves>>,
         \A o \in Object :
            /\ \/ seen'[o] \in {Unread, seen[o]}
               \/ InScope(o) => Shows(o, seen'[o])
            /\ snapshot' # NoSnapshot =>
                  \/ snapshot # NoSnapshot /\ snapshot'[o] = snapshot[o]
                  \/ seen[o] # Unread /\ snapshot'[o] = seen[o]
  PROVE  Visible'
  <1>1. Behind' /\ PendingIsKnown' /\ WrittenInScope'
    BY DEF Visible, Behind, PendingIsKnown, WrittenInScope, InScope, Scope,
           serverVars, writeVars
  <1>2. \A o \in Object : \A v : Shows(o, v) <=> Shows(o, v)'
    BY DEF Shows, serverVars, writeVars
  <1>3. \A o \in Object : InScope(o)' = InScope(o) /\ answered'[o] = answered[o]
    BY DEF InScope, Scope, writeVars
  <1>4. ASSUME NEW o \in Object, answered'[o] # 0, InScope(o)'
        PROVE  /\ snapshot' # NoSnapshot => Shows(o, snapshot'[o])
               /\ seen'[o] # Unread => Shows(o, seen'[o])
    BY <1>3, <1>4 DEF Visible, WritesAreVisible
  <1>5. WritesAreVisible'
    BY <1>2, <1>4 DEF WritesAreVisible, Shows, serverVars, writeVars
  <1> QED
    BY <1>1, <1>5 DEF Visible

\* A change of the server is newer than every answered write
LEMMA VisibleChange ==
  ASSUME TypeInv, Visible, NEW o \in Object, NEW alive \in BOOLEAN, Change(o, alive),
         UNCHANGED <<roles, snapshot, seen, answered, moves>>
  PROVE  Behind' /\ WritesAreVisible'
         /\ \A x \in Object : server'[x].rev >= server[x].rev
  <1> USE DEF TypeInv, TypeOK, Visible, Behind
  <1>1. /\ rev' = rev + 1 /\ server'[o].rev = rev + 1
        /\ \A x \in Object : x # o => server'[x] = server[x]
    BY DEF Change
  <1>2. \A x \in Object : /\ server[x].rev \in Nat /\ rev \in Nat /\ answered[x] \in Nat
    OBVIOUS
  <1>3. Behind' /\ \A x \in Object : server'[x].rev >= server[x].rev
    BY <1>1, <1>2
  <1>4. ASSUME NEW x \in Object, NEW v, Shows(x, v) PROVE Shows(x, v)'
    <2>1. CASE x = o
      BY <2>1, <1>1, <1>2, <1>4 DEF Shows
    <2>2. CASE x # o
      BY <2>2, <1>1, <1>4 DEF Shows
    <2> QED
      BY <2>1, <2>2
  <1>5. WritesAreVisible'
    BY <1>4 DEF WritesAreVisible, InScope, Scope
  <1> QED
    BY <1>3, <1>5

LEMMA VisibleStep ==
  ASSUME MaxRoleChanges <= 1, TypeInv, Visible, [Next]_vars
  PROVE  Visible'
  <1> USE DEF serverVars, cacheVars, readVars, writeVars
  <1>0. TypeOK /\ Progress
    BY DEF TypeInv
  <1>1. CASE \/ BeginRefresh \/ BeginIncremental \/ StartChanges \/ TokenRefused
             \/ StartSeed \/ SeedUnavailable \/ StoreTokens \/ Finish \/ Fail
             \/ RetryTimePasses \/ UNCHANGED vars
             \/ \E c \in Collection : Seed(c)
    <2>1. /\ UNCHANGED <<server, rev, supports, roles, pending, answered, moves, snapshot>>
          /\ \A o \in Object : seen'[o] \in {Unread, seen[o]}
      BY <1>1 DEF BeginRefresh, BeginIncremental, StartChanges, TokenRefused, StartSeed,
                  SeedUnavailable, StoreTokens, Finish, Fail, RetryTimePasses, vars,
                  Seed, FullSyncInstead, Fresh
    <2> QED
      BY <2>1, VisibleRead
  <1>2. ASSUME NEW c \in Collection, Report(c) PROVE Visible'
    <2>1. /\ UNCHANGED <<server, rev, supports, roles, pending, answered, moves, snapshot>>
          /\ \A o \in Object : seen'[o] = seen[o] \/ (seen'[o] = Absent /\ ~server[o].live)
      BY <1>2 DEF Report
    <2> QED
      BY <2>1, FetchedShows, VisibleRead
  <1>3. ASSUME NEW o \in Object, Load(o) PROVE Visible'
    <2>1. /\ UNCHANGED <<server, rev, supports, roles, pending, answered, moves, snapshot>>
          /\ \A x \in Object : seen'[x] = seen[x] \/ seen'[x] = Fetched(x)
      BY <1>0, <1>3 DEF Load, TypeOK
    <2> QED
      BY <2>1, FetchedShows, VisibleRead
  <1>4. ASSUME NEW k \in Kinds, Scan(k) PROVE Visible'
    <2>1. /\ UNCHANGED <<server, rev, supports, roles, pending, answered, moves, snapshot>>
          /\ \A x \in Object : seen'[x] = seen[x] \/ seen'[x] = Listed(x)
      BY <1>4 DEF Scan
    <2>2. \A x \in Object : InScope(x) => Listed(x) = Fetched(x)
      BY DEF Listed, InScope
    <2> QED
      BY <2>1, <2>2, FetchedShows, VisibleRead
  <1>5. CASE StoreSnapshot
    <2>1. /\ UNCHANGED <<server, rev, supports, roles, pending, answered, moves, seen>>
          /\ snapshot' = [o \in Object |-> IF seen[o] = Unread THEN snapshot[o]
                                                               ELSE seen[o]]
      BY <1>5 DEF StoreSnapshot
    <2>2. snapshot # NoSnapshot \/ \A o \in Object : seen[o] # Unread
      BY <1>0, <1>5 DEF StoreSnapshot, Progress
    <2> QED
      BY <2>1, <2>2, VisibleRead
  <1>6. ASSUME NEW w \in Writer, Patch(w) PROVE Visible'
    <2> DEFINE p == pending[w]
    <2>1. /\ p # Idle /\ p \in Write /\ pc = "idle"
          /\ UNCHANGED <<server, rev, supports, roles, moves, seen>>
          /\ snapshot' = Patched(snapshot, p.object, p.shows)
          /\ pending' = [pending EXCEPT ![w] = Idle]
          /\ answered' = [answered EXCEPT
                            ![p.object] = IF p.shows = Absent THEN 0 ELSE p.shows]
      BY <1>0, <1>6 DEF Patch, TypeOK
    <2>2. /\ p.object \in Object /\ p.shows \in Nat \cup {Absent}
          /\ p.shows # Absent => p.shows <= server[p.object].rev
      BY <2>1 DEF Write, Visible, PendingIsKnown
    <2>3. Behind'
      BY <1>0, <2>1, <2>2, SyncAssumption DEF Visible, Behind, TypeOK
    <2>4. PendingIsKnown'
      BY <1>0, <2>1 DEF Visible, PendingIsKnown, TypeOK
    <2>5. WrittenInScope'
      BY <1>0, <2>1, <2>2 DEF Visible, WrittenInScope, InScope, Scope, TypeOK
    <2>6. \A o \in Object : seen'[o] = Unread
      BY <1>0, <2>1 DEF Progress, Unstarted
    <2>7. ASSUME NEW o \in Object, answered'[o] # 0, InScope(o)', snapshot' # NoSnapshot
          PROVE  Shows(o, snapshot[o])'
      <3>1. snapshot # NoSnapshot /\ snapshot' = [snapshot EXCEPT ![p.object] = p.shows]
            /\ snapshot \in Image
        BY <1>0, <2>1, <2>7 DEF Patched, TypeOK
      <3>2. CASE o = p.object
        <4>1. p.shows # Absent /\ answered'[o] = p.shows /\ snapshot'[o] = p.shows
          BY <1>0, <2>1, <2>2, <2>7, <3>1, <3>2 DEF TypeOK, Image
        <4> QED
          BY <4>1, <2>2, SyncAssumption DEF Shows
      <3>3. CASE o # p.object
        <4>1. answered'[o] = answered[o] /\ snapshot'[o] = snapshot[o] /\ InScope(o)
          BY <1>0, <2>1, <2>7, <3>1, <3>3 DEF TypeOK, Image, InScope, Scope
        <4> QED
          BY <4>1, <2>1, <2>7, <3>1 DEF Visible, WritesAreVisible, Shows
      <3> QED
        BY <3>2, <3>3
    <2> QED
      BY <2>3, <2>4, <2>5, <2>6, <2>7 DEF Visible, WritesAreVisible
  <1>7. ASSUME NEW w \in Writer, NEW o \in Object, WriteServer(w, o) PROVE Visible'
    <2>1. PICK alive \in BOOLEAN :
            /\ Change(o, alive)
            /\ pending' = [pending EXCEPT
                 ![w] = [object |-> o, shows |-> IF alive THEN rev + 1 ELSE Absent]]
      BY <1>7 DEF WriteServer
    <2>2. UNCHANGED <<roles, snapshot, seen, answered, moves>> /\ InScope(o)
      BY <1>7 DEF WriteServer, InScope
    <2>3. /\ Behind' /\ WritesAreVisible'
          /\ \A x \in Object : server'[x].rev >= server[x].rev
      BY <2>1, <2>2, VisibleChange
    <2>4. PendingIsKnown'
      <3> SUFFICES ASSUME NEW v \in Writer, pending'[v] # Idle, pending'[v].shows # Absent
                   PROVE  pending'[v].shows <= server'[pending'[v].object].rev
        BY DEF PendingIsKnown
      <3>1. CASE v = w
        BY <1>0, <2>1, <3>1 DEF TypeOK, Change
      <3>2. CASE v # w
        <4>1. pending'[v] = pending[v] /\ pending[v] \in Write
          BY <1>0, <2>1, <3>2 DEF TypeOK
        <4>2. /\ pending[v].shows \in Nat /\ pending[v].object \in Object
              /\ pending[v].shows <= server[pending[v].object].rev
          BY <4>1 DEF Write, Visible, PendingIsKnown
        <4>3. /\ server[pending[v].object].rev \in Nat
              /\ server'[pending[v].object].rev >= server[pending[v].object].rev
              /\ server'[pending[v].object].rev \in Nat
          BY <1>0, <2>1, <2>3, <4>2 DEF TypeOK, Change
        <4> QED
          BY <4>1, <4>2, <4>3
      <3> QED
        BY <3>1, <3>2
    <2>5. WrittenInScope'
      BY <1>0, <2>1, <2>2 DEF Visible, WrittenInScope, InScope, Scope, TypeOK
    <2> QED
      BY <2>3, <2>4, <2>5 DEF Visible
  <1>8. ASSUME NEW o \in Object, ForeignEdit(o) PROVE Visible'
    <2>1. UNCHANGED <<roles, snapshot, seen, answered, moves, pending>>
      BY <1>8 DEF ForeignEdit
    <2>a. PICK alive \in BOOLEAN : Change(o, alive)
      BY <1>8 DEF ForeignEdit
    <2>b. /\ Behind' /\ WritesAreVisible'
          /\ \A x \in Object : server'[x].rev >= server[x].rev
      BY <2>1, <2>a, VisibleChange
    <2>2. \A x \in Object : server'[x].rev \in Nat /\ server[x].rev \in Nat
      BY <1>0, <2>a DEF TypeOK, Change
    <2>3. PendingIsKnown'
      <3> SUFFICES ASSUME NEW v \in Writer, pending[v] # Idle, pending[v].shows # Absent
                   PROVE  pending[v].shows <= server'[pending[v].object].rev
        BY <2>1 DEF PendingIsKnown
      <3>1. pending[v].object \in Object /\ pending[v].shows \in Nat
        BY <1>0 DEF TypeOK, Write
      <3> QED
        BY <2>b, <2>2, <3>1 DEF Visible, PendingIsKnown
    <2>4. WrittenInScope'
      BY <2>1 DEF Visible, WrittenInScope, InScope, Scope
    <2> QED
      BY <2>b, <2>3, <2>4 DEF Visible
  <1>9. CASE SwitchSupport
    <2>1. UNCHANGED <<server, rev, roles, pending, answered, moves, snapshot, seen>>
      BY <1>9 DEF SwitchSupport
    <2> QED
      BY <2>1 DEF Visible, Behind, PendingIsKnown, WrittenInScope, WritesAreVisible,
                  InScope, Scope, Shows
  <1>10. CASE ChangeRoles
    <2>1. /\ moves = 0 /\ moves' = 1
          /\ UNCHANGED <<server, rev, pending, answered, snapshot, seen>>
      BY <1>0, <1>10, SyncAssumption DEF ChangeRoles, TypeOK
    <2>2. \A o \in Object : answered[o] # 0 => InScope(o)
      BY <2>1 DEF Visible, WrittenInScope
    <2> QED
      BY <2>1, <2>2 DEF Visible, Behind, PendingIsKnown, WrittenInScope,
                        WritesAreVisible, Shows
  <1>11. CASE Crash
    <2>1. /\ UNCHANGED <<server, rev, roles, answered, moves, snapshot>>
          /\ \A o \in Object : seen'[o] = Unread
          /\ \A w \in Writer : pending'[w] = Idle
      BY <1>11 DEF Crash, Fresh
    <2> QED
      BY <2>1 DEF Visible, Behind, PendingIsKnown, WrittenInScope, WritesAreVisible,
                  InScope, Scope, Shows
  <1> QED
    BY <1>1, <1>2, <1>3, <1>4, <1>5, <1>6, <1>7, <1>8, <1>9, <1>10, <1>11
    DEF Next, SyncStep

\* A write that returned stays visible: no sync that was running while it was made,
\* and no crash or later delta, puts an older read of the object back, for any
\* number of writers, also of the same object, and of other clients
THEOREM AnsweredWritesShown ==
  ASSUME MaxRoleChanges <= 1 PROVE Spec => []AnsweredWriteIsShown
  <1>1. TypeInv /\ Visible /\ [Next]_vars => Visible'
    BY VisibleStep
  <1>2. Visible => AnsweredWriteIsShown
    BY DEF Visible, WritesAreVisible, AnsweredWriteIsShown, Shows, InScope
  <1> QED
    BY <1>1, <1>2, TypeInit, TypeStep, VisibleInit, PTL DEF Spec
=============================================================================
