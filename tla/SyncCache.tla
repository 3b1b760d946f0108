------------------------------ MODULE SyncCache ------------------------------
(***************************************************************************)
(* The verified CalDAV snapshot: SyncEngine (caldav/sync.py) with its      *)
(* RFC 6578 transport (caldav/sync_token.py), and the write-through of     *)
(* ExperimentalCacheCalDAVAdapter (caldav/optimized_cache.py).             *)
(*                                                                         *)
(* One sync at a time holds _sync_lock; it seeds tokens and scans both     *)
(* collections, or asks for what changed since its tokens, and stores      *)
(* snapshot, tokens and status in three SQLite transactions.  A write goes *)
(* to the server without that lock and takes it afterwards to patch the    *)
(* snapshot.  A step below is one call to the server, one transaction, or  *)
(* one read of the settings.                                               *)
(*                                                                         *)
(* An object is known by the server revision of its last change.  A token  *)
(* of a collection is the revision at which the server issued it.          *)
(***************************************************************************)
EXTENDS Naturals, FiniteSets

CONSTANTS
    Object,         \* Tasks and Events: one UID and one URL each
    Collection,     \* CalDAV collections
    Kind,           \* Kind[o]: "tasks" for a VTODO, "events" for a VEVENT
    Home,           \* Home[o]: the collection object o lives in
    Roles,          \* the settings tried: which collection serves which kind
    InitialRoles,   \* the setting at the start
    Existing,       \* the objects there are at the start
    Writer,         \* threads of the daemon that write objects
    Owns,           \* Owns[w]: the objects writer w may write
    Edited,         \* the objects other CalDAV clients may edit
    MaxRevision,    \* bounds the changes on the server
    MaxFaults,      \* bounds failed calls, refused tokens and crashes
    MaxRoleChanges, \* bounds the changes of the settings
    Unset,          \* a role without a collection
    NoRoles,        \* role_urls() is {}
    NoSnapshot,     \* nothing was ever stored under SNAPSHOT_KEY
    Absent,         \* the object is not there
    Unread,         \* this sync has not looked at the object
    Idle            \* a writer with nothing to do

Kinds == {"tasks", "events"}

ASSUME SyncAssumption ==
    /\ Kind \in [Object -> Kinds]
    /\ Home \in [Object -> Collection]
    /\ Roles \subseteq [Kinds -> Collection \cup {Unset}]
    /\ InitialRoles \in Roles
    /\ Owns \in [Writer -> SUBSET Object]
    /\ Existing \subseteq Object /\ Edited \subseteq Object
    /\ {MaxRevision, MaxFaults, MaxRoleChanges} \subseteq Nat
    /\ NoRoles \notin Roles /\ Unset \notin Collection
    /\ Absent \notin Nat /\ Unread \notin Nat \cup {Absent}
    /\ NoSnapshot \notin [Object -> Nat \cup {Absent}]
    /\ Idle \notin [object : Object, shows : Nat \cup {Absent}]

VARIABLES
    server,     \* server[o]: the revision of its last change, and whether it exists
    rev,        \* the last revision of the server
    supports,   \* whether the server answers sync-token REPORTs
    roles,      \* the configured collection roles
    snapshot,   \* SNAPSHOT_KEY
    token,      \* TOKEN_KEY
    retryDue,   \* retry_at of an unsupported token state has passed
    status,     \* STATUS_KEY
    pc,         \* the step of the sync that holds _sync_lock, "idle" if free
    force,      \* force_token_seed
    todo,       \* collections this sync has still to ask
    due,        \* reported hrefs it has still to load
    seen,       \* seen[o]: what it has read of o
    marks,      \* marks[c]: the token of c it got
    marked,     \* the roles those tokens are for, NoRoles if it has none
    pending,    \* pending[w]: the answered server write w has still to patch in
    answered,   \* history: answered[o] is the last write of o that returned
    faults,     \* how many faults happened
    moves       \* how many times the roles changed

serverVars == <<server, rev, supports>>
cacheVars == <<snapshot, token, retryDue, status>>
readVars == <<force, todo, due, seen, marks, marked>>
writeVars == <<pending, answered>>
vars == <<serverVars, roles, cacheVars, pc, readVars, writeVars, faults, moves>>

Image == [Object -> Nat \cup {Absent}]
Write == [object : Object, shows : Nat \cup {Absent}]
PC == {"idle", "seed", "seeding", "tasks", "events", "changes", "delta",
       "storing", "tokens", "finishing"}
TokenState == [state : {"none", "unsupported", "supported"},
               roles : Roles \cup {NoRoles},
               at : [Collection -> Nat]]
NoToken == [state |-> "none", roles |-> NoRoles, at |-> [c \in Collection |-> 0]]

TypeOK ==
    /\ server \in [Object -> [rev : Nat, live : BOOLEAN]]
    /\ rev \in Nat
    /\ supports \in BOOLEAN
    /\ roles \in Roles
    /\ snapshot \in Image \cup {NoSnapshot}
    /\ token \in TokenState
    /\ retryDue \in BOOLEAN
    /\ status \in {"none", "ok", "error"}
    /\ pc \in PC
    /\ force \in BOOLEAN
    /\ todo \subseteq Collection
    /\ due \subseteq Object
    /\ seen \in [Object -> Nat \cup {Absent, Unread}]
    /\ marks \in [Collection -> Nat]
    /\ marked \in Roles \cup {NoRoles}
    /\ pending \in [Writer -> Write \cup {Idle}]
    /\ answered \in [Object -> Nat]
    /\ faults \in 0 .. MaxFaults
    /\ moves \in 0 .. MaxRoleChanges

(***************************************************************************)
(* What a read of the server shows.                                        *)
(***************************************************************************)
\* The resource of o as a GET or a REPORT returns it now
Fetched(o) == IF server[o].live THEN server[o].rev ELSE Absent

\* The collections list_tasks and list_events read
Scope(k) == IF roles[k] = Unset THEN Collection ELSE {roles[k]}

\* o as a live list of its kind shows it
Listed(o) == IF Home[o] \in Scope(Kind[o]) THEN Fetched(o) ELSE Absent

\* role_urls(): both roles, or nothing
RoleUrls == IF Unset \in {roles[k] : k \in Kinds} THEN NoRoles ELSE roles
Urls(r) == {r[k] : k \in Kinds}

\* _token_retry_blocked
RetryBlocked ==
    token.state = "unsupported" /\ token.roles = RoleUrls /\ ~retryDue

\* The stored tokens can be used with the stored snapshot
ValidState ==
    /\ snapshot # NoSnapshot
    /\ token.state = "supported"
    /\ token.roles = RoleUrls

Init ==
    /\ server = [o \in Object |-> [rev |-> 0, live |-> o \in Existing]]
    /\ rev = 0
    /\ supports \in BOOLEAN
    /\ roles = InitialRoles
    /\ snapshot = NoSnapshot
    /\ token = NoToken
    /\ retryDue = FALSE
    /\ status = "none"
    /\ pc = "idle"
    /\ force = FALSE
    /\ todo = {} /\ due = {}
    /\ seen = [o \in Object |-> Unread]
    /\ marks = [c \in Collection |-> 0]
    /\ marked = NoRoles
    /\ pending = [w \in Writer |-> Idle]
    /\ answered = [o \in Object |-> 0]
    /\ faults = 0 /\ moves = 0

(***************************************************************************)
(* The sync: what refresh() and incremental_sync() do under _sync_lock.    *)
(***************************************************************************)
\* Nothing read: the local variables of a sync that starts, or is over
Fresh ==
    /\ todo' = {} /\ due' = {}
    /\ seen' = [o \in Object |-> Unread]
    /\ marks' = [c \in Collection |-> 0]
    /\ marked' = NoRoles

\* refresh(), on a manual request
BeginRefresh ==
    /\ pc = "idle"
    /\ pc' = "seed"
    /\ UNCHANGED <<serverVars, roles, cacheVars, readVars, writeVars, faults, moves>>

\* incremental_sync(), every sync_interval
BeginIncremental ==
    /\ pc = "idle"
    /\ pc' = IF ValidState THEN "changes" ELSE "seed"
    /\ force' = (~ValidState /\ token.state = "supported")
    /\ UNCHANGED <<serverVars, roles, cacheVars, todo, due, seen, marks, marked,
                   writeVars, faults, moves>>

\* SyncTokenStale, SyncTokenUnavailable: scan everything and seed again
FullSyncInstead == pc' = "seed" /\ force' = TRUE /\ Fresh

\* changes() reads the roles again
StartChanges ==
    /\ pc = "changes"
    /\ \/ /\ token.roles = RoleUrls
          /\ pc' = "delta"
          /\ todo' = Urls(roles)
          /\ marked' = roles
          /\ UNCHANGED <<force, due, seen, marks>>
       \/ token.roles # RoleUrls /\ FullSyncInstead
    /\ UNCHANGED <<serverVars, roles, cacheVars, writeVars, faults, moves>>

\* Where changes() stands when collections t and hrefs d are left
NextDelta(t, d) == IF t \cup d = {} THEN "storing" ELSE "delta"

\* Mutant of Report: deletion rows are skipped
ReportKeepsDeleted(c) ==
    LET changed == {o \in Object : Home[o] = c /\ server[o].rev > token.at[c]
                                   /\ server[o].live}
    IN
    /\ pc = "delta" /\ due = {} /\ c \in todo /\ supports
    /\ todo' = todo \ {c}
    /\ due' = changed
    /\ marks' = [marks EXCEPT ![c] = rev]
    /\ pc' = NextDelta(todo', due')
    /\ UNCHANGED <<serverVars, roles, cacheVars, force, seen, marked, writeVars,
                   faults, moves>>

\* The sync-collection REPORT of c: a new token, hrefs, and which are deleted
Report(c) ==
    LET changed == {o \in Object : Home[o] = c /\ server[o].rev > token.at[c]}
    IN
    /\ pc = "delta" /\ due = {} /\ c \in todo /\ supports
    /\ todo' = todo \ {c}
    /\ due' = {o \in changed : server[o].live}
    /\ seen' = [o \in Object |-> IF o \in changed \ due' THEN Absent ELSE seen[o]]
    /\ marks' = [marks EXCEPT ![c] = rev]
    /\ pc' = NextDelta(todo', due')
    /\ UNCHANGED <<serverVars, roles, cacheVars, force, marked, writeVars,
                   faults, moves>>

\* _load_changed_resources: the href of o, by multiget or on its own; not found
\* means deleted since
Load(o) ==
    /\ pc = "delta" /\ o \in due
    /\ due' = due \ {o}
    /\ seen' = [seen EXCEPT ![o] = Fetched(o)]
    /\ pc' = NextDelta(todo, due')
    /\ UNCHANGED <<serverVars, roles, cacheVars, force, todo, marks, marked,
                   writeVars, faults, moves>>

\* The server does not know the token or does not support them (any more)
TokenRefused ==
    /\ pc = "delta" /\ due = {}
    /\ \/ ~supports /\ UNCHANGED faults
       \/ faults < MaxFaults /\ faults' = faults + 1
    /\ FullSyncInstead
    /\ UNCHANGED <<serverVars, roles, cacheVars, writeVars, moves>>

\* Mutant of StartSeed: retry_at is never reached
StartSeedRetryNever ==
    /\ pc = "seed"
    /\ \/ /\ RoleUrls # NoRoles
          /\ force \/ ~(token.state = "unsupported" /\ token.roles = RoleUrls)
          /\ pc' = "seeding"
          /\ todo' = Urls(roles)
          /\ marked' = roles
       \/ /\ RoleUrls = NoRoles \/ (~force /\ token.state = "unsupported"
                                            /\ token.roles = RoleUrls)
          /\ pc' = "tasks"
          /\ UNCHANGED <<todo, marked>>
    /\ UNCHANGED <<serverVars, roles, cacheVars, force, due, seen, marks,
                   writeVars, faults, moves>>

\* _full_sync begins: seed tokens if roles are set and no retry is deferred
StartSeed ==
    /\ pc = "seed"
    /\ \/ /\ RoleUrls # NoRoles
          /\ force \/ ~RetryBlocked
          /\ pc' = "seeding"
          /\ todo' = Urls(roles)
          /\ marked' = roles
       \/ /\ RoleUrls = NoRoles \/ (~force /\ RetryBlocked)
          /\ pc' = "tasks"
          /\ UNCHANGED <<todo, marked>>
    /\ UNCHANGED <<serverVars, roles, cacheVars, force, due, seen, marks,
                   writeVars, faults, moves>>

\* seed(): the token of c, without data
Seed(c) ==
    /\ pc = "seeding" /\ c \in todo /\ supports
    /\ todo' = todo \ {c}
    /\ marks' = [marks EXCEPT ![c] = rev]
    /\ pc' = IF todo' = {} THEN "tasks" ELSE "seeding"
    /\ UNCHANGED <<serverVars, roles, cacheVars, force, due, seen, marked,
                   writeVars, faults, moves>>

\* seed() raises SyncTokenUnavailable, which is stored with a retry time
SeedUnavailable ==
    /\ pc = "seeding" /\ ~supports
    /\ token' = [state |-> "unsupported", roles |-> marked, at |-> NoToken.at]
    /\ retryDue' = FALSE
    /\ pc' = "tasks"
    /\ todo' = {}
    /\ marked' = NoRoles
    /\ UNCHANGED <<serverVars, roles, snapshot, status, force, due, seen, marks,
                   writeVars, faults, moves>>

\* _read_remote: list_tasks(), then list_events()
Scan(k) ==
    /\ pc = k
    /\ seen' = [o \in Object |-> IF Kind[o] = k THEN Listed(o) ELSE seen[o]]
    /\ pc' = IF k = "tasks" THEN "events" ELSE "storing"
    /\ UNCHANGED <<serverVars, roles, cacheVars, force, todo, due, marks, marked,
                   writeVars, faults, moves>>

\* cache.set(SNAPSHOT_KEY): what was read, over what was there (_merge_kind)
StoreSnapshot ==
    /\ pc = "storing"
    /\ snapshot' = [o \in Object |-> IF seen[o] = Unread THEN snapshot[o]
                                                         ELSE seen[o]]
    /\ pc' = IF marked = NoRoles THEN "finishing" ELSE "tokens"
    /\ UNCHANGED <<serverVars, roles, token, retryDue, status, readVars,
                   writeVars, faults, moves>>

\* Mutant of StoreTokens: the token is asked for after the scan
StoreLatestTokens ==
    /\ pc = "tokens"
    /\ token' = [state |-> "supported", roles |-> marked,
                 at |-> [c \in Collection |-> rev]]
    /\ pc' = "finishing"
    /\ UNCHANGED <<serverVars, roles, snapshot, retryDue, status, readVars,
                   writeVars, faults, moves>>

\* cache.set(TOKEN_KEY)
StoreTokens ==
    /\ pc = "tokens"
    /\ token' = [state |-> "supported", roles |-> marked, at |-> marks]
    /\ pc' = "finishing"
    /\ UNCHANGED <<serverVars, roles, snapshot, retryDue, status, readVars,
                   writeVars, faults, moves>>

\* cache.set(STATUS_KEY), and the lock is released
Finish ==
    /\ pc = "finishing"
    /\ status' = "ok"
    /\ pc' = "idle" /\ force' = FALSE /\ Fresh
    /\ UNCHANGED <<serverVars, roles, snapshot, token, retryDue, writeVars,
                   faults, moves>>

\* A server call of the sync raises: _record_error, and the lock is released
Fail ==
    /\ pc \in {"seeding", "tasks", "events", "delta"}
    /\ faults < MaxFaults
    /\ status' = "error"
    /\ pc' = "idle" /\ force' = FALSE /\ Fresh
    /\ faults' = faults + 1
    /\ UNCHANGED <<serverVars, roles, snapshot, token, retryDue, writeVars, moves>>

(***************************************************************************)
(* Writers: the mutations of the adapter, and _patch_snapshot.             *)
(***************************************************************************)
\* The server gives o its next revision
Change(o, alive) ==
    /\ rev < MaxRevision
    /\ alive \/ server[o].live
    /\ rev' = rev + 1
    /\ server' = [server EXCEPT ![o] = [rev |-> rev + 1, live |-> alive]]
    /\ UNCHANGED supports

\* create_, update_ or delete_ of o succeeds on the server
WriteServer(w, o) ==
    /\ pending[w] = Idle
    /\ o \in Owns[w] /\ Home[o] \in Scope(Kind[o])
    /\ \E alive \in BOOLEAN :
         /\ Change(o, alive)
         /\ pending' = [pending EXCEPT
              ![w] = [object |-> o, shows |-> IF alive THEN rev + 1 ELSE Absent]]
    /\ UNCHANGED <<roles, cacheVars, pc, readVars, answered, faults, moves>>

\* snapshot p with object o shown as v
Patched(p, o, v) ==
    IF p = NoSnapshot THEN NoSnapshot ELSE [p EXCEPT ![o] = v]

\* Mutant of Patch: the snapshot is patched without _sync_lock
PatchUnlocked(w) ==
    LET p == pending[w] IN
    /\ p # Idle
    /\ snapshot' = Patched(snapshot, p.object, p.shows)
    /\ pending' = [pending EXCEPT ![w] = Idle]
    /\ answered' = [answered EXCEPT
         ![p.object] = IF p.shows = Absent THEN 0 ELSE p.shows]
    /\ UNCHANGED <<serverVars, roles, token, retryDue, status, pc, readVars,
                   faults, moves>>

\* _patch_snapshot once the lock is free, and the write returns
Patch(w) ==
    LET p == pending[w] IN
    /\ p # Idle
    /\ pc = "idle"
    /\ snapshot' = Patched(snapshot, p.object, p.shows)
    /\ pending' = [pending EXCEPT ![w] = Idle]
    /\ answered' = [answered EXCEPT
         ![p.object] = IF p.shows = Absent THEN 0 ELSE p.shows]
    /\ UNCHANGED <<serverVars, roles, token, retryDue, status, pc, readVars,
                   faults, moves>>

(***************************************************************************)
(* The environment.                                                        *)
(***************************************************************************)
\* Another CalDAV client creates, changes or deletes o
ForeignEdit(o) ==
    /\ o \in Edited
    /\ \E alive \in BOOLEAN : Change(o, alive)
    /\ UNCHANGED <<roles, cacheVars, pc, readVars, writeVars, faults, moves>>

\* The server starts or stops answering sync-token REPORTs
SwitchSupport ==
    /\ faults < MaxFaults
    /\ faults' = faults + 1
    /\ supports' = ~supports
    /\ UNCHANGED <<server, rev, roles, cacheVars, pc, readVars, writeVars, moves>>

\* The user selects other collections
ChangeRoles ==
    /\ moves < MaxRoleChanges
    /\ moves' = moves + 1
    /\ roles' \in Roles \ {roles}
    /\ UNCHANGED <<serverVars, cacheVars, pc, readVars, writeVars, faults>>

\* TOKEN_RETRY_SECONDS pass
RetryTimePasses ==
    /\ token.state = "unsupported" /\ ~retryDue
    /\ retryDue' = TRUE
    /\ UNCHANGED <<serverVars, roles, snapshot, token, status, pc, readVars,
                   writeVars, faults, moves>>

\* The daemon dies and starts again: SQLite is what is left
Crash ==
    /\ faults < MaxFaults
    /\ faults' = faults + 1
    /\ pc' = "idle" /\ force' = FALSE /\ Fresh
    /\ pending' = [w \in Writer |-> Idle]
    /\ UNCHANGED <<serverVars, roles, cacheVars, answered, moves>>

SyncStep ==
    \/ StartChanges \/ TokenRefused \/ StartSeed \/ SeedUnavailable
    \/ StoreSnapshot \/ StoreTokens \/ Finish
    \/ \E c \in Collection : Report(c) \/ Seed(c)
    \/ \E o \in Object : Load(o)
    \/ \E k \in Kinds : Scan(k)

Next ==
    \/ BeginRefresh \/ BeginIncremental \/ SyncStep \/ Fail
    \/ \E w \in Writer : Patch(w) \/ \E o \in Object : WriteServer(w, o)
    \/ \E o \in Object : ForeignEdit(o)
    \/ SwitchSupport \/ ChangeRoles \/ RetryTimePasses \/ Crash

Spec == Init /\ [][Next]_vars

\* The maintenance loop starts a sync every sync_interval, a sync that runs goes
\* on, and a writer waiting for the lock gets it while the lane sleeps
FairSpec ==
    /\ Spec
    /\ WF_vars(BeginIncremental)
    /\ WF_vars(SyncStep)
    /\ WF_vars(RetryTimePasses)
    /\ \A w \in Writer : SF_vars(Patch(w))

(***************************************************************************)
(* Properties.                                                             *)
(***************************************************************************)
\* What the next delta will not report is right in the snapshot: no change falls
\* between the stored snapshot and the stored tokens, whenever the two were
\* taken and whatever died in between
NoChangeIsLost ==
    ValidState =>
        \A o \in Object :
            Home[o] \in Urls(roles) /\ server[o].rev <= token.at[Home[o]]
                => snapshot[o] = Listed(o)

\* A write that returned is never replaced by an older read of a sync that was
\* running: the snapshot shows it or something newer
AnsweredWriteIsShown ==
    \A o \in Object :
        snapshot # NoSnapshot /\ answered[o] # 0 /\ Home[o] \in Scope(Kind[o]) =>
            \/ snapshot[o] # Absent /\ snapshot[o] >= answered[o]
            \/ snapshot[o] = Absent /\ (server[o].live => server[o].rev > answered[o])

\* When the server is left alone the snapshot becomes and stays what a live list
\* shows, with tokens or without
Converges ==
    <>[](snapshot # NoSnapshot /\ \A o \in Object : snapshot[o] = Listed(o))

\* An unsupported server is asked again: tokens come back with the support
TokensComeBack ==
    <>[](supports /\ RoleUrls # NoRoles) => <>[](token.state = "supported")

=============================================================================
