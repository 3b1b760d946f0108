----------------------------- MODULE Extensions -----------------------------
(***************************************************************************)
(* The extensions of one process: the table of commands they share with    *)
(* the core, the hooks, the records of the manager, the files on disk and  *)
(* the preferences, which other processes write as well.  Importing an     *)
(* extension runs its script, a sequence of registrations of which any may *)
(* be refused; the manager takes back what a script did by comparing the   *)
(* table before and after.                                                 *)
(***************************************************************************)
EXTENDS Naturals, Sequences, FiniteSets

CONSTANTS Ext,
          Name,         \* command names and aliases
          Core,         \* the names of the built-in commands
          CoreAliases,  \* [Core -> SUBSET Name]
          Bundled,      \* extensions that are shipped, and enabled by default
          Scripts,      \* what the file of an extension may do
          MaxOps, MaxDisk, MaxFaults, MaxOther, MaxLate,
          None

VARIABLES entries,   \* CommandRegistry._entries
          alias,     \* CommandRegistry._aliases
          hooks,     \* HookRegistry: <<owner, generation>>
          prefs,     \* the setting extensions.enabled: TRUE, FALSE or None
          disk,      \* per extension the places that hold a source
          script,    \* per extension what its source does
          records,   \* ExtensionManager._records
          gen,       \* ExtensionManager._generation
          job,       \* the operation that runs
          asked,     \* history: the preference last asked for
          amiss,     \* history: what went wrong, see the properties
          spent      \* [ops, disk, misread, failed, other, late] so far

table   == <<entries, alias, hooks>>
manager == <<records, gen>>
world   == <<prefs, asked, disk, script>>
vars == <<entries, alias, hooks, prefs, disk, script, records, gen, job, asked,
          amiss, spent>>

\* The user's directory comes before the one that is shipped.
Places == {"user", "bundled"}
First(places) == IF "user" \in places THEN "user" ELSE "bundled"

Entry(k, by, g, als, protected) ==
    [name |-> k, by |-> by, gen |-> g, aliases |-> als, protected |-> protected]
CoreEntry(k) == Entry(k, "core", 0, CoreAliases[k], TRUE)

\* What may be in the table, in a script and among the records.
CommandEntry == [name : Name, by : Ext \cup {"core", "plain"}, gen : Nat,
                 aliases : SUBSET Name, protected : BOOLEAN]
Statement == [do : {"command"}, name : Name, aliases : SUBSET Name,
              override : BOOLEAN, force : BOOLEAN]
             \cup [do : {"hook", "raise"}, name : Name]
ExtensionRecord == [ext : Ext, place : Places, enabled : BOOLEAN,
                    status : {"enabled", "disabled", "loaded", "error"},
                    names : SUBSET Name, replaced : SUBSET CommandEntry]

Preferences == [Ext -> BOOLEAN \cup {None}]
Job == [op : {"load", "enable", "disable", "reload", "unload", "add", "boot"},
        ext : Ext \cup {None},
        at : {"read", "write", "load", "exec", "teardown", "boot"},
        map : Preferences, before : [Name -> CommandEntry \cup {None}],
        left : Seq(Statement), boot : SUBSET Ext]

ASSUME ExtensionsAssumption ==
    /\ Core \subseteq Name /\ CoreAliases \in [Core -> SUBSET (Name \ Core)]
    /\ \A k, l \in Core : k # l => CoreAliases[k] \cap CoreAliases[l] = {}
    /\ Bundled \subseteq Ext /\ Scripts \subseteq Seq(Statement)
    /\ {"core", "plain"} \cap Ext = {}  \* _source_for marks those of an extension
    /\ None \notin Ext \cup Name \cup BOOLEAN
    /\ None \notin CommandEntry \cup ExtensionRecord
    /\ {MaxOps, MaxDisk, MaxFaults, MaxOther, MaxLate} \subseteq Nat

Idle == [op |-> "none"]
CoreTable == [k \in Name |-> IF k \in Core THEN CoreEntry(k) ELSE None]
CoreAlias == [n \in Name |-> IF \E k \in Core : n \in CoreAliases[k]
                             THEN CHOOSE k \in Core : n \in CoreAliases[k]
                             ELSE None]

Init ==
    /\ entries = CoreTable /\ alias = CoreAlias /\ hooks = {}
    /\ prefs = [e \in Ext |-> None] /\ asked = [e \in Ext |-> None]
    /\ disk = [e \in Ext |-> IF e \in Bundled THEN {"bundled"} ELSE {}]
    /\ script \in [Ext -> Scripts]
    /\ records = [e \in Ext |-> None] /\ gen = 0
    /\ job = Idle
    /\ amiss = [moved |-> {}, crossed |-> FALSE, taken |-> FALSE]
    /\ spent = [ops |-> 0, disk |-> 0, misread |-> 0, failed |-> 0, other |-> 0,
                late |-> 0]

-----------------------------------------------------------------------------
(* The table: one namespace for names and aliases.                         *)

Resolve(k) == IF entries[k] # None THEN k ELSE alias[k]

\* Mutant of Accepts: only the name is looked at.
AcceptsAliases(s) ==
    LET old == Resolve(s.name) IN
    old # None => s.override /\ (entries[old].protected => s.force)

\* A name that is taken needs an override, a protected one a second permission;
\* an alias may be taken only by the command that is replaced.
Accepts(s) ==
    LET old == Resolve(s.name) IN
    /\ old # None => s.override /\ (entries[old].protected => s.force)
    /\ \A a \in s.aliases :
          /\ a # s.name
          /\ Resolve(a) # None => old # None /\ Resolve(a) = old

\* The table without the commands ks, and with the entries add.
Replaced(ks, add) ==
    /\ entries' = [k \in Name |->
                      IF \E x \in add : x.name = k
                      THEN CHOOSE x \in add : x.name = k
                      ELSE IF k \in ks THEN None ELSE entries[k]]
    /\ alias' = [n \in Name |->
                    IF \E x \in add : n \in x.aliases
                    THEN (CHOOSE x \in add : n \in x.aliases).name
                    ELSE IF alias[n] \in ks THEN None ELSE alias[n]]

\* Whatever held the name, under it or under an alias, gives way.
Register(s, by, g) ==
    Replaced({Resolve(s.name)}, {Entry(s.name, by, g, s.aliases, FALSE)})

-----------------------------------------------------------------------------
(* What a load changed, and taking it back.                                *)

Changed(before) == {k \in Name : entries[k] # None /\ entries[k] # before[k]}

\* Mutant of Displaced: an entry that gave way under its alias is forgotten.
DisplacedSameName(before) == {before[k] : k \in Changed(before)} \ {None}

Displaced(before) ==
    {before[k] : k \in {n \in Name : n \in Changed(before) \/ entries[n] = None}}
    \ {None}

\* The commands under the extension's source, and those under a name it had
\* changed, whoever holds it by now.
Owned(r) ==
    {k \in Name : entries[k] # None /\ (entries[k].by = r.ext \/ k \in r.names)}

\* An old entry comes back when all its names are free.
Free(n, ks) ==
    /\ entries[n] = None \/ n \in ks
    /\ alias[n] = None \/ alias[n] \in ks
Returning(r, ks) ==
    {x \in r.replaced : \A n \in {x.name} \cup x.aliases : Free(n, ks)}

\* An old entry whose name was taken in the meantime does not come back.
Teardown(r, moved) ==
    /\ Replaced(Owned(r), Returning(r, Owned(r)))
    /\ hooks' = {h \in hooks : h[1] # r.ext}
    /\ amiss' = [amiss EXCEPT !.moved = @ \cup moved,
                              !.taken = @ \/ Returning(r, Owned(r)) # r.replaced]

Cleared(r, status) ==
    [r EXCEPT !.status = status, !.names = {}, !.replaced = {}]

-----------------------------------------------------------------------------
(* Discovery, at the beginning of every operation.                         *)

Default(e) == e \in Bundled
Prefers(map, e) == IF map[e] = None THEN Default(e) ELSE map[e]
Waiting(enabled) == IF enabled THEN "enabled" ELSE "disabled"

NewRecord(e, map) ==
    [ext |-> e, place |-> First(disk[e]), enabled |-> Prefers(map, e),
     status |-> IF Cardinality(disk[e]) > 1 THEN "error"
                ELSE Waiting(Prefers(map, e)),
     names |-> {}, replaced |-> {}]

\* A record follows its source; one whose only source is somewhere else is a
\* new one, and one whose source has gone stays while it is loaded.
Found(e, map) ==
    LET r == records[e] IN
    IF disk[e] = {} THEN (IF r # None /\ r.status = "loaded" THEN r ELSE None)
    ELSE IF r = None THEN NewRecord(e, map)
    ELSE IF Cardinality(disk[e]) > 1
         THEN [r EXCEPT !.place = First(disk[e]), !.enabled = Prefers(map, e),
                        !.status = IF @ = "loaded" THEN @ ELSE "error"]
    ELSE IF r.place = First(disk[e])
         THEN [r EXCEPT !.enabled = Prefers(map, e),
                        !.status = IF @ \in {"loaded", "error"} THEN @
                                   ELSE Waiting(Prefers(map, e))]
    ELSE NewRecord(e, map)

Discovered(map) == [e \in Ext |-> Found(e, map)]
LosesLoaded(map) ==
    {e \in Ext : /\ records[e] # None /\ records[e].status = "loaded"
                 /\ Found(e, map) = None \/ Found(e, map).status # "loaded"}
Discover(map) ==
    /\ records' = Discovered(map)
    /\ amiss' = [amiss EXCEPT !.moved = @ \cup LosesLoaded(map)]

\* The preferences as they are read: a read that fails is an empty map.
EmptyMap == [e \in Ext |-> None]
FaultsLeft == spent.misread + spent.failed < MaxFaults
Reads(map, ops) ==
    \/ map = prefs /\ spent' = [spent EXCEPT !.ops = @ + ops]
    \/ /\ map = EmptyMap /\ FaultsLeft
       /\ spent' = [spent EXCEPT !.ops = @ + ops, !.misread = @ + 1]

-----------------------------------------------------------------------------
(* The operations.                                                         *)

Running(op, e, step) ==
    [op |-> op, ext |-> e, at |-> step, map |-> EmptyMap, before |-> CoreTable,
     left |-> <<>>, boot |-> {}]
At(step) == job # Idle /\ job.at = step
Goto(step) == job' = [job EXCEPT !.at = step]

\* A command of the person, for an extension the manager knows; load looks for
\* it itself.
Begin(op, e) ==
    /\ job = Idle /\ spent.ops < MaxOps
    /\ \E map \in {prefs, EmptyMap} : Reads(map, 1) /\ Discover(map)
    /\ job' = IF records'[e] = None THEN Idle
              ELSE Running(op, e, IF op \in {"enable", "disable"} THEN "read"
                                  ELSE "teardown")
    /\ UNCHANGED <<table, gen, world>>

BeginLoad(e) ==
    /\ job = Idle /\ spent.ops < MaxOps
    /\ spent' = [spent EXCEPT !.ops = @ + 1]
    /\ job' = Running("load", e, "load")
    /\ UNCHANGED <<table, manager, world, amiss>>

\* A copy into the user's directory; it is disabled unless it is enabled later.
Add(e) ==
    /\ job = Idle /\ spent.ops < MaxOps /\ "user" \notin disk[e]
    /\ disk' = [disk EXCEPT ![e] = @ \cup {"user"}]
    /\ \E s \in Scripts : script' = [script EXCEPT ![e] = s]
    /\ spent' = [spent EXCEPT !.ops = @ + 1]
    /\ job' = Running("add", e, "read")
    /\ UNCHANGED <<table, manager, prefs, asked, amiss>>

\* The map of preferences is read, changed and written as a whole.
ReadMap ==
    /\ At("read")
    /\ \E map \in {prefs, EmptyMap} :
          Reads(map, 0) /\ job' = [job EXCEPT !.map = map, !.at = "write"]
    /\ UNCHANGED <<table, manager, world, amiss>>

Wanted == job.op = "enable"
Asks(e, v) == asked' = [asked EXCEPT ![e] = v]

\* After the write the extension is loaded or torn down, or, if it was added,
\* discovered.
Written ==
    \/ /\ job.op = "enable" /\ Goto("load")
       /\ records' = [records EXCEPT ![job.ext].enabled = TRUE,
                         ![job.ext].status = IF @ = "loaded" THEN @ ELSE "enabled"]
       /\ UNCHANGED amiss
    \/ /\ job.op = "disable" /\ Goto("teardown")
       /\ records' = [records EXCEPT ![job.ext].enabled = FALSE]
       /\ UNCHANGED amiss
    \/ job.op = "add" /\ job' = Idle /\ Discover(prefs')

\* Mutant of WriteMap: the other preferences are not carried over.
WriteMapAlone ==
    /\ At("write")
    /\ prefs' = [EmptyMap EXCEPT ![job.ext] = Wanted]
    /\ Asks(job.ext, Wanted)
    /\ Written
    /\ UNCHANGED <<table, gen, disk, script, spent>>

WriteMap ==
    /\ At("write")
    /\ prefs' = [job.map EXCEPT ![job.ext] = Wanted]
    /\ Asks(job.ext, Wanted)
    /\ Written
    /\ UNCHANGED <<table, gen, disk, script, spent>>

\* The write fails: the operation ends there.
WriteFails ==
    /\ At("write") /\ FaultsLeft
    /\ spent' = [spent EXCEPT !.failed = @ + 1]
    /\ job' = Idle
    /\ UNCHANGED <<table, manager, world, amiss>>

\* disable and unload end with it; reload goes on to load.
TearDown ==
    LET r == records[job.ext] IN
    /\ At("teardown")
    /\ Teardown(r, {})
    /\ records' = [records EXCEPT ![job.ext] =
                      Cleared(r, IF job.op = "disable" THEN "disabled"
                                 ELSE Waiting(r.enabled))]
    /\ IF job.op = "reload" THEN Goto("load") ELSE job' = Idle
    /\ UNCHANGED <<gen, world, spent>>

\* load looks for the source again; a loaded extension is left as it is, and
\* the residue of an earlier attempt is cleared before the script begins.
After == IF job.op = "boot" THEN Goto("boot") ELSE job' = Idle

Load ==
    /\ At("load")
    /\ \E map \in {prefs, EmptyMap} :
          LET e == job.ext
              r == Found(e, map)
          IN  /\ Reads(map, 0)
              /\ IF r = None \/ r.status = "loaded"
                 THEN Discover(map) /\ After /\ UNCHANGED <<table, gen>>
                 ELSE /\ Teardown(r, LosesLoaded(map))
                      /\ records' = [Discovered(map) EXCEPT ![e] = Cleared(r, r.status)]
                      /\ gen' = gen + 1
                      /\ job' = [job EXCEPT !.before = entries', !.left = script[e],
                                            !.at = "exec"]
    /\ UNCHANGED world

Refused(s) == s.do = "raise" \/ (s.do = "command" /\ ~ Accepts(s))

\* One registration of the script.  Replacing the command of another extension
\* is what crosses their bookkeeping.
Execute ==
    LET s   == Head(job.left)
        old == Resolve(s.name)
    IN
    /\ At("exec") /\ job.left # <<>> /\ ~ Refused(s)
    /\ \/ /\ s.do = "command"
          /\ Register(s, job.ext, gen)
          /\ amiss' = [amiss EXCEPT !.crossed =
                          @ \/ (old # None /\ entries[old].by \in Ext \ {job.ext})]
          /\ UNCHANGED hooks
       \/ /\ s.do = "hook"
          /\ hooks' = hooks \cup {<<job.ext, gen>>}
          /\ UNCHANGED <<entries, alias, amiss>>
    /\ job' = [job EXCEPT !.left = Tail(@)]
    /\ UNCHANGED <<manager, world, spent>>

Loaded ==
    /\ At("exec") /\ job.left = <<>>
    /\ records' = [records EXCEPT ![job.ext].status = "loaded",
                                  ![job.ext].names = Changed(job.before),
                                  ![job.ext].replaced = Displaced(job.before)]
    /\ After
    /\ UNCHANGED <<table, gen, world, amiss, spent>>

\* The script raised, or a registration was refused: what it did is taken back.
LoadFails ==
    LET r == [records[job.ext] EXCEPT !.names = Changed(job.before),
                                      !.replaced = Displaced(job.before)]
    IN
    /\ At("exec") /\ job.left # <<>> /\ Refused(Head(job.left))
    /\ Teardown(r, {})
    /\ records' = [records EXCEPT ![job.ext] = Cleared(r, "error")]
    /\ After
    /\ UNCHANGED <<gen, world, spent>>

-----------------------------------------------------------------------------
(* A new process, code that runs later, and the world around.              *)

\* The process ends at any point and is started again: it discovers what there
\* is and loads what is enabled.
Start ==
    /\ spent.ops < MaxOps
    /\ \E map \in {prefs, EmptyMap} :
          /\ Reads(map, 1)
          /\ records' = [e \in Ext |-> IF disk[e] = {} THEN None ELSE NewRecord(e, map)]
    /\ entries' = CoreTable /\ alias' = CoreAlias /\ hooks' = {} /\ gen' = 0
    /\ amiss' = [moved |-> {}, crossed |-> FALSE, taken |-> FALSE]
    /\ job' = [Running("boot", None, "boot") EXCEPT !.boot =
                  {e \in Ext : records'[e] # None}]
    /\ UNCHANGED world

Enabled(e) == records[e] # None /\ records[e].enabled

Boot ==
    /\ At("boot")
    /\ \/ job.boot = {} /\ job' = Idle
       \/ \E e \in job.boot :
             job' = [job EXCEPT !.ext = e, !.boot = @ \ {e},
                                !.at = IF Enabled(e) THEN "load" ELSE @]
    /\ UNCHANGED <<table, manager, world, amiss, spent>>

\* A loaded extension registers a command while it runs, under its name or, if
\* it does not give one, under none.
RegisterLater(e) ==
    /\ job = Idle /\ spent.late < MaxLate
    /\ records[e] # None /\ records[e].status = "loaded"
    /\ \E n \in Name, by \in {e, "plain"} :
          LET s == [do |-> "command", name |-> n, aliases |-> {},
                    override |-> FALSE, force |-> FALSE]
          IN  Accepts(s) /\ Register(s, by, gen)
    /\ spent' = [spent EXCEPT !.late = @ + 1]
    /\ UNCHANGED <<hooks, manager, world, job, amiss>>

\* The person edits a source, or removes the one in their directory.
ChangeDisk(e) ==
    /\ job = Idle /\ spent.disk < MaxDisk
    /\ spent' = [spent EXCEPT !.disk = @ + 1]
    /\ \/ /\ disk[e] # {} /\ UNCHANGED disk
          /\ \E s \in Scripts \ {script[e]} : script' = [script EXCEPT ![e] = s]
       \/ /\ "user" \in disk[e] /\ UNCHANGED script
          /\ disk' = [disk EXCEPT ![e] = @ \ {"user"}]
    /\ UNCHANGED <<table, manager, prefs, asked, job, amiss>>

\* Another process changes a preference.
PreferElsewhere(e) ==
    /\ spent.other < MaxOther
    /\ spent' = [spent EXCEPT !.other = @ + 1]
    /\ \E v \in BOOLEAN :
          prefs[e] # v /\ prefs' = [prefs EXCEPT ![e] = v] /\ Asks(e, v)
    /\ UNCHANGED <<table, manager, disk, script, job, amiss>>

-----------------------------------------------------------------------------
Next ==
    \/ \E e \in Ext :
          \/ \E op \in {"enable", "disable", "reload", "unload"} : Begin(op, e)
          \/ BeginLoad(e) \/ Add(e) \/ RegisterLater(e) \/ ChangeDisk(e) \/ PreferElsewhere(e)
    \/ ReadMap \/ WriteMap \/ WriteFails \/ TearDown
    \/ Load \/ Execute \/ Loaded \/ LoadFails
    \/ Start \/ Boot

Spec == Init /\ [][Next]_vars

-----------------------------------------------------------------------------
(* Properties.                                                             *)

TypeOK ==
    /\ entries \in [Name -> CommandEntry \cup {None}]
    /\ alias \in [Name -> Name \cup {None}]
    /\ hooks \subseteq Ext \X Nat
    /\ prefs \in Preferences /\ asked \in Preferences
    /\ disk \in [Ext -> SUBSET Places] /\ script \in [Ext -> Scripts]
    /\ records \in [Ext -> ExtensionRecord \cup {None}] /\ gen \in Nat
    /\ job \in Job \cup {Idle}
    /\ amiss \in [moved : SUBSET Ext, crossed : BOOLEAN, taken : BOOLEAN]
    /\ spent \in [ops : Nat, disk : Nat, misread : Nat, failed : Nat, other : Nat,
                  late : Nat]

JobOn(e) == job # Idle /\ job.ext = e
IsLoaded(e) == records[e] # None /\ records[e].status = "loaded"
Straight(e) == e \notin amiss.moved /\ ~ amiss.crossed

\* Whatever is registered, replaced, restored or rolled back, a word means one
\* command at most (commands/registry.py, register and unregister).
WordsAreUnambiguous ==
    /\ \A n \in Name : alias[n] # None =>
          /\ entries[n] = None /\ entries[alias[n]] # None
          /\ n \in entries[alias[n]].aliases
    /\ \A k \in Name : entries[k] # None =>
          /\ entries[k].name = k
          /\ \A n \in entries[k].aliases : alias[n] = k

\* What an extension registered is there while it is loaded and gone when it is
\* not, also after a script that failed half-way; and without extensions the
\* core is what it was.  The bookkeeping fails in three cases: one extension
\* replaced a command of another, the source of a loaded one was found in another
\* place, or a word of a replaced command was taken while it was away
\* (extensions/manager.py, _capture_command_delta and _remove_owned_commands).
TeardownIsComplete ==
    /\ \A e \in Ext : Straight(e) /\ ~ JobOn(e) =>
          /\ (\E h \in hooks : h[1] = e) => IsLoaded(e)
          /\ \A k \in Name :
                entries[k] # None /\ entries[k].by = e => IsLoaded(e)
          /\ IsLoaded(e) =>
                \A k \in records[e].names : entries[k] # None /\ entries[k].by = e
    /\ ~ amiss.taken /\ job = Idle /\ (\A e \in Ext : Straight(e) /\ ~ IsLoaded(e)) =>
          \A k \in Core : entries[k] = CoreEntry(k)

\* The map of preferences is rewritten for every change of one of them, and yet
\* each is what was last asked for, unless a read of the map failed, which is
\* taken for an empty one, or another process wrote it; and a start runs an
\* extension of the user's only if that was asked for (extensions/manager.py,
\* _enabled_map, _set_enabled, load_enabled).
PreferencesAreKept ==
    /\ spent.misread = 0 /\ spent.other = 0 => prefs = asked
    /\ spent.other = 0 /\ At("exec") /\ job.op = "boot" /\ job.ext \notin Bundled =>
          asked[job.ext] = TRUE

=============================================================================
