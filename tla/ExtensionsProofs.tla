-------------------------- MODULE ExtensionsProofs --------------------------
(* What is proved of Extensions, for any extensions, scripts, words and      *)
(* numbers of operations, faults and changes.                                *)
EXTENDS Extensions, TLAPS

USE DEF table, manager, world

Ops == {"load", "enable", "disable", "reload", "unload", "add", "boot"}

\* An operation that changes the record of its extension finds one.
JobInv ==
    job # Idle =>
        /\ job.at # "boot" => job.ext \in Ext
        /\ job.at \in {"teardown", "exec"}
           \/ (job.at \in {"read", "write"} /\ job.op # "add")
              => records[job.ext] # None
        /\ job.at \in {"read", "write"} => job.op \in {"enable", "disable", "add"}

TypeInv == TypeOK /\ JobInv

-----------------------------------------------------------------------------
(* Types of the helpers.                                                     *)

LEMMA EmptyMapType == EmptyMap \in Preferences
BY DEF EmptyMap, Preferences

LEMMA CoreTableType ==
    /\ CoreTable \in [Name -> CommandEntry \cup {None}]
    /\ CoreAlias \in [Name -> Name \cup {None}]
<1>1. \A k \in Core : CoreEntry(k) \in CommandEntry
  BY ExtensionsAssumption DEF CoreEntry, Entry, CommandEntry
<1>2. CoreTable \in [Name -> CommandEntry \cup {None}]
  BY <1>1 DEF CoreTable
<1>3. ASSUME NEW n \in Name, \E k \in Core : n \in CoreAliases[k]
      PROVE  (CHOOSE k \in Core : n \in CoreAliases[k]) \in Name
  BY <1>3, ExtensionsAssumption
<1>4. CoreAlias \in [Name -> Name \cup {None}]
  BY <1>3 DEF CoreAlias
<1>. QED BY <1>2, <1>4

LEMMA PrefersType ==
    ASSUME NEW map \in Preferences, NEW e \in Ext
    PROVE  Prefers(map, e) \in BOOLEAN
<1>1. Default(e) \in BOOLEAN BY DEF Default
<1>2. map[e] \in BOOLEAN \cup {None} BY DEF Preferences
<1>. QED BY <1>1, <1>2, Zenon DEF Prefers

LEMMA NewRecordType ==
    ASSUME NEW map \in Preferences, NEW e \in Ext
    PROVE  NewRecord(e, map) \in ExtensionRecord
<1>1. Prefers(map, e) \in BOOLEAN BY PrefersType
<1>2. First(disk[e]) \in Places BY DEF First, Places
<1>3. Waiting(Prefers(map, e)) \in {"enabled", "disabled"} BY DEF Waiting
<1>. QED BY <1>1, <1>2, <1>3 DEF NewRecord, ExtensionRecord

LEMMA FoundType ==
    ASSUME TypeOK, NEW map \in Preferences, NEW e \in Ext
    PROVE  Found(e, map) \in ExtensionRecord \cup {None}
<1>1. Prefers(map, e) \in BOOLEAN BY PrefersType
<1>2. First(disk[e]) \in Places BY DEF First, Places
<1>3. Waiting(Prefers(map, e)) \in {"enabled", "disabled"} BY DEF Waiting
<1>4. NewRecord(e, map) \in ExtensionRecord BY NewRecordType
<1>5. records[e] \in ExtensionRecord \cup {None} BY DEF TypeOK
<1>. DEFINE r == records[e]
<1>6. CASE r = None BY <1>4, <1>6 DEF Found
<1>7. CASE r # None
  <2>1. r \in ExtensionRecord BY <1>5, <1>7
  <2>2. [r EXCEPT !.place = First(disk[e]), !.enabled = Prefers(map, e),
                  !.status = IF @ = "loaded" THEN @ ELSE "error"] \in ExtensionRecord
    BY <1>1, <1>2, <2>1 DEF ExtensionRecord
  <2>3. [r EXCEPT !.enabled = Prefers(map, e),
                  !.status = IF @ \in {"loaded", "error"} THEN @
                             ELSE Waiting(Prefers(map, e))] \in ExtensionRecord
    BY <1>1, <1>3, <2>1 DEF ExtensionRecord
  <2>. QED BY <1>4, <1>5, <1>7, <2>2, <2>3 DEF Found
<1>. QED BY <1>6, <1>7

LEMMA ClearedType ==
    ASSUME NEW r \in ExtensionRecord,
           NEW s \in {"enabled", "disabled", "loaded", "error"}
    PROVE  /\ Cleared(r, s) \in ExtensionRecord
           /\ Cleared(r, s).replaced = {} /\ Cleared(r, s).ext = r.ext
BY DEF Cleared, ExtensionRecord

LEMMA ReadsType ==
    ASSUME TypeOK, NEW map \in {prefs, EmptyMap}, NEW n \in Nat, Reads(map, n)
    PROVE  map \in Preferences /\ spent' \in
               [ops : Nat, disk : Nat, misread : Nat, failed : Nat, other : Nat,
                late : Nat]
<1>1. map \in Preferences BY EmptyMapType DEF TypeOK
<1>2. CASE spent' = [spent EXCEPT !.ops = @ + n] BY <1>1, <1>2 DEF TypeOK
<1>3. CASE spent' = [spent EXCEPT !.ops = @ + n, !.misread = @ + 1]
  <2>. DEFINE o == spent.ops + n
              m == spent.misread + 1
  <2>1. o \in Nat /\ m \in Nat BY DEF TypeOK
  <2>2. spent' = [spent EXCEPT !.ops = o, !.misread = m] BY <1>3 DEF TypeOK
  <2>. HIDE DEF o, m
  <2>. QED BY <1>1, <2>1, <2>2 DEF TypeOK
<1>. QED BY <1>2, <1>3 DEF Reads

LEMMA RunningType ==
    ASSUME NEW op \in Ops, NEW e \in Ext \cup {None},
           NEW step \in {"read", "write", "load", "exec", "teardown", "boot"}
    PROVE  /\ Running(op, e, step) \in Job
           /\ Running(op, e, step).op = op /\ Running(op, e, step).ext = e
           /\ Running(op, e, step).at = step
           /\ Running(op, e, step).before = CoreTable
BY EmptyMapType, CoreTableType DEF Running, Job, Ops

\* What Replaced returns, whatever is taken away and put in.
LEMMA ReplacedType ==
    ASSUME TypeOK, NEW ks, NEW add \in SUBSET CommandEntry, Replaced(ks, add)
    PROVE  /\ entries' \in [Name -> CommandEntry \cup {None}]
           /\ alias' \in [Name -> Name \cup {None}]
<1>1. ASSUME NEW k \in Name, \E x \in add : x.name = k
      PROVE  (CHOOSE x \in add : x.name = k) \in CommandEntry
  BY <1>1
<1>2. ASSUME NEW n \in Name, \E x \in add : n \in x.aliases
      PROVE  (CHOOSE x \in add : n \in x.aliases).name \in Name
  <2>1. (CHOOSE x \in add : n \in x.aliases) \in CommandEntry BY <1>2
  <2>. QED BY <2>1 DEF CommandEntry
<1>3. entries' \in [Name -> CommandEntry \cup {None}]
  BY <1>1 DEF TypeOK, Replaced
<1>4. alias' \in [Name -> Name \cup {None}]
  BY <1>2 DEF TypeOK, Replaced
<1>. QED BY <1>3, <1>4

LEMMA TeardownType ==
    ASSUME TypeOK, NEW r \in ExtensionRecord, NEW moved \in SUBSET Ext,
           Teardown(r, moved)
    PROVE  /\ entries' \in [Name -> CommandEntry \cup {None}]
           /\ alias' \in [Name -> Name \cup {None}]
           /\ hooks' \subseteq Ext \X Nat
           /\ amiss' \in [moved : SUBSET Ext, crossed : BOOLEAN, taken : BOOLEAN]
<1>1. Returning(r, Owned(r)) \in SUBSET CommandEntry
  BY DEF Returning, ExtensionRecord
<1>2. /\ entries' \in [Name -> CommandEntry \cup {None}]
      /\ alias' \in [Name -> Name \cup {None}]
  BY <1>1, ReplacedType DEF Teardown
<1>3. hooks' \subseteq Ext \X Nat BY DEF Teardown, TypeOK
<1>4. amiss' \in [moved : SUBSET Ext, crossed : BOOLEAN, taken : BOOLEAN]
  <2>. DEFINE new == amiss.taken \/ Returning(r, Owned(r)) # r.replaced
  <2>1. new \in BOOLEAN BY Zenon
  <2>2. amiss' = [amiss EXCEPT !.moved = @ \cup moved, !.taken = new]
    BY DEF Teardown
  <2>. HIDE DEF new
  <2>. QED BY <2>1, <2>2 DEF TypeOK
<1>. QED BY <1>2, <1>3, <1>4

-----------------------------------------------------------------------------
(* Every step keeps the types, and an operation keeps its record.            *)

LEMMA DiscoverType ==
    ASSUME TypeOK, NEW map \in Preferences, Discover(map)
    PROVE  /\ records' \in [Ext -> ExtensionRecord \cup {None}]
           /\ amiss' \in [moved : SUBSET Ext, crossed : BOOLEAN, taken : BOOLEAN]
<1>1. records' \in [Ext -> ExtensionRecord \cup {None}]
  BY FoundType DEF Discover, Discovered
<1>2. LosesLoaded(map) \subseteq Ext BY DEF LosesLoaded
<1>. QED BY <1>1, <1>2 DEF Discover, TypeOK

LEMMA InitTypes == Init => TypeInv
<1>. SUFFICES ASSUME Init PROVE TypeInv OBVIOUS
<1>1. entries \in [Name -> CommandEntry \cup {None}] /\ alias \in [Name -> Name \cup {None}]
  BY CoreTableType DEF Init
<1>2. prefs \in Preferences /\ asked \in Preferences BY DEF Init, Preferences
<1>3. disk \in [Ext -> SUBSET Places] BY DEF Init, Places
<1>4. job = Idle /\ gen = 0 /\ hooks = {} /\ script \in [Ext -> Scripts]
      /\ records \in [Ext -> ExtensionRecord \cup {None}]
  BY DEF Init
<1>5. amiss \in [moved : SUBSET Ext, crossed : BOOLEAN, taken : BOOLEAN] BY DEF Init
<1>6. spent \in [ops : Nat, disk : Nat, misread : Nat, failed : Nat, other : Nat,
                 late : Nat]
  BY DEF Init
<1>. QED BY <1>1, <1>2, <1>3, <1>4, <1>5, <1>6 DEF TypeInv, TypeOK, JobInv

LEMMA BeginTypes ==
    ASSUME TypeInv, NEW e \in Ext, NEW op \in {"enable", "disable", "reload", "unload"},
           Begin(op, e)
    PROVE  TypeInv'
<1>. USE DEF TypeInv
<1>1. PICK map \in {prefs, EmptyMap} : Reads(map, 1) /\ Discover(map) BY DEF Begin
<1>2. map \in Preferences /\ spent' \in
          [ops : Nat, disk : Nat, misread : Nat, failed : Nat, other : Nat, late : Nat]
  BY <1>1, ReadsType
<1>3. /\ records' \in [Ext -> ExtensionRecord \cup {None}]
      /\ amiss' \in [moved : SUBSET Ext, crossed : BOOLEAN, taken : BOOLEAN]
  BY <1>1, <1>2, DiscoverType
<1>. DEFINE step == IF op \in {"enable", "disable"} THEN "read" ELSE "teardown"
<1>4. /\ Running(op, e, step) \in Job
      /\ Running(op, e, step).op = op /\ Running(op, e, step).ext = e
      /\ Running(op, e, step).at = step
  BY RunningType DEF Ops
<1>5. job' = IF records'[e] = None THEN Idle ELSE Running(op, e, step)
  BY DEF Begin
<1>6. JobInv' BY <1>4, <1>5 DEF JobInv
<1>. QED BY <1>2, <1>3, <1>4, <1>5, <1>6 DEF Begin, TypeOK

LEMMA BeginLoadTypes ==
    ASSUME TypeInv, NEW e \in Ext, BeginLoad(e)
    PROVE  TypeInv'
<1>1. /\ Running("load", e, "load") \in Job
      /\ Running("load", e, "load").ext = e /\ Running("load", e, "load").at = "load"
  BY RunningType DEF Ops
<1>2. JobInv' BY <1>1 DEF BeginLoad, JobInv
<1>. QED BY <1>1, <1>2 DEF BeginLoad, TypeInv, TypeOK

LEMMA AddTypes ==
    ASSUME TypeInv, NEW e \in Ext, Add(e)
    PROVE  TypeInv'
<1>1. /\ Running("add", e, "read") \in Job
      /\ Running("add", e, "read").ext = e /\ Running("add", e, "read").at = "read"
      /\ Running("add", e, "read").op = "add"
  BY RunningType DEF Ops
<1>2. JobInv' BY <1>1 DEF Add, JobInv
<1>3. disk' \in [Ext -> SUBSET Places] BY DEF Add, TypeInv, TypeOK, Places
<1>4. script' \in [Ext -> Scripts] BY DEF Add, TypeInv, TypeOK
<1>. QED BY <1>1, <1>2, <1>3, <1>4 DEF Add, TypeInv, TypeOK

LEMMA ReadMapTypes ==
    ASSUME TypeInv, ReadMap
    PROVE  TypeInv'
<1>. USE DEF TypeInv
<1>1. PICK map \in {prefs, EmptyMap} :
        Reads(map, 0) /\ job' = [job EXCEPT !.map = map, !.at = "write"]
  BY DEF ReadMap
<1>2. map \in Preferences /\ spent' \in
          [ops : Nat, disk : Nat, misread : Nat, failed : Nat, other : Nat, late : Nat]
  BY <1>1, ReadsType
<1>3. job \in Job /\ job # Idle /\ job.at = "read" BY DEF ReadMap, At, TypeOK
<1>4. job' \in Job /\ job'.at = "write" /\ job'.ext = job.ext /\ job'.op = job.op
  BY <1>1, <1>2, <1>3 DEF Job
<1>5. JobInv' BY <1>3, <1>4 DEF JobInv, ReadMap
<1>. QED BY <1>2, <1>4, <1>5 DEF ReadMap, TypeOK

LEMMA WriteMapTypes ==
    ASSUME TypeInv, WriteMap
    PROVE  TypeInv'
<1>. USE DEF TypeInv
<1>. DEFINE e == job.ext
<1>1. /\ job \in Job /\ job # Idle /\ job.at = "write" /\ e \in Ext
      /\ job.op \in {"enable", "disable", "add"}
      /\ job.op # "add" => records[e] # None
  BY DEF WriteMap, At, TypeOK, JobInv
<1>2. job.map \in Preferences BY <1>1 DEF Job
<1>3. Wanted \in BOOLEAN BY DEF Wanted
<1>4. prefs' \in Preferences /\ asked' \in Preferences
  <2>. DEFINE w == Wanted
  <2>1. prefs' = [job.map EXCEPT ![e] = w] /\ asked' = [asked EXCEPT ![e] = w]
    BY DEF WriteMap, Asks
  <2>2. w \in BOOLEAN BY <1>3
  <2>. HIDE DEF w
  <2>. QED BY <1>2, <2>1, <2>2 DEF Preferences, TypeOK
<1>5. ASSUME job.op # "add", records[e] # None, NEW v \in BOOLEAN,
             NEW step \in {"load", "teardown"}, Goto(step),
             \/ records' = [records EXCEPT ![e].enabled = v]
             \/ records' = [records EXCEPT ![e].enabled = v,
                              ![e].status = IF @ = "loaded" THEN @ ELSE "enabled"]
      PROVE  /\ job' \in Job /\ JobInv'
             /\ records' \in [Ext -> ExtensionRecord \cup {None}]
  <2>1. records[e] \in ExtensionRecord BY <1>1, <1>5 DEF TypeOK
  <2>. DEFINE x == [records[e] EXCEPT !.enabled = v]
              y == [records[e] EXCEPT !.enabled = v,
                             !.status = IF @ = "loaded" THEN @ ELSE "enabled"]
  <2>2. x \in ExtensionRecord /\ y \in ExtensionRecord
    BY <2>1 DEF ExtensionRecord
  <2>3. records' = [records EXCEPT ![e] = x] \/ records' = [records EXCEPT ![e] = y]
    BY <1>5, <1>1, <2>1 DEF TypeOK, ExtensionRecord
  <2>. HIDE DEF x, y
  <2>4. /\ records' \in [Ext -> ExtensionRecord \cup {None}]
        /\ records'[e] \in ExtensionRecord
    BY <1>1, <2>2, <2>3 DEF TypeOK
  <2>5. job' \in Job /\ job'.at = step /\ job'.ext = e /\ job'.op = job.op
    BY <1>1, <1>5 DEF Goto, Job
  <2>6. records'[e] # None BY <2>4, ExtensionsAssumption
  <2>. QED BY <1>1, <2>4, <2>5, <2>6 DEF JobInv
<1>6. CASE job.op = "enable"
  BY <1>1, <1>4, <1>5, <1>6 DEF WriteMap, Written, TypeOK
<1>7. CASE job.op = "disable"
  BY <1>1, <1>4, <1>5, <1>7 DEF WriteMap, Written, TypeOK
<1>8. CASE job.op = "add"
  <2>1. job' = Idle /\ Discover(prefs') BY <1>8 DEF WriteMap, Written
  <2>2. /\ records' \in [Ext -> ExtensionRecord \cup {None}]
        /\ amiss' \in [moved : SUBSET Ext, crossed : BOOLEAN, taken : BOOLEAN]
    <3>. DEFINE p == prefs'
    <3>1. p \in Preferences /\ Discover(p) BY <1>4, <2>1
    <3>. HIDE DEF p
    <3>. QED BY <3>1, DiscoverType
  <2>3. JobInv' BY <2>1 DEF JobInv
  <2>. QED BY <1>4, <2>1, <2>2, <2>3 DEF WriteMap, TypeOK
<1>. QED BY <1>1, <1>6, <1>7, <1>8

LEMMA WriteFailsTypes ==
    ASSUME TypeInv, WriteFails
    PROVE  TypeInv'
<1>1. JobInv' BY DEF WriteFails, JobInv
<1>. QED BY <1>1 DEF WriteFails, TypeInv, TypeOK

LEMMA TearDownTypes ==
    ASSUME TypeInv, TearDown
    PROVE  TypeInv'
<1>. USE DEF TypeInv
<1>. DEFINE r == records[job.ext]
            s == IF job.op = "disable" THEN "disabled" ELSE Waiting(r.enabled)
<1>1. job \in Job /\ job # Idle /\ job.at = "teardown" /\ job.ext \in Ext /\ r # None
  BY DEF TearDown, At, TypeOK, JobInv
<1>2. r \in ExtensionRecord BY <1>1 DEF TypeOK
<1>3. s \in {"enabled", "disabled", "loaded", "error"} BY DEF Waiting
<1>4. Cleared(r, s) \in ExtensionRecord BY <1>2, <1>3, ClearedType
<1>5. /\ entries' \in [Name -> CommandEntry \cup {None}]
      /\ alias' \in [Name -> Name \cup {None}]
      /\ hooks' \subseteq Ext \X Nat
      /\ amiss' \in [moved : SUBSET Ext, crossed : BOOLEAN, taken : BOOLEAN]
  BY <1>2, TeardownType DEF TearDown
<1>6. records' = [records EXCEPT ![job.ext] = Cleared(r, s)] BY DEF TearDown
<1>7. records' \in [Ext -> ExtensionRecord \cup {None}] BY <1>4, <1>6 DEF TypeOK
<1>8. job' \in Job \cup {Idle} /\ JobInv'
  <2>1. CASE Goto("load") BY <1>1, <2>1 DEF Goto, Job, JobInv
  <2>2. CASE job' = Idle BY <2>2 DEF JobInv
  <2>. QED BY <2>1, <2>2 DEF TearDown
<1>. QED BY <1>5, <1>7, <1>8 DEF TearDown, TypeOK

LEMMA AfterTypes ==
    ASSUME TypeInv, job \in Job, After
    PROVE  job' \in Job \cup {Idle} /\ JobInv'
<1>1. CASE Goto("boot")
  <2>1. job' \in Job /\ job'.at = "boot" BY <1>1 DEF Goto, Job
  <2>. QED BY <2>1 DEF JobInv
<1>2. CASE job' = Idle BY <1>2 DEF JobInv
<1>. QED BY <1>1, <1>2 DEF After

LEMMA LoadTypes ==
    ASSUME TypeInv, Load
    PROVE  TypeInv'
<1>. USE DEF TypeInv
<1>. DEFINE e == job.ext
<1>1. job \in Job /\ job # Idle /\ job.at = "load" /\ e \in Ext
  BY DEF Load, At, TypeOK, JobInv
<1>2. PICK map \in {prefs, EmptyMap} :
        /\ Reads(map, 0)
        /\ IF Found(e, map) = None \/ Found(e, map).status = "loaded"
           THEN Discover(map) /\ After /\ UNCHANGED <<table, gen>>
           ELSE /\ Teardown(Found(e, map), LosesLoaded(map))
                /\ records' = [Discovered(map) EXCEPT
                                  ![e] = Cleared(Found(e, map), Found(e, map).status)]
                /\ gen' = gen + 1
                /\ job' = [job EXCEPT !.before = entries', !.left = script[e],
                                      !.at = "exec"]
  BY DEF Load
<1>3. map \in Preferences /\ spent' \in
          [ops : Nat, disk : Nat, misread : Nat, failed : Nat, other : Nat, late : Nat]
  BY <1>2, ReadsType
<1>. DEFINE r == Found(e, map)
<1>4. CASE r = None \/ r.status = "loaded"
  <2>1. Discover(map) /\ After /\ UNCHANGED <<table, gen>> BY <1>2, <1>4
  <2>2. /\ records' \in [Ext -> ExtensionRecord \cup {None}]
        /\ amiss' \in [moved : SUBSET Ext, crossed : BOOLEAN, taken : BOOLEAN]
    BY <1>3, <2>1, DiscoverType
  <2>3. job' \in Job \cup {Idle} /\ JobInv' BY <1>1, <2>1, AfterTypes
  <2>. QED BY <1>3, <2>1, <2>2, <2>3 DEF Load, TypeOK
<1>5. CASE ~ (r = None \/ r.status = "loaded")
  <2>1. /\ Teardown(r, LosesLoaded(map))
        /\ records' = [Discovered(map) EXCEPT ![e] = Cleared(r, r.status)]
        /\ gen' = gen + 1
        /\ job' = [job EXCEPT !.before = entries', !.left = script[e], !.at = "exec"]
    BY <1>2, <1>5
  <2>2. r \in ExtensionRecord BY <1>1, <1>3, <1>5, FoundType
  <2>3. /\ entries' \in [Name -> CommandEntry \cup {None}]
        /\ alias' \in [Name -> Name \cup {None}]
        /\ hooks' \subseteq Ext \X Nat
        /\ amiss' \in [moved : SUBSET Ext, crossed : BOOLEAN, taken : BOOLEAN]
    BY <2>1, <2>2, TeardownType DEF LosesLoaded
  <2>4. r.status \in {"enabled", "disabled", "loaded", "error"}
    BY <2>2 DEF ExtensionRecord
  <2>5. Cleared(r, r.status) \in ExtensionRecord BY <2>2, <2>4, ClearedType
  <2>6. Discovered(map) \in [Ext -> ExtensionRecord \cup {None}]
    BY <1>3, FoundType DEF Discovered
  <2>7. /\ records' \in [Ext -> ExtensionRecord \cup {None}]
        /\ records'[e] = Cleared(r, r.status)
    BY <1>1, <2>1, <2>5, <2>6
  <2>8. script[e] \in Seq(Statement) BY <1>1, ExtensionsAssumption DEF TypeOK
  <2>9. job' \in Job /\ job'.at = "exec" /\ job'.ext = e
    BY <1>1, <2>1, <2>3, <2>8 DEF Job
  <2>10. JobInv'
    <3>1. records'[e] # None BY <2>5, <2>7, ExtensionsAssumption
    <3>. QED BY <1>1, <2>9, <3>1 DEF JobInv
  <2>. QED BY <1>3, <2>1, <2>3, <2>7, <2>9, <2>10 DEF Load, TypeOK
<1>. QED BY <1>4, <1>5

\* A registration leaves a typed table.
LEMMA RegisterType ==
    ASSUME TypeOK, NEW s, s.name \in Name, s.aliases \in SUBSET Name,
           NEW by \in Ext \cup {"core", "plain"}, NEW g \in Nat, Register(s, by, g)
    PROVE  /\ entries' \in [Name -> CommandEntry \cup {None}]
           /\ alias' \in [Name -> Name \cup {None}]
<1>1. Entry(s.name, by, g, s.aliases, FALSE) \in CommandEntry
  BY DEF Entry, CommandEntry
<1>. DEFINE x == Entry(s.name, by, g, s.aliases, FALSE)
            k == Resolve(s.name)
<1>2. {x} \in SUBSET CommandEntry BY <1>1
<1>3. Replaced({k}, {x}) BY DEF Register
<1>. HIDE DEF x, k
<1>. QED BY <1>2, <1>3, ReplacedType

LEMMA HeadTypes ==
    ASSUME TypeInv, At("exec"), job.left # <<>>
    PROVE  /\ job \in Job /\ job.ext \in Ext /\ records[job.ext] # None
           /\ Head(job.left) \in Statement /\ Tail(job.left) \in Seq(Statement)
<1>1. job \in Job /\ job.ext \in Ext /\ records[job.ext] # None
  BY DEF At, TypeInv, TypeOK, JobInv
<1>2. job.left \in Seq(Statement) BY <1>1 DEF Job
<1>. QED BY <1>1, <1>2

LEMMA ExecuteTypes ==
    ASSUME TypeInv, Execute
    PROVE  TypeInv'
<1>. USE DEF TypeInv
<1>. DEFINE s == Head(job.left)
<1>1. /\ job \in Job /\ job.ext \in Ext /\ records[job.ext] # None
      /\ s \in Statement /\ Tail(job.left) \in Seq(Statement)
      /\ job.at = "exec"
  BY HeadTypes DEF Execute, At
<1>2. job' = [job EXCEPT !.left = Tail(@)] BY DEF Execute
<1>3. job' \in Job /\ job'.at = "exec" /\ job'.ext = job.ext BY <1>1, <1>2 DEF Job
<1>4. records' = records BY DEF Execute
<1>5. JobInv' BY <1>1, <1>3, <1>4 DEF JobInv
<1>6. /\ entries' \in [Name -> CommandEntry \cup {None}]
      /\ alias' \in [Name -> Name \cup {None}]
      /\ hooks' \subseteq Ext \X Nat
      /\ amiss' \in [moved : SUBSET Ext, crossed : BOOLEAN, taken : BOOLEAN]
  <2>1. CASE s.do = "command"
    <3>1. s.name \in Name /\ s.aliases \in SUBSET Name BY <1>1, <2>1 DEF Statement
    <3>2. Register(s, job.ext, gen) /\ UNCHANGED hooks BY <2>1 DEF Execute
    <3>3. amiss' = [amiss EXCEPT !.crossed = amiss'.crossed] /\ amiss'.crossed \in BOOLEAN
      <4>. DEFINE old == Resolve(s.name)
                  c == amiss.crossed \/ (old # None /\ entries[old].by \in Ext \ {job.ext})
      <4>1. c \in BOOLEAN BY Zenon
      <4>2. amiss' = [amiss EXCEPT !.crossed = c] BY <2>1 DEF Execute
      <4>. HIDE DEF c
      <4>. QED BY <4>1, <4>2 DEF TypeOK
    <3>4. amiss' \in [moved : SUBSET Ext, crossed : BOOLEAN, taken : BOOLEAN]
      BY <3>3 DEF TypeOK
    <3>. QED BY <1>1, <3>1, <3>2, <3>4, RegisterType DEF TypeOK
  <2>2. CASE s.do # "command"
    <3>1. hooks' = hooks \cup {<<job.ext, gen>>} /\ UNCHANGED <<entries, alias, amiss>>
      BY <2>2 DEF Execute
    <3>. QED BY <1>1, <3>1 DEF TypeOK
  <2>. QED BY <2>1, <2>2
<1>. QED BY <1>3, <1>5, <1>6 DEF Execute, TypeOK

LEMMA DeltaType ==
    ASSUME NEW before \in [Name -> CommandEntry \cup {None}]
    PROVE  /\ Changed(before) \in SUBSET Name
           /\ Displaced(before) \in SUBSET CommandEntry
BY DEF Changed, Displaced

LEMMA LoadedTypes ==
    ASSUME TypeInv, Loaded
    PROVE  TypeInv'
<1>. USE DEF TypeInv
<1>. DEFINE e == job.ext
            c == Changed(job.before)
            d == Displaced(job.before)
<1>1. job \in Job /\ e \in Ext /\ records[e] # None
  BY DEF Loaded, At, TypeOK, JobInv
<1>2. c \in SUBSET Name /\ d \in SUBSET CommandEntry
  BY <1>1, DeltaType DEF Job
<1>3. records[e] \in ExtensionRecord BY <1>1 DEF TypeOK
<1>4. records' = [records EXCEPT ![e].status = "loaded", ![e].names = c,
                                 ![e].replaced = d]
  BY DEF Loaded
<1>. HIDE DEF c, d
<1>5. records' = [records EXCEPT ![e] =
          [records[e] EXCEPT !.status = "loaded", !.names = c, !.replaced = d]]
  BY <1>1, <1>3, <1>4 DEF TypeOK, ExtensionRecord
<1>6. [records[e] EXCEPT !.status = "loaded", !.names = c, !.replaced = d]
          \in ExtensionRecord
  BY <1>2, <1>3 DEF ExtensionRecord
<1>7. records' \in [Ext -> ExtensionRecord \cup {None}] BY <1>5, <1>6 DEF TypeOK
<1>8. job' \in Job \cup {Idle} /\ JobInv' BY <1>1, AfterTypes DEF Loaded
<1>. QED BY <1>7, <1>8 DEF Loaded, TypeOK

LEMMA LoadFailsTypes ==
    ASSUME TypeInv, LoadFails
    PROVE  TypeInv'
<1>. USE DEF TypeInv
<1>. DEFINE e == job.ext
            c == Changed(job.before)
            d == Displaced(job.before)
            r == [records[e] EXCEPT !.names = c, !.replaced = d]
<1>1. job \in Job /\ e \in Ext /\ records[e] # None
  BY DEF LoadFails, At, TypeOK, JobInv
<1>2. c \in SUBSET Name /\ d \in SUBSET CommandEntry
  BY <1>1, DeltaType DEF Job
<1>3. records[e] \in ExtensionRecord BY <1>1 DEF TypeOK
<1>4. r \in ExtensionRecord
  <2>. HIDE DEF c, d
  <2>. QED BY <1>2, <1>3 DEF ExtensionRecord
<1>5. Teardown(r, {}) /\ records' = [records EXCEPT ![e] = Cleared(r, "error")] /\ After
  BY DEF LoadFails
<1>. HIDE DEF r
<1>6. /\ entries' \in [Name -> CommandEntry \cup {None}]
      /\ alias' \in [Name -> Name \cup {None}]
      /\ hooks' \subseteq Ext \X Nat
      /\ amiss' \in [moved : SUBSET Ext, crossed : BOOLEAN, taken : BOOLEAN]
  BY <1>4, <1>5, TeardownType
<1>7. Cleared(r, "error") \in ExtensionRecord BY <1>4, ClearedType
<1>8. records' \in [Ext -> ExtensionRecord \cup {None}] BY <1>5, <1>7 DEF TypeOK
<1>9. job' \in Job \cup {Idle} /\ JobInv' BY <1>1, <1>5, AfterTypes
<1>. QED BY <1>6, <1>8, <1>9 DEF LoadFails, TypeOK

LEMMA StartTypes ==
    ASSUME TypeInv, Start
    PROVE  TypeInv'
<1>. USE DEF TypeInv
<1>1. PICK map \in {prefs, EmptyMap} :
        /\ Reads(map, 1)
        /\ records' = [e \in Ext |-> IF disk[e] = {} THEN None ELSE NewRecord(e, map)]
  BY DEF Start
<1>2. map \in Preferences /\ spent' \in
          [ops : Nat, disk : Nat, misread : Nat, failed : Nat, other : Nat, late : Nat]
  BY <1>1, ReadsType
<1>3. records' \in [Ext -> ExtensionRecord \cup {None}]
  BY <1>1, <1>2, NewRecordType
<1>. DEFINE b == {e \in Ext : records'[e] # None}
            run == Running("boot", None, "boot")
<1>4. run \in Job /\ run.at = "boot" BY RunningType DEF Ops
<1>5. job' = [run EXCEPT !.boot = b] BY DEF Start
<1>6. b \in SUBSET Ext OBVIOUS
<1>. HIDE DEF b, run
<1>7. job' \in Job /\ job'.at = "boot" BY <1>4, <1>5, <1>6 DEF Job
<1>8. JobInv' BY <1>7 DEF JobInv
<1>9. amiss' \in [moved : SUBSET Ext, crossed : BOOLEAN, taken : BOOLEAN]
  BY DEF Start
<1>. QED BY <1>2, <1>3, <1>7, <1>8, <1>9, CoreTableType DEF Start, TypeOK

LEMMA BootTypes ==
    ASSUME TypeInv, Boot
    PROVE  TypeInv'
<1>. USE DEF TypeInv
<1>1. job \in Job BY DEF Boot, At, TypeOK
<1>2. CASE job' = Idle BY <1>2 DEF Boot, TypeOK, JobInv
<1>3. ASSUME NEW e \in job.boot,
             job' = [job EXCEPT !.ext = e, !.boot = @ \ {e},
                                !.at = IF Enabled(e) THEN "load" ELSE @]
      PROVE  TypeInv'
  <2>. DEFINE b == job.boot \ {e}
              step == IF Enabled(e) THEN "load" ELSE job.at
  <2>1. e \in Ext /\ b \in SUBSET Ext BY <1>1 DEF Job
  <2>2. step \in {"load", "boot"} BY DEF Boot, At
  <2>3. job' = [job EXCEPT !.ext = e, !.boot = b, !.at = step] BY <1>1, <1>3 DEF Job
  <2>. HIDE DEF b, step
  <2>4. job' \in Job /\ job'.at = step /\ job'.ext = e BY <1>1, <2>1, <2>2, <2>3 DEF Job
  <2>5. JobInv' BY <2>1, <2>2, <2>4 DEF JobInv
  <2>. QED BY <2>4, <2>5 DEF Boot, TypeOK
<1>. QED BY <1>2, <1>3 DEF Boot

LEMMA LaterTypes ==
    ASSUME TypeInv, NEW e \in Ext, RegisterLater(e)
    PROVE  TypeInv'
<1>. USE DEF TypeInv
<1>1. PICK n \in Name, by \in {e, "plain"} :
        Register([do |-> "command", name |-> n, aliases |-> {}, override |-> FALSE,
                  force |-> FALSE], by, gen)
  BY DEF RegisterLater
<1>2. /\ entries' \in [Name -> CommandEntry \cup {None}]
      /\ alias' \in [Name -> Name \cup {None}]
  <2>. DEFINE s == [do |-> "command", name |-> n, aliases |-> {}, override |-> FALSE,
                    force |-> FALSE]
  <2>1. s.name \in Name /\ s.aliases \in SUBSET Name /\ Register(s, by, gen) BY <1>1
  <2>2. by \in Ext \cup {"core", "plain"} /\ gen \in Nat BY DEF TypeOK
  <2>. HIDE DEF s
  <2>. QED BY <2>1, <2>2, RegisterType
<1>3. JobInv' BY DEF RegisterLater, JobInv
<1>4. spent' \in
          [ops : Nat, disk : Nat, misread : Nat, failed : Nat, other : Nat, late : Nat]
  BY DEF RegisterLater, TypeOK
<1>. QED BY <1>2, <1>3, <1>4 DEF RegisterLater, TypeOK

LEMMA ChangeDiskTypes ==
    ASSUME TypeInv, NEW e \in Ext, ChangeDisk(e)
    PROVE  TypeInv'
<1>1. JobInv' BY DEF ChangeDisk, TypeInv, JobInv
<1>2. disk' \in [Ext -> SUBSET Places] BY DEF ChangeDisk, TypeInv, TypeOK
<1>3. script' \in [Ext -> Scripts] BY DEF ChangeDisk, TypeInv, TypeOK
<1>. QED BY <1>1, <1>2, <1>3 DEF ChangeDisk, TypeInv, TypeOK

LEMMA PreferElsewhereTypes ==
    ASSUME TypeInv, NEW e \in Ext, PreferElsewhere(e)
    PROVE  TypeInv'
<1>1. JobInv' BY DEF PreferElsewhere, TypeInv, JobInv
<1>2. prefs' \in Preferences /\ asked' \in Preferences
  BY DEF PreferElsewhere, Asks, TypeInv, TypeOK, Preferences
<1>. QED BY <1>1, <1>2 DEF PreferElsewhere, TypeInv, TypeOK

LEMMA TypesKept ==
    ASSUME TypeInv, [Next]_vars
    PROVE  TypeInv'
<1>1. CASE UNCHANGED vars BY <1>1 DEF vars, TypeInv, TypeOK, JobInv
<1>2. CASE Next
  BY <1>2, BeginTypes, BeginLoadTypes, AddTypes, LaterTypes, ChangeDiskTypes,
     PreferElsewhereTypes, ReadMapTypes, WriteMapTypes, WriteFailsTypes,
     TearDownTypes, LoadTypes, ExecuteTypes, LoadedTypes, LoadFailsTypes,
     StartTypes, BootTypes
     DEF Next
<1>. QED BY <1>1, <1>2

\* Every variable keeps its type, and every operation that changes a record
\* finds it (extensions/manager.py: no step of enable, disable, reload or unload
\* works on an extension the manager does not know).
THEOREM ExtensionsTypeCorrect == Spec => []TypeInv
BY InitTypes, TypesKept, PTL DEF Spec

-----------------------------------------------------------------------------
(* A word means one command.  What makes it inductive is that the commands   *)
(* an extension has displaced were in one table together, so that no two of  *)
(* them claim a word.                                                        *)

WordsOf(x) == {x.name} \cup x.aliases

Apart(S) ==
    \A x \in S : /\ x.name \notin x.aliases
                 /\ \A y \in S : x # y => WordsOf(x) \cap WordsOf(y) = {}

Commands(t) == {t[k] : k \in Name} \ {None}

Unambiguous(t, al) ==
    /\ \A n \in Name : al[n] # None =>
          /\ t[n] = None /\ t[al[n]] # None
          /\ n \in t[al[n]].aliases
    /\ \A k \in Name : t[k] # None =>
          /\ t[k].name = k
          /\ \A n \in t[k].aliases : al[n] = k

DisplacedApart == \A e \in Ext : records[e] # None => Apart(records[e].replaced)

WordInv ==
    /\ Unambiguous(entries, alias)
    /\ DisplacedApart
    /\ job # Idle => Apart(Commands(job.before))

LEMMA ApartSubset ==
    ASSUME NEW S, Apart(S), NEW R \in SUBSET S
    PROVE  Apart(R)
BY DEF Apart

\* The commands of one unambiguous table are apart.
LEMMA TableIsApart ==
    ASSUME NEW t \in [Name -> CommandEntry \cup {None}],
           NEW al \in [Name -> Name \cup {None}],
           Unambiguous(t, al)
    PROVE  Apart(Commands(t))
<1>. SUFFICES ASSUME NEW k \in Name, t[k] # None
              PROVE  /\ t[k].name \notin t[k].aliases
                     /\ \A l \in Name : t[l] # None /\ t[k] # t[l] =>
                           WordsOf(t[k]) \cap WordsOf(t[l]) = {}
  BY DEF Apart, Commands
<1>1. \A l \in Name : t[l] # None =>
        /\ t[l].name = l /\ t[l].aliases \subseteq Name
        /\ \A n \in t[l].aliases : al[n] = l /\ t[n] = None
  <2>. SUFFICES ASSUME NEW l \in Name, t[l] # None
                PROVE  /\ t[l].name = l /\ t[l].aliases \subseteq Name
                       /\ \A n \in t[l].aliases : al[n] = l /\ t[n] = None
    OBVIOUS
  <2>1. t[l] \in CommandEntry OBVIOUS
  <2>2. t[l].aliases \subseteq Name BY <2>1 DEF CommandEntry
  <2>3. l # None BY ExtensionsAssumption
  <2>. QED BY <2>2, <2>3 DEF Unambiguous
<1>2. t[k].name \notin t[k].aliases BY <1>1
<1>3. ASSUME NEW l \in Name, t[l] # None, t[k] # t[l],
             NEW n \in WordsOf(t[k]) \cap WordsOf(t[l])
      PROVE  FALSE
  <2>1. n = k \/ n \in t[k].aliases BY <1>1, <1>3 DEF WordsOf
  <2>2. n = l \/ n \in t[l].aliases BY <1>1, <1>3 DEF WordsOf
  <2>. QED BY <1>1, <1>3, <2>1, <2>2
<1>. QED BY <1>2, <1>3

LEMMA CoreIsUnambiguous == Unambiguous(CoreTable, CoreAlias)
<1>1. ASSUME NEW k \in Name, CoreTable[k] # None
      PROVE  /\ k \in Core /\ CoreTable[k] = CoreEntry(k)
             /\ CoreTable[k].name = k /\ CoreTable[k].aliases = CoreAliases[k]
  BY <1>1 DEF CoreTable, CoreEntry, Entry
<1>2. ASSUME NEW k \in Core
      PROVE  CoreTable[k] # None /\ CoreTable[k].aliases = CoreAliases[k]
  <2>1. CoreTable[k] = CoreEntry(k) BY ExtensionsAssumption DEF CoreTable
  <2>2. CoreEntry(k) \in CommandEntry
    BY ExtensionsAssumption DEF CoreEntry, Entry, CommandEntry
  <2>3. CoreEntry(k).aliases = CoreAliases[k] BY DEF CoreEntry, Entry
  <2>. QED BY <2>1, <2>2, <2>3, ExtensionsAssumption
<1>3. ASSUME NEW k \in Core, NEW n \in CoreAliases[k]
      PROVE  n \in Name \ Core /\ CoreAlias[n] = k
  <2>1. n \in Name \ Core BY ExtensionsAssumption
  <2>2. \A l \in Core : n \in CoreAliases[l] => l = k BY ExtensionsAssumption
  <2>3. (CHOOSE l \in Core : n \in CoreAliases[l]) = k BY <2>2
  <2>. QED BY <2>1, <2>3 DEF CoreAlias
<1>4. ASSUME NEW n \in Name, CoreAlias[n] # None
      PROVE  /\ CoreTable[n] = None /\ CoreTable[CoreAlias[n]] # None
             /\ n \in CoreTable[CoreAlias[n]].aliases
  <2>1. PICK k \in Core : n \in CoreAliases[k] BY <1>4 DEF CoreAlias
  <2>2. n \in Name \ Core /\ CoreAlias[n] = k BY <1>3, <2>1
  <2>3. CoreTable[n] = None BY <2>2 DEF CoreTable
  <2>. QED BY <1>2, <2>1, <2>2, <2>3
<1>. QED BY <1>1, <1>3, <1>4 DEF Unambiguous

\* Taking commands away and putting in others whose words are free.
LEMMA ReplacedKeeps ==
    ASSUME TypeOK, Unambiguous(entries, alias), NEW ks,
           NEW add \in SUBSET CommandEntry, Apart(add),
           \A x \in add : \A n \in WordsOf(x) : Free(n, ks),
           Replaced(ks, add)
    PROVE  Unambiguous(entries', alias')
<1>1. ASSUME NEW x \in add
      PROVE  /\ x.name \in Name /\ x.aliases \subseteq Name /\ x # None
             /\ x.name \notin x.aliases
             /\ \A n \in WordsOf(x) : Free(n, ks)
             /\ \A y \in add : (\E n \in WordsOf(x) : n \in WordsOf(y)) => x = y
  BY ExtensionsAssumption DEF CommandEntry, Apart
<1>2. ASSUME NEW x \in add
      PROVE  /\ (CHOOSE y \in add : y.name = x.name) = x
             /\ \A n \in x.aliases : (CHOOSE y \in add : n \in y.aliases) = x
  <2>1. \A y \in add : y.name = x.name => y = x BY <1>1 DEF WordsOf
  <2>2. \A n \in x.aliases : \A y \in add : n \in y.aliases => y = x
    BY <1>1 DEF WordsOf
  <2>3. (CHOOSE y \in add : y.name = x.name) = x BY <2>1
  <2>4. \A n \in x.aliases : (CHOOSE y \in add : n \in y.aliases) = x BY <2>2
  <2>. QED BY <2>3, <2>4
<1>3. \A x \in add : entries'[x.name] = x
                     /\ \A n \in x.aliases : alias'[n] = x.name
  BY <1>1, <1>2 DEF Replaced
<1>4. \A k \in Name : (\A x \in add : x.name # k) =>
          entries'[k] = IF k \in ks THEN None ELSE entries[k]
  BY DEF Replaced
<1>5. \A n \in Name : (\A x \in add : n \notin x.aliases) =>
          alias'[n] = IF alias[n] \in ks THEN None ELSE alias[n]
  BY DEF Replaced
<1>6. \A n \in Name : alias[n] # None => alias[n] \in Name BY DEF TypeOK
<1>7. \A k \in Name : entries[k] # None => entries[k].aliases \subseteq Name
  BY DEF TypeOK, CommandEntry
<1>8. ASSUME NEW n \in Name, alias'[n] # None
      PROVE  /\ entries'[n] = None /\ entries'[alias'[n]] # None
             /\ n \in entries'[alias'[n]].aliases
  <2>1. CASE \E x \in add : n \in x.aliases
    <3>1. PICK x \in add : n \in x.aliases BY <2>1
    <3>2. \A y \in add : y.name # n
      <4>1. ASSUME NEW y \in add, y.name = n PROVE FALSE
        <5>1. n \in WordsOf(x) /\ n \in WordsOf(y) BY <3>1, <4>1 DEF WordsOf
        <5>2. y = x BY <1>1, <5>1
        <5>. QED BY <1>1, <3>1, <4>1, <5>2
      <4>. QED BY <4>1
    <3>3. Free(n, ks) BY <1>1, <3>1 DEF WordsOf
    <3>4. entries'[n] = None BY <1>4, <3>2, <3>3 DEF Free
    <3>. QED BY <1>1, <1>3, <3>1, <3>4
  <2>2. CASE \A x \in add : n \notin x.aliases
    <3>. DEFINE k == alias[n]
    <3>1. alias'[n] = k /\ k # None /\ k \notin ks /\ k \in Name
      BY <1>5, <1>6, <1>8, <2>2
    <3>2. entries[n] = None /\ entries[k] # None /\ n \in entries[k].aliases
      BY <3>1 DEF Unambiguous
    <3>3. \A y \in add : y.name # n
      BY <1>1, <3>1 DEF WordsOf, Free
    <3>4. \A y \in add : y.name # k
      BY <1>1, <3>1, <3>2 DEF WordsOf, Free
    <3>5. entries'[n] = None /\ entries'[k] = entries[k]
      BY <1>4, <3>1, <3>2, <3>3, <3>4
    <3>. QED BY <3>1, <3>2, <3>5
  <2>. QED BY <2>1, <2>2
<1>9. ASSUME NEW k \in Name, entries'[k] # None
      PROVE  entries'[k].name = k /\ \A n \in entries'[k].aliases : alias'[n] = k
  <2>1. CASE \E x \in add : x.name = k BY <1>3, <2>1
  <2>2. CASE \A x \in add : x.name # k
    <3>1. entries'[k] = entries[k] /\ k \notin ks /\ entries[k] # None
      BY <1>4, <1>9, <2>2
    <3>2. entries[k].name = k BY <3>1 DEF Unambiguous
    <3>3. ASSUME NEW n \in entries[k].aliases PROVE alias'[n] = k
      <4>1. n \in Name /\ alias[n] = k BY <1>7, <3>1 DEF Unambiguous
      <4>2. k # None BY ExtensionsAssumption
      <4>3. \A x \in add : n \notin x.aliases
        BY <1>1, <3>1, <4>1, <4>2 DEF WordsOf, Free
      <4>. QED BY <1>5, <3>1, <4>1, <4>3
    <3>. QED BY <3>1, <3>2, <3>3
  <2>. QED BY <2>1, <2>2
<1>. QED BY <1>8, <1>9 DEF Unambiguous

LEMMA TeardownKeeps ==
    ASSUME TypeOK, Unambiguous(entries, alias), NEW r \in ExtensionRecord,
           Apart(r.replaced), NEW moved, Teardown(r, moved)
    PROVE  Unambiguous(entries', alias')
<1>. DEFINE ks == Owned(r)
            add == Returning(r, ks)
<1>1. add \in SUBSET r.replaced /\ add \in SUBSET CommandEntry
  BY DEF Returning, ExtensionRecord
<1>2. Apart(add) BY <1>1, ApartSubset
<1>3. \A x \in add : \A n \in WordsOf(x) : Free(n, ks) BY DEF Returning, WordsOf
<1>4. Replaced(ks, add) BY DEF Teardown
<1>. HIDE DEF ks, add
<1>. QED BY <1>1, <1>2, <1>3, <1>4, ReplacedKeeps

LEMMA RegisterKeeps ==
    ASSUME TypeOK, Unambiguous(entries, alias),
           NEW s, s.name \in Name, s.aliases \in SUBSET Name,
           NEW by \in Ext \cup {"core", "plain"}, NEW g \in Nat,
           Accepts(s), Register(s, by, g)
    PROVE  Unambiguous(entries', alias')
<1>. DEFINE x == Entry(s.name, by, g, s.aliases, FALSE)
            old == Resolve(s.name)
<1>1. /\ x \in CommandEntry /\ x.name = s.name /\ x.aliases = s.aliases
      /\ {x} \in SUBSET CommandEntry
  BY DEF Entry, CommandEntry
<1>2. \A a \in s.aliases : a # s.name /\ (Resolve(a) # None => Resolve(a) = old)
  BY DEF Accepts
<1>3. Apart({x}) BY <1>1, <1>2 DEF Apart
<1>4. \A n \in Name : entries[n] # None => alias[n] = None
  BY DEF Unambiguous
<1>5. ASSUME NEW n \in WordsOf(x) PROVE Free(n, {old})
  <2>1. n \in Name /\ (n = s.name \/ n \in s.aliases) BY <1>1, <1>5 DEF WordsOf
  <2>2. Resolve(n) = None \/ Resolve(n) = old BY <1>2, <2>1
  <2>3. n # None BY <2>1, ExtensionsAssumption
  <2>. QED BY <1>4, <2>1, <2>2, <2>3 DEF Free, Resolve
<1>6. Replaced({old}, {x}) BY DEF Register
<1>. HIDE DEF x, old
<1>. QED BY <1>1, <1>3, <1>5, <1>6, ReplacedKeeps

\* Discovery gives a record the displaced commands it had, or none.
LEMMA FoundApart ==
    ASSUME TypeOK, DisplacedApart, NEW map \in Preferences, NEW e \in Ext,
           Found(e, map) # None
    PROVE  Apart(Found(e, map).replaced)
<1>1. Apart(NewRecord(e, map).replaced) BY DEF NewRecord, Apart
<1>2. CASE records[e] = None BY <1>1, <1>2 DEF Found
<1>3. CASE records[e] # None
  <2>. DEFINE r == records[e]
  <2>1. r \in ExtensionRecord /\ Apart(r.replaced)
    BY <1>3 DEF TypeOK, DisplacedApart
  <2>2. Found(e, map).replaced \in {r.replaced, NewRecord(e, map).replaced}
    BY <1>3, <2>1 DEF Found, ExtensionRecord
  <2>. QED BY <1>1, <2>1, <2>2
<1>. QED BY <1>2, <1>3

LEMMA DisplacedIsApart ==
    ASSUME NEW before, Apart(Commands(before))
    PROVE  Apart(Displaced(before))
<1>1. Displaced(before) \in SUBSET Commands(before)
  BY DEF Displaced, Commands, Changed
<1>. QED BY <1>1, ApartSubset

LEMMA WordsInit == Init => WordInv
<1>. SUFFICES ASSUME Init PROVE WordInv OBVIOUS
<1>1. Unambiguous(entries, alias) BY CoreIsUnambiguous DEF Init
<1>. QED BY <1>1 DEF Init, WordInv, DisplacedApart

\* What most steps leave as it was.
LEMMA SameTable ==
    ASSUME WordInv, UNCHANGED <<entries, alias>>, DisplacedApart',
           job' = Idle \/ (job # Idle /\ job'.before = job.before)
           \/ job'.before = CoreTable
    PROVE  WordInv'
<1>1. Apart(Commands(CoreTable))
  BY CoreIsUnambiguous, CoreTableType, TableIsApart
<1>2. job' # Idle => Apart(Commands(job'.before))
  <2>. DEFINE b == job'.before
  <2>1. job' # Idle => (job # Idle /\ b = job.before) \/ b = CoreTable OBVIOUS
  <2>. HIDE DEF b
  <2>2. job' # Idle => Apart(Commands(b)) BY <1>1, <2>1 DEF WordInv
  <2>. QED BY <2>2 DEF b
<1>3. Unambiguous(entries', alias') BY DEF WordInv, Unambiguous
<1>. QED BY <1>2, <1>3 DEF WordInv, Commands, Apart, WordsOf, Unambiguous

LEMMA DiscoverKeeps ==
    ASSUME TypeOK, DisplacedApart, NEW map \in Preferences, Discover(map)
    PROVE  DisplacedApart'
BY FoundApart DEF Discover, Discovered, DisplacedApart

LEMMA MapIsTyped ==
    ASSUME TypeOK, NEW map \in {prefs, EmptyMap}
    PROVE  map \in Preferences
BY EmptyMapType DEF TypeOK

LEMMA BeginWords ==
    ASSUME TypeInv, WordInv, NEW e \in Ext,
           NEW op \in {"enable", "disable", "reload", "unload"}, Begin(op, e)
    PROVE  WordInv'
<1>1. PICK map \in {prefs, EmptyMap} : Reads(map, 1) /\ Discover(map) BY DEF Begin
<1>2. DisplacedApart' BY <1>1, MapIsTyped, DiscoverKeeps DEF TypeInv, WordInv
<1>. DEFINE step == IF op \in {"enable", "disable"} THEN "read" ELSE "teardown"
<1>3. Running(op, e, step).before = CoreTable BY RunningType DEF Ops
<1>4. job' = Idle \/ job'.before = CoreTable BY <1>3 DEF Begin
<1>. QED BY <1>2, <1>4, SameTable DEF Begin

LEMMA QuietWords ==
    ASSUME TypeInv, WordInv, NEW e \in Ext,
           BeginLoad(e) \/ Add(e) \/ ChangeDisk(e) \/ PreferElsewhere(e)
    PROVE  WordInv'
<1>1. UNCHANGED <<entries, alias, records>>
  BY DEF BeginLoad, Add, ChangeDisk, PreferElsewhere
<1>2. DisplacedApart' BY <1>1 DEF WordInv, DisplacedApart
<1>3. /\ Running("load", e, "load").before = CoreTable
      /\ Running("add", e, "read").before = CoreTable
  BY RunningType DEF Ops
<1>4. CASE BeginLoad(e) BY <1>1, <1>2, <1>3, <1>4, SameTable DEF BeginLoad
<1>5. CASE Add(e) BY <1>1, <1>2, <1>3, <1>5, SameTable DEF Add
<1>6. CASE ChangeDisk(e) BY <1>1, <1>2, <1>6, SameTable DEF ChangeDisk
<1>7. CASE PreferElsewhere(e)
  <2>1. job' = job BY <1>7 DEF PreferElsewhere
  <2>. QED BY <1>1, <1>2, <2>1, SameTable
<1>. QED BY <1>4, <1>5, <1>6, <1>7

LEMMA QuietJobWords ==
    ASSUME TypeInv, WordInv, ReadMap \/ WriteFails \/ Boot
    PROVE  WordInv'
<1>1. UNCHANGED <<entries, alias, records>> BY DEF ReadMap, WriteFails, Boot
<1>2. DisplacedApart' BY <1>1 DEF WordInv, DisplacedApart
<1>3. job \in Job /\ job # Idle
  BY DEF ReadMap, WriteFails, Boot, At, TypeInv, TypeOK
<1>4. job' = Idle \/ job'.before = job.before
  BY <1>3 DEF ReadMap, WriteFails, Boot, Job
<1>. QED BY <1>1, <1>2, <1>3, <1>4, SameTable

LEMMA WriteMapWords ==
    ASSUME TypeInv, TypeInv', WordInv, WriteMap
    PROVE  WordInv'
<1>. DEFINE e == job.ext
<1>1. /\ job \in Job /\ job # Idle /\ e \in Ext
      /\ job.op # "add" => records[e] \in ExtensionRecord
  BY DEF WriteMap, At, TypeInv, TypeOK, JobInv
<1>2. UNCHANGED <<entries, alias>> BY DEF WriteMap
<1>3. CASE job.op = "add"
  <2>. DEFINE p == prefs'
  <2>1. job' = Idle /\ Discover(p) BY <1>3 DEF WriteMap, Written
  <2>2. p \in Preferences BY DEF TypeInv, TypeOK
  <2>. HIDE DEF p
  <2>3. DisplacedApart' BY <2>1, <2>2, DiscoverKeeps DEF TypeInv, WordInv
  <2>. QED BY <1>2, <2>1, <2>3, SameTable
<1>4. CASE job.op # "add"
  <2>1. /\ \A f \in Ext \ {e} : records'[f] = records[f]
        /\ records'[e].replaced = records[e].replaced
    BY <1>1, <1>4 DEF WriteMap, Written, ExtensionRecord, TypeInv, TypeOK
  <2>2. DisplacedApart'
    BY <1>1, <1>4, <2>1, ExtensionsAssumption DEF WordInv, DisplacedApart
  <2>3. job'.before = job.before BY <1>1, <1>4 DEF WriteMap, Written, Goto, Job
  <2>. QED BY <1>1, <1>2, <2>2, <2>3, SameTable
<1>. QED BY <1>3, <1>4

LEMMA TearDownWords ==
    ASSUME TypeInv, WordInv, TearDown
    PROVE  WordInv'
<1>. DEFINE r == records[job.ext]
            s == IF job.op = "disable" THEN "disabled" ELSE Waiting(r.enabled)
<1>1. job \in Job /\ job # Idle /\ job.ext \in Ext /\ r \in ExtensionRecord /\ r # None
  BY ExtensionsAssumption DEF TearDown, At, TypeInv, TypeOK, JobInv
<1>2. Apart(r.replaced) BY <1>1 DEF WordInv, DisplacedApart
<1>3. Unambiguous(entries', alias')
  BY <1>1, <1>2, TeardownKeeps DEF TearDown, TypeInv, WordInv
<1>4. s \in {"enabled", "disabled", "loaded", "error"} BY DEF Waiting
<1>5. records' = [records EXCEPT ![job.ext] = Cleared(r, s)] BY DEF TearDown
<1>6. Cleared(r, s).replaced = {} BY <1>1, <1>4, ClearedType
<1>7. DisplacedApart'
  BY <1>1, <1>5, <1>6 DEF WordInv, DisplacedApart, TypeInv, TypeOK, Apart
<1>8. job' # Idle => job'.before = job.before
  BY <1>1 DEF TearDown, Goto, Job
<1>9. job' # Idle => Apart(Commands(job'.before))
  BY <1>1, <1>8 DEF WordInv
<1>. QED BY <1>3, <1>7, <1>9 DEF WordInv, Commands, Apart, WordsOf

LEMMA AfterWords ==
    ASSUME TypeInv, WordInv, job \in Job, job # Idle, After
    PROVE  job' # Idle => Apart(Commands(job'.before))
<1>1. job' = Idle \/ job'.before = job.before BY DEF After, Goto, Job
<1>. QED BY <1>1 DEF WordInv

LEMMA LoadWords ==
    ASSUME TypeInv, TypeInv', WordInv, Load
    PROVE  WordInv'
<1>. DEFINE e == job.ext
<1>1. job \in Job /\ job # Idle /\ e \in Ext
  BY DEF Load, At, TypeInv, TypeOK, JobInv
<1>2. PICK map \in {prefs, EmptyMap} :
        IF Found(e, map) = None \/ Found(e, map).status = "loaded"
        THEN Discover(map) /\ After /\ UNCHANGED <<table, gen>>
        ELSE /\ Teardown(Found(e, map), LosesLoaded(map))
             /\ records' = [Discovered(map) EXCEPT
                               ![e] = Cleared(Found(e, map), Found(e, map).status)]
             /\ gen' = gen + 1
             /\ job' = [job EXCEPT !.before = entries', !.left = script[e],
                                   !.at = "exec"]
  BY DEF Load
<1>3. map \in Preferences BY MapIsTyped DEF TypeInv
<1>. DEFINE r == Found(e, map)
<1>4. CASE r = None \/ r.status = "loaded"
  <2>1. Discover(map) /\ After /\ UNCHANGED <<table, gen>> BY <1>2, <1>4
  <2>2. DisplacedApart' BY <1>3, <2>1, DiscoverKeeps DEF TypeInv, WordInv
  <2>3. job' = Idle \/ job'.before = job.before
    BY <1>1, <2>1 DEF After, Goto, Job
  <2>. QED BY <1>1, <2>1, <2>2, <2>3, SameTable
<1>5. CASE ~ (r = None \/ r.status = "loaded")
  <2>1. /\ Teardown(r, LosesLoaded(map))
        /\ records' = [Discovered(map) EXCEPT ![e] = Cleared(r, r.status)]
        /\ job' = [job EXCEPT !.before = entries', !.left = script[e], !.at = "exec"]
    BY <1>2, <1>5
  <2>2. r \in ExtensionRecord BY <1>1, <1>3, <1>5, FoundType DEF TypeInv
  <2>3. Apart(r.replaced) BY <1>1, <1>3, <1>5, FoundApart DEF TypeInv, WordInv
  <2>4. Unambiguous(entries', alias')
    BY <2>1, <2>2, <2>3, TeardownKeeps DEF TypeInv, WordInv
  <2>5. r.status \in {"enabled", "disabled", "loaded", "error"}
    BY <2>2 DEF ExtensionRecord
  <2>6. Cleared(r, r.status).replaced = {} BY <2>2, <2>5, ClearedType
  <2>7. \A f \in Ext : records'[f] # None =>
           records'[f].replaced = {} \/ (f # e /\ records'[f] = Found(f, map))
    BY <2>1, <2>6 DEF Discovered
  <2>8. DisplacedApart'
    <3>1. Apart({}) BY DEF Apart
    <3>2. ASSUME NEW f \in Ext, records'[f] # None PROVE Apart(records'[f].replaced)
      <4>1. CASE records'[f].replaced = {} BY <3>1, <4>1
      <4>2. CASE records'[f] = Found(f, map)
        BY <1>3, <3>2, <4>2, FoundApart DEF TypeInv, WordInv
      <4>. QED BY <2>7, <3>2, <4>1, <4>2
    <3>. QED BY <3>2 DEF DisplacedApart
  <2>9. job'.before = entries' BY <1>1, <2>1 DEF Job
  <2>10. Apart(Commands(entries'))
    <3>. DEFINE t == entries'
                al == alias'
    <3>1. /\ t \in [Name -> CommandEntry \cup {None}]
          /\ al \in [Name -> Name \cup {None}] /\ Unambiguous(t, al)
      BY <2>4 DEF TypeInv, TypeOK
    <3>. HIDE DEF t, al
    <3>2. Apart(Commands(t)) BY <3>1, TableIsApart
    <3>. QED BY <3>2 DEF t
  <2>. QED BY <2>4, <2>8, <2>9, <2>10 DEF WordInv
<1>. QED BY <1>4, <1>5

LEMMA ExecuteWords ==
    ASSUME TypeInv, WordInv, Execute
    PROVE  WordInv'
<1>. DEFINE s == Head(job.left)
<1>1. /\ job \in Job /\ job # Idle /\ job.ext \in Ext /\ s \in Statement
  BY HeadTypes DEF Execute, At
<1>2. records' = records /\ job'.before = job.before
  BY <1>1 DEF Execute, Job
<1>3. DisplacedApart' BY <1>2 DEF WordInv, DisplacedApart
<1>4. CASE s.do = "command"
  <2>1. s.name \in Name /\ s.aliases \in SUBSET Name BY <1>1, <1>4 DEF Statement
  <2>2. Accepts(s) /\ Register(s, job.ext, gen) BY <1>4 DEF Execute, Refused
  <2>3. Unambiguous(entries', alias')
    BY <1>1, <2>1, <2>2, RegisterKeeps DEF TypeInv, TypeOK, WordInv
  <2>. QED BY <1>1, <1>2, <1>3, <2>3 DEF WordInv
<1>5. CASE s.do # "command"
  <2>1. UNCHANGED <<entries, alias>> BY <1>5 DEF Execute
  <2>. QED BY <1>1, <1>2, <1>3, <2>1, SameTable
<1>. QED BY <1>4, <1>5

LEMMA LoadedWords ==
    ASSUME TypeInv, WordInv, Loaded
    PROVE  WordInv'
<1>. DEFINE e == job.ext
            c == Changed(job.before)
            d == Displaced(job.before)
<1>1. job \in Job /\ job # Idle /\ e \in Ext /\ records[e] \in ExtensionRecord
  BY DEF Loaded, At, TypeInv, TypeOK, JobInv
<1>2. Apart(d) BY <1>1, DisplacedIsApart DEF WordInv
<1>3. records' = [records EXCEPT ![e].status = "loaded", ![e].names = c,
                                 ![e].replaced = d]
  BY DEF Loaded
<1>. HIDE DEF c, d
<1>4. /\ \A f \in Ext \ {e} : records'[f] = records[f]
      /\ records'[e].replaced = d
  BY <1>1, <1>3 DEF ExtensionRecord, TypeInv, TypeOK
<1>5. DisplacedApart' BY <1>1, <1>2, <1>4 DEF WordInv, DisplacedApart
<1>6. job' = Idle \/ job'.before = job.before
  BY <1>1 DEF Loaded, After, Goto, Job
<1>7. UNCHANGED <<entries, alias>> BY DEF Loaded
<1>. QED BY <1>1, <1>5, <1>6, <1>7, SameTable

LEMMA LoadFailsWords ==
    ASSUME TypeInv, WordInv, LoadFails
    PROVE  WordInv'
<1>. DEFINE e == job.ext
            c == Changed(job.before)
            d == Displaced(job.before)
            r == [records[e] EXCEPT !.names = c, !.replaced = d]
<1>1. job \in Job /\ job # Idle /\ e \in Ext /\ records[e] \in ExtensionRecord
  BY DEF LoadFails, At, TypeInv, TypeOK, JobInv
<1>2. Apart(d) BY <1>1, DisplacedIsApart DEF WordInv
<1>3. c \in SUBSET Name /\ d \in SUBSET CommandEntry BY <1>1, DeltaType DEF Job
<1>4. r \in ExtensionRecord /\ r.replaced = d
  <2>. HIDE DEF c, d
  <2>. QED BY <1>1, <1>3 DEF ExtensionRecord
<1>5. Teardown(r, {}) /\ records' = [records EXCEPT ![e] = Cleared(r, "error")] /\ After
  BY DEF LoadFails
<1>. HIDE DEF r
<1>6. Unambiguous(entries', alias')
  BY <1>2, <1>4, <1>5, TeardownKeeps DEF TypeInv, WordInv
<1>7. Cleared(r, "error").replaced = {} BY <1>4, ClearedType
<1>8. DisplacedApart'
  BY <1>1, <1>5, <1>7 DEF WordInv, DisplacedApart, TypeInv, TypeOK, Apart
<1>9. job' # Idle => Apart(Commands(job'.before)) BY <1>1, <1>5, AfterWords
<1>. QED BY <1>6, <1>8, <1>9 DEF WordInv

LEMMA StartWords ==
    ASSUME TypeInv, WordInv, Start
    PROVE  WordInv'
<1>1. entries' = CoreTable /\ alias' = CoreAlias BY DEF Start
<1>2. Unambiguous(entries', alias') BY <1>1, CoreIsUnambiguous
<1>3. DisplacedApart'
  <2>1. PICK map : records' = [e \in Ext |-> IF disk[e] = {} THEN None
                                              ELSE NewRecord(e, map)]
    BY DEF Start
  <2>. QED BY <2>1 DEF DisplacedApart, NewRecord, Apart
<1>. DEFINE b == {e \in Ext : records'[e] # None}
            run == Running("boot", None, "boot")
<1>4. run \in Job /\ run.before = CoreTable BY RunningType DEF Ops
<1>5. job' = [run EXCEPT !.boot = b] BY DEF Start
<1>. HIDE DEF b, run
<1>6. job'.before = CoreTable BY <1>4, <1>5 DEF Job
<1>7. Apart(Commands(CoreTable)) BY CoreIsUnambiguous, CoreTableType, TableIsApart
<1>. QED BY <1>2, <1>3, <1>6, <1>7 DEF WordInv

LEMMA LaterWords ==
    ASSUME TypeInv, WordInv, NEW e \in Ext, RegisterLater(e)
    PROVE  WordInv'
<1>1. PICK n \in Name, by \in {e, "plain"} :
        LET s == [do |-> "command", name |-> n, aliases |-> {}, override |-> FALSE,
                  force |-> FALSE]
        IN  Accepts(s) /\ Register(s, by, gen)
  BY DEF RegisterLater
<1>2. Unambiguous(entries', alias')
  <2>. DEFINE s == [do |-> "command", name |-> n, aliases |-> {}, override |-> FALSE,
                    force |-> FALSE]
  <2>1. /\ s.name \in Name /\ s.aliases \in SUBSET Name
        /\ Accepts(s) /\ Register(s, by, gen)
    BY <1>1
  <2>2. by \in Ext \cup {"core", "plain"} /\ gen \in Nat BY DEF TypeInv, TypeOK
  <2>. HIDE DEF s
  <2>. QED BY <2>1, <2>2, RegisterKeeps DEF TypeInv, WordInv
<1>3. UNCHANGED <<records, job>> BY DEF RegisterLater
<1>. QED BY <1>2, <1>3 DEF WordInv, DisplacedApart

LEMMA WordsKept ==
    ASSUME TypeInv, TypeInv', WordInv, [Next]_vars
    PROVE  WordInv'
<1>1. CASE UNCHANGED vars
  BY <1>1 DEF vars, WordInv, DisplacedApart, Unambiguous
<1>2. CASE Next
  <2>1. ASSUME NEW e \in Ext,
               \/ \E op \in {"enable", "disable", "reload", "unload"} : Begin(op, e)
               \/ BeginLoad(e) \/ Add(e) \/ RegisterLater(e) \/ ChangeDisk(e)
               \/ PreferElsewhere(e)
        PROVE  WordInv'
    BY <2>1, BeginWords, QuietWords, LaterWords
  <2>2. CASE WriteMap BY <2>2, WriteMapWords
  <2>3. CASE ReadMap \/ WriteFails \/ Boot BY <2>3, QuietJobWords
  <2>4. CASE TearDown BY <2>4, TearDownWords
  <2>5. CASE Load BY <2>5, LoadWords
  <2>6. CASE Execute BY <2>6, ExecuteWords
  <2>7. CASE Loaded BY <2>7, LoadedWords
  <2>8. CASE LoadFails BY <2>8, LoadFailsWords
  <2>9. CASE Start BY <2>9, StartWords
  <2>. QED BY <1>2, <2>1, <2>2, <2>3, <2>4, <2>5, <2>6, <2>7, <2>8, <2>9 DEF Next
<1>. QED BY <1>1, <1>2

LEMMA WordsAlways == Spec => []WordInv
<1>1. Init => WordInv BY WordsInit
<1>2. TypeInv /\ TypeInv' /\ WordInv /\ [Next]_vars => WordInv' BY WordsKept
<1>. QED BY <1>1, <1>2, ExtensionsTypeCorrect, PTL DEF Spec

\* Whatever is registered, replaced, restored or rolled back, a word means one
\* command at most (commands/registry.py, register and unregister;
\* extensions/manager.py, _remove_owned_commands).
THEOREM WordsMeanOneCommand == Spec => []WordsAreUnambiguous
<1>1. WordInv => WordsAreUnambiguous
  BY DEF WordInv, Unambiguous, WordsAreUnambiguous
<1>. QED BY <1>1, WordsAlways, PTL

-----------------------------------------------------------------------------
(* The preferences, and what a start runs.  A read that fails can only forget *)
(* that something was enabled; what it must not do is to enable anything.     *)

PrefInv ==
    /\ spent.misread = 0 /\ spent.other = 0 =>
          prefs = asked /\ (job # Idle /\ job.at = "write" => job.map = prefs)
    /\ spent.other = 0 =>
          /\ \A e \in Ext : prefs[e] = TRUE => asked[e] = TRUE
          /\ job # Idle /\ job.at = "write" =>
                \A e \in Ext : job.map[e] = TRUE => asked[e] = TRUE
          /\ job # Idle /\ job.op = "boot" =>
                /\ \A e \in Ext \ Bundled :
                      records[e] # None /\ records[e].enabled => asked[e] = TRUE
                /\ job.at # "boot" /\ job.ext \notin Bundled => asked[job.ext] = TRUE

\* A map that was read: whole if no read failed, and true in what it enables.
LEMMA ReadPrefs ==
    ASSUME TypeOK, NEW map \in {prefs, EmptyMap}, NEW n \in Nat, Reads(map, n)
    PROVE  /\ spent'.other = spent.other
           /\ spent'.misread = 0 => spent.misread = 0 /\ map = prefs
           /\ \A e \in Ext : map[e] = TRUE => prefs[e] = TRUE
<1>1. \A e \in Ext : EmptyMap[e] # TRUE BY ExtensionsAssumption DEF EmptyMap
<1>2. spent.misread \in Nat /\ spent.misread + 1 # 0 BY DEF TypeOK
<1>3. /\ spent'.other = spent.other
      /\ spent'.misread = 0 => spent.misread = 0 /\ map = prefs
  BY <1>2 DEF Reads, TypeOK
<1>4. \A e \in Ext : map[e] = TRUE => prefs[e] = TRUE
  <2>1. CASE map = prefs BY <2>1
  <2>2. CASE map = EmptyMap BY <1>1, <2>2
  <2>. QED BY <2>1, <2>2
<1>. QED BY <1>3, <1>4

\* What a record says to be enabled was enabled in the map it was made from, if
\* the default does not enable it.
LEMMA FoundEnabled ==
    ASSUME TypeOK, NEW map \in Preferences, NEW e \in Ext \ Bundled,
           Found(e, map) # None, Found(e, map).enabled
    PROVE  map[e] = TRUE \/ (records[e] # None /\ records[e].enabled)
<1>1. Prefers(map, e) => map[e] = TRUE
  <2>1. map[e] \in BOOLEAN \cup {None} BY DEF Preferences
  <2>. QED BY <2>1 DEF Prefers, Default
<1>2. NewRecord(e, map).enabled = Prefers(map, e) BY DEF NewRecord
<1>3. CASE records[e] = None BY <1>1, <1>2, <1>3 DEF Found
<1>4. CASE records[e] # None
  <2>. DEFINE r == records[e]
              p == Prefers(map, e)
              d == [r EXCEPT !.place = First(disk[e]), !.enabled = p,
                             !.status = IF @ = "loaded" THEN @ ELSE "error"]
              k == [r EXCEPT !.enabled = p,
                             !.status = IF @ \in {"loaded", "error"} THEN @
                                        ELSE Waiting(p)]
  <2>1. r \in ExtensionRecord BY <1>4 DEF TypeOK
  <2>2. d.enabled = p /\ k.enabled = p BY <2>1 DEF ExtensionRecord
  <2>3. Found(e, map) \in {r, NewRecord(e, map), d, k} BY <1>4 DEF Found
  <2>4. Found(e, map).enabled \in {r.enabled, p}
    <3>. HIDE DEF d, k, p
    <3>. QED BY <1>2, <2>2, <2>3 DEF p
  <2>. QED BY <1>1, <1>4, <2>4
<1>. QED BY <1>3, <1>4

\* Steps that leave the preferences alone and start nothing.
LEMMA SettledPrefs ==
    ASSUME PrefInv, UNCHANGED <<prefs, asked>>,
           spent'.misread = 0 => spent.misread = 0, spent'.other = spent.other,
           job' = Idle \/ (job'.at # "write" /\ job'.op # "boot")
    PROVE  PrefInv'
BY DEF PrefInv

LEMMA PersonPrefs ==
    ASSUME TypeInv, PrefInv, NEW e \in Ext,
           \/ \E op \in {"enable", "disable", "reload", "unload"} : Begin(op, e)
           \/ BeginLoad(e) \/ Add(e) \/ RegisterLater(e) \/ ChangeDisk(e)
    PROVE  PrefInv'
<1>. USE DEF TypeInv
<1>1. ASSUME NEW op \in {"enable", "disable", "reload", "unload"}, Begin(op, e)
      PROVE  PrefInv'
  <2>1. PICK map \in {prefs, EmptyMap} : Reads(map, 1) BY <1>1 DEF Begin
  <2>2. spent'.other = spent.other /\ (spent'.misread = 0 => spent.misread = 0)
    BY <2>1, ReadPrefs
  <2>. DEFINE step == IF op \in {"enable", "disable"} THEN "read" ELSE "teardown"
  <2>3. Running(op, e, step).at = step /\ Running(op, e, step).op = op
    BY RunningType DEF Ops
  <2>4. job' = Idle \/ (job'.at # "write" /\ job'.op # "boot")
    BY <1>1, <2>3 DEF Begin
  <2>. QED BY <1>1, <2>2, <2>4, SettledPrefs DEF Begin
<1>2. /\ Running("load", e, "load").at = "load" /\ Running("load", e, "load").op = "load"
      /\ Running("add", e, "read").at = "read" /\ Running("add", e, "read").op = "add"
  BY RunningType DEF Ops
<1>3. CASE BeginLoad(e) BY <1>2, <1>3, SettledPrefs DEF BeginLoad, TypeOK
<1>4. CASE Add(e) BY <1>2, <1>4, SettledPrefs DEF Add, TypeOK
<1>5. CASE RegisterLater(e) BY <1>5, SettledPrefs DEF RegisterLater, TypeOK
<1>6. CASE ChangeDisk(e) BY <1>6, SettledPrefs DEF ChangeDisk, TypeOK
<1>. QED BY <1>1, <1>3, <1>4, <1>5, <1>6

LEMMA ElsewherePrefs ==
    ASSUME TypeInv, PrefInv, NEW e \in Ext, PreferElsewhere(e)
    PROVE  PrefInv'
<1>1. spent'.other = spent.other + 1 /\ spent.other \in Nat
  BY DEF PreferElsewhere, TypeInv, TypeOK
<1>2. spent'.other # 0 BY <1>1
<1>. QED BY <1>2 DEF PrefInv

LEMMA ReadMapPrefs ==
    ASSUME TypeInv, PrefInv, ReadMap
    PROVE  PrefInv'
<1>. USE DEF TypeInv
<1>1. PICK map \in {prefs, EmptyMap} :
        Reads(map, 0) /\ job' = [job EXCEPT !.map = map, !.at = "write"]
  BY DEF ReadMap
<1>2. /\ spent'.other = spent.other
      /\ spent'.misread = 0 => spent.misread = 0 /\ map = prefs
      /\ \A e \in Ext : map[e] = TRUE => prefs[e] = TRUE
  BY <1>1, ReadPrefs
<1>3. job \in Job /\ job # Idle /\ job.op # "boot"
  BY DEF ReadMap, At, TypeOK, JobInv
<1>4. job'.map = map /\ job'.op # "boot" BY <1>1, <1>3 DEF Job
<1>5. prefs' = prefs /\ asked' = asked BY DEF ReadMap
<1>. QED BY <1>2, <1>4, <1>5 DEF PrefInv

LEMMA WriteMapPrefs ==
    ASSUME TypeInv, PrefInv, WriteMap
    PROVE  PrefInv'
<1>. USE DEF TypeInv
<1>. DEFINE e == job.ext
            w == Wanted
<1>1. /\ job \in Job /\ job # Idle /\ job.at = "write" /\ e \in Ext
      /\ job.op \in {"enable", "disable", "add"}
  BY DEF WriteMap, At, TypeOK, JobInv
<1>2. prefs' = [job.map EXCEPT ![e] = w] /\ asked' = [asked EXCEPT ![e] = w]
      /\ spent' = spent
  BY DEF WriteMap, Asks
<1>3. job' = Idle \/ (job'.at # "write" /\ job'.op # "boot")
  BY <1>1 DEF WriteMap, Written, Goto, Job
<1>4. job.map \in Preferences /\ asked \in Preferences BY <1>1 DEF Job, TypeOK
<1>. HIDE DEF w
<1>5. spent.misread = 0 /\ spent.other = 0 => prefs' = asked'
  BY <1>1, <1>2 DEF PrefInv
<1>6. spent.other = 0 => \A f \in Ext : prefs'[f] = TRUE => asked'[f] = TRUE
  <2>1. SUFFICES ASSUME spent.other = 0, NEW f \in Ext, prefs'[f] = TRUE
                 PROVE  asked'[f] = TRUE
    OBVIOUS
  <2>2. CASE f = e BY <1>2, <1>4, <2>1, <2>2 DEF Preferences
  <2>3. CASE f # e
    <3>1. prefs'[f] = job.map[f] /\ asked'[f] = asked[f]
      BY <1>2, <1>4, <2>3 DEF Preferences
    <3>. QED BY <1>1, <2>1, <3>1 DEF PrefInv
  <2>. QED BY <2>2, <2>3
<1>. QED BY <1>2, <1>3, <1>5, <1>6 DEF PrefInv

\* The steps of a job, those of a start among them: what is enabled was asked for.
EnabledAsked ==
    \A e \in Ext \ Bundled : records[e] # None /\ records[e].enabled => asked[e] = TRUE

LEMMA JobPrefs ==
    ASSUME TypeInv, PrefInv, job # Idle, UNCHANGED <<prefs, asked>>,
           spent'.misread = 0 => spent.misread = 0, spent'.other = spent.other,
           \/ job' = Idle
           \/ job'.at # "write" /\ job'.op = job.op /\ job'.ext = job.ext
              /\ (job'.at = "boot" \/ job.at # "boot"),
           spent.other = 0 /\ job.op = "boot" => EnabledAsked'
    PROVE  PrefInv'
<1>1. CASE job' = Idle BY <1>1, SettledPrefs
<1>2. CASE job' # Idle BY <1>2 DEF PrefInv, EnabledAsked
<1>. QED BY <1>1, <1>2

LEMMA FailOrTearDownPrefs ==
    ASSUME TypeInv, PrefInv, WriteFails \/ TearDown
    PROVE  PrefInv'
<1>1. CASE WriteFails BY <1>1, SettledPrefs DEF WriteFails, TypeInv, TypeOK
<1>2. CASE TearDown
  <2>1. job \in Job BY <1>2 DEF TearDown, At, TypeInv, TypeOK
  <2>2. job' = Idle \/ (job'.at # "write" /\ job'.op # "boot")
    BY <1>2, <2>1 DEF TearDown, Goto, Job
  <2>. QED BY <1>2, <2>2, SettledPrefs DEF TearDown
<1>. QED BY <1>1, <1>2

LEMMA AfterPrefs ==
    ASSUME job \in Job, After
    PROVE  \/ job' = Idle
           \/ job'.at # "write" /\ job'.op = job.op /\ job'.ext = job.ext
              /\ job'.at = "boot"
BY DEF After, Goto, Job

LEMMA LoadPrefs ==
    ASSUME TypeInv, PrefInv, Load
    PROVE  PrefInv'
<1>. USE DEF TypeInv
<1>. DEFINE e == job.ext
<1>1. job \in Job /\ job # Idle /\ job.at = "load" /\ e \in Ext
  BY DEF Load, At, TypeOK, JobInv
<1>2. PICK map \in {prefs, EmptyMap} :
        /\ Reads(map, 0)
        /\ IF Found(e, map) = None \/ Found(e, map).status = "loaded"
           THEN Discover(map) /\ After /\ UNCHANGED <<table, gen>>
           ELSE /\ Teardown(Found(e, map), LosesLoaded(map))
                /\ records' = [Discovered(map) EXCEPT
                                  ![e] = Cleared(Found(e, map), Found(e, map).status)]
                /\ gen' = gen + 1
                /\ job' = [job EXCEPT !.before = entries', !.left = script[e],
                                      !.at = "exec"]
  BY DEF Load
<1>3. /\ spent'.other = spent.other
      /\ spent'.misread = 0 => spent.misread = 0
      /\ \A f \in Ext : map[f] = TRUE => prefs[f] = TRUE
      /\ map \in Preferences
  BY <1>2, ReadPrefs, MapIsTyped
<1>4. prefs' = prefs /\ asked' = asked BY DEF Load
<1>5. ASSUME spent.other = 0, job.op = "boot", NEW f \in Ext \ Bundled,
             Found(f, map) # None, Found(f, map).enabled
      PROVE  asked[f] = TRUE
  BY <1>1, <1>3, <1>5, FoundEnabled DEF PrefInv
<1>6. \A f \in Ext : records'[f] # None =>
         Found(f, map) # None /\ records'[f].enabled = Found(f, map).enabled
  <2>. DEFINE r == Found(e, map)
  <2>1. CASE r = None \/ r.status = "loaded"
    BY <1>2, <2>1 DEF Discover, Discovered
  <2>2. CASE ~ (r = None \/ r.status = "loaded")
    <3>1. r \in ExtensionRecord BY <1>1, <1>3, <2>2, FoundType
    <3>2. Cleared(r, r.status).enabled = r.enabled
      BY <3>1 DEF Cleared, ExtensionRecord
    <3>3. \A f \in Ext : records'[f] =
             IF f = e THEN Cleared(r, r.status) ELSE Found(f, map)
      BY <1>2, <2>2 DEF Discovered
    <3>. QED BY <2>2, <3>2, <3>3
  <2>. QED BY <2>1, <2>2
<1>7. spent.other = 0 /\ job.op = "boot" => EnabledAsked'
  BY <1>4, <1>5, <1>6 DEF EnabledAsked
<1>8. \/ job' = Idle
      \/ job'.at # "write" /\ job'.op = job.op /\ job'.ext = job.ext
  BY <1>1, <1>2, AfterPrefs DEF Job
<1>. QED BY <1>1, <1>3, <1>4, <1>7, <1>8, JobPrefs

LEMMA ScriptPrefs ==
    ASSUME TypeInv, PrefInv, Execute \/ Loaded \/ LoadFails
    PROVE  PrefInv'
<1>. USE DEF TypeInv
<1>. DEFINE e == job.ext
            c == Changed(job.before)
            d == Displaced(job.before)
<1>1. job \in Job /\ job # Idle /\ job.at = "exec" /\ e \in Ext
      /\ records[e] \in ExtensionRecord
  BY DEF Execute, Loaded, LoadFails, At, TypeOK, JobInv
<1>2. UNCHANGED <<prefs, asked, spent>> BY DEF Execute, Loaded, LoadFails
<1>3. \/ job' = Idle
      \/ job'.at # "write" /\ job'.op = job.op /\ job'.ext = job.ext
  <2>1. CASE Execute
    <3>1. job' = [job EXCEPT !.left = Tail(@)] BY <2>1 DEF Execute
    <3>. QED BY <1>1, <3>1 DEF Job
  <2>2. CASE Loaded \/ LoadFails BY <1>1, <2>2, AfterPrefs DEF Loaded, LoadFails
  <2>. QED BY <2>1, <2>2
<1>4. \A f \in Ext : records'[f] # None =>
         records[f] # None /\ records'[f].enabled = records[f].enabled
  <2>1. CASE Execute BY <2>1 DEF Execute
  <2>2. CASE Loaded
    <3>1. records' = [records EXCEPT ![e].status = "loaded", ![e].names = c,
                                     ![e].replaced = d]
      BY <2>2 DEF Loaded
    <3>. HIDE DEF c, d
    <3>. QED BY <1>1, <3>1, ExtensionsAssumption DEF ExtensionRecord, TypeOK
  <2>3. CASE LoadFails
    <3>. DEFINE r == [records[e] EXCEPT !.names = c, !.replaced = d]
    <3>1. records' = [records EXCEPT ![e] = Cleared(r, "error")]
      BY <2>3 DEF LoadFails
    <3>2. Cleared(r, "error").enabled = records[e].enabled
      <4>. HIDE DEF c, d
      <4>. QED BY <1>1 DEF Cleared, ExtensionRecord
    <3>. HIDE DEF r
    <3>. QED BY <1>1, <3>1, <3>2, ExtensionsAssumption DEF TypeOK
  <2>. QED BY <2>1, <2>2, <2>3
<1>5. spent.other = 0 /\ job.op = "boot" => EnabledAsked'
  BY <1>1, <1>2, <1>4 DEF EnabledAsked, PrefInv
<1>. QED BY <1>1, <1>2, <1>3, <1>5, JobPrefs

LEMMA StartPrefs ==
    ASSUME TypeInv, PrefInv, Start
    PROVE  PrefInv'
<1>. USE DEF TypeInv
<1>1. PICK map \in {prefs, EmptyMap} :
        /\ Reads(map, 1)
        /\ records' = [e \in Ext |-> IF disk[e] = {} THEN None ELSE NewRecord(e, map)]
  BY DEF Start
<1>2. /\ spent'.other = spent.other
      /\ spent'.misread = 0 => spent.misread = 0
      /\ \A f \in Ext : map[f] = TRUE => prefs[f] = TRUE
      /\ map \in Preferences
  BY <1>1, ReadPrefs, MapIsTyped
<1>3. prefs' = prefs /\ asked' = asked BY DEF Start
<1>. DEFINE b == {e \in Ext : records'[e] # None}
            run == Running("boot", None, "boot")
<1>4. run \in Job /\ run.at = "boot" /\ run.op = "boot" BY RunningType DEF Ops
<1>5. job' = [run EXCEPT !.boot = b] BY DEF Start
<1>. HIDE DEF b, run
<1>6. job'.at = "boot" /\ job'.op = "boot" BY <1>4, <1>5 DEF Job
<1>7. ASSUME NEW f \in Ext \ Bundled, records'[f] # None, records'[f].enabled
      PROVE  map[f] = TRUE
  <2>1. records'[f] = NewRecord(f, map) BY <1>1, <1>7
  <2>2. Prefers(map, f) BY <1>7, <2>1 DEF NewRecord
  <2>3. map[f] \in BOOLEAN \cup {None} BY <1>2 DEF Preferences
  <2>. QED BY <2>2, <2>3 DEF Prefers, Default
<1>. QED BY <1>2, <1>3, <1>6, <1>7 DEF PrefInv

LEMMA BootPrefs ==
    ASSUME TypeInv, PrefInv, Boot
    PROVE  PrefInv'
<1>. USE DEF TypeInv
<1>1. job \in Job /\ job # Idle /\ job.at = "boot" BY DEF Boot, At, TypeOK
<1>2. UNCHANGED <<prefs, asked, spent, records>> BY DEF Boot
<1>3. CASE job' = Idle BY <1>2, <1>3, SettledPrefs
<1>4. ASSUME NEW e \in job.boot,
             job' = [job EXCEPT !.ext = e, !.boot = @ \ {e},
                                !.at = IF Enabled(e) THEN "load" ELSE @]
      PROVE  PrefInv'
  <2>1. /\ job'.op = job.op /\ job'.ext = e
        /\ job'.at = IF Enabled(e) THEN "load" ELSE "boot"
    BY <1>1, <1>4 DEF Job
  <2>2. e \in Ext BY <1>1 DEF Job
  <2>. QED BY <1>1, <1>2, <2>1, <2>2 DEF PrefInv, Enabled
<1>. QED BY <1>3, <1>4 DEF Boot

LEMMA PrefsKept ==
    ASSUME TypeInv, PrefInv, [Next]_vars
    PROVE  PrefInv'
<1>1. CASE UNCHANGED vars BY <1>1 DEF vars, PrefInv
<1>2. CASE Next
  BY <1>2, PersonPrefs, ElsewherePrefs, ReadMapPrefs, WriteMapPrefs,
     FailOrTearDownPrefs, LoadPrefs, ScriptPrefs, StartPrefs, BootPrefs
     DEF Next
<1>. QED BY <1>1, <1>2

LEMMA PrefsInit == Init => PrefInv
<1>. SUFFICES ASSUME Init PROVE PrefInv OBVIOUS
<1>1. \A e \in Ext : prefs[e] # TRUE BY ExtensionsAssumption DEF Init
<1>. QED BY <1>1 DEF Init, PrefInv

\* The preferences are those last asked for unless a read failed or another
\* process wrote them, and a start runs an extension of the user's only if that
\* was asked for, whatever read failed (extensions/manager.py, _enabled_map,
\* _set_enabled, load_enabled).
THEOREM PreferencesStay == Spec => []PreferencesAreKept
<1>1. TypeInv /\ PrefInv => PreferencesAreKept
  <2>1. SUFFICES ASSUME TypeInv, PrefInv, spent.other = 0, At("exec"),
                        job.op = "boot", job.ext \notin Bundled
                 PROVE  asked[job.ext] = TRUE
    BY DEF PrefInv, PreferencesAreKept
  <2>. QED BY <2>1 DEF PrefInv, At
<1>2. TypeInv /\ PrefInv /\ [Next]_vars => PrefInv' BY PrefsKept
<1>. QED BY <1>1, <1>2, PrefsInit, ExtensionsTypeCorrect, PTL DEF Spec

-----------------------------------------------------------------------------
(* Teardown is complete.  While no extension replaced a command of another:  *)
(* what is registered under an extension belongs to one that is loaded or    *)
(* whose script runs, its record names commands of its own and keeps only    *)
(* commands of nobody else, and a command of the core is in the table, kept  *)
(* in a record, or in the table the running script began with.               *)

Executing(e) == job # Idle /\ job.at = "exec" /\ job.ext = e

OwnersLive ==
    \A e \in Ext \ amiss.moved :
        /\ (\E h \in hooks : h[1] = e) => IsLoaded(e) \/ Executing(e)
        /\ \A k \in Name : entries[k] # None /\ entries[k].by = e
                              => IsLoaded(e) \/ Executing(e)

RecordsAreOwn ==
    \A e \in Ext : records[e] # None =>
        /\ records[e].ext = e
        /\ \A k \in records[e].names : entries[k] # None /\ entries[k].by = e
        /\ \A x \in records[e].replaced : x.by \notin Ext
        /\ ~ IsLoaded(e) => records[e].names = {} /\ records[e].replaced = {}

ScriptIsKnown ==
    \A e \in Ext : Executing(e) =>
        /\ ~ IsLoaded(e)
        /\ \A k \in Name : job.before[k] # None =>
              /\ job.before[k].by # e
              /\ job.before[k].by \in Ext => entries[k] = job.before[k]
        /\ \A k \in Name : entries[k] # None =>
              entries[k] = job.before[k] \/ entries[k].by = e

CoreIsKept ==
    amiss.moved = {} /\ ~ amiss.taken =>
        \A k \in Core :
            \/ entries[k] = CoreEntry(k)
            \/ \E e \in Ext : records[e] # None /\ CoreEntry(k) \in records[e].replaced
            \/ \E e \in Ext : Executing(e) /\ job.before[k] = CoreEntry(k)

Books == OwnersLive /\ RecordsAreOwn /\ ScriptIsKnown /\ CoreIsKept
BookInv == ~ amiss.crossed => Books

LEMMA CoreEntryIs ==
    ASSUME NEW k \in Core
    PROVE  /\ CoreEntry(k) # None /\ CoreEntry(k).name = k /\ k \in Name
           /\ CoreEntry(k).by = "core" /\ CoreEntry(k).by \notin Ext
<1>1. CoreEntry(k) \in CommandEntry /\ CoreEntry(k).name = k /\ CoreEntry(k).by = "core"
  BY ExtensionsAssumption DEF CoreEntry, Entry, CommandEntry
<1>. QED BY <1>1, ExtensionsAssumption

\* The empty table of records and the core alone.
LEMMA BooksBegin ==
    ASSUME entries = CoreTable, hooks = {},
           \A e \in Ext : ~ Executing(e) /\ ~ IsLoaded(e),
           \A e \in Ext : records[e] # None =>
              records[e].ext = e /\ records[e].names = {} /\ records[e].replaced = {}
    PROVE  Books
<1>1. \A k \in Core : entries[k] = CoreEntry(k)
  BY ExtensionsAssumption DEF CoreTable
<1>2. \A k \in Name : entries[k] # None => entries[k].by \notin Ext
  BY CoreEntryIs DEF CoreTable
<1>. QED
  BY <1>1, <1>2 DEF Books, OwnersLive, RecordsAreOwn, ScriptIsKnown, CoreIsKept

LEMMA BooksInit == Init => BookInv
<1>. SUFFICES ASSUME Init PROVE Books BY DEF BookInv
<1>1. \A e \in Ext : ~ Executing(e) /\ ~ IsLoaded(e)
  BY DEF Init, Executing, IsLoaded
<1>. QED BY <1>1, BooksBegin DEF Init

\* A record that stays what it was, or is one without bookkeeping; a loaded one
\* stays unless it is marked as moved.
RecordKept(e) ==
    /\ records'[e] # None =>
          /\ records'[e].ext = e
          /\ \/ records'[e].names = {} /\ records'[e].replaced = {}
             \/ /\ records[e] # None
                /\ records'[e].names = records[e].names
                /\ records'[e].replaced = records[e].replaced
                /\ IsLoaded(e) => records'[e].status = "loaded"
    /\ IsLoaded(e) /\ e \notin amiss'.moved =>
          /\ records'[e] # None /\ records'[e].status = "loaded"
          /\ records'[e].replaced = records[e].replaced

\* Steps outside the script that leave the table alone.
LEMMA QuietBooks ==
    ASSUME BookInv, UNCHANGED <<entries, hooks>>,
           amiss'.crossed = amiss.crossed, amiss.moved \subseteq amiss'.moved,
           amiss'.taken = amiss.taken,
           \A e \in Ext : ~ Executing(e) /\ ~ Executing(e)' /\ RecordKept(e)
    PROVE  BookInv'
<1>. SUFFICES ASSUME ~ amiss.crossed PROVE Books' BY DEF BookInv
<1>1. OwnersLive /\ RecordsAreOwn /\ CoreIsKept BY DEF BookInv, Books
<1>2. OwnersLive' BY <1>1 DEF OwnersLive, RecordKept, IsLoaded
<1>3. RecordsAreOwn' BY <1>1 DEF RecordsAreOwn, RecordKept, IsLoaded
<1>4. ScriptIsKnown' BY DEF ScriptIsKnown
<1>5. CoreIsKept'
  <2>. SUFFICES ASSUME amiss'.moved = {}, ~ amiss'.taken, NEW k \in Core,
                       entries[k] # CoreEntry(k)
                PROVE  \E e \in Ext : records'[e] # None
                                         /\ CoreEntry(k) \in records'[e].replaced
    BY DEF CoreIsKept
  <2>1. PICK e \in Ext : records[e] # None /\ CoreEntry(k) \in records[e].replaced
    BY <1>1 DEF CoreIsKept
  <2>2. IsLoaded(e) BY <1>1, <2>1 DEF RecordsAreOwn
  <2>. QED BY <2>1, <2>2 DEF RecordKept
<1>. QED BY <1>2, <1>3, <1>4, <1>5 DEF Books

\* The record that discovery finds.
LEMMA FoundKept ==
    ASSUME TypeOK, RecordsAreOwn, NEW map, NEW e \in Ext
    PROVE  /\ Found(e, map) # None =>
                /\ Found(e, map).ext = e
                /\ \/ Found(e, map).names = {} /\ Found(e, map).replaced = {}
                   \/ /\ records[e] # None
                      /\ Found(e, map).names = records[e].names
                      /\ Found(e, map).replaced = records[e].replaced
                      /\ IsLoaded(e) => Found(e, map).status = "loaded"
           /\ IsLoaded(e) /\ e \notin LosesLoaded(map) =>
                /\ Found(e, map) # None /\ Found(e, map).status = "loaded"
                /\ Found(e, map).replaced = records[e].replaced
           /\ Found(e, map) # None /\ Found(e, map).status # "loaded" =>
                /\ Found(e, map).names = {} /\ Found(e, map).replaced = {}
<1>. DEFINE r == records[e]
            n == NewRecord(e, map)
            f == Found(e, map)
<1>1. /\ n.ext = e /\ n.names = {} /\ n.replaced = {} /\ n.status # "loaded"
  BY DEF NewRecord, Waiting
<1>2. r # None => r \in ExtensionRecord /\ r.ext = e
                  /\ (r.status # "loaded" => r.names = {} /\ r.replaced = {})
  BY DEF TypeOK, RecordsAreOwn, IsLoaded
<1>3. \/ f \in {None, n}
      \/ /\ r # None /\ f.names = r.names /\ f.replaced = r.replaced /\ f.ext = r.ext
         /\ f.status = "loaded" <=> r.status = "loaded"
  <2>1. CASE f \in {None, n} BY <2>1
  <2>2. CASE f \notin {None, n}
    <3>1. r # None BY <2>2 DEF Found
    <3>2. \/ f = r
          \/ f = [r EXCEPT !.place = First(disk[e]), !.enabled = Prefers(map, e),
                           !.status = IF @ = "loaded" THEN @ ELSE "error"]
          \/ f = [r EXCEPT !.enabled = Prefers(map, e),
                        !.status = IF @ \in {"loaded", "error"} THEN @
                                   ELSE Waiting(Prefers(map, e))]
      BY <2>2, <3>1 DEF Found
    <3>. QED BY <1>2, <3>1, <3>2 DEF ExtensionRecord, Waiting
  <2>. QED BY <2>1, <2>2
<1>4. IsLoaded(e) /\ e \notin LosesLoaded(map) => f # None /\ f.status = "loaded"
  BY DEF IsLoaded, LosesLoaded
<1>. HIDE DEF f, n
<1>. QED BY <1>1, <1>2, <1>3, <1>4 DEF IsLoaded, f

LEMMA DiscoverBooks ==
    ASSUME TypeOK, BookInv, NEW map, Discover(map), UNCHANGED <<entries, hooks>>,
           \A e \in Ext : ~ Executing(e) /\ ~ Executing(e)'
    PROVE  BookInv'
<1>1. /\ amiss'.crossed = amiss.crossed /\ amiss'.taken = amiss.taken
      /\ amiss'.moved = amiss.moved \cup LosesLoaded(map)
      /\ \A e \in Ext : records'[e] = Found(e, map)
  BY DEF Discover, Discovered, TypeOK
<1>2. CASE amiss.crossed BY <1>1, <1>2 DEF BookInv
<1>3. CASE ~ amiss.crossed
  <2>1. RecordsAreOwn BY <1>3 DEF BookInv, Books
  <2>2. \A e \in Ext : RecordKept(e)
    BY <1>1, <2>1, FoundKept DEF RecordKept
  <2>. QED BY <1>1, <2>2, QuietBooks
<1>. QED BY <1>2, <1>3

\* Only a step to the script makes an extension execute.
LEMMA NotExecuting ==
    ASSUME NEW step \in {"read", "write", "load", "teardown", "boot"},
           job' = Idle \/ job'.at = step
    PROVE  \A e \in Ext : ~ Executing(e)'
BY DEF Executing

LEMMA KeptRecord ==
    ASSUME ~ amiss.crossed, BookInv, NEW e \in Ext, records'[e] = records[e]
    PROVE  RecordKept(e)
BY DEF BookInv, Books, RecordsAreOwn, RecordKept, IsLoaded

\* Steps that change neither the table nor a record.
LEMMA StandingBooks ==
    ASSUME BookInv, UNCHANGED <<entries, hooks, records, amiss>>,
           \A e \in Ext : ~ Executing(e) /\ ~ Executing(e)'
    PROVE  BookInv'
<1>1. CASE amiss.crossed BY <1>1 DEF BookInv
<1>2. CASE ~ amiss.crossed BY <1>2, KeptRecord, QuietBooks
<1>. QED BY <1>1, <1>2

LEMMA BeginBooks ==
    ASSUME TypeInv, BookInv, NEW e \in Ext,
           NEW op \in {"enable", "disable", "reload", "unload"}, Begin(op, e)
    PROVE  BookInv'
<1>1. PICK map \in {prefs, EmptyMap} : Reads(map, 1) /\ Discover(map) BY DEF Begin
<1>2. \A x \in Ext : ~ Executing(x) BY DEF Begin, Executing
<1>. DEFINE step == IF op \in {"enable", "disable"} THEN "read" ELSE "teardown"
<1>3. Running(op, e, step).at = step BY RunningType DEF Ops
<1>4. job' = Idle \/ job'.at = step BY <1>3 DEF Begin
<1>5. \A x \in Ext : ~ Executing(x)' BY <1>4, NotExecuting
<1>. QED BY <1>1, <1>2, <1>5, DiscoverBooks DEF Begin, TypeInv

LEMMA QuietJobBooks ==
    ASSUME TypeInv, BookInv,
           ReadMap \/ WriteFails \/ Boot
           \/ \E e \in Ext : BeginLoad(e) \/ Add(e) \/ ChangeDisk(e)
    PROVE  BookInv'
<1>1. UNCHANGED <<entries, hooks, records, amiss>>
  BY DEF ReadMap, WriteFails, Boot, BeginLoad, Add, ChangeDisk
<1>2. \A x \in Ext : ~ Executing(x)
  BY DEF ReadMap, WriteFails, Boot, BeginLoad, Add, ChangeDisk, At, Executing
<1>3. \A e \in Ext : /\ Running("load", e, "load").at = "load"
                     /\ Running("add", e, "read").at = "read"
  BY RunningType DEF Ops
<1>4. job # Idle => job \in Job BY DEF TypeInv, TypeOK
<1>5. job' = Idle \/ job'.at \in {"read", "write", "load", "boot"}
  BY <1>3, <1>4 DEF ReadMap, WriteFails, Boot, BeginLoad, Add, ChangeDisk, At, Job
<1>6. \A x \in Ext : ~ Executing(x)' BY <1>5 DEF Executing
<1>. QED BY <1>1, <1>2, <1>6, StandingBooks

LEMMA WriteMapBooks ==
    ASSUME TypeInv, BookInv, WriteMap
    PROVE  BookInv'
<1>. DEFINE e == job.ext
<1>1. /\ job \in Job /\ job # Idle /\ e \in Ext
      /\ job.op # "add" => records[e] \in ExtensionRecord /\ records[e] # None
      /\ UNCHANGED <<entries, hooks>>
  BY ExtensionsAssumption DEF WriteMap, At, TypeInv, TypeOK, JobInv
<1>2. \A x \in Ext : ~ Executing(x) BY DEF WriteMap, At, Executing
<1>3. job' = Idle \/ job'.at \in {"load", "teardown"}
  BY <1>1 DEF WriteMap, Written, Goto, Job
<1>4. \A x \in Ext : ~ Executing(x)' BY <1>3 DEF Executing
<1>5. CASE job.op = "add"
  <2>. DEFINE p == prefs'
  <2>1. Discover(p) BY <1>5 DEF WriteMap, Written
  <2>. HIDE DEF p
  <2>. QED BY <1>1, <1>2, <1>4, <2>1, DiscoverBooks DEF TypeInv
<1>6. CASE job.op # "add"
  <2>1. /\ \A f \in Ext \ {e} : records'[f] = records[f]
        /\ records'[e].replaced = records[e].replaced
        /\ records'[e].names = records[e].names
        /\ records'[e].ext = records[e].ext
        /\ IsLoaded(e) => records'[e].status = "loaded"
        /\ UNCHANGED amiss
    BY <1>1, <1>6 DEF WriteMap, Written, ExtensionRecord, TypeInv, TypeOK, IsLoaded
  <2>2. IsLoaded(e) => records'[e] # None
    <3>. DEFINE x == [records[e] EXCEPT !.enabled = FALSE]
                y == [records[e] EXCEPT !.enabled = TRUE,
                               !.status = IF @ = "loaded" THEN @ ELSE "enabled"]
    <3>1. x \in ExtensionRecord /\ y \in ExtensionRecord
      BY <1>1, <1>6 DEF ExtensionRecord
    <3>2. records' = [records EXCEPT ![e] = x] \/ records' = [records EXCEPT ![e] = y]
      BY <1>1, <1>6 DEF WriteMap, Written, ExtensionRecord, TypeInv, TypeOK
    <3>. HIDE DEF x, y
    <3>3. records'[e] \in ExtensionRecord BY <1>1, <3>1, <3>2 DEF TypeInv, TypeOK
    <3>. QED BY <3>3, ExtensionsAssumption
  <2>3. CASE amiss.crossed BY <2>1, <2>3 DEF BookInv
  <2>4. CASE ~ amiss.crossed
    <3>1. RecordsAreOwn BY <2>4 DEF BookInv, Books
    <3>2. RecordKept(e) BY <1>1, <1>6, <2>1, <2>2, <3>1 DEF RecordKept, RecordsAreOwn
    <3>3. \A f \in Ext : RecordKept(f) BY <2>1, <2>4, <3>2, KeptRecord
    <3>. QED BY <1>1, <1>2, <1>4, <2>1, <3>3, QuietBooks
  <2>. QED BY <2>3, <2>4
<1>. QED BY <1>5, <1>6

\* What teardown does to the table: the commands of the extension go, those of
\* others stay, and what it had displaced is back unless that is marked.
LEMMA TornDown ==
    ASSUME TypeOK, NEW r \in ExtensionRecord, Apart(r.replaced), NEW moved,
           Teardown(r, moved), r.ext \in Ext,
           \A k \in r.names : entries[k] # None => entries[k].by = r.ext,
           \A x \in r.replaced : x.by \notin Ext
    PROVE  /\ \A h \in hooks' : h \in hooks /\ h[1] # r.ext
           /\ \A k \in Name : entries'[k] # None =>
                /\ entries'[k].by # r.ext
                /\ entries'[k].by \in Ext => entries'[k] = entries[k]
           /\ \A k \in Name : entries[k] # None /\ entries[k].by # r.ext
                => entries'[k] = entries[k]
           /\ amiss'.crossed = amiss.crossed
           /\ amiss'.moved = amiss.moved \cup moved
           /\ ~ amiss'.taken => ~ amiss.taken
                                /\ \A x \in r.replaced : entries'[x.name] = x
<1>. DEFINE ks == Owned(r)
            add == Returning(r, ks)
<1>1. \A k \in Name : k \in ks <=> entries[k] # None /\ entries[k].by = r.ext
  BY DEF Owned
<1>2. /\ add \subseteq r.replaced /\ add \subseteq CommandEntry /\ Apart(add)
      /\ \A x \in add : entries[x.name] = None \/ x.name \in ks
  BY ApartSubset DEF Returning, ExtensionRecord, Free
<1>3. Replaced(ks, add) BY DEF Teardown
<1>4. amiss'.taken = (amiss.taken \/ add # r.replaced)
  <2>. DEFINE c == amiss.taken \/ add # r.replaced
              m == amiss.moved \cup moved
  <2>1. amiss' = [amiss EXCEPT !.moved = m, !.taken = c] BY DEF Teardown
  <2>. HIDE DEF c, m
  <2>2. amiss'.taken = c BY <2>1 DEF TypeOK
  <2>. QED BY <2>2 DEF c
<1>5. amiss'.crossed = amiss.crossed /\ amiss'.moved = amiss.moved \cup moved
  <2>. DEFINE c == amiss.taken \/ add # r.replaced
  <2>1. amiss' = [amiss EXCEPT !.moved = @ \cup moved, !.taken = c] BY DEF Teardown
  <2>. HIDE DEF c
  <2>. QED BY <2>1 DEF TypeOK
<1>6. \A h \in hooks' : h \in hooks /\ h[1] # r.ext BY DEF Teardown
<1>. HIDE DEF ks, add
<1>7. ASSUME NEW x \in add PROVE entries'[x.name] = x /\ x.name \in Name /\ x # None
  <2>1. x.name \in Name /\ x # None BY <1>2, ExtensionsAssumption DEF CommandEntry
  <2>2. \A y \in add : y.name = x.name => y = x BY <1>2 DEF Apart, WordsOf
  <2>3. (CHOOSE y \in add : y.name = x.name) = x BY <2>2
  <2>. QED BY <1>3, <2>1, <2>3 DEF Replaced
<1>8. \A k \in Name : (\A x \in add : x.name # k) =>
          entries'[k] = IF k \in ks THEN None ELSE entries[k]
  BY <1>3 DEF Replaced
<1>9. ASSUME NEW k \in Name, entries'[k] # None
      PROVE  /\ entries'[k].by # r.ext
             /\ entries'[k].by \in Ext => entries'[k] = entries[k]
  <2>1. CASE \E x \in add : x.name = k BY <1>2, <1>7, <2>1
  <2>2. CASE \A x \in add : x.name # k BY <1>1, <1>8, <1>9, <2>2
  <2>. QED BY <2>1, <2>2
<1>10. ASSUME NEW k \in Name, entries[k] # None, entries[k].by # r.ext
       PROVE  entries'[k] = entries[k]
  <2>1. k \notin ks BY <1>1, <1>10
  <2>2. \A x \in add : x.name # k BY <1>2, <1>10, <2>1
  <2>. QED BY <1>8, <2>1, <2>2
<1>11. ~ amiss'.taken => ~ amiss.taken /\ \A x \in r.replaced : entries'[x.name] = x
  BY <1>4, <1>7
<1>. QED BY <1>5, <1>6, <1>9, <1>10, <1>11

LEMMA TeardownCrosses ==
    ASSUME TypeOK, NEW r, NEW moved, Teardown(r, moved)
    PROVE  amiss'.crossed = amiss.crossed
<1>. DEFINE c == amiss.taken \/ Returning(r, Owned(r)) # r.replaced
<1>1. amiss' = [amiss EXCEPT !.moved = @ \cup moved, !.taken = c] BY DEF Teardown
<1>. HIDE DEF c
<1>. QED BY <1>1 DEF TypeOK

LEMMA TearDownBooks ==
    ASSUME TypeInv, WordInv, BookInv, TearDown
    PROVE  BookInv'
<1>. DEFINE e == job.ext
            r == records[e]
            s == IF job.op = "disable" THEN "disabled" ELSE Waiting(r.enabled)
<1>1. job \in Job /\ job # Idle /\ e \in Ext /\ r \in ExtensionRecord /\ r # None
  BY ExtensionsAssumption DEF TearDown, At, TypeInv, TypeOK, JobInv
<1>2. Apart(r.replaced) BY <1>1 DEF WordInv, DisplacedApart
<1>3. Teardown(r, {}) BY DEF TearDown
<1>4. s \in {"enabled", "disabled"} BY DEF Waiting
<1>5. /\ records'[e] = Cleared(r, s)
      /\ \A f \in Ext \ {e} : records'[f] = records[f]
  BY <1>1 DEF TearDown, TypeInv, TypeOK
<1>6. /\ Cleared(r, s).replaced = {} /\ Cleared(r, s).names = {}
      /\ Cleared(r, s).ext = r.ext /\ Cleared(r, s).status = s
  <2>. HIDE DEF s, r
  <2>. QED BY <1>1, <1>4 DEF Cleared, ExtensionRecord
<1>. HIDE DEF s
<1>7. \A x \in Ext : ~ Executing(x) BY DEF TearDown, At, Executing
<1>8. job' = Idle \/ job'.at = "load" BY <1>1 DEF TearDown, Goto, Job
<1>9. \A x \in Ext : ~ Executing(x)' BY <1>8 DEF Executing
<1>10. amiss'.crossed = amiss.crossed
  BY <1>3 DEF Teardown, TypeInv, TypeOK
<1>. SUFFICES ASSUME ~ amiss.crossed PROVE Books' BY <1>10 DEF BookInv
<1>11. OwnersLive /\ RecordsAreOwn /\ CoreIsKept BY DEF BookInv, Books
<1>12. /\ r.ext = e
       /\ \A k \in r.names : entries[k] # None => entries[k].by = e
       /\ \A x \in r.replaced : x.by \notin Ext
  BY <1>1, <1>11 DEF RecordsAreOwn
<1>13. /\ \A h \in hooks' : h \in hooks /\ h[1] # e
       /\ \A k \in Name : entries'[k] # None =>
            entries'[k].by # e /\ (entries'[k].by \in Ext => entries'[k] = entries[k])
       /\ \A k \in Name : entries[k] # None /\ entries[k].by # e
            => entries'[k] = entries[k]
       /\ amiss'.moved = amiss.moved
       /\ ~ amiss'.taken => ~ amiss.taken /\ \A x \in r.replaced : entries'[x.name] = x
  <2>1. TypeOK BY DEF TypeInv
  <2>2. \A k \in r.names : entries[k] # None => entries[k].by = r.ext BY <1>12
  <2>3. r.ext \in Ext BY <1>1, <1>12
  <2>. DEFINE m == {}
  <2>4. Teardown(r, m) BY <1>3
  <2>. HIDE DEF r, e, m
  <2>5. amiss'.moved = amiss.moved \cup m
    BY <1>1, <1>2, <1>12, <2>1, <2>2, <2>3, <2>4, TornDown
  <2>6. amiss'.moved = amiss.moved BY <2>5 DEF m
  <2>. QED BY <1>1, <1>2, <1>12, <2>1, <2>2, <2>3, <2>4, <2>6, TornDown
<1>14. OwnersLive'
  BY <1>5, <1>7, <1>11, <1>13 DEF OwnersLive, IsLoaded
<1>15. RecordsAreOwn'
  <2>1. \A f \in Ext : records[f] # None => records[f].names \subseteq Name
    BY DEF TypeInv, TypeOK, ExtensionRecord
  <2>. QED BY <1>5, <1>6, <1>11, <1>12, <1>13, <2>1 DEF RecordsAreOwn, IsLoaded
<1>16. ScriptIsKnown' BY <1>9 DEF ScriptIsKnown
<1>17. CoreIsKept'
  <2>. SUFFICES ASSUME amiss'.moved = {}, ~ amiss'.taken, NEW k \in Core
                PROVE  \/ entries'[k] = CoreEntry(k)
                       \/ \E f \in Ext : records'[f] # None
                                         /\ CoreEntry(k) \in records'[f].replaced
    BY DEF CoreIsKept
  <2>1. CASE entries[k] = CoreEntry(k) BY <1>1, <1>13, <2>1, CoreEntryIs
  <2>2. ASSUME NEW f \in Ext, records[f] # None, CoreEntry(k) \in records[f].replaced
        PROVE  \/ entries'[k] = CoreEntry(k)
               \/ records'[f] # None /\ CoreEntry(k) \in records'[f].replaced
    BY <1>5, <1>13, <2>2, CoreEntryIs
  <2>. QED BY <1>7, <1>11, <1>13, <2>1, <2>2 DEF CoreIsKept
<1>. QED BY <1>14, <1>15, <1>16, <1>17 DEF Books

LEMMA LoadBooks ==
    ASSUME TypeInv, TypeInv', WordInv, BookInv, Load
    PROVE  BookInv'
<1>. DEFINE e == job.ext
<1>1. job \in Job /\ job # Idle /\ e \in Ext /\ \A x \in Ext : ~ Executing(x)
  BY DEF Load, At, TypeInv, TypeOK, JobInv, Executing
<1>2. PICK map \in {prefs, EmptyMap} :
        IF Found(e, map) = None \/ Found(e, map).status = "loaded"
        THEN Discover(map) /\ After /\ UNCHANGED <<table, gen>>
        ELSE /\ Teardown(Found(e, map), LosesLoaded(map))
             /\ records' = [Discovered(map) EXCEPT
                               ![e] = Cleared(Found(e, map), Found(e, map).status)]
             /\ gen' = gen + 1
             /\ job' = [job EXCEPT !.before = entries', !.left = script[e],
                                   !.at = "exec"]
  BY DEF Load
<1>3. map \in Preferences BY MapIsTyped DEF TypeInv
<1>. DEFINE r == Found(e, map)
            lost == LosesLoaded(map)
<1>4. CASE r = None \/ r.status = "loaded"
  <2>1. Discover(map) /\ After /\ UNCHANGED <<table, gen>> BY <1>2, <1>4
  <2>2. job' = Idle \/ job'.at = "boot" BY <1>1, <2>1 DEF After, Goto, Job
  <2>3. \A x \in Ext : ~ Executing(x)' BY <2>2 DEF Executing
  <2>. QED BY <1>1, <2>1, <2>3, DiscoverBooks DEF TypeInv
<1>5. CASE ~ (r = None \/ r.status = "loaded")
  <2>1. /\ Teardown(r, lost)
        /\ records' = [Discovered(map) EXCEPT ![e] = Cleared(r, r.status)]
        /\ job' = [job EXCEPT !.before = entries', !.left = script[e], !.at = "exec"]
    BY <1>2, <1>5
  <2>2. r \in ExtensionRecord BY <1>1, <1>3, <1>5, FoundType DEF TypeInv
  <2>3. Apart(r.replaced) BY <1>1, <1>3, <1>5, FoundApart DEF TypeInv, WordInv
  <2>4. r.status \in {"enabled", "disabled", "loaded", "error"}
    BY <2>2 DEF ExtensionRecord
  <2>5. /\ Cleared(r, r.status).replaced = {} /\ Cleared(r, r.status).names = {}
        /\ Cleared(r, r.status).ext = r.ext /\ Cleared(r, r.status).status = r.status
    <3>. HIDE DEF r
    <3>. QED BY <2>2, <2>4 DEF Cleared, ExtensionRecord
  <2>6. /\ records'[e] = Cleared(r, r.status)
        /\ \A f \in Ext \ {e} : records'[f] = Found(f, map)
    BY <1>1, <2>1 DEF Discovered
  <2>7. job' # Idle /\ job'.at = "exec" /\ job'.ext = e /\ job'.before = entries'
    <3>1. job'.at = "exec" /\ job'.ext = e /\ job'.before = entries'
      BY <1>1, <2>1 DEF Job
    <3>2. job' = Idle => FALSE BY <1>1, <2>1 DEF Job, Idle
    <3>. QED BY <3>1, <3>2
  <2>8. amiss'.crossed = amiss.crossed
    <3>. HIDE DEF r
    <3>. QED BY <2>1, TeardownCrosses DEF TypeInv
  <2>. SUFFICES ASSUME ~ amiss.crossed PROVE Books' BY <2>8 DEF BookInv
  <2>9. OwnersLive /\ RecordsAreOwn /\ CoreIsKept BY DEF BookInv, Books
  <2>10. r.ext = e /\ r.names = {} /\ r.replaced = {}
    BY <1>1, <1>5, <2>9, FoundKept DEF TypeInv
  <2>11. /\ \A h \in hooks' : h \in hooks /\ h[1] # e
         /\ \A k \in Name : entries'[k] # None =>
              entries'[k].by # e /\ (entries'[k].by \in Ext => entries'[k] = entries[k])
         /\ \A k \in Name : entries[k] # None /\ entries[k].by # e
              => entries'[k] = entries[k]
         /\ amiss'.moved = amiss.moved \cup lost
         /\ ~ amiss'.taken => ~ amiss.taken
    <3>1. TypeOK BY DEF TypeInv
    <3>. HIDE DEF r, e, lost
    <3>. QED BY <1>1, <2>1, <2>2, <2>3, <2>10, <3>1, TornDown
  <2>12. \A f \in Ext : /\ Found(f, map) # None => Found(f, map).ext = f
                        /\ IsLoaded(f) /\ f \notin lost =>
                              /\ Found(f, map) # None /\ Found(f, map).status = "loaded"
                              /\ Found(f, map).replaced = records[f].replaced
    BY <2>9, FoundKept DEF TypeInv
  <2>13. OwnersLive'
    <3>1. \A f \in Ext \ amiss'.moved : f # e /\ IsLoaded(f) => IsLoaded(f)'
      BY <2>6, <2>11, <2>12 DEF IsLoaded
    <3>. QED BY <1>1, <2>9, <2>11, <3>1 DEF OwnersLive
  <2>14. RecordsAreOwn'
    <3>. SUFFICES ASSUME NEW f \in Ext, records'[f] # None
                  PROVE  /\ records'[f].ext = f
                         /\ \A k \in records'[f].names :
                               entries'[k] # None /\ entries'[k].by = f
                         /\ \A x \in records'[f].replaced : x.by \notin Ext
                         /\ records'[f].status # "loaded" =>
                               records'[f].names = {} /\ records'[f].replaced = {}
      BY DEF RecordsAreOwn, IsLoaded
    <3>1. CASE f = e BY <2>5, <2>6, <2>10, <3>1
    <3>2. CASE f # e
      <4>1. records'[f] = Found(f, map) BY <2>6, <3>2
      <4>2. records[f] # None => records[f].names \subseteq Name
        BY DEF TypeInv, TypeOK, ExtensionRecord
      <4>3. \A k \in Name : entries[k] # None /\ entries[k].by = f =>
               entries'[k] # None /\ entries'[k].by = f
        BY <2>11, <3>2
      <4>. HIDE DEF r, e, lost
      <4>4. /\ Found(f, map).ext = f
            /\ \/ Found(f, map).names = {} /\ Found(f, map).replaced = {}
               \/ /\ records[f] # None
                  /\ Found(f, map).names = records[f].names
                  /\ Found(f, map).replaced = records[f].replaced
            /\ Found(f, map).status # "loaded" =>
                  Found(f, map).names = {} /\ Found(f, map).replaced = {}
        BY <2>9, <3>2, <4>1, FoundKept DEF TypeInv
      <4>. QED BY <2>9, <4>1, <4>2, <4>3, <4>4 DEF RecordsAreOwn
    <3>. QED BY <3>1, <3>2
  <2>15. ScriptIsKnown'
    <3>1. records'[e].status # "loaded" BY <1>5, <2>5, <2>6
    <3>. HIDE DEF e
    <3>. QED BY <2>7, <2>11, <3>1 DEF ScriptIsKnown, Executing, IsLoaded
  <2>16. CoreIsKept'
    <3>. SUFFICES ASSUME amiss'.moved = {}, ~ amiss'.taken, NEW k \in Core
                  PROVE  \/ entries'[k] = CoreEntry(k)
                         \/ \E f \in Ext : records'[f] # None
                                           /\ CoreEntry(k) \in records'[f].replaced
      BY DEF CoreIsKept
    <3>1. CASE entries[k] = CoreEntry(k) BY <1>1, <2>11, <3>1, CoreEntryIs
    <3>2. ASSUME NEW f \in Ext, records[f] # None, CoreEntry(k) \in records[f].replaced
          PROVE  records'[f] # None /\ CoreEntry(k) \in records'[f].replaced
      <4>1. IsLoaded(f) BY <2>9, <3>2 DEF RecordsAreOwn
      <4>2. f # e BY <1>5, <2>11, <2>12, <4>1
      <4>. QED BY <2>6, <2>11, <2>12, <3>2, <4>1, <4>2
    <3>. QED BY <1>1, <2>9, <2>11, <3>1, <3>2 DEF CoreIsKept
  <2>. QED BY <2>13, <2>14, <2>15, <2>16 DEF Books
<1>. QED BY <1>4, <1>5

\* What the running script changed in the table.
LEMMA ScriptDelta ==
    ASSUME NEW e \in Ext, Executing(e), ScriptIsKnown
    PROVE  /\ \A k \in Changed(job.before) : entries[k] # None /\ entries[k].by = e
           /\ \A x \in Displaced(job.before) : x.by \notin Ext
           /\ \A k \in Core : job.before[k] = CoreEntry(k) =>
                 entries[k] = CoreEntry(k) \/ CoreEntry(k) \in Displaced(job.before)
<1>1. \A k \in Changed(job.before) : entries[k] # None /\ entries[k].by = e
  BY DEF ScriptIsKnown, Changed
<1>2. \A x \in Displaced(job.before) : x.by \notin Ext
  <2>. SUFFICES ASSUME NEW k \in Name, job.before[k] # None, job.before[k].by \in Ext,
                       k \in Changed(job.before) \/ entries[k] = None
                PROVE  FALSE
    BY DEF Displaced
  <2>1. entries[k] = job.before[k] BY DEF ScriptIsKnown
  <2>. QED BY <2>1 DEF Changed
<1>3. ASSUME NEW k \in Core, job.before[k] = CoreEntry(k), entries[k] # CoreEntry(k)
      PROVE  CoreEntry(k) \in Displaced(job.before)
  BY <1>3, CoreEntryIs DEF Displaced, Changed
<1>. QED BY <1>1, <1>2, <1>3

\* The failed script is taken back: the table is the one it began with.
LEMMA LoadFailsBooks ==
    ASSUME TypeInv, WordInv, BookInv, LoadFails
    PROVE  BookInv'
<1>. DEFINE e == job.ext
            c == Changed(job.before)
            d == Displaced(job.before)
            r == [records[e] EXCEPT !.names = c, !.replaced = d]
            m == {}
<1>1. job \in Job /\ job # Idle /\ e \in Ext /\ records[e] \in ExtensionRecord
      /\ records[e] # None /\ Executing(e) /\ \A x \in Ext : Executing(x) => x = e
  BY ExtensionsAssumption DEF LoadFails, At, TypeInv, TypeOK, JobInv, Executing
<1>2. Apart(d) BY <1>1, DisplacedIsApart DEF WordInv
<1>3. c \in SUBSET Name /\ d \in SUBSET CommandEntry BY <1>1, DeltaType DEF Job
<1>4. r \in ExtensionRecord /\ r.replaced = d /\ r.names = c /\ r.ext = records[e].ext
  <2>. HIDE DEF c, d
  <2>. QED BY <1>1, <1>3 DEF ExtensionRecord
<1>5. Teardown(r, m) /\ records' = [records EXCEPT ![e] = Cleared(r, "error")] /\ After
  BY DEF LoadFails
<1>6. /\ Cleared(r, "error").replaced = {} /\ Cleared(r, "error").names = {}
      /\ Cleared(r, "error").ext = r.ext /\ Cleared(r, "error").status = "error"
  <2>. HIDE DEF r
  <2>. QED BY <1>4 DEF Cleared, ExtensionRecord
<1>7. /\ records'[e] = Cleared(r, "error")
      /\ \A f \in Ext \ {e} : records'[f] = records[f]
  <2>. HIDE DEF r
  <2>. QED BY <1>1, <1>5 DEF TypeInv, TypeOK
<1>8. job' = Idle \/ job'.at = "boot" BY <1>1, <1>5 DEF After, Goto, Job
<1>9. \A x \in Ext : ~ Executing(x)' BY <1>8 DEF Executing
<1>10. amiss'.crossed = amiss.crossed
  <2>. HIDE DEF r, m
  <2>. QED BY <1>5, TeardownCrosses DEF TypeInv
<1>. SUFFICES ASSUME ~ amiss.crossed PROVE Books' BY <1>10 DEF BookInv
<1>11. OwnersLive /\ RecordsAreOwn /\ ScriptIsKnown /\ CoreIsKept BY DEF BookInv, Books
<1>12. /\ r.ext = e
       /\ \A k \in r.names : entries[k] # None => entries[k].by = r.ext
       /\ \A x \in r.replaced : x.by \notin Ext
  <2>1. r.ext = e BY <1>1, <1>4, <1>11 DEF RecordsAreOwn
  <2>2. (\A k \in c : entries[k].by = e) /\ \A x \in d : x.by \notin Ext
    BY <1>1, <1>11, ScriptDelta
  <2>. HIDE DEF r, c, d, e
  <2>. QED BY <1>4, <2>1, <2>2
<1>13. /\ \A h \in hooks' : h \in hooks /\ h[1] # e
       /\ \A k \in Name : entries'[k] # None =>
            entries'[k].by # e /\ (entries'[k].by \in Ext => entries'[k] = entries[k])
       /\ \A k \in Name : entries[k] # None /\ entries[k].by # e
            => entries'[k] = entries[k]
       /\ amiss'.moved = amiss.moved
       /\ ~ amiss'.taken => ~ amiss.taken /\ \A x \in d : entries'[x.name] = x
  <2>1. TypeOK BY DEF TypeInv
  <2>. HIDE DEF r, c, d, e, m
  <2>2. /\ \A h \in hooks' : h \in hooks /\ h[1] # e
        /\ \A k \in Name : entries'[k] # None =>
             entries'[k].by # e /\ (entries'[k].by \in Ext => entries'[k] = entries[k])
        /\ \A k \in Name : entries[k] # None /\ entries[k].by # e
             => entries'[k] = entries[k]
        /\ amiss'.moved = amiss.moved \cup m
        /\ ~ amiss'.taken => ~ amiss.taken /\ \A x \in d : entries'[x.name] = x
    BY <1>1, <1>2, <1>4, <1>5, <1>12, <2>1, TornDown
  <2>3. amiss.moved \cup m = amiss.moved BY DEF m
  <2>. QED BY <2>2, <2>3
<1>. HIDE DEF r, c, m
<1>14. OwnersLive'
  BY <1>1, <1>7, <1>11, <1>13 DEF OwnersLive, IsLoaded
<1>15. RecordsAreOwn'
  <2>1. \A f \in Ext : records[f] # None => records[f].names \subseteq Name
    BY DEF TypeInv, TypeOK, ExtensionRecord
  <2>. QED BY <1>6, <1>7, <1>11, <1>12, <1>13, <2>1 DEF RecordsAreOwn, IsLoaded
<1>16. ScriptIsKnown' BY <1>9 DEF ScriptIsKnown
<1>17. CoreIsKept'
  <2>. SUFFICES ASSUME amiss'.moved = {}, ~ amiss'.taken, NEW k \in Core
                PROVE  \/ entries'[k] = CoreEntry(k)
                       \/ \E f \in Ext : records'[f] # None
                                         /\ CoreEntry(k) \in records'[f].replaced
    BY DEF CoreIsKept
  <2>1. CASE entries[k] = CoreEntry(k) BY <1>1, <1>13, <2>1, CoreEntryIs
  <2>2. ASSUME NEW f \in Ext, records[f] # None, CoreEntry(k) \in records[f].replaced
        PROVE  records'[f] # None /\ CoreEntry(k) \in records'[f].replaced
    <3>1. f # e BY <1>1, <1>11, <2>2 DEF RecordsAreOwn, ScriptIsKnown
    <3>. QED BY <1>7, <2>2, <3>1
  <2>3. CASE job.before[k] = CoreEntry(k)
    <3>1. CoreEntry(k) \in d => entries'[k] = CoreEntry(k) BY <1>13, CoreEntryIs
    <3>. QED BY <1>1, <1>11, <2>1, <2>3, <3>1, ScriptDelta DEF d
  <2>. QED BY <1>1, <1>11, <1>13, <2>1, <2>2, <2>3 DEF CoreIsKept
<1>. QED BY <1>14, <1>15, <1>16, <1>17 DEF Books

LEMMA LoadedBooks ==
    ASSUME TypeInv, BookInv, Loaded
    PROVE  BookInv'
<1>. DEFINE e == job.ext
            c == Changed(job.before)
            d == Displaced(job.before)
<1>1. job \in Job /\ job # Idle /\ e \in Ext /\ records[e] \in ExtensionRecord
      /\ records[e] # None /\ Executing(e) /\ \A x \in Ext : Executing(x) => x = e
  BY ExtensionsAssumption DEF Loaded, At, TypeInv, TypeOK, JobInv, Executing
<1>2. c \in SUBSET Name /\ d \in SUBSET CommandEntry BY <1>1, DeltaType DEF Job
<1>3. records' = [records EXCEPT ![e].status = "loaded", ![e].names = c,
                                 ![e].replaced = d]
  BY DEF Loaded
<1>4. UNCHANGED <<entries, hooks, amiss>> BY DEF Loaded
<1>5. job' = Idle \/ job'.at = "boot" BY <1>1 DEF Loaded, After, Goto, Job
<1>6. \A x \in Ext : ~ Executing(x)' BY <1>5 DEF Executing
<1>. SUFFICES ASSUME ~ amiss.crossed PROVE Books' BY <1>4 DEF BookInv
<1>7. OwnersLive /\ RecordsAreOwn /\ ScriptIsKnown /\ CoreIsKept BY DEF BookInv, Books
<1>8. /\ \A k \in c : entries[k] # None /\ entries[k].by = e
      /\ \A x \in d : x.by \notin Ext
      /\ \A k \in Core : job.before[k] = CoreEntry(k) =>
            entries[k] = CoreEntry(k) \/ CoreEntry(k) \in d
  BY <1>1, <1>7, ScriptDelta
<1>. HIDE DEF c, d
<1>9. /\ \A f \in Ext \ {e} : records'[f] = records[f]
      /\ records'[e] = [records[e] EXCEPT !.status = "loaded", !.names = c,
                                          !.replaced = d]
  BY <1>1, <1>3 DEF ExtensionRecord, TypeInv, TypeOK
<1>10. /\ records'[e] \in ExtensionRecord /\ records'[e].status = "loaded"
       /\ records'[e].names = c /\ records'[e].replaced = d
       /\ records'[e].ext = records[e].ext
  BY <1>1, <1>2, <1>9 DEF ExtensionRecord
<1>11. records'[e] # None BY <1>10, ExtensionsAssumption
<1>. HIDE DEF e
<1>12. OwnersLive'
  <2>1. \A f \in Ext : IsLoaded(f) \/ f = e => records'[f] # None
                                               /\ records'[f].status = "loaded"
    BY <1>9, <1>10, <1>11 DEF IsLoaded
  <2>. QED BY <1>1, <1>4, <1>7, <2>1 DEF OwnersLive, IsLoaded
<1>13. RecordsAreOwn'
  <2>. SUFFICES ASSUME NEW f \in Ext, records'[f] # None
                PROVE  /\ records'[f].ext = f
                       /\ \A k \in records'[f].names : entries[k] # None /\ entries[k].by = f
                       /\ \A x \in records'[f].replaced : x.by \notin Ext
                       /\ records'[f].status # "loaded" =>
                             records'[f].names = {} /\ records'[f].replaced = {}
    BY <1>4 DEF RecordsAreOwn, IsLoaded
  <2>1. CASE f = e BY <1>1, <1>7, <1>8, <1>10, <2>1 DEF RecordsAreOwn
  <2>2. CASE f # e BY <1>7, <1>9, <2>2 DEF RecordsAreOwn, IsLoaded
  <2>. QED BY <2>1, <2>2
<1>14. ScriptIsKnown' BY <1>6 DEF ScriptIsKnown
<1>15. CoreIsKept'
  <2>. SUFFICES ASSUME amiss'.moved = {}, ~ amiss'.taken, NEW k \in Core
                PROVE  \/ entries'[k] = CoreEntry(k)
                       \/ \E f \in Ext : records'[f] # None
                                         /\ CoreEntry(k) \in records'[f].replaced
    BY DEF CoreIsKept
  <2>1. ASSUME NEW f \in Ext, records[f] # None, CoreEntry(k) \in records[f].replaced
        PROVE  records'[f] # None /\ CoreEntry(k) \in records'[f].replaced
    <3>1. f # e BY <1>1, <1>7, <2>1 DEF RecordsAreOwn, ScriptIsKnown
    <3>. QED BY <1>9, <2>1, <3>1
  <2>2. CASE job.before[k] = CoreEntry(k)
    BY <1>1, <1>4, <1>8, <1>10, <1>11, <2>2
  <2>. QED BY <1>1, <1>4, <1>7, <2>1, <2>2 DEF CoreIsKept
<1>. QED BY <1>12, <1>13, <1>14, <1>15 DEF Books

\* One entry put in the place of at most one other.
LEMMA Registered ==
    ASSUME TypeInv, WordInv, NEW s, s.name \in Name, NEW by, NEW g,
           Register(s, by, g)
    PROVE  LET old == Resolve(s.name) IN
           /\ \A k \in Name : \/ /\ k = s.name /\ entries'[k].by = by
                                 /\ entries[k] # None => k = old
                              \/ k = old /\ k # s.name /\ entries'[k] = None
                              \/ k # old /\ entries'[k] = entries[k]
           /\ old # None => old \in Name /\ entries[old] # None
<1>. DEFINE x == Entry(s.name, by, g, s.aliases, FALSE)
            old == Resolve(s.name)
<1>1. x.name = s.name /\ x.by = by BY DEF Entry
<1>2. Replaced({old}, {x}) BY DEF Register
<1>3. entries[s.name] # None => old = s.name BY DEF Resolve
<1>4. old # None => old \in Name /\ entries[old] # None
  BY DEF Resolve, WordInv, Unambiguous, TypeInv, TypeOK
<1>. HIDE DEF x, old
<1>5. \A k \in Name : entries'[k] = IF k = s.name THEN x
                                    ELSE IF k = old THEN None ELSE entries[k]
  BY <1>1, <1>2 DEF Replaced
<1>. QED BY <1>1, <1>3, <1>4, <1>5 DEF old

\* A registration of the script.
LEMMA ExecuteBooks ==
    ASSUME TypeInv, WordInv, BookInv, Execute
    PROVE  BookInv'
<1>. DEFINE s == Head(job.left)
            e == job.ext
            old == Resolve(s.name)
<1>1. /\ job \in Job /\ job # Idle /\ e \in Ext /\ s \in Statement /\ job.at = "exec"
      /\ records' = records
  BY HeadTypes DEF Execute, At
<1>2. \A x \in Ext : (Executing(x) <=> x = e) /\ (Executing(x)' <=> x = e)
  <2>1. job'.at = "exec" /\ job'.ext = e BY <1>1 DEF Execute, Job
  <2>2. job' # Idle
    <3>1. job' = Idle => FALSE BY <1>1 DEF Execute, Job, Idle
    <3>. QED BY <3>1
  <2>. QED BY <1>1, <2>1, <2>2 DEF Executing
<1>3. job'.before = job.before BY <1>1 DEF Execute, Job
<1>4. CASE s.do # "command"
  <2>1. hooks' = hooks \cup {<<e, gen>>} /\ UNCHANGED <<entries, alias, amiss>>
    BY <1>4 DEF Execute
  <2>. SUFFICES ASSUME ~ amiss.crossed PROVE Books' BY <2>1 DEF BookInv
  <2>2. OwnersLive /\ RecordsAreOwn /\ ScriptIsKnown /\ CoreIsKept
    BY DEF BookInv, Books
  <2>. HIDE DEF e, s, old
  <2>3. OwnersLive' BY <1>1, <1>2, <2>1, <2>2 DEF OwnersLive, IsLoaded
  <2>4. RecordsAreOwn' BY <1>1, <2>1, <2>2 DEF RecordsAreOwn, IsLoaded
  <2>5. ScriptIsKnown' BY <1>1, <1>2, <1>3, <2>1, <2>2 DEF ScriptIsKnown, IsLoaded
  <2>6. CoreIsKept' BY <1>1, <1>2, <1>3, <2>1, <2>2 DEF CoreIsKept
  <2>. QED BY <2>3, <2>4, <2>5, <2>6 DEF Books
<1>5. CASE s.do = "command"
  <2>1. s.name \in Name BY <1>1, <1>5 DEF Statement
  <2>2. /\ Register(s, e, gen) /\ UNCHANGED hooks
        /\ amiss' = [amiss EXCEPT !.crossed =
                        @ \/ (old # None /\ entries[old].by \in Ext \ {e})]
    BY <1>5 DEF Execute
  <2>. HIDE DEF s, e
  <2>3. /\ amiss'.crossed = (amiss.crossed
                               \/ (old # None /\ entries[old].by \in Ext \ {e}))
        /\ amiss'.moved = amiss.moved /\ amiss'.taken = amiss.taken
    BY <2>2 DEF TypeInv, TypeOK
  <2>. SUFFICES ASSUME ~ amiss'.crossed PROVE Books' BY DEF BookInv
  <2>4. ~ amiss.crossed /\ (old # None => entries[old].by \notin Ext \ {e}) BY <2>3
  <2>5. OwnersLive /\ RecordsAreOwn /\ ScriptIsKnown /\ CoreIsKept
    BY <2>4 DEF BookInv, Books
  <2>6. /\ \A k \in Name : \/ /\ k = s.name /\ entries'[k].by = e
                              /\ entries[k] # None => k = old
                           \/ k = old /\ k # s.name /\ entries'[k] = None
                           \/ k # old /\ entries'[k] = entries[k]
        /\ old # None => old \in Name /\ entries[old] # None
    BY <2>1, <2>2, Registered
  <2>. HIDE DEF old
  <2>7. \A k \in Name : entries[k] # None /\ entries[k].by \in Ext \ {e}
                        => entries'[k] = entries[k]
    BY <2>4, <2>6, ExtensionsAssumption
  <2>8. OwnersLive' BY <1>1, <1>2, <2>2, <2>3, <2>5, <2>6 DEF OwnersLive, IsLoaded
  <2>9. RecordsAreOwn'
    <3>1. \A f \in Ext : records[f] # None => records[f].names \subseteq Name
      BY DEF TypeInv, TypeOK, ExtensionRecord
    <3>2. records[e] # None => records[e].names = {}
      BY <1>1, <1>2, <2>5 DEF RecordsAreOwn, ScriptIsKnown
    <3>. QED BY <1>1, <2>5, <2>7, <3>1, <3>2 DEF RecordsAreOwn, IsLoaded
  <2>10. ScriptIsKnown'
    BY <1>1, <1>2, <1>3, <2>5, <2>6, <2>7 DEF ScriptIsKnown, IsLoaded
  <2>11. CoreIsKept'
    <3>. SUFFICES ASSUME amiss'.moved = {}, ~ amiss'.taken, NEW k \in Core,
                         entries[k] = CoreEntry(k)
                  PROVE  entries'[k] = CoreEntry(k) \/ job'.before[k] = CoreEntry(k)
      BY <1>1, <1>2, <1>3, <2>3, <2>5 DEF CoreIsKept
    <3>1. entries[k] = job.before[k]
      BY <1>1, <1>2, <2>5, CoreEntryIs DEF ScriptIsKnown
    <3>. QED BY <1>3, <3>1
  <2>. QED BY <2>8, <2>9, <2>10, <2>11 DEF Books
<1>. QED BY <1>4, <1>5

\* A loaded extension that registers a command later finds the word free.
LEMMA LaterBooks ==
    ASSUME TypeInv, WordInv, BookInv, NEW e \in Ext, RegisterLater(e)
    PROVE  BookInv'
<1>1. /\ UNCHANGED <<hooks, records, job, amiss>> /\ job = Idle
      /\ IsLoaded(e)
  BY DEF RegisterLater, IsLoaded
<1>2. \A x \in Ext : ~ Executing(x) /\ ~ Executing(x)' BY <1>1 DEF Executing
<1>3. PICK n \in Name, by \in {e, "plain"} :
        LET s == [do |-> "command", name |-> n, aliases |-> {}, override |-> FALSE,
                  force |-> FALSE]
        IN  Accepts(s) /\ Register(s, by, gen)
  BY DEF RegisterLater
<1>4. \A k \in Name : entries'[k] = entries[k] \/ (entries[k] = None /\ entries'[k].by = by)
  <2>. DEFINE s == [do |-> "command", name |-> n, aliases |-> {}, override |-> FALSE,
                    force |-> FALSE]
  <2>1. s.name = n /\ s.override = FALSE /\ Accepts(s) /\ Register(s, by, gen) BY <1>3
  <2>. HIDE DEF s
  <2>2. Resolve(n) = None BY <2>1 DEF Accepts
  <2>. QED BY <2>1, <2>2, Registered, ExtensionsAssumption
<1>. SUFFICES ASSUME ~ amiss.crossed PROVE Books' BY <1>1 DEF BookInv
<1>5. OwnersLive /\ RecordsAreOwn /\ CoreIsKept BY DEF BookInv, Books
<1>6. "plain" \notin Ext BY ExtensionsAssumption
<1>7. OwnersLive' BY <1>1, <1>2, <1>3, <1>4, <1>5, <1>6 DEF OwnersLive, IsLoaded
<1>8. RecordsAreOwn'
  <2>1. \A f \in Ext : records[f] # None => records[f].names \subseteq Name
    BY DEF TypeInv, TypeOK, ExtensionRecord
  <2>. QED BY <1>1, <1>4, <1>5, <2>1 DEF RecordsAreOwn, IsLoaded
<1>9. ScriptIsKnown' BY <1>2 DEF ScriptIsKnown
<1>10. CoreIsKept' BY <1>1, <1>2, <1>4, <1>5, CoreEntryIs DEF CoreIsKept
<1>. QED BY <1>7, <1>8, <1>9, <1>10 DEF Books

LEMMA StartBooks ==
    ASSUME TypeInv, Start
    PROVE  BookInv'
<1>1. entries' = CoreTable /\ hooks' = {} BY DEF Start
<1>2. PICK map : records' = [e \in Ext |-> IF disk[e] = {} THEN None
                                            ELSE NewRecord(e, map)]
  BY DEF Start
<1>3. \A e \in Ext : records'[e] # None =>
        /\ records'[e].ext = e /\ records'[e].names = {} /\ records'[e].replaced = {}
        /\ records'[e].status # "loaded"
  BY <1>2 DEF NewRecord, Waiting
<1>. DEFINE b == {e \in Ext : records'[e] # None}
            run == Running("boot", None, "boot")
<1>4. run \in Job /\ run.at = "boot" BY RunningType DEF Ops
<1>5. job' = [run EXCEPT !.boot = b] BY DEF Start
<1>. HIDE DEF b, run
<1>6. job'.at = "boot" BY <1>4, <1>5 DEF Job
<1>7. \A e \in Ext : ~ Executing(e)' BY <1>6 DEF Executing
<1>8. \A k \in Core : entries'[k] = CoreEntry(k)
  BY <1>1, ExtensionsAssumption DEF CoreTable
<1>9. \A k \in Name : entries'[k] # None => entries'[k].by \notin Ext
  BY <1>1, CoreEntryIs DEF CoreTable
<1>10. OwnersLive' BY <1>1, <1>9 DEF OwnersLive
<1>11. RecordsAreOwn' BY <1>3 DEF RecordsAreOwn
<1>. QED BY <1>7, <1>8, <1>10, <1>11 DEF BookInv, Books, ScriptIsKnown, CoreIsKept

LEMMA SameBooks ==
    ASSUME BookInv, UNCHANGED <<entries, hooks, records, job, amiss>>
    PROVE  BookInv'
BY DEF BookInv, Books, OwnersLive, RecordsAreOwn, ScriptIsKnown, CoreIsKept,
       Executing, IsLoaded

LEMMA BooksKept ==
    ASSUME TypeInv, TypeInv', WordInv, BookInv, [Next]_vars
    PROVE  BookInv'
<1>1. CASE UNCHANGED vars BY <1>1, SameBooks DEF vars
<1>2. CASE Next
  <2>1. ASSUME NEW e \in Ext,
               \E op \in {"enable", "disable", "reload", "unload"} : Begin(op, e)
        PROVE  BookInv'
    BY <2>1, BeginBooks
  <2>2. ASSUME NEW e \in Ext, RegisterLater(e) PROVE BookInv' BY <2>2, LaterBooks
  <2>3. ASSUME NEW e \in Ext, PreferElsewhere(e) PROVE BookInv'
    BY <2>3, SameBooks DEF PreferElsewhere
  <2>4. CASE \/ ReadMap \/ WriteFails \/ Boot
             \/ \E e \in Ext : BeginLoad(e) \/ Add(e) \/ ChangeDisk(e)
    BY <2>4, QuietJobBooks
  <2>5. CASE WriteMap BY <2>5, WriteMapBooks
  <2>6. CASE TearDown BY <2>6, TearDownBooks
  <2>7. CASE Load BY <2>7, LoadBooks
  <2>8. CASE Execute BY <2>8, ExecuteBooks
  <2>9. CASE Loaded BY <2>9, LoadedBooks
  <2>10. CASE LoadFails BY <2>10, LoadFailsBooks
  <2>11. CASE Start BY <2>11, StartBooks
  <2>. QED BY <1>2, <2>1, <2>2, <2>3, <2>4, <2>5, <2>6, <2>7, <2>8, <2>9, <2>10, <2>11
           DEF Next
<1>. QED BY <1>1, <1>2

\* Where there is no extension nothing crosses.
CrossInv == amiss.crossed => Ext # {}

LEMMA CrossKept ==
    ASSUME TypeInv, CrossInv, [Next]_vars
    PROVE  CrossInv'
<1>. SUFFICES ASSUME Ext = {} PROVE ~ amiss'.crossed BY DEF CrossInv
<1>1. ~ amiss.crossed BY DEF CrossInv
<1>2. job # Idle => job.at = "boot" BY DEF TypeInv, JobInv
<1>3. CASE UNCHANGED amiss BY <1>1, <1>3
<1>4. CASE Start BY <1>4 DEF Start
<1>5. \/ UNCHANGED amiss \/ Start
  BY <1>2 DEF Next, vars, ReadMap, WriteMap, WriteFails, TearDown, Load, Execute,
              Loaded, LoadFails, Boot, At
<1>. QED BY <1>3, <1>4, <1>5

LEMMA BooksComplete ==
    ASSUME TypeInv, BookInv, CrossInv
    PROVE  TeardownIsComplete
<1>1. ASSUME NEW e \in Ext, Straight(e), ~ JobOn(e)
      PROVE  /\ (\E h \in hooks : h[1] = e) => IsLoaded(e)
             /\ \A k \in Name : entries[k] # None /\ entries[k].by = e => IsLoaded(e)
             /\ IsLoaded(e) =>
                  \A k \in records[e].names : entries[k] # None /\ entries[k].by = e
  <2>1. OwnersLive /\ RecordsAreOwn BY <1>1 DEF BookInv, Books, Straight
  <2>2. ~ Executing(e) BY <1>1 DEF JobOn, Executing
  <2>. QED BY <1>1, <2>1, <2>2 DEF OwnersLive, RecordsAreOwn, Straight, IsLoaded
<1>2. ASSUME ~ amiss.taken, job = Idle, \A e \in Ext : Straight(e) /\ ~ IsLoaded(e),
             NEW k \in Core
      PROVE  entries[k] = CoreEntry(k)
  <2>1. ~ amiss.crossed BY <1>2 DEF CrossInv, Straight
  <2>2. amiss.moved = {} BY <1>2 DEF Straight, TypeInv, TypeOK
  <2>3. RecordsAreOwn /\ CoreIsKept BY <2>1 DEF BookInv, Books
  <2>4. \A e \in Ext : records[e] # None => records[e].replaced = {}
    BY <1>2, <2>3 DEF RecordsAreOwn
  <2>. QED BY <1>2, <2>2, <2>3, <2>4 DEF CoreIsKept, Executing
<1>. QED BY <1>1, <1>2 DEF TeardownIsComplete

\* What an extension registered is there while it is loaded and gone when it is
\* not, also after a script that failed half-way, and without extensions the core
\* is what it was (extensions/manager.py, _capture_command_delta,
\* _remove_owned_commands).
THEOREM TeardownComplete == Spec => []TeardownIsComplete
<1>1. Init => BookInv /\ CrossInv BY BooksInit DEF Init, CrossInv
<1>2. TypeInv /\ TypeInv' /\ WordInv /\ BookInv /\ CrossInv /\ [Next]_vars
        => BookInv' /\ CrossInv'
  BY BooksKept, CrossKept
<1>3. TypeInv /\ BookInv /\ CrossInv => TeardownIsComplete BY BooksComplete
<1>. QED BY <1>1, <1>2, <1>3, WordsAlways, ExtensionsTypeCorrect, PTL DEF Spec
=============================================================================
