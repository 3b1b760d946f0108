---------------------------- MODULE AddonProofs ----------------------------
(***************************************************************************)
(* Proofs about the mail program's add-on.  First AddonLog: what is in the *)
(* Outbox and on the posts, for any entries, contexts, flushes, failures   *)
(* and other writers.  Then AddonWork: the pointer to the current Task and *)
(* the sessions of the Tasks, for any Tasks, edits, requests and failures. *)
(***************************************************************************)
EXTENDS AddonLog, AddonWork, FiniteSetTheorems, TLAPS

-----------------------------------------------------------------------------
(* AddonLog: the inductive invariant.                                      *)

Held    == {"row", "list", "create", "read", "upload", "save", "write", "verify",
            "remove"}
LogSteps   == {"next", "enter"} \cup Held
Drafted == {"upload", "save", "write"}
OnPost  == Drafted \cup {"read", "verify"}
Lined   == [item : Item \cup {Foreign}, file : File \cup {None}]
Busy    == [at : LogSteps, item : Item \cup {None}, left : SUBSET Item, own : BOOLEAN,
            row : Row \cup {None}, post : Nat, before : Seq(Lined)]

TypeInv ==
    /\ rows \in [Item -> Row \cup {None}] /\ made \in [Item -> Nat]
    /\ posts \in Seq(Seq(Lined)) /\ chosen \in 0..Len(posts)
    /\ media \subseteq File /\ IsFiniteSet(media)
    /\ lock \in Context \cup {None}
    /\ ctx \in [Context -> {Idle} \cup Busy]
    /\ flushDue \in BOOLEAN /\ written \subseteq Item
    /\ spent \in [flushes : Nat, faults : Nat, foreign : Nat, resends : Nat]

\* Who works on an entry and its row holds the lock; what a flush has listed has
\* had a row, and a submission has none before it takes the lock.
LockInv == \A c \in Context : ctx[c].at \in Held <=> lock = c

QueueInv ==
    /\ \A c \in Context : ~ At(c, "idle") =>
          /\ \A i \in ctx[c].left : made[i] > 0
          /\ ~ At(c, "next") => ctx[c].item \in Item
          /\ At(c, "next") => ~ ctx[c].own
          /\ ctx[c].own => ctx[c].item \notin Sessions
          /\ At(c, "enter") \/ At(c, "row") => (ctx[c].own <=> made[ctx[c].item] = 0)
    /\ \A c, d \in Context :
          /\ ctx[c].at \in {"enter", "row"} /\ ctx[d].at \in {"enter", "row"}
          /\ ctx[c].own /\ ctx[d].own /\ ctx[c].item = ctx[d].item
          => c = d

\* A row that was saved has a file; an entry with a row, or written, was made.
RowInv ==
    \A i \in Item :
       /\ rows[i] # None => made[i] > 0 /\ (rows[i].saved # None => rows[i].file)
       /\ i \in written => made[i] > 0
       /\ made[i] > 0 /\ rows[i] = None => i \in written

\* The row at hand is the row in the Outbox but for a file just uploaded.
HoldInv ==
    \A c \in Context : ctx[c].at \in Held \ {"row"} =>
       LET i == ctx[c].item
           r == ctx[c].row IN
       /\ r \in Row
       /\ ~ At(c, "save") => rows[i] = r
       /\ At(c, "save") => /\ r.file /\ r.saved # None /\ rows[i] # None
                           /\ rows[i].id = r.id /\ rows[i].file /\ rows[i].saved = None
       /\ At(c, "upload") => r.file /\ r.saved = None
       /\ At(c, "verify") \/ At(c, "remove") => i \in written

\* Every line of the add-on is of a written entry, and once on its post; what is
\* written back has all of them and not yet the entry at hand.
PostInv ==
    /\ \A p \in DOMAIN posts : \A n \in DOMAIN posts[p] :
          posts[p][n].item \in Item => posts[p][n].item \in written
    /\ \A p \in DOMAIN posts : \A m, n \in DOMAIN posts[p] :
          posts[p][m].item \in Item /\ posts[p][m].item = posts[p][n].item => m = n
    /\ \A c \in Context : ctx[c].at \in OnPost => ctx[c].post \in DOMAIN posts
    /\ \A c \in Context : ctx[c].at \in Drafted =>
          LET b == ctx[c].before
              l == posts[ctx[c].post] IN
          /\ Len(b) <= Len(l)
          /\ \A n \in DOMAIN b : b[n] = l[n] /\ b[n].item # ctx[c].item
          /\ \A n \in DOMAIN l : n > Len(b) => l[n].item = Foreign

\* Without a choice all lines of the add-on are on one post, the one at hand.
OwnLine(p, n) == p \in DOMAIN posts /\ n \in DOMAIN posts[p] /\ posts[p][n].item \in Item
OneInv ==
    chosen = 0 =>
       /\ \A p, q, m, n : OwnLine(p, m) /\ OwnLine(q, n) => p = q
       /\ \A c \in Context :
             /\ ctx[c].at \in OnPost => \A p, n : OwnLine(p, n) => p = ctx[c].post
             /\ At(c, "create") => \A p, n : ~ OwnLine(p, n)

Unsaved(i) ==
    \/ made[i] = 0
    \/ /\ rows[i] # None /\ rows[i].file /\ rows[i].saved = None
       /\ \A c \in Context : At(c, "save") => ctx[c].item # i
Files(i) == {m \in media : m[1] = i}
UploadInv ==
    \A i \in Item :
       /\ Cardinality(Files(i)) <= 1 + spent.resends
       /\ Unsaved(i) => Cardinality(Files(i)) <= spent.resends

\* When nothing went wrong there is one post, and it has what was written.
Smooth == spent.faults = 0 /\ spent.foreign = 0
Bare(i) == i \notin Texts /\ ~ rows[i].file
SmoothInv ==
    Smooth =>
       /\ chosen = 0 /\ Len(posts) <= 1
       /\ \A i \in written : \E n : OwnLine(1, n) /\ posts[1][n].item = i
       /\ \A i \in written : rows[i] # None =>
             \/ Bare(i)
             \/ \E c \in Context : /\ ctx[c].at # "idle" /\ ctx[c].item = i
                                   /\ \/ ctx[c].at \in {"verify", "remove"}
                                      \/ ctx[c].at \in {"list", "read"} /\ ~ rows[i].file
       /\ \A c \in Context :
             /\ At(c, "create") => Len(posts) = 0
             /\ ctx[c].at \in Drafted => posts[ctx[c].post] = ctx[c].before
             /\ At(c, "verify") => posts[ctx[c].post] = NextContent(c)

Inv == /\ LockInv /\ QueueInv /\ RowInv /\ HoldInv /\ PostInv /\ OneInv
       /\ UploadInv /\ SmoothInv

LEMMA InitInv == Init => TypeInv /\ Inv
<1>. SUFFICES ASSUME Init PROVE TypeInv /\ Inv
  OBVIOUS
<1>1. /\ \A i \in Item : rows[i] = None /\ made[i] = 0
      /\ posts = <<>> /\ chosen = 0 /\ media = {} /\ lock = None /\ written = {}
      /\ \A c \in Context : ctx[c] = Idle /\ ctx[c].at = "idle"
      /\ spent.resends = 0
  BY DEF Init, Idle
<1>2. TypeInv
  <2>1. IsFiniteSet({}) BY FS_EmptySet
  <2>2. posts \in Seq(Seq(Lined)) /\ chosen \in 0..Len(posts) BY <1>1
  <2>3. rows \in [Item -> Row \cup {None}] /\ made \in [Item -> Nat] BY DEF Init
  <2>4. ctx \in [Context -> {Idle} \cup Busy] BY DEF Init
  <2>5. spent \in [flushes : Nat, faults : Nat, foreign : Nat, resends : Nat]
    BY DEF Init
  <2>6. media \subseteq File /\ lock \in Context \cup {None} /\ flushDue \in BOOLEAN
        /\ written \subseteq Item
    BY DEF Init
  <2>. QED BY <1>1, <2>1, <2>2, <2>3, <2>4, <2>5, <2>6 DEF TypeInv
<1>3. UploadInv
  <2>1. \A i : Files(i) = {} BY <1>1 DEF Files
  <2>2. Cardinality({}) = 0 BY FS_EmptySet
  <2>3. \A i \in Item : Cardinality(Files(i)) = 0 BY <2>1, <2>2
  <2>. QED BY <1>1, <2>3 DEF UploadInv
<1>. QED BY <1>1, <1>2, <1>3, LogAssumption DEF Inv, LockInv, QueueInv, RowInv, HoldInv,
            PostInv, OneInv, SmoothInv, OwnLine, At, Held, Drafted, OnPost

LEMMA BusyTypes ==
    ASSUME TypeInv, NEW c \in Context
    PROVE  /\ ctx[c] = Idle \/ ctx[c] \in Busy
           /\ ctx[c].at = "idle" <=> ctx[c] = Idle
           /\ ctx[c].at # "idle" => ctx[c] \in Busy
           /\ ctx[c].at \in LogSteps \cup {"idle"}
<1>1. Idle.at = "idle" BY DEF Idle
<1>2. \A b \in Busy : b.at \in LogSteps /\ b.at # "idle" BY DEF Busy, LogSteps, Held
<1>3. ctx[c] \in {Idle} \cup Busy BY DEF TypeInv
<1>. QED BY <1>1, <1>2, <1>3

LEMMA GotoSteps ==
    ASSUME TypeInv, NEW c \in Context, ~ At(c, "idle"), NEW s \in LogSteps, Goto(c, s)
    PROVE  /\ ctx' \in [Context -> {Idle} \cup Busy]
           /\ ctx'[c] \in Busy
           /\ ctx'[c].at = s
           /\ ctx'[c].item = ctx[c].item /\ ctx'[c].left = ctx[c].left
           /\ ctx'[c].own = ctx[c].own /\ ctx'[c].row = ctx[c].row
           /\ ctx'[c].post = ctx[c].post /\ ctx'[c].before = ctx[c].before
           /\ \A d \in Context \ {c} : ctx'[d] = ctx[d]
<1>1. ctx \in [Context -> {Idle} \cup Busy] /\ ctx[c] \in Busy
  BY BusyTypes DEF TypeInv, At
<1>2. ctx' = [ctx EXCEPT ![c] = [@ EXCEPT !.at = s]] BY <1>1 DEF Goto, Busy
<1>3. [ctx[c] EXCEPT !.at = s] \in Busy BY <1>1 DEF Busy
<1>4. ctx'[c] = [ctx[c] EXCEPT !.at = s] BY <1>1, <1>2
<1>5. /\ ctx'[c].at = s
      /\ ctx'[c].item = ctx[c].item /\ ctx'[c].left = ctx[c].left
      /\ ctx'[c].own = ctx[c].own /\ ctx'[c].row = ctx[c].row
      /\ ctx'[c].post = ctx[c].post /\ ctx'[c].before = ctx[c].before
  BY <1>1, <1>4 DEF Busy
<1>. QED BY <1>1, <1>2, <1>3, <1>4, <1>5

LEMMA SendingTypes ==
    ASSUME NEW L \in SUBSET Item, NEW o \in BOOLEAN
    PROVE  /\ Sending(L, o) \in Busy
           /\ Sending(L, o).at = "next" /\ Sending(L, o).left = L
           /\ Sending(L, o).own = o /\ Sending(L, o).item = None
BY DEF Sending, Busy, LogSteps

LEMMA ReleaseSteps ==
    ASSUME TypeInv, NEW c \in Context, ~ At(c, "idle"), Release(c)
    PROVE  /\ ctx' \in [Context -> {Idle} \cup Busy]
           /\ lock' = None
           /\ IF ctx[c].own THEN ctx'[c] = Idle /\ ctx'[c].at = "idle"
              ELSE /\ ctx'[c].at = "next" /\ ctx'[c].left = ctx[c].left
                   /\ ctx'[c].own = FALSE
           /\ \A d \in Context \ {c} : ctx'[d] = ctx[d]
<1>1. ctx \in [Context -> {Idle} \cup Busy] /\ ctx[c] \in Busy
  BY BusyTypes DEF TypeInv, At
<1>2. ctx' = [ctx EXCEPT ![c] = IF @.own THEN Idle ELSE Sending(@.left, FALSE)]
  BY DEF Release
<1>3. ctx[c].left \in SUBSET Item BY <1>1 DEF Busy
<1>4. ctx'[c] = IF ctx[c].own THEN Idle ELSE Sending(ctx[c].left, FALSE) BY <1>1, <1>2
<1>5. ctx'[c] \in {Idle} \cup Busy BY <1>3, <1>4, SendingTypes
<1>6. Idle.at = "idle" BY DEF Idle
<1>7. lock' = None BY DEF Release
<1>8. IF ctx[c].own THEN ctx'[c] = Idle /\ ctx'[c].at = "idle"
      ELSE ctx'[c].at = "next" /\ ctx'[c].left = ctx[c].left /\ ctx'[c].own = FALSE
  BY <1>3, <1>4, <1>6, SendingTypes
<1>9. ctx' \in [Context -> {Idle} \cup Busy] BY <1>1, <1>2, <1>4, <1>5
<1>. QED BY <1>1, <1>2, <1>7, <1>8, <1>9

-----------------------------------------------------------------------------
(* What the moves of a context do to the parts of the invariant.           *)

Moves(c) == /\ ctx' \in [Context -> {Idle} \cup Busy]
            /\ \A d \in Context \ {c} : ctx'[d] = ctx[d]
SameEntry(c) == /\ ctx'[c].item = ctx[c].item /\ ctx'[c].left = ctx[c].left
                /\ ctx'[c].own = ctx[c].own

\* One context at a time works on an entry and its row.
LEMMA HolderIsAlone ==
    ASSUME LockInv, NEW c \in Context, NEW d \in Context,
           ctx[c].at \in Held, ctx[d].at \in Held
    PROVE  c = d
BY DEF LockInv

\* The holder of the lock goes on with its entry.
LEMMA HolderMoves ==
    ASSUME TypeInv, LockInv, QueueInv, NEW c \in Context, ctx[c].at \in Held,
           Moves(c), ctx'[c].at \in Held \ {"row"}, SameEntry(c),
           UNCHANGED <<lock, made>>
    PROVE  LockInv' /\ QueueInv'
<1>1. LockInv' BY DEF LockInv, Moves
<1>2. \A x \in Held : x \notin {"idle", "next", "enter"} BY DEF Held
<1>. QED BY <1>1, <1>2 DEF QueueInv, Moves, SameEntry, At

\* The holder of the lock is done with its entry.
LEMMA HolderLeaves ==
    ASSUME TypeInv, LockInv, QueueInv, NEW c \in Context, ctx[c].at \in Held,
           Release(c), UNCHANGED made
    PROVE  LockInv' /\ QueueInv'
<1>1. \A x \in Held : x \notin {"idle", "next", "enter"} BY DEF Held
<1>2. ~ At(c, "idle") BY <1>1 DEF At
<1>3. /\ lock' = None
      /\ IF ctx[c].own THEN ctx'[c].at = "idle"
         ELSE ctx'[c].at = "next" /\ ctx'[c].left = ctx[c].left /\ ctx'[c].own = FALSE
      /\ \A d \in Context \ {c} : ctx'[d] = ctx[d]
  BY <1>2, ReleaseSteps
<1>4. \A d \in Context : ctx'[d].at \notin Held
  BY <1>1, <1>3 DEF LockInv
<1>5. LockInv' BY <1>3, <1>4, LogAssumption DEF LockInv
<1>. QED BY <1>1, <1>2, <1>3, <1>5 DEF QueueInv, At

\* Nobody gets further with an entry.
LEMMA NobodyGoesOn ==
    ASSUME HoldInv, PostInv, OneInv, UNCHANGED <<rows, posts, chosen, written>>,
           \A d \in Context : ctx'[d].at \in Held \ {"row"} => ctx'[d] = ctx[d]
    PROVE  HoldInv' /\ PostInv' /\ OneInv'
<1>1. /\ OnPost \subseteq Held \ {"row"} /\ Drafted \subseteq Held \ {"row"}
      /\ {"create", "save", "upload", "verify", "remove"} \subseteq Held \ {"row"}
  BY DEF OnPost, Drafted, Held
<1>2. HoldInv' BY <1>1 DEF HoldInv, At
<1>3. PostInv' BY <1>1 DEF PostInv
<1>4. OneInv' BY <1>1 DEF OneInv, OwnLine, At
<1>. QED BY <1>2, <1>3, <1>4

\* A file more was uploaded at most where an upload is counted.
LEMMA NothingUploaded ==
    ASSUME TypeInv, UploadInv, UNCHANGED media,
           spent'.resends \in Nat, spent.resends <= spent'.resends,
           \A i \in Item : Unsaved(i)' => Unsaved(i) \/ spent.resends < spent'.resends
    PROVE  UploadInv'
<1>1. spent.resends \in Nat BY DEF TypeInv
<1>2. \A i : Files(i)' = Files(i) BY DEF Files
<1>3. \A i \in Item : Cardinality(Files(i)) \in Nat
  <2>. TAKE i \in Item
  <2>1. Files(i) \subseteq media BY DEF Files
  <2>. QED BY <2>1, FS_Subset, FS_CardinalityType DEF TypeInv
<1>. QED BY <1>1, <1>2, <1>3 DEF UploadInv

LEMMA FailKeeps ==
    ASSUME TypeInv, Inv, NEW c \in Context, ctx[c].at \in Held,
           Fail(c), UNCHANGED <<made, web, written>>, flushDue' \in BOOLEAN,
           spent' \in [flushes : Nat, faults : Nat, foreign : Nat, resends : Nat],
           spent.resends <= spent'.resends,
           At(c, "save") => spent.resends < spent'.resends,
           Smooth' => /\ Smooth
                      /\ ctx[c].item \in written => Bare(ctx[c].item)
    PROVE  TypeInv' /\ Inv'
<1>. USE DEF Inv
<1>1. ~ At(c, "idle") BY DEF At, Held
<1>2. Release(c) /\ UNCHANGED <<rows, made, posts, chosen, media, written>>
  BY DEF Fail, web
<1>3. /\ ctx' \in [Context -> {Idle} \cup Busy]
      /\ lock' = None
      /\ ctx'[c].at \in {"idle", "next"}
      /\ \A d \in Context \ {c} : ctx'[d] = ctx[d]
  BY <1>1, <1>2, ReleaseSteps
<1>4. TypeInv' BY <1>2, <1>3 DEF TypeInv
<1>5. LockInv' /\ QueueInv' BY <1>2, HolderLeaves
<1>6. RowInv' BY <1>2 DEF RowInv
<1>7. \A d \in Context : ctx'[d].at \in Held \ {"row"} => ctx'[d] = ctx[d]
  BY <1>3 DEF Held
<1>8. HoldInv' /\ PostInv' /\ OneInv' BY <1>2, <1>7, NobodyGoesOn
<1>9. UploadInv'
  <2>1. \A d \in Context \ {c} : At(d, "save") => ctx'[d].at = "save" /\ ctx'[d].item = ctx[d].item
    BY <1>3 DEF At
  <2>2. \A i \in Item : Unsaved(i)' => Unsaved(i) \/ spent.resends < spent'.resends
    BY <1>2, <2>1 DEF Unsaved, At
  <2>. QED BY <1>2, <2>2, NothingUploaded
<1>10. SmoothInv'
  <2>. SUFFICES ASSUME Smooth' PROVE SmoothInv'
    BY DEF SmoothInv
  <2>1. Smooth /\ (ctx[c].item \in written => Bare(ctx[c].item)) OBVIOUS
  <2>2. chosen' = 0 /\ Len(posts') <= 1 BY <1>2, <2>1 DEF SmoothInv
  <2>3. \A i \in written' : \E n : OwnLine(1, n)' /\ posts'[1][n].item = i
    BY <1>2, <2>1 DEF SmoothInv, OwnLine
  <2>4. ASSUME NEW i \in written', rows'[i] # None
        PROVE  \/ Bare(i)'
               \/ \E d \in Context : /\ ctx'[d].at # "idle" /\ ctx'[d].item = i
                                     /\ \/ ctx'[d].at \in {"verify", "remove"}
                                        \/ ctx'[d].at \in {"list", "read"} /\ ~ rows'[i].file
    BY <1>2, <1>3, <2>1, <2>4 DEF SmoothInv, Bare
  <2>5. ASSUME NEW d \in Context
        PROVE  /\ At(d, "create")' => Len(posts') = 0
               /\ ctx'[d].at \in Drafted => posts'[ctx'[d].post] = ctx'[d].before
               /\ At(d, "verify")' => posts'[ctx'[d].post] = NextContent(d)'
    <3>1. CASE d = c BY <1>3, <3>1 DEF At, Drafted
    <3>2. CASE d # c BY <1>2, <1>3, <2>1, <3>2, ZenonT(30) DEF SmoothInv, At, NextContent
    <3>. QED BY <3>1, <3>2
  <2>. QED BY <2>2, <2>3, <2>4, <2>5 DEF SmoothInv
<1>. QED BY <1>4, <1>5, <1>6, <1>8, <1>9, <1>10

-----------------------------------------------------------------------------
(* What is done without the lock.                                          *)

Spending == [flushes : Nat, faults : Nat, foreign : Nat, resends : Nat]

LEMMA OutsideSteps ==
    ASSUME TypeInv, Inv, NEW c \in Context, ctx[c].at \notin Held,
           Moves(c), ctx'[c].at \notin Held \ {"row"},
           UNCHANGED <<rows, made, posts, chosen, media, written>>,
           spent'.resends = spent.resends, spent'.faults = spent.faults,
           spent'.foreign = spent.foreign
    PROVE  /\ RowInv' /\ HoldInv' /\ PostInv' /\ OneInv' /\ UploadInv' /\ SmoothInv'
<1>. USE DEF Inv
<1>1. RowInv' BY DEF RowInv
<1>2. \A d \in Context : ctx'[d].at \in Held \ {"row"} => ctx'[d] = ctx[d] BY DEF Moves
<1>3. HoldInv' /\ PostInv' /\ OneInv' BY <1>2, NobodyGoesOn
<1>4. \A d \in Context : ctx[d].at \in Held => ctx'[d] = ctx[d] BY DEF Moves
<1>5. UploadInv'
  <2>1. \A d \in Context : ctx[d].at = "save" => ctx'[d] = ctx[d] BY <1>4 DEF Held
  <2>2. \A i \in Item : Unsaved(i)' => Unsaved(i) BY <2>1 DEF Unsaved, At
  <2>3. spent.resends \in Nat BY DEF TypeInv
  <2>. QED BY <2>2, <2>3, NothingUploaded
<1>6. SmoothInv'
  <2>. SUFFICES ASSUME Smooth' PROVE SmoothInv'
    BY DEF SmoothInv
  <2>1. Smooth BY DEF Smooth
  <2>2. chosen' = 0 /\ Len(posts') <= 1 BY <2>1 DEF SmoothInv
  <2>3. \A i \in written' : \E n : OwnLine(1, n)' /\ posts'[1][n].item = i
    BY <2>1 DEF SmoothInv, OwnLine
  <2>4. ASSUME NEW i \in written', rows'[i] # None
        PROVE  \/ Bare(i)'
               \/ \E d \in Context : /\ ctx'[d].at # "idle" /\ ctx'[d].item = i
                                     /\ \/ ctx'[d].at \in {"verify", "remove"}
                                        \/ ctx'[d].at \in {"list", "read"} /\ ~ rows'[i].file
    <3>1. CASE Bare(i) BY <3>1 DEF Bare
    <3>2. CASE ~ Bare(i)
      <4>1. PICK d \in Context : /\ ctx[d].at # "idle" /\ ctx[d].item = i
                                 /\ \/ ctx[d].at \in {"verify", "remove"}
                                    \/ ctx[d].at \in {"list", "read"} /\ ~ rows[i].file
        BY <2>1, <2>4, <3>2 DEF SmoothInv
      <4>2. ctx'[d] = ctx[d] BY <1>4, <4>1 DEF Held
      <4>. QED BY <4>1, <4>2
    <3>. QED BY <3>1, <3>2
  <2>5. ASSUME NEW d \in Context
        PROVE  /\ At(d, "create")' => Len(posts') = 0
               /\ ctx'[d].at \in Drafted => posts'[ctx'[d].post] = ctx'[d].before
               /\ At(d, "verify")' => posts'[ctx'[d].post] = NextContent(d)'
    <3>1. ctx'[d].at \in Drafted \cup {"create", "verify"} => ctx'[d] = ctx[d]
      BY <1>2 DEF Drafted, Held
    <3>. QED BY <2>1, <3>1, ZenonT(30) DEF SmoothInv, At, NextContent
  <2>. QED BY <2>2, <2>3, <2>4, <2>5 DEF SmoothInv
<1>. QED BY <1>1, <1>3, <1>5, <1>6

LEMMA QueueSessionKeeps ==
    ASSUME TypeInv, Inv, NEW i \in Item, QueueSession(i) PROVE TypeInv' /\ Inv'
<1>. USE DEF Inv
<1>1. /\ i \in Sessions /\ made[i] = 0
      /\ rows' = [rows EXCEPT ![i] = [id |-> 1, file |-> FALSE, saved |-> None]]
      /\ made' = [made EXCEPT ![i] = 1]
      /\ flushDue' = TRUE
      /\ UNCHANGED <<posts, chosen, media, lock, ctx, written, spent>>
  BY DEF QueueSession, Enqueue, NewRow, web, TypeInv
<1>2. /\ rows'[i] = [id |-> 1, file |-> FALSE, saved |-> None]
      /\ rows'[i].saved = None /\ rows'[i].file = FALSE
      /\ rows'[i] \in Row /\ rows'[i] # None
      /\ made'[i] = 1
      /\ \A j \in Item \ {i} : rows'[j] = rows[j] /\ made'[j] = made[j]
      /\ rows[i] = None /\ i \notin written
  <2>1. rows'[i] = [id |-> 1, file |-> FALSE, saved |-> None] BY <1>1 DEF TypeInv
  <2>2. rows'[i] \in Row BY <2>1 DEF Row
  <2>3. rows[i] = None /\ i \notin written BY <1>1 DEF RowInv
  <2>4. /\ made'[i] = 1
        /\ \A j \in Item \ {i} : rows'[j] = rows[j] /\ made'[j] = made[j]
    BY <1>1 DEF TypeInv
  <2>5. rows'[i] # None BY <2>2, ValuesAreApart
  <2>. QED BY <2>1, <2>2, <2>3, <2>4, <2>5
<1>3. TypeInv' BY <1>1, <1>2 DEF TypeInv
<1>4. LockInv' BY <1>1 DEF LockInv
<1>5. QueueInv'
  <2>1. \A j \in Item : made[j] > 0 => made'[j] > 0 BY <1>2
  <2>2. \A c \in Context : At(c, "enter") \/ At(c, "row") => ctx[c].item # i
    BY <1>1 DEF QueueInv, At
  <2>3. \A c \in Context : ~ At(c, "idle") => ctx[c].left \subseteq Item
    BY BusyTypes DEF At, Busy
  <2>. QED BY <1>1, <1>2, <2>1, <2>2, <2>3 DEF QueueInv, At
<1>6. RowInv' BY <1>1, <1>2 DEF RowInv
<1>7. \A c \in Context : ctx[c].at \in Held \ {"row"} => ctx[c].item # i
  BY <1>2, ValuesAreApart DEF HoldInv, At
<1>8. \A c \in Context : ctx[c].at \in Held => ctx[c].item \in Item
  BY DEF QueueInv, Held, At
<1>9. HoldInv' BY <1>1, <1>2, <1>7, <1>8 DEF HoldInv, At
<1>10. PostInv' BY <1>1 DEF PostInv
<1>11. OneInv' BY <1>1 DEF OneInv, OwnLine, At
<1>12. UploadInv'
  <2>1. \A j \in Item : Unsaved(j)' => Unsaved(j) BY <1>1, <1>2 DEF Unsaved, At
  <2>2. spent.resends \in Nat BY DEF TypeInv
  <2>. QED BY <1>1, <2>1, <2>2, NothingUploaded
<1>13. SmoothInv'
  BY <1>1, <1>2 DEF SmoothInv, Smooth, Bare, OwnLine, At, NextContent, TypeInv
<1>. QED BY <1>3, <1>4, <1>5, <1>6, <1>9, <1>10, <1>11, <1>12, <1>13

LEMMA SubmitKeeps ==
    ASSUME TypeInv, Inv, NEW i \in Item, NEW c \in Context, Submit(c, i)
    PROVE  TypeInv' /\ Inv'
<1>. USE DEF Inv
<1>1. /\ ctx[c].at = "idle" /\ i \notin Sessions /\ made[i] = 0
      /\ \A d \in Context : ctx[d].at # "idle" => ctx[d].item # i
      /\ UNCHANGED <<rows, made, posts, chosen, media, lock, flushDue, written, spent>>
  BY DEF Submit, At, web
<1>2. /\ ctx'[c].at = "enter" /\ ctx'[c].item = i /\ ctx'[c].left = {}
      /\ ctx'[c].own = TRUE /\ Moves(c)
  <2>1. ctx' = [ctx EXCEPT ![c] = [Sending({}, TRUE) EXCEPT !.at = "enter", !.item = i]]
    BY DEF Submit
  <2>2. /\ Sending({}, TRUE) \in Busy /\ Sending({}, TRUE).left = {}
        /\ Sending({}, TRUE).own = TRUE
    BY SendingTypes
  <2>3. \A b \in Busy : [b EXCEPT !.at = "enter", !.item = i] \in Busy
    BY DEF Busy, LogSteps
  <2>4. \A b \in Busy : LET e == [b EXCEPT !.at = "enter", !.item = i]
                       IN e.at = "enter" /\ e.item = i /\ e.left = b.left /\ e.own = b.own
    BY DEF Busy
  <2>5. ctx'[c] = [Sending({}, TRUE) EXCEPT !.at = "enter", !.item = i]
    BY <2>1 DEF TypeInv
  <2>. QED BY <2>1, <2>2, <2>3, <2>4, <2>5 DEF TypeInv, Moves
<1>3. ctx[c].at \notin Held /\ ctx'[c].at \notin Held \ {"row"}
  BY <1>1, <1>2 DEF Held
<1>4. TypeInv' BY <1>1, <1>2 DEF TypeInv, Moves
<1>5. LockInv' BY <1>1, <1>2, <1>3 DEF LockInv, Moves, Held
<1>6. QueueInv' BY <1>1, <1>2 DEF QueueInv, At, Moves
<1>. QED BY <1>1, <1>2, <1>3, <1>4, <1>5, <1>6, OutsideSteps

LEMMA BeginFlushKeeps ==
    ASSUME TypeInv, Inv, NEW c \in Context, BeginFlush(c) PROVE TypeInv' /\ Inv'
<1>. USE DEF Inv
<1>1. /\ ctx[c].at = "idle"
      /\ UNCHANGED <<rows, made, posts, chosen, media, lock, written>>
      /\ flushDue' \in BOOLEAN
      /\ spent' \in Spending
      /\ spent'.resends = spent.resends /\ spent'.faults = spent.faults
      /\ spent'.foreign = spent.foreign
  <2>1. CASE flushDue' = FALSE /\ UNCHANGED spent
    BY <2>1 DEF BeginFlush, At, web, TypeInv, Spending
  <2>2. CASE UNCHANGED flushDue /\ spent' = [spent EXCEPT !.flushes = @ + 1]
    <3>1. spent \in Spending BY DEF TypeInv, Spending
    <3>2. /\ spent' \in Spending
          /\ spent'.resends = spent.resends /\ spent'.faults = spent.faults
          /\ spent'.foreign = spent.foreign
      BY <2>2, <3>1 DEF Spending
    <3>. QED BY <2>2, <3>2 DEF BeginFlush, At, web, TypeInv
  <2>. QED BY <2>1, <2>2 DEF BeginFlush
<1>2. /\ ctx'[c].at = "next" /\ ctx'[c].left = {i \in Item : rows[i] # None}
      /\ ctx'[c].own = FALSE /\ Moves(c)
  <2>1. ctx' = [ctx EXCEPT ![c] = Sending({i \in Item : rows[i] # None}, FALSE)]
    BY DEF BeginFlush
  <2>2. {i \in Item : rows[i] # None} \in SUBSET Item OBVIOUS
  <2>. QED BY <2>1, <2>2, SendingTypes, ZenonT(30) DEF TypeInv, Moves
<1>3. ctx[c].at \notin Held /\ ctx'[c].at \notin Held \ {"row"}
  BY <1>1, <1>2 DEF Held
<1>4. TypeInv' BY <1>1, <1>2 DEF TypeInv, Moves, Spending
<1>5. LockInv' BY <1>1, <1>2, <1>3 DEF LockInv, Moves, Held
<1>6. QueueInv' BY <1>1, <1>2 DEF QueueInv, RowInv, At, Moves
<1>. QED BY <1>1, <1>2, <1>3, <1>4, <1>5, <1>6, OutsideSteps

LEMMA NextRowKeeps ==
    ASSUME TypeInv, Inv, NEW c \in Context, NextRow(c) PROVE TypeInv' /\ Inv'
<1>. USE DEF Inv
<1>1. /\ ctx[c].at = "next" /\ ~ ctx[c].own
      /\ \A i \in ctx[c].left : made[i] > 0
      /\ UNCHANGED <<rows, made, posts, chosen, media, lock, flushDue, written, spent>>
      /\ ctx[c] \in Busy
  <2>1. ctx[c].at = "next" BY DEF NextRow, At
  <2>. QED BY <2>1, BusyTypes DEF NextRow, QueueInv, At, web
<1>2. ctx[c].at \notin Held BY <1>1 DEF Held
<1>3. CASE ctx[c].left = {}
  <2>1. ctx' = [ctx EXCEPT ![c] = Idle] BY <1>3 DEF NextRow
  <2>2. Moves(c) /\ ctx'[c].at = "idle" BY <2>1 DEF TypeInv, Moves, Idle
  <2>3. ctx'[c].at \notin Held BY <2>2 DEF Held
  <2>4. TypeInv' BY <1>1, <2>2 DEF TypeInv, Moves
  <2>5. LockInv' BY <1>1, <1>2, <2>2, <2>3 DEF LockInv, Moves
  <2>6. QueueInv' BY <1>1, <2>2 DEF QueueInv, At, Moves
  <2>. QED BY <1>1, <1>2, <2>2, <2>3, <2>4, <2>5, <2>6, OutsideSteps
<1>4. CASE ctx[c].left # {}
  <2>1. PICK i \in ctx[c].left :
             ctx' = [ctx EXCEPT ![c].item = i, ![c].left = @ \ {i}, ![c].at = "enter"]
    BY <1>4 DEF NextRow
  <2>2. i \in Item /\ ctx[c].left \subseteq Item BY <1>1 DEF Busy
  <2>3. ctx'[c] = [ctx[c] EXCEPT !.item = i, !.left = @ \ {i}, !.at = "enter"]
    BY <2>1 DEF TypeInv
  <2>4. /\ ctx'[c].at = "enter" /\ ctx'[c].item = i
        /\ ctx'[c].left = ctx[c].left \ {i} /\ ctx'[c].own = ctx[c].own
        /\ ctx'[c] \in Busy
    <3>1. "enter" \in LogSteps /\ ctx[c].left \ {i} \in SUBSET Item BY <2>2 DEF LogSteps
    <3>2. ctx[c] \in [at : LogSteps, item : Item \cup {None}, left : SUBSET Item,
                      own : BOOLEAN, row : Row \cup {None}, post : Nat,
                      before : Seq(Lined)]
      BY <1>1 DEF Busy
    <3>3. ctx'[c] = [at |-> "enter", item |-> i, left |-> ctx[c].left \ {i},
                     own |-> ctx[c].own, row |-> ctx[c].row, post |-> ctx[c].post,
                     before |-> ctx[c].before]
      BY <2>3, <3>2
    <3>. QED BY <2>2, <3>1, <3>2, <3>3 DEF Busy
  <2>5. Moves(c) BY <2>1, <2>4 DEF TypeInv, Moves
  <2>6. ctx'[c].at \notin Held BY <2>4 DEF Held
  <2>7. TypeInv' BY <1>1, <2>5 DEF TypeInv, Moves
  <2>8. LockInv' BY <1>1, <1>2, <2>5, <2>6 DEF LockInv, Moves
  <2>9. QueueInv' BY <1>1, <2>2, <2>4, <2>5 DEF QueueInv, At, Moves
  <2>. QED BY <1>1, <1>2, <2>5, <2>6, <2>7, <2>8, <2>9, OutsideSteps
<1>. QED BY <1>3, <1>4

LEMMA EnterKeeps ==
    ASSUME TypeInv, Inv, NEW c \in Context, Enter(c) PROVE TypeInv' /\ Inv'
<1>. USE DEF Inv
<1>1. /\ ctx[c].at = "enter" /\ lock = None /\ lock' = c
      /\ UNCHANGED <<rows, made, posts, chosen, media, flushDue, written, spent>>
      /\ Goto(c, "row") /\ ~ At(c, "idle") /\ "row" \in LogSteps
  BY DEF Enter, At, web, LogSteps, Held
<1>2. Moves(c) /\ SameEntry(c) /\ ctx'[c].at = "row"
  BY <1>1, GotoSteps DEF Moves, SameEntry
<1>3. ctx[c].at \notin Held /\ ctx'[c].at \notin Held \ {"row"} /\ "row" \in Held
  BY <1>1, <1>2 DEF Held
<1>4. TypeInv' BY <1>1, <1>2 DEF TypeInv, Moves
<1>5. LockInv' BY <1>1, <1>2, <1>3, LogAssumption DEF LockInv, Moves
<1>6. QueueInv' BY <1>1, <1>2 DEF QueueInv, At, Moves, SameEntry
<1>. QED BY <1>1, <1>2, <1>3, <1>4, <1>5, <1>6, OutsideSteps

-----------------------------------------------------------------------------
(* What is done under the lock.                                            *)

\* What is known of the holder of the lock.
LEMMA HolderFacts ==
    ASSUME TypeInv, Inv, NEW c \in Context, ctx[c].at \in Held
    PROVE  /\ ctx[c] \in Busy /\ ~ At(c, "idle")
           /\ ctx[c].item \in Item
           /\ \A d \in Context \ {c} : ctx[d].at \notin Held
           /\ rows \in [Item -> Row \cup {None}]
           /\ None \notin Row
<1>1. ctx[c].at \notin {"idle", "next"} BY DEF Held
<1>2. ctx[c] \in Busy /\ ~ At(c, "idle") BY <1>1, BusyTypes DEF At
<1>3. ctx[c].item \in Item BY <1>1 DEF Inv, QueueInv, At
<1>4. \A d \in Context \ {c} : ctx[d].at \notin Held BY HolderIsAlone DEF Inv
<1>. QED BY <1>2, <1>3, <1>4, ValuesAreApart DEF TypeInv

\* Nobody else is working on what the holder of the lock works on.
LEMMA SmoothRows ==
    ASSUME TypeInv, Inv, Smooth, NEW c \in Context, ctx[c].at \in Held,
           NEW i \in written, rows[i] # None, ~ Bare(i)
    PROVE  /\ ctx[c].item = i
           /\ \/ ctx[c].at \in {"verify", "remove"}
              \/ ctx[c].at \in {"list", "read"} /\ ~ rows[i].file
<1>1. PICK d \in Context : /\ ctx[d].at # "idle" /\ ctx[d].item = i
                           /\ \/ ctx[d].at \in {"verify", "remove"}
                              \/ ctx[d].at \in {"list", "read"} /\ ~ rows[i].file
  BY DEF Inv, SmoothInv
<1>2. ctx[d].at \in Held BY <1>1 DEF Held
<1>3. d = c BY <1>2, HolderIsAlone DEF Inv
<1>. QED BY <1>1, <1>3

LEMMA TakeRowKeeps ==
    ASSUME TypeInv, Inv, NEW c \in Context, TakeRow(c) PROVE TypeInv' /\ Inv'
<1>. USE DEF Inv
<1>. DEFINE i == ctx[c].item
<1>1. /\ ctx[c].at = "row" /\ ctx[c].at \in Held
      /\ UNCHANGED <<posts, chosen, media, lock, flushDue, written, spent>>
  BY DEF TakeRow, At, web, Held
<1>2. /\ ctx[c] \in Busy /\ i \in Item /\ \A d \in Context \ {c} : ctx[d].at \notin Held
      /\ None \notin Row
  BY <1>1, HolderFacts
<1>3. /\ rows' \in [Item -> Row \cup {None}] /\ made' \in [Item -> Nat]
      /\ rows'[i] \in Row
      /\ \A j \in Item \ {i} : rows'[j] = rows[j] /\ made'[j] = made[j]
      /\ \/ rows'[i] = rows[i] /\ made'[i] = made[i]
         \/ /\ rows[i] = None /\ rows'[i].saved = None /\ made'[i] > 0
            /\ rows'[i].file => ctx[c].own
      /\ ctx' = [ctx EXCEPT ![c].row = rows'[i], ![c].at = "list"]
  <2>1. CASE rows[i] # None
    BY <1>2, <2>1 DEF TakeRow, TypeInv
  <2>2. CASE rows[i] = None
    <3>1. /\ Enqueue(i, ctx[c].own /\ i \in Attached)
          /\ ctx' = [ctx EXCEPT ![c].row = rows'[i], ![c].at = "list"]
      BY <2>2 DEF TakeRow
    <3>2. ctx[c].own \in BOOLEAN BY <1>2 DEF Busy
    <3>3. [id |-> made[i] + 1, file |-> ctx[c].own /\ i \in Attached, saved |-> None] \in Row
      BY <1>2, <3>2 DEF Row, TypeInv
    <3>4. /\ rows' = [rows EXCEPT ![i] = [id |-> made[i] + 1,
                         file |-> ctx[c].own /\ i \in Attached, saved |-> None]]
          /\ made' = [made EXCEPT ![i] = made[i] + 1]
      BY <3>1 DEF Enqueue, NewRow
    <3>5. rows'[i] = [id |-> made[i] + 1, file |-> ctx[c].own /\ i \in Attached,
                      saved |-> None]
      BY <1>2, <3>4 DEF TypeInv
    <3>6. rows'[i].saved = None /\ (rows'[i].file => ctx[c].own) BY <3>2, <3>5
    <3>7. /\ rows' \in [Item -> Row \cup {None}] /\ made' \in [Item -> Nat]
          /\ made'[i] > 0
          /\ \A j \in Item \ {i} : rows'[j] = rows[j] /\ made'[j] = made[j]
      BY <1>2, <3>3, <3>4 DEF TypeInv
    <3>. QED BY <2>2, <3>1, <3>3, <3>5, <3>6, <3>7
  <2>. QED BY <2>1, <2>2
<1>4. /\ Moves(c) /\ SameEntry(c)
      /\ ctx'[c].at = "list" /\ ctx'[c].row = rows'[i]
  <2>1. ctx[c] \in [at : LogSteps, item : Item \cup {None}, left : SUBSET Item,
                    own : BOOLEAN, row : Row \cup {None}, post : Nat,
                    before : Seq(Lined)]
    BY <1>2 DEF Busy
  <2>2. ctx'[c] = [at |-> "list", item |-> i, left |-> ctx[c].left,
                   own |-> ctx[c].own, row |-> rows'[i], post |-> ctx[c].post,
                   before |-> ctx[c].before]
    BY <1>3, <2>1 DEF TypeInv
  <2>3. /\ ctx'[c] \in Busy /\ ctx'[c].at = "list" /\ ctx'[c].row = rows'[i]
        /\ SameEntry(c)
    <3>1. "list" \in LogSteps BY DEF LogSteps, Held
    <3>2. /\ ctx[c].left \in SUBSET Item /\ ctx[c].own \in BOOLEAN
          /\ ctx[c].post \in Nat /\ ctx[c].before \in Seq(Lined)
      BY <2>1
    <3>3. ctx'[c] \in Busy 
      <4>1. i \in Item \cup {None} /\ rows'[i] \in Row \cup {None} BY <1>2, <1>3
      <4>. HIDE DEF i
      <4>. QED BY <2>2, <3>1, <3>2, <4>1 DEF Busy
    <3>4. SameEntry(c) BY <2>2 DEF SameEntry
    <3>. QED BY <2>2, <3>3, <3>4
  <2>4. /\ DOMAIN ctx' = Context /\ \A d \in Context \ {c} : ctx'[d] = ctx[d]
        /\ ctx' = [d \in Context |-> ctx'[d]]
    <3>1. ctx \in [Context -> {Idle} \cup Busy] BY DEF TypeInv
    <3>2. \A r : LET e == [ctx EXCEPT ![c].row = r, ![c].at = "list"]
                 IN DOMAIN e = Context /\ \A d \in Context \ {c} : e[d] = ctx[d]
      BY <3>1
    <3>3. DOMAIN ctx' = Context /\ \A d \in Context \ {c} : ctx'[d] = ctx[d]
      BY <1>3, <3>2
    <3>4. \A r : LET e == [ctx EXCEPT ![c].row = r, ![c].at = "list"]
                 IN e = [d \in Context |-> e[d]]
      BY <3>1
    <3>. QED BY <1>3, <3>3, <3>4
  <2>5. \A d \in Context : ctx'[d] \in {Idle} \cup Busy BY <2>3, <2>4 DEF TypeInv
  <2>6. Moves(c) BY <2>4, <2>5 DEF Moves
  <2>. QED BY <2>3, <2>6
<1>5. ctx'[c].at \in Held \ {"row"} /\ ctx'[c].at \notin OnPost /\ ctx'[c].at \notin Drafted
  BY <1>4 DEF Held, OnPost, Drafted
<1>6. TypeInv' BY <1>1, <1>3, <1>4 DEF TypeInv, Moves
<1>7. LockInv' BY <1>1, <1>4, <1>5 DEF LockInv, Moves
<1>8. QueueInv'
  <2>1. \A j \in Item : made[j] > 0 => made'[j] > 0
    BY <1>3 DEF TypeInv
  <2>2. \A d \in Context : ~ At(d, "idle") => ctx[d].left \subseteq Item
    BY BusyTypes DEF At, Busy
  <2>3. \A d \in Context \ {c} : ctx[d].at = "enter" /\ ctx[d].item = i /\ ctx[d].own
            => made'[i] = 0
    BY <1>1, <1>3 DEF QueueInv, At, RowInv, TypeInv
  <2>4. ASSUME NEW d \in Context, ~ At(d, "idle")'
        PROVE  /\ \A j \in ctx'[d].left : made'[j] > 0
               /\ ~ At(d, "next")' => ctx'[d].item \in Item
               /\ At(d, "next")' => ~ ctx'[d].own
               /\ ctx'[d].own => ctx'[d].item \notin Sessions
               /\ At(d, "enter")' \/ At(d, "row")' => (ctx'[d].own <=> made'[ctx'[d].item] = 0)
    <3>1. CASE d = c
      BY <1>1, <1>2, <1>4, <2>1, <2>2, <3>1 DEF QueueInv, At, SameEntry
    <3>2. CASE d # c
      <4>1. ctx'[d] = ctx[d] /\ ctx[d].at # "idle" BY <1>4, <2>4, <3>2 DEF Moves, At
      <4>2. ctx[d].at # "row" BY <1>2, <3>2 DEF Held
      <4>3. /\ \A j \in ctx[d].left : made[j] > 0 /\ j \in Item
            /\ ctx[d].at # "next" => ctx[d].item \in Item
            /\ ctx[d].at = "next" => ~ ctx[d].own
            /\ ctx[d].own => ctx[d].item \notin Sessions
            /\ ctx[d].at = "enter" => (ctx[d].own <=> made[ctx[d].item] = 0)
        BY <2>2, <4>1 DEF QueueInv, At
      <4>4. ctx[d].at = "enter" => (ctx[d].own <=> made'[ctx[d].item] = 0)
        BY <1>3, <2>1, <2>3, <3>2, <4>3 DEF TypeInv
      <4>. QED BY <2>1, <4>1, <4>2, <4>3, <4>4 DEF At
    <3>. QED BY <3>1, <3>2
  <2>5. \A d, e \in Context :
          /\ ctx'[d].at \in {"enter", "row"} /\ ctx'[e].at \in {"enter", "row"}
          /\ ctx'[d].own /\ ctx'[e].own /\ ctx'[d].item = ctx'[e].item
          => d = e
    BY <1>4 DEF QueueInv, Moves
  <2>. QED BY <2>4, <2>5 DEF QueueInv, At
<1>9. RowInv' BY <1>1, <1>2, <1>3, ZenonT(30) DEF RowInv, TypeInv
<1>10. HoldInv'
  <2>1. \A d \in Context \ {c} : ctx'[d].at \notin Held BY <1>2, <1>4 DEF Moves
  <2>2. /\ ctx'[c].at = "list" /\ ctx'[c].item = i /\ ctx'[c].row = rows'[i]
        /\ rows'[i] \in Row
    BY <1>2, <1>3, <1>4 DEF SameEntry
  <2>. SUFFICES ASSUME NEW d \in Context, ctx'[d].at \in Held \ {"row"}
                PROVE  /\ d = c /\ ctx'[d].row \in Row
                       /\ rows'[ctx'[d].item] = ctx'[d].row /\ ctx'[d].at = "list"
    BY DEF HoldInv, At
  <2>3. d = c BY <2>1
  <2>. QED BY <2>2, <2>3
<1>11. PostInv' /\ OneInv'
  <2>1. \A d \in Context : ctx'[d].at \notin OnPost /\ ctx'[d].at \notin Drafted
                           /\ ctx'[d].at # "create"
    BY <1>2, <1>4, <1>5 DEF Moves, OnPost, Drafted, Held
  <2>. QED BY <1>1, <2>1 DEF PostInv, OneInv, OwnLine, At
<1>12. UploadInv'
  <2>1. \A d \in Context : ctx[d].at # "save" BY <1>1, <1>2 DEF Held
  <2>2. ctx[c].own => made[i] = 0 BY <1>1 DEF QueueInv, At
  <2>3. \A j \in Item : Unsaved(j)' => Unsaved(j)
    BY <1>2, <1>3, <2>1, <2>2, SMTT(20) DEF Unsaved, At
  <2>4. spent.resends \in Nat BY DEF TypeInv
  <2>. QED BY <1>1, <2>3, <2>4, NothingUploaded
<1>13. SmoothInv'
  <2>. SUFFICES ASSUME Smooth' PROVE SmoothInv'
    BY DEF SmoothInv
  <2>1. Smooth BY <1>1 DEF Smooth
  <2>2. \A d \in Context : ctx'[d].at \notin Drafted /\ ctx'[d].at \notin {"create", "verify"}
    BY <1>2, <1>4 DEF Moves, Drafted, Held
  <2>3. ASSUME NEW j \in written, rows'[j] # None
        PROVE  \/ Bare(j)'
               \/ \E d \in Context : /\ ctx'[d].at # "idle" /\ ctx'[d].item = j
                                     /\ \/ ctx'[d].at \in {"verify", "remove"}
                                        \/ ctx'[d].at \in {"list", "read"} /\ ~ rows'[j].file
    <3>1. rows[j] # None => Bare(j) BY <1>1, <2>1, SmoothRows
    <3>2. j \in Item BY DEF TypeInv
    <3>3. CASE rows[j] # None BY <1>3, <3>1, <3>2, <3>3 DEF Bare
    <3>4. CASE rows[j] = None
      <4>1. j = i /\ (rows'[i].file => ctx[c].own) BY <1>2, <1>3, <2>3, <3>2, <3>4
      <4>2. made[i] > 0 BY <3>2, <4>1 DEF RowInv
      <4>3. ~ ctx[c].own BY <1>1, <4>2 DEF QueueInv, At
      <4>4. ~ rows'[j].file BY <4>1, <4>3
      <4>. QED BY <1>4, <4>1, <4>4 DEF SameEntry
    <3>. QED BY <3>3, <3>4
  <2>. QED BY <1>1, <2>1, <2>2, <2>3 DEF SmoothInv, OwnLine, At
<1>. QED BY <1>6, <1>7, <1>8, <1>9, <1>10, <1>11, <1>12, <1>13

LEMMA BusyRecord ==
    ASSUME NEW s \in LogSteps, NEW i \in Item \cup {None}, NEW L \in SUBSET Item,
           NEW o \in BOOLEAN, NEW r \in Row \cup {None}, NEW p \in Nat,
           NEW b \in Seq(Lined)
    PROVE  [at |-> s, item |-> i, left |-> L, own |-> o, row |-> r, post |-> p,
            before |-> b] \in Busy
BY DEF Busy

LEMMA ReadSteps ==
    ASSUME TypeInv, NEW c \in Context, ctx[c] \in Busy, NEW p \in Nat,
           ctx' = [ctx EXCEPT ![c].post = p, ![c].at = "read"]
    PROVE  /\ Moves(c) /\ SameEntry(c)
           /\ ctx'[c].at = "read" /\ ctx'[c].post = p
           /\ ctx'[c].row = ctx[c].row
<1>1. ctx[c] \in [at : LogSteps, item : Item \cup {None}, left : SUBSET Item,
                  own : BOOLEAN, row : Row \cup {None}, post : Nat,
                  before : Seq(Lined)]
  BY DEF Busy
<1>2. ctx'[c] = [at |-> "read", item |-> ctx[c].item, left |-> ctx[c].left,
                 own |-> ctx[c].own, row |-> ctx[c].row, post |-> p,
                 before |-> ctx[c].before]
  BY <1>1 DEF TypeInv
<1>3. ctx'[c] \in Busy
  <2>1. "read" \in LogSteps BY DEF LogSteps, Held
  <2>2. /\ ctx[c].item \in Item \cup {None} /\ ctx[c].left \in SUBSET Item
        /\ ctx[c].own \in BOOLEAN /\ ctx[c].row \in Row \cup {None}
        /\ ctx[c].post \in Nat /\ ctx[c].before \in Seq(Lined)
    BY <1>1
  <2>3. [at |-> "read", item |-> ctx[c].item, left |-> ctx[c].left, own |-> ctx[c].own,
         row |-> ctx[c].row, post |-> p, before |-> ctx[c].before] \in Busy
    BY <2>1, <2>2, BusyRecord, Zenon
  <2>. QED BY <1>2, <2>3, Zenon
<1>4. /\ DOMAIN ctx' = Context /\ \A d \in Context \ {c} : ctx'[d] = ctx[d]
      /\ ctx' = [d \in Context |-> ctx'[d]]
  BY DEF TypeInv
<1>5. \A d \in Context : ctx'[d] \in {Idle} \cup Busy BY <1>3, <1>4 DEF TypeInv
<1>6. Moves(c) BY <1>4, <1>5 DEF Moves
<1>. QED BY <1>2, <1>6 DEF SameEntry

LEMMA DraftSteps ==
    ASSUME TypeInv, NEW c \in Context, ctx[c] \in Busy, NEW b \in Seq(Lined),
           NEW s \in LogSteps, ctx' = [ctx EXCEPT ![c].before = b, ![c].at = s]
    PROVE  /\ Moves(c) /\ SameEntry(c)
           /\ ctx'[c].at = s /\ ctx'[c].post = ctx[c].post
           /\ ctx'[c].row = ctx[c].row /\ ctx'[c].before = b
<1>1. ctx[c] \in [at : LogSteps, item : Item \cup {None}, left : SUBSET Item,
                  own : BOOLEAN, row : Row \cup {None}, post : Nat,
                  before : Seq(Lined)]
  BY DEF Busy
<1>2. ctx'[c] = [at |-> s, item |-> ctx[c].item, left |-> ctx[c].left,
                 own |-> ctx[c].own, row |-> ctx[c].row, post |-> ctx[c].post,
                 before |-> b]
  BY <1>1 DEF TypeInv
<1>3. ctx'[c] \in Busy
  <2>1. /\ ctx[c].item \in Item \cup {None} /\ ctx[c].left \in SUBSET Item
        /\ ctx[c].own \in BOOLEAN /\ ctx[c].row \in Row \cup {None}
        /\ ctx[c].post \in Nat /\ ctx[c].before \in Seq(Lined)
    BY <1>1
  <2>3. [at |-> s, item |-> ctx[c].item, left |-> ctx[c].left, own |-> ctx[c].own,
         row |-> ctx[c].row, post |-> ctx[c].post, before |-> b] \in Busy
    BY <2>1, BusyRecord, Zenon
  <2>. QED BY <1>2, <2>3, Zenon
<1>4. /\ DOMAIN ctx' = Context /\ \A d \in Context \ {c} : ctx'[d] = ctx[d]
      /\ ctx' = [d \in Context |-> ctx'[d]]
  BY DEF TypeInv
<1>5. \A d \in Context : ctx'[d] \in {Idle} \cup Busy BY <1>3, <1>4 DEF TypeInv
<1>6. Moves(c) BY <1>4, <1>5 DEF Moves
<1>. QED BY <1>2, <1>6 DEF SameEntry

\* The holder goes on after it has listed or read posts.
LEMMA HolderGoesOn ==
    ASSUME TypeInv, Inv, NEW c \in Context, ctx[c].at \in {"list", "read", "verify"},
           Moves(c), SameEntry(c), ctx'[c].row = ctx[c].row,
           ctx'[c].at \in {"create", "read", "upload", "write", "remove"},
           UNCHANGED <<rows, made, posts, chosen, media, lock, flushDue, written, spent>>,
           ctx'[c].at = "upload" => ctx[c].row.file /\ ctx[c].row.saved = None,
           ctx'[c].at = "remove" => ctx[c].item \in written,
           ctx'[c].at \in OnPost =>
              /\ ctx'[c].post \in DOMAIN posts
              /\ chosen = 0 => \A p, n : OwnLine(p, n) => p = ctx'[c].post,
           ctx'[c].at \in Drafted =>
              /\ ctx'[c].before = posts[ctx'[c].post]
              /\ \A n \in DOMAIN posts[ctx'[c].post] :
                    posts[ctx'[c].post][n].item # ctx[c].item,
           ctx'[c].at = "create" => Len(posts) = 0 /\ \A p, n : ~ OwnLine(p, n),
           /\ Smooth /\ ctx[c].item \in written /\ rows[ctx[c].item] # None
           /\ ~ Bare(ctx[c].item)
           => \/ ctx'[c].at = "remove"
              \/ ctx'[c].at = "read" /\ ~ rows[ctx[c].item].file
    PROVE  TypeInv' /\ Inv'
<1>. USE DEF Inv
<1>1. ctx[c].at \in Held /\ ctx'[c].at \in Held \ {"row"} BY DEF Held
<1>2. /\ ctx[c] \in Busy /\ ctx[c].item \in Item
      /\ \A d \in Context \ {c} : ctx[d].at \notin Held
      /\ \A d \in Context \ {c} : ctx'[d] = ctx[d]
  BY <1>1, HolderFacts DEF Moves
<1>3. \A d \in Context \ {c} :
         ctx'[d].at \notin OnPost \cup Drafted \cup {"create", "save", "upload", "verify",
                                                     "remove"}
  BY <1>2 DEF OnPost, Drafted, Held
<1>4. TypeInv' BY DEF TypeInv, Moves
<1>5. LockInv' /\ QueueInv' BY <1>1, HolderMoves
<1>6. RowInv' BY DEF RowInv
<1>7. HoldInv'
  <2>1. ctx[c].row \in Row /\ rows[ctx[c].item] = ctx[c].row
    BY <1>1 DEF HoldInv, At
  <2>2. ctx'[c].at # "save" /\ ctx'[c].at # "verify" OBVIOUS
  <2>3. ASSUME NEW d \in Context, ctx'[d].at \in Held \ {"row"} PROVE d = c
    BY <1>2, <2>3
  <2>. QED BY <2>1, <2>2, <2>3 DEF HoldInv, At, SameEntry
<1>8. PostInv'
  <2>1. \A p \in DOMAIN posts : Len(posts[p]) \in Nat /\ DOMAIN posts[p] = 1..Len(posts[p])
    BY DEF TypeInv
  <2>2. ctx'[c].at \in Drafted => ctx'[c].at \in OnPost BY DEF OnPost
  <2>3. ctx'[c].at \in Drafted =>
          LET b == ctx'[c].before
              l == posts[ctx'[c].post] IN
          /\ Len(b) <= Len(l)
          /\ \A n \in DOMAIN b : b[n] = l[n] /\ b[n].item # ctx'[c].item
          /\ \A n \in DOMAIN l : n > Len(b) => l[n].item = Foreign
    BY <2>1, <2>2 DEF SameEntry
  <2>. QED BY <1>3, <2>3 DEF PostInv
<1>9. OneInv' BY <1>3 DEF OneInv, OwnLine, At
<1>10. UploadInv'
  <2>1. \A d \in Context : ctx[d].at # "save" BY <1>2 DEF Held
  <2>2. \A j \in Item : Unsaved(j)' => Unsaved(j) BY <2>1 DEF Unsaved, At
  <2>3. spent.resends \in Nat BY DEF TypeInv
  <2>. QED BY <2>2, <2>3, NothingUploaded
<1>11. SmoothInv'
  <2>. SUFFICES ASSUME Smooth' PROVE SmoothInv'
    BY DEF SmoothInv
  <2>1. Smooth BY DEF Smooth
  <2>2. ASSUME NEW j \in written, rows'[j] # None
        PROVE  \/ Bare(j)'
               \/ \E d \in Context : /\ ctx'[d].at # "idle" /\ ctx'[d].item = j
                                     /\ \/ ctx'[d].at \in {"verify", "remove"}
                                        \/ ctx'[d].at \in {"list", "read"} /\ ~ rows'[j].file
    <3>1. CASE Bare(j) BY <3>1 DEF Bare
    <3>2. CASE ~ Bare(j)
      <4>1. ctx[c].item = j BY <1>1, <2>1, <2>2, <3>2, SmoothRows
      <4>. QED BY <2>1, <2>2, <3>2, <4>1 DEF SameEntry
    <3>. QED BY <3>1, <3>2
  <2>3. ASSUME NEW d \in Context
        PROVE  /\ At(d, "create")' => Len(posts') = 0
               /\ ctx'[d].at \in Drafted => posts'[ctx'[d].post] = ctx'[d].before
               /\ At(d, "verify")' => posts'[ctx'[d].post] = NextContent(d)'
    BY <1>3, <2>1 DEF At
  <2>. QED BY <2>1, <2>2, <2>3 DEF SmoothInv, OwnLine
<1>. QED BY <1>4, <1>5, <1>6, <1>7, <1>8, <1>9, <1>10, <1>11

LEMMA SpentTypes ==
    ASSUME TypeInv
    PROVE  /\ spent \in [flushes : Nat, faults : Nat, foreign : Nat, resends : Nat]
           /\ spent.resends \in Nat /\ spent.resends <= spent.resends
BY DEF TypeInv

LEMMA ListPostsKeeps ==
    ASSUME TypeInv, Inv, NEW c \in Context, ListPosts(c) PROVE TypeInv' /\ Inv'
<1>. USE DEF Inv
<1>. DEFINE i == ctx[c].item
<1>1. /\ ctx[c].at = "list" /\ ctx[c].at \in Held /\ ~ At(c, "idle")
      /\ UNCHANGED <<made, posts, chosen, media, flushDue, written, spent>>
  BY DEF ListPosts, At, web, Held
<1>2. /\ ctx[c] \in Busy /\ i \in Item
      /\ rows[i] = ctx[c].row /\ ctx[c].row \in Row
  BY <1>1, HolderFacts DEF HoldInv, At
<1>3. Smooth /\ i \in written /\ rows[i] # None /\ ~ Bare(i) => ~ rows[i].file
  BY <1>1, SmoothRows
<1>4. CASE /\ ~ Empty(c) /\ (chosen # 0 \/ Len(posts) = 1)
           /\ ctx' = [ctx EXCEPT ![c].post = IF chosen # 0 THEN chosen ELSE 1,
                                 ![c].at = "read"]
           /\ UNCHANGED <<rows, lock>>
  <2>. DEFINE p == IF chosen # 0 THEN chosen ELSE 1
  <2>1. p \in DOMAIN posts /\ p \in Nat BY <1>4 DEF TypeInv
  <2>2. /\ Moves(c) /\ SameEntry(c) /\ ctx'[c].at = "read" /\ ctx'[c].post = p
        /\ ctx'[c].row = ctx[c].row
    <3>. HIDE DEF p
    <3>1. ctx' = [ctx EXCEPT ![c].post = p, ![c].at = "read"] BY <1>4 DEF p
    <3>. QED BY <1>2, <2>1, <3>1, ReadSteps
  <2>3. ctx'[c].at \in OnPost /\ ctx'[c].at \notin Drafted
    BY <2>2 DEF OnPost, Drafted
  <2>4. chosen = 0 => \A q, n : OwnLine(q, n) => q = p
    BY <1>4 DEF OwnLine, TypeInv
  <2>. HIDE DEF p
  <2>. QED BY <1>1, <1>3, <1>4, <2>1, <2>2, <2>3, <2>4, HolderGoesOn
<1>5. CASE /\ ~ Empty(c) /\ chosen = 0 /\ Len(posts) = 0
           /\ Goto(c, "create") /\ UNCHANGED <<rows, lock>>
  <2>1. "create" \in LogSteps BY DEF LogSteps, Held
  <2>2. /\ Moves(c) /\ SameEntry(c) /\ ctx'[c].at = "create"
        /\ ctx'[c].row = ctx[c].row
    BY <1>1, <1>5, <2>1, GotoSteps DEF Moves, SameEntry
  <2>3. ctx'[c].at \notin OnPost /\ ctx'[c].at \notin Drafted
    BY <2>2 DEF OnPost, Drafted
  <2>4. \A p, n : ~ OwnLine(p, n) BY <1>5 DEF OwnLine, TypeInv
  <2>5. Smooth => i \notin written
    BY <2>4 DEF SmoothInv
  <2>. QED BY <1>1, <1>5, <2>2, <2>3, <2>4, <2>5, HolderGoesOn
<1>6. CASE /\ Empty(c) \/ (chosen = 0 /\ Len(posts) > 1)
           /\ Fail(c)
  <2>1. Smooth => Len(posts) <= 1 /\ Len(posts) \in Nat BY DEF SmoothInv, TypeInv
  <2>2. Smooth => Empty(c) BY <1>6, <2>1
  <2>3. Empty(c) => Bare(i) BY <1>2 DEF Empty, Bare
  <2>4. Smooth' => Smooth BY <1>1 DEF Smooth
  <2>. QED BY <1>1, <1>6, <2>2, <2>3, <2>4, FailKeeps, SpentTypes DEF At, web, TypeInv
<1>. QED BY <1>4, <1>5, <1>6 DEF ListPosts

LEMMA ReadPostKeeps ==
    ASSUME TypeInv, Inv, NEW c \in Context, ReadPost(c) PROVE TypeInv' /\ Inv'
<1>. USE DEF Inv
<1>. DEFINE i == ctx[c].item
            lines == posts[ctx[c].post]
            r == ctx[c].row
<1>1. /\ ctx[c].at = "read" /\ ctx[c].at \in Held /\ ~ At(c, "idle") /\ ctx[c].at \in OnPost
      /\ UNCHANGED <<made, posts, chosen, media, flushDue, written, spent>>
  BY DEF ReadPost, At, web, Held, OnPost
<1>2. /\ ctx[c] \in Busy /\ i \in Item
      /\ rows[i] = r /\ r \in Row /\ rows[i] # None
      /\ ctx[c].post \in DOMAIN posts
      /\ lines \in Seq(Lined)
      /\ r.saved # None => r.file
  <2>1. ctx[c] \in Busy /\ i \in Item /\ None \notin Row BY <1>1, HolderFacts
  <2>2. rows[i] = r /\ r \in Row BY <1>1 DEF HoldInv, At
  <2>3. ctx[c].post \in DOMAIN posts BY <1>1 DEF PostInv
  <2>4. lines \in Seq(Lined) BY <2>3 DEF TypeInv
  <2>. QED BY <2>1, <2>2, <2>3, <2>4 DEF RowInv
<1>3. Smooth /\ i \in written /\ ~ Bare(i) => ~ rows[i].file
  BY <1>1, <1>2, SmoothRows
<1>4. Smooth' => Smooth BY <1>1 DEF Smooth
<1>5. Smooth /\ i \in written => Present(lines, i)
  <2>. SUFFICES ASSUME Smooth, i \in written PROVE Present(lines, i)
    OBVIOUS
  <2>1. PICK n : OwnLine(1, n) /\ posts[1][n].item = i BY DEF SmoothInv
  <2>2. ctx[c].post = 1 BY <1>1, <2>1 DEF OneInv, SmoothInv
  <2>. QED BY <2>1, <2>2 DEF Present, Marked, OwnLine
<1>6. Present(lines, i) => i \in written
  BY <1>2 DEF Present, Marked, PostInv
<1>7. CASE Present(lines, i) /\ Same(c, lines)
  <2>1. Goto(c, "remove") /\ UNCHANGED <<rows, lock>>
    BY <1>7 DEF ReadPost
  <2>2. "remove" \in LogSteps BY DEF LogSteps, Held
  <2>3. /\ Moves(c) /\ SameEntry(c) /\ ctx'[c].at = "remove"
        /\ ctx'[c].row = ctx[c].row
    BY <1>1, <2>1, <2>2, GotoSteps DEF Moves, SameEntry
  <2>4. ctx'[c].at \notin OnPost /\ ctx'[c].at \notin Drafted
    BY <2>3 DEF OnPost, Drafted
  <2>. QED BY <1>1, <1>6, <1>7, <2>1, <2>3, <2>4, HolderGoesOn
<1>8. CASE Present(lines, i) /\ ~ Same(c, lines)
  <2>1. Fail(c) BY <1>8 DEF ReadPost
  <2>2. Smooth => FALSE
    <3>. SUFFICES ASSUME Smooth PROVE FALSE
      OBVIOUS
    <3>1. ~ r.file BY <1>2, <1>3, <1>6, <1>8 DEF Bare
    <3>2. r.saved = None BY <1>2, <3>1
    <3>3. PICK n : n \in Marked(lines, i) BY <1>8 DEF Present
    <3>4. Marked(lines, i) = {n}
      BY <1>2, <3>3 DEF Marked, PostInv
    <3>5. Cardinality(Marked(lines, i)) = 1 BY <3>4, FS_Singleton
    <3>. QED BY <1>8, <3>1, <3>2, <3>3, <3>5 DEF Same
  <2>. QED BY <1>1, <1>4, <2>1, <2>2, FailKeeps, SpentTypes DEF At, web, TypeInv
<1>9. CASE ~ Present(lines, i) /\ r.saved # None /\ r.saved[3] # ctx[c].post
  <2>1. Fail(c) BY <1>9 DEF ReadPost
  <2>. QED BY <1>1, <1>4, <1>5, <1>9, <2>1, FailKeeps, SpentTypes DEF At, web, TypeInv
<1>10. CASE ~ Present(lines, i) /\ ~ (r.saved # None /\ r.saved[3] # ctx[c].post)
  <2>. DEFINE s == IF r.file /\ r.saved = None THEN "upload" ELSE "write"
  <2>1. /\ ctx' = [ctx EXCEPT ![c].before = lines, ![c].at = s]
        /\ UNCHANGED <<rows, lock>>
    BY <1>10 DEF ReadPost
  <2>2. s \in LogSteps BY DEF LogSteps, Held
  <2>3. s \in {"upload", "write"} /\ (s = "upload" => r.file /\ r.saved = None) OBVIOUS
  <2>. HIDE DEF s
  <2>4. /\ Moves(c) /\ SameEntry(c)
        /\ ctx'[c].at = s /\ ctx'[c].post = ctx[c].post
        /\ ctx'[c].row = ctx[c].row /\ ctx'[c].before = lines
    BY <1>2, <2>1, <2>2, DraftSteps
  <2>5. \A n \in DOMAIN lines : lines[n].item # i BY <1>10 DEF Present, Marked
  <2>6. chosen = 0 => \A p, n : OwnLine(p, n) => p = ctx[c].post
    BY <1>1 DEF OneInv
  <2>7. /\ ctx'[c].at \in {"create", "read", "upload", "write", "remove"}
        /\ ctx'[c].at # "remove" /\ ctx'[c].at # "create"
    BY <2>3, <2>4
  <2>8. ~ (Smooth /\ i \in written) BY <1>5, <1>10
  <2>. QED BY <1>1, <1>2, <2>1, <2>3, <2>4, <2>5, <2>6, <2>7, <2>8, HolderGoesOn
<1>. QED BY <1>7, <1>8, <1>9, <1>10

LEMMA VerifyPostKeeps ==
    ASSUME TypeInv, Inv, NEW c \in Context, VerifyPost(c) PROVE TypeInv' /\ Inv'
<1>. USE DEF Inv
<1>1. /\ ctx[c].at = "verify" /\ ctx[c].at \in Held /\ ~ At(c, "idle")
      /\ UNCHANGED <<made, posts, chosen, media, flushDue, written, spent>>
  BY DEF VerifyPost, At, web, Held
<1>2. CASE posts[ctx[c].post] = NextContent(c)
  <2>1. Goto(c, "remove") /\ UNCHANGED <<rows, lock>> BY <1>2 DEF VerifyPost
  <2>2. "remove" \in LogSteps BY DEF LogSteps, Held
  <2>3. /\ Moves(c) /\ SameEntry(c) /\ ctx'[c].at = "remove"
        /\ ctx'[c].row = ctx[c].row
    BY <1>1, <2>1, <2>2, GotoSteps DEF Moves, SameEntry
  <2>4. ctx'[c].at \notin OnPost /\ ctx'[c].at \notin Drafted
    BY <2>3 DEF OnPost, Drafted
  <2>5. ctx[c].item \in written BY <1>1 DEF HoldInv, At
  <2>. QED BY <1>1, <2>1, <2>3, <2>4, <2>5, HolderGoesOn
<1>3. CASE posts[ctx[c].post] # NextContent(c)
  <2>1. Fail(c) BY <1>3 DEF VerifyPost
  <2>2. Smooth => FALSE BY <1>1, <1>3 DEF SmoothInv, At
  <2>3. Smooth' => Smooth BY <1>1 DEF Smooth
  <2>. QED BY <1>1, <2>1, <2>2, <2>3, FailKeeps, SpentTypes DEF At, web, TypeInv
<1>. QED BY <1>2, <1>3

LEMMA SaveUploadKeeps ==
    ASSUME TypeInv, Inv, NEW c \in Context, SaveUpload(c) PROVE TypeInv' /\ Inv'
<1>. USE DEF Inv
<1>. DEFINE i == ctx[c].item
            r == ctx[c].row
<1>1. /\ ctx[c].at = "save" /\ ctx[c].at \in Held /\ ~ At(c, "idle")
      /\ ctx[c].at \in Held \ {"row"} /\ ctx[c].at \in Drafted /\ ctx[c].at \in OnPost
      /\ UNCHANGED <<made, posts, chosen, media, flushDue, written, spent>>
  BY DEF SaveUpload, At, web, Held, OnPost, Drafted
<1>2. /\ ctx[c] \in Busy /\ i \in Item
      /\ \A d \in Context \ {c} : ctx[d].at \notin Held
      /\ rows \in [Item -> Row \cup {None}] /\ None \notin Row
  BY <1>1, HolderFacts
<1>3. /\ r \in Row /\ r.file /\ r.saved # None /\ rows[i] # None
      /\ rows[i].id = r.id /\ rows[i].file /\ rows[i].saved = None
  BY <1>1 DEF HoldInv, At
<1>4. /\ rows' = [rows EXCEPT ![i].saved = r.saved] /\ Goto(c, "write")
      /\ UNCHANGED lock
  BY <1>3 DEF SaveUpload
<1>5. /\ rows'[i] = r
      /\ \A j \in Item \ {i} : rows'[j] = rows[j]
      /\ rows' \in [Item -> Row \cup {None}]
  <2>1. rows[i] \in Row BY <1>2, <1>3
  <2>2. rows' = [rows EXCEPT ![i] = [rows[i] EXCEPT !.saved = r.saved]]
    BY <1>2, <1>4, <2>1 DEF Row
  <2>3. [rows[i] EXCEPT !.saved = r.saved] = r
    <3>1. rows[i].file = r.file BY <1>3, <2>1 DEF Row
    <3>2. \A a, b \in Row : a.id = b.id /\ a.file = b.file
                            => [a EXCEPT !.saved = b.saved] = b
      BY DEF Row
    <3>. QED BY <1>3, <2>1, <3>1, <3>2
  <2>4. rows' = [rows EXCEPT ![i] = r] BY <2>2, <2>3
  <2>. QED BY <1>2, <1>3, <2>4
<1>6. /\ Moves(c) /\ SameEntry(c) /\ ctx'[c].at = "write"
      /\ ctx'[c].row = r /\ ctx'[c].post = ctx[c].post /\ ctx'[c].before = ctx[c].before
  <2>1. "write" \in LogSteps BY DEF LogSteps, Held
  <2>. QED BY <1>1, <1>4, <2>1, GotoSteps DEF Moves, SameEntry
<1>7. ctx'[c].at \in Held \ {"row"} BY <1>6 DEF Held
<1>8. \A d \in Context \ {c} : ctx'[d] = ctx[d] /\
         ctx'[d].at \notin Held \cup OnPost \cup Drafted
                     \cup {"create", "save", "upload", "verify", "remove"}
  BY <1>2, <1>6 DEF Moves, OnPost, Drafted, Held
<1>9. TypeInv' BY <1>1, <1>4, <1>5, <1>6 DEF TypeInv, Moves
<1>10. LockInv' /\ QueueInv' BY <1>1, <1>4, <1>6, <1>7, HolderMoves
<1>11. RowInv' BY <1>1, <1>2, <1>3, <1>5 DEF RowInv
<1>12. HoldInv'
  <2>1. ASSUME NEW d \in Context, ctx'[d].at \in Held PROVE d = c
    BY <1>8, <2>1
  <2>. QED BY <1>3, <1>5, <1>6, <2>1 DEF HoldInv, At, SameEntry
<1>13. PostInv'
  <2>1. ASSUME NEW d \in Context, ctx'[d].at \in OnPost \cup Drafted PROVE d = c
    BY <1>8, <2>1
  <2>. QED BY <1>1, <1>6, <2>1 DEF PostInv, SameEntry
<1>14. OneInv'
  <2>1. ASSUME NEW d \in Context, ctx'[d].at \in OnPost \cup {"create"}
        PROVE  d = c /\ ctx'[d].at # "create"
    BY <1>6, <1>8, <2>1
  <2>. QED BY <1>1, <1>6, <2>1 DEF OneInv, OwnLine, At
<1>15. UploadInv'
  <2>1. ASSUME NEW j \in Item, j = i PROVE ~ Unsaved(j)'
    <3>1. made[j] > 0 /\ made'[j] = made[j] BY <1>1, <1>2, <1>3, <2>1 DEF RowInv
    <3>2. made'[j] # 0 BY <3>1
    <3>. QED BY <1>3, <1>5, <2>1, <3>2 DEF Unsaved
  <2>2. \A j \in Item \ {i} : Unsaved(j)' => Unsaved(j)
    BY <1>1, <1>5, <1>8 DEF Unsaved, At
  <2>3. \A j \in Item : Unsaved(j)' => Unsaved(j) BY <2>1, <2>2
  <2>4. spent'.resends \in Nat /\ spent.resends <= spent'.resends BY <1>1, SpentTypes
  <2>. QED BY <1>1, <2>3, <2>4, NothingUploaded
<1>16. SmoothInv'
  <2>. SUFFICES ASSUME Smooth' PROVE SmoothInv'
    BY DEF SmoothInv
  <2>1. Smooth BY <1>1 DEF Smooth
  <2>2. ASSUME NEW j \in written, rows'[j] # None PROVE Bare(j)'
    <3>1. j \in Item BY DEF TypeInv
    <3>2. ~ (i \in written) \/ Bare(i)
      BY <1>1, <1>3, <2>1, SmoothRows
    <3>3. j # i BY <1>3, <2>2, <3>2 DEF Bare
    <3>4. rows[j] # None /\ rows'[j] = rows[j] BY <1>5, <2>2, <3>1, <3>3
    <3>5. Bare(j) BY <1>1, <2>1, <3>3, <3>4, SmoothRows
    <3>. QED BY <3>4, <3>5 DEF Bare
  <2>3. ASSUME NEW d \in Context
        PROVE  /\ At(d, "create")' => Len(posts') = 0
               /\ ctx'[d].at \in Drafted => posts'[ctx'[d].post] = ctx'[d].before
               /\ At(d, "verify")' => posts'[ctx'[d].post] = NextContent(d)'
    <3>1. CASE d = c BY <1>1, <1>6, <2>1, <3>1 DEF SmoothInv, At
    <3>2. CASE d # c BY <1>8, <3>2 DEF At
    <3>. QED BY <3>1, <3>2
  <2>. QED BY <1>1, <2>1, <2>2, <2>3 DEF SmoothInv, OwnLine
<1>. QED BY <1>9, <1>10, <1>11, <1>12, <1>13, <1>14, <1>15, <1>16

LEMMA RemoveRowKeeps ==
    ASSUME TypeInv, Inv, NEW c \in Context, RemoveRow(c) PROVE TypeInv' /\ Inv'
<1>. USE DEF Inv
<1>. DEFINE i == ctx[c].item
<1>1. /\ ctx[c].at = "remove" /\ ctx[c].at \in Held /\ ~ At(c, "idle") /\ Release(c)
      /\ UNCHANGED <<made, posts, chosen, media, flushDue, written, spent>>
  BY DEF RemoveRow, At, web, Held
<1>2. /\ i \in Item
      /\ \A d \in Context \ {c} : ctx[d].at \notin Held
      /\ rows \in [Item -> Row \cup {None}] /\ None \notin Row
  BY <1>1, HolderFacts
<1>3. rows[i] = ctx[c].row /\ i \in written
  BY <1>1 DEF HoldInv, At
<1>4. rows' = [rows EXCEPT ![i] = None]
  BY <1>2, <1>3 DEF RemoveRow
<1>5. /\ rows'[i] = None
      /\ \A j \in Item \ {i} : rows'[j] = rows[j]
      /\ rows' \in [Item -> Row \cup {None}]
  BY <1>2, <1>4
<1>6. /\ ctx' \in [Context -> {Idle} \cup Busy] /\ lock' = None
      /\ ctx'[c].at \in {"idle", "next"}
      /\ \A d \in Context \ {c} : ctx'[d] = ctx[d]
  BY <1>1, ReleaseSteps
<1>7. \A d \in Context : ctx'[d].at \notin Held BY <1>2, <1>6 DEF Held
<1>8. \A d \in Context : ctx'[d].at \notin OnPost \cup Drafted \cup {"create", "save", "verify"}
  BY <1>7 DEF Held, OnPost, Drafted
<1>9. TypeInv' BY <1>1, <1>5, <1>6 DEF TypeInv
<1>10. LockInv' /\ QueueInv' BY <1>1, HolderLeaves
<1>11. RowInv' BY <1>1, <1>3, <1>5 DEF RowInv
<1>12. HoldInv' BY <1>7 DEF HoldInv
<1>13. PostInv' /\ OneInv' BY <1>1, <1>8 DEF PostInv, OneInv, OwnLine, At
<1>14. UploadInv'
  <2>1. ASSUME NEW j \in Item, j = i PROVE ~ Unsaved(j)'
    <3>1. made[j] > 0 /\ made'[j] = made[j] BY <1>1, <1>2, <1>3, <2>1 DEF RowInv
    <3>2. made'[j] # 0 BY <3>1
    <3>. QED BY <1>5, <2>1, <3>2 DEF Unsaved
  <2>2. \A d \in Context : ctx[d].at # "save" BY <1>1, <1>2 DEF Held
  <2>3. \A j \in Item \ {i} : Unsaved(j)' => Unsaved(j)
    BY <1>1, <1>5, <2>2 DEF Unsaved, At
  <2>4. \A j \in Item : Unsaved(j)' => Unsaved(j) BY <2>1, <2>3
  <2>5. spent'.resends \in Nat /\ spent.resends <= spent'.resends BY <1>1, SpentTypes
  <2>. QED BY <1>1, <2>4, <2>5, NothingUploaded
<1>15. SmoothInv'
  <2>. SUFFICES ASSUME Smooth' PROVE SmoothInv'
    BY DEF SmoothInv
  <2>1. Smooth BY <1>1 DEF Smooth
  <2>2. ASSUME NEW j \in written, rows'[j] # None PROVE Bare(j)'
    <3>1. j \in Item /\ j # i BY <1>5, <2>2 DEF TypeInv
    <3>2. rows[j] # None /\ rows'[j] = rows[j] BY <1>5, <2>2, <3>1
    <3>3. Bare(j) BY <1>1, <2>1, <3>1, <3>2, SmoothRows
    <3>. QED BY <3>2, <3>3 DEF Bare
  <2>. QED BY <1>1, <1>8, <2>1, <2>2 DEF SmoothInv, OwnLine, At
<1>. QED BY <1>9, <1>10, <1>11, <1>12, <1>13, <1>14, <1>15

-----------------------------------------------------------------------------
(* Files and posts.                                                        *)

\* A file more is one more of its entry and none more of any other.
LEMMA MoreFiles ==
    ASSUME TypeInv, NEW i \in Item, NEW m \in File, m[1] = i, media' = media \cup {m}
    PROVE  /\ media' \subseteq File /\ IsFiniteSet(media')
           /\ \A j \in Item : Cardinality(Files(j)) \in Nat
           /\ \A j \in Item \ {i} : Cardinality(Files(j)') = Cardinality(Files(j))
           /\ Cardinality(Files(i)') \in Nat
           /\ Cardinality(Files(i)') <= Cardinality(Files(i)) + 1
<1>1. IsFiniteSet(media) /\ media \subseteq File BY DEF TypeInv
<1>2. media' \subseteq File /\ IsFiniteSet(media') BY <1>1, FS_AddElement
<1>3. \A j \in Item : IsFiniteSet(Files(j)) /\ Cardinality(Files(j)) \in Nat
  <2>. TAKE j \in Item
  <2>1. Files(j) \subseteq media BY DEF Files
  <2>. QED BY <1>1, <2>1, FS_Subset, FS_CardinalityType
<1>4. \A j \in Item \ {i} : Files(j)' = Files(j) BY DEF Files
<1>5. Files(i)' = Files(i) \cup {m} BY DEF Files
<1>6. /\ Cardinality(Files(i) \cup {m}) \in Nat
      /\ Cardinality(Files(i) \cup {m}) <= Cardinality(Files(i)) + 1
  <2>1. Cardinality(Files(i) \cup {m})
          = IF m \in Files(i) THEN Cardinality(Files(i)) ELSE Cardinality(Files(i)) + 1
    BY <1>3, FS_AddElement
  <2>. QED BY <1>3, <2>1
<1>. QED BY <1>2, <1>3, <1>4, <1>5, <1>6

LEMMA NewFileIsFile ==
    ASSUME TypeInv, NEW c \in Context, ctx[c] \in Busy, ctx[c].item \in Item
    PROVE  NewFile(c) \in File /\ NewFile(c)[1] = ctx[c].item
<1>1. Cardinality(media) + 1 \in Nat BY FS_CardinalityType DEF TypeInv
<1>2. ctx[c].post \in Nat BY DEF Busy
<1>. QED BY <1>1, <1>2 DEF NewFile, File

LEMMA UploadKeeps ==
    ASSUME TypeInv, Inv, NEW c \in Context, Upload(c) PROVE TypeInv' /\ Inv'
<1>. USE DEF Inv
<1>1. /\ ctx[c].at = "upload" /\ ctx[c].at \in Held /\ ~ At(c, "idle")
      /\ ctx[c].at \in Held \ {"row"} /\ ctx[c].at \in Drafted /\ ctx[c].at \in OnPost
      /\ UNCHANGED <<rows, made, posts, chosen, lock, flushDue, written, spent>>
  BY DEF Upload, At, Held, OnPost, Drafted
<1>2. /\ ctx[c] \in Busy /\ ctx[c].item \in Item
      /\ \A d \in Context \ {c} : ctx[d].at \notin Held
      /\ None \notin Row
  BY <1>1, HolderFacts
<1>3. PICK i \in Item : i = ctx[c].item BY <1>2
<1>4. PICK r \in Row : r = ctx[c].row /\ rows[i] = r /\ r.file /\ r.saved = None
  BY <1>1, <1>3 DEF HoldInv, At
<1>5. PICK m \in File : m = NewFile(c) /\ m[1] = i BY <1>2, <1>3, NewFileIsFile
<1>6. /\ media' = media \cup {m}
      /\ ctx' = [ctx EXCEPT ![c].row.saved = m, ![c].at = "save"]
  BY <1>5 DEF Upload
<1>7. /\ spent' \in Spending
      /\ spent'.resends = spent.resends /\ spent'.faults = spent.faults
      /\ spent'.foreign = spent.foreign
  BY <1>1 DEF TypeInv, Spending
<1>8. /\ Moves(c) /\ SameEntry(c) /\ ctx'[c].at = "save"
      /\ ctx'[c].row = [id |-> r.id, file |-> r.file, saved |-> m]
      /\ ctx'[c].post = ctx[c].post /\ ctx'[c].before = ctx[c].before
  <2>1. ctx[c] \in [at : LogSteps, item : Item \cup {None}, left : SUBSET Item,
                    own : BOOLEAN, row : Row \cup {None}, post : Nat,
                    before : Seq(Lined)]
    BY <1>2 DEF Busy
  <2>2. PICK rr \in Row : rr = [id |-> r.id, file |-> r.file, saved |-> m]
    BY <1>4 DEF Row
  <2>3. [ctx[c].row EXCEPT !.saved = m] = rr BY <1>4, <2>2 DEF Row
  <2>4. ctx'[c] = [ctx[c] EXCEPT !.row = [ctx[c].row EXCEPT !.saved = m], !.at = "save"]
    BY <1>6, <2>1 DEF TypeInv
  <2>5. ctx'[c] = [ctx[c] EXCEPT !.row = rr, !.at = "save"] BY <2>3, <2>4
  <2>6. ctx'[c] = [at |-> "save", item |-> ctx[c].item, left |-> ctx[c].left,
                   own |-> ctx[c].own, row |-> rr, post |-> ctx[c].post,
                   before |-> ctx[c].before]
    BY <2>1, <2>5
  <2>7. ctx'[c] \in Busy
    <3>1. /\ ctx[c].item \in Item \cup {None} /\ ctx[c].left \in SUBSET Item
          /\ ctx[c].own \in BOOLEAN /\ rr \in Row \cup {None}
          /\ ctx[c].post \in Nat /\ ctx[c].before \in Seq(Lined) /\ "save" \in LogSteps
      BY <2>1 DEF LogSteps, Held
    <3>2. [at |-> "save", item |-> ctx[c].item, left |-> ctx[c].left,
           own |-> ctx[c].own, row |-> rr, post |-> ctx[c].post,
           before |-> ctx[c].before] \in Busy
      BY <3>1, BusyRecord, Zenon
    <3>. QED BY <2>6, <3>2, Zenon
  <2>8. /\ DOMAIN ctx' = Context /\ \A d \in Context \ {c} : ctx'[d] = ctx[d]
        /\ ctx' = [d \in Context |-> ctx'[d]]
    BY <1>6 DEF TypeInv
  <2>9. \A d \in Context : ctx'[d] \in {Idle} \cup Busy BY <2>7, <2>8 DEF TypeInv
  <2>10. Moves(c) BY <2>8, <2>9 DEF Moves
  <2>. QED BY <2>2, <2>6, <2>10 DEF SameEntry
<1>9. /\ ctx'[c].at \in Held \ {"row"} /\ ctx'[c].row \in Row
      /\ ctx'[c].row.file /\ ctx'[c].row.saved # None /\ ctx'[c].row.id = r.id
  <2>1. m # None BY ValuesAreApart
  <2>2. "save" \in Held BY DEF Held
  <2>. QED BY <1>4, <1>8, <2>1, <2>2 DEF Row
<1>10. \A d \in Context \ {c} : ctx'[d] = ctx[d] /\
         ctx'[d].at \notin Held \cup OnPost \cup Drafted
                     \cup {"create", "save", "upload", "verify", "remove"}
  BY <1>2, <1>8 DEF Moves, OnPost, Drafted, Held
<1>11. TypeInv' BY <1>1, <1>5, <1>6, <1>7, <1>8, MoreFiles DEF TypeInv, Moves, Spending
<1>12. LockInv' /\ QueueInv' BY <1>1, <1>8, <1>9, HolderMoves
<1>13. RowInv' BY <1>1 DEF RowInv
<1>14. HoldInv'
  <2>1. ASSUME NEW d \in Context, ctx'[d].at \in Held PROVE d = c
    BY <1>10, <2>1
  <2>2. ctx'[c].item = i /\ ctx'[c].at = "save" BY <1>3, <1>8 DEF SameEntry
  <2>3. rows'[i] = r /\ r # None BY <1>1, <1>2, <1>4
  <2>. QED BY <1>4, <1>9, <2>1, <2>2, <2>3 DEF HoldInv, At
<1>15. PostInv'
  <2>1. ASSUME NEW d \in Context, ctx'[d].at \in OnPost \cup Drafted PROVE d = c
    BY <1>10, <2>1
  <2>. QED BY <1>1, <1>8, <2>1 DEF PostInv, SameEntry
<1>16. OneInv'
  <2>1. ASSUME NEW d \in Context, ctx'[d].at \in OnPost \cup {"create"}
        PROVE  d = c /\ ctx'[d].at # "create"
    BY <1>8, <1>10, <2>1
  <2>. QED BY <1>1, <1>8, <2>1 DEF OneInv, OwnLine, At
<1>17. UploadInv'
  <2>1. spent.resends \in Nat BY SpentTypes
  <2>2. Unsaved(i)
    <3>1. \A d \in Context : ctx[d].at # "save" BY <1>1, <1>2 DEF Held
    <3>. QED BY <1>2, <1>4, <3>1 DEF Unsaved, At
  <2>3. ~ Unsaved(i)'
    <3>1. made[i] > 0 /\ made'[i] = made[i] BY <1>1, <1>2, <1>4 DEF RowInv
    <3>2. made'[i] # 0 BY <3>1
    <3>. QED BY <1>3, <1>8, <3>2 DEF Unsaved, At, SameEntry
  <2>4. \A j \in Item \ {i} : Unsaved(j)' => Unsaved(j)
    <3>1. \A d \in Context : ctx[d].at # "save" BY <1>1, <1>2 DEF Held
    <3>. QED BY <1>1, <3>1 DEF Unsaved, At
  <2>5. ASSUME NEW j \in Item
        PROVE  /\ Cardinality(Files(j)') <= 1 + spent'.resends
               /\ Unsaved(j)' => Cardinality(Files(j)') <= spent'.resends
    <3>1. CASE j = i
      <4>1. Cardinality(Files(i)) <= spent.resends BY <2>2 DEF UploadInv
      <4>2. /\ Cardinality(Files(i)) \in Nat /\ Cardinality(Files(i)') \in Nat
            /\ Cardinality(Files(i)') <= Cardinality(Files(i)) + 1
        BY <1>5, <1>6, MoreFiles
      <4>3. Cardinality(Files(i)') <= 1 + spent'.resends BY <1>7, <2>1, <4>1, <4>2
      <4>. QED BY <2>3, <3>1, <4>3
    <3>2. CASE j # i
      <4>1. Cardinality(Files(j)') = Cardinality(Files(j)) BY <1>5, <1>6, <3>2, MoreFiles
      <4>. QED BY <1>7, <2>4, <3>2, <4>1 DEF UploadInv
    <3>. QED BY <3>1, <3>2
  <2>. QED BY <2>5 DEF UploadInv
<1>18. SmoothInv'
  <2>. SUFFICES ASSUME Smooth' PROVE SmoothInv'
    BY DEF SmoothInv
  <2>1. Smooth BY <1>7 DEF Smooth
  <2>2. ASSUME NEW j \in written, rows'[j] # None PROVE Bare(j)'
    BY <1>1, <1>3, <1>4, <2>1, <2>2, SmoothRows DEF Bare
  <2>3. ASSUME NEW d \in Context
        PROVE  /\ At(d, "create")' => Len(posts') = 0
               /\ ctx'[d].at \in Drafted => posts'[ctx'[d].post] = ctx'[d].before
               /\ At(d, "verify")' => posts'[ctx'[d].post] = NextContent(d)'
    <3>1. CASE d = c BY <1>1, <1>8, <2>1, <3>1 DEF SmoothInv, At
    <3>2. CASE d # c BY <1>10, <3>2 DEF At
    <3>. QED BY <3>1, <3>2
  <2>. QED BY <1>1, <2>1, <2>2, <2>3 DEF SmoothInv, OwnLine
<1>. QED BY <1>11, <1>12, <1>13, <1>14, <1>15, <1>16, <1>17, <1>18

\* Posts without a line were added.
Added == /\ posts' \in Seq(Seq(Lined)) /\ Len(posts) <= Len(posts')
         /\ \A p \in DOMAIN posts' :
               posts'[p] = IF p \in DOMAIN posts THEN posts[p] ELSE <<>>

LEMMA PostAdded ==
    ASSUME TypeInv, posts' = Append(posts, <<>>) PROVE Added /\ Len(posts') = Len(posts) + 1
BY DEF TypeInv, Added

LEMMA TwoPostsAdded ==
    ASSUME TypeInv, posts' = posts \o << <<>>, <<>> >>
    PROVE  Added /\ Len(posts') = Len(posts) + 2
<1>1. posts \in Seq(Seq(Lined)) BY DEF TypeInv
<1>2. PICK e \in Seq(Seq(Lined)) : e = << <<>>, <<>> >>
  <2>0. <<>> \in Seq(Lined) OBVIOUS
  <2>1. PICK n \in Seq(Lined) : n = <<>> BY <2>0, Zenon
  <2>2. <<n, n>> \in Seq(Seq(Lined)) OBVIOUS
  <2>. QED BY <2>1, <2>2
<1>3. Len(e) = 2 /\ e[1] = <<>> /\ e[2] = <<>> BY <1>2
<1>4. posts' = posts \o e BY <1>2
<1>5. posts' \in Seq(Seq(Lined)) /\ Len(posts') = Len(posts) + 2 BY <1>1, <1>3, <1>4
<1>6. ASSUME NEW p \in DOMAIN posts'
      PROVE  posts'[p] = IF p \in DOMAIN posts THEN posts[p] ELSE <<>>
  <2>1. /\ Len(posts) \in Nat /\ p \in 1..(Len(posts) + 2)
        /\ DOMAIN posts = 1..Len(posts)
    BY <1>1, <1>5
  <2>2. CASE p \in 1..Len(posts) BY <1>1, <1>3, <1>4, <2>1, <2>2
  <2>3. CASE p = Len(posts) + 1
    <3>1. posts'[p] = e[1] BY <1>1, <1>3, <1>4, <2>1, <2>3
    <3>. QED BY <1>3, <2>1, <2>3, <3>1
  <2>4. CASE p = Len(posts) + 2
    <3>1. posts'[p] = e[2] BY <1>1, <1>3, <1>4, <2>1, <2>4
    <3>. QED BY <1>3, <2>1, <2>4, <3>1
  <2>. QED BY <2>1, <2>2, <2>3, <2>4
<1>. QED BY <1>1, <1>5, <1>6 DEF Added

LEMMA AddedLines ==
    ASSUME TypeInv, Added
    PROVE  /\ \A p, n : OwnLine(p, n)' <=> OwnLine(p, n)
           /\ \A p, n : OwnLine(p, n) => posts'[p][n] = posts[p][n]
           /\ DOMAIN posts \subseteq DOMAIN posts'
           /\ chosen \in 0..Len(posts')
<1>1. /\ DOMAIN posts = 1..Len(posts) /\ DOMAIN posts' = 1..Len(posts')
      /\ Len(posts) \in Nat /\ Len(posts') \in Nat
  BY DEF TypeInv, Added
<1>2. DOMAIN posts \subseteq DOMAIN posts' BY <1>1 DEF Added
<1>. QED BY <1>1, <1>2, SMTT(20) DEF OwnLine, Added, TypeInv

\* What the lines alone say.
LinesInv ==
    /\ \A p, n : OwnLine(p, n) => posts[p][n].item \in written
    /\ \A p, m, n : OwnLine(p, m) /\ OwnLine(p, n)
                    /\ posts[p][m].item = posts[p][n].item => m = n

LEMMA LinesOfPosts ==
    LinesInv <=>
       /\ \A p \in DOMAIN posts : \A n \in DOMAIN posts[p] :
             posts[p][n].item \in Item => posts[p][n].item \in written
       /\ \A p \in DOMAIN posts : \A m, n \in DOMAIN posts[p] :
             posts[p][m].item \in Item /\ posts[p][m].item = posts[p][n].item => m = n
BY DEF LinesInv, OwnLine

\* A post is made and the holder of the lock goes on with it.
LEMMA CreatedKeeps ==
    ASSUME TypeInv, Inv, NEW c \in Context, At(c, "create"), Added,
           NEW p \in DOMAIN posts', NEW q \in Nat, q = p,
           ctx' = [ctx EXCEPT ![c].post = q, ![c].at = "read"],
           UNCHANGED <<rows, made, chosen, media, lock, flushDue, written>>,
           spent' \in Spending, spent'.resends = spent.resends,
           Smooth' => Smooth /\ Len(posts') = 1
    PROVE  TypeInv' /\ Inv'
<1>. USE DEF Inv
<1>1. /\ ctx[c].at = "create" /\ ctx[c].at \in Held \ {"row"} BY DEF At, Held
<1>2. /\ ctx[c] \in Busy /\ ctx[c].item \in Item
      /\ \A d \in Context \ {c} : ctx[d].at \notin Held
  BY <1>1, HolderFacts
<1>3. /\ Moves(c) /\ SameEntry(c) /\ ctx'[c].at = "read" /\ ctx'[c].post = p
      /\ ctx'[c].row = ctx[c].row
  BY <1>2, ReadSteps
<1>4. \A d \in Context \ {c} : ctx'[d] = ctx[d] /\
         ctx'[d].at \notin Held \cup OnPost \cup Drafted
                     \cup {"create", "save", "upload", "verify", "remove"}
  BY <1>2, <1>3 DEF Moves, OnPost, Drafted, Held
<1>5. ctx'[c].at \in Held \ {"row"} /\ ctx'[c].at \notin Drafted
  BY <1>3 DEF Held, Drafted
<1>6. /\ \A o, n : OwnLine(o, n)' <=> OwnLine(o, n)
      /\ \A o, n : OwnLine(o, n) => posts'[o][n] = posts[o][n]
      /\ chosen \in 0..Len(posts')
  BY AddedLines
<1>7. TypeInv' BY <1>3, <1>6 DEF TypeInv, Moves, Added, Spending
<1>8. LockInv' /\ QueueInv' BY <1>1, <1>3, <1>5, HolderMoves
<1>9. RowInv' BY DEF RowInv
<1>10. HoldInv'
  <2>1. ASSUME NEW d \in Context, ctx'[d].at \in Held PROVE d = c
    BY <1>4, <2>1
  <2>2. ctx[c].row \in Row /\ rows[ctx[c].item] = ctx[c].row BY <1>1 DEF HoldInv, At
  <2>. QED BY <1>3, <2>1, <2>2, ZenonT(30) DEF HoldInv, At, SameEntry
<1>11. PostInv'
  <2>1. ASSUME NEW d \in Context, ctx'[d].at \in OnPost \cup Drafted
        PROVE d = c /\ ctx'[d].at \notin Drafted
    BY <1>4, <1>5, <2>1
  <2>2. LinesInv BY LinesOfPosts DEF PostInv
  <2>3. LinesInv' BY <1>6, <2>2 DEF LinesInv
  <2>4. /\ \A o \in DOMAIN posts' : \A n \in DOMAIN posts'[o] :
             posts'[o][n].item \in Item => posts'[o][n].item \in written'
        /\ \A o \in DOMAIN posts' : \A m, n \in DOMAIN posts'[o] :
             posts'[o][m].item \in Item /\ posts'[o][m].item = posts'[o][n].item => m = n
    BY <2>3 DEF LinesInv, OwnLine
  <2>5. \A d \in Context : ctx'[d].at \in OnPost => ctx'[d].post \in DOMAIN posts'
    BY <1>3, <2>1
  <2>6. \A d \in Context : ctx'[d].at \notin Drafted BY <2>1
  <2>. QED BY <2>4, <2>5, <2>6 DEF PostInv
<1>12. OneInv'
  <2>1. chosen = 0 => \A o, n : ~ OwnLine(o, n) BY DEF OneInv
  <2>. QED BY <1>6, <2>1 DEF OneInv
<1>13. UploadInv'
  <2>1. \A d \in Context : ctx[d].at # "save" BY <1>1, <1>2 DEF Held
  <2>2. \A j \in Item : Unsaved(j)' => Unsaved(j) BY <2>1 DEF Unsaved, At
  <2>. QED BY <2>2, NothingUploaded, SpentTypes
<1>14. SmoothInv'
  <2>. SUFFICES ASSUME Smooth' PROVE SmoothInv'
    BY DEF SmoothInv
  <2>1. Smooth /\ Len(posts') = 1 OBVIOUS
  <2>2. chosen = 0 BY <2>1 DEF SmoothInv
  <2>3. written = {}
    <3>1. \A o, n : ~ OwnLine(o, n) BY <2>2 DEF OneInv
    <3>2. \A j \in written : FALSE BY <2>1, <3>1 DEF SmoothInv
    <3>. QED BY <3>2
  <2>4. ASSUME NEW d \in Context
        PROVE  /\ At(d, "create")' => Len(posts') = 0
               /\ ctx'[d].at \in Drafted => posts'[ctx'[d].post] = ctx'[d].before
               /\ At(d, "verify")' => posts'[ctx'[d].post] = NextContent(d)'
    BY <1>3, <1>4, <1>5 DEF At
  <2>5. chosen' = 0 /\ Len(posts') <= 1 /\ written' = {} BY <2>1, <2>2, <2>3
  <2>. QED BY <2>4, <2>5 DEF SmoothInv
<1>. QED BY <1>7, <1>8, <1>9, <1>10, <1>11, <1>12, <1>13, <1>14

LEMMA CreatePostKeeps ==
    ASSUME TypeInv, Inv, NEW c \in Context, CreatePost(c) PROVE TypeInv' /\ Inv'
<1>1. /\ At(c, "create") /\ posts' = Append(posts, <<>>)
      /\ ctx' = [ctx EXCEPT ![c].post = Len(posts) + 1, ![c].at = "read"]
      /\ UNCHANGED <<rows, made, chosen, media, lock, flushDue, written, spent>>
  BY DEF CreatePost
<1>2. Added /\ Len(posts') = Len(posts) + 1 /\ Len(posts) \in Nat
  BY <1>1, PostAdded DEF TypeInv
<1>3. Len(posts) + 1 \in DOMAIN posts' /\ Len(posts) + 1 \in Nat
  BY <1>2 DEF Added
<1>4. spent' \in Spending /\ spent'.resends = spent.resends
  BY <1>1, SpentTypes DEF Spending
<1>5. Smooth' => Smooth /\ Len(posts') = 1
  BY <1>1, <1>2 DEF Smooth, Inv, SmoothInv
<1>. QED BY <1>1, <1>2, <1>3, <1>4, <1>5, CreatedKeeps

LEMMA FaultSteps ==
    ASSUME TypeInv, NEW r \in BOOLEAN, Fault(r)
    PROVE  /\ spent' \in Spending /\ ~ Smooth'
           /\ spent'.resends = IF r THEN spent.resends + 1 ELSE spent.resends
           /\ spent.resends \in Nat
<1>1. spent \in Spending BY DEF TypeInv, Spending
<1>2. spent' = [spent EXCEPT !.faults = @ + 1,
                             !.resends = @ + (IF r THEN 1 ELSE 0)]
  BY DEF Fault
<1>3. /\ spent' \in Spending /\ spent'.faults = spent.faults + 1
      /\ spent'.resends = spent.resends + (IF r THEN 1 ELSE 0)
  <2>1. spent \in [flushes : Nat, faults : Nat, foreign : Nat, resends : Nat]
    BY <1>1 DEF Spending
  <2>2. PICK k \in Nat : k = IF r THEN 1 ELSE 0 OBVIOUS
  <2>3. spent' = [flushes |-> spent.flushes, faults |-> spent.faults + 1,
                  foreign |-> spent.foreign,
                  resends |-> spent.resends + k]
    BY <1>2, <2>1, <2>2
  <2>. QED BY <2>1, <2>2, <2>3 DEF Spending
<1>4. spent.faults \in Nat /\ spent.resends \in Nat BY <1>1 DEF Spending
<1>. QED BY <1>3, <1>4 DEF Smooth

LEMMA CreateIsRepeatedKeeps ==
    ASSUME TypeInv, Inv, NEW c \in Context, CreateIsRepeated(c)
    PROVE  TypeInv' /\ Inv'
<1>1. /\ At(c, "create") /\ posts' = posts \o << <<>>, <<>> >>
      /\ ctx' = [ctx EXCEPT ![c].post = Len(posts) + 2, ![c].at = "read"]
      /\ UNCHANGED <<rows, made, chosen, media, lock, flushDue, written>>
      /\ Fault(FALSE)
  BY DEF CreateIsRepeated
<1>2. Added /\ Len(posts') = Len(posts) + 2 /\ Len(posts) \in Nat
  BY <1>1, TwoPostsAdded DEF TypeInv
<1>3. Len(posts) + 2 \in DOMAIN posts' /\ Len(posts) + 2 \in Nat
  BY <1>2 DEF Added
<1>4. spent' \in Spending /\ spent'.resends = spent.resends /\ ~ Smooth'
  BY <1>1, FaultSteps
<1>. QED BY <1>1, <1>2, <1>3, <1>4, CreatedKeeps

\* Nothing else was put on a post or taken away.
LEMMA LinesKept ==
    ASSUME PostInv, UNCHANGED written,
           \A q, n : OwnLine(q, n)' <=> OwnLine(q, n),
           \A q, n : OwnLine(q, n) => posts'[q][n] = posts[q][n]
    PROVE  /\ \A o \in DOMAIN posts' : \A n \in DOMAIN posts'[o] :
                posts'[o][n].item \in Item => posts'[o][n].item \in written'
           /\ \A o \in DOMAIN posts' : \A m, n \in DOMAIN posts'[o] :
                posts'[o][m].item \in Item /\ posts'[o][m].item = posts'[o][n].item => m = n
<1>1. LinesInv BY LinesOfPosts DEF PostInv
<1>2. LinesInv' BY <1>1 DEF LinesInv
<1>. QED BY <1>2 DEF LinesInv, OwnLine

\* Posts without a line, or lines of others, leave what is known of posts alone.
LEMMA AddedKeeps ==
    ASSUME TypeInv, PostInv, OneInv, Added, UNCHANGED <<chosen, written>>,
           \A d \in Context : ctx'[d].at \in Held \ {"row"} => ctx'[d] = ctx[d]
    PROVE  PostInv' /\ OneInv'
<1>1. OnPost \cup Drafted \cup {"create"} \subseteq Held \ {"row"}
  BY DEF OnPost, Drafted, Held
<1>2. /\ \A o, n : OwnLine(o, n)' <=> OwnLine(o, n)
      /\ \A o, n : OwnLine(o, n) => posts'[o][n] = posts[o][n]
      /\ DOMAIN posts \subseteq DOMAIN posts'
      /\ \A o \in DOMAIN posts : posts'[o] = posts[o]
  BY AddedLines DEF Added
<1>5. /\ \A o \in DOMAIN posts' : \A n \in DOMAIN posts'[o] :
           posts'[o][n].item \in Item => posts'[o][n].item \in written'
      /\ \A o \in DOMAIN posts' : \A m, n \in DOMAIN posts'[o] :
           posts'[o][m].item \in Item /\ posts'[o][m].item = posts'[o][n].item => m = n
  BY <1>2, LinesKept
<1>6. \A d \in Context : ctx'[d].at \in OnPost => ctx'[d].post \in DOMAIN posts'
  BY <1>1, <1>2 DEF PostInv
<1>7. \A d \in Context : ctx'[d].at \in Drafted =>
          LET b == ctx'[d].before
              l == posts'[ctx'[d].post] IN
          /\ Len(b) <= Len(l)
          /\ \A n \in DOMAIN b : b[n] = l[n] /\ b[n].item # ctx'[d].item
          /\ \A n \in DOMAIN l : n > Len(b) => l[n].item = Foreign
  <2>. TAKE d \in Context
  <2>. HAVE ctx'[d].at \in Drafted
  <2>1. ctx'[d] = ctx[d] /\ ctx[d].at \in OnPost /\ ctx[d].at \in Drafted
    BY <1>1 DEF OnPost
  <2>2. posts'[ctx[d].post] = posts[ctx[d].post] BY <1>2, <2>1 DEF PostInv
  <2>. QED BY <2>1, <2>2 DEF PostInv
<1>8. PostInv' BY <1>5, <1>6, <1>7 DEF PostInv
<1>9. OneInv' BY <1>1, <1>2 DEF OneInv, At
<1>. QED BY <1>8, <1>9

Shown(p, i) == \E n : OwnLine(p, n) /\ posts[p][n].item = i

\* What is written back: every line of the add-on and the entry at hand.
LEMMA Rewritten ==
    ASSUME TypeInv, Inv, NEW c \in Context, At(c, "write"),
           NEW p, p = ctx[c].post, NEW i, i = ctx[c].item,
           posts' = [posts EXCEPT ![ctx[c].post] = NextContent(c)],
           written' = written \cup {ctx[c].item}
    PROVE  /\ posts' \in Seq(Seq(Lined)) /\ Len(posts') = Len(posts)
           /\ posts'[p] = NextContent(c)
           /\ p \in DOMAIN posts /\ i \in Item
           /\ \A q, n : OwnLine(q, n) => OwnLine(q, n)' /\ posts'[q][n] = posts[q][n]
           /\ Shown(p, i)'
           /\ LinesInv'
           /\ chosen = 0 => \A q, n : OwnLine(q, n)' => q = p
<1>. USE DEF Inv
<1>1. /\ ctx[c].at \in Held \ {"row"} /\ ctx[c].at \in Drafted /\ ctx[c].at \in OnPost
  BY DEF At, Held, Drafted, OnPost
<1>2. ctx[c] \in Busy /\ ctx[c].item \in Item BY <1>1, HolderFacts
<1>3. i \in Item BY <1>2
<1>4. p \in DOMAIN posts BY <1>1 DEF PostInv
<1>5. PICK b \in Seq(Lined) : b = ctx[c].before BY <1>2 DEF Busy
<1>6. PICK l \in Seq(Lined) : l = posts[p] BY <1>4 DEF TypeInv
<1>7. /\ Len(b) <= Len(l)
      /\ \A n \in DOMAIN b : b[n] = l[n] /\ b[n].item # i
      /\ \A n \in DOMAIN l : n > Len(b) => l[n].item = Foreign
  BY <1>1, <1>3, <1>4, <1>5, <1>6 DEF PostInv
<1>8. PICK e \in Lined : e = Line(i, ctx[c].row.saved) /\ e.item = i
  <2>1. ctx[c].row \in Row BY <1>1 DEF HoldInv
  <2>2. ctx[c].row.saved \in File \cup {None} BY <2>1 DEF Row
  <2>3. Line(i, ctx[c].row.saved) = [item |-> i, file |-> ctx[c].row.saved]
    BY DEF Line
  <2>4. Line(i, ctx[c].row.saved).item = i /\ Line(i, ctx[c].row.saved) \in Lined
    BY <1>3, <2>2, <2>3 DEF Lined
  <2>. QED BY <2>4
<1>9. NextContent(c) = Append(b, e) BY <1>3, <1>5, <1>8 DEF NextContent
<1>10. posts' = [posts EXCEPT ![p] = Append(b, e)] BY <1>4, <1>9
<1>11. /\ Append(b, e) \in Seq(Lined)
       /\ posts' \in Seq(Seq(Lined)) /\ Len(posts') = Len(posts)
       /\ DOMAIN posts' = DOMAIN posts
       /\ posts'[p] = Append(b, e)
       /\ \A q \in DOMAIN posts : q # p => posts'[q] = posts[q]
  <2>1. Append(b, e) \in Seq(Lined) OBVIOUS
  <2>2. posts \in Seq(Seq(Lined)) BY DEF TypeInv
  <2>3. \A a \in Seq(Lined) : posts' = [posts EXCEPT ![p] = a] =>
           /\ posts' \in Seq(Seq(Lined)) /\ Len(posts') = Len(posts)
           /\ DOMAIN posts' = DOMAIN posts
           /\ posts'[p] = a
           /\ \A q \in DOMAIN posts : q # p => posts'[q] = posts[q]
    BY <1>4, <2>2
  <2>. QED BY <1>10, <2>1, <2>3
<1>12. /\ Len(b) \in Nat /\ DOMAIN b = 1..Len(b) /\ DOMAIN Append(b, e) = 1..(Len(b) + 1)
       /\ \A n \in 1..Len(b) : Append(b, e)[n] = b[n]
       /\ Append(b, e)[Len(b) + 1] = e
       /\ Len(l) \in Nat /\ DOMAIN l = 1..Len(l)
  OBVIOUS
<1>13. \A q, n : OwnLine(q, n) => OwnLine(q, n)' /\ posts'[q][n] = posts[q][n]
  <2>. SUFFICES ASSUME NEW q, NEW n, OwnLine(q, n)
                PROVE  OwnLine(q, n)' /\ posts'[q][n] = posts[q][n]
    OBVIOUS
  <2>1. CASE q # p BY <1>11, <2>1 DEF OwnLine
  <2>2. CASE q = p
    <3>1. n \in DOMAIN l /\ l[n].item \in Item BY <1>6, <2>2 DEF OwnLine
    <3>2. n \in 1..Len(b) BY <1>7, <1>12, <3>1, ValuesAreApart
    <3>3. Append(b, e)[n] = l[n] /\ n \in DOMAIN Append(b, e) BY <1>7, <1>12, <3>2
    <3>. QED BY <1>6, <1>11, <2>2, <3>1, <3>3 DEF OwnLine
  <2>. QED BY <2>1, <2>2
<1>14. OwnLine(p, Len(b) + 1)' /\ posts'[p][Len(b) + 1].item = i
  <2>1. PICK k \in Nat : k = Len(b) + 1 BY <1>12
  <2>2. k \in DOMAIN posts'[p] /\ posts'[p][k] = e BY <1>11, <1>12, <2>1
  <2>3. p \in DOMAIN posts' BY <1>4, <1>11
  <2>4. OwnLine(p, k)' /\ posts'[p][k].item = i BY <1>3, <1>8, <2>2, <2>3 DEF OwnLine
  <2>. QED BY <2>1, <2>4
<1>15. \A q, n : OwnLine(q, n)' =>
          \/ OwnLine(q, n) /\ posts'[q][n] = posts[q][n] /\ (q = p => posts[q][n].item # i)
          \/ q = p /\ n = Len(b) + 1
  <2>. SUFFICES ASSUME NEW q, NEW n, OwnLine(q, n)'
                PROVE  \/ /\ OwnLine(q, n) /\ posts'[q][n] = posts[q][n]
                          /\ (q = p => posts[q][n].item # i)
                       \/ q = p /\ n = Len(b) + 1
    OBVIOUS
  <2>1. CASE q # p BY <1>11, <2>1 DEF OwnLine
  <2>2. CASE q = p
    <3>1. n \in DOMAIN Append(b, e) /\ Append(b, e)[n].item \in Item
      BY <1>11, <2>2 DEF OwnLine
    <3>2. CASE n = Len(b) + 1 BY <2>2, <3>2
    <3>3. CASE n \in 1..Len(b)
      <4>1. n \in DOMAIN l /\ Append(b, e)[n] = l[n] /\ l[n].item # i
        BY <1>7, <1>12, <3>3
      <4>. QED BY <1>6, <1>11, <2>2, <3>1, <4>1 DEF OwnLine
    <3>. QED BY <1>12, <3>1, <3>2, <3>3
  <2>. QED BY <2>1, <2>2
<1>16. LinesInv BY LinesOfPosts DEF PostInv
<1>17. LinesInv'
  <2>1. \A q, n : OwnLine(q, n)' => posts'[q][n].item \in written'
    BY <1>3, <1>14, <1>15, <1>16 DEF LinesInv
  <2>2. ASSUME NEW q, NEW m, NEW n, OwnLine(q, m)', OwnLine(q, n)',
               posts'[q][m].item = posts'[q][n].item
        PROVE  m = n
    BY <1>14, <1>15, <1>16, <2>2 DEF LinesInv
  <2>. QED BY <2>1, <2>2 DEF LinesInv
<1>18. chosen = 0 => \A q, n : OwnLine(q, n)' => q = p
  BY <1>1, <1>4, <1>15 DEF OneInv
<1>19. Shown(p, i)' BY <1>14 DEF Shown
<1>. QED BY <1>3, <1>4, <1>9, <1>11, <1>13, <1>17, <1>18, <1>19

LEMMA WritePostKeeps ==
    ASSUME TypeInv, Inv, NEW c \in Context, WritePost(c) PROVE TypeInv' /\ Inv'
<1>. USE DEF Inv
<1>1. /\ At(c, "write") /\ ctx[c].at = "write" /\ ctx[c].at \in Held \ {"row"}
      /\ ctx[c].at \in Drafted /\ ctx[c].at \in OnPost /\ ~ At(c, "idle")
      /\ posts' = [posts EXCEPT ![ctx[c].post] = NextContent(c)]
      /\ written' = written \cup {ctx[c].item}
      /\ Goto(c, "verify")
      /\ UNCHANGED <<rows, made, chosen, media, lock, flushDue, spent>>
  BY DEF WritePost, At, Held, Drafted, OnPost
<1>2. /\ ctx[c] \in Busy /\ ctx[c].item \in Item
      /\ \A d \in Context \ {c} : ctx[d].at \notin Held
  BY <1>1, HolderFacts
<1>3. PICK i \in Item : i = ctx[c].item BY <1>2
<1>4. PICK p : p = ctx[c].post OBVIOUS
<1>5. /\ posts' \in Seq(Seq(Lined)) /\ Len(posts') = Len(posts)
      /\ posts'[p] = NextContent(c)
      /\ p \in DOMAIN posts /\ i \in Item
      /\ \A q, n : OwnLine(q, n) => OwnLine(q, n)' /\ posts'[q][n] = posts[q][n]
      /\ \E n : OwnLine(p, n)' /\ posts'[p][n].item = i
      /\ LinesInv'
      /\ chosen = 0 => \A q, n : OwnLine(q, n)' => q = p
  <2>1. /\ At(c, "write") /\ p = ctx[c].post /\ i = ctx[c].item
        /\ posts' = [posts EXCEPT ![ctx[c].post] = NextContent(c)]
        /\ written' = written \cup {ctx[c].item}
    BY <1>1, <1>3, <1>4
  <2>. HIDE DEF Inv
  <2>2. /\ posts' \in Seq(Seq(Lined)) /\ Len(posts') = Len(posts)
        /\ posts'[p] = NextContent(c) /\ p \in DOMAIN posts
        /\ LinesInv'
        /\ chosen = 0 => \A q, n : OwnLine(q, n)' => q = p
    BY <2>1, Rewritten
  <2>3. \A q, n : OwnLine(q, n) => OwnLine(q, n)' /\ posts'[q][n] = posts[q][n]
    BY <2>1, Rewritten
  <2>4. Shown(p, i)' BY <2>1, Rewritten
  <2>. QED BY <1>3, <2>2, <2>3, <2>4 DEF Shown
<1>6. /\ Moves(c) /\ SameEntry(c) /\ ctx'[c].at = "verify"
      /\ ctx'[c].row = ctx[c].row /\ ctx'[c].post = p
      /\ ctx'[c].before = ctx[c].before
  <2>1. "verify" \in LogSteps BY DEF LogSteps, Held
  <2>. QED BY <1>1, <1>4, <2>1, GotoSteps DEF Moves, SameEntry
<1>7. ctx'[c].at \in Held \ {"row"} /\ ctx'[c].at \notin Drafted
  BY <1>6 DEF Held, Drafted
<1>8. \A d \in Context \ {c} : ctx'[d] = ctx[d] /\
         ctx'[d].at \notin Held \cup OnPost \cup Drafted
                     \cup {"create", "save", "upload", "verify", "remove"}
  BY <1>2, <1>6 DEF Moves, OnPost, Drafted, Held
<1>9. DOMAIN posts' = DOMAIN posts /\ DOMAIN posts = 1..Len(posts) /\ Len(posts) \in Nat
  BY <1>5 DEF TypeInv
<1>10. TypeInv'
  <2>1. chosen' \in 0..Len(posts') BY <1>1, <1>5 DEF TypeInv
  <2>2. written' \subseteq Item BY <1>1, <1>2 DEF TypeInv
  <2>3. ctx' \in [Context -> {Idle} \cup Busy] BY <1>6 DEF Moves
  <2>. QED BY <1>1, <1>5, <2>1, <2>2, <2>3 DEF TypeInv
<1>11. LockInv' /\ QueueInv' BY <1>1, <1>6, <1>7, HolderMoves
<1>12. rows[i] = ctx[c].row /\ ctx[c].row \in Row /\ rows[i] # None /\ made[i] > 0
  <2>1. rows[i] = ctx[c].row /\ ctx[c].row \in Row BY <1>1, <1>3 DEF HoldInv, At
  <2>. QED BY <2>1, ValuesAreApart DEF RowInv
<1>13. RowInv' BY <1>1, <1>3, <1>12 DEF RowInv
<1>14. HoldInv'
  <2>1. ASSUME NEW d \in Context, ctx'[d].at \in Held PROVE d = c
    BY <1>8, <2>1
  <2>2. ctx'[c].item = i /\ i \in written' BY <1>1, <1>3, <1>6 DEF SameEntry
  <2>. QED BY <1>1, <1>6, <1>12, <2>1, <2>2 DEF HoldInv, At
<1>15. PostInv'
  <2>1. ASSUME NEW d \in Context, ctx'[d].at \in OnPost \cup Drafted
        PROVE d = c /\ ctx'[d].at \notin Drafted
    BY <1>7, <1>8, <2>1
  <2>2. /\ \A o \in DOMAIN posts' : \A n \in DOMAIN posts'[o] :
             posts'[o][n].item \in Item => posts'[o][n].item \in written'
        /\ \A o \in DOMAIN posts' : \A m, n \in DOMAIN posts'[o] :
             posts'[o][m].item \in Item /\ posts'[o][m].item = posts'[o][n].item => m = n
    BY <1>5 DEF LinesInv, OwnLine
  <2>3. \A d \in Context : ctx'[d].at \in OnPost => ctx'[d].post \in DOMAIN posts'
    BY <1>5, <1>6, <1>9, <2>1
  <2>4. \A d \in Context : ctx'[d].at \notin Drafted BY <2>1
  <2>. QED BY <2>2, <2>3, <2>4 DEF PostInv
<1>16. OneInv'
  <2>1. ASSUME NEW d \in Context, ctx'[d].at \in OnPost \cup {"create"}
        PROVE  d = c /\ ctx'[d].at # "create"
    BY <1>6, <1>8, <2>1
  <2>. QED BY <1>1, <1>5, <1>6, <2>1 DEF OneInv, At
<1>17. UploadInv'
  <2>1. \A d \in Context : ctx[d].at # "save" BY <1>1, <1>2 DEF Held
  <2>2. \A j \in Item : Unsaved(j)' => Unsaved(j) BY <1>1, <2>1 DEF Unsaved, At
  <2>. QED BY <1>1, <2>2, NothingUploaded, SpentTypes
<1>18. SmoothInv'
  <2>. SUFFICES ASSUME Smooth' PROVE SmoothInv'
    BY DEF SmoothInv
  <2>1. Smooth BY <1>1 DEF Smooth
  <2>2. chosen' = 0 /\ Len(posts') <= 1 BY <1>1, <1>5, <2>1 DEF SmoothInv
  <2>3. p = 1 BY <1>5, <1>9, <2>2
  <2>4. \A j \in written' : \E n : OwnLine(1, n)' /\ posts'[1][n].item = j
    <3>. TAKE j \in written'
    <3>1. CASE j = i BY <1>5, <2>3, <3>1
    <3>2. CASE j # i
      <4>1. j \in written BY <1>1, <1>3, <3>2
      <4>2. PICK n : OwnLine(1, n) /\ posts[1][n].item = j
        BY <2>1, <4>1 DEF SmoothInv
      <4>. QED BY <1>5, <4>2
    <3>. QED BY <3>1, <3>2
  <2>5. ASSUME NEW j \in written', rows'[j] # None
        PROVE  \/ Bare(j)'
               \/ \E d \in Context : /\ ctx'[d].at # "idle" /\ ctx'[d].item = j
                                     /\ \/ ctx'[d].at \in {"verify", "remove"}
                                        \/ ctx'[d].at \in {"list", "read"} /\ ~ rows'[j].file
    <3>1. CASE j = i BY <1>3, <1>6, <3>1 DEF SameEntry
    <3>2. CASE j # i
      <4>1. j \in written BY <1>1, <1>3, <3>2
      <4>2. Bare(j) BY <1>1, <1>3, <2>1, <2>5, <3>2, <4>1, SmoothRows
      <4>. QED BY <1>1, <4>2 DEF Bare
    <3>. QED BY <3>1, <3>2
  <2>6. posts'[p] = NextContent(c)'
    BY <1>3, <1>5, <1>6 DEF NextContent, SameEntry
  <2>7. ASSUME NEW d \in Context
        PROVE  /\ At(d, "create")' => Len(posts') = 0
               /\ ctx'[d].at \in Drafted => posts'[ctx'[d].post] = ctx'[d].before
               /\ At(d, "verify")' => posts'[ctx'[d].post] = NextContent(d)'
    <3>1. CASE d = c BY <1>6, <1>7, <2>6, <3>1 DEF At
    <3>2. CASE d # c BY <1>8, <3>2 DEF At
    <3>. QED BY <3>1, <3>2
  <2>. QED BY <2>2, <2>4, <2>5, <2>7 DEF SmoothInv
<1>. QED BY <1>10, <1>11, <1>13, <1>14, <1>15, <1>16, <1>17, <1>18

-----------------------------------------------------------------------------
(* Failures and others.                                                    *)

LEMMA CallFailsKeeps ==
    ASSUME TypeInv, Inv, NEW c \in Context, CallFails(c) PROVE TypeInv' /\ Inv'
<1>1. /\ Fault(Uploading(c)) /\ ctx[c].at \in Held /\ Fail(c)
      /\ UNCHANGED <<made, web, flushDue, written>>
  BY DEF CallFails, Held
<1>2. Uploading(c) \in BOOLEAN BY DEF Uploading, At
<1>3. /\ spent' \in Spending /\ ~ Smooth'
      /\ spent'.resends = IF Uploading(c) THEN spent.resends + 1 ELSE spent.resends
      /\ spent.resends \in Nat
  BY <1>1, <1>2, FaultSteps
<1>4. /\ spent.resends <= spent'.resends
      /\ At(c, "save") => spent.resends < spent'.resends
  BY <1>3 DEF Uploading
<1>5. flushDue' \in BOOLEAN BY <1>1 DEF TypeInv
<1>. QED BY <1>1, <1>3, <1>4, <1>5, FailKeeps DEF Spending

LEMMA RestartKeeps ==
    ASSUME TypeInv, Inv, Restart PROVE TypeInv' /\ Inv'
<1>. USE DEF Inv
<1>. DEFINE u == \E c \in Context : Uploading(c)
<1>1. /\ Fault(u) /\ ctx' = [c \in Context |-> Idle] /\ lock' = None /\ flushDue' = TRUE
      /\ UNCHANGED <<rows, made, posts, chosen, media, written>>
  BY DEF Restart, web
<1>2. /\ spent' \in Spending /\ ~ Smooth'
      /\ spent'.resends = IF u THEN spent.resends + 1 ELSE spent.resends
      /\ spent.resends \in Nat
  <2>1. u \in BOOLEAN OBVIOUS
  <2>. HIDE DEF u
  <2>. QED BY <1>1, <2>1, FaultSteps
<1>3. \A c \in Context : /\ ctx'[c] = Idle /\ ctx'[c].at = "idle"
                         /\ ctx'[c].at \notin Held \cup OnPost \cup Drafted
  BY <1>1 DEF Idle, Held, OnPost, Drafted
<1>4. TypeInv' BY <1>1, <1>2 DEF TypeInv, Spending
<1>5. LockInv' BY <1>1, <1>3, LogAssumption DEF LockInv
<1>6. QueueInv' BY <1>3 DEF QueueInv, At
<1>7. RowInv' BY <1>1 DEF RowInv
<1>8. HoldInv' /\ PostInv' /\ OneInv'
  BY <1>1, <1>3, NobodyGoesOn
<1>9. UploadInv'
  <2>1. (\E c \in Context : ctx[c].at = "save") => u BY DEF Uploading, At
  <2>2. spent'.resends \in Nat /\ spent.resends <= spent'.resends
        /\ (u => spent.resends < spent'.resends)
    BY <1>2
  <2>3. \A j \in Item : Unsaved(j)' => Unsaved(j) \/ spent.resends < spent'.resends
    BY <1>1, <2>1, <2>2 DEF Unsaved, At
  <2>. QED BY <1>1, <2>2, <2>3, NothingUploaded
<1>10. SmoothInv' BY <1>2 DEF SmoothInv
<1>. QED BY <1>4, <1>5, <1>6, <1>7, <1>8, <1>9, <1>10

LEMMA SelectPostKeeps ==
    ASSUME TypeInv, Inv, SelectPost PROVE TypeInv' /\ Inv'
<1>. USE DEF Inv
<1>1. /\ Len(posts) > 1 /\ chosen' \in DOMAIN posts
      /\ UNCHANGED <<rows, made, posts, media, lock, ctx, flushDue, written, spent>>
  BY DEF SelectPost
<1>2. chosen' # 0 /\ chosen' \in 0..Len(posts) /\ Len(posts) \in Nat
  BY <1>1 DEF TypeInv
<1>3. TypeInv' BY <1>1, <1>2 DEF TypeInv
<1>4. LockInv' /\ QueueInv' /\ RowInv' BY <1>1 DEF LockInv, QueueInv, RowInv, At
<1>5. HoldInv' BY <1>1 DEF HoldInv, At
<1>6. PostInv' BY <1>1 DEF PostInv
<1>7. OneInv' BY <1>2 DEF OneInv
<1>8. UploadInv'
  <2>1. \A j \in Item : Unsaved(j)' => Unsaved(j) BY <1>1 DEF Unsaved, At
  <2>. QED BY <1>1, <2>1, NothingUploaded, SpentTypes
<1>9. ~ Smooth' BY <1>1, <1>2 DEF Smooth, SmoothInv
<1>10. SmoothInv' BY <1>9 DEF SmoothInv
<1>. QED BY <1>3, <1>4, <1>5, <1>6, <1>7, <1>8, <1>10

\* A file that is there and unknown to its row counts as a repetition.
LEMMA CountedUpload ==
    ASSUME TypeInv, Inv, NEW c \in Context, At(c, "upload"),
           media' = media \cup {NewFile(c)}, spent'.resends = spent.resends + 1,
           \A j \in Item : Unsaved(j)' => Unsaved(j)
    PROVE  media' \subseteq File /\ IsFiniteSet(media') /\ UploadInv'
<1>. USE DEF Inv
<1>1. ctx[c].at \in Held \ {"row"} /\ ctx[c].at \in Held BY DEF At, Held
<1>2. /\ ctx[c] \in Busy /\ ctx[c].item \in Item
      /\ \A d \in Context \ {c} : ctx[d].at \notin Held
  BY <1>1, HolderFacts
<1>3. PICK i \in Item : i = ctx[c].item BY <1>2
<1>4. PICK m \in File : m = NewFile(c) /\ m[1] = i BY <1>2, <1>3, NewFileIsFile
<1>5. media' = media \cup {m} BY <1>4
<1>6. spent.resends \in Nat BY SpentTypes
<1>7. Unsaved(i)
  <2>1. \A d \in Context : ctx[d].at # "save" BY <1>2 DEF At, Held
  <2>2. ctx[c].row.file /\ ctx[c].row.saved = None /\ rows[i] = ctx[c].row
        /\ ctx[c].row \in Row
    BY <1>1, <1>3 DEF HoldInv, At
  <2>. QED BY <2>1, <2>2, ValuesAreApart DEF Unsaved, At
<1>8. ASSUME NEW j \in Item
      PROVE  /\ Cardinality(Files(j)') <= 1 + spent'.resends
             /\ Unsaved(j)' => Cardinality(Files(j)') <= spent'.resends
  <2>1. CASE j = i
    <3>1. Cardinality(Files(i)) <= spent.resends BY <1>7 DEF UploadInv
    <3>2. /\ Cardinality(Files(i)) \in Nat /\ Cardinality(Files(i)') \in Nat
          /\ Cardinality(Files(i)') <= Cardinality(Files(i)) + 1
      BY <1>4, <1>5, MoreFiles
    <3>3. Cardinality(Files(i)') <= spent'.resends BY <1>6, <3>1, <3>2
    <3>. QED BY <1>6, <2>1, <3>2, <3>3
  <2>2. CASE j # i
    <3>1. /\ Cardinality(Files(j)') = Cardinality(Files(j))
          /\ Cardinality(Files(j)) \in Nat
      BY <1>4, <1>5, <2>2, MoreFiles
    <3>. QED BY <1>6, <3>1 DEF UploadInv
  <2>. QED BY <2>1, <2>2
<1>. QED BY <1>4, <1>5, <1>8, MoreFiles DEF UploadInv

LEMMA UploadIsRepeatedKeeps ==
    ASSUME TypeInv, Inv, NEW c \in Context, UploadIsRepeated(c)
    PROVE  TypeInv' /\ Inv'
<1>. USE DEF Inv
<1>1. /\ Fault(TRUE) /\ At(c, "upload") /\ media' = media \cup {NewFile(c)}
      /\ UNCHANGED <<rows, made, posts, chosen, lock, ctx, flushDue, written>>
  BY DEF UploadIsRepeated
<1>2. /\ spent' \in Spending /\ ~ Smooth'
      /\ spent'.resends = spent.resends + 1
  BY <1>1, FaultSteps
<1>3. \A j \in Item : Unsaved(j)' => Unsaved(j) BY <1>1 DEF Unsaved, At
<1>4. media' \subseteq File /\ IsFiniteSet(media') /\ UploadInv'
  BY <1>1, <1>2, <1>3, CountedUpload
<1>5. TypeInv' BY <1>1, <1>2, <1>4 DEF TypeInv, Spending
<1>6. LockInv' /\ QueueInv' BY <1>1 DEF LockInv, QueueInv, At
<1>7. RowInv' /\ HoldInv' BY <1>1 DEF RowInv, HoldInv, At
<1>8. PostInv' BY <1>1 DEF PostInv
<1>9. OneInv' BY <1>1 DEF OneInv, OwnLine, At
<1>10. SmoothInv' BY <1>2 DEF SmoothInv
<1>. QED BY <1>4, <1>5, <1>6, <1>7, <1>8, <1>9, <1>10

LEMMA AnswerIsLostKeeps ==
    ASSUME TypeInv, Inv, NEW c \in Context, AnswerIsLost(c) PROVE TypeInv' /\ Inv'
<1>. USE DEF Inv
<1>1. /\ Fault(Uploading(c)) /\ Fail(c) /\ Release(c)
      /\ UNCHANGED <<rows, made, chosen, flushDue>>
  BY DEF AnswerIsLost, Fail
<1>2. /\ ctx[c].at \in {"create", "upload", "write"} /\ ctx[c].at \in Held
      /\ ctx[c].at \in Held \ {"row"} /\ ~ At(c, "idle")
  BY DEF AnswerIsLost, At, Held
<1>3. /\ spent' \in Spending /\ ~ Smooth'
      /\ spent'.resends = IF Uploading(c) THEN spent.resends + 1 ELSE spent.resends
      /\ spent.resends \in Nat
  <2>1. Uploading(c) \in BOOLEAN BY DEF Uploading, At
  <2>. QED BY <1>1, <2>1, FaultSteps
<1>4. spent'.resends \in Nat /\ spent.resends <= spent'.resends
  BY <1>3
<1>5. /\ ctx[c].item \in Item
      /\ \A d \in Context \ {c} : ctx[d].at \notin Held
  BY <1>2, HolderFacts
<1>6. /\ ctx' \in [Context -> {Idle} \cup Busy] /\ lock' = None
      /\ ctx'[c].at \in {"idle", "next"}
      /\ \A d \in Context \ {c} : ctx'[d] = ctx[d]
  BY <1>1, <1>2, ReleaseSteps
<1>7. \A d \in Context : ctx'[d].at \notin Held BY <1>5, <1>6 DEF Held
<1>8. \A d \in Context : ctx'[d].at \notin OnPost \cup Drafted \cup {"create", "save", "verify"}
  BY <1>7 DEF Held, OnPost, Drafted
<1>9. LockInv' /\ QueueInv' BY <1>1, <1>2, HolderLeaves
<1>10. HoldInv' BY <1>7 DEF HoldInv
<1>11. SmoothInv' BY <1>3 DEF SmoothInv
<1>12. \A j \in Item : Unsaved(j)' => Unsaved(j)
  <2>1. \A d \in Context : ctx[d].at # "save" BY <1>2, <1>5 DEF Held
  <2>. QED BY <1>1, <2>1 DEF Unsaved, At
<1>13. CASE /\ At(c, "create") /\ posts' = Append(posts, <<>>)
            /\ UNCHANGED <<media, written>>
  <2>1. Added BY <1>13, PostAdded
  <2>2. \A d \in Context : ctx'[d].at \in Held \ {"row"} => ctx'[d] = ctx[d]
    BY <1>7
  <2>3. PostInv' /\ OneInv' BY <1>1, <1>13, <2>1, <2>2, AddedKeeps
  <2>4. TypeInv' BY <1>1, <1>3, <1>6, <1>13, <2>1, AddedLines DEF TypeInv, Added, Spending
  <2>5. UploadInv' BY <1>4, <1>12, <1>13, NothingUploaded
  <2>6. RowInv' BY <1>1, <1>13 DEF RowInv
  <2>. QED BY <1>9, <1>10, <1>11, <2>3, <2>4, <2>5, <2>6
<1>14. CASE /\ At(c, "upload") /\ media' = media \cup {NewFile(c)}
            /\ UNCHANGED <<posts, written>>
  <2>1. spent'.resends = spent.resends + 1 BY <1>3, <1>14 DEF Uploading
  <2>2. media' \subseteq File /\ IsFiniteSet(media') /\ UploadInv'
    BY <1>12, <1>14, <2>1, CountedUpload
  <2>3. TypeInv' BY <1>1, <1>3, <1>6, <1>14, <2>2 DEF TypeInv, Spending
  <2>4. RowInv' BY <1>1, <1>14 DEF RowInv
  <2>5. PostInv' /\ OneInv' BY <1>1, <1>7, <1>14, NobodyGoesOn
  <2>. QED BY <1>9, <1>10, <1>11, <2>2, <2>3, <2>4, <2>5
<1>15. CASE /\ At(c, "write")
            /\ posts' = [posts EXCEPT ![ctx[c].post] = NextContent(c)]
            /\ written' = written \cup {ctx[c].item}
            /\ UNCHANGED media
  <2>1. PICK i \in Item : i = ctx[c].item BY <1>5
  <2>2. PICK p : p = ctx[c].post OBVIOUS
  <2>3. /\ posts' \in Seq(Seq(Lined)) /\ Len(posts') = Len(posts)
        /\ LinesInv'
        /\ chosen = 0 => \A q, n : OwnLine(q, n)' => q = p
    BY <1>15, <2>1, <2>2, Rewritten
  <2>4. TypeInv'
    <3>1. chosen' \in 0..Len(posts') BY <1>1, <2>3 DEF TypeInv
    <3>2. written' \subseteq Item BY <1>5, <1>15 DEF TypeInv
    <3>. QED BY <1>1, <1>3, <1>6, <1>15, <2>3, <3>1, <3>2 DEF TypeInv, Spending
  <2>5. RowInv'
    <3>1. rows[i] = ctx[c].row /\ ctx[c].row \in Row BY <1>2, <1>15, <2>1 DEF HoldInv, At
    <3>2. made[i] > 0 BY <3>1, ValuesAreApart DEF RowInv
    <3>. QED BY <1>1, <1>15, <2>1, <3>2 DEF RowInv
  <2>6. PostInv'
    <3>1. /\ \A o \in DOMAIN posts' : \A n \in DOMAIN posts'[o] :
               posts'[o][n].item \in Item => posts'[o][n].item \in written'
          /\ \A o \in DOMAIN posts' : \A m, n \in DOMAIN posts'[o] :
               posts'[o][m].item \in Item /\ posts'[o][m].item = posts'[o][n].item => m = n
      BY <2>3 DEF LinesInv, OwnLine
    <3>2. \A d \in Context : ctx'[d].at \notin OnPost /\ ctx'[d].at \notin Drafted
      BY <1>8
    <3>. QED BY <3>1, <3>2 DEF PostInv
  <2>7. OneInv'
    <3>1. \A d \in Context : ctx'[d].at \notin OnPost /\ ctx'[d].at # "create"
      BY <1>8
    <3>. QED BY <1>1, <2>3, <3>1 DEF OneInv, At
  <2>8. UploadInv' BY <1>4, <1>12, <1>15, NothingUploaded
  <2>. QED BY <1>9, <1>10, <1>11, <2>4, <2>5, <2>6, <2>7, <2>8
<1>. QED BY <1>13, <1>14, <1>15 DEF AnswerIsLost

\* A line of another program or of the author.
LEMMA ForeignLine ==
    ASSUME TypeInv, PostInv, OneInv, NEW p \in DOMAIN posts,
           posts' = [posts EXCEPT ![p] = Append(@, Line(Foreign, None))],
           UNCHANGED <<chosen, written, ctx>>
    PROVE  /\ posts' \in Seq(Seq(Lined)) /\ Len(posts') = Len(posts)
           /\ \A q, n : OwnLine(q, n) => OwnLine(q, n)' /\ posts'[q][n] = posts[q][n]
           /\ PostInv' /\ OneInv'
<1>1. PICK l \in Seq(Lined) : l = posts[p] BY DEF TypeInv
<1>2. PICK e \in Lined : e = Line(Foreign, None) /\ e.item = Foreign
  <2>1. Line(Foreign, None) = [item |-> Foreign, file |-> None] BY DEF Line
  <2>2. Line(Foreign, None).item = Foreign /\ Line(Foreign, None) \in Lined
    BY <2>1 DEF Lined
  <2>. QED BY <2>2
<1>3. posts' = [posts EXCEPT ![p] = Append(l, e)] BY <1>1, <1>2
<1>4. /\ posts' \in Seq(Seq(Lined)) /\ Len(posts') = Len(posts)
      /\ DOMAIN posts' = DOMAIN posts
      /\ posts'[p] = Append(l, e)
      /\ \A q \in DOMAIN posts : q # p => posts'[q] = posts[q]
  <2>1. Append(l, e) \in Seq(Lined) OBVIOUS
  <2>2. \A a \in Seq(Lined) : posts' = [posts EXCEPT ![p] = a] =>
           /\ posts' \in Seq(Seq(Lined)) /\ Len(posts') = Len(posts)
           /\ DOMAIN posts' = DOMAIN posts
           /\ posts'[p] = a
           /\ \A q \in DOMAIN posts : q # p => posts'[q] = posts[q]
    BY DEF TypeInv
  <2>. QED BY <1>3, <2>1, <2>2
<1>5. /\ Len(l) \in Nat /\ DOMAIN l = 1..Len(l) /\ DOMAIN Append(l, e) = 1..(Len(l) + 1)
      /\ \A n \in 1..Len(l) : Append(l, e)[n] = l[n]
      /\ Append(l, e)[Len(l) + 1] = e /\ Len(Append(l, e)) = Len(l) + 1
  OBVIOUS
<1>6. /\ \A q, n : OwnLine(q, n)' <=> OwnLine(q, n)
      /\ \A q, n : OwnLine(q, n) => posts'[q][n] = posts[q][n]
  <2>1. ASSUME NEW q, NEW n, q # p
        PROVE  /\ OwnLine(q, n)' <=> OwnLine(q, n)
               /\ OwnLine(q, n) => posts'[q][n] = posts[q][n]
    BY <1>4, <2>1 DEF OwnLine
  <2>2. ASSUME NEW n
        PROVE  /\ OwnLine(p, n)' <=> OwnLine(p, n)
               /\ OwnLine(p, n) => posts'[p][n] = posts[p][n]
    <3>1. n \in 1..Len(l) => Append(l, e)[n] = l[n] /\ n \in 1..(Len(l) + 1) BY <1>5
    <3>2. n \in 1..(Len(l) + 1) /\ Append(l, e)[n].item \in Item => n \in 1..Len(l)
      BY <1>2, <1>5, ValuesAreApart
    <3>. QED BY <1>1, <1>4, <1>5, <3>1, <3>2 DEF OwnLine
  <2>. QED BY <2>1, <2>2
<1>9. /\ \A o \in DOMAIN posts' : \A n \in DOMAIN posts'[o] :
           posts'[o][n].item \in Item => posts'[o][n].item \in written'
      /\ \A o \in DOMAIN posts' : \A m, n \in DOMAIN posts'[o] :
           posts'[o][m].item \in Item /\ posts'[o][m].item = posts'[o][n].item => m = n
  BY <1>6, LinesKept
<1>10. \A d \in Context : ctx'[d].at \in OnPost => ctx'[d].post \in DOMAIN posts'
  BY <1>4 DEF PostInv
<1>11. \A d \in Context : ctx'[d].at \in Drafted =>
          LET b == ctx'[d].before
              k == posts'[ctx'[d].post] IN
          /\ Len(b) <= Len(k)
          /\ \A n \in DOMAIN b : b[n] = k[n] /\ b[n].item # ctx'[d].item
          /\ \A n \in DOMAIN k : n > Len(b) => k[n].item = Foreign
  <2>. TAKE d \in Context
  <2>. HAVE ctx'[d].at \in Drafted
  <2>1. ctx'[d] = ctx[d] /\ ctx[d].at \in Drafted /\ ctx[d].post \in DOMAIN posts
    BY DEF PostInv, OnPost
  <2>2. CASE ctx[d].post # p BY <1>4, <2>1, <2>2 DEF PostInv
  <2>3. CASE ctx[d].post = p
    <3>1. PICK b \in Seq(Lined) : b = ctx[d].before
      <4>1. ctx[d].at # "idle" BY <2>1 DEF Drafted
      <4>2. ctx[d] \in Busy BY <4>1, BusyTypes
      <4>. QED BY <4>2 DEF Busy
    <3>2. /\ Len(b) <= Len(l) /\ Len(b) \in Nat /\ DOMAIN b = 1..Len(b)
          /\ \A n \in DOMAIN b : b[n] = l[n] /\ b[n].item # ctx[d].item
          /\ \A n \in DOMAIN l : n > Len(b) => l[n].item = Foreign
      BY <1>1, <2>1, <2>3, <3>1 DEF PostInv
    <3>3. /\ Len(b) <= Len(Append(l, e))
          /\ \A n \in DOMAIN b : b[n] = Append(l, e)[n]
          /\ \A n \in DOMAIN Append(l, e) : n > Len(b) => Append(l, e)[n].item = Foreign
      BY <1>2, <1>5, <3>2
    <3>. QED BY <1>4, <2>1, <2>3, <3>1, <3>2, <3>3
  <2>. QED BY <2>2, <2>3
<1>12. PostInv' BY <1>9, <1>10, <1>11 DEF PostInv
<1>13. OneInv' BY <1>6 DEF OneInv, At
<1>. QED BY <1>4, <1>6, <1>12, <1>13

LEMMA WriteElsewhereKeeps ==
    ASSUME TypeInv, Inv, WriteElsewhere PROVE TypeInv' /\ Inv'
<1>. USE DEF Inv
<1>1. /\ spent' = [spent EXCEPT !.foreign = @ + 1]
      /\ UNCHANGED <<rows, made, chosen, media, lock, ctx, flushDue, written>>
  BY DEF WriteElsewhere
<1>2. /\ spent' \in Spending /\ ~ Smooth'
      /\ spent'.resends \in Nat /\ spent.resends <= spent'.resends
  <2>1. spent \in Spending BY DEF TypeInv, Spending
  <2>2. /\ spent' \in Spending /\ spent'.foreign = spent.foreign + 1
        /\ spent'.resends = spent.resends /\ spent.foreign \in Nat /\ spent.resends \in Nat
    BY <1>1, <2>1 DEF Spending
  <2>. QED BY <2>2 DEF Smooth
<1>3. /\ posts' \in Seq(Seq(Lined)) /\ Len(posts) <= Len(posts') /\ Len(posts') \in Nat
      /\ PostInv' /\ OneInv'
  <2>1. CASE \E p \in DOMAIN posts :
                posts' = [posts EXCEPT ![p] = Append(@, Line(Foreign, None))]
    <3>1. PICK p \in DOMAIN posts :
             posts' = [posts EXCEPT ![p] = Append(@, Line(Foreign, None))]
      BY <2>1
    <3>2. /\ posts' \in Seq(Seq(Lined)) /\ Len(posts') = Len(posts)
          /\ PostInv' /\ OneInv'
      BY <1>1, <3>1, ForeignLine
    <3>3. Len(posts) \in Nat BY DEF TypeInv
    <3>. QED BY <3>2, <3>3
  <2>2. CASE posts' = Append(posts, <<>>)
    <3>1. Added /\ Len(posts') \in Nat BY <2>2, PostAdded DEF Added
    <3>. QED BY <1>1, <3>1, AddedKeeps DEF Added
  <2>. QED BY <2>1, <2>2 DEF WriteElsewhere
<1>4. TypeInv' BY <1>1, <1>2, <1>3, SMTT(20) DEF TypeInv, Spending
<1>5. LockInv' /\ QueueInv' /\ RowInv' BY <1>1 DEF LockInv, QueueInv, RowInv, At
<1>6. HoldInv' BY <1>1 DEF HoldInv, At
<1>7. UploadInv'
  <2>1. \A j \in Item : Unsaved(j)' => Unsaved(j) BY <1>1 DEF Unsaved, At
  <2>. QED BY <1>1, <1>2, <2>1, NothingUploaded
<1>8. SmoothInv' BY <1>2 DEF SmoothInv
<1>. QED BY <1>3, <1>4, <1>5, <1>6, <1>7, <1>8

-----------------------------------------------------------------------------
(* Every step.                                                             *)

LEMMA StutterKeeps == ASSUME TypeInv, Inv, UNCHANGED vars PROVE TypeInv' /\ Inv'
<1>1. /\ UNCHANGED <<rows, made, posts, chosen, media, lock, ctx>>
      /\ UNCHANGED <<flushDue, written, spent>>
  BY DEF vars
<1>2. TypeInv' BY <1>1 DEF TypeInv
<1>3. LockInv' /\ QueueInv' /\ RowInv'
  BY <1>1 DEF Inv, LockInv, QueueInv, RowInv, At
<1>4. HoldInv' /\ PostInv' /\ OneInv' BY <1>1, NobodyGoesOn DEF Inv
<1>5. UploadInv'
  <2>1. \A j \in Item : Unsaved(j)' => Unsaved(j) BY <1>1 DEF Unsaved, At
  <2>. QED BY <1>1, <2>1, NothingUploaded, SpentTypes DEF Inv
<1>6. SmoothInv'
  BY <1>1 DEF Inv, SmoothInv, Smooth, Bare, OwnLine, At, NextContent
<1>. QED BY <1>2, <1>3, <1>4, <1>5, <1>6 DEF Inv

LEMMA NextKeeps == TypeInv /\ Inv /\ [Next]_vars => TypeInv' /\ Inv'
<1>. SUFFICES ASSUME TypeInv, Inv, [Next]_vars PROVE TypeInv' /\ Inv'
  OBVIOUS
<1>1. CASE \E i \in Item : QueueSession(i) \/ \E c \in Context : Submit(c, i)
  BY <1>1, QueueSessionKeeps, SubmitKeeps
<1>2. ASSUME NEW c \in Context, BeginFlush(c) PROVE TypeInv' /\ Inv'
  BY <1>2, BeginFlushKeeps
<1>3. ASSUME NEW c \in Context, Step(c) PROVE TypeInv' /\ Inv'
  BY <1>3, NextRowKeeps, EnterKeeps, TakeRowKeeps, ListPostsKeeps, CreatePostKeeps,
     ReadPostKeeps, UploadKeeps, SaveUploadKeeps, WritePostKeeps, VerifyPostKeeps,
     RemoveRowKeeps DEF Step
<1>4. ASSUME NEW c \in Context,
             \/ CallFails(c) \/ AnswerIsLost(c)
             \/ CreateIsRepeated(c) \/ UploadIsRepeated(c)
      PROVE  TypeInv' /\ Inv'
  BY <1>4, CallFailsKeeps, AnswerIsLostKeeps, CreateIsRepeatedKeeps,
     UploadIsRepeatedKeeps
<1>5. CASE Restart BY <1>5, RestartKeeps
<1>6. CASE WriteElsewhere BY <1>6, WriteElsewhereKeeps
<1>7. CASE SelectPost BY <1>7, SelectPostKeeps
<1>8. CASE UNCHANGED vars BY <1>8, StutterKeeps
<1>. QED BY <1>1, <1>2, <1>3, <1>4, <1>5, <1>6, <1>7, <1>8 DEF Next

\* The types of the add-on's state, and what the queue, the posts and the files
\* have to do with each other, in every reachable state.
THEOREM OutboxInvariant == Spec => [](TypeInv /\ Inv)
<1>. QED BY InitInv, NextKeeps, PTL DEF Spec

\* What has left the Outbox is on a post, and what is in it when all is quiet and
\* nothing went wrong is not, but for an attachment put back without its file
\* (wordpress.js, createLog; daily-log.js, flushOutbox).
THEOREM OutboxTellsTheTruth == Spec => []OutboxIsTrue
<1>1. TypeInv /\ Inv => OutboxIsTrue
  <2>. SUFFICES ASSUME TypeInv, Inv, NEW i \in Item
                PROVE  /\ made[i] > 0 /\ rows[i] = None => i \in written
                       /\ /\ rows[i] # None /\ i \in written
                          /\ \A c \in Context : At(c, "idle")
                          /\ spent.faults = 0 /\ spent.foreign = 0
                          => i \notin Texts /\ ~ rows[i].file
    BY DEF OutboxIsTrue
  <2>1. made[i] > 0 /\ rows[i] = None => i \in written BY DEF Inv, RowInv
  <2>2. ASSUME rows[i] # None, i \in written, \A c \in Context : At(c, "idle"),
               spent.faults = 0, spent.foreign = 0
        PROVE  Bare(i)
    BY <2>2 DEF Inv, SmoothInv, Smooth, At
  <2>. QED BY <2>1, <2>2 DEF Bare
<1>. QED BY <1>1, OutboxInvariant, PTL

\* An entry is once on a post, and on one post while nobody chose another,
\* whatever was lost, repeated or restarted (wordpress.js, executeLog).
THEOREM EntriesAreWrittenOnce == Spec => []EntriesAreSingle
<1>1. TypeInv /\ Inv => EntriesAreSingle
  <2>. SUFFICES ASSUME TypeInv, Inv, NEW i \in Item
                PROVE  /\ \A k, l \in Of(i) : k[1] = l[1] => k = l
                       /\ chosen = 0 => Cardinality(Of(i)) <= 1
    BY DEF EntriesAreSingle
  <2>1. \A l \in Of(i) : /\ OwnLine(l[1], l[2]) /\ l = <<l[1], l[2]>>
                         /\ posts[l[1]][l[2]].item = i
    BY DEF Of, Lines, OwnLine
  <2>2. LinesInv BY LinesOfPosts DEF Inv, PostInv
  <2>3. \A k, l \in Of(i) : k[1] = l[1] => k = l
    <3>. TAKE k \in Of(i), l \in Of(i)
    <3>. HAVE k[1] = l[1]
    <3>1. k[2] = l[2] BY <2>1, <2>2 DEF LinesInv
    <3>. QED BY <2>1, <3>1
  <2>4. ASSUME chosen = 0 PROVE Cardinality(Of(i)) <= 1
    <3>1. \A k, l \in Of(i) : k = l BY <2>1, <2>3, <2>4 DEF Inv, OneInv
    <3>2. Of(i) = {} \/ \E l : Of(i) = {l}
      <4>1. ASSUME NEW l \in Of(i) PROVE Of(i) = {l} BY <3>1
      <4>. QED BY <4>1
    <3>3. Cardinality({}) = 0 /\ \A l : Cardinality({l}) = 1
      BY FS_EmptySet, FS_Singleton
    <3>4. Cardinality(Of(i)) = 0 \/ Cardinality(Of(i)) = 1 BY <3>2, <3>3
    <3>. QED BY <3>4
  <2>. QED BY <2>3, <2>4
<1>. QED BY <1>1, OutboxInvariant, PTL

\* A file is uploaded again only after its upload was not answered or failed,
\* within a request or before the next, or the note of it failed (wordpress.js,
\* request, the checkpoint of uploaded files).
THEOREM UploadsAreNotRepeated == Spec => []UploadsAreRemembered
<1>1. Inv => UploadsAreRemembered
  BY DEF Inv, UploadInv, UploadsAreRemembered, Files
<1>. QED BY <1>1, OutboxInvariant, PTL

\* No step takes a line of the add-on away.
LEMMA LinesStay ==
    ASSUME TypeInv, Inv, [Next]_vars
    PROVE  \A q, n : OwnLine(q, n) => OwnLine(q, n)' /\ posts'[q][n] = posts[q][n]
<1>1. CASE UNCHANGED posts BY <1>1 DEF OwnLine
<1>2. CASE Added BY <1>2, AddedLines
<1>3. ASSUME NEW c \in Context, At(c, "write"),
             posts' = [posts EXCEPT ![ctx[c].post] = NextContent(c)],
             written' = written \cup {ctx[c].item}
      PROVE  \A q, n : OwnLine(q, n) => OwnLine(q, n)' /\ posts'[q][n] = posts[q][n]
  <2>1. PICK p : p = ctx[c].post OBVIOUS
  <2>2. PICK i : i = ctx[c].item OBVIOUS
  <2>. QED BY <1>3, <2>1, <2>2, Rewritten
<1>4. ASSUME NEW p \in DOMAIN posts,
             posts' = [posts EXCEPT ![p] = Append(@, Line(Foreign, None))],
             UNCHANGED <<chosen, written, ctx>>
      PROVE  \A q, n : OwnLine(q, n) => OwnLine(q, n)' /\ posts'[q][n] = posts[q][n]
  BY <1>4, ForeignLine DEF Inv
<1>5. ASSUME NEW c \in Context, CreatePost(c) \/ CreateIsRepeated(c) PROVE Added
  BY <1>5, PostAdded, TwoPostsAdded DEF CreatePost, CreateIsRepeated
<1>6. CASE WriteElsewhere
  BY <1>2, <1>4, <1>6, PostAdded DEF WriteElsewhere
<1>7. ASSUME NEW c \in Context, AnswerIsLost(c)
      PROVE  \A q, n : OwnLine(q, n) => OwnLine(q, n)' /\ posts'[q][n] = posts[q][n]
  BY <1>1, <1>2, <1>3, <1>7, PostAdded DEF AnswerIsLost
<1>8. ASSUME NEW c \in Context, WritePost(c)
      PROVE  \A q, n : OwnLine(q, n) => OwnLine(q, n)' /\ posts'[q][n] = posts[q][n]
  BY <1>3, <1>8 DEF WritePost
<1>9. ASSUME NEW c \in Context, Step(c), ~ CreatePost(c), ~ WritePost(c)
      PROVE  UNCHANGED posts
  BY <1>9 DEF Step, NextRow, Enter, TakeRow, ListPosts, ReadPost, Upload, SaveUpload,
              VerifyPost, RemoveRow, web
<1>10. ASSUME NEW c \in Context, BeginFlush(c) \/ CallFails(c) \/ UploadIsRepeated(c)
       PROVE  UNCHANGED posts
  BY <1>10 DEF BeginFlush, CallFails, UploadIsRepeated, web
<1>11. ASSUME NEW i \in Item, QueueSession(i) \/ \E c \in Context : Submit(c, i)
       PROVE  UNCHANGED posts
  BY <1>11 DEF QueueSession, Submit, web
<1>12. CASE Restart \/ SelectPost \/ UNCHANGED vars
  BY <1>1, <1>12 DEF Restart, SelectPost, vars, web
<1>. QED BY <1>1, <1>2, <1>5, <1>6, <1>7, <1>8, <1>9, <1>10, <1>11, <1>12 DEF Next

\* No write of the add-on, of another program or of the author takes an entry of
\* the add-on off its post (wordpress.js, exclusive).
THEOREM EntriesStayOnTheirPost == Spec => EntriesAreKept
<1>1. ASSUME TypeInv, Inv, [Next]_vars
      PROVE  \A i \in Item : Of(i) # {} => Of(i)' # {}
  <2>. TAKE i \in Item
  <2>. HAVE Of(i) # {}
  <2>1. PICK l \in Of(i) : TRUE OBVIOUS
  <2>2. OwnLine(l[1], l[2]) /\ l = <<l[1], l[2]>> /\ posts[l[1]][l[2]].item = i
    BY <2>1 DEF Of, Lines, OwnLine
  <2>3. PICK p, n : p = l[1] /\ n = l[2] OBVIOUS
  <2>4. OwnLine(p, n)' /\ posts'[p][n].item = i
    BY <1>1, <2>2, <2>3, LinesStay
  <2>5. <<p, n>> \in Lines' BY <2>4 DEF Lines, OwnLine
  <2>6. <<p, n>> \in Of(i)' BY <2>4, <2>5 DEF Of
  <2>. QED BY <2>6
<1>2. TypeInv /\ Inv /\ [Next]_vars
        => [\A i \in Item : Of(i) # {} => Of(i)' # {}]_vars
  BY <1>1
<1>. QED BY <1>2, OutboxInvariant, PTL DEF EntriesAreKept, Spec

-----------------------------------------------------------------------------
(* AddonWork: the inductive invariant.                                     *)

Session == [status : Statuses, percent : 0..100, result : Ending \cup {Nothing}]
Acting == {"start"} \cup Ending
Jobs == [action : Acting \cup Reconciling, clicked : Task \cup {Nothing}, at : Steps,
         ref : Task \cup {Nothing}, seen : Views \cup {Nothing},
         raced : BOOLEAN, touched : BOOLEAN]

Spendings == [actions : 0..MaxActions, edits : 0..MaxEdits, faults : 0..MaxWorkFaults]

\* What an action may be planned on
Fits(action, v) ==
    /\ ~ Finished(v)
    /\ OpenSessions(v) \subseteq {Len(v.log)}
    /\ IF action = "start" THEN OpenSessions(v) = {} /\ v.percent < 100
       ELSE OpenSessions(v) # {}

LEMMA LogTyped == ASSUME NEW v \in Views
  PROVE  /\ v.log \in Seq(Session) /\ Len(v.log) \in Nat
         /\ DOMAIN v.log = 1..Len(v.log)
         /\ \A i \in DOMAIN v.log : v.log[i] \in Session
<1>1. v.log \in Seq(Session) BY DEF Views, Session
<1>. QED BY <1>1

\* A start adds a session, the only open one, with the progress of the Task
LEMMA StartExpected ==
  ASSUME NEW v \in Views, Fits("start", v)
  PROVE  /\ Expected("start", v) \in Views
         /\ Expected("start", v).status = "IN-PROCESS"
         /\ Expected("start", v).percent = v.percent
         /\ OpenSessions(Expected("start", v)) = {Len(Expected("start", v).log)}
         /\ DOMAIN v.log \subseteq DOMAIN Expected("start", v).log
         /\ \A i \in DOMAIN v.log : Expected("start", v).log[i] = v.log[i]
         /\ \A i \in DOMAIN Expected("start", v).log \ DOMAIN v.log :
               Expected("start", v).log[i].percent = v.percent
<1> DEFINE e == Expected("start", v)
           s == [status |-> v.status, percent |-> v.percent, result |-> Nothing]
           n == Len(v.log)
<1>1. /\ v.log \in Seq(Session) /\ n \in Nat /\ DOMAIN v.log = 1..n
      /\ \A i \in DOMAIN v.log : v.log[i] \in Session
  BY LogTyped
<1>2. s \in Session BY DEF Views, Session
<1>3. e = [v EXCEPT !.status = "IN-PROCESS", !.log = Append(@, s)] BY DEF Expected
<1>4. e.status = "IN-PROCESS" /\ e.percent = v.percent /\ e.log = Append(v.log, s)
  BY <1>3 DEF Views
<1>5. /\ e.log \in Seq(Session) /\ Len(e.log) = n + 1 /\ DOMAIN e.log = 1..(n + 1)
      /\ \A i \in 1..n : e.log[i] = v.log[i]
      /\ e.log[n + 1] = s
  BY <1>1, <1>2, <1>4, SMTT(20)
<1>6. e \in Views
  BY <1>3, <1>4, <1>5 DEF Views, Session, Statuses
<1>7. \A i \in DOMAIN v.log : v.log[i].result # Nothing BY DEF Fits, OpenSessions
<1>8. s.result = Nothing /\ s.percent = v.percent OBVIOUS
<1> HIDE DEF e, s, n
<1>9. OpenSessions(e) = {n + 1} BY <1>1, <1>5, <1>7, <1>8 DEF OpenSessions
<1>. QED BY <1>1, <1>4, <1>5, <1>6, <1>8, <1>9 DEF e

\* An ending gives the Task its status and progress and closes the last session
LEMMA EndExpected ==
  ASSUME NEW a \in Ending, NEW v \in Views, Fits(a, v)
  PROVE  LET e == Expected(a, v)
             n == Len(v.log) IN
         /\ e \in Views /\ n \in DOMAIN v.log
         /\ v.log[n].result = Nothing
         /\ a = "stop" => e.status = v.log[n].status /\ e.percent = v.log[n].percent
         /\ a = "complete" => e.status = "COMPLETED"
         /\ a = "cancel" => e.status = "CANCELLED" /\ e.percent = v.percent
         /\ DOMAIN e.log = DOMAIN v.log
         /\ \A i \in DOMAIN v.log : i # n => e.log[i] = v.log[i]
         /\ e.log[n].result = a
         /\ e.log[n].status = v.log[n].status
         /\ e.log[n].percent = v.log[n].percent
         /\ OpenSessions(e) = {}
<1> DEFINE e == Expected(a, v)
           n == Len(v.log)
           s == [v.log[n] EXCEPT !.result = a]
           status == CASE a = "stop"     -> v.log[n].status
                       [] a = "complete" -> "COMPLETED"
                       [] a = "cancel"   -> "CANCELLED"
           percent == CASE a = "stop"     -> v.log[n].percent
                        [] a = "complete" -> 100
                        [] a = "cancel"   -> v.percent
<1>1. /\ v.log \in Seq(Session) /\ n \in Nat /\ DOMAIN v.log = 1..n
      /\ \A i \in DOMAIN v.log : v.log[i] \in Session
  BY LogTyped
<1>0. a \in {"stop", "complete", "cancel"} /\ a # "start" BY DEF Ending
<1>2. OpenSessions(v) = {n} BY <1>0 DEF Fits
<1>3. (CHOOSE i \in OpenSessions(v) : TRUE) = n BY <1>2
<1>4. n \in DOMAIN v.log /\ v.log[n].result = Nothing
      /\ \A i \in DOMAIN v.log : i # n => v.log[i].result # Nothing
  BY <1>2 DEF OpenSessions
<1>5. e = [v EXCEPT !.status = status, !.percent = percent, !.log[n].result = a]
  BY <1>0, <1>3 DEF Expected
<1>6. v.log[n] \in Session BY <1>1, <1>4
<1>7. /\ s \in Session /\ s.result = a /\ s.status = v.log[n].status
      /\ s.percent = v.log[n].percent
  BY <1>6 DEF Session
<1>8. status \in Statuses /\ percent \in 0..100
  <2>1. /\ v.log[n].status \in Statuses /\ v.log[n].percent \in 0..100
        /\ v.percent \in 0..100 /\ 100 \in 0..100
    BY <1>6 DEF Session, Views
  <2>2. CASE a = "stop" BY <2>1, <2>2
  <2>3. CASE a = "complete" BY <2>1, <2>3 DEF Statuses
  <2>4. CASE a = "cancel" BY <2>1, <2>4 DEF Statuses
  <2>. QED BY <1>0, <2>2, <2>3, <2>4
<1> HIDE DEF status, percent
<1>9. /\ e.status = status /\ e.percent = percent
      /\ e.log = [v.log EXCEPT ![n] = s]
  BY <1>5 DEF Views
<1> HIDE DEF e, s
<1>10. /\ e.log \in Seq(Session) /\ Len(e.log) = n /\ DOMAIN e.log = 1..n
       /\ e.log[n] = s /\ \A i \in 1..n : i # n => e.log[i] = v.log[i]
  BY <1>1, <1>4, <1>7, <1>9
<1>11. e \in Views
  <2>1. e = [status |-> status, percent |-> percent, log |-> e.log]
    BY <1>5, <1>9 DEF Views
  <2>. QED BY <1>8, <1>10, <2>1 DEF Views, Session
<1>12. a # Nothing BY AddonAssumption
<1>13. OpenSessions(e) = {}
  BY <1>1, <1>4, <1>7, <1>10, <1>12 DEF OpenSessions
<1>14. /\ a = "stop" => status = v.log[n].status /\ percent = v.log[n].percent
       /\ a = "complete" => status = "COMPLETED"
       /\ a = "cancel" => status = "CANCELLED" /\ percent = v.percent
  BY DEF status, percent
<1>. QED BY <1>1, <1>4, <1>7, <1>9, <1>10, <1>11, <1>13, <1>14 DEF e, n

\* Only full progress, and partial progress without a status, are held otherwise
LEMMA ConvertedFacts == ASSUME NEW v \in Views
  PROVE  /\ Converted(v) \in Views
         /\ Converted(v).log = v.log /\ Converted(v).percent = v.percent
         /\ OpenSessions(Converted(v)) = OpenSessions(v)
         /\ v.percent = 100 => Converted(v).status = "COMPLETED"
         /\ Converted(v) # v =>
               \/ v.percent = 100 /\ v.status # "COMPLETED"
               \/ v.percent \in 1..99 /\ v.status = ""
<1> DEFINE s == CASE v.percent = 100 -> "COMPLETED"
                 [] v.percent \in 1..99 /\ v.status = "" -> "IN-PROCESS"
                 [] OTHER -> v.status
<1>1. v.percent \in 0..100 /\ v.status \in Statuses BY DEF Views
<1>2. s \in Statuses BY <1>1 DEF Statuses
<1>3. Converted(v) = [v EXCEPT !.status = s] BY DEF Converted
<1>4. v.percent = 100 => s = "COMPLETED" OBVIOUS
<1>5. s # v.status => \/ v.percent = 100 /\ v.status # "COMPLETED"
                      \/ v.percent \in 1..99 /\ v.status = ""
  BY <1>1
<1> HIDE DEF s
<1>6. /\ Converted(v) \in Views /\ Converted(v).log = v.log
      /\ Converted(v).percent = v.percent /\ Converted(v).status = s
      /\ s = v.status => Converted(v) = v
  BY <1>2, <1>3 DEF Views
<1>. QED BY <1>4, <1>5, <1>6 DEF OpenSessions


-----------------------------------------------------------------------------
WorkTypes ==
    /\ tasks \in [Task -> Views] /\ stale \subseteq Task
    /\ pointer \in Task \cup {Nothing}
    /\ selected \in Task \cup {Nothing} /\ shown \in Task \cup {Nothing}
    /\ queue \in Seq(Requests)
    /\ job \in Jobs \cup {NoJob}
    /\ pending \in BOOLEAN /\ missed \in BOOLEAN
    /\ outbox \subseteq (Task \X Nat)
    /\ amiss \in [Task -> SUBSET Reasons]
    /\ workSpent \in Spendings

\* Full progress without an end comes from an edit, since no such Task is started
FullFits(v) ==
    v.percent = 100 /\ ~ Finished(v) /\ OpenSessions(v) # {} => FullIsEdited

\* The sessions of a Task
TaskInv ==
    \A t \in Task :
        /\ OpenSessions(tasks[t]) \subseteq {Len(tasks[t].log)}
        /\ \A i \in DOMAIN tasks[t].log : tasks[t].log[i].percent < 100
        /\ FullFits(tasks[t])

\* What the executor knows about its Task
KnowsTask ==
    /\ job.at # "resolve" => job.ref \in Task
    /\ job.at # "resolve" /\ job.action = "start" => job.ref = job.clicked
    /\ job.at \notin {"resolve", "read"} => job.seen \in Views
    /\ job.at \in {"plan", "release", "write"} => job.seen.log = tasks[job.ref].log
    /\ job.at \in {"plan", "write"} =>
          tasks[job.ref] = job.seen \/ job.raced \/ job.ref \in stale
    /\ job.at \in {"plan", "write", "verify"} => FullFits(job.seen)

\* What it has planned and written
KnowsPlan ==
    /\ job.at \in {"write", "verify", "commit", "queue"} =>
          job.action \in Acting /\ Fits(job.action, job.seen)
    /\ job.at \in {"verify", "commit"} =>
          tasks[job.ref].log = Expected(job.action, job.seen).log
    /\ job.at = "verify" /\ ~ job.touched =>
          tasks[job.ref] = Converted(Expected(job.action, job.seen))
    /\ job.at = "queue" => job.action \in Ending

\* What the pointer says meanwhile
KnowsPointer ==
    /\ job.at = "release" => job.action # "start"
    /\ job.action # "start" /\ job.at \notin {"resolve", "queue"} => pointer = job.ref
    /\ job.action = "start" /\ job.at \in {"write", "verify", "commit"} => pointer = Nothing

JobInv == job # NoJob => KnowsTask /\ KnowsPlan /\ KnowsPointer
WorkInv == WorkTypes /\ TaskInv /\ JobInv

LEMMA JobFacts == ASSUME WorkTypes, job # NoJob PROVE job \in Jobs /\ job.at \in Steps
BY DEF WorkTypes, Jobs

LEMMA JobIsBusy == ASSUME NEW j \in Jobs PROVE j # NoJob
<1>1. j.action # "none" BY DEF Jobs, Acting, Ending, Reconciling
<1>. QED BY <1>1 DEF NoJob

LEMMA EventTyped ==
  ASSUME WorkTypes, Event \/ NoEvent
  PROVE  queue' \in Seq(Requests) /\ pending' \in BOOLEAN /\ missed' \in BOOLEAN
<1>1. [action |-> "event", clicked |-> Nothing] \in Requests
  BY DEF Requests, Reconciling
<1>2. CASE Event
  <2>1. CASE pending
    <3>1. missed' = (missed \/ PastItsRead) /\ UNCHANGED <<queue, pending>>
      BY <1>2, <2>1 DEF Event
    <3>2. (missed \/ PastItsRead) \in BOOLEAN OBVIOUS
    <3>3. missed' \in BOOLEAN BY <3>1, <3>2
    <3>. QED BY <3>1, <3>3 DEF WorkTypes
  <2>2. CASE ~ pending
    <3> DEFINE q == [action |-> "event", clicked |-> Nothing]
    <3>1. pending' = TRUE /\ missed' = FALSE /\ queue' = Append(queue, q)
      BY <1>2, <2>2 DEF Event
    <3>2. q \in Requests /\ queue \in Seq(Requests) BY <1>1 DEF WorkTypes
    <3> HIDE DEF q
    <3>3. Append(queue, q) \in Seq(Requests) BY <3>2
    <3>. QED BY <3>1, <3>3
  <2>. QED BY <2>1, <2>2
<1>3. CASE NoEvent BY <1>3 DEF NoEvent, WorkTypes
<1>. QED BY <1>2, <1>3

\* An edit changes status and progress of one Task
LEMMA EditFacts ==
  ASSUME WorkTypes, NEW t \in Task, Edits(t)
  PROVE  /\ tasks' \in [Task -> Views]
         /\ \A u \in Task : tasks'[u].log = tasks[u].log
         /\ \A u \in Task \ {t} : tasks'[u] = tasks[u]
         /\ \E s \in EditedTo : tasks'[t].status = s.status /\ tasks'[t].percent = s.percent
<1>1. PICK s \in EditedTo :
         tasks' = [tasks EXCEPT ![t].status = s.status, ![t].percent = s.percent]
  BY DEF Edits
<1>2. s.status \in Statuses /\ s.percent \in 0..100 BY AddonAssumption DEF States
<1>3. tasks \in [Task -> Views] BY DEF WorkTypes
<1>4. tasks' = [tasks EXCEPT ![t] = [@ EXCEPT !.status = s.status, !.percent = s.percent]]
  BY <1>1, <1>3
<1> DEFINE w == tasks[t]
           v == [w EXCEPT !.status = s.status, !.percent = s.percent]
<1>5. v \in Views /\ v.log = tasks[t].log /\ v.status = s.status /\ v.percent = s.percent
  <2>1. w \in Views BY <1>3
  <2> HIDE DEF w
  <2>2. v.log = w.log /\ v.status = s.status /\ v.percent = s.percent
    BY <2>1 DEF Views
  <2>3. v \in Views BY <1>2, <2>1 DEF Views
  <2>. QED BY <2>2, <2>3 DEF w
<1>6. tasks' = [tasks EXCEPT ![t] = v] BY <1>4
<1> HIDE DEF v
<1>. QED BY <1>3, <1>5, <1>6

LEMMA TouchedTyped ==
  ASSUME WorkTypes, NEW raced \in BOOLEAN, NEW touched \in BOOLEAN, job # NoJob
  PROVE  LET j == [job EXCEPT !.raced = raced, !.touched = touched] IN
         /\ j \in Jobs /\ j # NoJob
         /\ j.action = job.action /\ j.clicked = job.clicked /\ j.at = job.at
         /\ j.ref = job.ref /\ j.seen = job.seen
         /\ j.raced = raced /\ j.touched = touched
<1>1. job \in Jobs BY JobFacts
<1> DEFINE j == [job EXCEPT !.raced = raced, !.touched = touched]
<1>2. /\ j \in Jobs
      /\ j.action = job.action /\ j.clicked = job.clicked /\ j.at = job.at
      /\ j.ref = job.ref /\ j.seen = job.seen
      /\ j.raced = raced /\ j.touched = touched
  BY <1>1 DEF Jobs
<1>. QED BY <1>2, JobIsBusy

LEMMA FullIsFull ==
  ASSUME FullIsEdited, workSpent'.edits \in Nat, workSpent.edits \in Nat,
         workSpent'.edits >= workSpent.edits
  PROVE  FullIsEdited'
BY DEF FullIsEdited

\* Edits on both sides of the mail program
EditOf(t) == EditNatively(t) \/ EditElsewhere(t)

\* Edits reach a job through what it read, and are noted in it or in stale
LEMMA EditsKeep ==
  ASSUME WorkInv, NEW t \in Task, EditOf(t)
  PROVE  WorkInv' /\ (job # NoJob => job' # NoJob /\ job'.at = job.at /\ job'.ref = job.ref)
         /\ (job = NoJob => job' = NoJob)
<1> USE DEF WorkInv
<1>1. Edits(t) /\ CountEdit BY DEF EditOf, EditNatively, EditElsewhere
<1>2. /\ tasks' \in [Task -> Views]
      /\ \A u \in Task : tasks'[u].log = tasks[u].log
      /\ \A u \in Task \ {t} : tasks'[u] = tasks[u]
      /\ \E s \in EditedTo : tasks'[t].status = s.status /\ tasks'[t].percent = s.percent
  BY <1>1, EditFacts
<1>3. /\ workSpent' \in Spendings
      /\ workSpent'.edits = workSpent.edits + 1 /\ workSpent.edits \in Nat
  BY <1>1, AddonAssumption DEF CountEdit, WorkTypes, Spendings
<1>4. \A u \in Task : OpenSessions(tasks'[u]) = OpenSessions(tasks[u])
  BY <1>2 DEF OpenSessions
<1>5. FullIsEdited => FullIsEdited' BY <1>3, FullIsFull
<1>6. tasks'[t].percent = 100 /\ ~ Finished(tasks'[t]) => FullIsEdited'
  <2>. SUFFICES ASSUME tasks'[t].percent = 100, ~ Finished(tasks'[t])
                PROVE  FullIsEdited'
    OBVIOUS
  <2>1. PICK s \in EditedTo : tasks'[t].status = s.status /\ tasks'[t].percent = s.percent
    BY <1>2
  <2>2. s.percent = 100 /\ s.status \notin Ended BY <2>1 DEF Finished, Ended
  <2>. QED BY <1>3, <2>2 DEF FullIsEdited
<1>7. TaskInv'
  <2>. SUFFICES ASSUME NEW u \in Task
                PROVE  /\ OpenSessions(tasks'[u]) \subseteq {Len(tasks'[u].log)}
                       /\ \A i \in DOMAIN tasks'[u].log : tasks'[u].log[i].percent < 100
                       /\ FullFits(tasks[u])'
    BY DEF TaskInv
  <2>1. FullFits(tasks[u])'
    BY <1>2, <1>4, <1>5, <1>6, ZenonT(30) DEF FullFits, TaskInv
  <2>. QED BY <1>2, <1>4, <2>1 DEF TaskInv
<1>8. ASSUME job # NoJob
      PROVE  \E raced, touched \in BOOLEAN :
                /\ job' = [job EXCEPT !.raced = raced, !.touched = touched]
                /\ job.ref # t => raced = job.raced /\ touched = job.touched
                /\ touched = (job.touched \/ (job.ref = t /\ job.at = "verify"))
                /\ job.raced => raced
                /\ job.ref = t /\ job.at \in {"plan", "write"} => raced \/ t \in stale'
                /\ stale \subseteq stale'
  <2>1. job \in Jobs /\ job.raced \in BOOLEAN /\ job.touched \in BOOLEAN
    BY <1>8, JobFacts DEF Jobs
  <2>2. CASE job.ref # t
    <3>1. job' = job BY <2>2, <1>8 DEF EditOf, EditNatively, EditElsewhere, Touched
    <3>2. job = [job EXCEPT !.raced = job.raced, !.touched = job.touched]
      BY <2>1 DEF Jobs
    <3>3. stale \subseteq stale' BY DEF EditOf, EditNatively, EditElsewhere
    <3>. QED BY <2>1, <2>2, <3>1, <3>2, <3>3
  <2>3. CASE job.ref = t /\ EditNatively(t)
    <3> DEFINE raced == job.raced \/ job.at \in {"plan", "write"}
               touched == job.touched \/ job.at = "verify"
    <3>1. job' = [job EXCEPT !.raced = raced, !.touched = touched]
      BY <1>8, <2>3 DEF EditNatively, Touched
    <3>2. stale' = stale BY <2>3 DEF EditNatively
    <3>3. raced \in BOOLEAN /\ touched \in BOOLEAN OBVIOUS
    <3>4. /\ touched = (job.touched \/ (job.ref = t /\ job.at = "verify"))
          /\ job.raced => raced
          /\ job.at \in {"plan", "write"} => raced
      BY <2>1, <2>3
    <3> HIDE DEF raced, touched
    <3>. QED BY <2>3, <3>1, <3>2, <3>3, <3>4
  <2>4. CASE job.ref = t /\ EditElsewhere(t)
    <3> DEFINE touched == job.touched \/ job.at = "verify"
    <3>1. job' = [job EXCEPT !.touched = touched]
      BY <1>8, <2>4 DEF EditElsewhere
    <3>2. job' = [job EXCEPT !.raced = job.raced, !.touched = touched]
      BY <2>1, <3>1 DEF Jobs
    <3>3. t \in stale' /\ stale \subseteq stale' BY <2>4 DEF EditElsewhere
    <3>4. touched \in BOOLEAN
          /\ touched = (job.touched \/ (job.ref = t /\ job.at = "verify"))
      BY <2>1, <2>4
    <3> HIDE DEF touched
    <3>. QED BY <2>1, <2>4, <3>2, <3>3, <3>4
  <2>. QED BY <2>2, <2>3, <2>4 DEF EditOf
<1>9. job = NoJob => job' = NoJob
  BY DEF EditOf, EditNatively, EditElsewhere, Touched
<1>10. pointer' = pointer BY DEF EditOf, EditNatively, EditElsewhere
<1>11. ASSUME job # NoJob
       PROVE  /\ job' \in Jobs /\ job' # NoJob /\ job'.at = job.at /\ job'.ref = job.ref
              /\ KnowsTask' /\ KnowsPlan' /\ KnowsPointer'
  <2>1. PICK raced \in BOOLEAN, touched \in BOOLEAN :
                /\ job' = [job EXCEPT !.raced = raced, !.touched = touched]
                /\ job.ref # t => raced = job.raced /\ touched = job.touched
                /\ touched = (job.touched \/ (job.ref = t /\ job.at = "verify"))
                /\ job.raced => raced
                /\ job.ref = t /\ job.at \in {"plan", "write"} => raced \/ t \in stale'
                /\ stale \subseteq stale'
    BY <1>8, <1>11
  <2>2. /\ job' \in Jobs /\ job' # NoJob
        /\ job'.action = job.action /\ job'.clicked = job.clicked /\ job'.at = job.at
        /\ job'.ref = job.ref /\ job'.seen = job.seen
        /\ job'.raced = raced /\ job'.touched = touched
    BY <1>11, <2>1, TouchedTyped, ZenonT(30)
  <2>0. KnowsTask /\ KnowsPlan /\ KnowsPointer BY <1>11 DEF JobInv
  <2>3. KnowsTask'
    <3>1. job.at \in {"plan", "write"} =>
             tasks'[job.ref] = job.seen \/ raced \/ job.ref \in stale'
      BY <1>2, <2>0, <2>1 DEF KnowsTask
    <3>2. job.at \in {"plan", "write", "verify"} => FullFits(job.seen)'
      BY <1>5, <2>0, <2>2 DEF KnowsTask, FullFits
    <3>. QED BY <1>2, <2>0, <2>2, <3>1, <3>2 DEF KnowsTask
  <2>4. KnowsPlan'
    <3>0. job.at = "verify" => job.ref \in Task BY <2>0 DEF KnowsTask
    <3>1. job.at \in {"verify", "commit"} => job.ref \in Task BY <2>0 DEF KnowsTask
    <3>2. job.at = "verify" /\ ~ touched => ~ job.touched /\ job.ref # t
      BY <2>1
    <3>3. job.at = "verify" /\ ~ touched =>
             tasks'[job.ref] = Converted(Expected(job.action, job.seen))
      BY <1>2, <2>0, <3>0, <3>2 DEF KnowsPlan
    <3>4. job.at \in {"verify", "commit"} =>
          tasks'[job.ref].log = Expected(job.action, job.seen).log
      BY <1>2, <2>0, <3>1 DEF KnowsPlan
    <3>. QED BY <2>0, <2>2, <3>3, <3>4 DEF KnowsPlan
  <2>5. KnowsPointer' BY <1>10, <2>0, <2>2 DEF KnowsPointer
  <2>. QED BY <2>2, <2>3, <2>4, <2>5
<1>12. WorkTypes'
  <2>1. job' \in Jobs \cup {NoJob} BY <1>9, <1>11
  <2>2. stale' \subseteq Task BY DEF EditOf, EditNatively, EditElsewhere, WorkTypes
  <2>3. queue' \in Seq(Requests) /\ pending' \in BOOLEAN /\ missed' \in BOOLEAN
    BY EventTyped DEF EditOf, EditNatively, EditElsewhere, NoEvent, history
  <2>4. UNCHANGED <<pointer, uiVars, outbox, amiss>>
    BY DEF EditOf, EditNatively, EditElsewhere, history
  <2>. QED BY <1>2, <1>3, <2>1, <2>2, <2>3, <2>4 DEF WorkTypes, uiVars
<1>. QED BY <1>7, <1>9, <1>11, <1>12 DEF JobInv


LEMMA RefreshKeeps ==
  ASSUME WorkInv, NEW t \in Task, Refresh(t)
  PROVE  WorkInv' /\ (job # NoJob => job' # NoJob /\ job'.at = job.at /\ job'.ref = job.ref)
         /\ (job = NoJob => job' = NoJob)
<1> USE DEF WorkInv
<1>1. UNCHANGED <<tasks, pointer, uiVars, outbox, amiss, workSpent>> /\ stale' = stale \ {t}
  BY DEF Refresh
<1>2. FullIsEdited' = FullIsEdited BY <1>1 DEF FullIsEdited
<1>3. TaskInv' BY <1>1, <1>2 DEF TaskInv, FullFits
<1>4. job = NoJob => job' = NoJob BY DEF Refresh
<1>5. ASSUME job # NoJob
      PROVE  /\ job' \in Jobs /\ job' # NoJob /\ job'.at = job.at /\ job'.ref = job.ref
             /\ KnowsTask' /\ KnowsPlan' /\ KnowsPointer'
  <2> DEFINE raced == job.raced \/ (job.ref = t /\ job.at \in {"plan", "write"})
  <2>0. KnowsTask /\ KnowsPlan /\ KnowsPointer BY <1>5 DEF JobInv
  <2>1. job \in Jobs /\ job.raced \in BOOLEAN /\ job.touched \in BOOLEAN
    BY <1>5, JobFacts DEF Jobs
  <2>2. job' = [job EXCEPT !.raced = raced, !.touched = job.touched]
    <3>1. CASE job.ref = t /\ job.at \in {"plan", "write"}
      BY <1>5, <2>1, <3>1 DEF Refresh, Jobs
    <3>2. CASE ~ (job.ref = t /\ job.at \in {"plan", "write"})
      <4>1. job' = job /\ raced = job.raced BY <1>5, <2>1, <3>2 DEF Refresh
      <4> HIDE DEF raced
      <4>. QED BY <2>1, <4>1 DEF Jobs
    <3>. QED BY <3>1, <3>2
  <2>3. raced \in BOOLEAN OBVIOUS
  <2>4. /\ job.at \in {"plan", "write"} /\ job.ref = t => raced
        /\ job.raced => raced
    OBVIOUS
  <2> HIDE DEF raced
  <2>5. /\ job' \in Jobs /\ job' # NoJob
        /\ job'.action = job.action /\ job'.clicked = job.clicked /\ job'.at = job.at
        /\ job'.ref = job.ref /\ job'.seen = job.seen
        /\ job'.raced = raced /\ job'.touched = job.touched
    BY <1>5, <2>1, <2>2, <2>3, TouchedTyped, ZenonT(30)
  <2>6. KnowsTask'
    <3>1. job.at \in {"plan", "write"} =>
             tasks[job.ref] = job.seen \/ raced \/ job.ref \in stale'
      BY <1>1, <2>0, <2>4 DEF KnowsTask
    <3>2. job.at \in {"plan", "write", "verify"} => FullFits(job.seen)'
      BY <1>2, <2>0, <2>5 DEF KnowsTask, FullFits
    <3>. QED BY <1>1, <2>0, <2>5, <3>1, <3>2 DEF KnowsTask
  <2>7. KnowsPlan' BY <1>1, <2>0, <2>5 DEF KnowsPlan
  <2>8. KnowsPointer' BY <1>1, <2>0, <2>5 DEF KnowsPointer
  <2>. QED BY <2>5, <2>6, <2>7, <2>8
<1>6. WorkTypes'
  <2>1. queue' \in Seq(Requests) /\ pending' \in BOOLEAN /\ missed' \in BOOLEAN
    BY EventTyped DEF Refresh
  <2>. QED BY <1>1, <1>4, <1>5, <2>1 DEF WorkTypes, uiVars
<1>. QED BY <1>3, <1>4, <1>5, <1>6 DEF JobInv

\* What the add-on does not see, and what waits for the executor
LEMMA AskTyped ==
  ASSUME WorkTypes, NEW a \in Acting \cup Reconciling, NEW c \in Task \cup {Nothing},
         Ask(a, c)
  PROVE  /\ queue' \in Seq(Requests)
         /\ workSpent' \in Spendings
         /\ workSpent'.edits = workSpent.edits
<1> DEFINE q == [action |-> a, clicked |-> c]
<1>1. q \in Requests BY DEF Requests, Acting
<1>2. queue' = Append(queue, q) BY DEF Ask
<1> HIDE DEF q
<1>3. queue' \in Seq(Requests) BY <1>1, <1>2 DEF WorkTypes
<1>4. /\ workSpent' = [workSpent EXCEPT !.actions = @ + 1] /\ workSpent.actions < MaxActions
      /\ workSpent \in Spendings
      /\ MaxActions \in Nat
  BY AddonAssumption DEF Ask, WorkTypes
<1>5. workSpent.actions + 1 \in 0..MaxActions BY <1>4 DEF Spendings
<1>. QED BY <1>3, <1>4, <1>5 DEF Spendings

LEMMA PersonKeeps ==
  ASSUME WorkInv,
         (\E s \in Task \cup {Nothing} : Select(s)) \/ Render \/ ClickStart \/ AskOnPage
            \/ UNCHANGED workVars
  PROVE  WorkInv' /\ UNCHANGED <<tasks, pointer, job, amiss>> /\ workSpent'.edits = workSpent.edits
<1> USE DEF WorkInv
<1>1. UNCHANGED <<tasks, stale, pointer, job, outbox, amiss, missed, pending>>
  BY DEF Select, Render, ClickStart, AskOnPage, workVars, taskVars, history
<1>2. /\ queue' \in Seq(Requests)
      /\ workSpent' \in Spendings
      /\ workSpent'.edits = workSpent.edits
      /\ selected' \in Task \cup {Nothing} /\ shown' \in Task \cup {Nothing}
  <2>1. CASE ClickStart
    <3>1. Ask("start", shown) /\ shown' = Nothing /\ selected' = selected
      BY <2>1 DEF ClickStart
    <3>2. "start" \in Acting \cup Reconciling BY DEF Acting
    <3>. QED BY <3>1, <3>2, AskTyped DEF WorkTypes
  <2>2. CASE AskOnPage
    <3>1. PICK a \in Ending \cup {"visit"} : Ask(a, Nothing) BY <2>2 DEF AskOnPage
    <3>2. a \in Acting \cup Reconciling BY DEF Acting, Reconciling
    <3>. QED BY <2>2, <3>1, <3>2, AskTyped DEF WorkTypes, AskOnPage, uiVars
  <2>3. CASE (\E s \in Task \cup {Nothing} : Select(s)) \/ Render \/ UNCHANGED workVars
    BY <2>3 DEF Select, Render, workVars, WorkTypes
  <2>. QED BY <2>1, <2>2, <2>3
<1>3. WorkTypes' BY <1>1, <1>2 DEF WorkTypes
<1>4. FullIsEdited' = FullIsEdited BY <1>2 DEF FullIsEdited
<1>5. TaskInv' BY <1>1, <1>4 DEF TaskInv, FullFits
<1>6. JobInv' BY <1>1, <1>4 DEF JobInv, KnowsTask, KnowsPlan, KnowsPointer, FullFits
<1>. QED BY <1>1, <1>2, <1>3, <1>5, <1>6

\* The job after a step of the executor
LEMMA GotoFacts ==
  ASSUME WorkTypes, job # NoJob, NEW step \in Steps, GoOn(step)
  PROVE  /\ job' \in Jobs /\ job' # NoJob /\ job'.at = step
         /\ job'.action = job.action /\ job'.clicked = job.clicked /\ job'.ref = job.ref
         /\ job'.seen = job.seen /\ job'.raced = job.raced /\ job'.touched = job.touched
<1>1. job \in Jobs BY JobFacts
<1>2. /\ job' \in Jobs /\ job'.at = step
      /\ job'.action = job.action /\ job'.clicked = job.clicked /\ job'.ref = job.ref
      /\ job'.seen = job.seen /\ job'.raced = job.raced /\ job'.touched = job.touched
  BY <1>1 DEF GoOn, Jobs
<1>. QED BY <1>2, JobIsBusy

\* A job that is over
LEMMA OverKeeps ==
  ASSUME WorkInv, job' = NoJob, UNCHANGED <<tasks, uiVars>>, stale' \subseteq Task,
         pointer' \in Task \cup {Nothing}, queue' \in Seq(Requests),
         pending' \in BOOLEAN, missed' \in BOOLEAN, outbox' \subseteq (Task \X Nat),
         amiss' \in [Task -> SUBSET Reasons],
         workSpent' \in Spendings,
         workSpent'.edits = workSpent.edits
  PROVE  WorkInv'
<1> USE DEF WorkInv
<1>1. WorkTypes' BY DEF WorkTypes, uiVars
<1>2. FullIsEdited' = FullIsEdited BY DEF FullIsEdited
<1>3. TaskInv' BY <1>2 DEF TaskInv, FullFits
<1>. QED BY <1>1, <1>3 DEF JobInv

LEMMA DoneTyped == ASSUME WorkTypes, Done PROVE job' = NoJob /\ pending' \in BOOLEAN
BY DEF Done, WorkTypes

LEMMA ReasonsTyped ==
  ASSUME WorkTypes, NEW t \in Task, NEW x \in Reasons
  PROVE  [amiss EXCEPT ![t] = @ \cup {x}] \in [Task -> SUBSET Reasons]
BY DEF WorkTypes

LEMMA TakeKeeps == ASSUME WorkInv, Take PROVE WorkInv' /\ job = NoJob
<1> USE DEF WorkInv
<1> DEFINE j == [action |-> Head(queue).action, clicked |-> Head(queue).clicked,
                 at |-> "resolve", ref |-> Nothing, seen |-> Nothing,
                 raced |-> FALSE, touched |-> FALSE]
<1>1. job' = j /\ job = NoJob /\ queue # <<>> /\ queue' = Tail(queue)
      /\ UNCHANGED <<tasks, stale, pointer, selected, shown, pending, outbox, amiss, missed,
                     workSpent>>
  BY DEF Take, taskVars, uiVars, history
<1>2. queue \in Seq(Requests) BY DEF WorkTypes
<1>3. Head(queue) \in Requests /\ Tail(queue) \in Seq(Requests) BY <1>1, <1>2
<1>4. j \in Jobs BY <1>3 DEF Jobs, Requests, Acting, Steps
<1>5. j.at = "resolve" OBVIOUS
<1> HIDE DEF j
<1>6. WorkTypes' BY <1>1, <1>3, <1>4 DEF WorkTypes
<1>7. FullIsEdited' = FullIsEdited BY <1>1 DEF FullIsEdited
<1>8. TaskInv' BY <1>1, <1>7 DEF TaskInv, FullFits
<1>9. JobInv' BY <1>1, <1>5 DEF JobInv, KnowsTask, KnowsPlan, KnowsPointer
<1>. QED BY <1>1, <1>6, <1>8, <1>9

LEMMA ResolveKeeps == ASSUME WorkInv, Resolve PROVE WorkInv' /\ JobAt("resolve")
<1> USE DEF WorkInv
<1>1. JobAt("resolve") /\ job # NoJob /\ job.at = "resolve"
      /\ UNCHANGED <<tasks, stale, pointer, selected, shown, queue, outbox, amiss, missed,
                     workSpent>>
  BY DEF Resolve, taskVars, uiVars, history, JobAt
<1>2. CASE Target = Nothing
  <2>1. Done BY <1>2 DEF Resolve
  <2>. QED BY <1>1, <2>1, DoneTyped, OverKeeps DEF WorkTypes, uiVars
<1>3. CASE Target # Nothing
  <2> DEFINE r == Target
             j == [job EXCEPT !.ref = r, !.at = "read"]
  <2>1. job' = j /\ pending' = pending BY <1>3 DEF Resolve
  <2>2. r \in Task BY <1>3 DEF Target, WorkTypes
  <2>3. /\ job.action = "start" => r = job.clicked
        /\ job.action # "start" => r = pointer
    BY <1>3 DEF Target
  <2>4. job \in Jobs BY <1>1, JobFacts
  <2> HIDE DEF r
  <2>5. j \in Jobs /\ j.at = "read" /\ j.ref = r /\ j.action = job.action
        /\ j.clicked = job.clicked
    BY <2>2, <2>4 DEF Jobs, Steps
  <2> HIDE DEF j
  <2>6. WorkTypes' BY <1>1, <2>1, <2>5 DEF WorkTypes
  <2>7. FullIsEdited' = FullIsEdited BY <1>1 DEF FullIsEdited
  <2>8. TaskInv' BY <1>1, <2>7 DEF TaskInv, FullFits
  <2>9. JobInv' BY <1>1, <2>1, <2>2, <2>3, <2>5 DEF JobInv, KnowsTask, KnowsPlan, KnowsPointer
  <2>. QED BY <1>1, <2>6, <2>8, <2>9
<1>. QED BY <1>2, <1>3

LEMMA ReadKeeps ==
  ASSUME WorkInv, Read
  PROVE  WorkInv' /\ JobAt("read") /\ job' # NoJob /\ job'.at = "plan"
<1> USE DEF WorkInv
<1>1. JobAt("read") /\ job # NoJob /\ job.at = "read"
      /\ UNCHANGED <<tasks, pointer, selected, shown, outbox, amiss, workSpent>>
      /\ stale' = stale \ {job.ref}
  BY DEF Read, uiVars, JobAt
<1> DEFINE v == tasks[job.ref]
           j == [job EXCEPT !.seen = v, !.at = "plan"]
<1>2. job' = j BY DEF Read
<1>3. job \in Jobs /\ KnowsTask /\ KnowsPlan /\ KnowsPointer
  BY <1>1, JobFacts DEF JobInv
<1>4. job.ref \in Task /\ v \in Views BY <1>1, <1>3 DEF KnowsTask, WorkTypes
<1>5. FullFits(v) BY <1>4 DEF TaskInv
<1>6. v = tasks[job.ref] OBVIOUS
<1> HIDE DEF v
<1>7. j \in Jobs /\ j.at = "plan" /\ j.ref = job.ref /\ j.action = job.action
      /\ j.clicked = job.clicked /\ j.seen = v
  BY <1>3, <1>4 DEF Jobs, Steps
<1> HIDE DEF j
<1>8. j # NoJob BY <1>7, JobIsBusy
<1>9. WorkTypes'
  <2>1. queue' \in Seq(Requests) /\ pending' \in BOOLEAN /\ missed' \in BOOLEAN
    BY EventTyped DEF Read
  <2>. QED BY <1>1, <1>2, <1>7, <2>1 DEF WorkTypes
<1>10. FullIsEdited' = FullIsEdited BY <1>1 DEF FullIsEdited
<1>11. TaskInv' BY <1>1, <1>10 DEF TaskInv, FullFits
<1>12. KnowsTask'
  <2>1. FullFits(job.seen)' BY <1>2, <1>5, <1>7, <1>10 DEF FullFits
  <2>2. tasks' = tasks /\ job'.ref = job.ref /\ job'.seen = v /\ job'.at = "plan"
        /\ job'.action = job.action /\ job'.clicked = job.clicked
    BY <1>1, <1>2, <1>7
  <2>3. job.action = "start" => job.ref = job.clicked BY <1>1, <1>3 DEF KnowsTask
  <2>. QED BY <1>4, <1>6, <2>1, <2>2, <2>3 DEF KnowsTask
<1>13. KnowsPlan' /\ KnowsPointer' BY <1>1, <1>2, <1>3, <1>7 DEF KnowsPlan, KnowsPointer
<1>. QED BY <1>1, <1>2, <1>7, <1>8, <1>9, <1>11, <1>12, <1>13 DEF JobInv

\* A step that goes on, leaving tasks and edits alone, keeps what it knows
LEMMA GoesOn ==
  ASSUME WorkInv, job' \in Jobs, job' # NoJob, KnowsTask', KnowsPlan', KnowsPointer',
         UNCHANGED <<tasks, uiVars, outbox, workSpent>>, stale' \subseteq Task,
         pointer' \in Task \cup {Nothing}, queue' \in Seq(Requests),
         pending' \in BOOLEAN, missed' \in BOOLEAN,
         amiss' \in [Task -> SUBSET Reasons]
  PROVE  WorkInv'
<1> USE DEF WorkInv
<1>1. WorkTypes' BY DEF WorkTypes, uiVars
<1>2. FullIsEdited' = FullIsEdited BY DEF FullIsEdited
<1>3. TaskInv' BY <1>2 DEF TaskInv, FullFits
<1>. QED BY <1>1, <1>3 DEF JobInv

LEMMA PlanKeeps ==
  ASSUME WorkInv, Plan
  PROVE  /\ WorkInv' /\ JobAt("plan")
         /\ job' = NoJob \/ job'.at \in {"release", "write"}
<1> USE DEF WorkInv
<1>1. /\ JobAt("plan") /\ job # NoJob /\ job.at = "plan"
      /\ UNCHANGED <<tasks, stale, pointer, selected, shown, queue, outbox, amiss, missed,
                     workSpent>>
  BY DEF Plan, taskVars, uiVars, history, JobAt
<1>2. job \in Jobs /\ KnowsTask /\ KnowsPlan /\ KnowsPointer
  BY <1>1, JobFacts DEF JobInv
<1>3. FullIsEdited' = FullIsEdited BY <1>1 DEF FullIsEdited
<1>4. /\ job.ref \in Task /\ job.seen \in Views /\ job.seen.log = tasks[job.ref].log
      /\ OpenSessions(job.seen) \subseteq {Len(job.seen.log)}
  BY <1>1, <1>2 DEF KnowsTask, TaskInv, OpenSessions
<1>5. CASE Done
  BY <1>1, <1>5, DoneTyped, OverKeeps DEF WorkTypes, uiVars
<1>6. CASE job.action # "start" /\ GoOn("release") /\ pending' = pending
  <2>1. "release" \in Steps BY DEF Steps
  <2>2. /\ job' \in Jobs /\ job' # NoJob /\ job'.at = "release"
        /\ job'.action = job.action /\ job'.clicked = job.clicked /\ job'.ref = job.ref
        /\ job'.seen = job.seen /\ job'.raced = job.raced /\ job'.touched = job.touched
    BY <1>1, <1>6, <2>1, GotoFacts
  <2>3. KnowsTask' BY <1>1, <1>2, <2>2 DEF KnowsTask
  <2>4. KnowsPlan' BY <2>2 DEF KnowsPlan
  <2>5. KnowsPointer' BY <1>1, <1>2, <1>6, <2>2 DEF KnowsPointer
  <2>. QED BY <1>1, <1>6, <2>2, <2>3, <2>4, <2>5, GoesOn DEF WorkTypes, uiVars
<1>7. CASE /\ job.action \in Ending \cup {"start"}
           /\ Permits(job.action, job.seen, job.ref)
           /\ GoOn("write") /\ pending' = pending
  <2>1. "write" \in Steps BY DEF Steps
  <2>2. /\ job' \in Jobs /\ job' # NoJob /\ job'.at = "write"
        /\ job'.action = job.action /\ job'.clicked = job.clicked /\ job'.ref = job.ref
        /\ job'.seen = job.seen /\ job'.raced = job.raced /\ job'.touched = job.touched
    BY <1>1, <1>7, <2>1, GotoFacts
  <2>3. KnowsTask'
    <3>1. FullFits(job.seen)' BY <1>1, <1>2, <1>3, <2>2 DEF KnowsTask, FullFits
    <3>. QED BY <1>1, <1>2, <2>2, <3>1 DEF KnowsTask
  <2>4. KnowsPlan'
    <3>1. Fits(job.action, job.seen) BY <1>4, <1>7 DEF Permits, Fits
    <3>2. job.action \in Acting BY <1>7 DEF Acting
    <3>. QED BY <2>2, <3>1, <3>2 DEF KnowsPlan
  <2>5. KnowsPointer' BY <1>1, <1>2, <1>7, <2>2 DEF KnowsPointer, Permits
  <2>. QED BY <1>1, <1>7, <2>2, <2>3, <2>4, <2>5, GoesOn DEF WorkTypes, uiVars
<1>. QED BY <1>1, <1>5, <1>6, <1>7, DoneTyped DEF Plan

LEMMA ReleaseKeeps ==
  ASSUME WorkInv, ReleaseTask
  PROVE  WorkInv' /\ JobAt("release") /\ job.ref \in Task /\ pointer = job.ref /\ job' = NoJob
<1> USE DEF WorkInv
<1>1. /\ JobAt("release") /\ job # NoJob /\ job.at = "release"
      /\ UNCHANGED <<tasks, stale, selected, shown, queue, outbox, missed, workSpent>>
      /\ Done /\ pointer' = Nothing
  BY DEF ReleaseTask, taskVars, uiVars, JobAt
<1>2. job.ref \in Task /\ pointer = job.ref
  BY <1>1 DEF JobInv, KnowsTask, KnowsPointer
<1>3. amiss' \in [Task -> SUBSET Reasons]
  <2>1. "finished" \in Reasons BY DEF Reasons
  <2>. QED BY <1>2, <2>1, ReasonsTyped DEF ReleaseTask, WorkTypes
<1>. QED BY <1>1, <1>2, <1>3, DoneTyped, OverKeeps DEF WorkTypes, uiVars

\* What a write makes of the Task
LEMMA PlannedFacts ==
  ASSUME WorkInv, job # NoJob, job.at \in {"write", "verify", "commit", "queue"}
  PROVE  /\ job.ref \in Task /\ job.seen \in Views
         /\ job.action \in Acting /\ Fits(job.action, job.seen)
         /\ Expected(job.action, job.seen) \in Views
         /\ job.action = "start" \/ job.action \in Ending
         /\ OpenSessions(Expected(job.action, job.seen)) \subseteq
               {Len(Expected(job.action, job.seen).log)}
         /\ OpenSessions(Expected(job.action, job.seen)) # {} <=> job.action = "start"
<1> USE DEF WorkInv
<1>1. /\ job.ref \in Task /\ job.seen \in Views
      /\ job.action \in Acting /\ Fits(job.action, job.seen)
  BY DEF JobInv, KnowsTask, KnowsPlan
<1>2. job.action = "start" \/ job.action \in Ending BY <1>1 DEF Acting
<1>3. CASE job.action = "start"
  BY <1>1, <1>3, StartExpected
<1>4. CASE job.action \in Ending
  <2>1. job.action # "start" BY <1>4 DEF Ending
  <2>. QED BY <1>1, <1>4, <2>1, EndExpected
<1>. QED BY <1>1, <1>2, <1>3, <1>4

\* A written Task: what was planned, as the mail program's item holds it
LEMMA WrittenFacts ==
  ASSUME WorkInv, JobAt("write"), workSpent'.edits = workSpent.edits,
         tasks' = [tasks EXCEPT ![job.ref] = Converted(Expected(job.action, job.seen))]
  PROVE  /\ tasks' \in [Task -> Views] /\ TaskInv'
         /\ tasks'[job.ref] = Converted(Expected(job.action, job.seen))
         /\ tasks'[job.ref].log = Expected(job.action, job.seen).log
         /\ \A t \in Task \ {job.ref} : tasks'[t] = tasks[t]
         /\ \A i \in DOMAIN tasks[job.ref].log :
               /\ i \in DOMAIN tasks'[job.ref].log
               /\ tasks[job.ref].log[i].result # Nothing =>
                     tasks'[job.ref].log[i] = tasks[job.ref].log[i]
<1> USE DEF WorkInv
<1> DEFINE v == job.seen
           e == Expected(job.action, job.seen)
           c == Converted(e)
           r == job.ref
<1>1. job # NoJob /\ job.at = "write" BY DEF JobAt
<1>2. /\ r \in Task /\ v \in Views /\ Fits(job.action, v) /\ e \in Views
      /\ job.action = "start" \/ job.action \in Ending
      /\ OpenSessions(e) \subseteq {Len(e.log)}
      /\ OpenSessions(e) # {} <=> job.action = "start"
  BY <1>1, PlannedFacts
<1>3. v.log = tasks[r].log BY <1>1 DEF JobInv, KnowsTask
<1>4. \A i \in DOMAIN v.log : v.log[i].percent < 100 BY <1>2, <1>3 DEF TaskInv
<1>5. /\ c \in Views /\ c.log = e.log /\ c.percent = e.percent
      /\ OpenSessions(c) = OpenSessions(e)
  BY <1>2, ConvertedFacts
<1>6. /\ tasks' \in [Task -> Views] /\ tasks'[r] = c
      /\ \A t \in Task \ {r} : tasks'[t] = tasks[t]
  BY <1>2, <1>5 DEF WorkTypes
<1>7. /\ \A i \in DOMAIN e.log : e.log[i].percent < 100
      /\ \A i \in DOMAIN v.log : i \in DOMAIN e.log
                                 /\ (v.log[i].result # Nothing => e.log[i] = v.log[i])
      /\ job.action = "start" => e.percent < 100
  <2>1. CASE job.action = "start"
    <3>1. /\ e.percent = v.percent /\ DOMAIN v.log \subseteq DOMAIN e.log
          /\ \A i \in DOMAIN v.log : e.log[i] = v.log[i]
          /\ \A i \in DOMAIN e.log \ DOMAIN v.log : e.log[i].percent = v.percent
      BY <1>2, <2>1, StartExpected
    <3>2. v.percent < 100 BY <1>2, <2>1 DEF Fits
    <3> HIDE DEF e, v
    <3>. QED BY <1>4, <3>1, <3>2
  <2>2. CASE job.action \in Ending
    <3>1. /\ DOMAIN e.log = DOMAIN v.log /\ Len(v.log) \in DOMAIN v.log
          /\ \A i \in DOMAIN v.log : i # Len(v.log) => e.log[i] = v.log[i]
          /\ v.log[Len(v.log)].result = Nothing
          /\ e.log[Len(v.log)].percent = v.log[Len(v.log)].percent
      BY <1>2, <2>2, EndExpected
    <3>2. job.action # "start" BY <2>2 DEF Ending
    <3> HIDE DEF e, v
    <3>. QED BY <1>4, <3>1, <3>2
  <2>. QED BY <1>2, <2>1, <2>2
<1> HIDE DEF e, c, v
<1>8. FullIsEdited' = FullIsEdited BY DEF FullIsEdited
<1>9. TaskInv'
  <2>. SUFFICES ASSUME NEW t \in Task
                PROVE  /\ OpenSessions(tasks'[t]) \subseteq {Len(tasks'[t].log)}
                       /\ \A i \in DOMAIN tasks'[t].log : tasks'[t].log[i].percent < 100
                       /\ FullFits(tasks[t])'
    BY DEF TaskInv
  <2>1. CASE t = r
    <3>1. FullFits(tasks[t])'
      <4>1. OpenSessions(c) # {} => c.percent < 100 BY <1>2, <1>5, <1>7
      <4>2. c.percent = 100 => ~ (c.percent < 100) OBVIOUS
      <4>. QED BY <1>6, <2>1, <4>1, <4>2 DEF FullFits
    <3>. QED BY <1>2, <1>5, <1>6, <1>7, <2>1, <3>1
  <2>2. CASE t # r
    BY <1>6, <1>8, <2>2 DEF TaskInv, FullFits
  <2>. QED BY <2>1, <2>2
<1>. QED BY <1>3, <1>5, <1>6, <1>7, <1>9 DEF c, e

LEMMA WriteKeeps ==
  ASSUME WorkInv, Write
  PROVE  /\ WorkInv' /\ JobAt("write")
         /\ job' # NoJob /\ job'.at = "verify" /\ job'.ref = job.ref
<1> USE DEF WorkInv
<1>1. /\ JobAt("write") /\ job # NoJob /\ job.at = "write" /\ GoOn("verify") /\ Event
      /\ tasks' = [tasks EXCEPT ![job.ref] = Converted(Expected(job.action, job.seen))]
      /\ UNCHANGED <<stale, pointer, selected, shown, outbox, amiss, workSpent>>
  BY DEF Write, uiVars, JobAt
<1>2. /\ tasks' \in [Task -> Views] /\ TaskInv'
      /\ tasks'[job.ref] = Converted(Expected(job.action, job.seen))
      /\ tasks'[job.ref].log = Expected(job.action, job.seen).log
  BY <1>1, WrittenFacts
<1>3. "verify" \in Steps BY DEF Steps
<1>4. /\ job' \in Jobs /\ job' # NoJob /\ job'.at = "verify"
      /\ job'.action = job.action /\ job'.clicked = job.clicked /\ job'.ref = job.ref
      /\ job'.seen = job.seen /\ job'.raced = job.raced /\ job'.touched = job.touched
  BY <1>1, <1>3, GotoFacts
<1>5. KnowsTask /\ KnowsPlan /\ KnowsPointer BY <1>1 DEF JobInv
<1>6. KnowsTask'
  <2>1. FullFits(job.seen)'
    BY <1>1, <1>4, <1>5 DEF KnowsTask, FullFits, FullIsEdited
  <2>. QED BY <1>1, <1>4, <1>5, <2>1 DEF KnowsTask
<1>7. KnowsPlan' BY <1>1, <1>2, <1>4, <1>5 DEF KnowsPlan
<1>8. KnowsPointer' BY <1>1, <1>4, <1>5 DEF KnowsPointer
<1>9. WorkTypes'
  <2>1. queue' \in Seq(Requests) /\ pending' \in BOOLEAN /\ missed' \in BOOLEAN
    BY <1>1, EventTyped
  <2>. QED BY <1>1, <1>2, <1>4, <2>1 DEF WorkTypes
<1>. QED BY <1>1, <1>2, <1>4, <1>6, <1>7, <1>8, <1>9 DEF JobInv

LEMMA RefusedKeeps == ASSUME WorkInv, Refused PROVE WorkInv' /\ JobAt("write") /\ job' = NoJob
<1>1. /\ JobAt("write") /\ Done
      /\ UNCHANGED <<tasks, stale, pointer, selected, shown, queue, outbox, amiss, missed,
                     workSpent>>
  BY DEF Refused, taskVars, uiVars, history
<1>. QED BY <1>1, DoneTyped, OverKeeps DEF WorkInv, WorkTypes, uiVars

LEMMA VerifyKeeps ==
  ASSUME WorkInv, Verify
  PROVE  /\ WorkInv' /\ JobAt("verify") /\ job.ref \in Task
         /\ \/ Verified /\ amiss' = amiss /\ job' # NoJob /\ job'.at = "commit"
                        /\ job'.ref = job.ref
            \/ ~ Verified /\ job' = NoJob
<1> USE DEF WorkInv
<1>1. /\ JobAt("verify") /\ job # NoJob /\ job.at = "verify" /\ stale' \subseteq Task
      /\ UNCHANGED <<tasks, pointer, selected, shown, outbox, workSpent>>
      /\ Event \/ NoEvent
  BY DEF Verify, uiVars, JobAt, WorkTypes
<1>2. queue' \in Seq(Requests) /\ pending' \in BOOLEAN /\ missed' \in BOOLEAN
  BY <1>1, EventTyped
<1>3. KnowsTask /\ KnowsPlan /\ KnowsPointer BY <1>1 DEF JobInv
<1>4. job.ref \in Task BY <1>1, <1>3 DEF KnowsTask
<1>5. CASE Verified
  <2>1. GoOn("commit") /\ amiss' = amiss BY <1>5 DEF Verify
  <2>2. "commit" \in Steps BY DEF Steps
  <2>3. /\ job' \in Jobs /\ job' # NoJob /\ job'.at = "commit"
        /\ job'.action = job.action /\ job'.clicked = job.clicked /\ job'.ref = job.ref
        /\ job'.seen = job.seen /\ job'.raced = job.raced /\ job'.touched = job.touched
    BY <1>1, <2>1, <2>2, GotoFacts
  <2>4. KnowsTask' BY <1>1, <1>3, <2>3 DEF KnowsTask
  <2>5. KnowsPlan' BY <1>1, <1>3, <2>3 DEF KnowsPlan
  <2>6. KnowsPointer' BY <1>1, <1>3, <2>3 DEF KnowsPointer
  <2>7. WorkInv' BY <1>1, <1>2, <2>1, <2>3, <2>4, <2>5, <2>6, GoesOn DEF WorkTypes, uiVars
  <2>. QED BY <1>1, <1>4, <1>5, <2>1, <2>3, <2>7
<1>6. CASE ~ Verified
  <2>1. job' = NoJob /\ \E x \in Reasons : amiss' = [amiss EXCEPT ![job.ref] = @ \cup {x}]
    <3>1. (IF job.touched THEN "edited" ELSE "converted") \in Reasons BY DEF Reasons
    <3>. QED BY <1>6, <3>1 DEF Verify
  <2>2. amiss' \in [Task -> SUBSET Reasons] BY <1>4, <2>1, ReasonsTyped
  <2>. QED BY <1>1, <1>2, <1>4, <1>6, <2>1, <2>2, OverKeeps DEF WorkTypes, uiVars
<1>. QED BY <1>5, <1>6

LEMMA CommitKeeps ==
  ASSUME WorkInv, Commit
  PROVE  /\ WorkInv' /\ JobAt("commit") /\ job.ref \in Task
         /\ job' = NoJob \/ job'.at = "queue"
         /\ OpenSessions(tasks[job.ref]) # {} <=> job.action = "start"
         /\ job.action = "start" => pointer = Nothing /\ job.ref = job.clicked
         /\ job.action # "start" => pointer = job.ref
<1> USE DEF WorkInv
<1>1. /\ JobAt("commit") /\ job # NoJob /\ job.at = "commit"
      /\ pointer' = IF job.action = "start" THEN job.ref ELSE Nothing
      /\ UNCHANGED <<tasks, stale, selected, shown, queue, outbox, amiss, missed, workSpent>>
  BY DEF Commit, taskVars, uiVars, history, JobAt
<1>2. KnowsTask /\ KnowsPlan /\ KnowsPointer BY <1>1 DEF JobInv
<1>3. /\ job.ref \in Task
      /\ job.action = "start" \/ job.action \in Ending
      /\ OpenSessions(Expected(job.action, job.seen)) # {} <=> job.action = "start"
  BY <1>1, PlannedFacts
<1>4. tasks[job.ref].log = Expected(job.action, job.seen).log
  BY <1>1, <1>2 DEF KnowsPlan
<1>5. OpenSessions(tasks[job.ref]) = OpenSessions(Expected(job.action, job.seen))
  BY <1>4 DEF OpenSessions
<1>6. CASE job.action = "start"
  <2>1. Done BY <1>6 DEF Commit
  <2>2. job' = NoJob /\ pending' \in BOOLEAN BY <2>1, DoneTyped
  <2>3. pointer' \in Task \cup {Nothing} BY <1>1, <1>3, <1>6
  <2>4. WorkInv' BY <1>1, <2>2, <2>3, OverKeeps DEF WorkTypes, uiVars
  <2>5. pointer = Nothing /\ job.ref = job.clicked
    BY <1>1, <1>2, <1>6 DEF KnowsTask, KnowsPointer
  <2>. QED BY <1>1, <1>3, <1>5, <1>6, <2>2, <2>4, <2>5
<1>7. CASE job.action # "start"
  <2>1. GoOn("queue") /\ pending' = pending BY <1>7 DEF Commit
  <2>2. "queue" \in Steps BY DEF Steps
  <2>3. /\ job' \in Jobs /\ job' # NoJob /\ job'.at = "queue"
        /\ job'.action = job.action /\ job'.clicked = job.clicked /\ job'.ref = job.ref
        /\ job'.seen = job.seen /\ job'.raced = job.raced /\ job'.touched = job.touched
    BY <1>1, <2>1, <2>2, GotoFacts
  <2>4. KnowsTask' BY <1>1, <1>2, <2>3 DEF KnowsTask
  <2>5. KnowsPlan' BY <1>1, <1>2, <1>3, <1>7, <2>3 DEF KnowsPlan
  <2>6. KnowsPointer' BY <1>7, <2>3 DEF KnowsPointer
  <2>7. WorkInv' BY <1>1, <1>7, <2>1, <2>3, <2>4, <2>5, <2>6, GoesOn DEF WorkTypes, uiVars
  <2>8. pointer = job.ref BY <1>1, <1>2, <1>7 DEF KnowsPointer
  <2>. QED BY <1>1, <1>3, <1>5, <1>7, <2>3, <2>7, <2>8
<1>. QED BY <1>6, <1>7

\* The session handed over is the last of the Task
LEMMA QueueKeeps == ASSUME WorkInv, HandOver PROVE WorkInv' /\ JobAt("queue") /\ job' = NoJob
<1> USE DEF WorkInv
<1> DEFINE e == Expected(job.action, job.seen)
           ended == {i \in DOMAIN e.log : e.log[i].result = job.action}
           last == CHOOSE i \in ended : \A k \in ended : k <= i
<1>1. /\ JobAt("queue") /\ job # NoJob /\ job.at = "queue" /\ Done
      /\ outbox' = outbox \cup {<<job.ref, last>>}
      /\ UNCHANGED <<tasks, stale, pointer, selected, shown, queue, amiss, missed, workSpent>>
  BY DEF HandOver, taskVars, uiVars, history, JobAt
<1>2. /\ job.ref \in Task /\ job.seen \in Views /\ Fits(job.action, job.seen)
      /\ job.action \in Ending
  BY <1>1, PlannedFacts DEF JobInv, KnowsPlan
<1>3. /\ DOMAIN e.log = DOMAIN job.seen.log
      /\ Len(job.seen.log) \in DOMAIN job.seen.log
      /\ e.log[Len(job.seen.log)].result = job.action
  BY <1>2, EndExpected
<1>4. DOMAIN job.seen.log = 1..Len(job.seen.log) /\ Len(job.seen.log) \in Nat
  BY <1>2, LogTyped
<1> HIDE DEF e
<1>5. /\ Len(job.seen.log) \in ended /\ \A k \in ended : k <= Len(job.seen.log)
      /\ ended \subseteq Nat
  BY <1>3, <1>4
<1> HIDE DEF ended
<1>6. last \in Nat BY <1>5
<1> HIDE DEF last
<1>7. outbox' \subseteq (Task \X Nat) BY <1>1, <1>2, <1>6 DEF WorkTypes
<1>. QED BY <1>1, <1>7, DoneTyped, OverKeeps DEF WorkTypes, uiVars

\* What fails is counted
LEMMA FaultTyped ==
  ASSUME WorkTypes, WorkFault
  PROVE  /\ workSpent' \in Spendings
         /\ workSpent'.edits = workSpent.edits
<1>1. /\ workSpent' = [workSpent EXCEPT !.faults = @ + 1] /\ workSpent.faults < MaxWorkFaults
      /\ workSpent \in Spendings
      /\ MaxWorkFaults \in Nat
  BY AddonAssumption DEF WorkFault, WorkTypes
<1>2. workSpent.faults + 1 \in 0..MaxWorkFaults BY <1>1 DEF Spendings
<1>. QED BY <1>1, <1>2 DEF Spendings

\* A step that fails and a restart leave the Tasks and the pointer as they are
LEMMA WorkFailKeeps ==
  ASSUME WorkInv, StepFails \/ RestartMail
  PROVE  /\ WorkInv' /\ job' = NoJob /\ LeaveBetween /\ UNCHANGED <<tasks, pointer>>
         /\ workSpent'.edits = workSpent.edits /\ (Between => job.ref \in Task)
<1> USE DEF WorkInv
<1>1. /\ WorkFault /\ LeaveBetween
      /\ UNCHANGED <<tasks, stale, pointer, selected, outbox>>
  BY DEF StepFails, RestartMail, taskVars, uiVars
<1>2. job' = NoJob /\ pending' \in BOOLEAN /\ missed' \in BOOLEAN
      /\ queue' \in Seq(Requests) /\ shown' \in Task \cup {Nothing}
  <2>1. CASE StepFails
    <3>1. (missed \/ job.action = "event") \in BOOLEAN OBVIOUS
    <3>2. missed' \in BOOLEAN BY <2>1, <3>1 DEF StepFails
    <3>. QED BY <2>1, <3>2, DoneTyped DEF StepFails, WorkTypes, uiVars
  <2>2. CASE RestartMail
    <3>1. [action |-> "event", clicked |-> Nothing] \in Requests
      BY DEF Requests, Reconciling
    <3> DEFINE q == [action |-> "event", clicked |-> Nothing]
    <3>2. queue' = <<q>> BY <2>2 DEF RestartMail
    <3> HIDE DEF q
    <3>3. q \in Requests => <<q>> \in Seq(Requests) OBVIOUS
    <3>4. queue' \in Seq(Requests) BY <3>1, <3>2, <3>3 DEF q
    <3>. QED BY <2>2, <3>4 DEF RestartMail
  <2>. QED BY <2>1, <2>2
<1>3. Between => job.ref \in Task BY DEF Between, JobInv, KnowsTask
<1>4. amiss' \in [Task -> SUBSET Reasons]
  <2>1. "fault" \in Reasons BY DEF Reasons
  <2>. QED BY <1>1, <1>3, <2>1, ReasonsTyped DEF LeaveBetween, WorkTypes
<1>5. workSpent' \in Spendings
      /\ workSpent'.edits = workSpent.edits
  BY <1>1, FaultTyped
<1>6. WorkTypes' BY <1>1, <1>2, <1>4, <1>5 DEF WorkTypes
<1>7. TaskInv' BY <1>1, <1>5 DEF TaskInv, FullFits, FullIsEdited
<1>. QED BY <1>1, <1>2, <1>3, <1>5, <1>6, <1>7 DEF JobInv

\* A write that is lost has taken effect all the same
LEMMA LostKeeps ==
  ASSUME WorkInv, WriteIsLost
  PROVE  /\ WorkInv' /\ job' = NoJob /\ JobAt("write") /\ job.ref \in Task
         /\ amiss' = [amiss EXCEPT ![job.ref] = @ \cup {"fault"}]
         /\ workSpent'.edits = workSpent.edits
<1> USE DEF WorkInv
<1>1. /\ WorkFault /\ JobAt("write") /\ job # NoJob /\ job.at = "write"
      /\ job' = NoJob /\ Event
      /\ tasks' = [tasks EXCEPT ![job.ref] = Converted(Expected(job.action, job.seen))]
      /\ amiss' = [amiss EXCEPT ![job.ref] = @ \cup {"fault"}]
      /\ UNCHANGED <<stale, pointer, selected, shown, outbox>>
  BY DEF WriteIsLost, uiVars, JobAt
<1>2. workSpent' \in Spendings
      /\ workSpent'.edits = workSpent.edits
  BY <1>1, FaultTyped
<1>3. tasks' \in [Task -> Views] /\ TaskInv' BY <1>1, <1>2, WrittenFacts
<1>4. job.ref \in Task BY <1>1, PlannedFacts
<1>5. amiss' \in [Task -> SUBSET Reasons]
  <2>1. "fault" \in Reasons BY DEF Reasons
  <2>. QED BY <1>1, <1>4, <2>1, ReasonsTyped
<1>6. queue' \in Seq(Requests) /\ pending' \in BOOLEAN /\ missed' \in BOOLEAN
  BY <1>1, EventTyped
<1>7. WorkTypes' BY <1>1, <1>2, <1>3, <1>5, <1>6 DEF WorkTypes
<1>. QED BY <1>1, <1>2, <1>3, <1>4, <1>7 DEF JobInv

-----------------------------------------------------------------------------
\* The work of the add-on keeps its types, and the executor, at each await, knows
\* what it needs of its Task, its plan and the pointer (executor.js, execute).
THEOREM WorkOfAddonInvariant == WorkSpec => []WorkInv
<1>1. WorkInit => WorkInv
  <2>. SUFFICES ASSUME WorkInit PROVE WorkInv OBVIOUS
  <2>1. PICK s \in [Task -> InitialTasks] :
           tasks = [t \in Task |-> [status |-> s[t].status, percent |-> s[t].percent,
                                    log |-> <<>>]]
    BY DEF WorkInit
  <2>2. \A t \in Task : s[t] \in States BY AddonAssumption
  <2>3. tasks \in [Task -> Views]
    <3>1. ASSUME NEW t \in Task PROVE tasks[t] \in Views
      <4>1. tasks[t] = [status |-> s[t].status, percent |-> s[t].percent, log |-> <<>>]
        BY <2>1
      <4>2. s[t].status \in Statuses /\ s[t].percent \in 0..100 BY <2>2 DEF States
      <4>. QED BY <4>1, <4>2 DEF Views
    <3>. QED BY <2>1, <3>1
  <2>4. \A t \in Task : tasks[t].log = <<>> BY <2>1
  <2>5. TaskInv BY <2>4 DEF TaskInv, OpenSessions, FullFits
  <2>6. WorkTypes
    <3>1. amiss \in [Task -> SUBSET Reasons] BY DEF WorkInit
    <3>2. workSpent \in Spendings
      BY AddonAssumption DEF WorkInit, Spendings
    <3>3. queue \in Seq(Requests) /\ outbox \subseteq (Task \X Nat) BY DEF WorkInit
    <3>. QED BY <2>3, <3>1, <3>2, <3>3 DEF WorkInit, WorkTypes
  <2>. QED BY <2>5, <2>6 DEF WorkInv, JobInv, WorkInit
<1>2. WorkInv /\ [WorkNext]_workVars => WorkInv'
  <2>. SUFFICES ASSUME WorkInv, [WorkNext]_workVars PROVE WorkInv' OBVIOUS
  <2>1. CASE Executor
    BY <2>1, TakeKeeps, ResolveKeeps, ReadKeeps, PlanKeeps, ReleaseKeeps, WriteKeeps,
       RefusedKeeps, VerifyKeeps, CommitKeeps, QueueKeeps DEF Executor
  <2>2. CASE \E t \in Task : EditNatively(t) \/ EditElsewhere(t) \/ Refresh(t)
    BY <2>2, EditsKeep, RefreshKeeps DEF EditOf
  <2>3. CASE (\E s \in Task \cup {Nothing} : Select(s)) \/ Render \/ ClickStart \/ AskOnPage
             \/ UNCHANGED workVars
    BY <2>3, PersonKeeps
  <2>4. CASE StepFails \/ WriteIsLost \/ RestartMail BY <2>4, WorkFailKeeps, LostKeeps
  <2>. QED BY <2>1, <2>2, <2>3, <2>4 DEF WorkNext
<1>. QED BY <1>1, <1>2, PTL DEF WorkSpec
\* The types, as AddonWork states them (executor.js, storage.js).
THEOREM TypesOfAddonWork == WorkSpec => []TypeOK
<1>1. WorkInv => TypeOK
  <2>. SUFFICES ASSUME WorkTypes PROVE TypeOK BY DEF WorkInv
  <2>1. job = NoJob \/ /\ job.action \in {"start"} \cup Ending \cup Reconciling
                       /\ job.at \in Steps /\ job.ref \in Task \cup {Nothing}
                       /\ job.seen \in Views \cup {Nothing}
                       /\ {job.raced, job.touched} \subseteq BOOLEAN
    BY DEF WorkTypes, Jobs, Acting
  <2>. QED BY <2>1 DEF WorkTypes, TypeOK, Spendings
<1>. QED BY <1>1, WorkOfAddonInvariant, PTL

\* Only a write changes a Task without counting as an edit, and what it
\* overwrites is what was read unless an edit in the mail program came between
THEOREM AddonWritesAreInformed == WorkSpec => WritesAreInformed
<1> DEFINE A == \A t \in Task :
                  job # NoJob /\ job.at = "write" /\ tasks'[t] # tasks[t]
                     /\ workSpent'.edits = workSpent.edits
                  => /\ job.ref = t /\ job.seen.status \notin Ended
                     /\ tasks[t] = job.seen \/ job.raced
<1>1. WorkInv /\ [WorkNext]_workVars => A
  <2>. SUFFICES ASSUME WorkInv, [WorkNext]_workVars, NEW t \in Task,
                       job # NoJob, job.at = "write", tasks'[t] # tasks[t],
                       workSpent'.edits = workSpent.edits
                PROVE  /\ job.ref = t /\ job.seen.status \notin Ended
                       /\ tasks[t] = job.seen \/ job.raced
    OBVIOUS
  <2>1. ~ \E u \in Task : EditNatively(u) \/ EditElsewhere(u)
    <3>. SUFFICES ASSUME CountEdit PROVE FALSE BY DEF EditNatively, EditElsewhere
    <3>1. workSpent'.edits = workSpent.edits + 1 /\ workSpent.edits \in Nat
      BY AddonAssumption DEF CountEdit, WorkInv, WorkTypes, Spendings
    <3>. QED BY <3>1
  <2>2. Write \/ WriteIsLost
    <3>1. ~ \E u \in Task : Refresh(u) BY DEF Refresh
    <3>2. ~ ((\E s \in Task \cup {Nothing} : Select(s)) \/ Render \/ ClickStart
             \/ AskOnPage \/ UNCHANGED workVars)
      BY PersonKeeps
    <3>3. ~ (StepFails \/ RestartMail) BY WorkFailKeeps
    <3>4. ~ (Take \/ Resolve \/ Read \/ Plan \/ ReleaseTask \/ Refused \/ Verify \/ Commit
             \/ HandOver)
      BY DEF Take, Resolve, Read, Plan, ReleaseTask, Refused, Verify, Commit, HandOver,
             taskVars
    <3>. QED BY <2>1, <3>1, <3>2, <3>3, <3>4 DEF WorkNext, Executor
  <2>3. /\ job.ref \notin stale
        /\ tasks' = [tasks EXCEPT ![job.ref] = Converted(Expected(job.action, job.seen))]
    BY <2>2 DEF Write, WriteIsLost
  <2>4. KnowsTask /\ KnowsPlan BY DEF WorkInv, JobInv
  <2>5. job.ref = t BY <2>3 DEF WorkInv, WorkTypes
  <2>6. job.seen.status \notin Ended BY <2>4 DEF KnowsPlan, Fits, Finished, Ended
  <2>. QED BY <2>3, <2>4, <2>5, <2>6 DEF KnowsTask
<1>2. WorkSpec => [][A]_workVars BY <1>1, WorkOfAddonInvariant, PTL DEF WorkSpec
<1>. QED BY <1>2 DEF WritesAreInformed

\* Only the second write of a start sets the pointer, to the Task that was
\* resolved, which is the one clicked
THEOREM AddonStartsTheClicked == WorkSpec => StartIsForTheClicked
<1> DEFINE A == pointer' # pointer /\ pointer' # Nothing => pointer' = job.clicked
<1>1. WorkInv /\ [WorkNext]_workVars => A
  <2>. SUFFICES ASSUME WorkInv, [WorkNext]_workVars, pointer' # pointer, pointer' # Nothing
                PROVE  pointer' = job.clicked
    OBVIOUS
  <2>1. Commit
    <3>1. ~ \E u \in Task : EditNatively(u) \/ EditElsewhere(u) \/ Refresh(u)
      BY DEF Refresh, EditNatively, EditElsewhere
    <3>2. ~ ((\E s \in Task \cup {Nothing} : Select(s)) \/ Render \/ ClickStart
             \/ AskOnPage \/ UNCHANGED workVars)
      BY PersonKeeps
    <3>3. ~ (StepFails \/ RestartMail \/ WriteIsLost)
      BY DEF StepFails, RestartMail, WriteIsLost
    <3>4. ~ (Take \/ Resolve \/ Read \/ Plan \/ ReleaseTask \/ Write \/ Refused \/ Verify
             \/ HandOver)
      BY DEF Take, Resolve, Read, Plan, ReleaseTask, Write, Refused, Verify, HandOver
    <3>. QED BY <3>1, <3>2, <3>3, <3>4 DEF WorkNext, Executor
  <2>2. job.action = "start" /\ pointer' = job.ref BY <2>1 DEF Commit
  <2>. QED BY <2>1, <2>2, CommitKeeps
<1>2. WorkSpec => [][A]_workVars BY <1>1, WorkOfAddonInvariant, PTL DEF WorkSpec
<1>. QED BY <1>2 DEF StartIsForTheClicked

-----------------------------------------------------------------------------
\* What PointerFollowsSession says of one Task
Agrees(t) ==
    amiss[t] = {} => \/ Between /\ job.ref = t
                     \/ (pointer = t) <=> (OpenSessions(tasks[t]) # {})
Tells(s) == \/ s.result = "stop" /\ s.status = "" /\ s.percent > 0
            \/ s.result = "cancel" /\ FullIsEdited
Explained(t) ==
    "converted" \in amiss[t] => \E i \in DOMAIN tasks[t].log : Tells(tasks[t].log[i])

\* Steps that leave the sessions, the pointer and the reasons alone, and do not
\* end or begin the gap between the two writes
LEMMA CalmAgrees ==
  ASSUME WorkInv, NEW t \in Task, Agrees(t),
         tasks'[t].log = tasks[t].log, pointer' = pointer, amiss'[t] = amiss[t],
         Between /\ job.ref = t => Between' /\ job'.ref = t
  PROVE  Agrees(t)'
<1>1. OpenSessions(tasks'[t]) = OpenSessions(tasks[t]) BY DEF OpenSessions
<1>. QED BY <1>1 DEF Agrees

\* A closed session stays, and so does what it explains
LEMMA StaysExplained ==
  ASSUME WorkInv, NEW t \in Task, Explained(t),
         "converted" \in amiss'[t] => "converted" \in amiss[t],
         FullIsEdited => FullIsEdited',
         \A i \in DOMAIN tasks[t].log :
            /\ i \in DOMAIN tasks'[t].log
            /\ tasks[t].log[i].result # Nothing => tasks'[t].log[i] = tasks[t].log[i]
  PROVE  Explained(t)'
<1>. SUFFICES ASSUME "converted" \in amiss'[t]
              PROVE  \E i \in DOMAIN tasks'[t].log : Tells(tasks[t].log[i])'
  BY DEF Explained
<1>1. PICK i \in DOMAIN tasks[t].log : Tells(tasks[t].log[i]) BY DEF Explained
<1>2. tasks[t].log[i].result # Nothing BY <1>1, AddonAssumption DEF Tells, Ending
<1>3. i \in DOMAIN tasks'[t].log /\ tasks'[t].log[i] = tasks[t].log[i] BY <1>2
<1>4. Tells(tasks[t].log[i])' BY <1>1, <1>3 DEF Tells
<1>. QED BY <1>3, <1>4

\* Edits and refreshes
LEMMA OutsideAgrees ==
  ASSUME WorkInv, NEW u \in Task, EditOf(u) \/ Refresh(u),
         NEW t \in Task, Agrees(t), Explained(t)
  PROVE  Agrees(t)' /\ Explained(t)'
<1>1. pointer' = pointer /\ amiss' = amiss
  BY DEF EditOf, EditNatively, EditElsewhere, Refresh, history
<1>2. tasks'[t].log = tasks[t].log
  BY EditFacts DEF EditOf, EditNatively, EditElsewhere, Refresh, WorkInv
<1>3. Between /\ job.ref = t => Between' /\ job'.ref = t
  BY EditsKeep, RefreshKeeps DEF Between
<1>4. FullIsEdited => FullIsEdited'
  <2>1. workSpent.edits \in Nat BY AddonAssumption DEF WorkInv, WorkTypes, Spendings
  <2>2. workSpent'.edits = workSpent.edits + 1 \/ workSpent' = workSpent
    BY AddonAssumption
       DEF EditOf, EditNatively, EditElsewhere, Refresh, CountEdit, WorkInv, WorkTypes,
           Spendings
  <2>. QED BY <2>1, <2>2, FullIsFull
<1>5. Agrees(t)' BY <1>1, <1>2, <1>3, CalmAgrees
<1>6. Explained(t)' BY <1>1, <1>2, <1>4, StaysExplained
<1>. QED BY <1>5, <1>6

\* A read-back that differs although nobody edited the Task: the state could not
\* be stored as it was planned
LEMMA ConvertedIsExplained ==
  ASSUME WorkInv, Verify, ~ Verified, ~ job.touched
  PROVE  \E i \in DOMAIN tasks[job.ref].log : Tells(tasks[job.ref].log[i])
<1> DEFINE v == job.seen
           a == job.action
           e == Expected(a, v)
           n == Len(v.log)
<1>1. job # NoJob /\ job.at = "verify" BY DEF Verify, JobAt
<1>2. KnowsTask /\ KnowsPlan BY <1>1 DEF WorkInv, JobInv
<1>3. /\ job.ref \in Task /\ v \in Views /\ Fits(a, v) /\ e \in Views
      /\ a = "start" \/ a \in Ending
  BY <1>1, PlannedFacts
<1>4. tasks[job.ref].log = e.log /\ tasks[job.ref] = Converted(e)
  BY <1>1, <1>2 DEF KnowsPlan
<1>5. Converted(e) # e BY <1>4 DEF Verified
<1>6. /\ \/ e.percent = 100 /\ e.status # "COMPLETED"
         \/ e.percent \in 1..99 /\ e.status = ""
      /\ v.percent \in 0..100 /\ e.percent \in 0..100
  BY <1>3, <1>5, ConvertedFacts DEF Views
<1>7. /\ \A i \in DOMAIN tasks[job.ref].log : tasks[job.ref].log[i].percent < 100
      /\ FullFits(v)
  BY <1>1, <1>2, <1>3 DEF WorkInv, TaskInv, KnowsTask
<1>8. a # "start"
  <2>. SUFFICES ASSUME a = "start" PROVE FALSE OBVIOUS
  <2>1. e.status = "IN-PROCESS" /\ e.percent = v.percent BY <1>3, StartExpected
  <2>2. v.percent < 100 BY <1>3 DEF Fits
  <2> HIDE DEF e, v
  <2>. QED BY <1>6, <2>1, <2>2
<1>9. /\ n \in DOMAIN e.log /\ e.log[n].result = a
      /\ e.log[n].status = v.log[n].status /\ e.log[n].percent = v.log[n].percent
      /\ a = "stop" => e.status = v.log[n].status /\ e.percent = v.log[n].percent
      /\ a = "complete" => e.status = "COMPLETED"
      /\ a = "cancel" => e.status = "CANCELLED" /\ e.percent = v.percent
  <2>1. a \in Ending BY <1>3, <1>8
  <2>2. /\ n \in DOMAIN v.log /\ DOMAIN e.log = DOMAIN v.log /\ e.log[n].result = a
        /\ e.log[n].status = v.log[n].status /\ e.log[n].percent = v.log[n].percent
    BY <1>3, <2>1, EndExpected
  <2>3. /\ a = "stop" => e.status = v.log[n].status /\ e.percent = v.log[n].percent
        /\ a = "complete" => e.status = "COMPLETED"
        /\ a = "cancel" => e.status = "CANCELLED" /\ e.percent = v.percent
    BY <1>3, <2>1, EndExpected
  <2> HIDE DEF e, v, n, a
  <2>. QED BY <2>2, <2>3
<1>10. e.log[n].percent < 100 BY <1>4, <1>7, <1>9
<1>11. OpenSessions(v) # {} /\ ~ Finished(v) BY <1>3, <1>8 DEF Fits
<1>12. a \in {"stop", "complete", "cancel"} BY <1>3, <1>8 DEF Ending
<1> HIDE DEF e, v, n, a
<1>13. Tells(e.log[n])
  <2>1. CASE a = "stop"
    <3>1. e.status = e.log[n].status /\ e.percent = e.log[n].percent BY <1>9, <2>1
    <3>2. e.percent < 100 BY <1>10, <3>1
    <3>3. e.percent # 100 BY <3>2
    <3>4. e.percent \in 1..99 BY <1>6, <3>3, Zenon
    <3>5. e.percent > 0 BY <3>4
    <3>6. e.status = "" BY <1>6, <3>3, Zenon
    <3>. QED BY <1>9, <2>1, <3>1, <3>5, <3>6, Zenon DEF Tells
  <2>2. CASE a = "complete" BY <1>6, <1>9, <2>2
  <2>3. CASE a = "cancel"
    <3>1. e.percent = v.percent /\ e.status = "CANCELLED" BY <1>9, <2>3
    <3>2. v.percent = 100 BY <1>6, <3>1
    <3>. QED BY <1>7, <1>9, <1>11, <2>3, <3>2 DEF FullFits, Tells
  <2>. QED BY <1>12, <2>1, <2>2, <2>3
<1>. QED BY <1>4, <1>9, <1>13

LEMMA ExecutorAgrees ==
  ASSUME WorkInv, Executor, NEW t \in Task, Agrees(t), Explained(t)
  PROVE  Agrees(t)' /\ Explained(t)'
<1>0. Executor => workSpent' = workSpent
  BY DEF Executor, Take, Resolve, Read, Plan, ReleaseTask, Write, Refused, Verify, Commit,
         HandOver
<1>1. workSpent' = workSpent BY <1>0
<1>2. FullIsEdited' = FullIsEdited BY <1>1 DEF FullIsEdited
<1>3. ASSUME Take \/ Resolve \/ Read \/ Plan \/ Refused \/ HandOver
      PROVE  Agrees(t)' /\ Explained(t)'
  <2>1. UNCHANGED <<tasks, pointer, amiss>>
    BY <1>3 DEF Take, Resolve, Read, Plan, Refused, HandOver, taskVars, history
  <2>2. ~ Between
    BY <1>3 DEF Between, Take, Resolve, Read, Plan, Refused, HandOver, JobAt
  <2>3. Agrees(t)' BY <2>1, <2>2, CalmAgrees
  <2>. QED BY <1>2, <2>1, <2>3, StaysExplained
<1>4. ASSUME ReleaseTask PROVE Agrees(t)' /\ Explained(t)'
  <2>1. /\ UNCHANGED <<tasks>> /\ pointer' = Nothing
        /\ amiss' = IF OpenSessions(tasks[job.ref]) = {} THEN amiss
                    ELSE [amiss EXCEPT ![job.ref] = @ \cup {"finished"}]
        /\ ~ Between
    BY <1>4 DEF ReleaseTask, taskVars, Between, JobAt
  <2>2. job.ref \in Task /\ pointer = job.ref BY <1>4, ReleaseKeeps
  <2>3. amiss \in [Task -> SUBSET Reasons] BY DEF WorkInv, WorkTypes
  <2>4. /\ t # job.ref \/ OpenSessions(tasks[job.ref]) = {} => amiss'[t] = amiss[t]
        /\ t = job.ref /\ OpenSessions(tasks[job.ref]) # {} =>
              amiss'[t] = amiss[t] \cup {"finished"}
    BY <2>1, <2>2, <2>3
  <2>5. Agrees(t)'
    <3>1. CASE t = job.ref /\ OpenSessions(tasks[job.ref]) # {}
      BY <2>4, <3>1 DEF Agrees
    <3>2. CASE t = job.ref /\ OpenSessions(tasks[job.ref]) = {}
      <4>1. OpenSessions(tasks'[t]) = {} /\ pointer' # t
        BY <2>1, <3>2, AddonAssumption
      <4>. QED BY <4>1 DEF Agrees
    <3>3. CASE t # job.ref
      <4>1. pointer # t /\ pointer' # t BY <2>1, <2>2, <3>3, AddonAssumption
      <4>. QED BY <2>1, <2>4, <3>3, <4>1 DEF Agrees
    <3>. QED BY <3>1, <3>2, <3>3
  <2>6. "converted" \in amiss'[t] => "converted" \in amiss[t] BY <2>4
  <2>. QED BY <1>2, <2>1, <2>5, <2>6, StaysExplained
<1>5. ASSUME Write PROVE Agrees(t)' /\ Explained(t)'
  <2>1. /\ UNCHANGED <<pointer, amiss>> /\ JobAt("write")
        /\ tasks' = [tasks EXCEPT ![job.ref] = Converted(Expected(job.action, job.seen))]
    BY <1>5 DEF Write
  <2>2. job' # NoJob /\ job'.at = "verify" /\ job'.ref = job.ref BY <1>5, WriteKeeps
  <2>3. /\ \A u \in Task \ {job.ref} : tasks'[u] = tasks[u]
        /\ \A i \in DOMAIN tasks[job.ref].log :
              /\ i \in DOMAIN tasks'[job.ref].log
              /\ tasks[job.ref].log[i].result # Nothing =>
                    tasks'[job.ref].log[i] = tasks[job.ref].log[i]
    BY <1>1, <2>1, WrittenFacts
  <2>4. Agrees(t)'
    <3>1. CASE t = job.ref BY <2>2, <3>1 DEF Agrees, Between
    <3>2. CASE t # job.ref
      <4>1. ~ Between BY <2>1 DEF JobAt, Between
      <4>. QED BY <2>1, <2>3, <3>2, <4>1, CalmAgrees
    <3>. QED BY <3>1, <3>2
  <2>5. Explained(t)'
    <3>1. CASE t = job.ref BY <1>2, <2>1, <2>3, <3>1, StaysExplained
    <3>2. CASE t # job.ref BY <1>2, <2>1, <2>3, <3>2, StaysExplained
    <3>. QED BY <3>1, <3>2
  <2>. QED BY <2>4, <2>5
<1>6. ASSUME Verify PROVE Agrees(t)' /\ Explained(t)'
  <2>1. UNCHANGED <<tasks, pointer>> BY <1>6 DEF Verify
  <2>2. job.ref \in Task BY <1>6, VerifyKeeps
  <2>3. CASE Verified
    <3>1. amiss' = amiss /\ job' # NoJob /\ job'.at = "commit" /\ job'.ref = job.ref
      BY <1>6, <2>3, VerifyKeeps
    <3>2. Agrees(t)' BY <2>1, <3>1, CalmAgrees DEF Between
    <3>. QED BY <1>2, <2>1, <3>1, <3>2, StaysExplained
  <2>4. CASE ~ Verified
    <3> DEFINE why == IF job.touched THEN "edited" ELSE "converted"
    <3>1. amiss' = [amiss EXCEPT ![job.ref] = @ \cup {why}] BY <1>6, <2>4 DEF Verify
    <3>2. amiss \in [Task -> SUBSET Reasons] BY DEF WorkInv, WorkTypes
    <3>3. ~ job.touched \/ why # "converted" OBVIOUS
    <3> HIDE DEF why
    <3>4. /\ t # job.ref => amiss'[t] = amiss[t]
          /\ t = job.ref => amiss'[t] = amiss[t] \cup {why}
      BY <2>2, <3>1, <3>2
    <3>5. Agrees(t)'
      <4>1. CASE t = job.ref BY <3>4, <4>1 DEF Agrees
      <4>2. CASE t # job.ref BY <2>1, <3>4, <4>2, CalmAgrees
      <4>. QED BY <4>1, <4>2
    <3>6. Explained(t)'
      <4>1. CASE t # job.ref \/ why # "converted"
        BY <1>2, <2>1, <3>4, <4>1, StaysExplained
      <4>2. CASE t = job.ref /\ why = "converted"
        <5>1. \E i \in DOMAIN tasks[t].log : Tells(tasks[t].log[i])
          BY <1>6, <2>4, <3>3, <4>2, ConvertedIsExplained
        <5>. QED BY <1>2, <2>1, <5>1 DEF Explained, Tells
      <4>. QED BY <4>1, <4>2
    <3>. QED BY <3>5, <3>6
  <2>. QED BY <2>3, <2>4
<1>7. ASSUME Commit PROVE Agrees(t)' /\ Explained(t)'
  <2>1. /\ UNCHANGED <<tasks, amiss>>
        /\ pointer' = IF job.action = "start" THEN job.ref ELSE Nothing
    BY <1>7 DEF Commit, taskVars, history
  <2>2. /\ job.ref \in Task
        /\ OpenSessions(tasks[job.ref]) # {} <=> job.action = "start"
        /\ job.action = "start" => pointer = Nothing
        /\ job.action # "start" => pointer = job.ref
    BY <1>7, CommitKeeps
  <2>3. Agrees(t)'
    <3>1. CASE t = job.ref
      <4>1. (pointer' = t) <=> (OpenSessions(tasks'[t]) # {})
        BY <2>1, <2>2, <3>1, AddonAssumption
      <4>. QED BY <4>1 DEF Agrees
    <3>2. CASE t # job.ref
      <4>1. pointer # t /\ pointer' # t BY <2>1, <2>2, <3>2, AddonAssumption
      <4>. QED BY <2>1, <3>2, <4>1 DEF Agrees
    <3>. QED BY <3>1, <3>2
  <2>. QED BY <1>2, <2>1, <2>3, StaysExplained
<1>. QED BY <1>3, <1>4, <1>5, <1>6, <1>7 DEF Executor

\* Failures and restarts
LEMMA FaultAgrees ==
  ASSUME WorkInv, StepFails \/ WriteIsLost \/ RestartMail,
         NEW t \in Task, Agrees(t), Explained(t)
  PROVE  Agrees(t)' /\ Explained(t)'
<1>1. /\ workSpent'.edits = workSpent.edits /\ pointer' = pointer
      /\ amiss \in [Task -> SUBSET Reasons]
  BY WorkFailKeeps, LostKeeps DEF WriteIsLost, WorkInv, WorkTypes
<1>2. FullIsEdited' = FullIsEdited BY <1>1 DEF FullIsEdited
<1>3. ASSUME StepFails \/ RestartMail PROVE Agrees(t)' /\ Explained(t)'
  <2>1. LeaveBetween /\ tasks' = tasks /\ (Between => job.ref \in Task)
    BY <1>3, WorkFailKeeps
  <2>2. /\ Between /\ job.ref = t => amiss'[t] = amiss[t] \cup {"fault"}
        /\ ~ (Between /\ job.ref = t) => amiss'[t] = amiss[t]
    BY <1>1, <2>1 DEF LeaveBetween
  <2>3. Agrees(t)'
    <3>1. CASE Between /\ job.ref = t BY <2>2, <3>1 DEF Agrees
    <3>2. CASE ~ (Between /\ job.ref = t) BY <1>1, <2>1, <2>2, <3>2, CalmAgrees
    <3>. QED BY <3>1, <3>2
  <2>4. "converted" \in amiss'[t] => "converted" \in amiss[t] BY <2>2
  <2>. QED BY <1>2, <2>1, <2>3, <2>4, StaysExplained
<1>4. ASSUME WriteIsLost PROVE Agrees(t)' /\ Explained(t)'
  <2>1. /\ JobAt("write") /\ job.ref \in Task
        /\ amiss' = [amiss EXCEPT ![job.ref] = @ \cup {"fault"}]
        /\ tasks' = [tasks EXCEPT ![job.ref] = Converted(Expected(job.action, job.seen))]
    BY <1>4, LostKeeps DEF WriteIsLost
  <2>2. /\ \A u \in Task \ {job.ref} : tasks'[u] = tasks[u]
        /\ \A i \in DOMAIN tasks[job.ref].log :
              /\ i \in DOMAIN tasks'[job.ref].log
              /\ tasks[job.ref].log[i].result # Nothing =>
                    tasks'[job.ref].log[i] = tasks[job.ref].log[i]
    BY <1>1, <2>1, WrittenFacts
  <2>3. CASE t = job.ref
    <3>1. amiss'[t] = amiss[t] \cup {"fault"} BY <1>1, <2>1, <2>3
    <3>2. Agrees(t)' BY <3>1 DEF Agrees
    <3>. QED BY <1>2, <2>2, <2>3, <3>1, <3>2, StaysExplained
  <2>4. CASE t # job.ref
    <3>1. amiss'[t] = amiss[t] /\ tasks'[t] = tasks[t] BY <1>1, <2>1, <2>2, <2>4
    <3>2. ~ Between BY <2>1 DEF JobAt, Between
    <3>3. Agrees(t)' BY <1>1, <3>1, <3>2, CalmAgrees
    <3>. QED BY <1>2, <3>1, <3>3, StaysExplained
  <2>. QED BY <2>3, <2>4
<1>. QED BY <1>3, <1>4

\* The pointer and the sessions agree outside the gap, except for a named reason
THEOREM PointerAndSessionAgree == WorkSpec => []PointerFollowsSession
<1> DEFINE J == \A t \in Task : Agrees(t) /\ Explained(t)
<1>1. WorkInit => J
  <2>. SUFFICES ASSUME WorkInit, NEW t \in Task PROVE Agrees(t) /\ Explained(t) OBVIOUS
  <2>1. tasks[t].log = <<>> /\ pointer = Nothing /\ amiss[t] = {} BY DEF WorkInit
  <2>2. OpenSessions(tasks[t]) = {} BY <2>1 DEF OpenSessions
  <2>3. pointer # t BY <2>1, AddonAssumption
  <2>. QED BY <2>1, <2>2, <2>3 DEF Agrees, Explained
<1>2. WorkInv /\ J /\ [WorkNext]_workVars => J'
  <2>. SUFFICES ASSUME WorkInv, J, [WorkNext]_workVars, NEW t \in Task
                PROVE  Agrees(t)' /\ Explained(t)'
    OBVIOUS
  <2>1. Agrees(t) /\ Explained(t) OBVIOUS
  <2> HIDE DEF J
  <2>2. CASE Executor BY <2>1, <2>2, ExecutorAgrees
  <2>3. CASE \E u \in Task : EditNatively(u) \/ EditElsewhere(u) \/ Refresh(u)
    BY <2>1, <2>3, OutsideAgrees DEF EditOf
  <2>4. CASE (\E s \in Task \cup {Nothing} : Select(s)) \/ Render \/ ClickStart \/ AskOnPage
             \/ UNCHANGED workVars
    <3>1. UNCHANGED <<tasks, pointer, job, amiss>> /\ workSpent'.edits = workSpent.edits
      BY <2>4, PersonKeeps
    <3>2. FullIsEdited' = FullIsEdited BY <3>1 DEF FullIsEdited
    <3>3. Agrees(t)' BY <2>1, <3>1, CalmAgrees DEF Between
    <3>. QED BY <2>1, <3>1, <3>2, <3>3, StaysExplained
  <2>5. CASE StepFails \/ WriteIsLost \/ RestartMail BY <2>1, <2>5, FaultAgrees
  <2>. QED BY <2>2, <2>3, <2>4, <2>5 DEF WorkNext
<1>3. J => PointerFollowsSession
  <2>. SUFFICES ASSUME NEW t \in Task, Agrees(t), Explained(t)
                PROVE  /\ amiss[t] = {} =>
                            \/ Between /\ job.ref = t
                            \/ (pointer = t) <=> (OpenSessions(tasks[t]) # {})
                       /\ "converted" \in amiss[t] =>
                            \E i \in DOMAIN tasks[t].log :
                               \/ /\ tasks[t].log[i].result = "stop"
                                  /\ tasks[t].log[i].status = ""
                                  /\ tasks[t].log[i].percent > 0
                               \/ tasks[t].log[i].result = "cancel" /\ FullIsEdited
    BY DEF PointerFollowsSession
  <2>1. amiss[t] = {} => \/ Between /\ job.ref = t
                         \/ (pointer = t) <=> (OpenSessions(tasks[t]) # {})
    BY DEF Agrees
  <2>2. ASSUME "converted" \in amiss[t]
        PROVE  \E i \in DOMAIN tasks[t].log :
                  \/ /\ tasks[t].log[i].result = "stop"
                     /\ tasks[t].log[i].status = "" /\ tasks[t].log[i].percent > 0
                  \/ tasks[t].log[i].result = "cancel" /\ FullIsEdited
    BY <2>2 DEF Explained, Tells
  <2>. QED BY <2>1, <2>2
<1> HIDE DEF J
<1>. QED BY <1>1, <1>2, <1>3, WorkOfAddonInvariant, PTL DEF WorkSpec

=============================================================================
