------------------------------ MODULE AddonLog ------------------------------
(***************************************************************************)
(* The add-on's diary on WordPress: rows of a local Outbox, the day's      *)
(* post, and the contexts of the add-on (its background, its pages) that   *)
(* submit an entry or flush the Outbox.  One lock orders what they do to   *)
(* the post; the lists they work from are read before it.  The post is     *)
(* read, appended to and written back whole, and other programs write to   *)
(* it as well.                                                             *)
(***************************************************************************)
EXTENDS Naturals, FiniteSets, SequencesExt

CONSTANTS Item,         \* entries; the marker of an entry is the entry
          Texts,        \* those with a text
          Attached,     \* those with an attachment
          Sessions,     \* those that come from a finished work session
          Context,      \* background and pages
          MaxPosts, MaxFlushes, MaxFaults, MaxForeign,
          None

VARIABLES rows,      \* the Outbox: per entry a row or None
          made,      \* rows made so far for an entry: a row's id
          posts,     \* the posts with the day's title, each a sequence of lines
          chosen,    \* the post selected for the day, or 0
          media,     \* uploaded files: <<entry, number, post>>
          lock,      \* who holds caldav-assistant-wordpress-write
          ctx,       \* what a context is doing
          flushDue,  \* the background is about to flush
          written,   \* history: entries that were put on a post
          spent      \* [flushes, faults, foreign, resends] so far

vars == <<rows, made, posts, chosen, media, lock, ctx, flushDue, written, spent>>
web  == <<posts, chosen, media>>

ASSUME LogAssumption ==
    /\ Texts \cup Attached = Item /\ Sessions \subseteq Texts \ Attached
    /\ {MaxPosts, MaxFlushes, MaxFaults, MaxForeign} \subseteq Nat
    /\ None \notin Context

Foreign == "foreign"
File == Item \X Nat \X Nat
Row  == [id : Nat, file : BOOLEAN, saved : File \cup {None}]
ASSUME ValuesAreApart == Foreign \notin Item /\ None \notin File \cup Row

Line(i, m) == [item |-> i, file |-> m]
Idle == [at |-> "idle"]
Background == CHOOSE c \in Context : TRUE

Init ==
    /\ rows = [i \in Item |-> None] /\ made = [i \in Item |-> 0]
    /\ posts = <<>> /\ chosen = 0 /\ media = {}
    /\ lock = None /\ ctx = [c \in Context |-> Idle] /\ flushDue = FALSE
    /\ written = {}
    /\ spent = [flushes |-> 0, faults |-> 0, foreign |-> 0, resends |-> 0]

-----------------------------------------------------------------------------
(* The Outbox rows.                                                        *)

\* A new row; the file itself is in it only when it was at hand.
NewRow(i, file) == [id |-> made[i] + 1, file |-> file, saved |-> None]
Enqueue(i, file) ==
    /\ rows' = [rows EXCEPT ![i] = NewRow(i, file)]
    /\ made' = [made EXCEPT ![i] = @ + 1]

\* Mutant of QueueSession: no flush follows.
QueueOnly(i) ==
    /\ i \in Sessions /\ made[i] = 0
    /\ Enqueue(i, FALSE)
    /\ UNCHANGED <<web, lock, ctx, flushDue, written, spent>>

\* The add-on projects a verified closed session, and then flushes.
QueueSession(i) ==
    /\ i \in Sessions /\ made[i] = 0
    /\ Enqueue(i, FALSE)
    /\ flushDue' = TRUE
    /\ UNCHANGED <<web, lock, ctx, written, spent>>

-----------------------------------------------------------------------------
(* What a context begins.                                                  *)

At(c, step) == ctx[c].at = step
Goto(c, step) == ctx' = [ctx EXCEPT ![c].at = step]

\* Entries left to send; "own" is a submission, which has its file at hand.
Sending(left, own) ==
    [at |-> "next", item |-> None, left |-> left, own |-> own, row |-> None,
     post |-> 0, before |-> <<>>]

\* A submission on a page: an entry of its own.
Submit(c, i) ==
    /\ At(c, "idle") /\ i \notin Sessions
    /\ made[i] = 0 /\ \A d \in Context : ~ At(d, "idle") => ctx[d].item # i
    /\ ctx' = [ctx EXCEPT ![c] = [Sending({}, TRUE) EXCEPT !.at = "enter", !.item = i]]
    /\ UNCHANGED <<rows, made, web, lock, flushDue, written, spent>>

\* The rows to send are listed once, before the lock.
BeginFlush(c) ==
    /\ At(c, "idle")
    /\ \/ /\ flushDue /\ c = Background
          /\ flushDue' = FALSE /\ UNCHANGED spent
       \/ /\ spent.flushes < MaxFlushes
          /\ spent' = [spent EXCEPT !.flushes = @ + 1]
          /\ UNCHANGED flushDue
    /\ ctx' = [ctx EXCEPT ![c] = Sending({i \in Item : rows[i] # None}, FALSE)]
    /\ UNCHANGED <<rows, made, web, lock, written>>

\* The next listed row, in any order, or the end.
NextRow(c) ==
    /\ At(c, "next")
    /\ IF ctx[c].left = {}
       THEN ctx' = [ctx EXCEPT ![c] = Idle]
       ELSE \E i \in ctx[c].left :
               ctx' = [ctx EXCEPT ![c].item = i, ![c].left = @ \ {i},
                                  ![c].at = "enter"]
    /\ UNCHANGED <<rows, made, web, lock, flushDue, written, spent>>

\* Mutant of Enter: nobody waits.
EnterUnlocked(c) ==
    /\ At(c, "enter")
    /\ lock' = c /\ Goto(c, "row")
    /\ UNCHANGED <<rows, made, web, flushDue, written, spent>>

Enter(c) ==
    /\ At(c, "enter") /\ lock = None
    /\ lock' = c /\ Goto(c, "row")
    /\ UNCHANGED <<rows, made, web, flushDue, written, spent>>

-----------------------------------------------------------------------------
(* One entry, under the lock.                                              *)

\* The entry's row, or a new one: a flush that finds its row gone makes it
\* again, and has not got the file.
TakeRow(c) ==
    LET i == ctx[c].item IN
    /\ At(c, "row")
    /\ IF rows[i] # None
       THEN /\ ctx' = [ctx EXCEPT ![c].row = rows[i], ![c].at = "list"]
            /\ UNCHANGED <<rows, made>>
       ELSE /\ Enqueue(i, ctx[c].own /\ i \in Attached)
            /\ ctx' = [ctx EXCEPT ![c].row = rows'[i], ![c].at = "list"]
    /\ UNCHANGED <<web, lock, flushDue, written, spent>>

\* The lock is given back; a flush goes on with its next row.
Release(c) ==
    /\ lock' = None
    /\ ctx' = [ctx EXCEPT ![c] = IF @.own THEN Idle ELSE Sending(@.left, FALSE)]

\* Mutant of Fail: the row goes whatever the result was.
FailRemoves(c) == Release(c) /\ rows' = [rows EXCEPT ![ctx[c].item] = None]

\* The attempt is counted and the row stays.
Fail(c) == Release(c) /\ UNCHANGED rows

Empty(c) == ctx[c].item \notin Texts /\ ~ ctx[c].row.file

\* The posts of the day are listed: the chosen one, or the only one, or none
\* yet; several without a choice, or an entry without content, fail.
ListPosts(c) ==
    /\ At(c, "list")
    /\ \/ /\ ~ Empty(c) /\ (chosen # 0 \/ Len(posts) = 1)
          /\ ctx' = [ctx EXCEPT ![c].post = IF chosen # 0 THEN chosen ELSE 1,
                                ![c].at = "read"]
          /\ UNCHANGED <<rows, lock>>
       \/ /\ ~ Empty(c) /\ chosen = 0 /\ Len(posts) = 0
          /\ Goto(c, "create") /\ UNCHANGED <<rows, lock>>
       \/ /\ Empty(c) \/ (chosen = 0 /\ Len(posts) > 1)
          /\ Fail(c)
    /\ UNCHANGED <<made, web, flushDue, written, spent>>

CreatePost(c) ==
    /\ At(c, "create") /\ Len(posts) < MaxPosts
    /\ posts' = Append(posts, <<>>)
    /\ ctx' = [ctx EXCEPT ![c].post = Len(posts) + 1, ![c].at = "read"]
    /\ UNCHANGED <<rows, made, chosen, media, lock, flushDue, written, spent>>

Marked(lines, i) == {n \in DOMAIN lines : lines[n].item = i}

\* Mutant of Present: the marker is not looked for.
PresentNever(lines, i) == FALSE
Present(lines, i) == Marked(lines, i) # {}

\* What the row would have written is what the post has.
Same(c, lines) ==
    LET r == ctx[c].row IN
    /\ r.file <=> (r.saved # None)
    /\ \E n \in Marked(lines, ctx[c].item) :
          r.saved # None => lines[n].file = r.saved
    /\ Cardinality(Marked(lines, ctx[c].item)) = 1

\* The post is read.  An entry that is there already is done, or in conflict
\* with its row; a file that was uploaded for another post is a conflict.
ReadPost(c) ==
    LET lines == posts[ctx[c].post]
        r     == ctx[c].row
    IN
    /\ At(c, "read")
    /\ \/ /\ Present(lines, ctx[c].item)
          /\ IF Same(c, lines) THEN Goto(c, "remove") /\ UNCHANGED <<rows, lock>>
             ELSE Fail(c)
       \/ /\ ~ Present(lines, ctx[c].item)
          /\ IF r.saved # None /\ r.saved[3] # ctx[c].post THEN Fail(c)
             ELSE /\ ctx' = [ctx EXCEPT ![c].before = lines,
                                        ![c].at = IF r.file /\ r.saved = None
                                                  THEN "upload" ELSE "write"]
                  /\ UNCHANGED <<rows, lock>>
    /\ UNCHANGED <<made, web, flushDue, written, spent>>

\* The next file; WordPress numbers them, whoever has sent the request.
NewFile(c) == <<ctx[c].item, Cardinality(media) + 1, ctx[c].post>>

\* The file is uploaded, tied to the post and read back.
Upload(c) ==
    /\ At(c, "upload")
    /\ media' = media \cup {NewFile(c)}
    /\ ctx' = [ctx EXCEPT ![c].row.saved = NewFile(c), ![c].at = "save"]
    /\ UNCHANGED <<rows, made, posts, chosen, lock, flushDue, written, spent>>

\* Mutant of SaveUpload: the row does not remember the file.
SaveNothing(c) ==
    /\ At(c, "save") /\ Goto(c, "write")
    /\ UNCHANGED <<rows, made, web, lock, flushDue, written, spent>>

\* The row remembers the file before the post is written.
SaveUpload(c) ==
    LET i == ctx[c].item IN
    /\ At(c, "save")
    /\ IF rows[i] # None /\ rows[i].id = ctx[c].row.id
       THEN /\ rows' = [rows EXCEPT ![i].saved = ctx[c].row.saved]
            /\ Goto(c, "write") /\ UNCHANGED lock
       ELSE Fail(c)
    /\ UNCHANGED <<made, web, flushDue, written, spent>>

NextContent(c) == Append(ctx[c].before, Line(ctx[c].item, ctx[c].row.saved))

\* The whole content is replaced by what was read and the entry.
WritePost(c) ==
    /\ At(c, "write")
    /\ posts' = [posts EXCEPT ![ctx[c].post] = NextContent(c)]
    /\ written' = written \cup {ctx[c].item}
    /\ Goto(c, "verify")
    /\ UNCHANGED <<rows, made, chosen, media, lock, flushDue, spent>>

VerifyPost(c) ==
    /\ At(c, "verify")
    /\ IF posts[ctx[c].post] = NextContent(c)
       THEN Goto(c, "remove") /\ UNCHANGED <<rows, lock>>
       ELSE Fail(c)
    /\ UNCHANGED <<made, web, flushDue, written, spent>>

\* The row goes once the entry was read back, or was there already.
RemoveRow(c) ==
    LET i == ctx[c].item IN
    /\ At(c, "remove")
    /\ rows' = [rows EXCEPT ![i] =
                   IF @ # None /\ @.id = ctx[c].row.id THEN None ELSE @]
    /\ Release(c)
    /\ UNCHANGED <<made, web, flushDue, written, spent>>

-----------------------------------------------------------------------------
(* What fails, and who else writes.                                        *)

Uploading(c) == At(c, "upload") \/ At(c, "save")
Fault(resent) ==
    /\ spent.faults < MaxFaults
    /\ spent' = [spent EXCEPT !.faults = @ + 1,
                              !.resends = @ + (IF resent THEN 1 ELSE 0)]

\* A call to WordPress or to the storage fails before it takes effect.
CallFails(c) ==
    /\ Fault(Uploading(c))
    /\ ctx[c].at \in {"row", "list", "create", "read", "upload", "save",
                      "write", "verify", "remove"}
    /\ Fail(c)
    /\ UNCHANGED <<made, web, flushDue, written>>

\* A call takes effect and its answer is lost.
AnswerIsLost(c) ==
    /\ Fault(Uploading(c))
    /\ \/ /\ At(c, "create") /\ Len(posts) < MaxPosts
          /\ posts' = Append(posts, <<>>)
          /\ UNCHANGED <<media, written>>
       \/ /\ At(c, "upload")
          /\ media' = media \cup {NewFile(c)}
          /\ UNCHANGED <<posts, written>>
       \/ /\ At(c, "write")
          /\ posts' = [posts EXCEPT ![ctx[c].post] = NextContent(c)]
          /\ written' = written \cup {ctx[c].item}
          /\ UNCHANGED media
    /\ Fail(c)
    /\ UNCHANGED <<made, chosen, flushDue>>

\* The answer of a creation is lost and the same request is sent again, by
\* the other transport or on a connection of its own: there are two posts.
CreateIsRepeated(c) ==
    /\ Fault(FALSE)
    /\ At(c, "create") /\ Len(posts) + 1 < MaxPosts
    /\ posts' = posts \o << <<>>, <<>> >>
    /\ ctx' = [ctx EXCEPT ![c].post = Len(posts) + 2, ![c].at = "read"]
    /\ UNCHANGED <<rows, made, chosen, media, lock, flushDue, written>>

\* The same for an upload: the file is there, and the request goes on.
UploadIsRepeated(c) ==
    /\ Fault(TRUE)
    /\ At(c, "upload")
    /\ media' = media \cup {NewFile(c)}
    /\ UNCHANGED <<rows, made, posts, chosen, lock, ctx, flushDue, written>>

\* The mail program is restarted; its startup flushes.
Restart ==
    /\ Fault(\E c \in Context : Uploading(c))
    /\ ctx' = [c \in Context |-> Idle] /\ lock' = None
    /\ flushDue' = TRUE
    /\ UNCHANGED <<rows, made, web, written>>

\* Another program or the author adds a line, or makes a post of the day.
WriteElsewhere ==
    /\ spent.foreign < MaxForeign
    /\ spent' = [spent EXCEPT !.foreign = @ + 1]
    /\ \/ \E p \in DOMAIN posts :
             posts' = [posts EXCEPT ![p] = Append(@, Line(Foreign, None))]
       \/ /\ Len(posts) < MaxPosts
          /\ posts' = Append(posts, <<>>)
    /\ UNCHANGED <<rows, made, chosen, media, lock, ctx, flushDue, written>>

\* The person chooses among several posts.
SelectPost ==
    /\ Len(posts) > 1
    /\ \E p \in DOMAIN posts \ {chosen} : chosen' = p
    /\ UNCHANGED <<rows, made, posts, media, lock, ctx, flushDue, written, spent>>

-----------------------------------------------------------------------------
Step(c) ==
    \/ NextRow(c) \/ Enter(c) \/ TakeRow(c) \/ ListPosts(c) \/ CreatePost(c)
    \/ ReadPost(c) \/ Upload(c) \/ SaveUpload(c) \/ WritePost(c)
    \/ VerifyPost(c) \/ RemoveRow(c)

Next ==
    \/ \E i \in Item : QueueSession(i) \/ \E c \in Context : Submit(c, i)
    \/ \E c \in Context : BeginFlush(c) \/ Step(c)
    \/ \E c \in Context : CallFails(c) \/ AnswerIsLost(c)
    \/ \E c \in Context : CreateIsRepeated(c) \/ UploadIsRepeated(c)
    \/ Restart \/ WriteElsewhere \/ SelectPost

Spec == Init /\ [][Next]_vars
FairSpec ==
    /\ Spec
    /\ \A c \in Context : WF_vars(Step(c) /\ ~ At(c, "enter")) /\ SF_vars(Enter(c))
    /\ WF_vars(flushDue /\ BeginFlush(Background))

-----------------------------------------------------------------------------
(* Properties.                                                             *)

Lines == UNION {{p} \X DOMAIN posts[p] : p \in DOMAIN posts}
Of(i) == {l \in Lines : posts[l[1]][l[2]].item = i}

\* The Outbox tells the truth: an entry that has left it is on a post, and,
\* when nothing runs and nothing has gone wrong, an entry in it is not - but
\* for an attachment without a text, which an overlapping flush puts back
\* without its file (wordpress.js, createLog; daily-log.js, flushOutbox).
OutboxIsTrue ==
    \A i \in Item :
        /\ made[i] > 0 /\ rows[i] = None => i \in written
        /\ /\ rows[i] # None /\ i \in written
           /\ \A c \in Context : At(c, "idle")
           /\ spent.faults = 0 /\ spent.foreign = 0
           => i \notin Texts /\ ~ rows[i].file

\* Whatever is repeated, an entry is on one post and once, unless another
\* post was chosen for the day in between (wordpress.js, executeLog).
EntriesAreSingle ==
    \A i \in Item :
        /\ \A k, l \in Of(i) : k[1] = l[1] => k = l
        /\ chosen = 0 => Cardinality(Of(i)) <= 1

\* No write of the add-on takes an entry of the add-on away: the lock covers
\* the read and the write (wordpress.js, exclusive).
EntriesAreKept ==
    [][\A i \in Item : Of(i) # {} => Of(i)' # {}]_vars

\* A file is uploaded once more only after its upload was not answered or
\* failed, within a request or before the next, or the note of it in the row
\* has failed (wordpress.js, request, the checkpoint of uploaded files).
UploadsAreRemembered ==
    \A i \in Item : Cardinality({m \in media : m[1] = i}) <= 1 + spent.resends

\* A finished session reaches its post, unless a call failed or another
\* program interfered.
SessionsAreDelivered ==
    \A i \in Sessions :
        made[i] > 0 ~> \/ (rows[i] = None /\ i \in written)
                       \/ spent.faults + spent.foreign > 0

=============================================================================
