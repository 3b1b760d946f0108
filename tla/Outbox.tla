------------------------------- MODULE Outbox -------------------------------
(***************************************************************************)
(* The WordPress Outbox and the daily log it feeds.  Every mutation is     *)
(* first stored as a row of SQLite; then the API request that stored it    *)
(* delivers it at once (queue_log does not), and the flush lane of the     *)
(* background service delivers whatever is still there.  Nothing keeps two *)
(* of them from delivering at the same time.                               *)
(*                                                                         *)
(* A diary line is delivered by reading the day's post and writing it back *)
(* with the line appended; a hidden marker shows that the line is there.   *)
(* Left out: the text of lines, all days but one, the attempt counter      *)
(* (which nothing reads), the choice of the transport (both take the same  *)
(* steps).                                                                 *)
(***************************************************************************)
EXTENDS Integers

CONSTANTS
    Requests,       \* threads that serve an API request
    Lane,           \* the flush lane
    Kinds,          \* "log", "post", "attach", "broken"
    None,
    MaxPages,       \* bound on the posts that come to stand for the day
    MaxItems,       \* bound on the mutations
    MaxSetbacks     \* bound on failures and restarts

ASSUME OutboxBounds == {MaxPages, MaxItems, MaxSetbacks} \subseteq Nat

\* "post": create_post or update_post, one write of WordPress
\* "broken": an attachment whose file is gone, which no attempt can deliver
ASSUME OutboxNames ==
    /\ Lane \notin Requests
    /\ Kinds \subseteq {"log", "post", "attach", "broken"}

VARIABLES
    outbox,     \* stored: the items not yet acknowledged
    accepted,   \* how many items were ever stored
    kind,       \* of every item
    page,       \* on WordPress: the lines of every post of the day, or None
    pc, item, at, copy,     \* of every deliverer: its step, item, page and copy of the page
    todo,       \* what this flush has still to deliver
    reached,    \* history: how often the write of an item took effect
    raced,      \* history: items a flush listed while their request delivered them
    stale,      \* history: a page was written over, or created beside another one
    edited,     \* the author has written into the day's post
    setbacks

remote   == <<page, reached, stale, edited>>
local    == <<pc, item, at, copy>>
vars     == <<outbox, accepted, kind, remote, local, todo, raced, setbacks>>

Item      == 1 .. MaxItems
Pages     == 1 .. MaxPages
Author    == 0                  \* the line a person writes in WordPress
Line      == Item \cup {Author}
Content   == [Line -> Nat]      \* how often each line is there
Deliverer == Requests \cup {Lane}

ASSUME NoneIsNoContent == None \notin Content

Empty == [l \in Line |-> 0]

\* The mutant without the hidden marker.
UnmarkedAlready(i, content) == FALSE

\* The marker of a diary line is found in the page.
Already(i, content) == kind[i] = "log" /\ content[i] > 0

\* WordPress numbers its posts.
NewPage(p) == p \in Pages /\ page[p] = None /\ \A q \in Pages : q < p => page[q] # None

\* A page content with one more line.
Appended(content, l) == [content EXCEPT ![l] = @ + 1]

-----------------------------------------------------------------------------
(* Delivering one item.                                                    *)

Step(k) ==
    CASE k \in {"log", "attach"} -> "find"
      [] k = "post"              -> "send"
      [] k = "broken"            -> "refuse"

GoTo(d, step) ==
    /\ pc' = [pc EXCEPT ![d] = step]
    /\ UNCHANGED <<item, at, copy>>

\* Deliverer d is done with its item: a flush goes on to the next one.
Leave(d) ==
    /\ pc' = [pc EXCEPT ![d] = IF d = Lane THEN "next" ELSE "idle"]
    /\ item' = [item EXCEPT ![d] = 0]
    /\ at' = [at EXCEPT ![d] = None]
    /\ copy' = [copy EXCEPT ![d] = Empty]

\* What only requests and flushes that begin or end change.
Queue == <<accepted, kind, todo, raced, setbacks>>

\* Among the posts of WordPress one has the title of the day.
Find(d) ==
    /\ pc[d] = "find"
    /\ \E p \in Pages :
          /\ page[p] # None
          /\ at' = [at EXCEPT ![d] = p]
    /\ pc' = [pc EXCEPT ![d] = IF kind[item[d]] = "attach" THEN "upload" ELSE "read"]
    /\ UNCHANGED <<outbox, Queue, remote, item, copy>>

FindNone(d) ==
    /\ pc[d] = "find"
    /\ \A p \in Pages : page[p] = None
    /\ GoTo(d, "create")
    /\ UNCHANGED <<outbox, Queue, remote>>

\* A diary line comes with the new post; for an attachment it is empty.
CreatePage(d, p) ==
    /\ pc[d] = "create"
    /\ NewPage(p)
    /\ stale' = (stale \/ \E q \in Pages : page[q] # None)
    /\ UNCHANGED <<outbox, Queue, item, copy, edited>>
    /\ \/ /\ kind[item[d]] = "log"
          /\ page' = [page EXCEPT ![p] = Appended(Empty, item[d])]
          /\ reached' = [reached EXCEPT ![item[d]] = @ + 1]
          /\ pc' = [pc EXCEPT ![d] = "ack"]
          /\ UNCHANGED at
       \/ /\ kind[item[d]] = "attach"
          /\ page' = [page EXCEPT ![p] = Empty]
          /\ pc' = [pc EXCEPT ![d] = "upload"]
          /\ at' = [at EXCEPT ![d] = p]
          /\ UNCHANGED reached

\* The medium is stored; its line is not yet in the page.
Upload(d) ==
    /\ pc[d] = "upload"
    /\ GoTo(d, "read")
    /\ UNCHANGED <<outbox, Queue, remote>>

Read(d) ==
    /\ pc[d] = "read"
    /\ copy' = [copy EXCEPT ![d] = page[at[d]]]
    /\ pc' = [pc EXCEPT ![d] = IF Already(item[d], page[at[d]]) THEN "ack" ELSE "write"]
    /\ UNCHANGED <<outbox, Queue, remote, item, at>>

\* The mutant that writes the line alone.
WriteLine(d) ==
    /\ pc[d] = "write"
    /\ page' = [page EXCEPT ![at[d]] = Appended(Empty, item[d])]
    /\ reached' = [reached EXCEPT ![item[d]] = @ + 1]
    /\ stale' = (stale \/ page[at[d]] # copy[d])
    /\ GoTo(d, "ack")
    /\ UNCHANGED <<outbox, Queue, edited>>

WritePage(d) ==
    /\ pc[d] = "write"
    /\ page' = [page EXCEPT ![at[d]] = Appended(copy[d], item[d])]
    /\ reached' = [reached EXCEPT ![item[d]] = @ + 1]
    /\ stale' = (stale \/ page[at[d]] # copy[d])
    /\ GoTo(d, "ack")
    /\ UNCHANGED <<outbox, Queue, edited>>

Send(d) ==
    /\ pc[d] = "send"
    /\ reached' = [reached EXCEPT ![item[d]] = @ + 1]
    /\ GoTo(d, "ack")
    /\ UNCHANGED <<outbox, Queue, page, stale, edited>>

Ack(d) ==
    /\ pc[d] = "ack"
    /\ outbox' = outbox \ {item[d]}
    /\ Leave(d)
    /\ UNCHANGED <<Queue, remote>>

\* The mutant whose flush ends at the first item it cannot deliver.
RefuseAndStop(d) ==
    /\ pc[d] = "refuse"
    /\ pc' = [pc EXCEPT ![d] = "idle"]
    /\ item' = [item EXCEPT ![d] = 0]
    /\ todo' = IF d = Lane THEN {} ELSE todo
    /\ UNCHANGED <<outbox, accepted, kind, raced, setbacks, remote, at, copy>>

Refuse(d) ==
    /\ pc[d] = "refuse"
    /\ Leave(d)
    /\ UNCHANGED <<outbox, Queue, remote>>

\* The mutant that also removes the row.
FailAndForget(d) ==
    /\ setbacks < MaxSetbacks
    /\ setbacks' = setbacks + 1
    /\ pc[d] \notin {"idle", "next"}
    /\ outbox' = outbox \ {item[d]}
    /\ Leave(d)
    /\ UNCHANGED <<accepted, kind, todo, raced, remote>>

\* WordPress is not reached, or its answer is lost, or the acknowledgement is
\* not stored: the item stays.
Fail(d) ==
    /\ setbacks < MaxSetbacks
    /\ setbacks' = setbacks + 1
    /\ pc[d] \notin {"idle", "next"}
    /\ Leave(d)
    /\ UNCHANGED <<outbox, accepted, kind, todo, raced, remote>>

DeliverStep(d) ==
    \/ Find(d)
    \/ FindNone(d)
    \/ \E p \in Pages : CreatePage(d, p)
    \/ Upload(d)
    \/ Read(d)
    \/ WritePage(d)
    \/ Send(d)
    \/ Ack(d)
    \/ Refuse(d)

-----------------------------------------------------------------------------
(* Requests and flushes.                                                   *)

\* The row is stored before anything is sent.
Enqueue(k) ==
    /\ accepted < MaxItems
    /\ accepted' = accepted + 1
    /\ kind' = [kind EXCEPT ![accepted + 1] = k]
    /\ outbox' = outbox \cup {accepted + 1}

\* log, create_post, update_post and attach_file deliver at once.
Submit(r, k) ==
    /\ pc[r] = "idle"
    /\ Enqueue(k)
    /\ pc' = [pc EXCEPT ![r] = Step(k)]
    /\ item' = [item EXCEPT ![r] = accepted + 1]
    /\ UNCHANGED <<at, copy, todo, raced, remote, setbacks>>

QueueLog ==
    /\ "log" \in Kinds
    /\ Enqueue("log")
    /\ UNCHANGED <<local, todo, raced, remote, setbacks>>

\* flush() lists all items, in the order they were stored.
StartFlush ==
    /\ pc[Lane] = "idle"
    /\ pc' = [pc EXCEPT ![Lane] = "next"]
    /\ todo' = outbox
    /\ raced' = raced \cup {item[r] : r \in {q \in Requests : pc[q] # "idle"}}
    /\ UNCHANGED <<outbox, accepted, kind, item, at, copy, remote, setbacks>>

NextItem(i) ==
    /\ pc[Lane] = "next"
    /\ i \in todo
    /\ \A j \in todo : i <= j
    /\ pc' = [pc EXCEPT ![Lane] = Step(kind[i])]
    /\ item' = [item EXCEPT ![Lane] = i]
    /\ todo' = todo \ {i}
    /\ UNCHANGED <<outbox, accepted, kind, at, copy, raced, remote, setbacks>>

EndFlush ==
    /\ pc[Lane] = "next"
    /\ todo = {}
    /\ pc' = [pc EXCEPT ![Lane] = "idle"]
    /\ UNCHANGED <<outbox, Queue, item, at, copy, remote>>

\* The Activity entry of a delivered item is recorded outside the try block.
FlushAborts ==
    /\ setbacks < MaxSetbacks
    /\ setbacks' = setbacks + 1
    /\ pc[Lane] = "next"
    /\ pc' = [pc EXCEPT ![Lane] = "idle"]
    /\ todo' = {}
    /\ UNCHANGED <<outbox, accepted, kind, raced, item, at, copy, remote>>

LaneStep ==
    \/ StartFlush
    \/ \E i \in Item : NextItem(i)
    \/ EndFlush
    \/ DeliverStep(Lane)

\* The process dies with its threads; SQLite and WordPress keep what they have.
Crash ==
    /\ setbacks < MaxSetbacks
    /\ setbacks' = setbacks + 1
    /\ pc' = [d \in Deliverer |-> "idle"]
    /\ item' = [d \in Deliverer |-> 0]
    /\ at' = [d \in Deliverer |-> None]
    /\ copy' = [d \in Deliverer |-> Empty]
    /\ todo' = {}
    /\ UNCHANGED <<outbox, accepted, kind, raced, remote>>

\* The author of the site writes into the day's post, or begins it.
Edit(p) ==
    /\ ~edited
    /\ edited' = TRUE
    /\ \/ page[p] # None
       \/ NewPage(p) /\ p = 1
    /\ page' = [page EXCEPT ![p] = Appended(IF page[p] = None THEN Empty ELSE page[p], Author)]
    /\ UNCHANGED <<outbox, Queue, local, reached, stale>>

Init ==
    /\ outbox = {}
    /\ accepted = 0
    /\ kind = [i \in Item |-> "none"]
    /\ page = [p \in Pages |-> None]
    /\ pc = [d \in Deliverer |-> "idle"]
    /\ item = [d \in Deliverer |-> 0]
    /\ at = [d \in Deliverer |-> None]
    /\ copy = [d \in Deliverer |-> Empty]
    /\ todo = {}
    /\ reached = [i \in Item |-> 0]
    /\ raced = {}
    /\ stale = FALSE
    /\ edited = FALSE
    /\ setbacks = 0

Next ==
    \/ LaneStep
    \/ \E r \in Requests, k \in Kinds : Submit(r, k)
    \/ \E r \in Requests : DeliverStep(r)
    \/ QueueLog
    \/ \E d \in Deliverer : Fail(d)
    \/ FlushAborts
    \/ Crash
    \/ \E p \in Pages : Edit(p)

Spec == Init /\ [][Next]_vars

\* The maintenance loop starts the flush again and again, and it runs to its end.
FairSpec == Spec /\ WF_vars(LaneStep)

-----------------------------------------------------------------------------
(* Properties.                                                             *)

TypeOK ==
    /\ outbox \subseteq 1 .. accepted
    /\ accepted \in 0 .. MaxItems
    /\ kind \in [Item -> Kinds \cup {"none"}]
    /\ \A i \in Item : kind[i] = "none" <=> i > accepted
    /\ page \in [Pages -> Content \cup {None}]
    /\ pc \in [Deliverer -> {"idle", "next", "find", "create", "upload", "read", "write",
                             "send", "refuse", "ack"}]
    /\ item \in [Deliverer -> 0 .. accepted]
    /\ at \in [Deliverer -> Pages \cup {None}]
    /\ copy \in [Deliverer -> Content]
    /\ todo \subseteq 1 .. accepted
    /\ reached \in [Item -> Nat]
    /\ raced \subseteq 0 .. accepted
    /\ stale \in BOOLEAN /\ edited \in BOOLEAN
    /\ setbacks \in 0 .. MaxSetbacks

Lines(l) == {p \in Pages : page[p] # None /\ page[p][l] > 0}

\* What was accepted is still stored until its write has taken effect, whatever
\* fails, crashes or runs beside it (WordPressService: reliable, Outbox first).
NothingIsDropped ==
    \A i \in 1 .. accepted : i \notin outbox => reached[i] > 0

\* A line that was written stays written, the author's included; what can take
\* it away is a page written from an old copy, and nothing else.
LinesAreKept ==
    ~stale =>
        /\ \A i \in 1 .. accepted :
              kind[i] \in {"log", "attach"} /\ i \notin outbox => Lines(i) # {}
        /\ edited => Lines(Author) # {}

\* Retries do not repeat a diary line: with one deliverer per item, lost
\* answers, failed acknowledgements and restarts leave it once on one page
\* (transports.py: the hidden marker makes Outbox retries idempotent).
DiaryLinesAreSingle ==
    ~stale => \A i \in Item, p \in Pages :
        kind[i] = "log" /\ p \in Lines(i) => page[p][i] = 1 /\ Lines(i) = {p}

\* A post or an attachment has no marker.  It is written again only after a
\* failure or a restart, and once when a flush lists what a request delivers.
RepeatsAreExcused ==
    \A i \in Item : reached[i] <= 1 + setbacks + (IF i \in raced THEN 1 ELSE 0)

\* Whatever can be delivered is, also behind an item that cannot be.
AllIsDelivered ==
    \A i \in Item : i \in outbox /\ kind[i] # "broken" ~> i \notin outbox
=============================================================================
