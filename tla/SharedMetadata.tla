---------------------------- MODULE SharedMetadata ----------------------------
(***************************************************************************)
(* What the lock of the room metadata promises those who change it: the    *)
(* metadata is one document, its edits take effect one at a time, each as  *)
(* a whole and on the document as it is then, in the order in which they   *)
(* were asked for, and an edit is given up only for a failure, or for want *)
(* of a room.  SceneModeration implements this specification with a        *)
(* service that can only read the document and replace it.                 *)
(*                                                                         *)
(* The promise has one exception, which the specification names: an edit   *)
(* that lost the document, because a call failed or the room was closed    *)
(* in between, may put its change on a document of another time.           *)
(***************************************************************************)
EXTENDS Integers, Sequences

CONSTANTS Users, Fields

VARIABLES
    open,      \* whether there is a room, and so a document
    document,  \* for each field, the users it lists
    waiting,   \* the edits asked for and not yet done, oldest first
    lost,      \* the oldest one no longer knows the document
    failures   \* calls that failed

sharedVars == <<open, document, waiting, lost, failures>>

Document == [Fields -> SUBSET Users]
Empty == [f \in Fields |-> {}]

\* An edit says of each field which users it keeps and which ones it adds.
Edit == [keep : Document, add : Document]
Effect(edit, d) == [f \in Fields |-> (d[f] \cap edit.keep[f]) \cup edit.add[f]]

Init == ~open /\ document = Empty /\ waiting = <<>> /\ ~lost /\ failures = 0

Fails == failures' = failures + 1

\* An edit is asked for: the last one that waits then.
Ask ==
    /\ UNCHANGED <<open, document, lost, failures>>
    /\ Len(waiting') = Len(waiting) + 1 /\ waiting'[Len(waiting) + 1] \in Edit
    /\ waiting' = Append(waiting, waiting'[Len(waiting) + 1])

\* The oldest edit is over.
Over == UNCHANGED open /\ ~lost' /\ waiting # <<>> /\ waiting' = Tail(waiting)

Serve ==
    /\ open /\ ~lost /\ Over
    /\ document' = Effect(Head(waiting), document)
    /\ UNCHANGED failures

GiveUp ==
    /\ Fails \/ (~open /\ UNCHANGED failures)
    /\ Over
    /\ UNCHANGED document

\* The exception: a failure, or a room that went, and what it may lead to.
Lose ==
    /\ open /\ waiting # <<>> /\ lost' /\ Fails
    /\ UNCHANGED <<open, document, waiting>>

Overwrite ==
    /\ open /\ lost /\ Over
    /\ \E d \in Document : document' = Effect(Head(waiting), d)
    /\ UNCHANGED failures

\* A room comes, and goes, with an empty document.
Reopen ==
    /\ open' = ~open /\ document' = Empty
    /\ lost' \in BOOLEAN /\ (lost' => waiting # <<>>)
    /\ UNCHANGED <<waiting, failures>>

FailsElsewhere == Fails /\ UNCHANGED <<open, document, waiting, lost>>

Next ==
    \/ Ask \/ Serve \/ GiveUp \/ Lose \/ Overwrite \/ Reopen \/ FailsElsewhere

Spec == Init /\ [][Next]_sharedVars
=============================================================================
