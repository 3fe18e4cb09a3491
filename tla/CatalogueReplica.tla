-------------------------- MODULE CatalogueReplica --------------------------
(* What the offline name cache promises to whoever reads it: it goes from    *)
(* one published catalogue to another, by taking a snapshot of any or by     *)
(* advancing from the one it holds, until changes made for another one are   *)
(* mixed into it; the next snapshot ends that.  A request gets one answer,   *)
(* and one that says "completed" stands for content that was taken.          *)
EXTENDS Naturals

CONSTANTS
    Requests,
    Checkpoints,    \* what the authority has published, 0 for nothing
    Catalogue,      \* the content at each checkpoint
    Sound(_)        \* whether no two names of a content share an identity

VARIABLES
    content,        \* what a reader finds
    checkpoint,     \* where the replica says it is
    mixed,          \* whether the content is of no catalogue
    taken,          \* the requests whose content was taken
    completed,      \* those that were answered "completed"
    rejected        \* those that were answered "rejected"

replicaVars == <<content, checkpoint, mixed, taken, completed, rejected>>

Init ==
    /\ checkpoint = 0 /\ content = Catalogue[0] /\ mixed = FALSE
    /\ taken = {} /\ completed = {} /\ rejected = {}

Moves(r, c) ==
    /\ checkpoint' = c /\ taken' = taken \cup {r}
    /\ UNCHANGED <<completed, rejected>>

Replace(r, c) ==
    /\ Moves(r, c)
    /\ content' = Catalogue[c] /\ mixed' = FALSE

Advance(r, c) ==
    /\ Moves(r, c)
    /\ ~ mixed /\ 0 < checkpoint /\ checkpoint < c
    /\ content' = Catalogue[c] /\ UNCHANGED mixed

\* Only a replica that holds something can be mixed up.
Mix(r, c) ==
    /\ Moves(r, c)
    /\ checkpoint # 0
    /\ Sound(content') /\ mixed' = TRUE

Complete(r) ==
    /\ r \in taken \ (completed \cup rejected)
    /\ completed' = completed \cup {r}
    /\ UNCHANGED <<content, checkpoint, mixed, taken, rejected>>

Reject(r) ==
    /\ r \notin completed \cup rejected
    /\ rejected' = rejected \cup {r}
    /\ UNCHANGED <<content, checkpoint, mixed, taken, completed>>

Next ==
    \E r \in Requests :
        \/ \E c \in Checkpoints \ {0} : Replace(r, c) \/ Advance(r, c) \/ Mix(r, c)
        \/ Complete(r) \/ Reject(r)

Spec == Init /\ [][Next]_replicaVars
=============================================================================
