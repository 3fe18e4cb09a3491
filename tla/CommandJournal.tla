--------------------------- MODULE CommandJournal ---------------------------
(* What the runtime command services promise to those who execute commands.  *)
(* A caller performs a command at most once while the process lives.  The    *)
(* first performance that is entered under a key stays its entry.  A caller  *)
(* is told of its own performances and of entries, of nothing else.  What it *)
(* performs is durable at once, or with all the rest that it performs in one *)
(* transaction, or together with that never.                                 *)
CONSTANTS
    Callers,
    Keys,
    NoRecord        \* nothing is entered under the key

VARIABLES
    journal,        \* the entry of each key
    performed,      \* the performances since the process started
    durable,        \* those whose effect is durable
    open,           \* those in each caller's transaction
    told            \* those its current call was told of

journalVars == <<journal, performed, durable, open, told>>

Init ==
    /\ journal = [k \in Keys |-> NoRecord]
    /\ performed = {} /\ durable = {}
    /\ open = [c \in Callers |-> {}] /\ told = [c \in Callers |-> {}]

Perform(c) ==
    /\ \E new \in performed' :
          /\ new.caller = c
          /\ \A old \in performed : old.caller = c => old.command.key # new.command.key
          /\ performed' = performed \cup {new}
          /\ \/ durable' = durable \cup {new} /\ UNCHANGED open
             \/ open' = [open EXCEPT ![c] = @ \cup {new}] /\ UNCHANGED durable
    /\ UNCHANGED <<journal, told>>

Told(c, one) == told' = [told EXCEPT ![c] = @ \cup {one}]

\* The caller is told of its performance, which is entered if it is the first.
Enter(c) ==
    /\ \E one \in performed :
          /\ one.caller = c
          /\ journal[one.command.key] = NoRecord
          /\ journal' = [journal EXCEPT ![one.command.key] = one]
          /\ Told(c, one)
    /\ UNCHANGED <<performed, durable, open>>

Tell(c) ==
    /\ \E one \in performed :
          /\ \/ journal[one.command.key] = one
             \/ one.caller = c /\ journal[one.command.key] # NoRecord
          /\ Told(c, one)
    /\ UNCHANGED <<journal, performed, durable, open>>

Commit(c) ==
    /\ durable' = durable \cup open[c]
    /\ open' = [open EXCEPT ![c] = {}]
    /\ UNCHANGED <<journal, performed, told>>

\* A call ends without a result, or the next one begins.
Drop(c) ==
    /\ open' = [open EXCEPT ![c] = {}]
    /\ told' = [told EXCEPT ![c] = {}]
    /\ UNCHANGED <<journal, performed, durable>>

\* The process that kept the journal is gone.
Forget ==
    /\ journal' = [k \in Keys |-> NoRecord]
    /\ performed' = {} /\ UNCHANGED durable
    /\ open' = [c \in Callers |-> {}] /\ told' = [c \in Callers |-> {}]

Next ==
    \/ \E c \in Callers : Perform(c) \/ Enter(c) \/ Tell(c) \/ Commit(c) \/ Drop(c)
    \/ Forget

Spec == Init /\ [][Next]_journalVars
=============================================================================
