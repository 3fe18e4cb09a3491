-------------------------- MODULE OfficialRegister --------------------------
(* What the reservation of official numbers promises, whatever overlaps, is  *)
(* repeated or rolled back: a register that one transaction after the other  *)
(* adds to.  Each adds, in every series, entries with the next numbers, for  *)
(* keys that have none there; an entry never changes, and only entries are   *)
(* given out as answers.                                                     *)
EXTENDS Integers

CONSTANTS Series, First, Step

VARIABLES
    entries,    \* what has been reserved: a series, key, number and address
    next,       \* the next number of each series
    answers     \* what callers were told

registerVars == <<entries, next, answers>>

\* Two entries may stand in the register together.  Address 0 is none.
Apart(e, f) ==
    /\ e.series = f.series => e.key # f.key /\ e.number # f.number
    /\ e.address = 0 \/ e.address # f.address

Init == entries = {} /\ next = First /\ answers = {}

\* The numbers of a series in a set of entries.
NumbersOf(s, E) == {e.number : e \in {e \in E : e.series = s}}

Added == entries' \ entries

\* The numbers that are added to a series follow those it has.
Follow(s) ==
    \E j \in 0 .. (next'[s] - next[s]) :
        /\ next'[s] = next[s] + j * Step[s]
        /\ NumbersOf(s, Added) = {next[s] + i * Step[s] : i \in 0 .. (j - 1)}

Enter ==
    /\ entries \subseteq entries'
    /\ next' \in [Series -> Int] /\ \A s \in Series : Follow(s)
    /\ \A e \in Added : \A f \in entries' \ {e} : Apart(e, f)
    /\ answers \subseteq answers' /\ answers' \subseteq answers \cup entries'

Spec == Init /\ [][Enter]_registerVars
=============================================================================
