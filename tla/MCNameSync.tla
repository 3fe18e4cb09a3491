----------------------------- MODULE MCNameSync -----------------------------
(* Three checkpoints of a catalogue of three names: the first has more names *)
(* than a search returns; the second removes one, whose identity another one *)
(* takes, and leaves the third name alone, which the search may leave out or *)
(* find; the third removes the other one, hands the identity back and leaves *)
(* none alone.  The names are numbered, their identities are letters.        *)
EXTENDS NameSync, TLC
CatalogueDef ==
    [c \in Checkpoints |->
        [n \in Names |->
            IF c = 0 THEN Absent
            ELSE (<< <<"a", "b", "c">>, <<"b", Absent, "c">>,
                     <<Absent, "b", "d">> >>[c])[n]]]
Snapshot(c) == [kind |-> "snapshot", from |-> 0, to |-> c, fits |-> TRUE]
ChangeSet(c, d) == [kind |-> "change_set", from |-> c, to |-> d, fits |-> TRUE]
OffersDef ==
    {[runtime |-> "own", change |-> c] :
        c \in {Snapshot(1), ChangeSet(1, 2), ChangeSet(2, 3),
               [Snapshot(3) EXCEPT !.fits = FALSE]}}
    \cup {[runtime |-> "other", change |-> Snapshot(2)]}
Symmetry == Permutations(Requests) \cup Permutations(Workers)
=============================================================================
