------------------------- MODULE MCRuntimeCommands -------------------------
(* Small instances of RuntimeCommands for TLC: two keys; under the first   *)
(* two commands with different semantics, one of them also in a version    *)
(* that lacks its approval.                                                *)
EXTENDS RuntimeCommands, TLC

CONSTANTS t1, t2, k1, k2, f, g

Command(k, fp, ok) == [key |-> k, fingerprint |-> fp, admissible |-> ok]

First    == Command(k1, f, TRUE)
Other    == Command(k1, g, TRUE)
Denied   == Command(k1, f, FALSE)
Second   == Command(k2, f, TRUE)

CommandsDef == {First, Other, Denied, Second}

(* Two single commands under one key.                                     *)
BatchesSingle == {<<First>>, <<Other>>}

(* A single command; bulk calls that may succeed, that have a command      *)
(* denied after one whose key others use with other semantics, and one     *)
(* that is longer than the policy allows.                                  *)
BatchesDef == {<<First>>, <<Second, First>>, <<Other, Denied>>, <<First, First, First>>}

Symmetry == Permutations(Callers)
=============================================================================
