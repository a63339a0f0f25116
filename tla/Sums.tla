-------------------------------- MODULE Sums --------------------------------
(***************************************************************************)
(* The sum of a function into the naturals, as the ledger modules need it: *)
(* the coins left in every order, in every liquidity entry, in every       *)
(* redemption request.                                                     *)
(*                                                                         *)
(* A sum is the number of unit coins: the pairs <<x, n>> with n \in        *)
(* 1..f[x].  The definition needs no recursion, so what it computes can be *)
(* proved from the cardinality theorems of finite sets (Sums_proofs).      *)
(***************************************************************************)
EXTENDS Naturals, FiniteSets

Units(f) == UNION {{x} \X (1..f[x]) : x \in DOMAIN f}

SumOf(f) == Cardinality(Units(f))

\* f without the arguments of A.
Without(f, A) == [x \in DOMAIN f \ A |-> f[x]]

\* f on the arguments of A.
Only(f, A) == [x \in A |-> f[x]]

\* f with x mapped to v, whether x was an argument of f or not.
With(f, x, v) == [y \in DOMAIN f \cup {x} |-> IF y = x THEN v ELSE f[y]]
=============================================================================
