-------------------------------- MODULE Lists --------------------------------
(* filter, reduce and sort of a JavaScript array, written as recursions over    *)
(* the list so that they can be reasoned about (ListProofs).                   *)
EXTENDS Integers, Sequences, FiniteSets, SequencesExt

(* The elements at the positions in `keep', in their order. *)
Picked(s, keep) ==
    LET upTo[n \in 0 .. Len(s)] ==
            IF n = 0 THEN << >> ELSE IF n \in keep THEN Append(upTo[n - 1], s[n]) ELSE upTo[n - 1]
    IN  upTo[Len(s)]

(* The elements that pass a test. *)
filter(s, Test(_)) == Picked(s, {i \in DOMAIN s : Test(s[i])})

(* The elements taken in one after the other, from the first on. *)
reduce(s, Take(_, _), start) ==
    LET upTo[n \in 0 .. Len(s)] == IF n = 0 THEN start ELSE Take(upTo[n - 1], s[n])
    IN  upTo[Len(s)]

Total(s) == reduce(s, LAMBDA sum, n : sum + n, 0)

(* The positions of a list of numbers, the largest first and equal ones in      *)
(* their order: each goes behind those that are not smaller.                   *)
Descending(numbers) ==
    LET Place(order, n) ==
            InsertAt(order, 1 + Cardinality({i \in DOMAIN order : numbers[order[i]] >= numbers[n]}), n)
    IN  reduce([i \in DOMAIN numbers |-> i], Place, << >>)
=============================================================================
