-------------------------------- MODULE Loops --------------------------------
(***************************************************************************)
(* The filter of the page and of the server: a loop over a sequence that   *)
(* appends what it keeps to a new one. It is written as a recursive        *)
(* function, which the prover can expand, where SelectSeq is built in.     *)
(***************************************************************************)
EXTENDS Naturals, Sequences

\* What stands in seq at the places of hits, in its order.
Kept(seq, hits) ==
    LET upTo[n \in 0 .. Len(seq)] ==
            IF n = 0 THEN <<>>
            ELSE IF n \in hits THEN Append(upTo[n - 1], seq[n]) ELSE upTo[n - 1]
    IN upTo[Len(seq)]
=============================================================================
