-------------------------------- MODULE Lists --------------------------------
(* What Array.filter leaves of a list: its elements at some positions, in  *)
(* their order.                                                            *)
EXTENDS Naturals, Sequences

KeptAt(list, positions) ==
  LET left[n \in 0..Len(list)] ==
        IF n = 0 THEN <<>>
        ELSE IF n \in positions THEN Append(left[n - 1], list[n]) ELSE left[n - 1]
  IN left[Len(list)]
=============================================================================
