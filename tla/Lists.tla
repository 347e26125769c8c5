--------------------------------- MODULE Lists ---------------------------------
(***************************************************************************)
(* What the code makes of lists with comprehensions and loops, as          *)
(* recursive functions.                                                    *)
(***************************************************************************)
EXTENDS Naturals, Sequences

\* [e for e in list if e in chosen].
Those(list, chosen) ==
  LET kept[n \in 0..Len(list)] ==
        IF n = 0 THEN <<>>
        ELSE IF list[n] \in chosen THEN Append(kept[n - 1], list[n]) ELSE kept[n - 1]
  IN kept[Len(list)]
=============================================================================
