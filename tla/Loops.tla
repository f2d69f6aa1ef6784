---------------------------------- MODULE Loops ----------------------------------
(***************************************************************************)
(* Loops over lists, as recursive functions: those of the library fold a   *)
(* function over the subsets of its domain, of which nothing can be proved *)
(* here by going through the list.                                         *)
(***************************************************************************)
EXTENDS Naturals, Sequences

(* What is left of a list without the elements that are not in S.          *)
Keep(list, S) ==
  LET kept[i \in 0 .. Len(list)] ==
        IF i = 0 THEN <<>>
        ELSE IF list[i] \in S THEN Append(kept[i - 1], list[i]) ELSE kept[i - 1]
  IN  kept[Len(list)]

(* What a loop has made of `start` after the last element.                 *)
Loop(Step(_, _), start, list) ==
  LET made[i \in 0 .. Len(list)] ==
        IF i = 0 THEN start ELSE Step(made[i - 1], list[i])
  IN  made[Len(list)]
==================================================================================
