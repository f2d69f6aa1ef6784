----------------------------- MODULE MCSourceTree -----------------------------
(***************************************************************************)
(* Two runs with any two requests on a workspace or a directory of it,     *)
(* that select nothing, or one or two of several paths, in several         *)
(* spellings.                                                              *)
(***************************************************************************)
EXTENDS SourceTree

MCName == {"w", "a", "b", "x", "y"}

W == <<"w">>

MCSelection ==
  {[absolute |-> FALSE, parts |-> parts] :
     parts \in {<<"a">>, <<"a", "x">>, <<"a", "y">>, <<"b", "x">>, <<"..", "w", "a", "x">>,
                <<"a", "..", "b", "x">>}}
  \cup {[absolute |-> TRUE, parts |-> parts] : parts \in {<<"w", "a", "x">>, <<"x">>}}

MCRequest ==
  [serialize : BOOLEAN, read_only : BOOLEAN, sync : BOOLEAN, source : {W},
   selected : {{}} \cup {{s} : s \in MCSelection}]
  \cup
  [serialize : {TRUE}, read_only : {FALSE}, sync : BOOLEAN, source : {W},
   selected : {{s, t} : s, t \in {s \in MCSelection : Len(s.parts) = 2}}]
  \cup
  [serialize : {TRUE}, read_only : {FALSE}, sync : BOOLEAN, source : {W \o <<"a">>},
   selected : {{}, {[absolute |-> TRUE, parts |-> <<"w", "a", "x">>]},
                   {[absolute |-> FALSE, parts |-> <<"x">>]}}]
===============================================================================
