------------------------------ MODULE ConflictKeys ------------------------------
(***************************************************************************)
(* Which serialize locks a request needs: conflict_lock_keys.  A key names *)
(* the source directory and the topmost directory or file in it that a     *)
(* selected file lies under.                                               *)
(*                                                                         *)
(* A path is the sequence of its components.  A source is canonical; a     *)
(* selected path is what the client wrote and may hold "..".  The key is   *)
(* the pair of its two parts and not their text joined by "::", which      *)
(* could at most make two keys one.                                        *)
(***************************************************************************)
EXTENDS Naturals, SequencesExt

CONSTANTS
  Name,     \* the names of directories and files
  Request   \* what clients ask for

Parent    == ".."
Workspace == "__workspace__"

Selection == [absolute : BOOLEAN, parts : Seq(Name \cup {Parent})]

ASSUME NameAssumption == Parent \notin Name
ASSUME RequestAssumption == \A q \in Request :
  /\ q.serialize \in BOOLEAN         \* file_conflict_policy = "serialize"
  /\ q.read_only \in BOOLEAN         \* sandbox = "read_only"
  /\ q.source \in Seq(Name)          \* working_dir, resolved
  /\ \A s \in q.selected : s \in Selection

(* The part of a selected path below the source, if it is written as an    *)
(* absolute path below the source; any other path as it is.                *)
Scoped(source, s) ==
  IF s.absolute /\ IsPrefix(source, s.parts)
    THEN SubSeq(s.parts, Len(source) + 1, Len(s.parts))
    ELSE s.parts

(* The first component that is a name.                                     *)
FirstName(parts) ==
  LET names == {i \in DOMAIN parts : parts[i] # Parent}
  IN  IF names = {} THEN Workspace
      ELSE parts[CHOOSE i \in names : \A j \in names : i <= j]

(* (Mutant: the name of the file itself.)                                  *)
LastName(source, s) ==
  LET parts == Scoped(source, s)
  IN  IF parts = <<>> THEN Workspace ELSE parts[Len(parts)]
Scope(source, s) == FirstName(Scoped(source, s))

LockKeys(q) ==
  IF ~q.serialize \/ q.read_only THEN {}
  ELSE IF q.selected = {} THEN {<<q.source, Workspace>>}
  ELSE {<<q.source, Scope(q.source, s)>> : s \in q.selected}

--------------------------------------------------------------------------------
(* What the keys are to stand for.                                         *)

(* The file or directory that a selected path denotes.                     *)
Normalized(parts) ==
  FoldLeft(LAMBDA path, c : IF c # Parent THEN Append(path, c)
                            ELSE IF path = <<>> THEN path
                            ELSE SubSeq(path, 1, Len(path) - 1),
           <<>>, parts)

Denoted(source, s) ==
  LET path == IF s.absolute THEN s.parts ELSE source \o s.parts
  IN  IF \E i \in DOMAIN path : path[i] = Parent THEN Normalized(path) ELSE path

Writes(q) == q.serialize /\ ~q.read_only

(* A task works on what is selected and below, or on its whole source.     *)
(* Two tasks meet if one works on a directory that the other works in.     *)
Roots(q) == IF q.selected = {} THEN {q.source}
            ELSE {Denoted(q.source, s) : s \in q.selected}

Conflicting(q1, q2) ==
  /\ Writes(q1) /\ Writes(q2)
  /\ \E x \in Roots(q1), y \in Roots(q2) : IsPrefix(x, y) \/ IsPrefix(y, x)

(* Requests whose keys say all there is to say: selected paths below the   *)
(* source, written without "..".                                           *)
PlainSelection(source, s) ==
  /\ \A i \in DOMAIN s.parts : s.parts[i] # Parent
  /\ IF s.absolute THEN IsPrefix(source, s.parts) /\ s.parts # source
                   ELSE s.parts # <<>>

Plain(q) == \A s \in q.selected : PlainSelection(q.source, s)

Comparable(q1, q2) ==
  /\ q1.source = q2.source
  /\ Plain(q1) /\ Plain(q2)
  /\ (q1.selected = {}) = (q2.selected = {})
================================================================================
