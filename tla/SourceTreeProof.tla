---------------------------- MODULE SourceTreeProof ----------------------------
(***************************************************************************)
(* Plain requests that meet in a directory share a key, and so their runs  *)
(* are never inside together; and what that means for the archive index.   *)
(***************************************************************************)
EXTENDS SourceTree, TLAPS

(* The first name of a path that begins with one is this one.              *)
LEMMA FirstIsFirst ==
  ASSUME NEW parts, parts \in Seq(Name), parts # <<>>
  PROVE  FirstName(parts) = parts[1]
<1> DEFINE names == {i \in DOMAIN parts : parts[i] # Parent}
<1>1. 1 \in names /\ \A j \in names : 1 <= j /\ j \in Nat
  <2>1. Len(parts) \in Nat /\ Len(parts) > 0 /\ DOMAIN parts = 1..Len(parts)
    OBVIOUS
  <2>2. \A i \in DOMAIN parts : parts[i] \in Name
    OBVIOUS
  <2> QED
    BY <2>1, <2>2, NameAssumption
<1>2. \A i \in names : (\A j \in names : i <= j) => i = 1
  BY <1>1
<1>3. (CHOOSE i \in names : \A j \in names : i <= j) = 1
  <2> HIDE DEF names
  <2> QED
    BY <1>1, <1>2
<1> QED
  BY <1>1, <1>3 DEF FirstName

(* A plain selection denotes a path strictly below the source, and its     *)
(* scope is the next component of that path.                               *)
LEMMA PlainScope ==
  ASSUME NEW source \in Seq(Name), NEW s \in Selection, PlainSelection(source, s)
  PROVE  /\ Denoted(source, s) \in Seq(Name)
         /\ Len(Denoted(source, s)) > Len(source)
         /\ Scope(source, s) = Denoted(source, s)[Len(source) + 1]
<1>1. s.parts \in Seq(Name)
  <2>1. s.parts \in Seq(Name \cup {Parent})
    BY DEF Selection
  <2>2. \A i \in 1..Len(s.parts) : s.parts[i] \in Name
    BY <2>1 DEF PlainSelection
  <2> QED
    BY <2>1, <2>2
<1>2. CASE s.absolute
  <2>1. IsPrefix(source, s.parts) /\ s.parts # source
    BY <1>2 DEF PlainSelection
  <2>2. Denoted(source, s) = s.parts
    BY <1>2 DEF Denoted, PlainSelection
  <2>3. Len(s.parts) > Len(source)
    BY <1>1, <2>1 DEF IsPrefix
  <2>4. Scoped(source, s) = SubSeq(s.parts, Len(source) + 1, Len(s.parts))
    BY <1>2, <2>1 DEF Scoped
  <2>5. /\ Scoped(source, s) \in Seq(Name) /\ Scoped(source, s) # <<>>
        /\ Scoped(source, s)[1] = s.parts[Len(source) + 1]
    <3> DEFINE m == Len(source) + 1
               n == Len(s.parts)
    <3>1. m \in 1..n /\ n \in 1..Len(s.parts)
      BY <1>1, <2>3
    <3>2. /\ SubSeq(s.parts, m, n) \in Seq(Name)
          /\ Len(SubSeq(s.parts, m, n)) = n - m + 1
          /\ SubSeq(s.parts, m, n)[1] = s.parts[m]
      <4> HIDE DEF m, n
      <4> QED
        BY <1>1, <3>1
    <3>3. Len(SubSeq(s.parts, m, n)) > 0
      <4>1. m \in Nat /\ n \in Nat /\ m <= n
        BY <3>1
      <4> HIDE DEF m, n
      <4> QED
        BY <3>2, <4>1
    <3>4. SubSeq(s.parts, m, n) # <<>>
      <4>1. \A z \in Seq(Name) : Len(z) > 0 => z # <<>>
        OBVIOUS
      <4> HIDE DEF m, n
      <4> QED
        BY <3>2, <3>3, <4>1
    <3> QED
      BY <2>4, <3>2, <3>4
  <2> QED
    BY <1>1, <2>2, <2>3, <2>5, FirstIsFirst DEF Scope
<1>3. CASE ~s.absolute
  <2>1. s.parts # <<>>
    BY <1>3 DEF PlainSelection
  <2>2. source \o s.parts \in Seq(Name)
    BY <1>1
  <2>3. \A i \in DOMAIN (source \o s.parts) : (source \o s.parts)[i] # Parent
    BY <2>2, NameAssumption
  <2>4. Denoted(source, s) = source \o s.parts
    BY <1>3, <2>3 DEF Denoted
  <2>5. Scoped(source, s) = s.parts
    BY <1>3 DEF Scoped
  <2>6. Len(source \o s.parts) > Len(source)
        /\ (source \o s.parts)[Len(source) + 1] = s.parts[1]
    BY <1>1, <2>1
  <2> QED
    BY <1>1, <2>1, <2>2, <2>4, <2>5, <2>6, FirstIsFirst DEF Scope
<1> QED
  BY <1>2, <1>3 DEF Selection

(* Two paths one of which is a prefix of the other agree as far as both    *)
(* go.                                                                     *)
LEMMA PrefixesAgree ==
  ASSUME NEW x \in Seq(Name), NEW y \in Seq(Name), NEW n \in Nat \ {0},
         n <= Len(x), n <= Len(y), IsPrefix(x, y) \/ IsPrefix(y, x)
  PROVE  x[n] = y[n]
BY DEF IsPrefix

(* The requests the locks are meant for: comparable requests that meet     *)
(* share a key (conflict_lock_keys).                                       *)
THEOREM ConflictsShareAKey ==
  ASSUME NEW q1 \in Request, NEW q2 \in Request,
         Comparable(q1, q2), Conflicting(q1, q2)
  PROVE  LockKeys(q1) \cap LockKeys(q2) # {}
<1> DEFINE source == q1.source
<1>1. q2.source = source /\ source \in Seq(Name)
  BY RequestAssumption DEF Comparable
<1>2. CASE q1.selected = {}
  <2>1. q2.selected = {}
    BY <1>2 DEF Comparable
  <2> QED
    BY <1>1, <1>2, <2>1 DEF Conflicting, Writes, LockKeys
<1>3. CASE q1.selected # {}
  <2>1. q2.selected # {}
    BY <1>3 DEF Comparable
  <2>2. PICK s \in q1.selected, t \in q2.selected :
          LET x == Denoted(source, s)  y == Denoted(source, t)
          IN  IsPrefix(x, y) \/ IsPrefix(y, x)
    BY <1>1, <1>3, <2>1 DEF Conflicting, Roots
  <2>3. s \in Selection /\ t \in Selection
    BY RequestAssumption
  <2>4. PlainSelection(source, s) /\ PlainSelection(source, t)
    BY <1>1 DEF Comparable, Plain
  <2>5. Scope(source, s) = Scope(source, t)
    <3> DEFINE x == Denoted(source, s)
               y == Denoted(source, t)
    <3>1. x \in Seq(Name) /\ Len(x) > Len(source) /\ Scope(source, s) = x[Len(source) + 1]
      BY <1>1, <2>3, <2>4, PlainScope
    <3>2. y \in Seq(Name) /\ Len(y) > Len(source) /\ Scope(source, t) = y[Len(source) + 1]
      BY <1>1, <2>3, <2>4, PlainScope
    <3>3. IsPrefix(x, y) \/ IsPrefix(y, x)
      BY <2>2
    <3>4. Len(source) + 1 \in Nat \ {0} /\ Len(source) + 1 <= Len(x)
          /\ Len(source) + 1 <= Len(y)
      BY <1>1, <3>1, <3>2
    <3> HIDE DEF x, y, source
    <3> QED
      BY <3>1, <3>2, <3>3, <3>4, PrefixesAgree
  <2>6. /\ <<source, Scope(source, s)>> \in LockKeys(q1)
        /\ <<source, Scope(source, t)>> \in LockKeys(q2)
    BY <1>1, <1>3, <2>1 DEF Conflicting, Writes, LockKeys
  <2> QED
    BY <2>5, <2>6
<1> QED
  BY <1>2, <1>3

--------------------------------------------------------------------------------
(* The inductive invariant.                                                *)

(* What a step does to a run it moves and to the others.                   *)
LEMMA Moves ==
  ASSUME TypeOK, NEW r \in Run, NEW from, NEW to, Move(r, from, to)
  PROVE  stage[r] = from /\ stage'[r] = to /\ \A o \in Run : o # r => stage'[o] = stage[o]
BY DEF Move, TypeOK

LEMMA InitInv == Init => TreeInv
BY DEF Init, TreeInv, TypeOK, Exclusive, OneHasTheState, HasTheState, SeenIsCurrent, Inside

LEMMA TypesStay == ASSUME TypeOK, [Next]_vars PROVE TypeOK'
<1>1. CASE UNCHANGED vars
  BY <1>1 DEF TypeOK, vars
<1>2. ASSUME NEW r \in Run, Enter(r) PROVE TypeOK'
  BY <1>2 DEF Enter, Move, TypeOK
<1>3. ASSUME NEW r \in Run, Leave(r) PROVE TypeOK'
  BY <1>3 DEF Leave, Move, TypeOK
<1>4. ASSUME NEW r \in Run, ReadIndex(r) PROVE TypeOK'
  BY <1>4 DEF ReadIndex, Move, TypeOK, SameSource
<1>5. ASSUME NEW r \in Run, WriteIndex(r) PROVE TypeOK'
  BY <1>5 DEF WriteIndex, Move, TypeOK, SameSource
<1> QED
  BY <1>1, <1>2, <1>3, <1>4, <1>5 DEF Next

LEMMA RequestsStay == ASSUME [Next]_vars PROVE request' = request
BY DEF Next, vars, Enter, ReadIndex, WriteIndex, Leave

LEMMA KeysAreSymmetric ==
  ASSUME NEW r, NEW o PROVE Keys(r) \cap Keys(o) = Keys(o) \cap Keys(r)
OBVIOUS

LEMMA ExclusionStays == ASSUME TypeOK, Exclusive, [Next]_vars PROVE Exclusive'
<1> USE RequestsStay
<1>1. CASE UNCHANGED vars
  BY <1>1 DEF Exclusive, vars, Inside, Keys
<1>2. ASSUME NEW r \in Run, Enter(r) PROVE Exclusive'
  <2>1. stage'[r] = "inside" /\ \A o \in Run : o # r => stage'[o] = stage[o]
    BY <1>2, Moves DEF Enter
  <2>2. \A o \in Run \ {r} : Inside(o)' => Keys(o)' \cap Keys(r)' = {}
    BY <1>2, <2>1 DEF Enter, Inside, Keys
  <2>3. \A o, u \in Run \ {r} : o # u /\ Inside(o)' /\ Inside(u)' => Keys(o)' \cap Keys(u)' = {}
    BY <1>2, <2>1 DEF Exclusive, Inside, Keys
  <2> QED
    BY <2>2, <2>3 DEF Exclusive
<1>3. ASSUME NEW r \in Run, Inside(r), NEW to, Move(r, stage[r], to)
      PROVE  Exclusive'
  <2>1. \A o \in Run : Inside(o)' => Inside(o)
    BY <1>3, Moves DEF Inside
  <2> QED
    BY <2>1 DEF Exclusive, Keys
<1>4. ASSUME NEW r \in Run, ReadIndex(r) \/ WriteIndex(r) \/ Leave(r)
      PROVE  Exclusive'
  BY <1>3, <1>4 DEF ReadIndex, WriteIndex, Leave, Move, Inside
<1> QED
  BY <1>1, <1>2, <1>4 DEF Next

(* A spawned run begins to read only while no other has the state lock.    *)
LEMMA StateStays == ASSUME TypeOK, OneHasTheState, [Next]_vars PROVE OneHasTheState'
<1> USE RequestsStay
<1>1. CASE UNCHANGED vars
  BY <1>1 DEF OneHasTheState, HasTheState, vars
<1>2. ASSUME NEW o \in Run, ReadIndex(o) PROVE OneHasTheState'
  <2>1. stage'[o] = "reading" /\ \A r \in Run : r # o => stage'[r] = stage[r]
    BY <1>2, Moves DEF ReadIndex
  <2> QED
    BY <1>2, <2>1 DEF ReadIndex, OneHasTheState, HasTheState
<1>3. ASSUME NEW o \in Run, Enter(o) \/ WriteIndex(o) \/ Leave(o) PROVE OneHasTheState'
  <2>1. \A r \in Run : stage'[r] = "reading" => stage[r] = "reading"
    BY <1>3, Moves DEF Enter, WriteIndex, Leave
  <2> QED
    BY <2>1 DEF OneHasTheState, HasTheState
<1> QED
  BY <1>1, <1>2, <1>3 DEF Next

(* What a reader knows, in two parts.                                      *)
SawTheirs(r) == \A e \in (index \ lost) \cap SameSource(r) : KeptApart(e, r) => e \in seen[r]
Current(r) == seen[r] \ lost \subseteq index /\ SawTheirs(r)

(* While a run reads, only runs that are not kept apart from it add an     *)
(* entry.                                                                  *)
LEMMA ReadersStay == ASSUME TypeOK, Exclusive, OneHasTheState, SeenIsCurrent, [Next]_vars
                     PROVE  SeenIsCurrent'
<1> SUFFICES ASSUME NEW r \in Run, stage'[r] = "reading" PROVE Current(r)'
  BY DEF SeenIsCurrent, Current, SawTheirs
<1>0. /\ request' = request /\ SameSource(r)' = SameSource(r)
      /\ \A e : KeptApart(e, r)' = KeptApart(e, r)
  BY RequestsStay DEF SameSource, KeptApart, Keys
<1>a. stage[r] = "reading" => Current(r)
  BY DEF SeenIsCurrent, Current, SawTheirs
<1>1. CASE UNCHANGED vars
  BY <1>0, <1>1, <1>a DEF Current, SawTheirs, vars
<1>2. ASSUME NEW o \in Run, Enter(o) \/ Leave(o) PROVE Current(r)'
  <2>1. stage[r] = "reading"
    BY <1>2, Moves DEF Enter, Leave
  <2>2. UNCHANGED <<seen, index, lost>>
    BY <1>2 DEF Enter, Leave
  <2> QED
    BY <1>0, <1>a, <2>1, <2>2 DEF Current, SawTheirs
<1>3. ASSUME NEW o \in Run, WriteIndex(o) PROVE Current(r)'
  <2>1. stage[o] = "reading" /\ stage[r] = "reading" /\ o # r /\ seen' = seen
    BY <1>3, Moves DEF WriteIndex
  <2>2. ~KeptApart(o, r)
    BY <2>1 DEF Exclusive, Inside, OneHasTheState, HasTheState, KeptApart
  <2>3. Current(o) /\ Current(r)
    BY <1>a, <2>1 DEF SeenIsCurrent, Current, SawTheirs
  <2>4. seen[r] \ lost' \subseteq index'
    BY <1>3, <2>3 DEF Current, WriteIndex
  <2>5. \A e \in index' \ lost' : e \in index \ lost \/ e = o
    BY <1>3, <2>3 DEF WriteIndex, Current
  <2>6. SawTheirs(r)'
    BY <1>0, <2>1, <2>2, <2>3, <2>5 DEF Current, SawTheirs
  <2> QED
    BY <2>1, <2>4, <2>6 DEF Current
<1>4. ASSUME NEW o \in Run, ReadIndex(o) PROVE Current(r)'
  <2>1. CASE o = r
    BY <1>0, <1>4, <2>1 DEF ReadIndex, TypeOK, Current, SawTheirs
  <2>2. CASE o # r
    <3>1. stage[r] = "reading" /\ seen'[r] = seen[r] /\ UNCHANGED <<index, lost>>
      BY <1>4, <2>2, Moves DEF ReadIndex, TypeOK
    <3> QED
      BY <1>0, <1>a, <3>1 DEF Current, SawTheirs
  <2> QED
    BY <2>1, <2>2
<1> QED
  BY <1>1, <1>2, <1>3, <1>4 DEF Next

(* The inductive invariant of the runs in their source trees.              *)
THEOREM TreeInvariant == Spec => []TreeInv
<1>1. TreeInv /\ [Next]_vars => TreeInv'
  BY TypesStay, ExclusionStays, StateStays, ReadersStay DEF TreeInv
<1> QED
  BY <1>1, InitInv, PTL DEF Spec

(* Runs of comparable requests that meet never work at the same time, for  *)
(* any number of runs and any paths (conflict_lock_keys with               *)
(* acquire_serialize_locks).                                               *)
THEOREM ConflictsExclude == Spec => []PlainConflictsExclude
<1>1. TreeInv => PlainConflictsExclude
  <2> SUFFICES ASSUME TreeInv, NEW r \in Run, NEW o \in Run, r # o, Inside(r), Inside(o),
                      Comparable(request[r], request[o]),
                      Conflicting(request[r], request[o])
               PROVE  FALSE
    BY DEF PlainConflictsExclude
  <2>1. request[r] \in Request /\ request[o] \in Request
    BY DEF TreeInv, TypeOK
  <2>2. Keys(r) \cap Keys(o) # {}
    BY <2>1, ConflictsShareAKey DEF Keys
  <2> QED
    BY <2>2 DEF TreeInv, Exclusive
<1> QED
  BY <1>1, TreeInvariant, PTL

(* An entry of the archive index is first lost to a run that shares no     *)
(* scope with the entry's, and only where one of them is a run_agent       *)
(* (append_metadata_index in apply_archive_hook).                          *)
THEOREM EntriesStay == Spec => EntriesLostAcrossScopesOnly
<1> DEFINE FirstLost == \A e \in index \ (index' \cup lost) : \E r \in Run :
                          /\ stage[r] = "reading" /\ stage'[r] = "archived"
                          /\ Keys(e) \cap Keys(r) = {}
                          /\ (request[e].sync \/ request[r].sync)
<1>1. ASSUME TreeInv, [Next]_vars PROVE FirstLost
  <2> SUFFICES ASSUME NEW e \in index \ (index' \cup lost)
               PROVE  \E r \in Run : /\ stage[r] = "reading" /\ stage'[r] = "archived"
                                     /\ Keys(e) \cap Keys(r) = {}
                                     /\ (request[e].sync \/ request[r].sync)
    OBVIOUS
  <2>1. PICK r \in Run : WriteIndex(r)
    BY <1>1 DEF Next, vars, Enter, ReadIndex, Leave
  <2>2. stage[r] = "reading" /\ stage'[r] = "archived"
    BY <1>1, <2>1, Moves DEF WriteIndex, TreeInv
  <2>3. e \in (index \ lost) \cap SameSource(r) /\ e \notin seen[r]
    BY <1>1, <2>1 DEF WriteIndex
  <2>4. e \in Run /\ ~KeptApart(e, r)
    BY <1>1, <2>2, <2>3 DEF TreeInv, TypeOK, SeenIsCurrent
  <2>5. request[e].sync \in BOOLEAN /\ request[r].sync \in BOOLEAN
    BY <1>1, <2>4, SyncAssumption DEF TreeInv, TypeOK
  <2> QED
    BY <2>2, <2>4, <2>5 DEF KeptApart
<1>2. TreeInv /\ [Next]_vars => [FirstLost]_vars
  BY <1>1
<1> QED
  BY <1>2, TreeInvariant, PTL DEF Spec, EntriesLostAcrossScopesOnly
================================================================================
