--------------------------- MODULE RunLifecycleProof ---------------------------
(***************************************************************************)
(* Proofs about the runs of one server process and the locks they take,    *)
(* for every number of runs, every assignment of lock keys and modes, any  *)
(* number of failing file operations and any behaviour of the clients.     *)
(***************************************************************************)
EXTENDS RunLifecycle, FiniteSetTheorems, TLAPS

(* The serialize locks, for every finite set of runs and every assignment  *)
(* of keys to them.                                                        *)
LEMMA InitInv == LockInit => LockInv
<1>1. ASSUME LockInit PROVE LockTypeOK
  BY <1>1, RunAssumption DEF LockInit, LockTypeOK, Stage
<1>2. ASSUME LockInit
      PROVE OwnersAreUnderWay /\ TakenAreOwned /\ TakenInOrder /\ ArcIsCurrent /\ QueuesNest
  BY <1>2
     DEF LockInit, OwnersAreUnderWay, TakenAreOwned, TakenInOrder, ArcIsCurrent,
         QueuesNest, Acquiring, Holding
<1> QED BY <1>1, <1>2 DEF LockInv

LEMMA BeginInv == ASSUME LockInv, NEW r \in Run, Begin(r) PROVE LockInv'
<1> USE LockKeysAssumption
<1>1. LockTypeOK'
  BY DEF LockInv, LockTypeOK, Begin, Stage
<1>2. (\A m \in Mutex : owner[m] # r) /\ \A q \in Run : r \notin ahead[q] /\ q \notin ahead[r]
  BY RunAssumption
     DEF LockInv, LockTypeOK, OwnersAreUnderWay, QueuesNest, Begin, Acquiring,
         Holding
<1>3. \A q \in Run : q # r => stage'[q] = stage[q] /\ todo'[q] = todo[q]
  BY DEF LockInv, LockTypeOK, Begin
<1>4. todo'[r] = LockKeys[r] /\ stage'[r] \in {"holding", "next"}
      /\ (stage'[r] = "holding" => LockKeys[r] = {})
  BY DEF LockInv, LockTypeOK, Begin
<1>5. OwnersAreUnderWay'
  BY <1>2, <1>3
     DEF LockInv, LockTypeOK, OwnersAreUnderWay, Begin, Acquiring, Holding, Taken
<1>6. TakenAreOwned'
  BY <1>3, <1>4 DEF LockInv, TakenAreOwned, Begin, Acquiring, Holding, Taken
<1>7. TakenInOrder'
  BY <1>3, <1>4 DEF LockInv, TakenInOrder, Begin, Acquiring, Holding, Taken
<1>8. ArcIsCurrent'
  BY <1>3, <1>4 DEF LockInv, ArcIsCurrent, Begin
<1>9. QueuesNest'
  BY <1>2, <1>3 DEF LockInv, LockTypeOK, QueuesNest, Begin
<1> QED BY <1>1, <1>5, <1>6, <1>7, <1>8, <1>9 DEF LockInv

(* Inserting an entry changes it for nobody who has taken the key or has   *)
(* cloned its Arc: for them the entry was there already.                   *)
LEMMA LookUpInv == ASSUME LockInv, NEW r \in Run, LookUp(r) PROVE LockInv'
<1>0. PICK k \in todo[r] :
        /\ IsFirst(k, todo[r])
        /\ table' = [table EXCEPT ![k] = Entry(k, r)]
        /\ arc' = [arc EXCEPT ![r] = <<k, Entry(k, r)>>]
  BY DEF LookUp
<1>1. k \in Key
  BY DEF LockInv, LockTypeOK
<1>2. /\ \A j \in Key : table[j] # Nobody => table'[j] = table[j]
      /\ table'[k] # Nobody /\ table' \in [Key -> Run \cup {Nobody}]
      /\ table'[k] \in Run
  BY <1>0, <1>1, RunAssumption DEF LockInv, LockTypeOK, Entry
<1>3. LockTypeOK'
  BY <1>0, <1>1, <1>2 DEF LockInv, LockTypeOK, LookUp, Stage, Mutex
<1>4. \A q \in Run : q # r => stage'[q] = stage[q] /\ arc'[q] = arc[q]
  BY <1>0 DEF LockInv, LockTypeOK, LookUp
<1>5. stage[r] = "next" /\ stage'[r] = "cloned" /\ arc'[r] = <<k, table'[k]>>
  BY <1>0, <1>1 DEF LockInv, LockTypeOK, LookUp
<1>6. OwnersAreUnderWay'
  <2> SUFFICES ASSUME NEW m \in Mutex, owner[m] # Nobody
               PROVE /\ (Acquiring(owner[m]) \/ Holding(owner[m]))'
                     /\ m[1] \in Taken(owner[m])' /\ table'[m[1]] = m[2]
    BY DEF OwnersAreUnderWay, LookUp, Taken
  <2>1. owner[m] \in Run /\ m[1] \in Key /\ m[2] \in Run
    BY DEF LockInv, LockTypeOK, Mutex
  <2>2. /\ Acquiring(owner[m]) \/ Holding(owner[m])
        /\ m[1] \in Taken(owner[m]) /\ table[m[1]] = m[2]
    BY DEF LockInv, OwnersAreUnderWay
  <2> QED BY <2>1, <2>2, <1>2, <1>4, <1>5, RunAssumption
             DEF Acquiring, Holding, Taken, LookUp
<1>7. TakenAreOwned'
  <2> SUFFICES ASSUME NEW q \in Run, (Acquiring(q) \/ Holding(q))', NEW j \in Taken(q)
               PROVE table'[j] # Nobody /\ owner[<<j, table'[j]>>] = q
    BY DEF TakenAreOwned, LookUp, Taken
  <2>1. Acquiring(q) \/ Holding(q)
    BY <1>4, <1>5 DEF Acquiring, Holding
  <2>2. j \in Key /\ table[j] # Nobody /\ owner[<<j, table[j]>>] = q
    BY <2>1, LockKeysAssumption DEF LockInv, TakenAreOwned, Taken
  <2> QED BY <2>2, <1>2
<1>8. TakenInOrder'
  BY <1>4, <1>5 DEF LockInv, TakenInOrder, LookUp, Acquiring, Holding, Taken
<1>9. ArcIsCurrent'
  <2> SUFFICES ASSUME NEW q \in Run, stage'[q] \in {"cloned", "queued"}
               PROVE \E j \in todo[q] : /\ IsFirst(j, todo[q])
                                        /\ table'[j] # Nobody
                                        /\ arc'[q] = <<j, table'[j]>>
    BY DEF ArcIsCurrent, LookUp, IsFirst
  <2>1. CASE q = r
    BY <2>1, <1>0, <1>2, <1>5
  <2>2. CASE q # r
    <3>1. PICK j \in todo[q] : IsFirst(j, todo[q]) /\ table[j] # Nobody
                                 /\ arc[q] = <<j, table[j]>>
      BY <2>2, <1>4 DEF LockInv, ArcIsCurrent
    <3>2. j \in Key
      BY DEF LockInv, LockTypeOK
    <3> QED BY <3>1, <3>2, <2>2, <1>2, <1>4
  <2> QED BY <2>1, <2>2
<1>10. QueuesNest'
  BY <1>4, <1>5 DEF LockInv, LockTypeOK, QueuesNest, LookUp
<1> QED BY <1>3, <1>6, <1>7, <1>8, <1>9, <1>10 DEF LockInv
LEMMA EnqueueInv == ASSUME LockInv, NEW r \in Run, Enqueue(r) PROVE LockInv'
<1>1. LockTypeOK'
  BY DEF LockInv, LockTypeOK, Enqueue, Stage
<1>2. \A q \in Run : q # r => stage'[q] = stage[q] /\ ahead'[q] = ahead[q]
  BY DEF LockInv, LockTypeOK, Enqueue
<1>3. /\ stage[r] = "cloned" /\ stage'[r] = "queued"
      /\ ahead'[r] = {q \in Run : stage[q] = "queued" /\ arc[q] = arc[r]}
  BY DEF LockInv, LockTypeOK, Enqueue
<1>4. OwnersAreUnderWay'
  BY <1>2, <1>3
     DEF LockInv, LockTypeOK, OwnersAreUnderWay, Enqueue, Acquiring, Holding, Taken
<1>5. TakenAreOwned'
  BY <1>2, <1>3 DEF LockInv, TakenAreOwned, Enqueue, Acquiring, Holding, Taken
<1>6. TakenInOrder'
  BY <1>2, <1>3 DEF LockInv, TakenInOrder, Enqueue, Acquiring, Holding, Taken
<1>7. ArcIsCurrent'
  BY <1>2, <1>3 DEF LockInv, ArcIsCurrent, Enqueue
<1>8. QueuesNest'
  <2> SUFFICES ASSUME NEW p \in Run, NEW q \in ahead'[p]
               PROVE /\ stage'[p] = "queued" /\ stage'[q] = "queued"
                     /\ arc[q] = arc[p]
                     /\ q \notin ahead'[q] /\ ahead'[q] \subseteq ahead'[p]
    BY DEF QueuesNest, Enqueue
  <2>1. \A x \in Run : r \notin ahead[x]
    BY <1>3 DEF LockInv, QueuesNest
  <2>2. CASE p = r
    BY <2>2, <1>2, <1>3 DEF LockInv, LockTypeOK, QueuesNest
  <2>3. CASE p # r
    BY <2>1, <2>3, <1>2 DEF LockInv, LockTypeOK, QueuesNest
  <2> QED BY <2>2, <2>3
<1> QED BY <1>1, <1>4, <1>5, <1>6, <1>7, <1>8 DEF LockInv

(* The mutex that is granted is the one in the table, and its key is below *)
(* all the keys the run still has to take.                                 *)
LEMMA GrantInv == ASSUME LockInv, NEW r \in Run, Grant(r) PROVE LockInv'
<1>0. PICK k \in todo[r] : /\ IsFirst(k, todo[r])
                          /\ table[k] # Nobody
                          /\ arc[r] = <<k, table[k]>>
  BY DEF LockInv, ArcIsCurrent, Grant
<1>1. k \in Key /\ table[k] \in Run /\ <<k, table[k]>> \in Mutex /\ k \in LockKeys[r]
  BY <1>0 DEF LockInv, LockTypeOK, TakenInOrder, Mutex
<1>2. /\ stage[r] = "queued" /\ stage'[r] \in {"holding", "next"}
      /\ todo'[r] = todo[r] \ {k}
      /\ stage'[r] = "holding" => todo'[r] = {}
  BY <1>0 DEF LockInv, LockTypeOK, Grant
<1>3. \A q \in Run : q # r => stage'[q] = stage[q] /\ todo'[q] = todo[q] /\ arc'[q] = arc[q]
  BY DEF LockInv, LockTypeOK, Grant
<1>4. /\ owner[<<k, table[k]>>] = Nobody /\ owner'[<<k, table[k]>>] = r
      /\ \A m \in Mutex : m # <<k, table[k]>> => owner'[m] = owner[m]
      /\ table' = table
  BY <1>0, <1>1 DEF LockInv, LockTypeOK, Grant
<1>5. LockTypeOK'
  BY <1>1, <1>2 DEF LockInv, LockTypeOK, Grant, Stage
<1>6. OwnersAreUnderWay'
  <2> SUFFICES ASSUME NEW m \in Mutex, owner'[m] # Nobody
               PROVE /\ (Acquiring(owner[m]) \/ Holding(owner[m]))'
                     /\ m[1] \in Taken(owner[m])' /\ table[m[1]] = m[2]
    BY <1>4 DEF OwnersAreUnderWay, Taken
  <2>1. CASE m = <<k, table[k]>>
    BY <2>1, <1>1, <1>2, <1>4 DEF Acquiring, Holding, Taken
  <2>2. CASE m # <<k, table[k]>>
    <3>1. /\ owner'[m] = owner[m] /\ owner[m] \in Run
          /\ Acquiring(owner[m]) \/ Holding(owner[m])
          /\ m[1] \in Taken(owner[m]) /\ table[m[1]] = m[2]
      BY <2>2, <1>4 DEF LockInv, LockTypeOK, OwnersAreUnderWay
    <3> QED BY <3>1, <1>2, <1>3 DEF Acquiring, Holding, Taken
  <2> QED BY <2>1, <2>2
<1>7. TakenAreOwned'
  <2> SUFFICES ASSUME NEW q \in Run, (Acquiring(q) \/ Holding(q))', NEW j \in Taken(q)'
               PROVE table[j] # Nobody /\ owner'[<<j, table[j]>>] = q
    BY <1>4 DEF TakenAreOwned
  <2>1. Acquiring(q) \/ Holding(q)
    BY <1>2, <1>3 DEF Acquiring, Holding
  <2>2. CASE q = r /\ j = k
    BY <2>2, <1>0, <1>1, <1>4, RunAssumption DEF LockInv, LockTypeOK
  <2>3. CASE q # r \/ j # k
    <3>1. j \in Taken(q) /\ j \in Key
      BY <2>3, <1>2, <1>3, LockKeysAssumption DEF Taken
    <3>2. table[j] # Nobody /\ owner[<<j, table[j]>>] = q /\ <<j, table[j]>> \in Mutex
      BY <2>1, <3>1 DEF LockInv, LockTypeOK, TakenAreOwned, Mutex
    <3> QED BY <3>2, <1>4, RunAssumption
  <2> QED BY <2>2, <2>3
<1>8. TakenInOrder'
  <2>1. \A j \in Taken(r), i \in todo[r] : j < i
    BY <1>2 DEF LockInv, TakenInOrder, Acquiring
  <2>2. \A i \in todo[r] \ {k} : k < i
    BY <1>0, <1>1, KeyAssumption DEF LockInv, LockTypeOK, IsFirst
  <2>3. \A j \in LockKeys[r] \ (todo[r] \ {k}), i \in todo[r] \ {k} : j < i
    BY <2>1, <2>2 DEF Taken
  <2> QED BY <2>3, <1>2, <1>3 DEF LockInv, TakenInOrder, Acquiring, Holding, Taken
<1>9. ArcIsCurrent'
  BY <1>2, <1>3, <1>4 DEF LockInv, ArcIsCurrent
<1>10. QueuesNest'
  <2>1. ahead[r] = {} /\ \A q \in Run : ahead'[q] = ahead[q] \ {r}
    BY DEF Grant
  <2> QED BY <2>1, <1>3 DEF LockInv, LockTypeOK, QueuesNest
<1> QED BY <1>5, <1>6, <1>7, <1>8, <1>9, <1>10 DEF LockInv

LEMMA DropInv == ASSUME LockInv, NEW r \in Run, Drop(r) PROVE LockInv'
<1>1. LockTypeOK'
  BY DEF LockInv, LockTypeOK, Drop, Unlock, Dequeue, Stage
<1>2. /\ stage'[r] = "released" /\ todo'[r] = {} /\ ahead'[r] = {}
      /\ \A m \in Mutex : owner'[m] # r
      /\ table' = table
  BY RunAssumption DEF LockInv, LockTypeOK, Drop, Unlock, Dequeue
<1>3. \A q \in Run : q # r => /\ stage'[q] = stage[q] /\ todo'[q] = todo[q]
                              /\ arc'[q] = arc[q] /\ ahead'[q] = ahead[q] \ {r}
  BY DEF LockInv, LockTypeOK, Drop, Unlock, Dequeue
<1>4. \A m \in Mutex : owner[m] # r => owner'[m] = owner[m]
  BY DEF Drop, Unlock
<1>5. \A m \in Mutex : owner'[m] # Nobody => owner'[m] = owner[m] /\ owner[m] \in Run \ {r}
  BY RunAssumption DEF LockInv, LockTypeOK, Drop, Unlock, Dequeue
<1>6. OwnersAreUnderWay'
  BY <1>2, <1>3, <1>5 DEF LockInv, OwnersAreUnderWay, Acquiring, Holding, Taken
<1>7. TakenAreOwned'
  <2> SUFFICES ASSUME NEW q \in Run, (Acquiring(q) \/ Holding(q))', NEW j \in Taken(q)'
               PROVE table[j] # Nobody /\ owner'[<<j, table[j]>>] = q
    BY <1>2 DEF TakenAreOwned
  <2>1. q # r /\ (Acquiring(q) \/ Holding(q)) /\ j \in Taken(q) /\ j \in Key
    BY <1>2, <1>3, LockKeysAssumption DEF Acquiring, Holding, Taken
  <2>2. table[j] # Nobody /\ owner[<<j, table[j]>>] = q /\ <<j, table[j]>> \in Mutex
    BY <2>1 DEF LockInv, LockTypeOK, TakenAreOwned, Mutex
  <2> QED BY <2>1, <2>2, <1>4
<1>8. TakenInOrder'
  BY <1>2, <1>3 DEF LockInv, TakenInOrder, Acquiring, Holding, Taken
<1>9. ArcIsCurrent'
  BY <1>2, <1>3 DEF LockInv, ArcIsCurrent
<1>10. QueuesNest'
  BY <1>2, <1>3 DEF LockInv, LockTypeOK, QueuesNest
<1> QED BY <1>1, <1>6, <1>7, <1>8, <1>9, <1>10 DEF LockInv

LEMMA StutterInv == LockInv /\ UNCHANGED lockVars => LockInv'
  BY DEF LockInv, LockTypeOK, OwnersAreUnderWay, TakenAreOwned, TakenInOrder,
         ArcIsCurrent, QueuesNest, Acquiring, Holding, Taken, lockVars

LEMMA NextInv == LockInv /\ [LockNext]_lockVars => LockInv'
<1> SUFFICES ASSUME LockInv, [LockNext]_lockVars PROVE LockInv'
  OBVIOUS
<1>1. CASE UNCHANGED lockVars
  BY <1>1, StutterInv
<1>2. CASE \E r \in Run : LockStep(r)
  <2> PICK r \in Run : LockStep(r)
    BY <1>2
  <2> QED BY BeginInv, LookUpInv, EnqueueInv, GrantInv, DropInv
             DEF LockStep, Finish, Abort
<1> QED BY <1>1, <1>2 DEF LockNext, Quiescent

--------------------------------------------------------------------------------
(* What follows from the invariant.                                        *)

LEMMA InvExclusion == LockInv => Exclusion
<1> SUFFICES ASSUME LockInv, NEW p \in Run, NEW q \in Run, p # q, Holding(p), Holding(q),
                    NEW k \in LockKeys[p] \cap LockKeys[q]
             PROVE FALSE
  BY DEF Exclusion
<1>1. k \in Taken(p) /\ k \in Taken(q)
  BY DEF LockInv, TakenInOrder, Taken
<1>2. owner[<<k, table[k]>>] = p /\ owner[<<k, table[k]>>] = q
  BY <1>1 DEF LockInv, TakenAreOwned
<1> QED BY <1>2

LEMMA InvNoStrayGuard == LockInv => NoStrayGuard
  BY DEF LockInv, OwnersAreUnderWay, NoStrayGuard

(* A nonempty family of subsets of a finite set has a member that contains *)
(* no other member.                                                        *)
LEMMA MinimalSubset ==
  ASSUME NEW S, IsFiniteSet(S), NEW W, W # {}, NEW f \in [W -> SUBSET S]
  PROVE  \E x \in W : \A y \in W : f[y] \subseteq f[x] => f[y] = f[x]
<1> DEFINE T == {f[x] : x \in W}
<1>1. IsWellFoundedOn(StrictSubsetOrdering(S), SUBSET S)
  BY FS_StrictSubsetOrderingWellFounded, FS_FiniteSubsetsOfFinite
<1>2. T \subseteq SUBSET S /\ T # {}
  OBVIOUS
<1>3. PICK t \in T : \A u \in T : ~ (<<u, t>> \in StrictSubsetOrdering(S))
  <2> HIDE DEF T
  <2> QED BY <1>1, <1>2, WFMin
<1>4. PICK x \in W : t = f[x]
  OBVIOUS
<1>5. \A y \in W : ~ (<<f[y], f[x]>> \in StrictSubsetOrdering(S))
  BY <1>3, <1>4
<1> QED BY <1>5 DEF StrictSubsetOrdering

(* Of finitely many keys one is the largest.                               *)
LEMMA LargestKey ==
  ASSUME NEW W, W # {}, NEW key \in [W -> Key]
  PROVE  \E x \in W : \A y \in W : key[y] <= key[x]
<1> DEFINE above == [x \in W |-> {j \in Key : key[x] < j}]
<1>1. above \in [W -> SUBSET Key]
  OBVIOUS
<1>2. PICK x \in W : \A y \in W : above[y] \subseteq above[x] => above[y] = above[x]
  <2> HIDE DEF above
  <2> QED BY <1>1, KeyAssumption, MinimalSubset
<1>3. \A j \in Key : j \in Int
  BY KeyAssumption
<1>4. \A y \in W : key[y] \in Key /\ key[y] \in Int
  BY <1>3
<1>5. ASSUME NEW y \in W, ~ (key[y] <= key[x]) PROVE FALSE
  <2>1. key[x] < key[y]
    BY <1>4, <1>5
  <2>2. above[y] \subseteq above[x]
    BY <1>3, <1>4, <2>1
  <2>3. key[y] \in above[x] /\ key[y] \notin above[y]
    BY <1>4, <2>1
  <2> QED BY <1>2, <2>2, <2>3
<1> QED BY <1>5

(* Of the queued runs that wait for each other, look at those that wait    *)
(* for the largest key, and among them at one before which the fewest are  *)
(* queued.  Its mutex is not locked by one of the others, which would      *)
(* have to wait for a larger key, and none of the others is queued before. *)
LEMMA InvNoDeadlock == LockInv => NoDeadlock
<1> SUFFICES ASSUME LockInv, NEW W \in (SUBSET Run) \ {{}},
                    \A r \in W : stage[r] = "queued" /\ WaitsFor(r) \cap W # {}
             PROVE FALSE
  BY DEF NoDeadlock
<1> DEFINE wanted == [r \in W |-> arc[r][1]]
<1>1. \A r \in W : arc[r][1] \in todo[r] /\ arc[r][1] \in Key /\ arc[r] \in Mutex
  <2> SUFFICES ASSUME NEW r \in W
               PROVE arc[r][1] \in todo[r] /\ arc[r][1] \in Key /\ arc[r] \in Mutex
    OBVIOUS
  <2>1. PICK k \in todo[r] : table[k] # Nobody /\ arc[r] = <<k, table[k]>>
    BY DEF LockInv, ArcIsCurrent
  <2>2. k \in Key /\ table[k] \in Run
    BY <2>1 DEF LockInv, LockTypeOK
  <2> QED BY <2>1, <2>2 DEF Mutex
<1>2. PICK top \in W : \A q \in W : arc[q][1] <= arc[top][1]
  <2>1. wanted \in [W -> Key]
    BY <1>1
  <2>2. \E x \in W : \A y \in W : wanted[y] <= wanted[x]
    <3> HIDE DEF wanted
    <3> QED BY <2>1, LargestKey
  <2> QED BY <2>2
<1> DEFINE Same == {r \in W : arc[r][1] = arc[top][1]}
           before == [r \in Same |-> ahead[r]]
<1>3. PICK r \in Same : \A q \in Same : ahead[q] \subseteq ahead[r] => ahead[q] = ahead[r]
  <2>1. before \in [Same -> SUBSET Run] /\ Same # {}
    BY DEF LockInv, LockTypeOK
  <2>2. \E x \in Same : \A y \in Same : before[y] \subseteq before[x] => before[y] = before[x]
    <3> HIDE DEF Same, before
    <3> QED BY <2>1, RunAssumption, MinimalSubset
  <2> QED BY <2>2
<1>4. PICK q \in W : q \in ahead[r] \/ (owner[arc[r]] = q /\ q # Nobody)
  BY DEF WaitsFor
<1>5. CASE q \in ahead[r]
  <2>1. q \in Same
    BY <1>5 DEF LockInv, QueuesNest
  <2> QED BY <2>1, <1>3, <1>5 DEF LockInv, QueuesNest
<1>6. CASE owner[arc[r]] = q /\ q # Nobody
  <2>1. arc[r][1] \in Taken(q) /\ Acquiring(q)
    BY <1>1, <1>6 DEF LockInv, OwnersAreUnderWay, Acquiring
  <2>2. arc[r][1] < arc[q][1]
    BY <2>1, <1>1 DEF LockInv, TakenInOrder
  <2>3. arc[q][1] <= arc[r][1] /\ arc[q][1] \in Int /\ arc[r][1] \in Int
    BY <1>1, <1>2, KeyAssumption
  <2> QED BY <2>2, <2>3
<1> QED BY <1>4, <1>5, <1>6

(* The lock specification keeps its types and its invariant.               *)
THEOREM LocksInvariant == LockSpec => []LockInv
  BY InitInv, NextInv, PTL DEF LockSpec

(* Two runs that claim a common key never hold their guards together, for  *)
(* every set of runs, keys and claims.                                     *)
THEOREM LocksExclude == LockSpec => []Exclusion
  BY LocksInvariant, InvExclusion, PTL

(* The end or the abort of a run, at any of its awaits, releases all of    *)
(* its mutexes, and nobody else's.                                         *)
THEOREM LocksAreReleased == LockSpec => []NoStrayGuard
  BY LocksInvariant, InvNoStrayGuard, PTL

(* Taking the keys in sorted order never leads to a cycle of waiting runs, *)
(* for every set of runs, keys and claims.                                 *)
THEOREM LocksDoNotDeadlock == LockSpec => []NoDeadlock
  BY LocksInvariant, InvNoDeadlock, PTL

(* The locks implement ExclusiveScopes: entering is the grant of the last  *)
(* guard (or the call without keys), leaving is the drop.                  *)
THEOREM LocksImplementScopes == LockSpec => ScopesSpec
<1> DEFINE in == {r \in Run : Holding(r)}
<1>1. LockInit => Scopes!Init
  BY DEF LockInit, Scopes!Init, Holding
<1>2. LockInv /\ LockInv' /\ [LockNext]_lockVars => [Scopes!Next]_in
  <2> SUFFICES ASSUME LockInv, LockInv', [LockNext]_lockVars PROVE [Scopes!Next]_in
    OBVIOUS
  <2>1. CASE UNCHANGED lockVars
    BY <2>1 DEF lockVars, Holding
  <2>2. ASSUME NEW r \in Run, \A q \in Run : q # r => stage'[q] = stage[q]
        PROVE [Scopes!Next]_in
    <3>1. CASE ~Holding(r) /\ Holding(r)'
      <4>1. in' = in \cup {r} /\ r \in Run \ in
        BY <2>2, <3>1 DEF Holding
      <4>2. \A q \in in : LockKeys[q] \cap LockKeys[r] = {}
        <5>1. Exclusion'
          BY InvExclusion, PTL
        <5> QED BY <4>1, <5>1, <3>1, <2>2 DEF Exclusion, Holding
      <4> QED BY <4>1, <4>2 DEF Scopes!Next, Scopes!Enter
    <3>2. CASE Holding(r) /\ ~Holding(r)'
      <4>1. in' = in \ {r} /\ r \in in
        BY <2>2, <3>2 DEF Holding
      <4> QED BY <4>1 DEF Scopes!Next, Scopes!Leave
    <3>3. CASE Holding(r) <=> Holding(r)'
      BY <2>2, <3>3 DEF Holding
    <3> QED BY <3>1, <3>2, <3>3
  <2>3. CASE \E r \in Run : LockStep(r)
    <3>1. PICK r \in Run : LockStep(r)
      BY <2>3
    <3>2. \A q \in Run : q # r => stage'[q] = stage[q]
      BY <3>1
         DEF LockInv, LockTypeOK, LockStep, Begin, LookUp, Enqueue, Grant, Finish,
             Abort, Drop
    <3> QED BY <2>2, <3>2
  <2> QED BY <2>1, <2>3 DEF LockNext, Quiescent
<1> QED BY <1>1, <1>2, LocksInvariant, PTL DEF LockSpec, ScopesSpec, Scopes!Spec

--------------------------------------------------------------------------------
(* The one-line conditions of the code are expanded everywhere.            *)
USE DEF Overtaken, CleanedUp, Cancellable, Joined

--------------------------------------------------------------------------------
(* A step of a run on the locks is a step of SerializeLocks that moves no  *)
(* other run, or leaves the locks alone.                                   *)
LEMMA RunStepLocks ==
  ASSUME LockInv, NEW r \in Run, RunStep(r)
  PROVE  LockInv' /\ \A q \in Run : q # r => stage'[q] = stage[q]
<1>1. CASE UNCHANGED lockVars
  BY <1>1, StutterInv DEF lockVars
<1>2. CASE Begin(r) \/ LookUp(r) \/ Enqueue(r) \/ Grant(r) \/ Drop(r)
  <2>1. LockInv'
    BY <1>2, BeginInv, LookUpInv, EnqueueInv, GrantInv, DropInv
  <2> QED BY <1>2, <2>1 DEF LockInv, LockTypeOK, Begin, LookUp, Enqueue, Grant, Drop
<1> QED
  BY <1>1, <1>2
     DEF RunStep, SpawnStep, TaskStep, SyncStep, ClientStep, CancelStep,
         SpawnInsert, SpawnPersist, SpawnReturn, Probe, AcquireStep, Prepare,
         DispatchReturns, Settle, SettleEvent, SettlePersist, Unwind, DropDispatch,
         DropLocks, SyncStart, SyncError, SyncRecord, SyncPersist, Cancel,
         CancelEvent, CancelPersist, Observe, Wait, WaitReturn

(* What the file operations of a run change.                               *)
LEMMA FileEffect ==
  ASSUME TypeOK, NEW r \in Run, FileOk \/ FileFails(r)
  PROVE  /\ faults' \in 0..MaxFaults /\ failed' \in SUBSET Run
         /\ failed \subseteq failed' /\ failed' \subseteq failed \cup {r}
  BY BoundAssumption DEF TypeOK, FileOk, FileFails

LEMMA PersistEffect ==
  ASSUME TypeOK, NEW r \in Run, NEW s \in Status, Persist(r, s) \/ PersistFails(r,
     s)
  PROVE  /\ disk' \in [Run -> Status \cup {"torn"}]
         /\ FileOk \/ FileFails(r)
<1>1. CASE Persist(r, s)
  BY <1>1 DEF TypeOK, Persist
<1>2. CASE PersistFails(r, s)
  <2>1. PICK d \in {disk[r], "torn", s} : disk' = [disk EXCEPT ![r] = d]
    BY <1>2 DEF PersistFails
  <2>2. d \in Status \cup {"torn"}
    BY <2>1 DEF TypeOK
  <2> QED BY <1>2, <2>1, <2>2 DEF TypeOK, PersistFails
<1> QED BY <1>1, <1>2

LEMMA AppendEffect ==
  ASSUME TypeOK, NEW r \in Run, NEW s \in Terminal,
         log' = [log EXCEPT ![r] = Append(@, s)]
  PROVE  log' \in [Run -> Seq(Terminal)]
<1>1. Append(log[r], s) \in Seq(Terminal)
  BY DEF TypeOK
<1> QED BY <1>1 DEF TypeOK

LEMMA FinalIsTerminal ==
  ASSUME NEW r \in Run
  PROVE  FinalStatus(r) \in Terminal /\ FinalStatus(r) \in Status
  BY DEF FinalStatus, Terminal, Status

LEMMA TypeStep ==
  ASSUME RunInv, NEW r \in Run, RunStep(r)
  PROVE  TypeOK'
<1>t. TypeOK /\ EventsFollowRecord /\ RecordFollowsRun
  BY DEF RunInv
<1>0. LockTypeOK'
  BY RunStepLocks DEF RunInv, LockInv
<1> USE <1>t DEF TypeOK, CallStage, TaskStage, Status, Terminal
<1>1. CASE SpawnInsert(r)
  BY <1>1, <1>0 DEF SpawnInsert
<1>2. CASE SpawnPersist(r)
  <2>1. Persist(r, "running") \/ PersistFails(r, "running")
    BY <1>2 DEF SpawnPersist
  <2>2. disk' \in [Run -> Status \cup {"torn"}] /\ (FileOk \/ FileFails(r))
    BY <2>1, PersistEffect
  <2>3. faults' \in 0..MaxFaults /\ failed' \in SUBSET Run
    BY <2>2, FileEffect
  <2>4. call' \in [Run -> CallStage] /\ task' \in [Run -> TaskStage]
    <3>1. CASE call' = [call EXCEPT ![r] = "started"] /\ task' = [task EXCEPT ![r]
     = "delayed"]
      BY <3>1
    <3>2. CASE call' = [call EXCEPT ![r] = "refused"] /\ UNCHANGED task
      BY <3>2
    <3> QED BY <1>2, <3>1, <3>2 DEF SpawnPersist
  <2> QED BY <1>2, <1>0, <2>2, <2>3, <2>4 DEF SpawnPersist
<1>3. CASE SpawnReturn(r)
  BY <1>3, <1>0 DEF SpawnReturn
<1>4. CASE Probe(r)
  BY ZenonT(40), <1>4, <1>0 DEF Probe
<1>5. CASE AcquireStep(r)
  BY <1>5, <1>0 DEF AcquireStep, runVars
<1>6. CASE Prepare(r)
  <2>1. CASE task' = [task EXCEPT ![r] = "executing"]
    BY <1>6, <1>0, <2>1 DEF Prepare
  <2>2. CASE task' = [task EXCEPT ![r] = "settling"]
    BY ZenonT(40), <1>6, <1>0, <2>2 DEF Prepare
  <2> QED BY <1>6, <2>1, <2>2 DEF Prepare
<1>7. CASE DispatchReturns(r)
  <2>1. CASE \E s \in DispatchStatus : result' = [result EXCEPT ![r] = s]
    <3>1. result' \in [Run -> Terminal \cup {"none", "error"}]
      BY <2>1, DispatchStatusAssumption
    <3> QED BY <1>7, <1>0, <3>1 DEF DispatchReturns
  <2>2. CASE result' = [result EXCEPT ![r] = "error"]
    BY <1>7, <1>0, <2>2 DEF DispatchReturns
  <2> QED BY <1>7, <2>1, <2>2 DEF DispatchReturns
<1>8. CASE Settle(r)
  <2>1. mem' \in [Run -> Status] /\ tasks' \in SUBSET Run
    <3>1. FinalStatus(r) \in Status
      BY FinalIsTerminal
    <3>2. CASE mem' = mem
      BY <1>8, <3>2 DEF Settle
    <3>3. CASE mem' = [mem EXCEPT ![r] = FinalStatus(r)]
      <4> DEFINE s == FinalStatus(r)
      <4>1. s \in Status /\ mem' = [mem EXCEPT ![r] = s]
        BY <3>1, <3>3
      <4> HIDE DEF s
      <4> QED BY <1>8, <4>1 DEF Settle
    <3> QED BY <1>8, <3>2, <3>3 DEF Settle
  <2>2. section' \in [run : Run \cup {Nobody}, by : {"none", "task", "cancel"},
                      step : {"none", "event", "persist"}]
    BY <1>8 DEF Settle
  <2>3. CASE task' = [task EXCEPT ![r] = "leaving"]
    BY <1>8, <1>0, <2>1, <2>2, <2>3 DEF Settle
  <2>4. CASE task' = [task EXCEPT ![r] = "persisting"]
    BY <1>8, <1>0, <2>1, <2>2, <2>4 DEF Settle
  <2> QED BY <1>8, <2>3, <2>4 DEF Settle
<1>9. CASE SettleEvent(r)
  <2>1. mem[r] \in Terminal
    BY <1>9 DEF SettleEvent, EventsFollowRecord, InSection
  <2>2. log' \in [Run -> Seq(Terminal)] /\ (FileOk \/ FileFails(r))
    <3>1. AppendTerminal(r, mem[r])
      BY <1>9 DEF SettleEvent
    <3>2. CASE log' = [log EXCEPT ![r] = Append(@, mem[r])] /\ FileOk
      BY <2>1, <3>2, AppendEffect
    <3>3. CASE UNCHANGED log /\ FileFails(r)
      BY <3>3
    <3> QED BY <3>1, <3>2, <3>3 DEF AppendTerminal
  <2>3. faults' \in 0..MaxFaults /\ failed' \in SUBSET Run
    BY <2>2, FileEffect
  <2> QED BY <1>9, <1>0, <2>2, <2>3 DEF SettleEvent
<1>10. CASE SettlePersist(r)
  <2>1. disk' \in [Run -> Status \cup {"torn"}] /\ (FileOk \/ FileFails(r))
    BY <1>10, PersistEffect DEF SettlePersist
  <2>2. faults' \in 0..MaxFaults /\ failed' \in SUBSET Run
    BY <2>1, FileEffect
  <2> QED BY <1>10, <1>0, <2>1, <2>2 DEF SettlePersist, NoSection
<1>11. CASE Unwind(r)
  BY <1>11, <1>0 DEF Unwind
<1>12. CASE DropDispatch(r)
  BY <1>12, <1>0 DEF DropDispatch
<1>13. CASE DropLocks(r)
  BY <1>13, <1>0 DEF DropLocks
<1>14. CASE SyncStart(r)
  BY <1>14, <1>0 DEF SyncStart
<1>15. CASE SyncError(r)
  BY <1>15, <1>0 DEF SyncError
<1>16. CASE SyncRecord(r)
  BY <1>16, <1>0 DEF SyncRecord
<1>17. CASE SyncPersist(r)
  <2>1. result[r] \in Status
    BY <1>17 DEF SyncPersist, RecordFollowsRun
  <2>2. disk' \in [Run -> Status \cup {"torn"}] /\ (FileOk \/ FileFails(r))
    BY <1>17, <2>1, PersistEffect DEF SyncPersist
  <2>3. faults' \in 0..MaxFaults /\ failed' \in SUBSET Run
    BY <2>2, FileEffect
  <2>4. call' \in [Run -> CallStage] /\ task' \in [Run -> TaskStage]
    BY ZenonT(40), <1>17 DEF SyncPersist
  <2> QED BY <1>17, <1>0, <2>2, <2>3, <2>4 DEF SyncPersist
<1>18. CASE Cancel(r)
  BY <1>18, <1>0 DEF Cancel
<1>19. CASE CancelEvent(r)
  <2>1. log' \in [Run -> Seq(Terminal)] /\ (FileOk \/ FileFails(r))
    BY ZenonT(40), <1>19, AppendEffect DEF CancelEvent
  <2>2. faults' \in 0..MaxFaults /\ failed' \in SUBSET Run
    BY <2>1, FileEffect
  <2>3. section' \in [run : Run \cup {Nobody}, by : {"none", "task", "cancel"},
                      step : {"none", "event", "persist"}]
    <3>1. CASE section' = [section EXCEPT !.step = "persist"]
      BY <3>1
    <3>2. CASE section' = NoSection
      BY <3>2 DEF NoSection
    <3> QED BY <1>19, <3>1, <3>2 DEF CancelEvent
  <2> QED BY <1>19, <1>0, <2>1, <2>2, <2>3 DEF CancelEvent
<1>20. CASE CancelPersist(r)
  <2>1. disk' \in [Run -> Status \cup {"torn"}] /\ (FileOk \/ FileFails(r))
    BY <1>20, PersistEffect DEF CancelPersist
  <2>2. faults' \in 0..MaxFaults /\ failed' \in SUBSET Run
    BY <2>1, FileEffect
  <2> QED BY <1>20, <1>0, <2>1, <2>2 DEF CancelPersist, NoSection
<1>21. CASE Observe(r)
  BY <1>21, <1>0 DEF Observe
<1>22. CASE Wait(r)
  BY <1>22, <1>0 DEF Wait
<1>23. CASE WaitReturn(r)
  BY <1>23, <1>0 DEF WaitReturn
<1> QED
  BY <1>1, <1>2, <1>3, <1>4, <1>5, <1>6, <1>7, <1>8, <1>9, <1>10, <1>11, <1>12,
     <1>13, <1>14, <1>15, <1>16, <1>17, <1>18, <1>19, <1>20, <1>21, <1>22, <1>23
     DEF RunStep, SpawnStep, TaskStep, SyncStep, ClientStep, CancelStep

LEMMA LocksStep ==
  ASSUME RunInv, NEW r \in Run, RunStep(r)
  PROVE  LocksFollowTask'
<1>t. TypeOK /\ LockTypeOK /\ LockInv /\ LocksFollowTask /\ RecordFollowsRun
  BY DEF RunInv, LockInv
<1> USE <1>t DEF TypeOK, LocksFollowTask, Acquiring, Holding
<1>0. \A q \in Run : q # r => stage'[q] = stage[q]
  BY RunStepLocks
<1>u. lockVars' = lockVars => stage' = stage
  BY DEF lockVars
<1>1. CASE SpawnInsert(r)
  BY <1>1, <1>0, <1>u DEF SpawnInsert
<1>2. CASE SpawnPersist(r)
  <2>1. task[r] = "none" /\ stage' = stage /\ workspace' = workspace
    BY <1>2, <1>u DEF SpawnPersist, RecordFollowsRun
  <2>2. CASE task' = [task EXCEPT ![r] = "delayed"]
    BY <2>1, <2>2
  <2>3. CASE UNCHANGED task
    BY <2>1, <2>3
  <2> QED BY <1>2, <2>2, <2>3 DEF SpawnPersist
<1>3. CASE SpawnReturn(r)
  BY <1>3, <1>0, <1>u DEF SpawnReturn
<1>4. CASE Probe(r)
  <2>1. CASE task' = [task EXCEPT ![r] = "failing"] /\ UNCHANGED lockVars
    BY <1>4, <2>1, <1>u DEF Probe
  <2>2. CASE task' = [task EXCEPT ![r] = "locking"]
    BY <1>4, <2>2, <1>0 DEF Probe
  <2> QED BY <1>4, <2>1, <2>2 DEF Probe
<1>5. CASE AcquireStep(r)
  BY ZenonT(40), <1>5, <1>0 DEF AcquireStep, runVars
<1>6. CASE Prepare(r)
  BY <1>6, <1>0, <1>u DEF Prepare
<1>7. CASE DispatchReturns(r)
  BY <1>7, <1>0, <1>u DEF DispatchReturns
<1>8. CASE Settle(r)
  <2>1. /\ stage' = stage /\ workspace' = workspace
        /\ task[r] \in {"failing", "settling"}
    BY <1>8, <1>u DEF Settle
  <2>2. CASE task' = [task EXCEPT ![r] = "leaving"]
    BY <2>1, <2>2
  <2>3. CASE task' = [task EXCEPT ![r] = "persisting"]
    BY <2>1, <2>3
  <2> QED BY <1>8, <2>2, <2>3 DEF Settle
<1>9. CASE SettleEvent(r)
  BY <1>9, <1>0, <1>u DEF SettleEvent, AppendTerminal, FileOk, FileFails
<1>10. CASE SettlePersist(r)
  BY <1>10, <1>0, <1>u DEF SettlePersist, Persist, PersistFails, FileOk, FileFails
<1>11. CASE Unwind(r)
  BY <1>11, <1>0, <1>u DEF Unwind
<1>12. CASE DropDispatch(r)
  BY <1>12, <1>0, <1>u DEF DropDispatch
<1>13. CASE DropLocks(r)
  BY <1>13, <1>0 DEF DropLocks, Drop, LockTypeOK
<1>14. CASE SyncStart(r)
  <2>1. task[r] = "none"
    <3>1. call[r] = "none"
      BY <1>14 DEF SyncStart
    <3> QED BY <3>1 DEF RecordFollowsRun
  <2>2. task' = [task EXCEPT ![r] = "locking"] /\ workspace' = workspace
    BY <1>14 DEF SyncStart
  <2> QED BY ZenonT(40), <2>1, <2>2, <1>0
<1>15. CASE SyncError(r)
  BY <1>15, <1>0, <1>u DEF SyncError
<1>16. CASE SyncRecord(r)
  BY <1>16, <1>0, <1>u DEF SyncRecord
<1>17. CASE SyncPersist(r)
  BY <1>17, <1>0, <1>u DEF SyncPersist, Persist, PersistFails, FileOk, FileFails
<1>18. CASE Cancel(r)
  BY <1>18, <1>0, <1>u DEF Cancel
<1>19. CASE CancelEvent(r)
  BY <1>19, <1>0, <1>u DEF CancelEvent, FileOk, FileFails
<1>20. CASE CancelPersist(r)
  BY <1>20, <1>0, <1>u DEF CancelPersist, Persist, PersistFails, FileOk, FileFails
<1>21. CASE Observe(r)
  BY <1>21, <1>0, <1>u DEF Observe
<1>22. CASE Wait(r)
  BY <1>22, <1>0, <1>u DEF Wait
<1>23. CASE WaitReturn(r)
  BY <1>23, <1>0, <1>u DEF WaitReturn
<1> QED
  BY <1>1, <1>2, <1>3, <1>4, <1>5, <1>6, <1>7, <1>8, <1>9, <1>10, <1>11, <1>12,
     <1>13, <1>14, <1>15, <1>16, <1>17, <1>18, <1>19, <1>20, <1>21, <1>22, <1>23
     DEF RunStep, SpawnStep, TaskStep, SyncStep, ClientStep, CancelStep

LEMMA RecordStep ==
  ASSUME RunInv, NEW r \in Run, RunStep(r)
  PROVE  RecordFollowsRun'
<1>t. TypeOK /\ RecordFollowsRun /\ EventsFollowRecord
  BY DEF RunInv
<1> USE <1>t, ModeAssumption DEF TypeOK, RecordFollowsRun, Terminal, Awaiting
<1>1. CASE SpawnInsert(r)
  BY <1>1 DEF SpawnInsert
<1>2. CASE SpawnPersist(r)
  BY <1>2 DEF SpawnPersist, Persist, PersistFails, FileOk, FileFails
<1>3. CASE SpawnReturn(r)
  BY <1>3 DEF SpawnReturn
<1>4. CASE Probe(r)
  BY <1>4 DEF Probe
<1>5. CASE AcquireStep(r)
  BY <1>5 DEF AcquireStep, runVars
<1>6. CASE Prepare(r)
  BY <1>6 DEF Prepare
<1>7. CASE DispatchReturns(r)
  BY <1>7 DEF DispatchReturns
<1>8. CASE Settle(r)
  <2>1. FinalStatus(r) \in Terminal
    BY FinalIsTerminal
  <2>2. CASE mem[r] = "cancelled" /\ mem' = mem /\ task' = [task EXCEPT ![r] =
     "leaving"]
    BY <1>8, <2>2 DEF Settle
  <2>3. CASE /\ mem' = [mem EXCEPT ![r] = FinalStatus(r)]
             /\ task' = [task EXCEPT ![r] = "persisting"]
    BY <1>8, <2>1, <2>3 DEF Settle
  <2> QED BY <1>8, <2>2, <2>3 DEF Settle
<1>9. CASE SettleEvent(r)
  BY <1>9 DEF SettleEvent, AppendTerminal, FileOk, FileFails
<1>10. CASE SettlePersist(r)
  <2>1. task[r] = "persisting" /\ Mode[r] = "async" /\ call[r] # "none"
    BY <1>10 DEF SettlePersist, EventsFollowRecord, InSection
  <2>2. mem' = mem /\ task' = [task EXCEPT ![r] = "leaving"]
    BY <1>10 DEF SettlePersist
  <2> QED BY <1>10, <2>1, <2>2 DEF SettlePersist
<1>11. CASE Unwind(r)
  BY <1>11 DEF Unwind
<1>12. CASE DropDispatch(r)
  BY <1>12 DEF DropDispatch
<1>13. CASE DropLocks(r)
  BY <1>13 DEF DropLocks
<1>14. CASE SyncStart(r)
  BY <1>14 DEF SyncStart
<1>15. CASE SyncError(r)
  BY <1>15 DEF SyncError
<1>16. CASE SyncRecord(r)
  BY <1>16 DEF SyncRecord
<1>17. CASE SyncPersist(r)
  BY <1>17 DEF SyncPersist, Persist, PersistFails, FileOk, FileFails
<1>18. CASE Cancel(r)
  BY <1>18 DEF Cancel
<1>19. CASE CancelEvent(r)
  BY <1>19 DEF CancelEvent, FileOk, FileFails
<1>20. CASE CancelPersist(r)
  BY <1>20 DEF CancelPersist, Persist, PersistFails, FileOk, FileFails
<1>21. CASE Observe(r)
  BY <1>21 DEF Observe
<1>22. CASE Wait(r)
  BY <1>22 DEF Wait
<1>23. CASE WaitReturn(r)
  BY <1>23 DEF WaitReturn
<1> QED
  BY <1>1, <1>2, <1>3, <1>4, <1>5, <1>6, <1>7, <1>8, <1>9, <1>10, <1>11, <1>12,
     <1>13, <1>14, <1>15, <1>16, <1>17, <1>18, <1>19, <1>20, <1>21, <1>22, <1>23
     DEF RunStep, SpawnStep, TaskStep, SyncStep, ClientStep, CancelStep

LEMMA EventsStep ==
  ASSUME RunInv, NEW r \in Run, RunStep(r)
  PROVE  EventsFollowRecord'
<1>t. TypeOK /\ RecordFollowsRun /\ EventsFollowRecord
  BY DEF RunInv
<1> USE <1>t, RunAssumption, ModeAssumption DEF TypeOK, RecordFollowsRun,
     EventsFollowRecord, InSection
<1>1. CASE SpawnInsert(r)
  BY <1>1 DEF SpawnInsert, Unlocked, NoSection, Terminal, Awaiting
<1>2. CASE SpawnPersist(r)
  BY <1>2 DEF SpawnPersist, Persist, PersistFails, FileOk, FileFails, Terminal, Awaiting
<1>3. CASE SpawnReturn(r)
  BY <1>3 DEF SpawnReturn, Unlocked, NoSection, Terminal, Awaiting
<1>4. CASE Probe(r)
  BY <1>4 DEF Probe, Terminal, Awaiting
<1>5. CASE AcquireStep(r)
  BY <1>5 DEF AcquireStep, Terminal, Awaiting, runVars
<1>6. CASE Prepare(r)
  BY <1>6 DEF Prepare, Terminal, Awaiting
<1>7. CASE DispatchReturns(r)
  BY <1>7 DEF DispatchReturns, Terminal, Awaiting
<1>8. CASE Settle(r)
  BY <1>8 DEF Settle, Unlocked, NoSection, Terminal, Awaiting, FinalStatus
<1>9. CASE SettleEvent(r)
  BY <1>9 DEF SettleEvent, AppendTerminal, FileOk, FileFails, Terminal, Awaiting
<1>10. CASE SettlePersist(r)
  BY <1>10
     DEF SettlePersist, Persist, PersistFails, FileOk, FileFails, Unlocked,
         NoSection, Terminal, Awaiting
<1>11. CASE Unwind(r)
  BY <1>11 DEF Unwind, Terminal, Awaiting
<1>12. CASE DropDispatch(r)
  BY <1>12 DEF DropDispatch, Terminal, Awaiting
<1>13. CASE DropLocks(r)
  BY <1>13 DEF DropLocks, Terminal, Awaiting
<1>14. CASE SyncStart(r)
  BY <1>14 DEF SyncStart, Terminal, Awaiting
<1>15. CASE SyncError(r)
  BY <1>15 DEF SyncError, Terminal, Awaiting
<1>16. CASE SyncRecord(r)
  BY <1>16 DEF SyncRecord, Unlocked, NoSection, Terminal, Awaiting
<1>17. CASE SyncPersist(r)
  BY <1>17 DEF SyncPersist, Persist, PersistFails, FileOk, FileFails, Terminal, Awaiting
<1>18. CASE Cancel(r)
  <2>1. /\ section' = [run |-> r, by |-> "cancel", step |-> "event"]
        /\ mem' = [mem EXCEPT ![r] = "cancelled"] /\ mem[r] = "running"
        /\ log' = log /\ failed' = failed
    BY <1>18 DEF Cancel
  <2>2. Mode[r] = "async" /\ log[r] = <<>>
    BY <2>1 DEF Terminal, Awaiting
  <2>3. \A q \in Run : ~InSection(q)
    BY <1>18 DEF Cancel, Unlocked, NoSection
  <2> QED BY <2>1, <2>2, <2>3 DEF Terminal
<1>19. CASE CancelEvent(r)
  <2>1. /\ mem[r] = "cancelled" /\ Mode[r] = "async" /\ log[r] = <<>>
        /\ mem' = mem /\ task' = task
        /\ \A q \in Run : InSection(q) => q = r
    BY <1>19 DEF CancelEvent
  <2>2. CASE /\ log' = [log EXCEPT ![r] = Append(@, "cancelled")]
             /\ section' = [section EXCEPT !.step = "persist"]
             /\ FileOk
    <3>1. log' \in [Run -> Seq(Terminal)] /\ log'[r] = <<"cancelled">>
          /\ \A q \in Run : q # r => log'[q] = log[q]
      BY <2>1, <2>2 DEF Terminal
    <3>2. section = [run |-> r, by |-> "cancel", step |-> "event"]
      BY <1>19 DEF CancelEvent
    <3>3. section' = [run |-> r, by |-> "cancel", step |-> "persist"]
      <4> HIDE <1>t
      <4> QED BY <2>2, <3>2
    <3>4. failed' = failed
      BY <2>2 DEF FileOk
    <3>5. section'.run = r /\ section'.step = "persist" /\ section'.by = "cancel"
      BY <3>3
    <3>6. \A q \in Run : (InSection(q))' => q = r
      BY <3>5
    <3>7. \A q \in Run : q # r => log'[q] = log[q] /\ ~InSection(q) /\ ~(InSection(q))'
      BY <2>1, <3>1, <3>6
    <3>8. \A q \in Run : q # r =>
             /\ log'[q] # <<>> => Mode[q] = "async" /\ mem[q] \in Terminal /\ log'[q] = <<mem[q]>>
             /\ Mode[q] = "async" /\ mem[q] \in Terminal /\ q \notin failed => log'[q] # <<>>
      BY <3>7
    <3> HIDE <1>t
    <3> QED BY SMTT(30), <2>1, <3>1, <3>4, <3>5, <3>6, <3>8 DEF Terminal
  <2>3. CASE section' = NoSection /\ UNCHANGED log /\ FileFails(r)
    BY <2>1, <2>3 DEF NoSection, FileFails
  <2> QED BY <1>19, <2>2, <2>3 DEF CancelEvent
<1>20. CASE CancelPersist(r)
  BY <1>20
     DEF CancelPersist, Persist, PersistFails, FileOk, FileFails, Unlocked,
         NoSection, Terminal, Awaiting
<1>21. CASE Observe(r)
  BY <1>21 DEF Observe, Terminal, Awaiting
<1>22. CASE Wait(r)
  BY <1>22 DEF Wait, Unlocked, NoSection, Terminal, Awaiting
<1>23. CASE WaitReturn(r)
  BY <1>23 DEF WaitReturn, Terminal, Awaiting
<1> QED
  BY <1>1, <1>2, <1>3, <1>4, <1>5, <1>6, <1>7, <1>8, <1>9, <1>10, <1>11, <1>12,
     <1>13, <1>14, <1>15, <1>16, <1>17, <1>18, <1>19, <1>20, <1>21, <1>22, <1>23
     DEF RunStep, SpawnStep, TaskStep, SyncStep, ClientStep, CancelStep

LEMMA HandlesStep ==
  ASSUME RunInv, NEW r \in Run, RunStep(r)
  PROVE  HandlesFollowWaits'
<1>t. TypeOK /\ RecordFollowsRun /\ HandlesFollowWaits
  BY DEF RunInv
<1> USE <1>t, ModeAssumption DEF TypeOK, RecordFollowsRun, HandlesFollowWaits,
     Terminal, Awaiting
<1>1. CASE SpawnInsert(r)
  BY <1>1 DEF SpawnInsert
<1>2. CASE SpawnPersist(r)
  BY <1>2 DEF SpawnPersist, Persist, PersistFails, FileOk, FileFails
<1>3. CASE SpawnReturn(r)
  BY <1>3 DEF SpawnReturn
<1>4. CASE Probe(r)
  BY <1>4 DEF Probe
<1>5. CASE AcquireStep(r)
  BY <1>5 DEF AcquireStep, runVars
<1>6. CASE Prepare(r)
  BY <1>6 DEF Prepare
<1>7. CASE DispatchReturns(r)
  BY <1>7 DEF DispatchReturns
<1>8. CASE Settle(r)
  BY <1>8 DEF Settle, FinalStatus
<1>9. CASE SettleEvent(r)
  BY <1>9 DEF SettleEvent, AppendTerminal, FileOk, FileFails
<1>10. CASE SettlePersist(r)
  BY <1>10 DEF SettlePersist, Persist, PersistFails, FileOk, FileFails
<1>11. CASE Unwind(r)
  BY <1>11 DEF Unwind
<1>12. CASE DropDispatch(r)
  BY <1>12 DEF DropDispatch
<1>13. CASE DropLocks(r)
  BY <1>13 DEF DropLocks
<1>14. CASE SyncStart(r)
  BY <1>14 DEF SyncStart
<1>15. CASE SyncError(r)
  BY <1>15 DEF SyncError
<1>16. CASE SyncRecord(r)
  BY <1>16 DEF SyncRecord
<1>17. CASE SyncPersist(r)
  BY <1>17 DEF SyncPersist, Persist, PersistFails, FileOk, FileFails
<1>18. CASE Cancel(r)
  BY <1>18 DEF Cancel
<1>19. CASE CancelEvent(r)
  BY <1>19 DEF CancelEvent, FileOk, FileFails
<1>20. CASE CancelPersist(r)
  BY <1>20 DEF CancelPersist, Persist, PersistFails, FileOk, FileFails
<1>21. CASE Observe(r)
  BY <1>21 DEF Observe
<1>22. CASE Wait(r)
  BY <1>22 DEF Wait
<1>23. CASE WaitReturn(r)
  <2>1. mem[r] \in Terminal /\ mem' = mem
    BY <1>23 DEF WaitReturn
  <2> QED BY <1>23, <2>1 DEF WaitReturn
<1> QED
  BY <1>1, <1>2, <1>3, <1>4, <1>5, <1>6, <1>7, <1>8, <1>9, <1>10, <1>11, <1>12,
     <1>13, <1>14, <1>15, <1>16, <1>17, <1>18, <1>19, <1>20, <1>21, <1>22, <1>23
     DEF RunStep, SpawnStep, TaskStep, SyncStep, ClientStep, CancelStep

LEMMA DiskStep ==
  ASSUME RunInv, NEW r \in Run, RunStep(r)
  PROVE  DiskFollowsRecord'
<1> SUFFICES ASSUME NEW q \in Run PROVE SavedAsRecorded(q)'
  BY DEF DiskFollowsRecord
<1>t. /\ TypeOK /\ RecordFollowsRun /\ EventsFollowRecord
      /\ SavedAsRecorded(q) /\ SavedAsRecorded(r)
  BY DEF RunInv, DiskFollowsRecord
<1> USE <1>t, ModeAssumption, RunAssumption
    DEF TypeOK, RecordFollowsRun, EventsFollowRecord, SavedAsRecorded, InSection, Terminal,
        Awaiting
<1>1. CASE SpawnInsert(r)
  BY <1>1 DEF SpawnInsert, Unlocked, NoSection
<1>2. CASE SpawnPersist(r)
  BY <1>2 DEF SpawnPersist, Persist, PersistFails, FileOk, FileFails
<1>3. CASE SpawnReturn(r)
  BY <1>3 DEF SpawnReturn
<1>4. CASE Probe(r)
  BY <1>4 DEF Probe
<1>5. CASE AcquireStep(r)
  BY <1>5 DEF AcquireStep, runVars
<1>6. CASE Prepare(r)
  BY <1>6 DEF Prepare
<1>7. CASE DispatchReturns(r)
  BY <1>7 DEF DispatchReturns
<1>8. CASE Settle(r)
  BY <1>8 DEF Settle, Unlocked, NoSection
<1>9. CASE SettleEvent(r)
  BY <1>9 DEF SettleEvent, AppendTerminal, FileOk, FileFails
<1>10. CASE SettlePersist(r)
  BY <1>10 DEF SettlePersist, Persist, PersistFails, FileOk, FileFails, NoSection
<1>11. CASE Unwind(r)
  BY <1>11 DEF Unwind
<1>12. CASE DropDispatch(r)
  BY <1>12 DEF DropDispatch
<1>13. CASE DropLocks(r)
  BY <1>13 DEF DropLocks
<1>14. CASE SyncStart(r)
  BY <1>14 DEF SyncStart
<1>15. CASE SyncError(r)
  BY <1>15 DEF SyncError
<1>16. CASE SyncRecord(r)
  BY <1>16 DEF SyncRecord, Unlocked, NoSection
<1>17. CASE SyncPersist(r)
  BY <1>17 DEF SyncPersist, Persist, PersistFails, FileOk, FileFails
<1>18. CASE Cancel(r)
  BY <1>18 DEF Cancel, Cancellable, Unlocked, NoSection
<1>19. CASE CancelEvent(r)
  BY <1>19 DEF CancelEvent, FileOk, FileFails, NoSection
<1>20. CASE CancelPersist(r)
  BY <1>20 DEF CancelPersist, Persist, PersistFails, FileOk, FileFails, NoSection
<1>21. CASE Observe(r)
  BY <1>21 DEF Observe, Unlocked, NoSection
<1>22. CASE Wait(r)
  BY <1>22 DEF Wait
<1>23. CASE WaitReturn(r)
  BY <1>23 DEF WaitReturn
<1> QED
  BY <1>1, <1>2, <1>3, <1>4, <1>5, <1>6, <1>7, <1>8, <1>9, <1>10, <1>11, <1>12,
     <1>13, <1>14, <1>15, <1>16, <1>17, <1>18, <1>19, <1>20, <1>21, <1>22, <1>23
     DEF RunStep, SpawnStep, TaskStep, SyncStep, ClientStep, CancelStep

--------------------------------------------------------------------------------

LEMMA RunInitInv == Init => RunInv
<1> SUFFICES ASSUME Init PROVE RunInv
  OBVIOUS
<1>1. LockInv
  BY InitInv DEF Init
<1>2. TypeOK
  BY <1>1, BoundAssumption
     DEF Init, LockInv, TypeOK, CallStage, TaskStage, Status, NoSection
<1>3. LocksFollowTask /\ RecordFollowsRun
  BY DEF Init, LockInit, LocksFollowTask, RecordFollowsRun
<1>4. EventsFollowRecord /\ HandlesFollowWaits
  BY RunAssumption
     DEF Init, EventsFollowRecord, HandlesFollowWaits, InSection, NoSection,
         Terminal
<1>5. DiskFollowsRecord
  BY ModeAssumption DEF Init, DiskFollowsRecord, SavedAsRecorded, Terminal
<1> QED BY <1>1, <1>2, <1>3, <1>4, <1>5 DEF RunInv

LEMMA RunStutterInv == RunInv /\ UNCHANGED vars => RunInv'
<1> SUFFICES ASSUME RunInv, UNCHANGED vars PROVE RunInv'
  OBVIOUS
<1>1. LockInv'
  BY StutterInv DEF RunInv, vars
<1>2. TypeOK'
  BY <1>1 DEF RunInv, TypeOK, LockInv, vars, runVars
<1>3. LocksFollowTask' /\ RecordFollowsRun'
  BY DEF RunInv, LocksFollowTask, RecordFollowsRun, Acquiring, Holding, vars,
         lockVars, runVars
<1>4. EventsFollowRecord' /\ HandlesFollowWaits'
  BY DEF RunInv, EventsFollowRecord, HandlesFollowWaits, InSection, vars, runVars
<1>5. DiskFollowsRecord'
  BY DEF RunInv, DiskFollowsRecord, SavedAsRecorded, InSection, vars, runVars
<1> QED BY <1>1, <1>2, <1>3, <1>4, <1>5 DEF RunInv

LEMMA RunNextInv == RunInv /\ [Next]_vars => RunInv'
<1> SUFFICES ASSUME RunInv, [Next]_vars PROVE RunInv'
  OBVIOUS
<1>1. CASE UNCHANGED vars
  BY <1>1, RunStutterInv
<1>2. ASSUME NEW r \in Run, RunStep(r) PROVE RunInv'
  <2>1. LockInv'
    BY <1>2, RunStepLocks DEF RunInv
  <2> QED BY <1>2, <2>1, TypeStep, LocksStep, RecordStep, EventsStep, HandlesStep, DiskStep
             DEF RunInv
<1> QED BY <1>1, <1>2 DEF Next

(* The inductive invariant, with the types of all the variables.           *)
THEOREM RunInvariant == Spec => []RunInv
  BY RunInitInv, RunNextInv, PTL DEF Spec

THEOREM RunTypeCorrect == Spec => []TypeOK
<1>1. RunInv => TypeOK
  BY DEF RunInv
<1> QED BY <1>1, RunInvariant, PTL

(* A terminal status in the map is never replaced, however the end of the  *)
(* task, an early or late cancel and failing file operations interleave.   *)
THEOREM RunTerminalIsFinal == Spec => TerminalIsFinal
<1>1. RunInv /\ [Next]_vars => [\A r \in Run : mem[r] \in Terminal => mem'[r] = mem[r]]_vars
  <2> SUFFICES ASSUME RunInv, NEW q \in Run, RunStep(q),
                      NEW r \in Run, mem[r] \in Terminal
               PROVE  mem'[r] = mem[r]
    BY DEF Next
  <2>1. CASE UNCHANGED mem
    BY <2>1
  <2>2. CASE SpawnInsert(q) \/ Settle(q) \/ SyncRecord(q) \/ Cancel(q)
    <3>1. q = r => ~ SpawnInsert(q)
      BY DEF RunInv, RecordFollowsRun, SpawnInsert, Terminal
    <3>2. q = r /\ Settle(q) => mem' = mem
      BY DEF RunInv, RecordFollowsRun, Settle, Terminal, Awaiting
    <3>3. q = r => ~ SyncRecord(q)
      BY DEF RunInv, RecordFollowsRun, SyncRecord, Terminal, Awaiting
    <3>4. q = r => ~ Cancel(q)
      BY DEF Cancel, Terminal
    <3> QED
      BY <2>2, <3>1, <3>2, <3>3, <3>4
         DEF RunInv, TypeOK, SpawnInsert, Settle, SyncRecord, Cancel
  <2> QED
    BY <2>1, <2>2
       DEF RunStep, SpawnStep, TaskStep, SyncStep, ClientStep, CancelStep,
           SpawnPersist, SpawnReturn, Probe, AcquireStep, runVars, Prepare,
           DispatchReturns, SettleEvent, SettlePersist, Unwind, DropDispatch,
           DropLocks, SyncStart, SyncError, SyncPersist, CancelEvent, CancelPersist,
           Observe, Wait, WaitReturn
<1> QED BY <1>1, RunInvariant, PTL DEF Spec, TerminalIsFinal

(* A spawned run gets its terminal event exactly once, for the status that *)
(* its record keeps, unless the append failed.                             *)
THEOREM RunOneTerminalEvent == Spec => []OneTerminalEvent
<1>1. RunInv => OneTerminalEvent
  <2> SUFFICES ASSUME RunInv, NEW r \in Run
               PROVE  /\ Len(log[r]) <= 1
                      /\ Len(log[r]) = 1 => log[r][1] = mem[r]
                      /\ Mode[r] = "async" /\ mem[r] \in Terminal /\ r \notin failed
                           /\ ~InSection(r) => Len(log[r]) = 1
    BY DEF OneTerminalEvent
  <2>1. CASE log[r] = <<>>
    BY <2>1 DEF RunInv, EventsFollowRecord
  <2>2. CASE log[r] = <<mem[r]>>
    BY <2>2
  <2> QED BY <2>1, <2>2 DEF RunInv, EventsFollowRecord
<1> QED BY <1>1, RunInvariant, PTL

(* No run executes in a scope while another run that claims the scope      *)
(* executes or still has its workspace.                                    *)
THEOREM RunHandoverIsClean == Spec => []HandoverIsClean
<1>1. RunInv => HandoverIsClean
  BY InvExclusion DEF RunInv, LocksFollowTask, HandoverIsClean, Exclusion
<1> QED BY <1>1, RunInvariant, PTL

(* Every way out of a run removes its workspace and releases its locks.    *)
THEOREM RunNothingLeftBehind == Spec => []NothingLeftBehind
<1>1. RunInv => NothingLeftBehind
  <2> SUFFICES ASSUME RunInv, NEW r \in Run, task[r] \in {"none", "done"}
               PROVE  r \notin workspace /\ \A m \in Mutex : owner[m] # r
    BY DEF NothingLeftBehind
  <2>1. ~Acquiring(r) /\ ~Holding(r)
    BY DEF RunInv, LocksFollowTask, Acquiring, Holding
  <2>2. \A m \in Mutex : owner[m] # r
    BY <2>1, RunAssumption DEF RunInv, LockInv, OwnersAreUnderWay
  <2> QED BY <2>2 DEF RunInv, LocksFollowTask
<1> QED BY <1>1, RunInvariant, PTL

(* wait_for_run does not return before the record is terminal.             *)
THEOREM RunWaitMeansSettled == Spec => []WaitMeansSettled
<1>1. RunInv => WaitMeansSettled
  BY DEF RunInv, HandlesFollowWaits, WaitMeansSettled
<1> QED BY <1>1, RunInvariant, PTL

(* run.json tells no end but that of the record.  It holds what a client   *)
(* was told of a spawned run, and at rest what the map holds, unless a     *)
(* file operation failed, or spawn_agent wrote its own copy of the record  *)
(* after a cancel was over: then, and only then, it says running for good. *)
(* Clients may cancel from the moment the handle is in the map.            *)
THEOREM RunRecordIsOnDisk == Spec => []RecordIsOnDisk
<1>1. ASSUME RunInv, NEW r \in Run
      PROVE  /\ disk[r] \in Terminal => disk[r] = mem[r]
             /\ r \notin failed =>
                  /\ Mode[r] = "async" /\ told[r] \in Terminal => OnDisk(r, told[r])
                  /\ Resting(r) => OnDisk(r, mem[r])
  <2>1. /\ SavedAsRecorded(r) /\ RecordFollowsRun /\ TypeOK
    BY <1>1 DEF RunInv, DiskFollowsRecord
  <2> QED
    BY <2>1, ModeAssumption
       DEF SavedAsRecorded, RecordFollowsRun, Resting, OnDisk, Terminal, TypeOK
<1>2. RunInv => RecordIsOnDisk
  BY <1>1 DEF RecordIsOnDisk
<1> QED BY <1>2, RunInvariant, PTL

--------------------------------------------------------------------------------
(* What of a run RunPromise shows.                                         *)
ShownStatus(r) == Promised(r, IF InSection(r) THEN "running" ELSE mem[r])
ShownCopy(r)   == IF r \in failed THEN "none" ELSE Unsaved(r)
ShownSaved(r)  == Promised(r, disk[r])
ShownEvents(r) == IF InSection(r) \/ r \in failed THEN <<>> ELSE log[r]

Hidden(r) ==
  /\ ShownStatus(r)' = ShownStatus(r) /\ ShownCopy(r)' = ShownCopy(r)
  /\ ShownSaved(r)' = ShownSaved(r) /\ ShownEvents(r)' = ShownEvents(r)
Registered(r) ==
  /\ ShownStatus(r) = "absent" /\ ShownStatus(r)' \in {"running"} \cup Terminal
  /\ ShownCopy(r)' = ShownStatus(r)'
  /\ ShownSaved(r)' = ShownSaved(r) /\ ShownEvents(r)' = ShownEvents(r)
FirstSaved(r) ==
  /\ ShownCopy(r) # "none" /\ ShownCopy(r)' = "none"
  /\ ShownSaved(r)' = ShownCopy(r)
  /\ ShownStatus(r)' = ShownStatus(r) /\ ShownEvents(r)' = ShownEvents(r)
Settled(r) ==
  /\ ShownStatus(r) = "running" /\ ShownCopy(r)' = ShownCopy(r)
  /\ ShownStatus(r)' \in Terminal /\ ShownSaved(r)' = ShownStatus(r)'
  /\ ShownCopy(r) = "none" \/ ShownStatus(r)' = "cancelled"
  /\ ShownEvents(r)' = <<ShownStatus(r)'>>
GivenUp(r) ==
  /\ ShownStatus(r)' = "given up" /\ ShownSaved(r)' = "given up"
  /\ ShownCopy(r)' = "none" /\ ShownEvents(r)' = <<>>

(* What happens to one run is a step of RunPromise when nothing of the     *)
(* others is seen to change.                                               *)
LEMMA PromiseOfOne ==
  ASSUME NEW r \in Run, \A q \in Run : q # r => Hidden(q),
         Hidden(r) \/ Registered(r) \/ FirstSaved(r) \/ Settled(r) \/ GivenUp(r)
  PROVE  [Promise!Next]_(Promise!promiseVars)
<1> DEFINE shown == [q \in Run |-> ShownStatus(q)]
           copied == [q \in Run |-> ShownCopy(q)]
           saved == [q \in Run |-> ShownSaved(q)]
           events == [q \in Run |-> ShownEvents(q)]
<1>0. /\ shown' = [q \in Run |-> ShownStatus(q)'] /\ copied' = [q \in Run |-> ShownCopy(q)']
      /\ saved' = [q \in Run |-> ShownSaved(q)'] /\ events' = [q \in Run |-> ShownEvents(q)']
  OBVIOUS
<1>1. /\ shown' = [shown EXCEPT ![r] = ShownStatus(r)']
      /\ copied' = [copied EXCEPT ![r] = ShownCopy(r)']
      /\ saved' = [saved EXCEPT ![r] = ShownSaved(r)']
      /\ events' = [events EXCEPT ![r] = ShownEvents(r)']
  BY <1>0 DEF Hidden
<1>2. /\ shown[r] = ShownStatus(r) /\ copied[r] = ShownCopy(r)
      /\ saved[r] = ShownSaved(r) /\ events[r] = ShownEvents(r)
      /\ shown = [shown EXCEPT ![r] = shown[r]] /\ copied = [copied EXCEPT ![r] = copied[r]]
      /\ saved = [saved EXCEPT ![r] = saved[r]] /\ events = [events EXCEPT ![r] = events[r]]
  OBVIOUS
<1>3. /\ shown = [q \in Run |-> Promised(q, IF InSection(q) THEN "running" ELSE mem[q])]
      /\ copied = [q \in Run |-> IF q \in failed THEN "none" ELSE Unsaved(q)]
      /\ saved = [q \in Run |-> Promised(q, disk[q])]
      /\ events = [q \in Run |-> IF InSection(q) \/ q \in failed THEN <<>> ELSE log[q]]
  BY DEF ShownStatus, ShownCopy, ShownSaved, ShownEvents
<1>4. /\ shown' = [q \in Run |-> Promised(q, IF InSection(q) THEN "running" ELSE mem[q])]'
      /\ copied' = [q \in Run |-> IF q \in failed THEN "none" ELSE Unsaved(q)]'
      /\ saved' = [q \in Run |-> Promised(q, disk[q])]'
      /\ events' = [q \in Run |-> IF InSection(q) \/ q \in failed THEN <<>> ELSE log[q]]'
  BY DEF ShownStatus, ShownCopy, ShownSaved, ShownEvents
<1> HIDE DEF shown, copied, saved, events
<1>5. CASE Hidden(r)
  <2>1. shown' = shown /\ copied' = copied /\ saved' = saved /\ events' = events
    BY <1>1, <1>2, <1>5 DEF Hidden
  <2> QED BY <1>3, <1>4, <2>1 DEF Promise!promiseVars
<1>6. CASE Registered(r)
  <2>0. /\ shown[r] = "absent" /\ saved' = saved /\ events' = events
        /\ \E s \in {"running"} \cup Terminal :
             shown' = [shown EXCEPT ![r] = s] /\ copied' = [copied EXCEPT ![r] = s]
    BY <1>1, <1>2, <1>6 DEF Registered
  <2>1. Promise!Register(r)
    BY <1>3, <1>4, <2>0 DEF Promise!Register
  <2> QED BY <2>1 DEF Promise!Next
<1>7. CASE FirstSaved(r)
  <2>0. /\ copied[r] # "none" /\ saved' = [saved EXCEPT ![r] = copied[r]]
        /\ copied' = [copied EXCEPT ![r] = "none"] /\ shown' = shown /\ events' = events
    BY <1>1, <1>2, <1>7 DEF FirstSaved
  <2>1. Promise!Save(r)
    BY <1>3, <1>4, <2>0 DEF Promise!Save
  <2> QED BY <2>1 DEF Promise!Next
<1>8. CASE Settled(r)
  <2>0. /\ shown[r] = "running" /\ copied' = copied
        /\ \E s \in IF copied[r] = "none" THEN Terminal ELSE {"cancelled"} :
             /\ shown' = [shown EXCEPT ![r] = s]
             /\ saved' = [saved EXCEPT ![r] = s]
             /\ events' = [events EXCEPT ![r] = <<s>>]
    BY <1>1, <1>2, <1>8 DEF Settled
  <2>1. Promise!Settle(r)
    BY <1>3, <1>4, <2>0 DEF Promise!Settle
  <2> QED BY <2>1 DEF Promise!Next
<1>9. CASE GivenUp(r)
  <2>0. /\ shown' = [shown EXCEPT ![r] = "given up"] /\ copied' = [copied EXCEPT ![r] = "none"]
        /\ saved' = [saved EXCEPT ![r] = "given up"] /\ events' = [events EXCEPT ![r] = <<>>]
    BY <1>1, <1>9 DEF GivenUp
  <2>1. Promise!GiveUp(r)
    BY <1>3, <1>4, <2>0 DEF Promise!GiveUp
  <2> QED BY <2>1 DEF Promise!Next
<1> QED BY <1>5, <1>6, <1>7, <1>8, <1>9

(* A step of one run shows nothing of the others.                          *)
LEMMA OthersAreHidden ==
  ASSUME RunInv, NEW r \in Run, RunStep(r), NEW q \in Run, q # r
  PROVE  Hidden(q)
<1> USE RunAssumption DEF RunInv, TypeOK, InSection
<1>1. /\ mem'[q] = mem[q] /\ disk'[q] = disk[q] /\ log'[q] = log[q]
      /\ q \in failed' <=> q \in failed
      /\ (section.run = q)' <=> section.run = q
  <2>1. CASE SpawnInsert(r)
    BY <2>1 DEF SpawnInsert, Unlocked, NoSection
  <2>2. CASE SpawnPersist(r)
    BY <2>2 DEF SpawnPersist, Persist, PersistFails, FileOk, FileFails
  <2>3. CASE Settle(r)
    BY <2>3 DEF Settle, Unlocked, NoSection
  <2>4. CASE SettleEvent(r)
    BY <2>4 DEF SettleEvent, AppendTerminal, FileOk, FileFails
  <2>5. CASE SettlePersist(r)
    BY <2>5 DEF SettlePersist, Persist, PersistFails, FileOk, FileFails, NoSection
  <2>6. CASE SyncRecord(r)
    BY <2>6 DEF SyncRecord, Unlocked, NoSection
  <2>7. CASE SyncPersist(r)
    BY <2>7 DEF SyncPersist, Persist, PersistFails, FileOk, FileFails
  <2>8. CASE Cancel(r)
    BY <2>8 DEF Cancel, Unlocked, NoSection
  <2>9. CASE CancelEvent(r)
    BY <2>9 DEF CancelEvent, FileOk, FileFails, NoSection
  <2>10. CASE CancelPersist(r)
    BY <2>10 DEF CancelPersist, Persist, PersistFails, FileOk, FileFails, NoSection
  <2>11. CASE UNCHANGED <<mem, disk, log, failed, section>>
    BY <2>11
  <2> QED
    BY <2>1, <2>2, <2>3, <2>4, <2>5, <2>6, <2>7, <2>8, <2>9, <2>10, <2>11
       DEF RunStep, SpawnStep, TaskStep, SyncStep, ClientStep, CancelStep, SpawnReturn, Probe,
           AcquireStep, runVars, Prepare, DispatchReturns, Unwind, DropDispatch, DropLocks,
           SyncStart, SyncError, Observe, Wait, WaitReturn
<1>2. call'[q] = call[q] /\ task'[q] = task[q] /\ result'[q] = result[q]
  BY DEF RunStep, SpawnStep, TaskStep, SyncStep, ClientStep, CancelStep, SpawnInsert, SpawnPersist,
     SpawnReturn, Probe, AcquireStep, runVars, Prepare, DispatchReturns, Settle, SettleEvent,
     SettlePersist, Unwind, DropDispatch, DropLocks, SyncStart, SyncError, SyncRecord, SyncPersist,
     Cancel, CancelEvent, CancelPersist, Observe, Wait, WaitReturn
<1>3. Unsaved(q)' = Unsaved(q)
  BY <1>2 DEF Unsaved
<1>4. ShownStatus(q)' = ShownStatus(q) /\ ShownCopy(q)' = ShownCopy(q)
  BY <1>1, <1>3 DEF ShownStatus, ShownCopy, Promised
<1>5. ShownSaved(q)' = ShownSaved(q) /\ ShownEvents(q)' = ShownEvents(q)
  BY <1>1 DEF ShownSaved, ShownEvents, Promised
<1> QED BY <1>4, <1>5 DEF Hidden

(* What a step shows of its own run is one of the promised changes.        *)
LEMMA OneIsPromised ==
  ASSUME RunInv, NEW r \in Run, RunStep(r)
  PROVE  Hidden(r) \/ Registered(r) \/ FirstSaved(r) \/ Settled(r) \/ GivenUp(r)
<1>t. TypeOK /\ RecordFollowsRun /\ EventsFollowRecord /\ SavedAsRecorded(r)
  BY DEF RunInv, DiskFollowsRecord
<1> USE <1>t, RunAssumption, ModeAssumption
    DEF TypeOK, InSection, ShownStatus, ShownCopy, ShownSaved, ShownEvents, Promised
<1>u. /\ call[r] = "inserted" => Unsaved(r) = "running" /\ Mode[r] = "async"
      /\ Mode[r] = "async" /\ call[r] # "inserted" => Unsaved(r) = "none"
      /\ Mode[r] = "sync" /\ task[r] # "persisting" => Unsaved(r) = "none"
      /\ Mode[r] = "sync" /\ task[r] = "persisting" => Unsaved(r) = result[r]
  BY DEF Unsaved, RecordFollowsRun
<1>3. ASSUME FileFails(r) PROVE GivenUp(r)
  BY <1>3 DEF FileFails, GivenUp
<1>4. ASSUME r \in failed, failed' = failed PROVE Hidden(r)
  BY <1>4 DEF Hidden
<1>1. CASE SpawnInsert(r)
  <2>1. /\ mem[r] = "absent" /\ mem'[r] = "running" /\ ~InSection(r)
        /\ UNCHANGED <<section, disk, log, failed>>
    BY <1>1 DEF SpawnInsert, Unlocked, NoSection, RecordFollowsRun
  <2>2. Unsaved(r)' = "running"
    BY <1>1 DEF SpawnInsert, Unsaved
  <2> QED BY <1>4, <2>1, <2>2 DEF Registered
<1>5. CASE SpawnPersist(r)
  <2>1. CASE PersistFails(r, "running")
    BY <1>3, <2>1 DEF PersistFails
  <2>2. CASE Persist(r, "running") /\ r \notin failed
    <3>1. /\ Unsaved(r) = "running" /\ call'[r] # "inserted" /\ Mode[r] = "async"
          /\ disk'[r] = "running" /\ UNCHANGED <<mem, section, log, failed>>
      BY <1>5, <1>u, <2>2 DEF SpawnPersist, Persist, PersistFails, FileOk
    <3>2. Unsaved(r)' = "none"
      BY <3>1 DEF Unsaved
    <3> QED BY <2>2, <3>1, <3>2 DEF FirstSaved
  <2> QED BY <1>4, <1>5, <2>1, <2>2 DEF SpawnPersist, Persist, FileOk
<1>6. CASE Settle(r)
  <2>1. /\ Mode[r] = "async" /\ call[r] # "none" /\ mem[r] \in {"running", "cancelled"}
        /\ ~InSection(r) /\ UNCHANGED <<call, disk, log, failed>>
    BY <1>6 DEF Settle, Unlocked, NoSection, RecordFollowsRun, Awaiting
  <2>2. Unsaved(r)' = Unsaved(r)
    BY <2>1 DEF Unsaved
  <2>3. CASE mem[r] = "cancelled"
    <3>1. mem' = mem /\ section' = section
      BY <1>6, <2>3 DEF Settle, Overtaken
    <3> QED BY <2>1, <2>2, <3>1 DEF Hidden
  <2>4. CASE mem[r] = "running"
    <3>1. section'.run = r
      BY <1>6, <2>4 DEF Settle, Overtaken
    <3>2. log[r] = <<>>
      BY <2>4 DEF EventsFollowRecord, Terminal
    <3> QED BY <2>1, <2>2, <2>4, <3>1, <3>2 DEF Hidden
  <2> QED BY <2>1, <2>3, <2>4
<1>7. CASE SettleEvent(r)
  <2>1. /\ UNCHANGED <<call, task, result, mem, disk>> /\ InSection(r) /\ section'.run = r
    BY <1>7 DEF SettleEvent
  <2>2. Unsaved(r)' = Unsaved(r)
    BY <2>1 DEF Unsaved
  <2> QED BY <1>3, <1>7, <2>1, <2>2 DEF SettleEvent, AppendTerminal, FileOk, Hidden
<1>8. CASE SettlePersist(r) \/ CancelPersist(r)
  <2>1. CASE PersistFails(r, mem[r])
    BY <1>3, <2>1 DEF PersistFails
  <2>2. CASE Persist(r, mem[r]) /\ r \notin failed
    <3>1. /\ InSection(r) /\ section.step = "persist" /\ section' = NoSection
          /\ UNCHANGED <<call, mem, log>> /\ failed' = failed
          /\ disk' = [disk EXCEPT ![r] = mem[r]]
      BY <1>8, <2>2 DEF SettlePersist, CancelPersist, Persist, FileOk
    <3>2. mem[r] \in Terminal /\ Mode[r] = "async" /\ log[r] = <<mem[r]>>
      BY <2>2, <3>1 DEF EventsFollowRecord
    <3>3. Unsaved(r)' = Unsaved(r)
      BY <3>1, <3>2 DEF Unsaved
    <3>4. Unsaved(r) = "none" \/ mem[r] = "cancelled"
      <4>1. CASE section.by = "task"
        <5>1. call[r] # "inserted"
          BY <3>1, <4>1 DEF EventsFollowRecord, RecordFollowsRun
        <5> QED BY <5>1, <3>2, <1>u
      <4>2. CASE section.by = "cancel"
        BY <3>1, <4>2 DEF EventsFollowRecord
      <4> QED BY <1>8, <4>1, <4>2 DEF SettlePersist, CancelPersist
    <3>5. ShownStatus(r) = "running" /\ ShownStatus(r)' = mem[r]
      BY <2>2, <3>1 DEF NoSection
    <3>6. ShownSaved(r)' = mem[r] /\ ShownEvents(r)' = <<mem[r]>>
      BY <2>2, <3>1, <3>2 DEF NoSection
    <3>7. ShownCopy(r)' = ShownCopy(r) /\ ShownCopy(r) = Unsaved(r)
      BY <2>2, <3>1, <3>3
    <3> QED BY <3>2, <3>4, <3>5, <3>6, <3>7 DEF Settled
  <2> QED BY <1>4, <1>8, <2>1, <2>2 DEF SettlePersist, CancelPersist, Persist, FileOk
<1>9. CASE SyncRecord(r)
  <2>1. /\ mem[r] = "absent" /\ mem'[r] = result[r] /\ result[r] \in Terminal
        /\ ~InSection(r) /\ UNCHANGED <<section, disk, log, failed>>
    BY <1>9 DEF SyncRecord, RecordFollowsRun, EventsFollowRecord, Awaiting
  <2>2. Unsaved(r)' = result[r]
    BY <1>9 DEF SyncRecord, Unsaved, RecordFollowsRun
  <2> QED BY <1>4, <2>1, <2>2 DEF Registered
<1>10. CASE SyncPersist(r)
  <2>1. CASE PersistFails(r, result[r])
    BY <1>3, <2>1 DEF PersistFails
  <2>2. CASE Persist(r, result[r]) /\ r \notin failed
    <3>1. /\ ~InSection(r) /\ section' = section /\ mem' = mem /\ log' = log
          /\ failed' = failed /\ disk' = [disk EXCEPT ![r] = result[r]]
          /\ Mode[r] = "sync" /\ task[r] = "persisting" /\ task'[r] = "leaving"
      BY <1>10, <2>2 DEF SyncPersist, Persist, FileOk, EventsFollowRecord
    <3>2. Unsaved(r) = result[r] /\ result[r] # "none"
      BY <3>1, <1>u DEF RecordFollowsRun, Terminal
    <3>3. Unsaved(r)' = "none"
      <4>1. call'[r] # "inserted"
        BY <1>10, <2>2 DEF SyncPersist
      <4> QED BY <3>1, <4>1 DEF Unsaved
    <3> QED BY <2>2, <3>1, <3>2, <3>3 DEF FirstSaved
  <2> QED BY <1>4, <1>10, <2>1, <2>2 DEF SyncPersist, Persist, FileOk
<1>11. CASE Cancel(r)
  <2>1. /\ UNCHANGED <<call, task, result, disk, log, failed>> /\ section'.run = r
        /\ mem[r] = "running" /\ ~InSection(r)
    BY <1>11 DEF Cancel, Cancellable, Unlocked, NoSection
  <2>2. Unsaved(r)' = Unsaved(r) /\ log[r] = <<>>
    BY <2>1 DEF Unsaved, EventsFollowRecord, Terminal
  <2> QED BY <2>1, <2>2 DEF Hidden
<1>12. CASE CancelEvent(r)
  <2>1. UNCHANGED <<call, task, result, mem, disk>> /\ InSection(r)
    BY <1>12 DEF CancelEvent
  <2>2. Unsaved(r)' = Unsaved(r)
    BY <2>1 DEF Unsaved
  <2> QED BY <1>3, <1>12, <2>1, <2>2 DEF CancelEvent, FileOk, Hidden
<1>13. CASE UNCHANGED <<mem, disk, log, failed, section>> /\ Unsaved(r)' = Unsaved(r)
  BY <1>13 DEF Hidden
<1>14. CASE SyncStart(r) \/ SyncError(r) \/ SpawnReturn(r) \/ DropDispatch(r)
  <2>1. Unsaved(r)' = Unsaved(r)
    BY <1>14, <1>u DEF SyncStart, SyncError, SpawnReturn, DropDispatch, Unsaved, RecordFollowsRun
  <2> QED BY <1>13, <1>14, <2>1 DEF SyncStart, SyncError, SpawnReturn, DropDispatch
<1>15. CASE Probe(r) \/ Prepare(r) \/ DispatchReturns(r) \/ Unwind(r) \/ DropLocks(r)
  <2>1. Unsaved(r)' = Unsaved(r)
    BY <1>15, <1>u DEF Probe, Prepare, DispatchReturns, Unwind, DropLocks, Unsaved, Awaiting
  <2> QED BY <1>13, <1>15, <2>1 DEF Probe, Prepare, DispatchReturns, Unwind, DropLocks
<1>16. CASE AcquireStep(r) \/ Observe(r) \/ Wait(r) \/ WaitReturn(r)
  <2>1. Unsaved(r)' = Unsaved(r)
    BY <1>16 DEF AcquireStep, runVars, Observe, Wait, WaitReturn, Unsaved
  <2> QED BY <1>13, <1>16, <2>1 DEF AcquireStep, runVars, Observe, Wait, WaitReturn
<1> QED
  BY <1>1, <1>5, <1>6, <1>7, <1>8, <1>9, <1>10, <1>11, <1>12, <1>14, <1>15, <1>16
     DEF RunStep, SpawnStep, TaskStep, SyncStep, ClientStep, CancelStep

(* A run is settled in one step for all who look at it: its status, its    *)
(* run.json and its terminal event change together, whatever of its files  *)
(* cannot be written.  The record that registers it is written once, and   *)
(* of all that can happen to the run before that only a cancel does.       *)
(* Clients may cancel from the moment the handle is in the map.            *)
THEOREM RunsImplementPromise == Spec => PromiseSpec
<1>1. Init => Promise!Init
  BY RunAssumption, ModeAssumption
     DEF Init, Promise!Init, Promised, Unsaved, InSection, NoSection
<1>2. RunInv /\ [Next]_vars => [Promise!Next]_(Promise!promiseVars)
  <2>1. CASE UNCHANGED vars
    BY <2>1 DEF vars, runVars, Promise!promiseVars, Promised, Unsaved, InSection
  <2>2. ASSUME RunInv, NEW r \in Run, RunStep(r)
        PROVE  [Promise!Next]_(Promise!promiseVars)
    BY <2>2, OthersAreHidden, OneIsPromised, PromiseOfOne
  <2> QED BY <2>1, <2>2 DEF Next
<1> QED BY <1>1, <1>2, RunInvariant, PTL DEF Spec, PromiseSpec, Promise!Spec
================================================================================
