-------------------------- MODULE SharedStateDirProof --------------------------
(***************************************************************************)
(* As long as runs are cancelled at their home only, nobody is told two    *)
(* ends of a run, for any number of processes, runs and requests.  The     *)
(* invariant speaks of one run at a time; a step moves one run and leaves  *)
(* the others as they are, except for a process that ends and for `clean`. *)
(***************************************************************************)
EXTENDS SharedStateDir, FiniteSetTheorems, TLAPS

RunInv(r) == HomeWrites(r) /\ OneEnd(r) /\ OldFile(r) /\ StageInv(r)

--------------------------------------------------------------------------------
(* What the parts of an action do.                                         *)

LEMMA Remembers ==
  ASSUME TypeOK, NEW p \in Process, NEW r \in Run, NEW status, Remember(p, r, status)
  PROVE  \A q \in Process, o \in Run :
           mem'[q][o] = IF q = p /\ o = r THEN status ELSE mem[q][o]
BY DEF TypeOK, Remember

LEMMA Persists ==
  ASSUME TypeOK, NEW p \in Process, NEW r \in Run, NEW status, NEW locked,
         Persist(p, r, status, locked)
  PROVE  \A q \in Process, o \in Run :
           writer'[q][o] = IF q = p /\ o = r
                             THEN [step |-> "begin", status |-> status, locked |-> locked]
                             ELSE writer[q][o]
BY DEF TypeOK, Persist

LEMMA Tells ==
  ASSUME TypeOK, NEW r \in Run, NEW status, Told(r, status)
  PROVE  \A o \in Run :
           verdicts'[o] = IF o = r THEN verdicts[o] \cup ({status} \cap Terminal)
                          ELSE verdicts[o]
BY DEF TypeOK, Told

LEMMA InitInv == Init => StateDirInv
<1> SUFFICES ASSUME Init PROVE StateDirInv
  OBVIOUS
<1>1. TypeOK
  BY HomeAssumption, BoundsAssumption DEF Init, TypeOK, Writer, Query
<1>2. ASSUME NEW r \in Run PROVE RunInv(r)
  <2>1. \A s : ~Knows(r, s)
    BY DEF Init, Knows, InMaps, InQueries, NoQuery, Terminal, Finished
  <2>2. HomeWrites(r)
    BY HomeAssumption DEF Init, HomeWrites, NoWriter
  <2>3. OneEnd(r) /\ OldFile(r)
    BY <2>1 DEF Init, OneEnd, OldFile
  <2>4. StageInv(r)
    BY HomeAssumption DEF Init, StageInv, Asking, NoQuery
  <2> QED
    BY <2>2, <2>3, <2>4 DEF RunInv
<1> QED
  BY <1>1, <1>2 DEF StateDirInv, RunInv

--------------------------------------------------------------------------------
(* Types.                                                                  *)

LEMMA PersistTypes ==
  ASSUME TypeOK, NEW p \in Process, NEW r \in Run, NEW status \in Status,
         NEW locked \in BOOLEAN, Persist(p, r, status, locked)
  PROVE  writer' \in [Process -> [Run -> Writer]]
BY DEF Persist, TypeOK, Writer

LEMMA RememberTypes ==
  ASSUME TypeOK, NEW p \in Process, NEW r \in Run, NEW status \in Status,
         Remember(p, r, status)
  PROVE  mem' \in [Process -> [Run -> Status \cup {"absent"}]]
BY DEF Remember, TypeOK

LEMMA ToldTypes ==
  ASSUME TypeOK, NEW r \in Run, NEW status, Told(r, status)
  PROVE  verdicts' \in [Run -> SUBSET Terminal]
BY DEF Told, TypeOK

LEMMA HomeTypes ==
  ASSUME TypeOK, NEW r \in Run,
         \/ SpawnAccept(r) \/ SyncStart(r) \/ SettleAny(r) \/ StartWait(r) \/ Poll(r)
  PROVE  TypeOK'
<1>0. Home[r] \in Process
  BY HomeAssumption
<1>1. CASE SpawnAccept(r)
  <2>1. "running" \in Status /\ FALSE \in BOOLEAN
    BY DEF Status
  <2> QED
    BY <1>0, <1>1, <2>1, PersistTypes, RememberTypes DEF SpawnAccept, TypeOK
<1>2. CASE SyncStart(r)
  BY <1>2 DEF SyncStart, TypeOK
<1>3. ASSUME NEW status \in Finished, Settle(r, status) \/ SyncRecord(r, status)
      PROVE  TypeOK'
  <2>1. status \in Status /\ TRUE \in BOOLEAN /\ FALSE \in BOOLEAN
    BY DEF Status, Terminal
  <2> QED
    BY <1>0, <1>3, <2>1, PersistTypes, RememberTypes DEF Settle, SyncRecord, TypeOK
<1>4. CASE StartWait(r)
  BY <1>4 DEF StartWait, TypeOK
<1>5. CASE Poll(r)
  BY <1>5, ToldTypes DEF Poll, Ends, TypeOK
<1> QED
  BY <1>1, <1>2, <1>3, <1>4, <1>5 DEF SettleAny

LEMMA ProcessTypes ==
  ASSUME TypeOK, NEW p \in Process, NEW r \in Run,
         WriteStep(p, r) \/ Cancel(p, r) \/ Answer(p, r) \/ List(p, r)
  PROVE  TypeOK'
<1>0. writer[p][r] \in Writer
  BY DEF TypeOK
<1>1. CASE Truncate(p, r)
  <2>1. [writer[p][r] EXCEPT !.step = "open"] \in Writer
    BY <1>0, <1>1 DEF Truncate, Writer, NoWriter
  <2>2. writer' \in [Process -> [Run -> Writer]]
    BY <1>1, <2>1 DEF Truncate, TypeOK
  <2> QED
    BY <1>1, <2>2 DEF Truncate, TypeOK
<1>2. CASE Write(p, r)
  <2>1. writer[p][r].status \in Status
    BY <1>0 DEF Writer, NoWriter, Status
  <2>2. verdicts' \in [Run -> SUBSET Terminal]
    BY <1>2, ToldTypes DEF Write, TypeOK
  <2>3. writer' \in [Process -> [Run -> Writer]]
    BY <1>2 DEF Write, TypeOK, Writer
  <2>4. file' \in [Run -> Status \cup {"none", "bare", "torn"}]
    BY <1>2, <2>1 DEF Write, TypeOK
  <2>5. work' \in [Run -> {"idle", "accepting", "running", "executing", "settled", "lost"}]
    BY <1>2 DEF Write, TypeOK
  <2> QED
    BY <1>2, <2>2, <2>3, <2>4, <2>5 DEF Write, TypeOK
<1>3. CASE Cancel(p, r)
  <2>1. "cancelled" \in Status /\ TRUE \in BOOLEAN
    BY DEF Status, Terminal
  <2> QED
    BY <1>3, <2>1, PersistTypes, RememberTypes DEF Cancel, TypeOK
<1>4. CASE Answer(p, r) \/ List(p, r)
  BY <1>4, ToldTypes DEF Answer, List, TypeOK
<1> QED
  BY <1>1, <1>2, <1>3, <1>4 DEF WriteStep

LEMMA QueryTypes ==
  ASSUME TypeOK, NEW p \in Process, NEW c \in Caller, QueryStep(p, c) PROVE TypeOK'
<1>0. query[p][c] \in Query
  BY DEF TypeOK
<1>1. ASSUME NEW r \in Run, Miss(p, c, r) PROVE TypeOK'
  <2>1. [step |-> "missed", run |-> r, status |-> "running"] \in Query
    BY DEF Query, Status
  <2> QED
    BY <1>1, <2>1 DEF Miss, TypeOK
<1>2. CASE Load(p, c)
  <2>1. ASSUME file[query[p][c].run] \in Readable
        PROVE  [query[p][c] EXCEPT !.step = "read", !.status = file[query[p][c].run]] \in Query
    <3>1. query[p][c] \in [step : {"missed", "read"}, run : Run, status : Status]
      BY <1>0, <1>2 DEF Load, Query, NoQuery
    <3> QED
      BY <2>1, <3>1 DEF Query, Readable
  <2>2. query' \in [Process -> [Caller -> Query]]
    BY <1>2, <2>1 DEF Load, TypeOK, Query
  <2> QED
    BY <1>2, <2>2 DEF Load, TypeOK
<1>3. CASE Insert(p, c)
  <2>1. query[p][c].run \in Run /\ query[p][c].status \in Status
    BY <1>0, <1>3 DEF Insert, Query, NoQuery
  <2>2. query' \in [Process -> [Caller -> Query]]
    BY <1>3 DEF Insert, TypeOK, Query
  <2> QED
    BY <1>3, <2>1, <2>2, RememberTypes, ToldTypes DEF Insert, TypeOK
<1> QED
  BY <1>1, <1>2, <1>3 DEF QueryStep

LEMMA TypesStay == ASSUME TypeOK, [Next]_vars PROVE TypeOK'
<1>1. CASE UNCHANGED vars
  BY <1>1 DEF TypeOK, vars
<1>2. ASSUME NEW p \in Process, Exit(p) PROVE TypeOK'
  BY <1>2, BoundsAssumption DEF Exit, TypeOK, Writer, Query
<1>3. CASE Clean
  BY <1>3, BoundsAssumption DEF Clean, TypeOK
<1> QED
  BY <1>1, <1>2, <1>3, HomeTypes, ProcessTypes, QueryTypes DEF Next

--------------------------------------------------------------------------------
(* Steps that leave a run alone.                                           *)

About(r, q) == q # NoQuery /\ q.run = r

Same(r) ==
  /\ work'[r] = work[r] /\ file'[r] = file[r] /\ verdicts'[r] = verdicts[r]
  /\ \A p \in Process : mem'[p][r] = mem[p][r] /\ writer'[p][r] = writer[p][r]
  /\ \A p \in Process, c \in Caller :
       About(r, query'[p][c]) \/ About(r, query[p][c]) => query'[p][c] = query[p][c]

LEMMA Frame ==
  ASSUME TypeOK, TypeOK', NEW r \in Run, RunInv(r), Same(r) PROVE RunInv(r)'
<1>0. Home[r] \in Process
  BY HomeAssumption
<1>1. ASSUME NEW s PROVE InQueries(r, s)' = InQueries(r, s)
  <2>1. \A p \in Process, c \in Caller :
          /\ query'[p][c].step = "read" /\ query'[p][c].run = r => About(r, query'[p][c])
          /\ query[p][c].step = "read" /\ query[p][c].run = r => About(r, query[p][c])
    BY DEF About, NoQuery
  <2> QED
    BY <2>1 DEF InQueries, Same
<1>2. \A s : InMaps(r, s)' = InMaps(r, s)
  BY DEF InMaps, Same
<1>3. \A s : Knows(r, s)' = Knows(r, s)
  BY <1>1, <1>2 DEF Knows, Same
<1>4. \A p \in Process : Asking(p, r)' = Asking(p, r)
  BY DEF Asking, Same, About
<1>5. AskingOld(r)' = AskingOld(r)
  <2>1. \A c \in Caller :
          /\ query'[Home[r]][c].step = "read" /\ query'[Home[r]][c].run = r
               => About(r, query'[Home[r]][c])
          /\ query[Home[r]][c].step = "read" /\ query[Home[r]][c].run = r
               => About(r, query[Home[r]][c])
    BY DEF About, NoQuery
  <2> QED
    BY <1>0, <2>1 DEF AskingOld, Same
<1>6. HomeWrites(r)'
  BY <1>0 DEF RunInv, HomeWrites, Same
<1>7. OneEnd(r)'
  BY <1>3 DEF RunInv, OneEnd
<1>8. OldFile(r)'
  BY <1>1 DEF RunInv, OldFile, Same
<1>9. StageInv(r)'
  <2>1. \A p \in Process, c \in Caller : query'[p][c].run = r /\ query'[p][c].step = "read"
          => query'[p][c] = query[p][c]
    BY DEF Same, About, NoQuery
  <2> QED
    BY <1>0, <1>3, <1>4, <1>5, <2>1 DEF RunInv, StageInv, Same, NothingKnown
<1> QED
  BY <1>6, <1>7, <1>8, <1>9 DEF RunInv

(* A step that lets at most x be known of a run.                           *)
Learns(r, x) ==
  /\ \A p \in Process : mem'[p][r] \in {mem[p][r], x, "absent", "running"}
  /\ \A p \in Process, c \in Caller :
       query'[p][c].step = "read" /\ query'[p][c].run = r
         => query'[p][c] = query[p][c] \/ query'[p][c].status \in {x, "running"}
  /\ file'[r] \in {file[r], x, "none", "bare", "torn", "running"}
  /\ verdicts'[r] \subseteq verdicts[r] \cup {x}

LEMMA Learned ==
  ASSUME NEW r \in Run, NEW x, Learns(r, x), NEW s
  PROVE  /\ InQueries(r, s)' => InQueries(r, s) \/ s = x \/ s \notin Terminal
         /\ Knows(r, s)' => Knows(r, s) \/ s = x
<1>1. "absent" \notin Terminal /\ "running" \notin Terminal /\ "none" \notin Terminal
      /\ "bare" \notin Terminal /\ "torn" \notin Terminal
  BY DEF Terminal, Finished
<1>2. InQueries(r, s)' => InQueries(r, s) \/ s = x \/ s \notin Terminal
  BY <1>1 DEF InQueries, Learns
<1>3. InMaps(r, s)' => InMaps(r, s) \/ s = x \/ s \notin Terminal
  BY <1>1 DEF InMaps, Learns
<1> QED
  BY <1>1, <1>2, <1>3 DEF Knows, Learns

--------------------------------------------------------------------------------
(* The home of a run.                                                      *)

LEMMA HomeOthers ==
  ASSUME TypeOK, NEW x \in Run,
         \/ SpawnAccept(x) \/ SyncStart(x) \/ SettleAny(x) \/ StartWait(x) \/ Poll(x),
         NEW r \in Run, r # x
  PROVE  Same(r)
<1>0. Home[x] \in Process
  BY HomeAssumption
<1>1. CASE SpawnAccept(x)
  <2>1. \A q \in Process : mem'[q][r] = mem[q][r]
    BY <1>0, <1>1, Remembers DEF SpawnAccept
  <2>2. \A q \in Process : writer'[q][r] = writer[q][r]
    BY <1>0, <1>1 DEF SpawnAccept, Persist, TypeOK
  <2> QED
    BY <1>1, <2>1, <2>2 DEF SpawnAccept, Same, TypeOK
<1>2. CASE SyncStart(x)
  BY <1>2 DEF SyncStart, Same, TypeOK
<1>3. ASSUME NEW status \in Finished, Settle(x, status) PROVE Same(r)
  <2>1. \A q \in Process : mem'[q][r] = mem[q][r]
    BY <1>0, <1>3 DEF Settle, Remember, TypeOK
  <2>2. \A q \in Process : writer'[q][r] = writer[q][r]
    BY <1>0, <1>3 DEF Settle, Persist, TypeOK
  <2> QED
    BY <1>3, <2>1, <2>2 DEF Settle, Same, TypeOK
<1>6. ASSUME NEW status \in Finished, SyncRecord(x, status) PROVE Same(r)
  <2>1. \A q \in Process : mem'[q][r] = mem[q][r]
    BY <1>0, <1>6 DEF SyncRecord, Remember, TypeOK
  <2>2. \A q \in Process : writer'[q][r] = writer[q][r]
    BY <1>0, <1>6 DEF SyncRecord, Persist, TypeOK
  <2> QED
    BY <1>6, <2>1, <2>2 DEF SyncRecord, Same, TypeOK
<1>4. CASE StartWait(x)
  BY <1>4 DEF StartWait, Same
<1>5. CASE Poll(x)
  BY <1>5, Tells DEF Poll, Same
<1> QED
  BY <1>1, <1>2, <1>3, <1>4, <1>5, <1>6 DEF SettleAny

LEMMA Idle ==
  ASSUME TypeOK, NEW r \in Run, StageInv(r), work[r] = "idle"
  PROVE  NothingKnown(r)
<1>1. \A p \in Process, c \in Caller : ~(query[p][c].step = "read" /\ query[p][c].run = r)
  BY DEF StageInv, Asking, NoQuery
<1> QED
  BY <1>1 DEF StageInv, NothingKnown, Knows, InMaps, InQueries, Terminal, Finished

LEMMA SpawnStays ==
  ASSUME TypeOK, TypeOK', NEW r \in Run, RunInv(r), SpawnAccept(r) PROVE RunInv(r)'
<1> DEFINE h == Home[r]
<1>0. h \in Process /\ NothingKnown(r)
  BY HomeAssumption, Idle DEF RunInv, SpawnAccept
<1>1. /\ \A p \in Process : mem'[p][r] = IF p = h THEN "running" ELSE mem[p][r]
      /\ \A p \in Process : writer'[p][r] =
           IF p = h THEN [step |-> "begin", status |-> "running", locked |-> FALSE]
           ELSE writer[p][r]
      /\ query' = query /\ verdicts' = verdicts /\ file' = file
      /\ work'[r] = "accepting"
  <2>1. \A p \in Process : mem'[p][r] = IF p = h THEN "running" ELSE mem[p][r]
    BY <1>0, Remembers DEF SpawnAccept
  <2>2. \A p \in Process : writer'[p][r] =
          IF p = h THEN [step |-> "begin", status |-> "running", locked |-> FALSE]
          ELSE writer[p][r]
    BY <1>0 DEF SpawnAccept, Persist, TypeOK
  <2> QED
    BY <2>1, <2>2 DEF SpawnAccept, TypeOK
<1>2. \A s \in Terminal : ~Knows(r, s)'
  BY <1>0, <1>1, Learned DEF Learns, NothingKnown, Terminal, Finished
<1>3. HomeWrites(r)'
  BY <1>0, <1>1 DEF RunInv, HomeWrites
<1>4. OneEnd(r)'
  BY <1>2 DEF OneEnd
<1>5. OldFile(r)'
  BY <1>1, <1>2 DEF OldFile, StageInv, RunInv, SpawnAccept
<1>6. StageInv(r)'
  <2>1. ~Asking(h, r)'
    BY <1>0, <1>1 DEF RunInv, StageInv, SpawnAccept, Asking
  <2> QED
    BY <1>0, <1>1, <1>2, <2>1 DEF StageInv, NothingKnown, NoWriter
<1> QED
  BY <1>3, <1>4, <1>5, <1>6 DEF RunInv

LEMMA SyncStartStays ==
  ASSUME TypeOK, TypeOK', NEW r \in Run, RunInv(r), SyncStart(r) PROVE RunInv(r)'
<1>0. Home[r] \in Process /\ NothingKnown(r)
  BY HomeAssumption, Idle DEF RunInv, SyncStart
<1>1. /\ UNCHANGED <<mem, writer, query, verdicts>>
      /\ file'[r] = "bare" /\ work'[r] = "executing"
  BY DEF SyncStart, TypeOK
<1>2. \A s \in Terminal : ~Knows(r, s)'
  BY <1>0, <1>1, Learned DEF Learns, NothingKnown
<1>3. \A p \in Process, c \in Caller : query'[p][c].run = r => query'[p][c].step # "read"
  BY <1>1 DEF RunInv, StageInv, SyncStart, Asking, NoQuery
<1> QED
  BY <1>0, <1>1, <1>2, <1>3
  DEF RunInv, HomeWrites, OneEnd, OldFile, StageInv, SyncStart

(* Settling, with the lock held until the file is written.                 *)
LEMMA SettleStays ==
  ASSUME TypeOK, TypeOK', NEW r \in Run, NEW x \in Finished, RunInv(r), Settle(r, x)
  PROVE  RunInv(r)'
<1> DEFINE h == Home[r]
<1>0. h \in Process /\ NothingKnown(r) /\ mem[h][r] = "running" /\ ~Asking(h, r)
  BY HomeAssumption DEF RunInv, StageInv, Settle
<1>1. /\ \A p \in Process : mem'[p][r] = IF p = h THEN x ELSE mem[p][r]
      /\ \A p \in Process : writer'[p][r] =
           IF p = h THEN [step |-> "begin", status |-> x, locked |-> TRUE]
           ELSE writer[p][r]
      /\ query' = query /\ verdicts' = verdicts /\ file' = file
      /\ work'[r] = "settled"
  <2>1. \A p \in Process : mem'[p][r] = IF p = h THEN x ELSE mem[p][r]
    BY <1>0 DEF Settle, Remember, TypeOK
  <2>2. \A p \in Process : writer'[p][r] =
          IF p = h THEN [step |-> "begin", status |-> x, locked |-> TRUE]
          ELSE writer[p][r]
    BY <1>0 DEF Settle, Persist, TypeOK
  <2> QED
    BY <2>1, <2>2 DEF Settle, TypeOK
<1>2. \A s \in Terminal : Knows(r, s)' => s = x
  BY <1>0, <1>1, Learned DEF Learns, NothingKnown
<1>3. HomeWrites(r)'
  BY <1>0, <1>1 DEF RunInv, HomeWrites
<1>4. OneEnd(r)'
  BY <1>2 DEF OneEnd
<1>5. OldFile(r)'
  <2>1. \A s \in Terminal, p \in Process : mem[p][r] # s
    BY <1>0 DEF NothingKnown, Knows, InMaps
  <2> QED
    BY <1>0, <1>1, <2>1 DEF OldFile, NothingKnown, Knows, InQueries
<1>6. StageInv(r)'
  <2>1. ~AskingOld(r)' /\ ~Asking(h, r)'
    BY <1>0, <1>1 DEF AskingOld, Asking, NoQuery
  <2>2. /\ mem'[h][r] = x /\ x # "running"
        /\ writer'[h][r].locked /\ writer'[h][r].step = "begin"
    BY <1>0, <1>1 DEF Finished
  <2> QED
    BY <1>1, <2>1, <2>2 DEF StageInv
<1> QED
  BY <1>3, <1>4, <1>5, <1>6 DEF RunInv

(* The end of run_agent, whose run.json never said "running".              *)
LEMMA SyncRecordStays ==
  ASSUME TypeOK, TypeOK', NEW r \in Run, NEW x \in Finished, RunInv(r), SyncRecord(r, x)
  PROVE  RunInv(r)'
<1> DEFINE h == Home[r]
<1>0. /\ h \in Process /\ file[r] \in {"none", "bare"} /\ verdicts[r] = {}
      /\ \A p \in Process : mem[p][r] = "absent"
      /\ \A p \in Process, c \in Caller : query[p][c].run = r => query[p][c].step # "read"
  BY HomeAssumption DEF RunInv, StageInv, SyncRecord
<1>1. /\ \A p \in Process : mem'[p][r] = IF p = h THEN x ELSE mem[p][r]
      /\ \A p \in Process : writer'[p][r] =
           IF p = h THEN [step |-> "begin", status |-> x, locked |-> FALSE]
           ELSE writer[p][r]
      /\ query' = query /\ verdicts' = verdicts /\ file' = file
      /\ work'[r] = "settled"
  <2>1. \A p \in Process : mem'[p][r] = IF p = h THEN x ELSE mem[p][r]
    BY <1>0 DEF SyncRecord, Remember, TypeOK
  <2>2. \A p \in Process : writer'[p][r] =
          IF p = h THEN [step |-> "begin", status |-> x, locked |-> FALSE]
          ELSE writer[p][r]
    BY <1>0 DEF SyncRecord, Persist, TypeOK
  <2> QED
    BY <2>1, <2>2 DEF SyncRecord, TypeOK
<1>2. \A s \in Terminal : Knows(r, s)' => s = x
  BY <1>0, <1>1 DEF Knows, InMaps, InQueries, Terminal, Finished
<1>3. HomeWrites(r)'
  BY <1>0, <1>1 DEF RunInv, HomeWrites
<1>4. OneEnd(r)' /\ OldFile(r)'
  BY <1>0, <1>1, <1>2 DEF OneEnd, OldFile
<1>5. StageInv(r)'
  BY <1>0, <1>1 DEF StageInv, AskingOld, Finished
<1> QED
  BY <1>3, <1>4, <1>5 DEF RunInv

(* Being told or shown what the file says.                                 *)
LEMMA ToldStays ==
  ASSUME TypeOK, TypeOK', NEW r \in Run, NEW x, RunInv(r),
         UNCHANGED <<work, mem, writer, file, query>>, Told(r, x),
         x \in Terminal => Knows(r, x) /\ file[r] # "running"
  PROVE  RunInv(r)'
<1>1. verdicts'[r] = verdicts[r] \cup ({x} \cap Terminal)
  BY Tells
<1>2. \A s \in Terminal : Knows(r, s)' => Knows(r, s)
  BY <1>1 DEF Knows, InMaps, InQueries
<1>3. HomeWrites(r)' /\ OneEnd(r)'
  BY <1>2 DEF RunInv, HomeWrites, OneEnd
<1>4. OldFile(r)'
  BY <1>1 DEF RunInv, OldFile, InQueries
<1>5. x \in Terminal => work[r] # "idle" /\ work[r] # "executing"
  <2>1. work[r] = "idle" => NothingKnown(r)
    BY Idle DEF RunInv
  <2>2. work[r] = "executing" => NothingKnown(r)
    BY DEF RunInv, StageInv, NothingKnown, Knows, InMaps, InQueries, Terminal, Finished
  <2> QED
    BY <2>1, <2>2 DEF NothingKnown
<1>6. StageInv(r)'
  <2>1. x \in Terminal => ~NothingKnown(r)
    BY DEF NothingKnown
  <2> QED
    BY <1>1, <1>2, <1>5, <2>1 DEF RunInv, StageInv, Asking, AskingOld, NothingKnown
<1> QED
  BY <1>3, <1>4, <1>6 DEF RunInv

--------------------------------------------------------------------------------
(* The file.                                                               *)

LEMMA Writers ==
  ASSUME TypeOK, NEW p \in Process, NEW r \in Run, RunInv(r), writer[p][r] # NoWriter
  PROVE  /\ p = Home[r] /\ work[r] \in {"accepting", "settled", "lost"}
         /\ writer[p][r].status = mem[p][r]
         /\ work[r] = "accepting" => mem[p][r] = "running"
         /\ work[r] # "accepting" => mem[p][r] \in Terminal
<1>1. p = Home[r] /\ writer[p][r].status = mem[p][r]
  BY DEF RunInv, HomeWrites
<1>2. work[r] \in {"idle", "accepting", "running", "executing", "settled", "lost"}
  BY DEF TypeOK
<1>3. writer[p][r].status \in Status
  BY DEF TypeOK, Writer
<1> QED
  BY <1>1, <1>2, <1>3 DEF RunInv, StageInv, Status, Terminal

LEMMA TruncateStays ==
  ASSUME TypeOK, TypeOK', NEW p \in Process, NEW r \in Run, RunInv(r), Truncate(p, r)
  PROVE  RunInv(r)'
<1>0. writer[p][r] # NoWriter /\ writer[p][r] \in Writer
  BY DEF Truncate, NoWriter, TypeOK
<1>1. /\ p = Home[r] /\ work[r] \in {"accepting", "settled", "lost"}
      /\ writer[p][r].status = mem[p][r]
  BY <1>0, Writers
<1>2. /\ \A q \in Process : q # p => writer'[q][r] = writer[q][r]
      /\ writer'[p][r] # NoWriter /\ writer'[p][r].status = writer[p][r].status
      /\ writer'[p][r].locked = writer[p][r].locked
      /\ file'[r] = "torn" /\ UNCHANGED <<work, mem, query, verdicts>>
  <2>1. writer[p][r] \in [step : {"begin", "open"}, status : Status, locked : BOOLEAN]
    BY <1>0 DEF Writer
  <2>2. writer'[p][r] = [writer[p][r] EXCEPT !.step = "open"]
    BY DEF Truncate, TypeOK
  <2> QED
    BY <2>1, <2>2 DEF Truncate, TypeOK, NoWriter
<1>3. \A s \in Terminal : Knows(r, s)' => Knows(r, s)
  BY <1>2 DEF Knows, InMaps, InQueries, Terminal, Finished
<1>4. HomeWrites(r)'
  BY <1>1, <1>2 DEF RunInv, HomeWrites
<1>5. OneEnd(r)' /\ OldFile(r)'
  BY <1>2, <1>3 DEF RunInv, OneEnd, OldFile
<1>6. StageInv(r)'
  BY <1>0, <1>1, <1>2, <1>3 DEF RunInv, StageInv, NothingKnown, Asking, AskingOld
<1> QED
  BY <1>4, <1>5, <1>6 DEF RunInv

LEMMA WriteStays ==
  ASSUME TypeOK, TypeOK', NEW p \in Process, NEW r \in Run, RunInv(r), Write(p, r)
  PROVE  RunInv(r)'
<1> DEFINE x == writer[p][r].status
<1>0. writer[p][r] # NoWriter
  BY DEF Write, NoWriter
<1>1. /\ p = Home[r] /\ work[r] \in {"accepting", "settled", "lost"} /\ x = mem[p][r]
      /\ work[r] = "accepting" => x = "running"
      /\ work[r] # "accepting" => x \in Terminal
  BY <1>0, Writers
<1>2. /\ \A q \in Process : q # p => writer'[q][r] = writer[q][r]
      /\ writer'[p][r] = NoWriter
      /\ file'[r] \in {"none", x} /\ UNCHANGED <<mem, query>>
      /\ work'[r] = IF work[r] = "accepting" THEN "running" ELSE work[r]
      /\ verdicts'[r] \subseteq verdicts[r] \cup ({x} \cap Terminal)
  <2>1. verdicts'[r] \subseteq verdicts[r] \cup ({x} \cap Terminal)
    BY DEF Write, Told, TypeOK
  <2> QED
    BY <2>1 DEF Write, TypeOK
<1>3. x \in Terminal => Knows(r, x)
  BY <1>1 DEF Knows, InMaps
<1>4. \A s \in Terminal : Knows(r, s)' => Knows(r, s)
  <2>1. Learns(r, x)
    BY <1>2 DEF Learns
  <2> QED
    BY <1>3, <2>1, Learned
<1>5. HomeWrites(r)'
  BY <1>1, <1>2 DEF RunInv, HomeWrites
<1>6. OneEnd(r)'
  BY <1>4 DEF RunInv, OneEnd
<1>7. CASE work[r] = "accepting"
  <2>1. NothingKnown(r)'
    BY <1>4, <1>7 DEF RunInv, StageInv, NothingKnown
  <2>2. OldFile(r)'
    BY <2>1 DEF NothingKnown, Knows, InMaps, OldFile
  <2>3. StageInv(r)'
    BY <1>1, <1>2, <1>7, <2>1 DEF RunInv, StageInv, Asking
  <2> QED
    BY <1>5, <1>6, <2>2, <2>3 DEF RunInv
<1>8. CASE work[r] # "accepting"
  <2>1. file'[r] # "running"
    BY <1>1, <1>2, <1>8 DEF Terminal, Finished
  <2>2. OldFile(r)'
    BY <2>1 DEF OldFile
  <2>3. work[r] = "lost" => \A s \in Terminal : Knows(r, s) => s = "cancelled"
    <3>1. work[r] = "lost" => x = "cancelled"
      BY <1>0, <1>1 DEF RunInv, StageInv
    <3> QED
      BY <1>1, <1>3, <1>8, <3>1 DEF RunInv, OneEnd
  <2>4. StageInv(r)'
    BY <1>1, <1>2, <1>4, <1>8, <2>1, <2>3 DEF RunInv, StageInv, AskingOld
  <2> QED
    BY <1>5, <1>6, <2>2, <2>4 DEF RunInv
<1> QED
  BY <1>7, <1>8

LEMMA ProcessOthers ==
  ASSUME TypeOK, NEW p \in Process, NEW x \in Run,
         WriteStep(p, x) \/ Cancel(p, x) \/ Answer(p, x) \/ List(p, x),
         NEW r \in Run, r # x
  PROVE  Same(r)
<1>1. CASE Truncate(p, x)
  BY <1>1 DEF Truncate, Same, TypeOK
<1>2. CASE Write(p, x)
  <2>1. verdicts'[r] = verdicts[r]
    BY <1>2 DEF Write, Told, TypeOK
  <2> QED
    BY <1>2, <2>1 DEF Write, Same, TypeOK
<1>3. CASE Cancel(p, x)
  <2>1. \A q \in Process : mem'[q][r] = mem[q][r]
    BY <1>3 DEF Cancel, Remember, TypeOK
  <2>2. \A q \in Process : writer'[q][r] = writer[q][r]
    BY <1>3 DEF Cancel, Persist, TypeOK
  <2> QED
    BY <1>3, <2>1, <2>2 DEF Cancel, Same, TypeOK
<1>4. CASE Answer(p, x) \/ List(p, x)
  BY <1>4, Tells DEF Answer, List, Same
<1> QED
  BY <1>1, <1>2, <1>3, <1>4 DEF WriteStep

LEMMA CancelStays ==
  ASSUME TypeOK, TypeOK', ~ForeignCancel, NEW p \in Process, NEW r \in Run,
         RunInv(r), Cancel(p, r)
  PROVE  RunInv(r)'
<1>0. p = Home[r] /\ mem[p][r] = "running"
  BY DEF Cancel
<1>1. work[r] \in {"running", "lost"}
  <2>1. work[r] \in {"idle", "accepting", "running", "executing", "settled", "lost"}
    BY DEF TypeOK
  <2> QED
    BY <1>0, <2>1 DEF RunInv, StageInv, Cancel
<1>2. /\ \A q \in Process : mem'[q][r] = IF q = p THEN "cancelled" ELSE mem[q][r]
      /\ \A q \in Process : writer'[q][r] =
           IF q = p THEN [step |-> "begin", status |-> "cancelled", locked |-> TRUE]
           ELSE writer[q][r]
      /\ UNCHANGED <<query, verdicts, file>>
      /\ work'[r] = IF work[r] = "running" THEN "settled" ELSE "lost"
  <2>1. \A q \in Process : mem'[q][r] = IF q = p THEN "cancelled" ELSE mem[q][r]
    BY DEF Cancel, Remember, TypeOK
  <2>2. \A q \in Process : writer'[q][r] =
          IF q = p THEN [step |-> "begin", status |-> "cancelled", locked |-> TRUE]
          ELSE writer[q][r]
    BY DEF Cancel, Persist, TypeOK
  <2> QED
    BY <1>0, <1>1, <2>1, <2>2 DEF Cancel, TypeOK
<1>3. \A s \in Terminal : Knows(r, s) => s = "cancelled"
  BY <1>0, <1>1 DEF RunInv, StageInv, NothingKnown
<1>4. \A s \in Terminal : Knows(r, s)' => s = "cancelled"
  <2>1. Learns(r, "cancelled")
    BY <1>2 DEF Learns
  <2> QED
    BY <1>3, <2>1, Learned
<1>5. HomeWrites(r)' /\ OneEnd(r)'
  BY <1>0, <1>2, <1>4 DEF RunInv, HomeWrites, OneEnd
<1>6. OldFile(r)'
  <2>1. writer'[p][r].locked /\ writer'[p][r].step = "begin"
    BY <1>2
  <2> QED
    BY <1>0, <1>2, <2>1 DEF RunInv, OldFile, InQueries
<1>7. StageInv(r)'
  <2>1. work[r] = "running" => ~Asking(p, r)' /\ ~AskingOld(r)'
    BY <1>0, <1>2 DEF RunInv, StageInv, Asking, AskingOld, NoQuery
  <2>2. mem'[p][r] = "cancelled" /\ writer'[p][r].locked /\ writer'[p][r].step = "begin"
    BY <1>2
  <2> QED
    BY <1>0, <1>1, <1>2, <1>4, <2>1, <2>2 DEF StageInv
<1> QED
  BY <1>5, <1>6, <1>7 DEF RunInv

--------------------------------------------------------------------------------
(* The readers.                                                            *)

LEMMA AnswerStays ==
  ASSUME TypeOK, TypeOK', NEW p \in Process, NEW r \in Run, RunInv(r),
         Answer(p, r) \/ List(p, r)
  PROVE  RunInv(r)'
<1>1. CASE Answer(p, r)
  <2>1. ~writer[p][r].locked
    BY <1>1 DEF Answer, Unlocked
  <2>2. mem[p][r] \in Terminal => Knows(r, mem[p][r]) /\ file[r] # "running"
    BY <2>1 DEF RunInv, OldFile, Knows, InMaps
  <2> QED
    BY <1>1, <2>2, ToldStays DEF Answer
<1>2. CASE List(p, r)
  <2>1. file[r] \in Terminal => Knows(r, file[r]) /\ file[r] # "running"
    BY DEF Knows, Terminal, Finished
  <2> QED
    BY <1>2, <2>1, ToldStays DEF List
<1> QED
  BY <1>1, <1>2

LEMMA WaitStays ==
  ASSUME TypeOK, TypeOK', NEW r \in Run, RunInv(r), StartWait(r) \/ Poll(r)
  PROVE  RunInv(r)'
<1>1. file[r] \in Terminal => Knows(r, file[r]) /\ file[r] # "running"
  BY DEF Knows, Terminal, Finished
<1>2. CASE UNCHANGED <<work, mem, writer, file, query, verdicts>>
  BY <1>2, Frame DEF Same
<1>3. CASE UNCHANGED <<work, mem, writer, file, query>> /\ Told(r, file[r])
  BY <1>1, <1>3, ToldStays
<1> QED
  BY <1>2, <1>3 DEF StartWait, Poll

LEMMA MissStays ==
  ASSUME TypeOK, TypeOK', NEW p \in Process, NEW c \in Caller, NEW x \in Run,
         Miss(p, c, x), NEW r \in Run, RunInv(r)
  PROVE  RunInv(r)'
<1>1. /\ UNCHANGED <<work, mem, writer, file, verdicts>>
      /\ query[p][c] = NoQuery /\ query'[p][c].run = x /\ query'[p][c].step = "missed"
      /\ \A q \in Process, d \in Caller : q # p \/ d # c => query'[q][d] = query[q][d]
  BY DEF Miss, TypeOK
<1>2. CASE r # x
  BY <1>1, <1>2, Frame DEF Same, About
<1>3. CASE r = x
  <2>1. ASSUME NEW s \in Terminal
        PROVE  /\ InQueries(r, s)' => InQueries(r, s)
               /\ Knows(r, s)' => Knows(r, s)
    BY <1>1, <1>3 DEF Knows, InMaps, InQueries
  <2>0. Home[r] \in Process
    BY HomeAssumption
  <2>2. HomeWrites(r)'
    BY <1>1 DEF RunInv, HomeWrites
  <2>a. OneEnd(r)'
    BY <2>1 DEF RunInv, OneEnd
  <2>b. OldFile(r)'
    BY <1>1, <2>1 DEF RunInv, OldFile
  <2>3. AskingOld(r)' => AskingOld(r)
    BY <1>1, <2>0 DEF AskingOld
  <2>4. \A q \in Process : Asking(q, r)' => Asking(q, r) \/ q = p
    BY <1>1 DEF Asking
  <2>5. work[r] # "idle" /\ mem[p][r] = "absent"
    BY <1>3 DEF Miss
  <2>6. writer[p][r] = NoWriter
    BY <2>5, Writers DEF Terminal, Finished
  <2>7. work[r] = "settled" /\ p = Home[r] => file[r] # "running"
    BY <2>6 DEF RunInv, StageInv, NoWriter
  <2>8. \A q \in Process, d \in Caller : query'[q][d].run = r /\ query'[q][d].step = "read"
          => query[q][d].run = r /\ query[q][d].step = "read"
    BY <1>1
  <2>9. StageInv(r)'
    <3>1. work[r] \in {"accepting", "running"} => ~Asking(Home[r], r)'
      BY <2>0, <2>4, <2>5 DEF RunInv, StageInv
    <3>2. work[r] = "executing" =>
            \A q \in Process, d \in Caller : query'[q][d].run = r => query'[q][d].step # "read"
      BY <2>8 DEF RunInv, StageInv
    <3>3. work[r] = "settled" => ~AskingOld(r)' /\ (Asking(Home[r], r)' => file[r] # "running")
      BY <2>0, <2>3, <2>4, <2>7 DEF RunInv, StageInv
    <3>4. NothingKnown(r) => NothingKnown(r)'
      BY <2>1 DEF NothingKnown
    <3> QED
      BY <1>1, <2>1, <2>3, <2>5, <3>1, <3>2, <3>3, <3>4 DEF RunInv, StageInv
  <2> QED
    BY <2>2, <2>a, <2>b, <2>9 DEF RunInv
<1> QED
  BY <1>2, <1>3

LEMMA LoadStays ==
  ASSUME TypeOK, TypeOK', NEW p \in Process, NEW c \in Caller, Load(p, c),
         NEW r \in Run, RunInv(r)
  PROVE  RunInv(r)'
<1> DEFINE x == query[p][c].run
<1>0. query[p][c] \in [step : {"missed", "read"}, run : Run, status : Status]
  <2>1. query[p][c] \in Query
    BY DEF TypeOK
  <2> QED
    BY <2>1 DEF Load, Query, NoQuery
<1>1. /\ UNCHANGED <<work, mem, writer, file, verdicts>>
      /\ \A q \in Process, d \in Caller : q # p \/ d # c => query'[q][d] = query[q][d]
      /\ \/ query'[p][c] = NoQuery
         \/ /\ query'[p][c].step = "read" /\ query'[p][c].run = x
            /\ query'[p][c].status = file[x] /\ file[x] \in Status
  <2>1. query'[p][c] = IF file[x] \in Readable
                         THEN [query[p][c] EXCEPT !.step = "read", !.status = file[x]]
                         ELSE NoQuery
    BY DEF Load, TypeOK
  <2> QED
    BY <1>0, <2>1 DEF Load, TypeOK, Readable
<1>2. CASE r # x
  BY <1>1, <1>2, Frame DEF Same, About, NoQuery
<1>3. CASE r = x
  <2>0. Home[r] \in Process /\ Asking(p, r)
    BY <1>0, <1>3, HomeAssumption DEF Asking, NoQuery
  <2>1. ASSUME NEW s \in Terminal
        PROVE  /\ InQueries(r, s)' => InQueries(r, s) \/ file[r] = s
               /\ Knows(r, s)' => Knows(r, s)
    BY <1>1, <1>3 DEF Knows, InMaps, InQueries, NoQuery
  <2>2. HomeWrites(r)'
    BY <1>1 DEF RunInv, HomeWrites
  <2>3. OneEnd(r)'
    BY <2>1 DEF RunInv, OneEnd
  <2>4. OldFile(r)'
    BY <1>1, <2>1 DEF RunInv, OldFile, Terminal, Finished
  <2>5. AskingOld(r)' => AskingOld(r) \/ (p = Home[r] /\ file[r] = "running")
    <3> DEFINE h == Home[r]
    <3> SUFFICES ASSUME NEW d \in Caller, query'[h][d].step = "read", query'[h][d].run = r,
                        query'[h][d].status = "running", ~(p = h /\ file[r] = "running")
                 PROVE  AskingOld(r)
      BY DEF AskingOld
    <3>1. h # p \/ d # c
      BY <1>1, <1>3 DEF NoQuery
    <3>2. query'[h][d] = query[h][d]
      BY <1>1, <2>0, <3>1
    <3> QED
      BY <3>2 DEF AskingOld
  <2>6. \A q \in Process : Asking(q, r)' => Asking(q, r)
    BY <1>0, <1>1, <1>3 DEF Asking, NoQuery
  <2>7. StageInv(r)'
    <3>1. work[r] # "idle"
      BY <2>0 DEF RunInv, StageInv
    <3>2. work[r] \in {"accepting", "running"} => ~Asking(Home[r], r)'
      BY <2>0, <2>6 DEF RunInv, StageInv
    <3>3. work[r] = "executing" =>
            \A q \in Process, d \in Caller : query'[q][d].run = r => query'[q][d].step # "read"
      BY <1>1, <1>3 DEF RunInv, StageInv, Status, Terminal, Finished, NoQuery
    <3>4. work[r] = "settled" => ~AskingOld(r)' /\ (Asking(Home[r], r)' => file[r] # "running")
      BY <2>0, <2>5, <2>6 DEF RunInv, StageInv
    <3>5. NothingKnown(r) => NothingKnown(r)'
      BY <2>1 DEF NothingKnown
    <3>6. work[r] = "lost" /\ AskingOld(r)' => AskingOld(r) \/ file[r] = "running"
      BY <2>5
    <3> QED
      BY <1>1, <2>1, <3>1, <3>2, <3>3, <3>4, <3>5, <3>6 DEF RunInv, StageInv
  <2> QED
    BY <2>2, <2>3, <2>4, <2>7 DEF RunInv
<1> QED
  BY <1>2, <1>3

(* What a query read replaces what the map holds; the two differ only when *)
(* the map of the home says "cancelled" after a restart.                   *)
LEMMA InsertStays ==
  ASSUME TypeOK, TypeOK', NEW p \in Process, NEW c \in Caller, Insert(p, c),
         NEW r \in Run, RunInv(r)
  PROVE  RunInv(r)'
<1> DEFINE x == query[p][c].run
           t == query[p][c].status
           h == Home[r]
<1>0. x \in Run /\ t \in Status /\ query[p][c].step = "read"
  <2>1. query[p][c] \in Query
    BY DEF TypeOK
  <2> QED
    BY <2>1 DEF Insert, Query, NoQuery
<1>1. /\ UNCHANGED <<work, writer, file>>
      /\ query'[p][c] = NoQuery
      /\ \A q \in Process, d \in Caller : q # p \/ d # c => query'[q][d] = query[q][d]
      /\ \A q \in Process, o \in Run :
           mem'[q][o] = IF q = p /\ o = x THEN t ELSE mem[q][o]
      /\ \A o \in Run : verdicts'[o] =
           IF o = x THEN verdicts[o] \cup ({t} \cap Terminal) ELSE verdicts[o]
  <2>1. \A q \in Process, o \in Run :
          mem'[q][o] = IF q = p /\ o = x THEN t ELSE mem[q][o]
    BY <1>0, Remembers DEF Insert
  <2>2. \A o \in Run : verdicts'[o] =
          IF o = x THEN verdicts[o] \cup ({t} \cap Terminal) ELSE verdicts[o]
    BY <1>0, Tells DEF Insert
  <2> QED
    BY <2>1, <2>2 DEF Insert, TypeOK
<1>2. CASE r # x
  BY ZenonT(40), <1>1, <1>2, Frame DEF Same, About
<1>3. CASE r = x
  <2>0. h \in Process /\ Asking(p, r)
    BY <1>0, <1>3, HomeAssumption DEF Asking, NoQuery
  <2>1. t \in Terminal => InQueries(r, t) /\ Knows(r, t)
    BY <1>0, <1>3 DEF Knows, InQueries
  <2>2. ASSUME NEW s \in Terminal
        PROVE  /\ InQueries(r, s)' => InQueries(r, s)
               /\ Knows(r, s)' => Knows(r, s)
    <3>1. InQueries(r, s)' => InQueries(r, s)
      BY <1>1 DEF InQueries, NoQuery
    <3>2. InMaps(r, s)' => InMaps(r, s) \/ s = t
      BY <1>1, <1>3 DEF InMaps
    <3>3. s \in verdicts'[r] => s \in verdicts[r] \/ s = t
      <4>1. verdicts'[r] = verdicts[r] \cup ({t} \cap Terminal)
        BY <1>0, <1>1, <1>3
      <4> QED
        BY <4>1
    <3>4. s = t => Knows(r, s)
      BY <2>1
    <3> QED
      BY <1>1, <3>1, <3>2, <3>3, <3>4 DEF Knows
  <2>3. work[r] # "idle" /\ work[r] # "executing" /\ (work[r] \in {"accepting", "running"} => p # h)
    BY <1>0, <1>3, <2>0 DEF RunInv, StageInv
  <2>4. p = h /\ t = "running" => AskingOld(r)
    BY <1>0, <1>3 DEF AskingOld
  <2>5. p = h /\ work[r] = "settled" => t \in Terminal
    BY <1>0, <2>4 DEF RunInv, StageInv, Status
  <2>6. p = h /\ writer[h][r] # NoWriter => t = mem[h][r]
    <3> SUFFICES ASSUME p = h, writer[h][r] # NoWriter PROVE t = mem[h][r]
      OBVIOUS
    <3>1. ~writer[h][r].locked
      BY <1>0, <1>3 DEF Insert, Unlocked
    <3>2. work[r] = "settled" /\ mem[h][r] \in Terminal
      BY <2>0, <2>3, <3>1, Writers DEF RunInv, StageInv
    <3>3. Knows(r, mem[h][r]) /\ Knows(r, t) /\ t \in Terminal
      BY <2>0, <2>1, <2>5, <3>2 DEF Knows, InMaps
    <3> QED
      BY <3>2, <3>3 DEF RunInv, OneEnd
  <2>7. HomeWrites(r)'
    BY <1>1, <1>3, <2>0, <2>6 DEF RunInv, HomeWrites
  <2>8. OneEnd(r)'
    BY <2>2 DEF RunInv, OneEnd
  <2>9. OldFile(r)'
    <3> SUFFICES ASSUME file[r] = "running" PROVE OldFile(r)'
      BY <1>1 DEF OldFile
    <3>1. t \notin Terminal
      BY <2>1 DEF RunInv, OldFile
    <3>2. verdicts'[r] = verdicts[r]
      <4>1. verdicts'[r] = verdicts[r] \cup ({t} \cap Terminal)
        BY <1>0, <1>1, <1>3
      <4>2. {t} \cap Terminal = {}
        BY <3>1
      <4> QED
        BY <4>1, <4>2
    <3>3. ASSUME NEW s \in Terminal, NEW q \in Process, mem'[q][r] = s
          PROVE  mem[q][r] = s
      BY <1>0, <1>1, <1>3, <3>1, <3>3
    <3> QED
      BY <1>1, <2>2, <3>2, <3>3 DEF RunInv, OldFile
  <2>10. AskingOld(r)' => AskingOld(r)
    BY <1>1, <2>0 DEF AskingOld, NoQuery
  <2>11. \A q \in Process : Asking(q, r)' => Asking(q, r)
    BY <1>1 DEF Asking
  <2>12. StageInv(r)'
    <3>1. work[r] \in {"accepting", "running"} =>
            mem'[h][r] = "running" /\ ~Asking(h, r)' /\ NothingKnown(r)'
      BY <1>1, <2>0, <2>2, <2>3, <2>11 DEF RunInv, StageInv, NothingKnown
    <3>2. work[r] = "settled" =>
            /\ mem'[h][r] # "running" /\ ~AskingOld(r)'
            /\ Asking(h, r)' => file[r] # "running"
      BY <1>1, <1>3, <2>0, <2>5, <2>10, <2>11 DEF RunInv, StageInv, Terminal, Finished
    <3>3. work[r] = "lost" /\ mem'[h][r] = "running" => mem[h][r] = "running" \/ AskingOld(r)
      BY <1>1, <1>3, <2>0, <2>4
    <3>4. work[r] = "lost" =>
            /\ mem'[h][r] = "running" \/ AskingOld(r)' \/ file[r] = "running" =>
                 \A s \in Terminal : Knows(r, s)' => s = "cancelled"
            /\ writer[h][r] # NoWriter => writer[h][r].locked /\ mem'[h][r] = "cancelled"
      BY <1>1, <1>3, <2>0, <2>2, <2>6, <2>10, <3>3 DEF RunInv, StageInv
    <3> QED
      BY <1>1, <2>3, <3>1, <3>2, <3>4 DEF RunInv, StageInv
  <2> QED
    BY <2>7, <2>8, <2>9, <2>12 DEF RunInv
<1> QED
  BY <1>2, <1>3

--------------------------------------------------------------------------------
(* The end of a process, and `clean`.                                      *)

LEMMA ExitStays ==
  ASSUME TypeOK, TypeOK', NEW p \in Process, Exit(p), NEW r \in Run, RunInv(r)
  PROVE  RunInv(r)'
<1> DEFINE h == Home[r]
<1>0. h \in Process
  BY HomeAssumption
<1>1. /\ UNCHANGED <<file, verdicts>>
      /\ \A q \in Process : mem'[q][r] = IF q = p THEN "absent" ELSE mem[q][r]
      /\ \A q \in Process : writer'[q][r] = IF q = p THEN NoWriter ELSE writer[q][r]
      /\ \A q \in Process, c \in Caller :
           query'[q][c] = IF q = p THEN NoQuery ELSE query[q][c]
      /\ work'[r] =
           IF h = p /\ (work[r] \in {"accepting", "running", "executing"}
                        \/ writer[p][r] # NoWriter)
             THEN "lost" ELSE work[r]
  BY DEF Exit, TypeOK
<1>2. ASSUME NEW s \in Terminal
      PROVE  /\ InQueries(r, s)' => InQueries(r, s)
             /\ InMaps(r, s)' => \E q \in Process \ {p} : mem[q][r] = s
             /\ Knows(r, s)' => Knows(r, s)
  BY <1>1 DEF Knows, InMaps, InQueries, NoQuery, Terminal, Finished
<1>3. HomeWrites(r)'
  BY <1>0, <1>1 DEF RunInv, HomeWrites
<1>4. OneEnd(r)'
  BY <1>2 DEF RunInv, OneEnd
<1>5. OldFile(r)'
  BY <1>1, <1>2 DEF RunInv, OldFile, Terminal, Finished
<1>6. \A q \in Process : Asking(q, r)' => Asking(q, r) /\ q # p
  BY <1>1 DEF Asking
<1>7. AskingOld(r)' => AskingOld(r) /\ h # p
  BY <1>0, <1>1 DEF AskingOld, NoQuery
<1>8. NothingKnown(r) => NothingKnown(r)'
  BY <1>2 DEF NothingKnown
<1>9. CASE h # p
  <2>1. work[r] = "executing" =>
          \A q \in Process, c \in Caller : query'[q][c].run = r => query'[q][c].step # "read"
    BY <1>1 DEF RunInv, StageInv, NoQuery
  <2>2. StageInv(r)'
    BY <1>0, <1>1, <1>2, <1>6, <1>7, <1>8, <1>9, <2>1 DEF RunInv, StageInv
  <2> QED
    BY <1>3, <1>4, <1>5, <2>2 DEF RunInv
<1>10. CASE h = p
  <2>1. ASSUME file[r] = "running", NEW s \in Terminal, Knows(r, s)' PROVE FALSE
    BY <1>1, <1>2, <1>10, <2>1 DEF RunInv, OldFile, Knows, Terminal, Finished
  <2>2. work'[r] \in {"idle", "settled", "lost"}
    <3>1. work[r] \in {"idle", "accepting", "running", "executing", "settled", "lost"}
      BY DEF TypeOK
    <3> QED
      BY <1>1, <1>10, <3>1
  <2>3. work'[r] = "settled" => file[r] # "running"
    BY <1>1, <1>10 DEF RunInv, StageInv, NoWriter
  <2>4. work'[r] = "idle" => work[r] = "idle"
    BY <1>1
  <2>5. StageInv(r)'
    BY <1>0, <1>1, <1>6, <1>7, <1>10, <2>1, <2>2, <2>3, <2>4 DEF RunInv, StageInv
  <2> QED
    BY <1>3, <1>4, <1>5, <2>5 DEF RunInv
<1> QED
  BY <1>9, <1>10

LEMMA CleanStays ==
  ASSUME TypeOK, TypeOK', Clean, NEW r \in Run, RunInv(r) PROVE RunInv(r)'
<1>1. file'[r] = "none" /\ UNCHANGED <<work, mem, writer, query, verdicts>>
  BY DEF Clean
<1>2. ASSUME NEW s \in Terminal PROVE Knows(r, s)' => Knows(r, s)
  BY <1>1 DEF Knows, InMaps, InQueries, Terminal, Finished
<1>3. HomeWrites(r)' /\ OldFile(r)'
  BY <1>1 DEF RunInv, HomeWrites, OldFile
<1>4. OneEnd(r)'
  BY <1>2 DEF RunInv, OneEnd
<1>5. StageInv(r)'
  BY <1>1, <1>2 DEF RunInv, StageInv, NothingKnown, Asking, AskingOld
<1> QED
  BY <1>3, <1>4, <1>5 DEF RunInv

--------------------------------------------------------------------------------
LEMMA RunsStay ==
  ASSUME TypeOK, TypeOK', ~ForeignCancel, [Next]_vars,
         \A r \in Run : RunInv(r), NEW r \in Run
  PROVE  RunInv(r)'
<1>1. CASE UNCHANGED vars
  BY <1>1, Frame DEF Same, vars
<1>2. ASSUME NEW x \in Run,
             SpawnAccept(x) \/ SyncStart(x) \/ SettleAny(x) \/ StartWait(x) \/ Poll(x)
      PROVE  RunInv(r)'
  <2>1. CASE r # x
    BY <1>2, <2>1, HomeOthers, Frame
  <2>2. CASE r = x
    BY <1>2, <2>2, SpawnStays, SyncStartStays, SettleStays, SyncRecordStays, WaitStays
    DEF SettleAny
  <2> QED
    BY <2>1, <2>2
<1>3. ASSUME NEW p \in Process, NEW x \in Run,
             WriteStep(p, x) \/ Cancel(p, x) \/ Answer(p, x) \/ List(p, x)
      PROVE  RunInv(r)'
  <2>1. CASE r # x
    BY <1>3, <2>1, ProcessOthers, Frame
  <2>2. CASE r = x
    BY <1>3, <2>2, TruncateStays, WriteStays, CancelStays, AnswerStays DEF WriteStep
  <2> QED
    BY <2>1, <2>2
<1>4. ASSUME NEW p \in Process, NEW c \in Caller, QueryStep(p, c) PROVE RunInv(r)'
  BY <1>4, MissStays, LoadStays, InsertStays DEF QueryStep
<1> QED
  BY <1>1, <1>2, <1>3, <1>4, ExitStays, CleanStays DEF Next

(* The inductive invariant of the shared state directory.                  *)
THEOREM StateDirInvariant == ASSUME ~ForeignCancel PROVE Spec => []StateDirInv
<1>1. StateDirInv /\ [Next]_vars => StateDirInv'
  BY TypesStay, RunsStay DEF StateDirInv, RunInv
<1> QED
  BY <1>1, InitInv, PTL DEF Spec

(* No two callers are told different ends of a run, whatever processes     *)
(* load it, restart or end, as long as it is cancelled at its home only    *)
(* (get_or_load_run_record, persist_run_record, cancel_agent, `wait`).     *)
THEOREM Verdicts == ASSUME ~ForeignCancel PROVE Spec => []OneVerdict
<1>1. StateDirInv => OneVerdict
  <2> SUFFICES ASSUME StateDirInv, NEW r \in Run PROVE Cardinality(verdicts[r]) <= 1
    BY DEF OneVerdict
  <2>1. \A s, t \in verdicts[r] : s = t
    BY DEF StateDirInv, TypeOK, OneEnd, Knows
  <2>2. CASE verdicts[r] = {}
    BY <2>2, FS_EmptySet
  <2>3. CASE verdicts[r] # {}
    <3>1. PICK s \in verdicts[r] : verdicts[r] = {s}
      BY <2>1, <2>3
    <3> QED
      BY <3>1, FS_Singleton
  <2> QED
    BY <2>2, <2>3
<1> QED
  BY <1>1, StateDirInvariant, PTL

(* After anyone was told the end of a run, run.json does not say that it   *)
(* is running (the settle step of spawn_agent's task holds the state lock  *)
(* until the file is written).                                             *)
THEOREM EndsStay == ASSUME ~ForeignCancel PROVE Spec => []EndStays
<1>1. StateDirInv => EndStays
  BY DEF StateDirInv, TypeOK, OldFile, EndStays
<1> QED
  BY <1>1, StateDirInvariant, PTL
================================================================================
