------------------------------ MODULE EventLogProof ------------------------------
(***************************************************************************)
(* events.jsonl and its readers, for any number of reports, cancels,       *)
(* crashes and reads.                                                      *)
(*                                                                         *)
(* 1. What the cutting of a text into lines does, by induction over        *)
(*    sequences (SeqInSet).                                                *)
(* 2. LogInv: the order of the file.                                       *)
(* 3. StatusInv: what the writers do to the statuses.                      *)
(* 4. PrintInv: what a client has printed.                                 *)
(* 5. EndInv: the terminal event before the status that says so.           *)
(* 6. PollInv: what the host that polls has got.                           *)
(***************************************************************************)
EXTENDS EventLog, LoopsProof, FiniteSetTheorems

(* What is written are lines.                                              *)
LinesAreTyped ==
  /\ file \in Seq(Lines)
  /\ append \in [Writers -> [at : {"idle", "line", "newline"}, event : Lines]]

(* While nobody has cancelled the run, its task alone appends: between two *)
(* of its appends the file ends with a newline, in one the event is larger *)
(* than all before, and after the task nothing is written.                 *)
TaskAppendsAlone ==
  /\ append["cancel"].at = "idle" /\ task # "aborted"
  /\ task \in {"storing", "gone"} => append["task"].at = "idle"
  /\ Len(file) >= 1
  /\ task # "gone" =>
       IF append["task"].at = "newline" THEN file[Len(file)] # Newline
       ELSE file[Len(file)] = Newline
  /\ append["task"].at = "line" =>
       /\ append["task"].event # Newline
       /\ \A i \in 1 .. Len(file) : file[i].seq < append["task"].event.seq

LogInv ==
  /\ LinesAreTyped /\ canceller \in Nat
  /\ canceller = 0 => TaskAppendsAlone /\ SeqsIncrease /\ Parses(file)

--------------------------------------------------------------------------------
(* A finite set of numbers has a largest one.                              *)
LEMMA LargestOfSet ==
  ASSUME NEW S \in SUBSET Nat, S # {}, IsFiniteSet(S)
  PROVE  Largest(S) \in S /\ \A n \in S : n <= Largest(S)
<1> DEFINE Above(n) == {m \in S : n < m}
           T == {t \in SUBSET S : \E n \in S : t = Above(n)}
<1>1. IsWellFoundedOn(StrictSubsetOrdering(S), SUBSET S)
  <2>1. FiniteSubsetsOf(S) = SUBSET S
    BY FS_FiniteSubsetsOfFinite
  <2> QED BY <2>1, FS_StrictSubsetOrderingWellFounded
<1>2. T \subseteq SUBSET S
  OBVIOUS
<1>6. T # {}
  <2>1. PICK n \in S : TRUE
    OBVIOUS
  <2>2. Above(n) \in T
    OBVIOUS
  <2> QED BY <2>2
<1>3. PICK t \in T : \A u \in T : ~ (<<u, t>> \in StrictSubsetOrdering(S))
  <2> HIDE DEF T
  <2>1. PICK t : /\ t \in T
                 /\ \A u \in T : ~ (<<u, t>> \in StrictSubsetOrdering(S))
    BY <1>1, <1>2, <1>6, WFMin
  <2> QED BY <2>1
<1>4. PICK n \in S : t = Above(n)
  OBVIOUS
<1>5. ASSUME NEW m \in S PROVE m <= n
  <2> SUFFICES ASSUME n < m PROVE FALSE
    OBVIOUS
  <2>1. Above(m) \in T
    OBVIOUS
  <2>3. \A k \in Above(m) : k \in Above(n)
    OBVIOUS
  <2>4. m \in Above(n) /\ m \notin Above(m)
    OBVIOUS
  <2>2. <<Above(m), Above(n)>> \in StrictSubsetOrdering(S)
    <3>1. Above(m) \subseteq Above(n) /\ Above(m) # Above(n)
      BY <2>3, <2>4
    <3> HIDE DEF Above
    <3> QED BY <3>1, <2>1, <1>2, <1>3, <1>4 DEF StrictSubsetOrdering
  <2> QED BY <1>3, <1>4, <2>1, <2>2
<1> QED BY <1>5 DEF Largest

(* The last newline: nothing after it is one.                              *)
LEMMA LastNewlineIs ==
  ASSUME NEW V, NEW text \in Seq(V)
  PROVE  /\ LastNewline(text) \in 0 .. Len(text)
         /\ LastNewline(text) = 0 \/ text[LastNewline(text)] = Newline
         /\ \A i \in 1 .. Len(text) : i > LastNewline(text) => text[i] # Newline
<1> DEFINE S == {0} \cup {i \in 1 .. Len(text) : ~IsEvent(text, i)}
<1>1. Len(text) \in Nat
  BY LenProperties
<1>2. S \in SUBSET Nat /\ S # {} /\ S \subseteq 0 .. Len(text)
  BY <1>1
<1>3. IsFiniteSet(S)
  <2>1. IsFiniteSet(0 .. Len(text))
    BY <1>1, FS_Interval
  <2> HIDE DEF S
  <2> QED BY <1>2, <2>1, FS_Subset
<1>4. LastNewline(text) = Largest(S)
  BY DEF LastNewline
<1>5. Largest(S) \in S /\ \A n \in S : n <= Largest(S)
  <2> HIDE DEF S
  <2> QED BY <1>2, <1>3, LargestOfSet
<1> DEFINE L == Largest(S)
<1>6. L \in S /\ \A n \in S : n <= L
  BY <1>5
<1> HIDE DEF L
<1>7. L = 0 \/ text[L] = Newline
  BY <1>6 DEF IsEvent
<1>8. ASSUME NEW i \in 1 .. Len(text), i > L PROVE text[i] # Newline
  BY <1>1, <1>2, <1>6, <1>8 DEF IsEvent
<1>9. L \in 0 .. Len(text)
  BY <1>2, <1>6
<1> QED BY <1>4, <1>7, <1>8, <1>9 DEF L

LEMMA LastNewlineUnique ==
  ASSUME NEW V, NEW text \in Seq(V), NEW L \in 0 .. Len(text),
         L = 0 \/ text[L] = Newline,
         \A i \in 1 .. Len(text) : i > L => text[i] # Newline
  PROVE  LastNewline(text) = L
<1> DEFINE M == LastNewline(text)
<1>1. /\ M \in 0 .. Len(text) /\ (M = 0 \/ text[M] = Newline)
      /\ \A i \in 1 .. Len(text) : i > M => text[i] # Newline
  BY LastNewlineIs
<1>2. Len(text) \in Nat
  BY LenProperties
<1> HIDE DEF M
<1>3. ~ (M < L) /\ ~ (L < M)
  BY <1>1, <1>2
<1> QED BY <1>1, <1>2, <1>3 DEF M

(* A text is its complete lines and what follows them.                     *)
LEMMA TextSplits ==
  ASSUME NEW V, NEW text \in Seq(V)
  PROVE  /\ CompleteLines(text) \in Seq(V) /\ Unfinished(text) \in Seq(V)
         /\ text = CompleteLines(text) \o Unfinished(text)
         /\ Len(CompleteLines(text)) = LastNewline(text)
         /\ CompleteLines(text) = <<>> \/ CompleteLines(text)[Len(CompleteLines(text))] = Newline
<1> DEFINE L == LastNewline(text)
<1>1. L \in 0 .. Len(text) /\ (L = 0 \/ text[L] = Newline) /\ Len(text) \in Nat
  BY LastNewlineIs, LenProperties
<1>2. \A i \in 1 .. Len(text) : text[i] \in V
  BY ElementOfSeq
<1> HIDE DEF L
<1> DEFINE a == SubSeq(text, 1, L)
           b == SubSeq(text, L + 1, Len(text))
<1>3. /\ a \in Seq(V) /\ Len(a) = L
      /\ \A i \in 1 .. L : a[i] = text[i]
  BY <1>1, <1>2, SubSeqProperties
<1>4. b \in Seq(V)
  BY <1>1, <1>2, SubSeqProperties
<1>5. a \o b = text
  <2>1. 1 \in 1 .. Len(text) + 1 /\ L \in 1 - 1 .. Len(text) /\ Len(text) \in L .. Len(text)
    BY <1>1
  <2>2. SubSeq(text, 1, L) \o SubSeq(text, L + 1, Len(text)) = SubSeq(text, 1, Len(text))
    BY <2>1, ConcatAdjacentSubSeq
  <2> QED BY <2>2, SubSeqFull
<1>6. a = <<>> \/ a[Len(a)] = Newline
  BY <1>1, <1>3, EmptySeq
<1> QED BY <1>3, <1>4, <1>5, <1>6 DEF CompleteLines, Unfinished, L

(* What is appended to complete lines is cut as it would be alone.         *)
LEMMA TailLines ==
  ASSUME NEW V, NEW a \in Seq(V), NEW t \in Seq(V), a = <<>> \/ a[Len(a)] = Newline
  PROVE  /\ CompleteLines(a \o t) = a \o CompleteLines(t)
         /\ Unfinished(a \o t) = Unfinished(t)
<1> DEFINE M == LastNewline(t)
           L == Len(a) + M
           u == a \o t
<1>1. /\ M \in 0 .. Len(t) /\ (M = 0 \/ t[M] = Newline)
      /\ \A i \in 1 .. Len(t) : i > M => t[i] # Newline
  BY LastNewlineIs
<1>2. /\ u \in Seq(V) /\ Len(u) = Len(a) + Len(t) /\ Len(a) \in Nat /\ Len(t) \in Nat
      /\ \A i \in 1 .. Len(u) : u[i] = IF i <= Len(a) THEN a[i] ELSE t[i - Len(a)]
  BY ConcatProperties, LenProperties
<1> HIDE DEF M, u
<1>3. LastNewline(u) = L
  <2>1. L \in 0 .. Len(u)
    BY <1>1, <1>2
  <2>2. L = 0 \/ u[L] = Newline
    <3>1. CASE M = 0
      BY <1>2, <3>1, EmptySeq
    <3>2. CASE M # 0
      BY <1>1, <1>2, <3>2
    <3> QED BY <3>1, <3>2
  <2>3. \A i \in 1 .. Len(u) : i > L => u[i] # Newline
    <3> SUFFICES ASSUME NEW i \in 1 .. Len(u), i > L PROVE u[i] # Newline
      OBVIOUS
    <3>1. i - Len(a) \in 1 .. Len(t) /\ i - Len(a) > M /\ ~ (i <= Len(a))
      BY <1>1, <1>2
    <3> QED BY <1>1, <1>2, <3>1
  <2> QED BY <1>2, <2>1, <2>2, <2>3, LastNewlineUnique
<1>4. SubSeq(u, 1, L) = a \o SubSeq(t, 1, M)
  <2>1. \A i \in 1 .. Len(t) : t[i] \in V
    BY ElementOfSeq
  <2>2. /\ SubSeq(t, 1, M) \in Seq(V) /\ Len(SubSeq(t, 1, M)) = M
        /\ \A i \in 1 .. M : SubSeq(t, 1, M)[i] = t[i]
    BY <1>1, <1>2, <2>1, SubSeqProperties
  <2>3. \A i \in 1 .. Len(u) : u[i] \in V
    BY <1>2, ElementOfSeq
  <2>4. /\ SubSeq(u, 1, L) \in Seq(V) /\ Len(SubSeq(u, 1, L)) = L
        /\ \A i \in 1 .. L : SubSeq(u, 1, L)[i] = u[i]
    BY <1>1, <1>2, <2>3, SubSeqProperties
  <2> DEFINE c == SubSeq(t, 1, M)
             d == SubSeq(u, 1, L)
  <2> HIDE DEF c, d
  <2>5. /\ a \o c \in Seq(V) /\ Len(a \o c) = L
        /\ \A i \in 1 .. L : (a \o c)[i] = IF i <= Len(a) THEN a[i] ELSE c[i - Len(a)]
    BY <2>2, ConcatProperties DEF c
  <2>6. \A i \in 1 .. L : (a \o c)[i] = d[i]
    <3> SUFFICES ASSUME NEW i \in 1 .. L PROVE (a \o c)[i] = d[i]
      OBVIOUS
    <3>1. CASE i <= Len(a)
      BY <1>1, <1>2, <2>4, <2>5, <3>1 DEF d
    <3>2. CASE ~ (i <= Len(a))
      <4>1. i - Len(a) \in 1 .. M
        BY <1>1, <1>2, <3>2
      <4>2. c[i - Len(a)] = t[i - Len(a)]
        BY <2>2, <4>1 DEF c
      <4> QED BY <1>1, <1>2, <2>4, <2>5, <3>2, <4>2 DEF d
    <3> QED BY <3>1, <3>2
  <2>7. a \o c = d
    BY <2>4, <2>5, <2>6, SeqEqual DEF d
  <2> QED BY <2>7 DEF c, d
<1>5. SubSeq(u, L + 1, Len(u)) = SubSeq(t, M + 1, Len(t))
  <2>1. \A i \in 1 .. Len(t) : t[i] \in V
    BY ElementOfSeq
  <2>3. \A i \in 1 .. Len(u) : u[i] \in V
    BY <1>2, ElementOfSeq
  <2> DEFINE c == SubSeq(t, M + 1, Len(t))
             d == SubSeq(u, L + 1, Len(u))
  <2>2. /\ c \in Seq(V) /\ Len(c) = Len(t) - M
        /\ \A i \in 1 .. Len(t) - M : c[i] = t[M + i]
    <3>1. /\ c \in Seq(V) /\ Len(c) = IF M + 1 <= Len(t) THEN Len(t) - (M + 1) + 1 ELSE 0
          /\ \A i \in 1 .. Len(t) - (M + 1) + 1 : c[i] = t[(M + 1) + i - 1]
      BY <1>1, <1>2, <2>1, SubSeqProperties
    <3> HIDE DEF c
    <3> QED BY <1>1, <1>2, <3>1
  <2>4. /\ d \in Seq(V) /\ Len(d) = Len(t) - M
        /\ \A i \in 1 .. Len(t) - M : d[i] = u[L + i]
    <3>1. /\ d \in Seq(V) /\ Len(d) = IF L + 1 <= Len(u) THEN Len(u) - (L + 1) + 1 ELSE 0
          /\ \A i \in 1 .. Len(u) - (L + 1) + 1 : d[i] = u[(L + 1) + i - 1]
      BY <1>1, <1>2, <2>3, SubSeqProperties
    <3>2. Len(u) - (L + 1) + 1 = Len(t) - M /\ L + 1 \in Nat /\ M <= Len(t)
      BY <1>1, <1>2
    <3>3. L \in Nat /\ Len(u) \in Nat
      BY <1>1, <1>2
    <3> HIDE DEF d, L
    <3>4. Len(d) = Len(t) - M
      BY <1>1, <1>2, <3>1, <3>2, <3>3
    <3>5. ASSUME NEW i \in 1 .. Len(t) - M PROVE d[i] = u[L + i]
      <4>1. (L + 1) + i - 1 = L + i
        BY <3>3
      <4> QED BY <3>1, <3>2, <4>1
    <3> QED BY <3>1, <3>4, <3>5
  <2> HIDE DEF c, d
  <2>5. ASSUME NEW i \in 1 .. Len(t) - M PROVE d[i] = c[i]
    <3>1. /\ L + i \in 1 .. Len(u) /\ ~ (L + i <= Len(a))
          /\ (L + i) - Len(a) = M + i
      BY <1>1, <1>2
    <3>2. d[i] = u[L + i] /\ c[i] = t[M + i]
      BY <2>2, <2>4
    <3> HIDE DEF L
    <3> QED BY <1>2, <3>1, <3>2
  <2>6. c = d
    BY <2>2, <2>4, <2>5, SeqEqual
  <2> QED BY <2>6 DEF c, d
<1> QED BY <1>3, <1>4, <1>5 DEF CompleteLines, Unfinished, M, u

(* A text that goes on is cut where its unfinished end goes on.            *)
LEMMA TextGoesOn ==
  ASSUME NEW V, NEW text \in Seq(V), NEW new \in Seq(V)
  PROVE  LET rest == Unfinished(text) \o new IN
         /\ CompleteLines(text \o new) = CompleteLines(text) \o CompleteLines(rest)
         /\ Unfinished(text \o new) = Unfinished(rest)
<1> DEFINE a == CompleteLines(text)
           b == Unfinished(text)
<1>1. /\ a \in Seq(V) /\ b \in Seq(V) /\ text = a \o b
      /\ a = <<>> \/ a[Len(a)] = Newline
  BY TextSplits
<1> HIDE DEF a, b
<1>2. b \o new \in Seq(V) /\ text \o new = a \o (b \o new)
  BY <1>1, ConcatProperties, ConcatAssociative
<1>3. /\ CompleteLines(a \o (b \o new)) = a \o CompleteLines(b \o new)
      /\ Unfinished(a \o (b \o new)) = Unfinished(b \o new)
  BY <1>1, <1>2, TailLines
<1> QED BY <1>2, <1>3 DEF a, b

--------------------------------------------------------------------------------
LEMMA LinesHaveSeqs == Newline \in Lines /\ \A line \in Lines : line.seq \in Nat
  BY DEF Lines, Events, Newline

(* The next seq is larger than every seq in a file that parses.            *)
LEMMA NextIsLarger ==
  ASSUME LinesAreTyped
  PROVE  /\ NextEventSeq(file) \in Nat \ {0}
         /\ Parses(file) => \A i \in 1 .. Len(file) : file[i].seq < NextEventSeq(file)
<1> DEFINE alone == {j \in 1 .. Len(file) : ~Shared(file, j)}
           seqs == {0} \cup {file[i].seq : i \in alone}
<1>1. Len(file) \in Nat /\ \A i \in 1 .. Len(file) : file[i].seq \in Nat
  BY LinesHaveSeqs, LenProperties, ElementOfSeq DEF LinesAreTyped
<1>2. IsFiniteSet(alone)
  <2>1. IsFiniteSet(1 .. Len(file))
    BY <1>1, FS_Interval
  <2>2. alone \subseteq 1 .. Len(file)
    OBVIOUS
  <2> HIDE DEF alone
  <2> QED BY <2>1, <2>2, FS_Subset
<1>8. \A i \in alone : file[i].seq \in Nat
  BY <1>1
<1> HIDE DEF alone
<1>3. IsFiniteSet({file[i].seq : i \in alone})
  <2> DEFINE image == {file[i].seq : i \in alone}
             seqOf == [i \in alone |-> file[i].seq]
  <2>1. seqOf \in Surjection(alone, image)
    BY DEF Surjection
  <2> HIDE DEF image, seqOf
  <2>2. IsFiniteSet(image)
    BY <1>2, <2>1, FS_Surjection
  <2> QED BY <2>2 DEF image
<1>4. IsFiniteSet(seqs) /\ seqs \in SUBSET Nat /\ seqs # {}
  <2>1. IsFiniteSet({0})
    BY FS_Singleton
  <2>2. IsFiniteSet(seqs)
    BY <1>3, <2>1, FS_Union
  <2> QED BY <1>8, <2>2
<1>5. NextEventSeq(file) = 1 + Largest(seqs)
  BY DEF NextEventSeq, alone
<1> HIDE DEF seqs
<1>6. Largest(seqs) \in Nat /\ \A n \in seqs : n <= Largest(seqs)
  BY <1>4, LargestOfSet
<1>7. ASSUME Parses(file), NEW i \in 1 .. Len(file) PROVE file[i].seq < NextEventSeq(file)
  <2>1. file[i].seq \in seqs
    BY <1>7 DEF Parses, seqs, alone
  <2> QED BY <1>1, <1>5, <1>6, <2>1
<1> QED BY <1>5, <1>6, <1>7

--------------------------------------------------------------------------------
LEMMA InitLog == Init => LogInv
<1> SUFFICES ASSUME Init PROVE LogInv
  OBVIOUS
<1>1. LinesAreTyped
  <2>1. Event(1, "accepted", 0) \in Lines
    BY LogAssumption DEF Event, Lines, Events
  <2> QED BY <2>1, LinesHaveSeqs DEF Init, NoAppend, LinesAreTyped
<1>2. Len(file) = 2 /\ file[1] = Event(1, "accepted", 0) /\ file[2] = Newline
  BY DEF Init
<1>3. SeqsIncrease /\ Parses(file)
  BY <1>2 DEF SeqsIncrease, Parses, Shared, IsEvent
<1>4. TaskAppendsAlone
  BY <1>2 DEF Init, TaskAppendsAlone, NoAppend, Writers
<1> QED BY <1>1, <1>3, <1>4 DEF Init, LogInv

(* Beginning an append keeps the types, and the order when it is the       *)
(* task's.                                                                 *)
LEMMA BeginTyped ==
  ASSUME LinesAreTyped, NEW w \in Writers, NEW kind \in {"progress", "succeeded", "cancelled"},
         NEW n \in 0 .. MaxProgress, BeginAppend(w, kind, n), UNCHANGED file
  PROVE  /\ LinesAreTyped'
         /\ append' = [append EXCEPT ![w] =
                          [at |-> "line", event |-> Event(NextEventSeq(file), kind, n)]]
         /\ Event(NextEventSeq(file), kind, n) \in Events
<1> DEFINE new == Event(NextEventSeq(file), kind, n)
<1>1. new \in Events
  BY NextIsLarger DEF Event, Events
<1>2. append' = [append EXCEPT ![w] = [at |-> "line", event |-> new]]
  BY DEF BeginAppend
<1> HIDE DEF new
<1>3. new \in Lines
  BY <1>1 DEF Lines
<1> QED BY <1>1, <1>2, <1>3 DEF LinesAreTyped, new

LEMMA BeginInv ==
  ASSUME LogInv, NEW kind \in {"progress", "succeeded"}, NEW n \in 0 .. MaxProgress,
         BeginAppend("task", kind, n),
         append["task"].at = "idle", task # "gone", task' \notin {"aborted", "storing", "gone"},
         UNCHANGED <<file, canceller>>
  PROVE  LogInv'
<1>1. LinesAreTyped'
  BY BeginTyped DEF LogInv, Writers
<1>2. ASSUME canceller = 0 PROVE TaskAppendsAlone' /\ SeqsIncrease' /\ Parses(file)'
  <2>1. TaskAppendsAlone /\ SeqsIncrease /\ Parses(file)
    BY <1>2 DEF LogInv
  <2>2. \A i \in 1 .. Len(file) : file[i].seq < NextEventSeq(file)
    BY <2>1, NextIsLarger DEF LogInv
  <2>3. /\ append'["cancel"] = append["cancel"]
        /\ append'["task"] = [at |-> "line", event |-> Event(NextEventSeq(file), kind, n)]
    BY DEF BeginAppend, LogInv, LinesAreTyped, Writers
  <2>4. Event(NextEventSeq(file), kind, n) # Newline
        /\ Event(NextEventSeq(file), kind, n).seq = NextEventSeq(file)
    BY DEF Event, Newline
  <2>5. TaskAppendsAlone'
    BY <2>1, <2>2, <2>3, <2>4 DEF TaskAppendsAlone
  <2> QED BY <2>1, <2>5 DEF SeqsIncrease, Parses, Shared, IsEvent
<1> QED BY <1>1, <1>2 DEF LogInv

(* The task writes its line, and the newline.                              *)
LEMMA LineTyped ==
  ASSUME LinesAreTyped, NEW w \in Writers, WriteLine(w) \/ WriteNewline(w)
  PROVE  /\ LinesAreTyped'
         /\ Len(file') = Len(file) + 1 /\ \A i \in 1 .. Len(file) : file'[i] = file[i]
<1>1. append[w].event \in Lines /\ Newline \in Lines /\ file \in Seq(Lines)
  BY LinesHaveSeqs DEF LinesAreTyped
<1>2. CASE WriteLine(w)
  BY <1>1, <1>2, AppendProperties DEF WriteLine, LinesAreTyped
<1>3. CASE WriteNewline(w)
  BY <1>1, <1>3, AppendProperties DEF WriteNewline, LinesAreTyped, NoAppend
<1> QED BY <1>2, <1>3

LEMMA WriteLineInv ==
  ASSUME LogInv, NEW w \in Writers, WriteLine(w)
  PROVE  LogInv'
<1>1. LinesAreTyped'
  BY LineTyped DEF LogInv
<1>2. ASSUME canceller = 0 PROVE TaskAppendsAlone' /\ SeqsIncrease' /\ Parses(file)'
  <2>1. TaskAppendsAlone /\ SeqsIncrease /\ Parses(file) /\ w = "task"
    BY <1>2 DEF LogInv, TaskAppendsAlone, WriteLine, Writers
  <2> DEFINE line == append["task"].event
  <2>2. /\ line # Newline /\ file[Len(file)] = Newline /\ Len(file) >= 1
        /\ \A i \in 1 .. Len(file) : file[i].seq < line.seq
    BY <2>1 DEF TaskAppendsAlone, WriteLine
  <2>3. /\ Len(file) \in Nat /\ Len(file') = Len(file) + 1
        /\ \A i \in 1 .. Len(file) : file'[i] = file[i]
        /\ file'[Len(file) + 1] = line
    BY <2>1 DEF WriteLine, LogInv, LinesAreTyped
  <2>4. append'["cancel"] = append["cancel"] /\ append'["task"].at = "newline"
    BY <2>1 DEF WriteLine, LogInv, LinesAreTyped, Writers
  <2> HIDE DEF line
  <2>5. SeqsIncrease'
    <3> SUFFICES ASSUME NEW i \in 1 .. Len(file'), NEW j \in 1 .. Len(file'), i < j,
                        file'[i] # Newline, file'[j] # Newline
                 PROVE  file'[i].seq < file'[j].seq
      BY DEF SeqsIncrease, IsEvent
    <3>1. i \in 1 .. Len(file)
      BY <2>3
    <3>2. CASE j = Len(file) + 1
      BY <2>2, <2>3, <3>1, <3>2
    <3>3. CASE j \in 1 .. Len(file)
      BY <2>1, <2>3, <3>1, <3>3 DEF SeqsIncrease, IsEvent
    <3> QED BY <2>3, <3>2, <3>3
  <2>6. Parses(file)'
    <3> SUFFICES ASSUME NEW i \in 1 .. Len(file') PROVE ~Shared(file', i)
      BY DEF Parses
    <3>1. CASE i = Len(file) + 1
      BY <2>2, <2>3, <3>1 DEF Shared, IsEvent
    <3>2. CASE i = Len(file)
      BY <2>2, <2>3, <3>2 DEF Shared, IsEvent
    <3>3. CASE i \in 1 .. Len(file) /\ i # Len(file)
      BY <2>1, <2>3, <3>3 DEF Parses, Shared, IsEvent
    <3> QED BY <2>3, <3>1, <3>2, <3>3
  <2>7. TaskAppendsAlone'
    BY <2>1, <2>2, <2>3, <2>4 DEF TaskAppendsAlone, WriteLine
  <2> QED BY <2>5, <2>6, <2>7
<1> QED BY <1>1, <1>2 DEF LogInv, WriteLine

LEMMA WriteNewlineInv ==
  ASSUME LogInv, NEW w \in Writers, WriteNewline(w)
  PROVE  LogInv'
<1>1. LinesAreTyped'
  BY LineTyped DEF LogInv
<1>2. ASSUME canceller = 0 PROVE TaskAppendsAlone' /\ SeqsIncrease' /\ Parses(file)'
  <2>1. TaskAppendsAlone /\ SeqsIncrease /\ Parses(file) /\ w = "task"
    BY <1>2 DEF LogInv, TaskAppendsAlone, WriteNewline, Writers
  <2>2. /\ Len(file) \in Nat /\ Len(file') = Len(file) + 1
        /\ \A i \in 1 .. Len(file) : file'[i] = file[i]
        /\ file'[Len(file) + 1] = Newline
    BY DEF WriteNewline, LogInv, LinesAreTyped
  <2>3. append'["cancel"] = append["cancel"] /\ append'["task"] = NoAppend
    BY <2>1 DEF WriteNewline, LogInv, LinesAreTyped, Writers
  <2>4. SeqsIncrease'
    <3> SUFFICES ASSUME NEW i \in 1 .. Len(file'), NEW j \in 1 .. Len(file'), i < j,
                        file'[i] # Newline, file'[j] # Newline
                 PROVE  file'[i].seq < file'[j].seq
      BY DEF SeqsIncrease, IsEvent
    <3>1. i \in 1 .. Len(file) /\ j \in 1 .. Len(file)
      BY <2>2
    <3> QED BY <2>1, <2>2, <3>1 DEF SeqsIncrease, IsEvent
  <2>5. Parses(file)'
    <3> SUFFICES ASSUME NEW i \in 1 .. Len(file') PROVE ~Shared(file', i)
      BY DEF Parses
    <3>1. CASE i = Len(file) + 1
      BY <2>2, <3>1 DEF Shared, IsEvent
    <3>2. CASE i \in 1 .. Len(file)
      BY <2>1, <2>2, <3>2 DEF Parses, Shared, IsEvent
    <3> QED BY <2>2, <3>1, <3>2
  <2>6. TaskAppendsAlone'
    BY <2>1, <2>2, <2>3 DEF TaskAppendsAlone, WriteNewline, NoAppend
  <2> QED BY <2>4, <2>5, <2>6
<1> QED BY <1>1, <1>2 DEF LogInv, WriteNewline

(* A step that writes nothing and leaves the appends alone.                *)
LEMMA QuietInv ==
  ASSUME LogInv, UNCHANGED <<file, append, canceller>>, task' # "aborted",
         task = "gone" => task' = "gone",
         task' \in {"storing", "gone"} /\ canceller = 0 => append["task"].at = "idle"
  PROVE  LogInv'
BY DEF LogInv, LinesAreTyped, TaskAppendsAlone, SeqsIncrease, Parses, Shared, IsEvent

(* A step that counts a cancel need only keep the types.                   *)
LEMMA CancelInv ==
  ASSUME LogInv, UNCHANGED file, canceller' = canceller + 1,
         \/ UNCHANGED append
         \/ BeginAppend("cancel", "cancelled", 0)
  PROVE  LogInv'
<1>1. LinesAreTyped'
  <2>1. CASE UNCHANGED append
    BY <2>1 DEF LogInv, LinesAreTyped
  <2>2. CASE BeginAppend("cancel", "cancelled", 0)
    BY <2>2, BeginTyped, LogAssumption DEF LogInv, Writers
  <2> QED BY <2>1, <2>2
<1> QED BY <1>1 DEF LogInv

LEMMA CrashInv == LogInv /\ Crash => LogInv'
<1> SUFFICES ASSUME LogInv, Crash PROVE LogInv'
  OBVIOUS
<1>3. LinesAreTyped'
  BY LinesHaveSeqs DEF Crash, NoAppend, LogInv, LinesAreTyped
<1>4. canceller' \in Nat /\ (canceller' = 0 => canceller = 0)
  BY DEF Crash, LogInv
<1>5. ASSUME canceller = 0 PROVE TaskAppendsAlone' /\ SeqsIncrease' /\ Parses(file)'
  <2>1. TaskAppendsAlone /\ SeqsIncrease /\ Parses(file)
    BY <1>5 DEF LogInv
  <2>2. append'["cancel"].at = "idle" /\ append'["task"].at = "idle"
    BY DEF Crash, NoAppend, Writers
  <2>3. TaskAppendsAlone'
    BY <2>1, <2>2 DEF TaskAppendsAlone, Crash
  <2> QED BY <2>1, <2>3 DEF Crash, SeqsIncrease, Parses, Shared, IsEvent
<1> QED BY <1>3, <1>4, <1>5 DEF LogInv

(* Clients write nothing.                                                  *)
LEMMA QuietReaders == FollowStep => UNCHANGED <<serverVars, client, poller>>
  BY DEF FollowStep, FollowRecord, FollowMap, FollowEvents, FollowWholeFile, FollowOutput, AwaitRun

LEMMA ReportedTyped == LinesAreTyped => Reported \in Nat
<1> SUFFICES ASSUME LinesAreTyped PROVE Reported \in Nat
  OBVIOUS
<1> DEFINE S == {e \in Events : e.kind = "progress"}
<1>1. Len(Keep(file, S)) \in Nat
  <2> HIDE DEF S
  <2> QED BY KeepTyped DEF LinesAreTyped
<1> QED BY <1>1 DEF Reported

LEMMA LogStep == LogInv /\ [Next]_vars => LogInv'
<1> SUFFICES ASSUME LogInv, [Next]_vars PROVE LogInv'
  OBVIOUS
<1>1. CASE \E w \in Writers : WriteLine(w) \/ WriteNewline(w)
  BY <1>1, WriteLineInv, WriteNewlineInv
<1>2. CASE Settle
  <2>1. CASE task' = "gone" /\ UNCHANGED append
    BY <1>2, <2>1, QuietInv DEF Settle, Idle
  <2>2. CASE task' = "settling" /\ BeginAppend("task", "succeeded", 0)
    BY <1>2, <2>2, BeginInv, LogAssumption DEF Settle, Idle
  <2> QED BY <1>2, <2>1, <2>2 DEF Settle
<1>3. CASE SettlePersist
  BY <1>3, QuietInv DEF SettlePersist, AfterEvent, Idle
<1>4. CASE Unwind
  BY <1>4, QuietInv DEF Unwind, Idle
<1>5. CASE CancelPersist
  BY <1>5, CancelInv DEF CancelPersist
<1>6. CASE Progress
  <2>0. Reported \in Nat /\ Reported + 1 \in 0 .. MaxProgress
    BY <1>6, ReportedTyped, LogAssumption DEF Progress, LogInv
  <2>1. CASE task = "working"
    BY <1>6, <2>0, <2>1, BeginInv DEF Progress, Idle
  <2>2. CASE task = "aborted"
    <3>1. canceller # 0 /\ canceller' = canceller
      BY <1>6, <2>2 DEF Progress, LogInv, TaskAppendsAlone
    <3>2. LinesAreTyped'
      BY <1>6, <2>0, BeginTyped DEF Progress, LogInv, Writers
    <3> QED BY <3>1, <3>2 DEF LogInv
  <2> QED BY <1>6, <2>1, <2>2 DEF Progress
<1>7. CASE Cancel
  BY <1>7, CancelInv DEF Cancel
<1>8. CASE Crash
  BY <1>8, CrashInv
<1>9. CASE UNCHANGED <<file, append, task, canceller>>
  BY <1>9 DEF LogInv, LinesAreTyped, TaskAppendsAlone, SeqsIncrease, Parses, Shared, IsEvent
<1>10. CASE Load \/ FollowStep \/ Poll \/ UNCHANGED vars
  <2>1. UNCHANGED <<file, append, task, canceller>>
    BY <1>10, QuietReaders DEF Load, Poll, serverVars, vars
  <2> QED BY <1>9, <2>1
<1>11. CASE SettleStore
  BY <1>11, QuietInv DEF SettleStore, LogInv, TaskAppendsAlone
<1> QED
  BY <1>1, <1>2, <1>3, <1>4, <1>5, <1>6, <1>7, <1>8, <1>10, <1>11 DEF Next, ServerStep

--------------------------------------------------------------------------------
(* As long as nobody has cancelled the run, the seqs in its events.jsonl   *)
(* increase and every line is one event: append_run_event reads and writes *)
(* the file in three operations, but only the task of the run calls it     *)
(* then, and a crash that cuts it is followed by no append to that file.   *)
THEOREM LogInOrder == Spec => []LogIsInOrder
<1>1. LogInv => LogIsInOrder
  BY DEF LogInv, LogIsInOrder
<1>2. Spec => []LogInv
  BY InitLog, LogStep, PTL DEF Spec
<1> QED BY <1>1, <1>2, PTL
--------------------------------------------------------------------------------
(* What the writers do to the statuses: a run is loaded while its task or  *)
(* a cancel is at work, and the two end it under the lock.                 *)
StatusInv ==
  /\ task \in {"working", "aborted", "settling", "storing", "gone"}
  /\ canceller \in 0 .. 2 * MaxCancels
  /\ mem \in Statuses \cup {"absent"} /\ disk \in Statuses /\ stored \in BOOLEAN
  /\ crashes \in 0 .. MaxCrashes
  /\ mem = "absent" => task = "gone" /\ ~Cancelling
  /\ task \in {"settling", "storing"} => mem = "succeeded" /\ ~Cancelling
  /\ Cancelling => mem = "cancelled"
  /\ mem = "running" => disk = "running"

LEMMA InitStatus == Init => StatusInv
<1> SUFFICES ASSUME Init PROVE StatusInv
  OBVIOUS
<1>1. ~Cancelling
  BY DEF Init, Cancelling
<1>2. 0 \in 0 .. 2 * MaxCancels /\ 0 \in 0 .. MaxCrashes
  BY LogAssumption
<1>3. canceller = 0 /\ crashes = 0 /\ task = "working" /\ mem = "running" /\ disk = "running"
      /\ stored = FALSE
  BY DEF Init
<1> QED BY <1>1, <1>2, <1>3 DEF StatusInv, Statuses

LEMMA Parity ==
  \A n, m \in Nat : /\ n % 2 \in {0, 1} /\ (n + 1) % 2 # n % 2
                    /\ n < 2 * m => n + 1 <= 2 * m
                    /\ n % 2 = 1 /\ n <= 2 * m => n + 1 <= 2 * m
  OBVIOUS

LEMMA StatusStep == StatusInv /\ [Next]_vars => StatusInv'
<1> SUFFICES ASSUME StatusInv, [Next]_vars PROVE StatusInv'
  OBVIOUS
<1>1. canceller \in Nat /\ MaxCancels \in Nat /\ MaxCrashes \in Nat
  BY LogAssumption DEF StatusInv
<1> DEFINE next == canceller + 1
<1>2. /\ next % 2 = 1 <=> ~Cancelling
      /\ LockIsFree => ~Cancelling /\ task \notin {"settling", "storing"}
      /\ Cancelling => next \in 0 .. 2 * MaxCancels
      /\ canceller < 2 * MaxCancels => next \in 0 .. 2 * MaxCancels
  BY <1>1, Parity DEF StatusInv, Cancelling, LockIsFree
<1>3. ASSUME canceller' = canceller PROVE Cancelling' <=> Cancelling
  BY <1>3 DEF Cancelling
<1>4. ASSUME canceller' = next PROVE Cancelling' <=> ~Cancelling
  BY <1>2, <1>4 DEF Cancelling
<1> HIDE DEF next
<1>5. CASE UNCHANGED <<task, canceller, mem, disk, stored, crashes>>
  BY <1>3, <1>5 DEF StatusInv
<1>6. CASE (\E w \in Writers : WriteLine(w) \/ WriteNewline(w))
           \/ Progress \/ FollowStep \/ Poll \/ UNCHANGED vars
  BY <1>5, <1>6, QuietReaders DEF WriteLine, WriteNewline, Progress, Poll, serverVars, vars
<1>7. CASE Settle
  BY <1>2, <1>3, <1>7 DEF Settle, StatusInv, Statuses
<1>8. CASE SettlePersist \/ SettleStore \/ Unwind
  BY <1>3, <1>8 DEF SettlePersist, SettleStore, Unwind, StatusInv
<1>9. CASE Cancel
  BY <1>2, <1>4, <1>9 DEF Cancel, StatusInv, Statuses, next
<1>10. CASE CancelPersist
  BY <1>2, <1>4, <1>10 DEF CancelPersist, StatusInv, next
<1>11. CASE Crash
  BY <1>1, <1>2, <1>3, <1>4, <1>11 DEF Crash, StatusInv, next
<1>12. CASE Load
  BY <1>3, <1>12 DEF Load, StatusInv, Statuses
<1> QED
  BY <1>6, <1>7, <1>8, <1>9, <1>10, <1>11, <1>12 DEF Next, ServerStep

--------------------------------------------------------------------------------
(* What a client has read, and what it has printed.                        *)
Followers == [at : {"record", "events", "output", "waiting"} \cup Ended,
              status : Statuses \cup {"absent"}, offset : Nat,
              pending : Seq(Lines), printed : Seq(Lines),
              lost : BOOLEAN, output : BOOLEAN]

FollowerTyped ==
  /\ client \in Clients /\ follower \in Followers
  /\ follower.offset \in 0 .. Len(file)

PrintInv == FollowerTyped /\ FollowerPrintsTheLog

(* The file only grows.                                                    *)
LEMMA FileGrows ==
  LogInv /\ [Next]_vars =>
    /\ Len(file) \in Nat /\ Len(file') \in Nat /\ Len(file) <= Len(file')
    /\ \A i \in 1 .. Len(file) : file'[i] = file[i]
<1> SUFFICES ASSUME LogInv, [Next]_vars
             PROVE  /\ Len(file) \in Nat /\ Len(file') \in Nat /\ Len(file) <= Len(file')
                    /\ \A i \in 1 .. Len(file) : file'[i] = file[i]
  OBVIOUS
<1>1. Len(file) \in Nat
  BY LenProperties DEF LogInv, LinesAreTyped
<1>2. CASE \E w \in Writers : WriteLine(w) \/ WriteNewline(w)
  BY <1>1, <1>2, LineTyped DEF LogInv
<1>3. CASE UNCHANGED file
  BY <1>1, <1>3
<1>4. \/ \E w \in Writers : WriteLine(w) \/ WriteNewline(w)
      \/ UNCHANGED file
  BY QuietReaders DEF Next, ServerStep, Settle, SettlePersist, SettleStore, Unwind, CancelPersist,
     Progress, Cancel, Crash, Load, Poll, serverVars, vars
<1> QED BY <1>2, <1>3, <1>4

(* A part of the file is the same part of a longer one.                    *)
LEMMA ReadStays ==
  ASSUME NEW V, NEW s \in Seq(V), NEW t \in Seq(V), Len(s) <= Len(t),
         \A i \in 1 .. Len(s) : t[i] = s[i], NEW n \in 0 .. Len(s)
  PROVE  SubSeq(t, 1, n) = SubSeq(s, 1, n) /\ SubSeq(s, 1, n) \in Seq(V)
<1>1. Len(s) \in Nat /\ Len(t) \in Nat
  BY LenProperties
<1>2. \A i \in 1 .. n : s[i] \in V /\ t[i] = s[i]
  BY <1>1, ElementOfSeq
<1> DEFINE a == SubSeq(s, 1, n)
           b == SubSeq(t, 1, n)
<1>3. a \in Seq(V) /\ Len(a) = n /\ \A i \in 1 .. n : a[i] = s[i]
  BY <1>2, SubSeqProperties
<1>4. b \in Seq(V) /\ Len(b) = n /\ \A i \in 1 .. n : b[i] = t[i]
  BY <1>2, SubSeqProperties
<1> HIDE DEF a, b
<1>5. a = b
  BY <1>2, <1>3, <1>4, SeqEqual
<1> QED BY <1>3, <1>5 DEF a, b

(* The two parts of a text.                                                *)
LEMMA TextParts ==
  ASSUME NEW V, NEW s \in Seq(V), NEW n \in 0 .. Len(s)
  PROVE  /\ SubSeq(s, 1, n) \in Seq(V) /\ SubSeq(s, n + 1, Len(s)) \in Seq(V)
         /\ s = SubSeq(s, 1, n) \o SubSeq(s, n + 1, Len(s))
         /\ Len(SubSeq(s, 1, n)) = n /\ Len(SubSeq(s, n + 1, Len(s))) = Len(s) - n
         /\ \A i \in 1 .. n : SubSeq(s, 1, n)[i] = s[i]
         /\ \A i \in 1 .. Len(s) - n : SubSeq(s, n + 1, Len(s))[i] = s[n + i]
<1>1. Len(s) \in Nat /\ n \in Nat /\ \A i \in 1 .. Len(s) : s[i] \in V
  BY LenProperties, ElementOfSeq
<1> DEFINE a == SubSeq(s, 1, n)
           b == SubSeq(s, n + 1, Len(s))
<1>2. a \in Seq(V) /\ Len(a) = n /\ \A i \in 1 .. n : a[i] = s[i]
  BY <1>1, SubSeqProperties
<1>3. /\ b \in Seq(V) /\ Len(b) = IF n + 1 <= Len(s) THEN Len(s) - (n + 1) + 1 ELSE 0
      /\ \A i \in 1 .. Len(s) - (n + 1) + 1 : b[i] = s[(n + 1) + i - 1]
  BY <1>1, SubSeqProperties
<1>4. a \o b = s
  <2>1. 1 \in 1 .. Len(s) + 1 /\ n \in 1 - 1 .. Len(s) /\ Len(s) \in n .. Len(s)
    BY <1>1
  <2>2. SubSeq(s, 1, n) \o SubSeq(s, n + 1, Len(s)) = SubSeq(s, 1, Len(s))
    BY <2>1, ConcatAdjacentSubSeq
  <2> QED BY <2>2, SubSeqFull
<1> HIDE DEF a, b
<1>5. Len(b) = Len(s) - n
  BY <1>1, <1>3
<1>6. ASSUME NEW i \in 1 .. Len(s) - n PROVE b[i] = s[n + i]
  <2>1. i \in 1 .. Len(s) - (n + 1) + 1 /\ (n + 1) + i - 1 = n + i
    BY <1>1
  <2> QED BY <1>3, <2>1
<1> QED BY <1>2, <1>3, <1>4, <1>5, <1>6 DEF a, b

(* What comes after a prefix completes it.                                 *)
LEMMA PrefixGoesOn ==
  ASSUME NEW V, NEW a \in Seq(V), NEW b \in Seq(V)
  PROVE  a \o SubSeq(a \o b, Len(a) + 1, Len(a \o b)) = a \o b
<1> DEFINE c == a \o b
<1>1. /\ c \in Seq(V) /\ Len(c) = Len(a) + Len(b) /\ Len(a) \in Nat /\ Len(b) \in Nat
      /\ \A i \in 1 .. Len(a) : c[i] = a[i]
  <2>1. /\ c \in Seq(V) /\ Len(c) = Len(a) + Len(b)
        /\ \A i \in 1 .. Len(a) + Len(b) : c[i] = IF i <= Len(a) THEN a[i] ELSE b[i - Len(a)]
    BY ConcatProperties
  <2>2. Len(a) \in Nat /\ Len(b) \in Nat
    BY LenProperties
  <2> HIDE DEF c
  <2> QED BY <2>1, <2>2
<1> HIDE DEF c
<1>5. Len(a) \in 0 .. Len(c) /\ Len(a) <= Len(c)
  BY <1>1
<1>2. c = SubSeq(c, 1, Len(a)) \o SubSeq(c, Len(a) + 1, Len(c))
  BY <1>1, <1>5, TextParts
<1>3. SubSeq(c, 1, Len(a)) = SubSeq(a, 1, Len(a))
  <2>1. Len(a) \in 0 .. Len(a)
    BY <1>1
  <2> QED BY <1>1, <1>5, <2>1, ReadStays
<1>4. SubSeq(a, 1, Len(a)) = a
  BY SubSeqFull
<1> QED BY <1>2, <1>3, <1>4 DEF c

LEMMA InitPrint == Init => PrintInv
<1> SUFFICES ASSUME Init PROVE PrintInv
  OBVIOUS
<1>1. LinesAreTyped /\ Len(file) \in Nat
  BY InitLog, LenProperties DEF LogInv, LinesAreTyped
<1>2. FollowerTyped
  <2>1. <<>> \in Seq(Lines)
    BY EmptySeq
  <2>2. follower \in Followers
    BY <2>1 DEF Init, Statuses, Followers
  <2>3. follower.offset \in 0 .. Len(file)
    BY <1>1 DEF Init
  <2>4. client \in Clients
    BY DEF Init
  <2> QED BY <2>2, <2>3, <2>4 DEF FollowerTyped
<1> DEFINE e == SubSeq(file, 1, 0)
<1>3. e = <<>> /\ e \in Seq(Lines)
  BY SubSeqEmpty, EmptySeq
<1>4. e = CompleteLines(e) \o Unfinished(e) /\ CompleteLines(e) \in Seq(Lines)
      /\ Unfinished(e) \in Seq(Lines)
  BY <1>3, TextSplits
<1>5. CompleteLines(e) = <<>> /\ Unfinished(e) = <<>>
  <2> DEFINE a == CompleteLines(e)
             b == Unfinished(e)
  <2>1. a \in Seq(Lines) /\ b \in Seq(Lines) /\ a \o b = <<>>
    BY <1>3, <1>4
  <2> HIDE DEF a, b
  <2>2. Len(a) + Len(b) = 0 /\ Len(a) \in Nat /\ Len(b) \in Nat
    <3>1. Len(a \o b) = Len(a) + Len(b)
      BY <2>1, ConcatProperties
    <3>2. Len(a \o b) = 0
      BY <2>1
    <3> QED BY <2>1, <3>1, <3>2, LenProperties
  <2>3. a = <<>> /\ b = <<>>
    BY <2>1, <2>2, EmptySeq
  <2> QED BY <2>3 DEF a, b
<1>6. EventsIn(<<>>) = <<>>
  BY KeepEmpty DEF EventsIn
<1>7. follower.printed = <<>> /\ follower.pending = <<>> /\ follower.offset = 0
  BY DEF Init
<1> HIDE DEF e
<1>8. EventsIn(e) = <<>> /\ EventsIn(CompleteLines(e)) = <<>>
  BY <1>3, <1>5, <1>6
<1>9. FollowerPrintsTheLog
  BY <1>5, <1>7, <1>8 DEF FollowerPrintsTheLog, e
<1> QED BY <1>2, <1>9 DEF PrintInv

(* A step of another leaves what has been read and printed as it is.       *)
LEMMA OthersPrint ==
  ASSUME LogInv, LogInv', PrintInv, [Next]_vars, client' = client, FollowerTyped',
         follower'.offset = follower.offset, follower'.pending = follower.pending,
         follower'.printed = follower.printed, follower'.lost = follower.lost
  PROVE  PrintInv'
<1>1. SubSeq(file', 1, follower.offset) = SubSeq(file, 1, follower.offset)
  BY FileGrows, ReadStays DEF LogInv, LinesAreTyped, PrintInv, FollowerTyped
<1>2. FollowerPrintsTheLog'
  BY <1>1 DEF PrintInv, FollowerPrintsTheLog
<1> QED BY <1>2 DEF PrintInv

LEMMA EventsPrint ==
  ASSUME LogInv, PrintInv, FollowEvents
  PROVE  PrintInv'
<1> DEFINE read == SubSeq(file, 1, follower.offset)
           chunk == SubSeq(file, follower.offset + 1, Len(file))
           text == NewText
<1>1. file \in Seq(Lines) /\ Len(file) \in Nat /\ follower.offset \in 0 .. Len(file)
  BY LenProperties DEF LogInv, LinesAreTyped, PrintInv, FollowerTyped
<1>2. /\ read \in Seq(Lines) /\ chunk \in Seq(Lines) /\ file = read \o chunk
      /\ Len(chunk) = Len(file) - follower.offset
  BY <1>1, TextParts
<1>3. NextOffset = Len(file) /\ NewText = follower.pending \o chunk
  <2>1. ~Restarted
    BY <1>1 DEF Restarted
  <2>2. ReadFrom = follower.offset
    BY <2>1 DEF ReadFrom
  <2>3. Chunk = chunk
    BY <2>2 DEF Chunk
  <2>4. NewText = follower.pending \o chunk
    BY <2>1, <2>3 DEF NewText
  <2> HIDE DEF chunk
  <2>5. NextOffset = Len(file)
    BY <1>1, <1>2, <2>2, <2>3 DEF NextOffset
  <2> QED BY <2>4, <2>5
<1>4. text \in Seq(Lines)
  BY <1>2, <1>3, ConcatProperties DEF PrintInv, FollowerTyped, Followers
<1>5. /\ CompleteLines(text) \in Seq(Lines) /\ Unfinished(text) \in Seq(Lines)
      /\ EventsIn(CompleteLines(text)) \in Seq(Lines)
  BY <1>4, TextSplits, KeepTyped DEF EventsIn
<1>6. UNCHANGED <<file, client>> /\ client \in Incremental
  BY DEF FollowEvents, serverVars
<1>7. SubSeq(file, 1, Len(file)) = file
  BY <1>1, SubSeqFull
<1> HIDE DEF read, chunk, text
<1>8. PICK at \in AfterRound \cup {"failed"} :
        follower' =
          [follower EXCEPT
             !.at = at, !.offset = Len(file), !.pending = Unfinished(text),
             !.printed = IF Parses(CompleteLines(text))
                           THEN follower.printed \o EventsIn(CompleteLines(text))
                           ELSE follower.printed,
             !.lost = follower.lost \/ ~Parses(CompleteLines(text))]
  BY <1>3 DEF FollowEvents, text
<1>9. at \in {"record", "events", "output", "waiting"} \cup Ended
  BY DEF AfterRound, Ended
<1>10. follower.printed \o EventsIn(CompleteLines(text)) \in Seq(Lines)
  BY <1>5, ConcatProperties DEF PrintInv, FollowerTyped, Followers
<1>11. FollowerTyped'
  <2> DEFINE printed == IF Parses(CompleteLines(text))
                          THEN follower.printed \o EventsIn(CompleteLines(text))
                          ELSE follower.printed
             lost == follower.lost \/ ~Parses(CompleteLines(text))
             pending == Unfinished(text)
             last == Len(file)
  <2>1. printed \in Seq(Lines) /\ lost \in BOOLEAN /\ pending \in Seq(Lines)
        /\ last \in Nat /\ last \in 0 .. Len(file)
    BY <1>1, <1>5, <1>10 DEF PrintInv, FollowerTyped, Followers
  <2>2. follower' = [follower EXCEPT !.at = at, !.offset = last, !.pending = pending,
                                     !.printed = printed, !.lost = lost]
    BY <1>8
  <2> HIDE DEF printed, lost, pending, last
  <2>3. /\ follower' \in Followers
        /\ follower'.offset = last
    BY <1>9, <2>1, <2>2 DEF PrintInv, FollowerTyped, Followers
  <2> QED BY <1>6, <2>1, <2>3 DEF PrintInv, FollowerTyped, Followers
<1>12. ASSUME ~follower'.lost
       PROVE  /\ follower'.printed = EventsIn(CompleteLines(file))
              /\ follower'.pending = Unfinished(file) /\ follower'.offset = Len(file)
  <2>1. ~follower.lost /\ Parses(CompleteLines(text))
    BY <1>8, <1>12 DEF PrintInv, FollowerTyped, Followers
  <2>2. follower.printed = EventsIn(CompleteLines(read)) /\ follower.pending = Unfinished(read)
    BY <1>6, <2>1 DEF PrintInv, FollowerPrintsTheLog, read
  <2>3. text = Unfinished(read) \o chunk
    BY <1>3, <2>2 DEF text
  <2>4. /\ CompleteLines(file) = CompleteLines(read) \o CompleteLines(text)
        /\ Unfinished(file) = Unfinished(text)
    BY <1>2, <2>3, TextGoesOn
  <2>5. CompleteLines(read) \in Seq(Lines)
    BY <1>2, TextSplits
  <2>6. EventsIn(CompleteLines(file))
          = EventsIn(CompleteLines(read)) \o EventsIn(CompleteLines(text))
    BY <1>5, <2>4, <2>5, KeepConcat DEF EventsIn
  <2> QED BY <1>8, <2>1, <2>2, <2>4, <2>6 DEF PrintInv, FollowerTyped, Followers
<1>13. FollowerPrintsTheLog'
  BY <1>6, <1>7, <1>12 DEF FollowerPrintsTheLog
<1> QED BY <1>11, <1>13 DEF PrintInv

LEMMA WholeFilePrint ==
  ASSUME LogInv, PrintInv, FollowWholeFile
  PROVE  PrintInv'
<1> DEFINE read == SubSeq(file, 1, follower.offset)
           rest == SubSeq(file, follower.offset + 1, Len(file))
           events == EventsIn(file)
           new == SubSeq(events, Len(follower.printed) + 1, Len(events))
<1>1. file \in Seq(Lines) /\ Len(file) \in Nat /\ follower.offset \in 0 .. Len(file)
  BY LenProperties DEF LogInv, LinesAreTyped, PrintInv, FollowerTyped
<1>2. read \in Seq(Lines) /\ rest \in Seq(Lines) /\ file = read \o rest
  BY <1>1, TextParts
<1>3. events = EventsIn(read) \o EventsIn(rest)
  BY <1>2, KeepConcat DEF EventsIn
<1>4. events \in Seq(Lines) /\ EventsIn(read) \in Seq(Lines) /\ EventsIn(rest) \in Seq(Lines)
  BY <1>1, <1>2, KeepTyped DEF EventsIn
<1>5. UNCHANGED <<file, client>> /\ client \in {"logs", "stream", "watch_run"}
  BY DEF FollowWholeFile, serverVars
<1>6. SubSeq(file, 1, Len(file)) = file
  BY <1>1, SubSeqFull
<1>7. follower.printed \in Seq(Lines) /\ Len(follower.printed) \in Nat
  BY LenProperties DEF PrintInv, FollowerTyped, Followers
<1>8. follower.printed \o new \in Seq(Lines)
  <2>1. Len(events) \in Nat /\ \A i \in 1 .. Len(events) : events[i] \in Lines
    BY <1>4, LenProperties, ElementOfSeq
  <2>2. \A i \in Len(follower.printed) + 1 .. Len(events) : events[i] \in Lines
    BY <1>7, <2>1
  <2>3. new \in Seq(Lines)
    <3> HIDE DEF events
    <3> QED BY <1>7, <2>1, <2>2, SubSeqProperties
  <2> QED BY <1>7, <2>3, ConcatProperties
<1> HIDE DEF read, rest
<1>9. CASE follower' = [follower EXCEPT !.at = "failed", !.lost = TRUE]
  BY <1>5, <1>9 DEF PrintInv, FollowerTyped, Ended, FollowerPrintsTheLog, Followers
<1>10. CASE \E at \in AfterRound \cup {"output"} :
              follower' = [follower EXCEPT !.at = at, !.offset = Len(file),
                                           !.printed = follower.printed \o new]
  <2>1. PICK at \in AfterRound \cup {"output"} :
          follower' = [follower EXCEPT !.at = at, !.offset = Len(file),
                                       !.printed = follower.printed \o new]
    BY <1>10
  <2>2. at \in {"record", "events", "output", "waiting"} \cup Ended
    BY DEF AfterRound, Ended
  <2> HIDE DEF new
  <2>3. FollowerTyped'
    <3> DEFINE printed == follower.printed \o new
               last == Len(file)
    <3>1. printed \in Seq(Lines) /\ last \in Nat /\ last \in 0 .. Len(file)
      BY <1>1, <1>8
    <3>2. follower' = [follower EXCEPT !.at = at, !.offset = last, !.printed = printed]
      BY <2>1
    <3> HIDE DEF printed, last
    <3>3. /\ follower' \in Followers
          /\ follower'.offset = last
      BY <2>2, <3>1, <3>2 DEF PrintInv, FollowerTyped, Followers
    <3> QED BY <1>5, <3>1, <3>3 DEF PrintInv, FollowerTyped, Followers
  <2>4. ASSUME ~follower'.lost PROVE follower'.printed = events /\ follower'.offset = Len(file)
    <3>1. ~follower.lost
      BY <2>1, <2>4 DEF PrintInv, FollowerTyped, Followers
    <3>2. follower.printed = EventsIn(read)
      BY <1>5, <3>1 DEF PrintInv, FollowerPrintsTheLog, read, Incremental
    <3>3. follower.printed \o new = events
      BY <1>3, <1>4, <3>2, PrefixGoesOn DEF new
    <3> QED BY <2>1, <3>3 DEF PrintInv, FollowerTyped, Followers
  <2>5. FollowerPrintsTheLog'
    BY <1>5, <1>6, <2>4 DEF FollowerPrintsTheLog, Incremental
  <2> QED BY <2>3, <2>5 DEF PrintInv
<1> QED BY <1>9, <1>10 DEF FollowWholeFile

LEMMA PrintStep == LogInv /\ LogInv' /\ StatusInv /\ PrintInv /\ [Next]_vars => PrintInv'
<1> SUFFICES ASSUME LogInv, LogInv', StatusInv, PrintInv, [Next]_vars PROVE PrintInv'
  OBVIOUS
<1>1. /\ Len(file) \in Nat /\ Len(file') \in Nat /\ Len(file) <= Len(file')
      /\ follower.offset \in 0 .. Len(file')
  BY FileGrows DEF PrintInv, FollowerTyped, Followers
<1>2. CASE ServerStep \/ Progress \/ Cancel \/ Load \/ Poll \/ UNCHANGED vars
  <2>1. UNCHANGED <<client, follower>>
    BY <1>2 DEF ServerStep, WriteLine, WriteNewline, Settle, SettlePersist, SettleStore, Unwind,
       CancelPersist, Progress, Cancel, Load, Poll, readerVars, vars
  <2>2. FollowerTyped'
    BY <1>1, <2>1 DEF PrintInv, FollowerTyped, Followers
  <2> QED BY <2>1, <2>2, OthersPrint
<1>3. ASSUME follower' \in Followers, client' = client,
             follower'.offset = follower.offset, follower'.pending = follower.pending,
             follower'.printed = follower.printed, follower'.lost = follower.lost
      PROVE  PrintInv'
  <2>1. FollowerTyped'
    BY <1>1, <1>3 DEF PrintInv, FollowerTyped, Followers
  <2> QED BY <1>3, <2>1, OthersPrint
<1>4. follower \in Followers
  BY DEF PrintInv, FollowerTyped, Followers
<1>5. CASE Crash
  BY <1>3, <1>4, <1>5 DEF Crash, Followers, Ended
<1>6. CASE FollowRecord \/ FollowMap
  BY <1>3, <1>4, <1>6 DEF FollowRecord, FollowMap, Followers, StatusInv
<1>7. CASE FollowOutput
  <2>1. PICK at \in AfterRound :
          follower' = [follower EXCEPT !.at = at, !.output = follower.output \/ stored]
    BY <1>7 DEF FollowOutput
  <2>2. at \in {"record", "events", "output", "waiting"} \cup Ended
    BY DEF AfterRound, Ended
  <2> DEFINE output == follower.output \/ stored
  <2>3. output \in BOOLEAN
    BY DEF StatusInv
  <2>4. follower' = [follower EXCEPT !.at = at, !.output = output]
    BY <2>1
  <2> HIDE DEF output
  <2> QED BY <1>3, <1>4, <1>7, <2>2, <2>3, <2>4 DEF FollowOutput, Followers
<1>8. CASE AwaitRun
  BY <1>3, <1>4, <1>8 DEF AwaitRun, Ended, FinalStatus, StatusInv, Followers
<1> QED
  BY <1>2, <1>5, <1>6, <1>7, <1>8, EventsPrint, WholeFilePrint DEF Next, FollowStep

(***************************************************************************)
(* Whatever a client prints is what is in events.jsonl, in its order, each *)
(* event once: readers that go on from a byte offset print the complete    *)
(* lines and keep the rest of the last one, wherever the two writes of an  *)
(* append and their reads cut it; readers of the whole file print what     *)
(* follows what they have printed.                                         *)
(***************************************************************************)
THEOREM FollowerPrints == Spec => []FollowerPrintsTheLog
<1>1. PrintInv => FollowerPrintsTheLog
  BY DEF PrintInv
<1>2. Spec => [](LogInv /\ StatusInv /\ PrintInv)
  BY InitLog, LogStep, InitStatus, StatusStep, InitPrint, PrintStep, PTL DEF Spec
<1> QED BY <1>1, <1>2, PTL
--------------------------------------------------------------------------------
(* The event that ends the run is a complete line of the file.             *)
HasEnd(kind) ==
  \E i, j \in 1 .. Len(file) :
    i < j /\ file[i] \in Events /\ file[i].kind = kind /\ file[j] = Newline

(* What has become of the append of that event.                            *)
Announced(w, kind) ==
  /\ append[w].at = "line" => append[w].event \in Events /\ append[w].event.kind = kind
  /\ append[w].at = "newline" =>
       \E i \in 1 .. Len(file) : file[i] \in Events /\ file[i].kind = kind
  /\ append[w].at = "idle" => HasEnd(kind)

(* A status that says the run has ended, in run.json, in the map once the  *)
(* lock is free, or with a client, comes after that event.                 *)
EventsComeFirst ==
  /\ disk # "running" => HasEnd(disk)
  /\ mem \notin {"running", "absent"} => task = "settling" \/ Cancelling \/ HasEnd(mem)
  /\ task = "settling" => Announced("task", "succeeded")
  /\ Cancelling => Announced("cancel", "cancelled")
  /\ follower.status \in Statuses
  /\ follower.status # "running" => HasEnd(follower.status)

(* A run that is streamed is cancelled by nobody, and ends with its        *)
(* server.                                                                 *)
StreamedRun ==
  client = "stream" =>
    /\ canceller = 0 /\ mem # "cancelled" /\ disk # "cancelled" /\ follower.status # "cancelled"
    /\ follower.at \notin Ended => mem # "absent"
    /\ follower.status # "running" => disk # "running"

HasPrinted(kind) == \E i \in 1 .. Len(follower.printed) : follower.printed[i].kind = kind

EndIsPrinted ==
  /\ (/\ follower.at \in {"output", "waiting", "exited"}
      /\ follower.status # "running" /\ ~follower.lost)
       => HasPrinted(follower.status)
  /\ follower.at \in {"waiting", "exited"} => follower.status # "running"
  /\ follower.at = "waiting" => client = "stream"

EndInv == EventsComeFirst /\ StreamedRun /\ EndIsPrinted

(* What the file says stays said, and whoever reads it all prints it.      *)
LEMMA EndStays ==
  ASSUME LogInv, [Next]_vars, NEW kind
  PROVE  /\ HasEnd(kind) => HasEnd(kind)'
         /\ (\E i \in 1 .. Len(file) : file[i] \in Events /\ file[i].kind = kind)
              => \E i \in 1 .. Len(file') : file'[i] \in Events /\ file'[i].kind = kind
<1>1. /\ \A i \in 1 .. Len(file) : i \in 1 .. Len(file')
      /\ \A i \in 1 .. Len(file) : file'[i] = file[i]
  BY FileGrows
<1>2. HasEnd(kind) => HasEnd(kind)'
  BY <1>1 DEF HasEnd
<1> QED BY <1>1, <1>2

LEMMA EndIsKept ==
  ASSUME file \in Seq(Lines), NEW kind, HasEnd(kind)
  PROVE  /\ \E i \in 1 .. Len(EventsIn(file)) : EventsIn(file)[i].kind = kind
         /\ \E i \in 1 .. Len(EventsIn(CompleteLines(file))) :
              EventsIn(CompleteLines(file))[i].kind = kind
<1> DEFINE a == CompleteLines(file)
           b == Unfinished(file)
<1>1. PICK i \in 1 .. Len(file), j \in 1 .. Len(file) :
        i < j /\ file[i] \in Events /\ file[i].kind = kind /\ file[j] = Newline
  BY DEF HasEnd
<1>2. \E k \in 1 .. Len(EventsIn(file)) : EventsIn(file)[k] = file[i]
  BY <1>1, KeepHasAll DEF EventsIn
<1>3. /\ a \in Seq(Lines) /\ b \in Seq(Lines) /\ file = a \o b /\ Len(a) = LastNewline(file)
      /\ Len(file) \in Nat
  BY TextSplits, LenProperties
<1>4. j <= LastNewline(file) /\ LastNewline(file) \in Nat
  <2>1. /\ \A k \in 1 .. Len(file) : k > LastNewline(file) => file[k] # Newline
        /\ LastNewline(file) \in 0 .. Len(file)
    BY LastNewlineIs
  <2> QED BY <1>1, <1>3, <2>1
<1> HIDE DEF a, b
<1>5. i \in 1 .. Len(a) /\ a[i] = file[i]
  <2>1. i \in 1 .. Len(a)
    BY <1>1, <1>3, <1>4
  <2>2. Len(a) \in Nat /\ Len(b) \in Nat
    BY <1>3, LenProperties
  <2>3. \A k \in 1 .. Len(a) + Len(b) : (a \o b)[k] = IF k <= Len(a) THEN a[k] ELSE b[k - Len(a)]
    BY <1>3, ConcatProperties
  <2>4. (a \o b)[i] = a[i]
    BY <2>1, <2>2, <2>3
  <2> QED BY <1>3, <2>1, <2>4
<1>6. \E k \in 1 .. Len(EventsIn(a)) : EventsIn(a)[k] = file[i]
  BY <1>1, <1>3, <1>5, KeepHasAll DEF EventsIn
<1> QED BY <1>1, <1>2, <1>6 DEF a

(* The two writes of an append go on to announce the end.                  *)
LEMMA AnnouncedGoesOn ==
  ASSUME LogInv, [Next]_vars, NEW v \in Writers, NEW kind, Announced(v, kind),
         \/ append'[v] = append[v]
         \/ \E w \in Writers : WriteLine(w) \/ WriteNewline(w)
  PROVE  Announced(v, kind)'
<1>1. CASE append'[v] = append[v]
  BY <1>1, EndStays DEF Announced
<1>2. ASSUME NEW w \in Writers, WriteLine(w) \/ WriteNewline(w), append'[v] # append[v]
      PROVE  Announced(v, kind)'
  <2>1. v = w /\ append \in [Writers -> [at : {"idle", "line", "newline"}, event : Lines]]
    BY <1>2 DEF WriteLine, WriteNewline, LogInv, LinesAreTyped
  <2>2. /\ Len(file) \in Nat /\ Len(file') = Len(file) + 1
        /\ \A i \in 1 .. Len(file) : file'[i] = file[i]
    BY <1>2, LineTyped, LenProperties DEF LogInv, LinesAreTyped
  <2>3. CASE WriteLine(v)
    <3>1. /\ append'[v].at = "newline" /\ append[v].event \in Events
          /\ append[v].event.kind = kind
      BY <2>1, <2>3 DEF WriteLine, Announced
    <3>2. file'[Len(file) + 1] = append[v].event
      BY <2>3, AppendProperties DEF WriteLine, LogInv, LinesAreTyped
    <3>3. Len(file) + 1 \in 1 .. Len(file')
      BY <2>2
    <3> QED BY <3>1, <3>2, <3>3 DEF Announced
  <2>4. CASE WriteNewline(v)
    <3>1. PICK i \in 1 .. Len(file) : file[i] \in Events /\ file[i].kind = kind
      BY <2>4 DEF WriteNewline, Announced
    <3>2. append'[v].at = "idle"
      BY <2>1, <2>4 DEF WriteNewline, NoAppend
    <3>3. file'[Len(file) + 1] = Newline
      BY <2>4, AppendProperties, LinesHaveSeqs DEF WriteNewline, LogInv, LinesAreTyped
    <3>4. Len(file) + 1 \in 1 .. Len(file') /\ i \in 1 .. Len(file') /\ i < Len(file) + 1
      BY <2>2
    <3>5. HasEnd(kind)'
      BY <2>2, <3>1, <3>3, <3>4 DEF HasEnd
    <3> QED BY <3>2, <3>5 DEF Announced
  <2> QED BY <1>2, <2>1, <2>3, <2>4
<1> QED BY <1>1, <1>2

LEMMA BeginAnnounces ==
  ASSUME LogInv, NEW w \in Writers, NEW kind \in {"succeeded", "cancelled"},
         BeginAppend(w, kind, 0), UNCHANGED file
  PROVE  Announced(w, kind)'
<1>1. /\ append'[w] = [at |-> "line", event |-> Event(NextEventSeq(file), kind, 0)]
      /\ Event(NextEventSeq(file), kind, 0) \in Events
  BY BeginTyped, LogAssumption DEF LogInv, LinesAreTyped
<1> QED BY <1>1 DEF Announced, Event

LEMMA InitEnd == Init => EndInv
<1> SUFFICES ASSUME Init PROVE EndInv
  OBVIOUS
<1>1. ~Cancelling
  BY DEF Init, Cancelling
<1>2. EventsComeFirst
  BY <1>1 DEF Init, EventsComeFirst, Statuses
<1>3. StreamedRun /\ EndIsPrinted
  BY DEF Init, StreamedRun, EndIsPrinted, Ended
<1> QED BY <1>2, <1>3 DEF EndInv

(* wait_for_run returns the status that the stream has read.               *)
LEMMA AwaitIsEnd ==
  ASSUME StatusInv, EndInv, AwaitRun
  PROVE  follower.status = "succeeded" /\ mem = "succeeded" /\ HasEnd(mem)
<1>1. follower.at = "waiting" /\ task = "gone" /\ client = "stream"
  BY DEF AwaitRun, EndInv, EndIsPrinted
<1>2. canceller = 0 /\ mem \notin {"cancelled", "absent"} /\ disk # "running"
      /\ follower.status = "succeeded"
  BY <1>1 DEF EndInv, EventsComeFirst, StreamedRun, EndIsPrinted, Statuses, Ended
<1>3. mem = "succeeded"
  BY <1>2 DEF StatusInv, Statuses
<1>4. ~Cancelling
  BY <1>2 DEF Cancelling
<1> QED BY <1>1, <1>2, <1>3, <1>4 DEF EndInv, EventsComeFirst

(* Only a new round and wait_for_run read a status.                        *)
LEMMA FollowersKeep ==
  ASSUME follower \in Followers, FollowEvents \/ FollowWholeFile \/ FollowOutput
  PROVE  /\ follower'.status = follower.status
         /\ follower'.at \in AfterRound \cup {"failed", "output"}
<1>1. CASE FollowEvents
  <2> DEFINE readable == Parses(CompleteLines(NewText))
             pending == Unfinished(NewText)
             printed == IF readable THEN follower.printed \o EventsIn(CompleteLines(NewText))
                        ELSE follower.printed
             lost == follower.lost \/ ~readable
  <2>1. PICK at \in AfterRound \cup {"failed"} :
          follower' = [follower EXCEPT !.at = at, !.offset = NextOffset, !.pending = pending,
                                       !.printed = printed, !.lost = lost]
    BY <1>1 DEF FollowEvents
  <2> HIDE DEF pending, printed, lost
  <2> QED BY <2>1 DEF Followers
<1>2. CASE FollowWholeFile
  <2> DEFINE events == EventsIn(file)
             printed == follower.printed
                          \o SubSeq(events, Len(follower.printed) + 1, Len(events))
             last == Len(file)
  <2>1. \/ \E at \in AfterRound \cup {"output"} :
             follower' = [follower EXCEPT !.at = at, !.offset = last, !.printed = printed]
        \/ follower' = [follower EXCEPT !.at = "failed", !.lost = TRUE]
    BY <1>2 DEF FollowWholeFile
  <2> HIDE DEF printed, last
  <2> QED BY <2>1 DEF Followers
<1>3. CASE FollowOutput
  <2> DEFINE output == follower.output \/ stored
  <2>1. \E at \in AfterRound : follower' = [follower EXCEPT !.at = at, !.output = output]
    BY <1>3 DEF FollowOutput
  <2> HIDE DEF output
  <2> QED BY <2>1 DEF Followers
<1> QED BY <1>1, <1>2, <1>3

(* A read that loses nothing reads to the end of the file.                 *)
LEMMA WholeRead ==
  ASSUME LogInv, PrintInv, FollowEvents \/ FollowWholeFile, ~follower'.lost
  PROVE  follower'.offset = Len(file)
<1>1. Len(file) \in Nat /\ follower.offset \in 0 .. Len(file) /\ follower \in Followers
  BY LenProperties DEF LogInv, LinesAreTyped, PrintInv, FollowerTyped
<1>2. CASE FollowEvents
  <2> DEFINE readable == Parses(CompleteLines(NewText))
             pending == Unfinished(NewText)
             printed == IF readable THEN follower.printed \o EventsIn(CompleteLines(NewText))
                        ELSE follower.printed
             lost == follower.lost \/ ~readable
  <2>1. PICK at \in AfterRound \cup {"failed"} :
          follower' = [follower EXCEPT !.at = at, !.offset = NextOffset, !.pending = pending,
                                       !.printed = printed, !.lost = lost]
    BY <1>2 DEF FollowEvents
  <2>2. NextOffset = Len(file)
    <3>1. ReadFrom = follower.offset
      BY <1>1 DEF Restarted, ReadFrom
    <3>2. Len(Chunk) = Len(file) - follower.offset
      BY <1>1, <3>1, TextParts DEF Chunk, LogInv, LinesAreTyped
    <3> QED BY <1>1, <3>1, <3>2 DEF NextOffset
  <2> HIDE DEF pending, printed, lost
  <2> QED BY <1>1, <2>1, <2>2 DEF Followers
<1>3. CASE FollowWholeFile
  <2> DEFINE events == EventsIn(file)
             printed == follower.printed
                          \o SubSeq(events, Len(follower.printed) + 1, Len(events))
             last == Len(file)
  <2>1. \/ \E at \in AfterRound \cup {"output"} :
             follower' = [follower EXCEPT !.at = at, !.offset = last, !.printed = printed]
        \/ follower' = [follower EXCEPT !.at = "failed", !.lost = TRUE]
    BY <1>3 DEF FollowWholeFile
  <2>2. follower'.offset = last \/ follower'.lost
    <3> HIDE DEF printed, last
    <3> QED BY <1>1, <2>1 DEF Followers
  <2> QED BY <2>2
<1> QED BY <1>2, <1>3

LEMMA EventsComeFirstStep ==
  ASSUME LogInv, StatusInv, PrintInv, EndInv, [Next]_vars
  PROVE  EventsComeFirst'
<1> USE DEF EventsComeFirst
<1>1. EventsComeFirst /\ \A kind : HasEnd(kind) => HasEnd(kind)'
  BY EndStays DEF EndInv
<1>2. canceller \in Nat /\ (canceller + 1) % 2 # canceller % 2 /\ canceller % 2 \in {0, 1}
  BY Parity DEF StatusInv
<1>3. "task" \in Writers /\ "cancel" \in Writers
  BY DEF Writers
<1>4. CASE \E w \in Writers : WriteLine(w) \/ WriteNewline(w)
  <2>1. /\ Announced("task", "succeeded") => Announced("task", "succeeded")'
        /\ Announced("cancel", "cancelled") => Announced("cancel", "cancelled")'
    BY <1>3, <1>4, AnnouncedGoesOn
  <2>2. UNCHANGED <<task, canceller, mem, disk, follower>>
    BY <1>4 DEF WriteLine, WriteNewline, readerVars
  <2> QED BY <1>1, <2>1, <2>2 DEF Cancelling
<1>5. ASSUME UNCHANGED append
      PROVE  /\ Announced("task", "succeeded") => Announced("task", "succeeded")'
             /\ Announced("cancel", "cancelled") => Announced("cancel", "cancelled")'
  BY <1>3, <1>5, AnnouncedGoesOn
<1>6. CASE Settle
  <2>1. ~Cancelling /\ task = "working" /\ UNCHANGED <<canceller, disk, follower, file>>
    BY <1>6 DEF Settle, LockIsFree, readerVars
  <2>2. ~Cancelling'
    BY <2>1 DEF Cancelling
  <2>3. CASE mem = "cancelled" /\ task' = "gone" /\ UNCHANGED mem
    BY <1>1, <2>1, <2>2, <2>3
  <2>4. CASE mem' = "succeeded" /\ task' = "settling" /\ BeginAppend("task", "succeeded", 0)
    BY <1>1, <1>3, <2>1, <2>2, <2>4, BeginAnnounces
  <2> QED BY <1>6, <2>3, <2>4 DEF Settle
<1>7. CASE SettlePersist
  <2>1. mem = "succeeded" /\ ~Cancelling /\ HasEnd("succeeded")
    BY <1>1, <1>7 DEF SettlePersist, AfterEvent, Idle, StatusInv, Announced
  <2>2. UNCHANGED <<canceller, mem, follower>> /\ task' = "storing" /\ disk' = mem
    BY <1>7 DEF SettlePersist, readerVars
  <2>3. ~Cancelling'
    BY <2>1, <2>2 DEF Cancelling
  <2> QED BY <1>1, <2>1, <2>2, <2>3
<1>8. CASE SettleStore \/ Unwind
  <2>1. UNCHANGED <<append, canceller, mem, disk, follower>> /\ task' = "gone" /\ task # "settling"
    BY <1>8 DEF SettleStore, Unwind, readerVars
  <2> QED BY <1>1, <1>5, <2>1 DEF Cancelling
<1>9. CASE Progress
  <2>1. /\ append'["cancel"] = append["cancel"]
        /\ UNCHANGED <<task, canceller, mem, disk, follower>> /\ task # "settling"
    BY <1>9 DEF Progress, BeginAppend, readerVars
  <2>2. Announced("cancel", "cancelled") => Announced("cancel", "cancelled")'
    BY <1>3, <2>1, AnnouncedGoesOn
  <2> QED BY <1>1, <2>1, <2>2 DEF Cancelling
<1>10. CASE Cancel
  <2>1. /\ task' # "settling" /\ mem' = "cancelled" /\ canceller' = canceller + 1 /\ ~Cancelling
        /\ UNCHANGED <<disk, follower, file>> /\ BeginAppend("cancel", "cancelled", 0)
    BY <1>10 DEF Cancel, LockIsFree, readerVars
  <2>2. Cancelling'
    BY <1>2, <2>1 DEF Cancelling
  <2> QED BY <1>1, <1>3, <2>1, <2>2, BeginAnnounces
<1>11. CASE CancelPersist
  <2>1. mem = "cancelled" /\ HasEnd("cancelled")
    BY <1>1, <1>11 DEF CancelPersist, AfterEvent, Idle, StatusInv, Announced
  <2>2. /\ UNCHANGED <<append, task, mem, follower>> /\ canceller' = canceller + 1 /\ disk' = mem
        /\ Cancelling
    BY <1>11 DEF CancelPersist, readerVars
  <2>3. ~Cancelling'
    BY <1>2, <2>2 DEF Cancelling
  <2> QED BY <1>1, <1>5, <2>1, <2>2, <2>3
<1>12. CASE Crash
  <2>1. UNCHANGED disk /\ task' = "gone" /\ mem' = "absent" /\ follower'.status = follower.status
    BY <1>12 DEF Crash
  <2>2. ~Cancelling'
    BY <1>2, <1>12 DEF Crash, Cancelling
  <2> QED BY <1>1, <2>1, <2>2
<1>13. CASE Load
  <2>1. UNCHANGED <<append, task, canceller, disk, follower>> /\ mem' = disk /\ mem = "absent"
    BY <1>13 DEF Load, readerVars
  <2> QED BY <1>1, <1>5, <2>1 DEF Cancelling, StatusInv
<1>14. CASE FollowStep \/ Poll \/ UNCHANGED vars
  <2>1. UNCHANGED <<append, task, canceller, mem, disk>>
    BY <1>14, QuietReaders DEF Poll, serverVars, vars
  <2>2. follower'.status \in Statuses /\ (follower'.status # "running" => HasEnd(follower'.status))
    <3>1. CASE follower'.status = follower.status
      BY <1>1, <3>1
    <3>2. CASE FollowRecord
      BY <1>1, <3>2 DEF FollowRecord, StatusInv
    <3>3. CASE FollowMap
      BY <1>1, <3>3 DEF FollowMap, LockIsFree, StatusInv
    <3>4. CASE AwaitRun
      BY <3>4, AwaitIsEnd DEF AwaitRun, FinalStatus, Statuses
    <3>5. CASE FollowEvents \/ FollowWholeFile \/ FollowOutput \/ Poll \/ UNCHANGED vars
      <4>1. follower'.status = follower.status
        BY <3>5, FollowersKeep DEF PrintInv, FollowerTyped, Poll, readerVars, vars
      <4> QED BY <3>1, <4>1
    <3> QED BY <1>14, <3>2, <3>3, <3>4, <3>5 DEF FollowStep
  <2>3. (follower.status # "running" => HasEnd(follower.status))'
    <3>1. \A i \in 1 .. Len(file) : i \in 1 .. Len(file') /\ file'[i] = file[i]
      BY FileGrows
    <3> QED BY <2>2, <3>1 DEF HasEnd
  <2> QED BY <1>1, <1>5, <2>1, <2>2, <2>3 DEF Cancelling
<1> QED
  BY <1>4, <1>6, <1>7, <1>8, <1>9, <1>10, <1>11, <1>12, <1>13, <1>14 DEF Next, ServerStep

LEMMA StreamedRunStep ==
  ASSUME StatusInv, PrintInv, EndInv, [Next]_vars
  PROVE  StreamedRun'
<1> SUFFICES ASSUME client = "stream", client' = client PROVE StreamedRun'
  <2>1. client' = client
    BY QuietReaders DEF Next, ServerStep, WriteLine, WriteNewline, Settle, SettlePersist,
       SettleStore, Unwind, CancelPersist, Progress, Cancel, Crash, Load, Poll, readerVars, vars
  <2> QED BY <2>1 DEF StreamedRun
<1>1. /\ canceller = 0 /\ mem # "cancelled" /\ disk # "cancelled" /\ follower.status # "cancelled"
      /\ follower.at \notin Ended => mem # "absent"
      /\ follower.status # "running" => disk # "running"
  BY DEF EndInv, StreamedRun
<1>2. ~Cancelling
  BY <1>1 DEF Cancelling
<1>3. CASE UNCHANGED <<canceller, mem, disk, follower>>
  BY <1>1, <1>3 DEF StreamedRun
<1>4. CASE (\E w \in Writers : WriteLine(w) \/ WriteNewline(w)) \/ SettleStore \/ Unwind
           \/ Progress \/ Poll \/ UNCHANGED vars
  BY <1>3, <1>4 DEF WriteLine, WriteNewline, SettleStore, Unwind, Progress, Poll, serverVars,
     readerVars, vars
<1>5. CASE Settle \/ SettlePersist
  BY <1>1, <1>5 DEF Settle, SettlePersist, StatusInv, StreamedRun, readerVars
<1>6. CASE Cancel \/ CancelPersist
  BY <1>2, <1>6 DEF Cancel, CancelPersist
<1>7. CASE Crash
  <2>1. follower'.at \in Ended /\ follower'.status = follower.status
    BY <1>7 DEF Crash, InServer, PrintInv, FollowerTyped, Followers, Ended
  <2> QED BY <1>1, <1>2, <1>7, <2>1 DEF Crash, StreamedRun
<1>8. CASE Load
  BY <1>1, <1>8 DEF Load, StreamedRun, readerVars
<1>9. CASE FollowStep
  <2>1. UNCHANGED <<canceller, mem, disk>>
    BY <1>9, QuietReaders DEF serverVars
  <2>2. follower.at \notin Ended
    BY <1>9 DEF FollowStep, FollowRecord, FollowMap, FollowEvents, FollowWholeFile, FollowOutput,
       AwaitRun, Ended
  <2>3. follower'.status = follower.status \/ follower'.status = disk
        \/ (follower'.status = "succeeded" /\ follower.status = "succeeded")
    <3>1. CASE FollowRecord
      BY <3>1 DEF FollowRecord, PrintInv, FollowerTyped, Followers
    <3>2. CASE AwaitRun
      BY <3>2, AwaitIsEnd DEF AwaitRun, FinalStatus, PrintInv, FollowerTyped, Followers
    <3>3. CASE FollowEvents \/ FollowWholeFile \/ FollowOutput
      BY <3>3, FollowersKeep DEF PrintInv, FollowerTyped
    <3> QED BY <1>9, <3>1, <3>2, <3>3 DEF FollowStep, FollowMap
  <2> QED BY <1>1, <2>1, <2>2, <2>3 DEF StreamedRun
<1> QED
  BY <1>4, <1>5, <1>6, <1>7, <1>8, <1>9 DEF Next, ServerStep

(* A client that has read the file once more has printed the end.          *)
LEMMA ReadPrintsEnd ==
  ASSUME LogInv, PrintInv, EndInv, FollowEvents \/ FollowWholeFile,
         ~follower'.lost, follower.status # "running"
  PROVE  HasPrinted(follower.status)'
<1>1. file \in Seq(Lines) /\ SubSeq(file, 1, Len(file)) = file
  BY SubSeqFull DEF LogInv, LinesAreTyped
<1>2. PrintInv'
  BY EventsPrint, WholeFilePrint
<1>3. UNCHANGED <<file, client>> /\ follower'.status = follower.status
  BY FollowersKeep DEF FollowEvents, FollowWholeFile, serverVars, PrintInv, FollowerTyped
<1>4. HasEnd(follower.status)
  BY DEF EndInv, EventsComeFirst
<1>5. follower'.printed = EventsIn(CompleteLines(file)) \/ follower'.printed = EventsIn(file)
  <2>1. follower'.offset = Len(file)
    BY WholeRead
  <2> QED BY <1>1, <1>2, <1>3, <2>1 DEF PrintInv, FollowerPrintsTheLog
<1> QED BY <1>1, <1>3, <1>4, <1>5, EndIsKept DEF HasPrinted

LEMMA EndIsPrintedStep ==
  ASSUME LogInv, StatusInv, PrintInv, EndInv, [Next]_vars
  PROVE  EndIsPrinted'
<1>1. EndIsPrinted /\ follower \in Followers /\ follower.status \in Statuses
  BY DEF EndInv, PrintInv, FollowerTyped, EventsComeFirst
<1>2. \A at \in AfterRound : at \in {"waiting", "exited"} =>
          follower.status # "running" /\ (at = "waiting" => client = "stream")
  BY <1>1 DEF AfterRound, IsTerminalStatus, Streams
<1>3. CASE UNCHANGED <<client, follower>>
  BY <1>1, <1>3 DEF EndIsPrinted, HasPrinted
<1>4. CASE ServerStep \/ Progress \/ Cancel \/ Load \/ Poll \/ UNCHANGED vars
  BY <1>3, <1>4 DEF ServerStep, WriteLine, WriteNewline, Settle, SettlePersist, SettleStore,
     Unwind, CancelPersist, Progress, Cancel, Load, Poll, readerVars, vars
<1>5. CASE Crash
  BY <1>1, <1>3, <1>5 DEF Crash, EndIsPrinted, Followers
<1>6. CASE FollowRecord \/ FollowMap
  BY <1>1, <1>6 DEF FollowRecord, FollowMap, EndIsPrinted, Followers
<1>7. CASE FollowEvents \/ FollowWholeFile
  <2>1. /\ follower'.status = follower.status /\ client' = client
        /\ follower'.at \in AfterRound \cup {"failed", "output"}
    BY <1>1, <1>7, FollowersKeep DEF FollowEvents, FollowWholeFile
  <2>2. ~follower'.lost /\ follower.status # "running" => HasPrinted(follower.status)'
    BY <1>7, ReadPrintsEnd
  <2> QED BY <1>2, <2>1, <2>2 DEF EndIsPrinted
<1>8. CASE FollowOutput
  <2>1. /\ follower'.status = follower.status /\ client' = client
        /\ follower'.at \in AfterRound
        /\ follower'.lost = follower.lost /\ follower'.printed = follower.printed
    <3> DEFINE output == follower.output \/ stored
    <3>1. \E at \in AfterRound : follower' = [follower EXCEPT !.at = at, !.output = output]
      BY <1>8 DEF FollowOutput
    <3> HIDE DEF output
    <3> QED BY <1>1, <1>8, <3>1 DEF FollowOutput, Followers
  <2>2. follower.at = "output"
    BY <1>8 DEF FollowOutput
  <2> QED BY <1>1, <1>2, <2>1, <2>2 DEF EndIsPrinted, HasPrinted
<1>9. CASE AwaitRun
  <2>1. follower.status = "succeeded" /\ mem = "succeeded"
    BY <1>9, AwaitIsEnd
  <2> QED BY <1>1, <1>9, <2>1 DEF AwaitRun, FinalStatus, EndIsPrinted, HasPrinted, Followers
<1> QED
  BY <1>4, <1>5, <1>6, <1>7, <1>8, <1>9 DEF Next, FollowStep

(***************************************************************************)
(* No client exits with success before it has printed the event that says  *)
(* how the run ended: the status is read before the file, the terminal     *)
(* event is a line of the file before the status is in run.json or, for a  *)
(* client that asks the server, before the lock that changed it is free.   *)
(* The status `spawn --stream` ends with is the one it has printed: nobody *)
(* cancels a run that is streamed.                                         *)
(***************************************************************************)
THEOREM FollowerEnds == Spec => []FollowerSeesTheEnd
<1>1. EndInv => FollowerSeesTheEnd
  BY DEF EndInv, EndIsPrinted, HasPrinted, FollowerSeesTheEnd
<1>2. LogInv /\ StatusInv /\ PrintInv /\ EndInv /\ [Next]_vars => EndInv'
  BY EventsComeFirstStep, StreamedRunStep, EndIsPrintedStep DEF EndInv
<1>3. Spec => [](LogInv /\ StatusInv /\ PrintInv /\ EndInv)
  BY <1>2, InitLog, LogStep, InitStatus, StatusStep, InitPrint, PrintStep, InitEnd, PTL DEF Spec
<1> QED BY <1>1, <1>3, PTL
--------------------------------------------------------------------------------
(* The host that polls.                                                    *)
Answers == Seq([since : Nat, events : Seq(Events)])
PollerTyped == poller \in [since : Nat, answers : Answers]

Beyond(n) == {e \in Events : e.seq > n}

(* What it was given is not beyond its cursor.                             *)
GivenIsBehind ==
  \A a \in AnswersTo : \A i \in 1 .. Len(EventsOf(a)) : EventsOf(a)[i].seq <= poller.since

GivenOnce ==
  \A a, b \in AnswersTo : \A i \in 1 .. Len(EventsOf(a)), j \in 1 .. Len(EventsOf(b)) :
    EventsOf(a)[i] = EventsOf(b)[j] => a = b /\ i = j

Accounted(event) == Given(event) \/ SkippedByCursor(event) \/ CutByLimit(event)

MissesAreKnown ==
  \A event \in Events :
    event.seq <= poller.since /\ (\E i \in 1 .. Len(file) : file[i] = event) => Accounted(event)

(* The cursor is at most one past the log.                                 *)
CursorIsNear == poller.since = 0 \/ \E i \in 1 .. Len(file) : poller.since <= file[i].seq + 1

PollInv == canceller = 0 => GivenIsBehind /\ GivenOnce /\ MissesAreKnown /\ CursorIsNear

(* Newlines are no events.                                                 *)
LEMMA LineIsEvent ==
  /\ Newline \notin Events
  /\ \A line \in Lines : line # Newline => line \in Events
BY DEF Lines, Events, Newline

(* The cursor that an answer gives.                                        *)
LEMMA LastSeqIs ==
  ASSUME NEW since \in Nat, NEW events \in Seq(Events), events # <<>>
  PROVE  /\ LastSeq(since, events) \in Nat
         /\ \E i \in 1 .. Len(events) : events[i].seq = LastSeq(since, events)
         /\ \A i \in 1 .. Len(events) : events[i].seq <= LastSeq(since, events)
<1> DEFINE S == {events[i].seq : i \in 1 .. Len(events)}
           seqOf == [i \in 1 .. Len(events) |-> events[i].seq]
<1>1. Len(events) \in Nat /\ \A i \in 1 .. Len(events) : events[i].seq \in Nat
  BY LenProperties, ElementOfSeq, LinesHaveSeqs DEF Lines
<1>2. 1 \in 1 .. Len(events)
  BY <1>1, EmptySeq
<1>3. IsFiniteSet(1 .. Len(events)) /\ seqOf \in Surjection(1 .. Len(events), S)
  <2>1. IsFiniteSet(1 .. Len(events))
    <3>1. 1 \in Int /\ Len(events) \in Int
      BY <1>1
    <3> HIDE DEF S, seqOf
    <3> QED BY <3>1, FS_Interval
  <2>2. seqOf \in Surjection(1 .. Len(events), S)
    <3> DEFINE D == 1 .. Len(events)
               R == {events[i].seq : i \in D}
               f == [i \in D |-> events[i].seq]
    <3> HIDE DEF D
    <3>1. f \in Surjection(D, R)
      BY DEF Surjection
    <3> QED BY <3>1 DEF D
  <2> QED BY <2>1, <2>2
<1>4. IsFiniteSet(S)
  <2> HIDE DEF S, seqOf
  <2> QED BY <1>3, FS_Surjection
<1>5. S \in SUBSET Nat /\ S # {}
  BY <1>1, <1>2
<1>6. LastSeq(since, events) = Largest(S)
  BY DEF LastSeq
<1>7. Largest(S) \in S /\ \A m \in S : m <= Largest(S)
  <2> HIDE DEF S
  <2> QED BY <1>4, <1>5, LargestOfSet
<1> DEFINE L == Largest(S)
<1>8. L \in S /\ \A i \in 1 .. Len(events) : events[i].seq <= L
  BY <1>7
<1> HIDE DEF L
<1> QED BY <1>1, <1>6, <1>8 DEF L

LEMMA LastOfTyped ==
  ASSUME NEW events \in Seq(Events)
  PROVE  LastOf(events) \in Seq(Events)
<1>1. Len(events) \in Nat /\ Limit \in Nat /\ \A i \in 1 .. Len(events) : events[i] \in Events
  BY LogAssumption, LenProperties, ElementOfSeq
<1>2. CASE Len(events) > Limit
  <2> DEFINE m == Len(events) - Limit + 1
  <2>1. m \in 1 .. Len(events) + 1 /\ m \in Nat
    BY <1>1, <1>2
  <2>2. \A i \in m .. Len(events) : events[i] \in Events
    BY <1>1, <2>1
  <2> HIDE DEF m
  <2>3. SubSeq(events, m, Len(events)) \in Seq(Events)
    BY <1>1, <2>1, <2>2, SubSeqProperties
  <2> QED BY <1>2, <2>3 DEF LastOf, m
<1> QED BY <1>2 DEF LastOf

(* An answer holds the newest of the events after the cursor, and all of   *)
(* them or Limit.                                                          *)
LEMMA LastOfIs ==
  ASSUME NEW events \in Seq(Events)
  PROVE  \E cut \in Nat :
           /\ Len(LastOf(events)) = Len(events) - cut /\ cut <= Len(events)
           /\ \A i \in 1 .. Len(LastOf(events)) : LastOf(events)[i] = events[cut + i]
           /\ cut = 0 \/ Len(LastOf(events)) = Limit
<1>1. Len(events) \in Nat /\ Limit \in Nat \ {0} /\ \A i \in 1 .. Len(events) : events[i] \in Events
  BY LogAssumption, LenProperties, ElementOfSeq
<1>2. CASE Len(events) > Limit
  <2> DEFINE cut == Len(events) - Limit
             m == cut + 1
  <2>1. cut \in Nat /\ m \in 1 .. Len(events) + 1 /\ m \in Nat /\ Len(events) - m + 1 = Limit
    BY <1>1, <1>2
  <2>2. \A i \in m .. Len(events) : events[i] \in Events
    BY <1>1, <2>1
  <2>3. m = Len(events) - Limit + 1
    BY <1>1
  <2> HIDE DEF m
  <2>4. /\ SubSeq(events, m, Len(events)) \in Seq(Events)
        /\ Len(SubSeq(events, m, Len(events))) = Limit
        /\ \A i \in 1 .. Limit : SubSeq(events, m, Len(events))[i] = events[m + i - 1]
    BY <1>1, <1>2, <2>1, <2>2, SubSeqProperties
  <2>5. LastOf(events) = SubSeq(events, m, Len(events))
    BY <1>2, <2>3 DEF LastOf
  <2>6. \A i \in 1 .. Limit : m + i - 1 = cut + i
    BY <1>1, <2>1 DEF m
  <2>7. Limit = Len(events) - cut /\ cut <= Len(events)
    BY <1>1, <1>2
  <2> HIDE DEF cut
  <2>8. \A i \in 1 .. Limit : LastOf(events)[i] = events[cut + i]
    BY <2>4, <2>5, <2>6
  <2> QED BY <2>1, <2>4, <2>5, <2>7, <2>8
<1>3. CASE ~ (Len(events) > Limit)
  <2>1. LastOf(events) = events /\ Len(events) = Len(events) - 0 /\ 0 <= Len(events)
    BY <1>1, <1>3 DEF LastOf
  <2>2. \A i \in 1 .. Len(events) : i = 0 + i
    OBVIOUS
  <2> QED BY <2>1, <2>2
<1> QED BY <1>2, <1>3

LEMMA InitPoll == Init => PollerTyped /\ PollInv
<1> SUFFICES ASSUME Init PROVE PollerTyped /\ PollInv
  OBVIOUS
<1>1. poller = [since |-> 0, answers |-> <<>>] /\ <<>> \in Answers
  BY EmptySeq DEF Init, Answers
<1>2. AnswersTo = {}
  BY <1>1 DEF AnswersTo
<1>3. file = <<Event(1, "accepted", 0), Newline>>
  BY DEF Init
<1>4. Len(file) = 2 /\ file[1].seq = 1 /\ file[2] = Newline
  BY <1>3 DEF Event
<1>5. MissesAreKnown
  BY <1>1, <1>4, LineIsEvent DEF MissesAreKnown
<1> QED BY <1>1, <1>2, <1>5 DEF PollerTyped, PollInv, GivenIsBehind, GivenOnce, CursorIsNear

(* The task appends an event: no cursor is past it.                        *)
LEMMA LinePoll ==
  ASSUME LogInv, PollerTyped, canceller = 0, PollInv, NEW w \in Writers,
         WriteLine(w) \/ WriteNewline(w)
  PROVE  MissesAreKnown' /\ CursorIsNear'
<1>0. PICK n \in Nat : n = Len(file)
  BY LenProperties DEF LogInv, LinesAreTyped
<1>1. /\ LinesAreTyped /\ TaskAppendsAlone /\ file \in Seq(Lines)
      /\ MissesAreKnown /\ CursorIsNear /\ poller.since \in Nat /\ poller' = poller
  BY DEF LogInv, LinesAreTyped, PollInv, PollerTyped, WriteLine, WriteNewline, readerVars
<1>2. Len(file') = n + 1 /\ \A i \in 1 .. n : file'[i] = file[i] /\ i \in 1 .. n + 1
  <2>1. Len(file') = n + 1 /\ \A i \in 1 .. n : file'[i] = file[i]
    BY <1>0, <1>1, LineTyped
  <2> QED BY <1>0, <2>1
<1>3. CursorIsNear'
  BY <1>0, <1>1, <1>2 DEF CursorIsNear
<1>4. \A event : Accounted(event) => Accounted(event)'
  BY <1>1 DEF Accounted, Given, SkippedByCursor, CutByLimit, AnswersTo, EventsOf
<1>5. ASSUME NEW e \in Events, e = file'[n + 1], e.seq <= poller.since
      PROVE  SkippedByCursor(e)
  <2>1. \A i \in 1 .. n : file[i].seq < e.seq
    <3>1. WriteLine(w) /\ w = "task"
      <4>1. WriteNewline(w) => e = Newline
        BY <1>0, <1>1, <1>5, LinesHaveSeqs, AppendProperties DEF WriteNewline
      <4> QED BY <1>1, <1>5, <4>1, LineIsEvent DEF TaskAppendsAlone, WriteLine, Writers
    <3>2. file' = Append(file, append["task"].event) /\ append["task"].at = "line"
      BY <3>1 DEF WriteLine
    <3>3. append["task"].event \in Lines
      BY <1>1 DEF LinesAreTyped, Writers
    <3>4. e = append["task"].event
      BY <1>0, <1>1, <1>5, <3>2, <3>3, AppendProperties
    <3> QED BY <1>0, <1>1, <3>2, <3>4 DEF TaskAppendsAlone
  <2>2. e.seq \in Nat \ {0} /\ \A i \in 1 .. n : file[i].seq \in Nat
    BY <1>0, <1>1, ElementOfSeq, LinesHaveSeqs DEF Events
  <2>3. e.seq = poller.since
    BY <1>0, <1>1, <1>5, <2>1, <2>2 DEF CursorIsNear
  <2> QED BY <2>3 DEF SkippedByCursor
<1>6. ASSUME NEW e \in Events, e.seq <= poller.since, NEW i \in 1 .. n + 1, file'[i] = e
      PROVE  Accounted(e)'
  <2>1. CASE i \in 1 .. n
    BY <1>0, <1>1, <1>2, <1>4, <1>6, <2>1 DEF MissesAreKnown
  <2>2. CASE i = n + 1
    BY <1>4, <1>5, <1>6, <2>2 DEF Accounted
  <2> QED BY <1>0, <2>1, <2>2
<1>7. MissesAreKnown'
  BY <1>1, <1>2, <1>6 DEF MissesAreKnown
<1> QED BY <1>3, <1>7

(* What is new comes in the order of the seqs, and is all that is beyond   *)
(* the cursor.                                                             *)
LEMMA NewEvents ==
  ASSUME LinesAreTyped, SeqsIncrease, NEW since \in Nat
  PROVE  LET new == Since(since, EventsIn(file)) IN
         /\ new \in Seq(Events) /\ Len(new) \in Nat
         /\ \A j \in 1 .. Len(new) :
              /\ new[j] \in Events /\ new[j].seq > since
              /\ \E i \in 1 .. Len(file) : file[i] = new[j]
         /\ \A j, k \in 1 .. Len(new) : j < k => new[j].seq < new[k].seq
         /\ \A i \in 1 .. Len(file) : file[i] \in Beyond(since) =>
              \E j \in 1 .. Len(new) : new[j] = file[i]
<1> DEFINE new == Since(since, EventsIn(file))
           B == Beyond(since)
           kept == Keep(file, B)
<1>1. file \in Seq(Lines)
  BY DEF LinesAreTyped
<1>2. new = kept
  <2>1. Events \cap {e \in Events : e.seq > since} = Beyond(since)
    BY DEF Beyond
  <2>2. Keep(Keep(file, Events), {e \in Events : e.seq > since})
          = Keep(file, Events \cap {e \in Events : e.seq > since})
    BY <1>1, KeepTwice
  <2> QED BY <2>1, <2>2 DEF Since, EventsIn
<1>3. kept \in Seq(Beyond(since)) /\ Len(kept) \in Nat
  BY <1>1, KeepTyped
<1> HIDE DEF B
<1>4. \A j \in 1 .. Len(kept) : \E a \in 1 .. Len(file) :
        file[a] = kept[j] /\ file[a] \in B
  BY <1>1, KeepOrder
<1>5. \A j, k \in 1 .. Len(kept) : j < k =>
        \E a, b \in 1 .. Len(file) :
          a < b /\ file[a] = kept[j] /\ file[b] = kept[k]
          /\ file[a] \in B /\ file[b] \in B
  BY <1>1, KeepOrder
<1>6. \A i \in 1 .. Len(file) : file[i] \in Beyond(since) =>
        \E j \in 1 .. Len(kept) : kept[j] = file[i]
  BY <1>1, KeepHasAll DEF B
<1> HIDE DEF kept
<1>7. \A j \in 1 .. Len(kept) :
        /\ kept[j] \in Events /\ kept[j].seq > since
        /\ \E i \in 1 .. Len(file) : file[i] = kept[j]
  BY <1>4 DEF B, Beyond
<1>8. kept \in Seq(Events)
  <2>1. Len(kept) \in Nat /\ kept = [i \in 1 .. Len(kept) |-> kept[i]]
    BY <1>3, LenProperties
  <2> QED BY <1>7, <2>1, SeqDef
<1>9. ASSUME NEW j \in 1 .. Len(kept), NEW k \in 1 .. Len(kept), j < k
      PROVE  kept[j].seq < kept[k].seq
  <2>1. PICK a \in 1 .. Len(file), b \in 1 .. Len(file) :
          a < b /\ file[a] = kept[j] /\ file[b] = kept[k]
          /\ file[a] \in B /\ file[b] \in B
    BY <1>5, <1>9
  <2>2. file[a] # Newline /\ file[b] # Newline
    BY <2>1, LineIsEvent DEF B, Beyond
  <2> QED BY <2>1, <2>2 DEF SeqsIncrease, IsEvent
<1> QED BY <1>2, <1>3, <1>6, <1>7, <1>8, <1>9

(* What the host is answered next, and where it goes on from.              *)
LEMMA PollIs ==
  ASSUME LogInv, SeqsIncrease, PollerTyped, Poll
  PROVE  \E events \in Seq(Events), cursor \in Nat :
           /\ events # <<>> /\ Len(events) \in Nat
           /\ poller' = [since |-> cursor,
                         answers |-> Append(poller.answers,
                                            [since |-> poller.since, events |-> events])]
           /\ \A i \in 1 .. Len(events) :
                /\ events[i] \in Events /\ poller.since < events[i].seq /\ events[i].seq <= cursor
                /\ \A j \in 1 .. Len(events) : i < j => events[i].seq < events[j].seq
           /\ \E i \in 1 .. Len(file) : cursor <= file[i].seq + 1
           /\ \A i \in 1 .. Len(file) : file[i] \in Beyond(poller.since) =>
                \/ \E j \in 1 .. Len(events) : events[j] = file[i]
                \/ Len(events) = Limit /\ file[i].seq < events[1].seq
<1> DEFINE since == poller.since
           new == Since(since, EventsIn(file))
           events == LastOf(new)
           last == LastSeq(since, events)
<1>1. LinesAreTyped /\ since \in Nat
  BY DEF LogInv, PollerTyped
<1>2. /\ new \in Seq(Events) /\ Len(new) \in Nat
      /\ \A j \in 1 .. Len(new) :
           /\ new[j] \in Events /\ new[j].seq > since
           /\ \E i \in 1 .. Len(file) : file[i] = new[j]
      /\ \A j, k \in 1 .. Len(new) : j < k => new[j].seq < new[k].seq
      /\ \A i \in 1 .. Len(file) : file[i] \in Beyond(since) =>
           \E j \in 1 .. Len(new) : new[j] = file[i]
  <2> HIDE DEF since
  <2> QED BY <1>1, NewEvents
<1> HIDE DEF new
<1>3. events \in Seq(Events)
  BY <1>2, LastOfTyped
<1>4. PICK cut \in Nat :
        /\ Len(events) = Len(new) - cut /\ cut <= Len(new)
        /\ \A i \in 1 .. Len(events) : events[i] = new[cut + i]
        /\ cut = 0 \/ Len(events) = Limit
  BY <1>2, LastOfIs
<1>5. events # <<>> /\ \E cursor \in {NextSeq(since, events), last} :
        poller' = [since |-> cursor,
                   answers |-> Append(poller.answers, [since |-> since, events |-> events])]
  BY DEF Poll, new
<1> HIDE DEF events
<1>6. /\ last \in Nat /\ \E i \in 1 .. Len(events) : events[i].seq = last
      /\ \A i \in 1 .. Len(events) : events[i].seq <= last
  BY <1>1, <1>3, <1>5, LastSeqIs
<1>7. NextSeq(since, events) = last + 1
  BY <1>5 DEF NextSeq
<1> HIDE DEF last
<1>8. PICK cursor \in {last, last + 1} :
        poller' = [since |-> cursor,
                   answers |-> Append(poller.answers, [since |-> since, events |-> events])]
  BY <1>5, <1>7
<1>9. Len(events) \in Nat /\ Limit \in Nat \ {0} /\ Len(events) >= 1
  BY <1>3, <1>5, LenProperties, EmptySeq, LogAssumption
<1>10. \A i \in 1 .. Len(events) : cut + i \in 1 .. Len(new)
  BY <1>2, <1>4, <1>9
<1>11. ASSUME NEW i \in 1 .. Len(events)
       PROVE  /\ events[i] \in Events /\ since < events[i].seq /\ events[i].seq <= cursor
              /\ \E k \in 1 .. Len(file) : file[k] = events[i]
              /\ \A j \in 1 .. Len(events) : i < j => events[i].seq < events[j].seq
  <2>1. /\ events[i] \in Events /\ since < events[i].seq
        /\ \E k \in 1 .. Len(file) : file[k] = events[i]
    BY <1>1, <1>2, <1>4, <1>10
  <2>2. events[i].seq <= cursor
    <3>1. events[i].seq \in Nat /\ events[i].seq <= last
      BY <1>6, <2>1 DEF Events
    <3> QED BY <1>6, <3>1
  <2>3. ASSUME NEW j \in 1 .. Len(events), i < j PROVE events[i].seq < events[j].seq
    <3>1. cut + i < cut + j
      BY <2>3
    <3> QED BY <1>2, <1>4, <1>10, <3>1
  <2> QED BY <2>1, <2>2, <2>3
<1>12. \E i \in 1 .. Len(file) : cursor <= file[i].seq + 1
  <2>1. PICK i \in 1 .. Len(events) : events[i].seq = last
    BY <1>6
  <2>2. PICK k \in 1 .. Len(file) : file[k] = events[i]
    BY <1>11
  <2> QED BY <1>6, <2>1, <2>2
<1>13. ASSUME NEW i \in 1 .. Len(file), file[i] \in Beyond(since)
       PROVE  \/ \E j \in 1 .. Len(events) : events[j] = file[i]
              \/ Len(events) = Limit /\ file[i].seq < events[1].seq
  <2>1. PICK k \in 1 .. Len(new) : new[k] = file[i]
    BY <1>2, <1>13
  <2>2. CASE k > cut
    <3>1. k - cut \in 1 .. Len(events) /\ cut + (k - cut) = k
      BY <1>2, <1>4, <2>2
    <3>2. events[k - cut] = file[i]
      BY <1>4, <2>1, <3>1
    <3> QED BY <3>1, <3>2
  <2>3. CASE k <= cut
    <3>1. cut + 1 \in 1 .. Len(new) /\ k < cut + 1 /\ 1 \in 1 .. Len(events) /\ cut # 0
      BY <1>2, <1>4, <1>9, <2>3
    <3>2. events[1] = new[cut + 1]
      BY <1>4, <3>1
    <3>3. new[k].seq < new[cut + 1].seq
      BY <1>2, <3>1
    <3> QED BY <1>4, <2>1, <3>1, <3>2, <3>3
  <2> QED BY <1>2, <1>4, <2>2, <2>3
<1>14. cursor \in Nat
  BY <1>6
<1> QED BY <1>3, <1>5, <1>8, <1>9, <1>11, <1>12, <1>13, <1>14

LEMMA PollKnown ==
  ASSUME LogInv, PollerTyped, canceller = 0, PollInv, Poll
  PROVE  GivenIsBehind' /\ GivenOnce' /\ MissesAreKnown' /\ CursorIsNear'
<1>0. PICK m \in Nat : m = Len(poller.answers)
  BY LenProperties DEF PollerTyped, Answers
<1>1. /\ SeqsIncrease /\ GivenIsBehind /\ GivenOnce /\ MissesAreKnown /\ file' = file
      /\ file \in Seq(Lines) /\ poller.since \in Nat /\ poller.answers \in Answers
  BY DEF LogInv, LinesAreTyped, PollInv, PollerTyped, Answers, Poll, serverVars
<1>2. PICK events \in Seq(Events), cursor \in Nat :
        /\ events # <<>> /\ Len(events) \in Nat
        /\ poller' = [since |-> cursor,
                      answers |-> Append(poller.answers,
                                         [since |-> poller.since, events |-> events])]
        /\ \A i \in 1 .. Len(events) :
             /\ events[i] \in Events /\ poller.since < events[i].seq /\ events[i].seq <= cursor
             /\ \A j \in 1 .. Len(events) : i < j => events[i].seq < events[j].seq
        /\ \E i \in 1 .. Len(file) : cursor <= file[i].seq + 1
        /\ \A i \in 1 .. Len(file) : file[i] \in Beyond(poller.since) =>
             \/ \E j \in 1 .. Len(events) : events[j] = file[i]
             \/ Len(events) = Limit /\ file[i].seq < events[1].seq
  BY <1>1, PollIs
<1> DEFINE answer == [since |-> poller.since, events |-> events]
<1>3. /\ poller'.since = cursor /\ Len(poller'.answers) = m + 1
      /\ poller'.answers[m + 1] = answer
      /\ \A a \in 1 .. m : poller'.answers[a] = poller.answers[a]
  <2>1. answer \in [since : Nat, events : Seq(Events)]
    BY <1>1, <1>2
  <2> HIDE DEF answer
  <2> QED BY <1>0, <1>1, <1>2, <2>1, AppendProperties DEF Answers, answer
<1>4. /\ AnswersTo' = 1 .. m + 1 /\ AnswersTo = 1 .. m
      /\ EventsOf(m + 1)' = events
      /\ \A a \in 1 .. m : EventsOf(a)' = EventsOf(a) /\ a \in 1 .. m + 1
  BY <1>0, <1>3 DEF AnswersTo, EventsOf
<1>5. \A a \in 1 .. m : \A i \in 1 .. Len(EventsOf(a)) :
        EventsOf(a)[i] \in Events /\ EventsOf(a)[i].seq <= poller.since
  <2> TAKE a \in 1 .. m
  <2>1. poller.answers[a] \in [since : Nat, events : Seq(Events)]
    BY <1>0, <1>1, ElementOfSeq DEF Answers
  <2>2. EventsOf(a) \in Seq(Events)
    BY <2>1 DEF EventsOf
  <2> QED BY <1>1, <1>4, <2>2, ElementOfSeq DEF GivenIsBehind
<1>6. \A i \in 1 .. Len(events) : \A a \in 1 .. m : \A j \in 1 .. Len(EventsOf(a)) :
        EventsOf(a)[j] # events[i]
  <2> TAKE i \in 1 .. Len(events)
  <2> TAKE a \in 1 .. m
  <2> TAKE j \in 1 .. Len(EventsOf(a))
  <2>1. EventsOf(a)[j].seq <= poller.since /\ poller.since < events[i].seq
        /\ events[i].seq \in Nat
    BY <1>2, <1>5 DEF Events
  <2> QED BY <1>1, <2>1
<1>7. poller.since < cursor
  <2>1. 1 \in 1 .. Len(events)
    BY <1>2, EmptySeq
  <2>2. poller.since < events[1].seq /\ events[1].seq <= cursor /\ events[1].seq \in Nat
    BY <1>2, <2>1 DEF Events
  <2> QED BY <1>1, <2>2
<1>8. GivenIsBehind'
  <2> SUFFICES ASSUME NEW a \in 1 .. m + 1, NEW i \in 1 .. Len(EventsOf(a)')
               PROVE  EventsOf(a)'[i].seq <= cursor
    BY <1>3, <1>4 DEF GivenIsBehind
  <2>1. CASE a = m + 1
    <3>1. EventsOf(a)' = events
      BY <1>4, <2>1
    <3> QED BY <1>2, <3>1
  <2>2. CASE a \in 1 .. m
    <3>1. EventsOf(a)[i].seq <= poller.since /\ EventsOf(a)[i].seq \in Nat
      BY <1>4, <1>5, <2>2 DEF Events
    <3> QED BY <1>1, <1>4, <1>7, <2>2, <3>1
  <2> QED BY <1>1, <2>1, <2>2
<1>9. GivenOnce'
  <2> SUFFICES ASSUME NEW a \in 1 .. m + 1, NEW b \in 1 .. m + 1,
                      NEW i \in 1 .. Len(EventsOf(a)'), NEW j \in 1 .. Len(EventsOf(b)'),
                      EventsOf(a)'[i] = EventsOf(b)'[j]
               PROVE  a = b /\ i = j
    BY <1>4 DEF GivenOnce
  <2>1. CASE a \in 1 .. m /\ b \in 1 .. m
    BY <1>1, <1>4, <2>1 DEF GivenOnce
  <2>2. ASSUME NEW c \in 1 .. m + 1, c = m + 1 PROVE EventsOf(c)' = events
    BY <1>4, <2>2
  <2>3. CASE a = m + 1 /\ b = m + 1
    <3>1. i \in 1 .. Len(events) /\ j \in 1 .. Len(events) /\ events[i] = events[j]
      BY <2>2, <2>3
    <3>2. ~ (i < j) /\ ~ (j < i)
      <4>1. events[i].seq \in Nat
        BY <1>2, <3>1 DEF Events
      <4> QED BY <1>2, <3>1, <4>1
    <3> QED BY <1>2, <2>3, <3>1, <3>2
  <2>4. CASE a = m + 1 /\ b \in 1 .. m
    BY <1>4, <1>6, <2>2, <2>4
  <2>5. CASE a \in 1 .. m /\ b = m + 1
    BY <1>4, <1>6, <2>2, <2>5
  <2> QED BY <2>1, <2>3, <2>4, <2>5
<1>10. \A event : Accounted(event) => Accounted(event)'
  <2> TAKE event
  <2>1. Given(event) => Given(event)'
    BY <1>4 DEF Given
  <2>2. SkippedByCursor(event) => SkippedByCursor(event)'
    <3>1. m + 1 \in 1 .. m + 1
      OBVIOUS
    <3> QED BY <1>3, <1>4, <3>1 DEF SkippedByCursor
  <2>3. CutByLimit(event) => CutByLimit(event)'
    BY <1>3, <1>4 DEF CutByLimit
  <2> QED BY <2>1, <2>2, <2>3 DEF Accounted
<1>11. ASSUME NEW e \in Events, e.seq <= cursor, NEW i \in 1 .. Len(file), file[i] = e
       PROVE  Accounted(e)'
  <2>1. e.seq \in Nat /\ m + 1 \in 1 .. m + 1
    BY DEF Events
  <2>2. CASE e.seq <= poller.since
    BY <1>1, <1>10, <1>11, <2>2 DEF MissesAreKnown
  <2>3. CASE poller.since < e.seq
    <3>1. e \in Beyond(poller.since)
      BY <1>1, <2>1, <2>3 DEF Beyond
    <3>2. CASE \E j \in 1 .. Len(events) : events[j] = e
      BY <1>4, <2>1, <3>2 DEF Accounted, Given
    <3>3. CASE Len(events) = Limit /\ e.seq < events[1].seq
      <4>1. EventsOf(m + 1)' = events /\ poller'.answers[m + 1].since = poller.since
        BY <1>3, <1>4
      <4> QED BY <1>4, <2>1, <2>3, <3>3, <4>1 DEF Accounted, CutByLimit
    <3> QED BY <1>2, <1>11, <3>1, <3>2, <3>3
  <2> QED BY <1>1, <2>1, <2>2, <2>3
<1>12. MissesAreKnown'
  BY <1>1, <1>3, <1>11 DEF MissesAreKnown
<1>13. CursorIsNear'
  BY <1>1, <1>2, <1>3 DEF CursorIsNear
<1> QED BY <1>8, <1>9, <1>12, <1>13

LEMMA PollerTypedStep ==
  ASSUME LogInv, PollerTyped, [Next]_vars
  PROVE  PollerTyped'
<1>1. CASE UNCHANGED poller
  BY <1>1 DEF PollerTyped
<1>2. CASE Poll
  <2> DEFINE all == EventsIn(file)
             some == Since(poller.since, all)
             events == LastOf(some)
  <2>1. all \in Seq(Events)
    BY KeepTyped DEF EventsIn, LogInv, LinesAreTyped
  <2>2. some \in Seq(Events)
    <3> HIDE DEF all
    <3> QED BY <2>1, KeepTyped DEF Since
  <2>3. events \in Seq(Events)
    <3> HIDE DEF some
    <3> QED BY <2>2, LastOfTyped
  <2>4. PICK cursor \in {NextSeq(poller.since, events), LastSeq(poller.since, events)} :
          poller' = [since |-> cursor,
                     answers |-> Append(poller.answers,
                                        [since |-> poller.since, events |-> events])]
    BY <1>2 DEF Poll
  <2>5. events # <<>> /\ poller.since \in Nat /\ poller.answers \in Answers
    BY <1>2 DEF Poll, PollerTyped
  <2> HIDE DEF events
  <2>6. LastSeq(poller.since, events) \in Nat
    BY <2>3, <2>5, LastSeqIs
  <2>7. cursor \in Nat
    BY <2>5, <2>6 DEF NextSeq
  <2>8. Append(poller.answers, [since |-> poller.since, events |-> events]) \in Answers
    BY <2>3, <2>5, AppendProperties DEF Answers
  <2> QED BY <2>4, <2>7, <2>8 DEF PollerTyped
<1>3. Poll \/ UNCHANGED poller
  BY QuietReaders DEF Next, ServerStep, WriteLine, WriteNewline, Settle, SettlePersist,
     SettleStore, Unwind, CancelPersist, Progress, Cancel, Crash, Load, readerVars, vars
<1> QED BY <1>1, <1>2, <1>3

LEMMA PollStep ==
  ASSUME LogInv, PollerTyped, PollInv, [Next]_vars
  PROVE  PollInv'
<1> SUFFICES ASSUME canceller' = 0
             PROVE  GivenIsBehind' /\ GivenOnce' /\ MissesAreKnown' /\ CursorIsNear'
  BY DEF PollInv
<1>1. canceller \in Nat
  BY DEF LogInv
<1>2. canceller = 0
  <2>1. CASE ServerStep \/ Progress \/ Cancel \/ Crash \/ Load
    BY <1>1, <2>1 DEF ServerStep, WriteLine, WriteNewline, Settle, SettlePersist, SettleStore,
       Unwind, CancelPersist, Progress, Cancel, Crash, Load
  <2>2. CASE FollowStep \/ Poll \/ UNCHANGED vars
    BY <2>2, QuietReaders DEF Poll, serverVars, vars
  <2> QED BY <2>1, <2>2 DEF Next
<1>3. GivenIsBehind /\ GivenOnce /\ MissesAreKnown /\ CursorIsNear
  BY <1>2 DEF PollInv
<1>4. ASSUME UNCHANGED <<file, poller>>
      PROVE  GivenIsBehind' /\ GivenOnce' /\ MissesAreKnown' /\ CursorIsNear'
  <2>1. GivenIsBehind' /\ CursorIsNear'
    BY <1>3, <1>4 DEF GivenIsBehind, CursorIsNear, AnswersTo, EventsOf
  <2>2. GivenOnce'
    BY <1>3, <1>4 DEF GivenOnce, AnswersTo, EventsOf
  <2>3. \A event : Accounted(event) => Accounted(event)'
    BY <1>4 DEF Accounted, Given, SkippedByCursor, CutByLimit, AnswersTo, EventsOf
  <2>4. MissesAreKnown'
    BY <1>3, <1>4, <2>3 DEF MissesAreKnown
  <2> QED BY <2>1, <2>2, <2>4
<1>5. ASSUME NEW w \in Writers, WriteLine(w) \/ WriteNewline(w)
      PROVE  GivenIsBehind' /\ GivenOnce' /\ MissesAreKnown' /\ CursorIsNear'
  <2>1. UNCHANGED poller
    BY <1>5 DEF WriteLine, WriteNewline, readerVars
  <2>2. GivenIsBehind' /\ GivenOnce'
    BY <1>3, <2>1 DEF GivenIsBehind, GivenOnce, AnswersTo, EventsOf
  <2> QED BY <1>2, <1>5, <2>2, LinePoll
<1>6. CASE Poll
  BY <1>2, <1>6, PollKnown
<1>7. CASE ~ Poll /\ ~ \E w \in Writers : WriteLine(w) \/ WriteNewline(w)
  BY <1>4, <1>7, QuietReaders DEF Next, ServerStep, Settle, SettlePersist, SettleStore, Unwind,
     CancelPersist, Progress, Cancel, Crash, Load, readerVars, serverVars, vars
<1> QED BY <1>5, <1>6, <1>7

(***************************************************************************)
(* A polling host is given no event twice, and misses one its cursor is    *)
(* past only if it went on from a next_seq, which leaves out the event     *)
(* that got this seq, or if a full answer left out the oldest: whatever    *)
(* the task reports, whenever the host polls or the server dies, with each *)
(* cursor it may go on from and each limit, as long as nobody cancels the  *)
(* run.                                                                    *)
(***************************************************************************)
THEOREM PollerMissesKnown == Spec => []PollerMissesAreKnown
<1>1. LogInv /\ PollInv => PollerMissesAreKnown
  <2> SUFFICES ASSUME LogInv, PollInv, canceller = 0 PROVE PollerMissesAreKnown
    BY DEF PollerMissesAreKnown
  <2>1. GivenOnce /\ MissesAreKnown /\ file \in Seq(Lines)
    BY DEF PollInv, LogInv, LinesAreTyped
  <2>2. ASSUME NEW i \in 1 .. Len(file), IsEvent(file, i), file[i].seq <= poller.since
        PROVE  Accounted(file[i])
    <3>1. file[i] \in Events
      BY <2>1, <2>2, ElementOfSeq, LineIsEvent DEF IsEvent
    <3> QED BY <2>1, <2>2, <3>1 DEF MissesAreKnown
  <2> QED BY <2>1, <2>2 DEF GivenOnce, Accounted, PollerMissesAreKnown
<1>2. LogInv /\ PollerTyped /\ PollInv /\ [Next]_vars => PollInv' /\ PollerTyped'
  BY PollStep, PollerTypedStep
<1>3. Spec => [](LogInv /\ PollerTyped /\ PollInv)
  BY <1>2, InitLog, LogStep, InitPoll, PTL DEF Spec
<1> QED BY <1>1, <1>3, PTL

(***************************************************************************)
(* The types of the variables.                                             *)
(***************************************************************************)
THEOREM TypesHold == Spec => []TypeOK
<1>1. LogInv /\ StatusInv /\ PrintInv /\ PollerTyped => TypeOK
  BY DEF LogInv, LinesAreTyped, StatusInv, PrintInv, FollowerTyped, Followers, PollerTyped, Answers,
     TypeOK
<1>2. Spec => [](LogInv /\ StatusInv /\ PrintInv /\ PollerTyped)
  BY InitLog, LogStep, InitStatus, StatusStep, InitPrint, PrintStep, InitPoll, PollerTypedStep,
     PTL DEF Spec
<1> QED BY <1>1, <1>2, PTL
================================================================================
