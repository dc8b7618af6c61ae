------------------------- MODULE ChatSummary_proofs -------------------------
(* Theorems about ChatSummary: for any number of messages, failures and    *)
(* overlapping summaries, and any limits of a context and of a batch.      *)
EXTENDS ChatSummary, FiniteSetTheorems, SequenceTheorems, TLAPS

(***************************************************************************)
(* Ascending(S) enumerates a finite set of numbers: it holds the members   *)
(* of S, each once, the lesser before the greater.                         *)
(***************************************************************************)
Increasing(s) == \A i, j \in 1..Len(s) : i < j => s[i] < s[j]

LEMMA Ranked ==
    ASSUME NEW S \in SUBSET Nat, IsFiniteSet(S), NEW m \in S
    PROVE  /\ Rank(S, m) \in 1..Cardinality(S)
           /\ \A n \in S : n < m => Rank(S, n) < Rank(S, m)
<1> DEFINE upto(k) == {n \in S : n <= k}
<1>1. \A k : /\ IsFiniteSet(upto(k)) /\ Cardinality(upto(k)) \in Nat
             /\ Cardinality(upto(k)) <= Cardinality(S)
  <2> TAKE k
  <2>1. upto(k) \in SUBSET S
    OBVIOUS
  <2> QED BY <2>1, FS_Subset, FS_CardinalityType
<1>2. upto(m) # {}
  <2>1. m \in upto(m)
    OBVIOUS
  <2> QED BY <2>1
<1>3. Cardinality(upto(m)) # 0
  <2> DEFINE U == upto(m)
  <2>1. IsFiniteSet(U) /\ U # {}
    BY <1>1, <1>2
  <2> HIDE DEF U
  <2>2. Cardinality(U) # 0
    BY <2>1, FS_EmptySet
  <2> QED BY <2>2 DEF U
<1>4. Cardinality(S) \in Nat
  BY FS_CardinalityType
<1>5. ASSUME NEW n \in S, n < m PROVE Cardinality(upto(n)) < Cardinality(upto(m))
  <2>1. upto(n) \in SUBSET upto(m)
    <3>1. \A k \in S : k \in Nat
      OBVIOUS
    <3>2. \A k \in S : k <= n => k <= m
      BY <1>5, <3>1
    <3> QED BY <3>2
  <2>2. m \in upto(m) /\ m \notin upto(n)
    BY <1>5
  <2>3. upto(m) # upto(n)
    BY <2>2
  <2>4. /\ Cardinality(upto(n)) <= Cardinality(upto(m))
        /\ Cardinality(upto(n)) # Cardinality(upto(m))
    BY <1>1, <2>1, <2>3, FS_Subset
  <2> QED BY <1>1, <2>4
<1> QED BY <1>1, <1>3, <1>4, <1>5 DEF Rank

LEMMA AscendingEnumerates ==
    ASSUME NEW S \in SUBSET Nat, IsFiniteSet(S)
    PROVE  /\ Ascending(S) \in Seq(S) /\ Len(Ascending(S)) = Cardinality(S)
           /\ Increasing(Ascending(S))
           /\ \A m \in S : \E i \in 1..Len(Ascending(S)) : Ascending(S)[i] = m
<1> DEFINE n == Cardinality(S)
           rank == [m \in S |-> Rank(S, m)]
<1>1. n \in Nat /\ IsFiniteSet(1..n) /\ Cardinality(1..n) = n
  <2>1. n \in Nat
    BY FS_CardinalityType
  <2> QED BY <2>1, FS_Interval
<1>2. rank \in [S -> 1..n]
  BY Ranked
<1>3. \A a, b \in S : rank[a] = rank[b] => a = b
  <2> SUFFICES ASSUME NEW a \in S, NEW b \in S, rank[a] = rank[b] PROVE a = b
    OBVIOUS
  <2>1. a \in Nat /\ b \in Nat
    OBVIOUS
  <2>2. rank[a] \in Nat /\ rank[b] \in Nat
    BY <1>2
  <2>3. (a < b => rank[a] < rank[b]) /\ (b < a => rank[b] < rank[a])
    BY Ranked
  <2> QED BY <2>1, <2>2, <2>3
<1>4. rank \in Injection(S, 1..n)
  BY <1>2, <1>3 DEF Injection, IsInjective
<1>5. rank \in Surjection(S, 1..n)
  BY <1>1, <1>4, FS_Injection
<1>6. ASSUME NEW i \in 1..n PROVE \E m \in S : Rank(S, m) = i
  BY <1>5 DEF Surjection
<1>7. \A i \in 1..n : Ascending(S)[i] \in S /\ Rank(S, Ascending(S)[i]) = i
  BY <1>6 DEF Ascending
<1>8. Ascending(S) \in Seq(S) /\ Len(Ascending(S)) = n
  <2>1. Ascending(S) \in [1..n -> S]
    BY <1>7 DEF Ascending
  <2> QED BY <1>1, <2>1
<1>9. Increasing(Ascending(S))
  <2> SUFFICES ASSUME NEW i \in 1..n, NEW j \in 1..n, i < j
               PROVE  Ascending(S)[i] < Ascending(S)[j]
    BY <1>8 DEF Increasing
  <2> DEFINE a == Ascending(S)[i]
             b == Ascending(S)[j]
  <2>1. a \in S /\ b \in S /\ Rank(S, a) = i /\ Rank(S, b) = j
    BY <1>7
  <2>2. b < a => Rank(S, b) < Rank(S, a)
    BY <2>1, Ranked
  <2>3. a \in Nat /\ b \in Nat /\ i \in Nat /\ j \in Nat
    <3>1. a \in Nat /\ b \in Nat
      BY <2>1
    <3>2. i \in Nat /\ j \in Nat
      BY <1>1
    <3> QED BY <3>1, <3>2
  <2> HIDE DEF a, b
  <2>4. a # b
    BY <2>1, <2>3
  <2>5. a < b
    BY <2>1, <2>2, <2>3, <2>4
  <2> QED BY <2>5 DEF a, b
<1>10. ASSUME NEW m \in S PROVE \E i \in 1..n : Ascending(S)[i] = m
  <2>1. rank[m] \in 1..n
    BY <1>2
  <2>2. Ascending(S)[rank[m]] \in S /\ rank[Ascending(S)[rank[m]]] = rank[m]
    BY <1>7, <2>1
  <2>3. Ascending(S)[rank[m]] = m
    BY <1>3, <2>2
  <2> QED BY <2>1, <2>3
<1> QED BY <1>8, <1>9, <1>10

(***************************************************************************)
(* The batch a summary finds is the beginning of the messages it asked     *)
(* for, without a question at its end.                                     *)
(***************************************************************************)
Status == {"COMPLETED", "FAILED", "CANCELLED"}
Rows   == [role : {"USER", "ASSISTANT"}, status : Status]

LEMMA AfterEnumerates ==
    ASSUME TypeOK, NEW id \in Nat
    PROVE  /\ Later(id) \in SUBSET Ids
           /\ After(id) \in Seq(Later(id)) /\ After(id) \in Seq(Ids)
           /\ Len(After(id)) \in Nat
           /\ Increasing(After(id))
           /\ \A m \in Later(id) : \E i \in 1..Len(After(id)) : After(id)[i] = m
<1>1. Len(messages) \in Nat /\ Len(messages) <= MaxMessages
  BY DEF TypeOK
<1>2. Later(id) \in SUBSET Ids /\ Later(id) \in SUBSET (1..Len(messages))
  BY <1>1, SummaryAssumption DEF Later, Ids
<1>3. IsFiniteSet(Later(id))
  <2>1. 1 \in Int /\ Len(messages) \in Int
    BY <1>1
  <2>2. IsFiniteSet(1..Len(messages))
    BY <2>1, FS_Interval
  <2> QED BY <1>2, <2>2, FS_Subset
<1>4. Later(id) \in SUBSET Nat
  BY <1>2 DEF Ids
<1>5. /\ After(id) \in Seq(Later(id)) /\ Increasing(After(id))
      /\ \A m \in Later(id) : \E i \in 1..Len(After(id)) : After(id)[i] = m
  BY <1>3, <1>4, AscendingEnumerates DEF After
<1>6. After(id) \in Seq(Ids) /\ Len(After(id)) \in Nat
  BY <1>2, <1>5, SeqMonotonic
<1> QED BY <1>2, <1>5, <1>6

LEMMA BatchIsPrefix ==
    ASSUME NEW ids \in Seq(Ids), NEW n \in Nat, n <= Len(ids)
    PROVE  \E k \in 0..n : WithoutQuestion(SubSeq(ids, 1, n)) = SubSeq(ids, 1, k)
<1> DEFINE s == SubSeq(ids, 1, n)
<1>1. s \in Seq(Ids) /\ Len(s) = n /\ \A i \in 1..n : s[i] = ids[i]
  OBVIOUS
<1> HIDE DEF s
<1>2. CASE WithoutQuestion(s) = s
  BY <1>2 DEF s
<1>3. CASE WithoutQuestion(s) # s
  <2>1. s # <<>> /\ WithoutQuestion(s) = SubSeq(s, 1, n - 1)
    BY <1>1, <1>3 DEF WithoutQuestion, Front
  <2>2. n - 1 \in Nat /\ n - 1 \in 0..n
    BY <1>1, <2>1
  <2>3. /\ SubSeq(s, 1, n - 1) \in Seq(Ids) /\ Len(SubSeq(s, 1, n - 1)) = n - 1
        /\ \A i \in 1..(n - 1) : SubSeq(s, 1, n - 1)[i] = s[i]
    BY <1>1, <2>2
  <2>4. /\ SubSeq(ids, 1, n - 1) \in Seq(Ids) /\ Len(SubSeq(ids, 1, n - 1)) = n - 1
        /\ \A i \in 1..(n - 1) : SubSeq(ids, 1, n - 1)[i] = ids[i]
    BY <2>2
  <2>5. \A i \in 1..(n - 1) : SubSeq(s, 1, n - 1)[i] = SubSeq(ids, 1, n - 1)[i]
    BY <1>1, <2>3, <2>4
  <2>6. SubSeq(s, 1, n - 1) = SubSeq(ids, 1, n - 1)
    BY <2>3, <2>4, <2>5, SeqEqual
  <2> QED BY <2>1, <2>2, <2>6 DEF s
<1> QED BY <1>2, <1>3 DEF s

(* What a step of a summary puts for its run.                              *)
LEMMA Found ==
    ASSUME TypeOK, NEW r \in Ids, Find(r)
    PROVE  \/ run' = [run EXCEPT ![r] = Idle]
           \/ \E k \in 1..Len(After(run[r].through)) :
                 run' = [run EXCEPT ![r].at = "generate",
                                    ![r].batch = SubSeq(After(run[r].through), 1, k)]
<1> DEFINE ids == After(run[r].through)
           n   == Least(run[r].take, Len(ids))
<1>1. run[r].through \in Nat /\ run[r].take \in Nat
  BY SummaryAssumption DEF TypeOK
<1>2. ids \in Seq(Ids) /\ Len(ids) \in Nat
  BY <1>1, AfterEnumerates
<1>3. n \in Nat /\ n <= Len(ids)
  BY <1>1, <1>2 DEF Least
<1>4. PICK k \in 0..n : WithoutQuestion(SubSeq(ids, 1, n)) = SubSeq(ids, 1, k)
  BY <1>2, <1>3, BatchIsPrefix
<1>5. TakeBatch(r, SubSeq(ids, 1, k))
  BY <1>4 DEF Find
<1> HIDE DEF ids, n
<1>6. CASE k = 0
  <2>1. SubSeq(ids, 1, k) = <<>>
    BY <1>2, <1>6
  <2> QED BY <1>5, <2>1 DEF TakeBatch
<1>7. CASE k # 0
  <2>1. k \in 1..Len(ids)
    BY <1>2, <1>3, <1>7
  <2>2. SubSeq(ids, 1, k) # <<>>
    BY <1>2, <2>1
  <2>3. run' = [run EXCEPT ![r].at = "generate", ![r].batch = SubSeq(ids, 1, k)]
    BY <1>5, <2>2 DEF TakeBatch
  <2> QED BY <2>1, <2>3 DEF ids
<1> QED BY <1>6, <1>7

(***************************************************************************)
(* The conversation.  It appends rows, and while no generation has failed  *)
(* it completes none that was there.                                       *)
(***************************************************************************)
StatusInv == failures = 0 => \A m \in 1..Len(messages) : messages[m].status # "FAILED"

(* What the steps do to the rows: from msgs, which differs from messages   *)
(* in the status of m at most, to new.                                     *)
Changed(m, status) == [messages EXCEPT ![m].status = status]

LEMMA RowTypes ==
    \A role \in {"USER", "ASSISTANT"}, status \in Status :
        Row(role, status) \in Rows /\ Row(role, status).status = status
BY DEF Row, Rows

LEMMA ChangedRows ==
    ASSUME TypeOK, NEW m \in 1..Len(messages), NEW status \in Status
    PROVE  /\ Changed(m, status) \in Seq(Rows)
           /\ Len(Changed(m, status)) = Len(messages)
           /\ \A i \in 1..Len(messages) :
                 Changed(m, status)[i].status = IF i = m THEN status ELSE messages[i].status
<1>1. messages \in Seq(Rows) /\ Len(messages) \in Nat
  BY DEF TypeOK, Rows, Status
<1> DEFINE row == [messages[m] EXCEPT !.status = status]
<1>2. row \in Rows /\ row.status = status
  <2>1. messages[m] \in Rows
    BY <1>1
  <2> QED BY <2>1 DEF Rows
<1> HIDE DEF row
<1>3. Changed(m, status) = [messages EXCEPT ![m] = row]
  BY <1>1 DEF Changed, row
<1>4. /\ [messages EXCEPT ![m] = row] \in Seq(Rows)
      /\ Len([messages EXCEPT ![m] = row]) = Len(messages)
      /\ \A i \in 1..Len(messages) :
            [messages EXCEPT ![m] = row][i] = IF i = m THEN row ELSE messages[i]
  BY <1>1, <1>2, ExceptSeq
<1> QED BY <1>2, <1>3, <1>4

LEMMA AppendedRows ==
    ASSUME TypeOK, Room(1), NEW msgs \in Seq(Rows), Len(msgs) = Len(messages),
           NEW row \in Rows, messages' = Append(msgs, row)
    PROVE  /\ messages' \in Seq(Rows) /\ Len(messages') = Len(messages) + 1
           /\ Len(messages') <= MaxMessages
           /\ \A i \in 1..Len(messages) : messages'[i] = msgs[i]
           /\ messages'[Len(messages) + 1] = row
           /\ NextId \in Ids /\ NextId = Len(messages')
<1>1. Len(messages) \in Nat /\ MaxMessages \in Nat /\ Len(messages) + 1 <= MaxMessages
  BY SummaryAssumption DEF TypeOK, Room
<1>2. messages' \in Seq(Rows) /\ Len(messages') = Len(messages) + 1
  OBVIOUS
<1>3. \A i \in 1..Len(messages) : messages'[i] = msgs[i]
  BY <1>1
<1>4. messages'[Len(messages) + 1] = row
  BY <1>1
<1> QED BY <1>1, <1>2, <1>3, <1>4 DEF NextId, Ids

LEMMA WiderInterval ==
    ASSUME NEW n \in Nat, NEW S \in SUBSET (1..n) PROVE S \cup {n + 1} \subseteq 1..(n + 1)
<1>1. \A x \in 1..n : x \in 1..(n + 1)
  OBVIOUS
<1>2. n + 1 \in 1..(n + 1)
  OBVIOUS
<1> QED BY <1>1, <1>2

RowsMove ==
    /\ messages' \in Seq(Rows)
    /\ Len(messages') \in Nat /\ Len(messages) <= Len(messages') /\ Len(messages') <= MaxMessages
    /\ failures' \in 0..MaxFailures /\ (failures' = 0 => failures = 0)
    /\ StatusInv'
    /\ failures' = 0 => \A i \in 1..Len(messages) :
                           messages'[i].status = "COMPLETED" => messages[i].status = "COMPLETED"
    /\ open' \subseteq 1..Len(messages')

LEMMA ConversationMoves ==
    ASSUME TypeOK, StatusInv, [Next]_vars PROVE RowsMove
<1>1. /\ messages \in Seq(Rows) /\ Len(messages) \in Nat /\ Len(messages) <= MaxMessages
      /\ open \subseteq 1..Len(messages)
      /\ failures \in Nat /\ failures \in 0..MaxFailures /\ MaxFailures \in Nat
  BY SummaryAssumption DEF TypeOK, Rows, Status
<1>2. CASE Send
  <2>1. Row("USER", "COMPLETED") \in Rows /\ Row("USER", "COMPLETED").status = "COMPLETED"
    BY RowTypes DEF Status
  <2>2. /\ messages' \in Seq(Rows) /\ Len(messages') = Len(messages) + 1
        /\ Len(messages') <= MaxMessages
        /\ \A i \in 1..Len(messages) : messages'[i] = messages[i]
        /\ messages'[Len(messages) + 1].status = "COMPLETED" /\ NextId = Len(messages')
    BY <1>1, <1>2, <2>1, AppendedRows DEF Send
  <2>3. failures' = failures /\ open' = open \cup {NextId}
    BY <1>2 DEF Send
  <2>4. StatusInv'
    BY <1>1, <2>2, <2>3 DEF StatusInv
  <2>5. open' \subseteq 1..Len(messages')
    <3>1. open \cup {Len(messages) + 1} \subseteq 1..(Len(messages) + 1)
      BY <1>1, WiderInterval
    <3> QED BY <2>2, <2>3, <3>1
  <2> QED BY <1>1, <2>2, <2>3, <2>4, <2>5 DEF RowsMove
<1>3. ASSUME NEW m \in Ids, Answer(m) PROVE RowsMove
  <2>1. Row("ASSISTANT", "COMPLETED") \in Rows
        /\ Row("ASSISTANT", "COMPLETED").status = "COMPLETED"
    BY RowTypes DEF Status
  <2>2. /\ messages' \in Seq(Rows) /\ Len(messages') = Len(messages) + 1
        /\ Len(messages') <= MaxMessages
        /\ \A i \in 1..Len(messages) : messages'[i] = messages[i]
        /\ messages'[Len(messages) + 1].status = "COMPLETED"
    BY <1>1, <1>3, <2>1, AppendedRows DEF Answer
  <2>3. failures' = failures /\ open' = open \ {m}
    BY <1>3 DEF Answer
  <2>4. StatusInv'
    BY <1>1, <2>2, <2>3 DEF StatusInv
  <2>5. open' \subseteq 1..Len(messages')
    <3>1. open \cup {Len(messages) + 1} \subseteq 1..(Len(messages) + 1)
      BY <1>1, WiderInterval
    <3> QED BY <2>2, <2>3, <3>1
  <2> QED BY <1>1, <2>2, <2>3, <2>4, <2>5 DEF RowsMove
<1>4. ASSUME NEW m \in Ids, NEW status \in {"FAILED", "CANCELLED"}, End(m, status),
             failures' = IF status = "FAILED" THEN failures + 1 ELSE failures,
             failures' \in 0..MaxFailures
      PROVE  RowsMove
  <2>1. m \in 1..Len(messages) /\ status \in Status
    BY <1>1, <1>4 DEF End, Status
  <2>2. Row("ASSISTANT", status) \in Rows /\ Row("ASSISTANT", status).status = status
    BY <2>1, RowTypes
  <2> DEFINE msgs == Changed(m, status)
  <2>3. /\ msgs \in Seq(Rows) /\ Len(msgs) = Len(messages)
        /\ \A i \in 1..Len(messages) :
              msgs[i].status = IF i = m THEN status ELSE messages[i].status
    BY <2>1, ChangedRows
  <2>4. messages' = Append(msgs, Row("ASSISTANT", status)) /\ Room(1) /\ open' = open \ {m}
    BY <1>4 DEF End, Changed
  <2> HIDE DEF msgs
  <2>5. /\ messages' \in Seq(Rows) /\ Len(messages') = Len(messages) + 1
        /\ Len(messages') <= MaxMessages
        /\ \A i \in 1..Len(messages) : messages'[i] = msgs[i]
        /\ messages'[Len(messages) + 1].status = status
    BY <2>2, <2>3, <2>4, AppendedRows
  <2>6. failures' = 0 => failures = 0 /\ status = "CANCELLED"
    BY <1>1, <1>4
  <2>7. StatusInv'
    BY <1>1, <2>3, <2>5, <2>6 DEF StatusInv
  <2>8. open' \subseteq 1..Len(messages')
    <3>1. open \cup {Len(messages) + 1} \subseteq 1..(Len(messages) + 1)
      BY <1>1, WiderInterval
    <3> QED BY <2>4, <2>5, <3>1
  <2>9. failures' = 0 => \A i \in 1..Len(messages) :
           messages'[i].status = "COMPLETED" => messages[i].status = "COMPLETED"
    BY <2>3, <2>5, <2>6
  <2>10. Len(messages') \in Nat /\ Len(messages) <= Len(messages')
    BY <1>1, <2>5
  <2> QED BY <1>4, <2>5, <2>6, <2>7, <2>8, <2>9, <2>10 DEF RowsMove
<1>5. ASSUME NEW m \in Ids, Fail(m) PROVE RowsMove
  <2>1. failures' = failures + 1 /\ failures' \in 0..MaxFailures
    BY <1>1, <1>5 DEF Fail
  <2> QED BY <1>4, <1>5, <2>1 DEF Fail
<1>6. ASSUME NEW m \in Ids, Stop(m) PROVE RowsMove
  BY <1>1, <1>4, <1>6 DEF Stop
<1>7. ASSUME NEW m \in Ids, Retry(m) PROVE RowsMove
  <2>1. m \in 1..Len(messages) /\ messages[m].status = "FAILED" /\ failures' = failures
    BY <1>7, RowTypes DEF Retry, Status
  <2>2. failures # 0
    BY <2>1 DEF StatusInv
  <2> DEFINE msgs == Changed(m, "COMPLETED")
  <2>3. msgs \in Seq(Rows) /\ Len(msgs) = Len(messages)
    BY <2>1, ChangedRows DEF Status
  <2>4. \/ /\ Room(1) /\ open' = open
           /\ messages' = Append(msgs, Row("ASSISTANT", "COMPLETED"))
        \/ messages' = msgs /\ open' = open \cup {m}
    BY <1>7 DEF Retry, Changed
  <2> HIDE DEF msgs
  <2>5. CASE messages' = msgs /\ open' = open \cup {m}
    BY <1>1, <2>1, <2>2, <2>3, <2>5 DEF RowsMove, StatusInv
  <2>6. CASE /\ Room(1) /\ open' = open
             /\ messages' = Append(msgs, Row("ASSISTANT", "COMPLETED"))
    <3>1. Row("ASSISTANT", "COMPLETED") \in Rows
      BY RowTypes DEF Status
    <3>2. /\ messages' \in Seq(Rows) /\ Len(messages') = Len(messages) + 1
          /\ Len(messages') <= MaxMessages
      BY <2>3, <2>6, <3>1, AppendedRows
    <3> QED BY <1>1, <2>1, <2>2, <2>6, <3>2 DEF RowsMove, StatusInv
  <2> QED BY <2>4, <2>5, <2>6
<1>8. CASE UNCHANGED <<messages, open, failures>>
  BY <1>1, <1>8 DEF RowsMove, StatusInv
<1>9. ASSUME NEW r \in Ids, ReadRoom(r) \/ Count(r) \/ Find(r) \/ Save(r) \/ GiveUp(r)
      PROVE  UNCHANGED <<messages, open, failures>>
  BY <1>9 DEF ReadRoom, Count, Find, TakeBatch, Save, GiveUp
<1> QED BY <1>2, <1>3, <1>5, <1>6, <1>7, <1>8, <1>9 DEF Next, vars

(***************************************************************************)
(* What a step does to the summary and to the runs: at most one run moves, *)
(* to a local state that is named here.                                    *)
(***************************************************************************)
RunState == [at : {"none", "room", "count", "find", "generate"}, summary : Seq(Ids),
             through : 0..MaxMessages, take : 0..Batch, batch : Seq(Ids)]

Local(at, s, t, take, batch) ==
    [at |-> at, summary |-> s, through |-> t, take |-> take, batch |-> batch]
Moves(r, e) == run' = [run EXCEPT ![r] = e]

LEMMA LocalType ==
    ASSUME NEW at \in {"none", "room", "count", "find", "generate"}, NEW s \in Seq(Ids),
           NEW t \in 0..MaxMessages, NEW take \in 0..Batch, NEW batch \in Seq(Ids)
    PROVE  Local(at, s, t, take, batch) \in RunState
BY DEF Local, RunState

LEMMA LocalFields ==
    \A a, s, t, k, b, x :
        /\ [Local(a, s, t, k, b) EXCEPT !.at = x] = Local(x, s, t, k, b)
        /\ [Local(a, s, t, k, b) EXCEPT !.summary = x] = Local(a, x, t, k, b)
        /\ [Local(a, s, t, k, b) EXCEPT !.through = x] = Local(a, s, x, k, b)
        /\ [Local(a, s, t, k, b) EXCEPT !.take = x] = Local(a, s, t, x, b)
        /\ [Local(a, s, t, k, b) EXCEPT !.batch = x] = Local(a, s, t, k, x)
BY DEF Local

LEMMA IdleType == Idle \in RunState /\ Idle.at = "none"
<1>1. <<>> \in Seq(Ids) /\ 0 \in 0..MaxMessages /\ 0 \in 0..Batch
  BY SummaryAssumption
<1> QED BY <1>1 DEF Idle, RunState

LEMMA RunFields ==
    ASSUME TypeOK, NEW r \in Ids
    PROVE  /\ run[r] \in RunState
           /\ run[r] = Local(run[r].at, run[r].summary, run[r].through, run[r].take, run[r].batch)
           /\ run[r].summary \in Seq(Ids) /\ run[r].batch \in Seq(Ids)
           /\ run[r].through \in 0..MaxMessages /\ run[r].through \in Nat
           /\ run[r].take \in 0..Batch
<1>1. run[r] \in RunState
  BY DEF TypeOK, RunState
<1> QED BY <1>1, SummaryAssumption DEF RunState, Local

(* The batch a run asks the model for.                                     *)
Asked(r, k) == SubSeq(After(run[r].through), 1, k)

RunsMove ==
    \/ UNCHANGED <<summary, through, run>>
    \/ \E q \in Ids, at \in {"none", "room"} :
          /\ UNCHANGED <<summary, through>>
          /\ Moves(q, Local(at, run[q].summary, run[q].through, run[q].take, run[q].batch))
    \/ \E r \in Ids : UNCHANGED <<messages, failures>> /\
          \/ UNCHANGED <<summary, through>> /\ Moves(r, Idle)
          \/ UNCHANGED <<summary, through>>
             /\ Moves(r, Local("count", summary, through, run[r].take, run[r].batch))
          \/ /\ UNCHANGED <<summary, through>> /\ run[r].at = "count"
             /\ \E take \in 0..Batch : Moves(r, Local("find", run[r].summary, run[r].through,
                                                      take, run[r].batch))
          \/ /\ UNCHANGED <<summary, through>> /\ run[r].at = "find"
             /\ \E k \in 1..Len(After(run[r].through)) :
                   Moves(r, Local("generate", run[r].summary, run[r].through, run[r].take,
                                  Asked(r, k)))
          \/ /\ run[r].at = "generate" /\ run[r].through = through
             /\ summary' = Generated(r) /\ through' = Last(run[r].batch) /\ Moves(r, Idle)

LEMMA SummariesMove ==
    ASSUME TypeOK, [Next]_vars PROVE RunsMove
<1>1. run \in [Ids -> RunState]
  BY DEF TypeOK, RunState
<1>2. ASSUME NEW r \in Ids, NEW at,
             run' = [run EXCEPT ![r].at = at]
      PROVE  Moves(r, Local(at, run[r].summary, run[r].through, run[r].take, run[r].batch))
  <2>1. [run[r] EXCEPT !.at = at] =
           Local(at, run[r].summary, run[r].through, run[r].take, run[r].batch)
    BY RunFields, LocalFields
  <2> QED BY <1>1, <1>2, <2>1 DEF Moves
<1>3. CASE Send
  BY <1>3 DEF Send, RunsMove
<1>4. ASSUME NEW m \in Ids, Answer(m) PROVE RunsMove
  <2>1. NextId \in Ids
    BY <1>4, SummaryAssumption DEF Answer, Room, NextId, Ids, TypeOK
  <2>2. PICK at \in {"none", "room"} : run' = [run EXCEPT ![NextId].at = at]
    BY <1>4 DEF Answer
  <2>3. UNCHANGED <<summary, through>>
    BY <1>4 DEF Answer
  <2> QED BY <1>2, <2>1, <2>2, <2>3 DEF RunsMove
<1>5. ASSUME NEW m \in Ids, Fail(m) \/ Stop(m) PROVE RunsMove
  BY <1>5 DEF Fail, Stop, End, RunsMove
<1>6. ASSUME NEW m \in Ids, Retry(m) PROVE RunsMove
  <2>1. UNCHANGED <<summary, through>>
    BY <1>6 DEF Retry
  <2>2. CASE Room(1) /\ run' = [run EXCEPT ![NextId].at = "room"]
    <3>1. NextId \in Ids
      BY <2>2, SummaryAssumption DEF Room, NextId, Ids, TypeOK
    <3> QED BY <1>2, <2>1, <2>2, <3>1 DEF RunsMove
  <2>3. CASE UNCHANGED run
    BY <2>1, <2>3 DEF RunsMove
  <2> QED BY <1>6, <2>2, <2>3 DEF Retry
<1>7. ASSUME NEW r \in Ids, ReadRoom(r) PROVE RunsMove
  <2>1. run' = [run EXCEPT ![r].at = "count", ![r].summary = summary, ![r].through = through]
        /\ UNCHANGED <<messages, failures, summary, through>>
    BY <1>7 DEF ReadRoom
  <2>2. Moves(r, Local("count", summary, through, run[r].take, run[r].batch))
    <3>1. [[[run[r] EXCEPT !.at = "count"] EXCEPT !.summary = summary] EXCEPT !.through = through]
             = Local("count", summary, through, run[r].take, run[r].batch)
      <4>1. [run[r] EXCEPT !.at = "count"]
               = Local("count", run[r].summary, run[r].through, run[r].take, run[r].batch)
        BY RunFields, LocalFields
      <4>2. [Local("count", run[r].summary, run[r].through, run[r].take, run[r].batch)
                EXCEPT !.summary = summary]
               = Local("count", summary, run[r].through, run[r].take, run[r].batch)
        BY LocalFields
      <4>3. [Local("count", summary, run[r].through, run[r].take, run[r].batch)
                EXCEPT !.through = through]
               = Local("count", summary, through, run[r].take, run[r].batch)
        BY LocalFields
      <4> QED BY <4>1, <4>2, <4>3, Zenon
    <3>2. run' = [run EXCEPT ![r] =
             [[[run[r] EXCEPT !.at = "count"] EXCEPT !.summary = summary] EXCEPT !.through = through]]
      BY <1>1, <2>1
    <3> QED BY <3>1, <3>2 DEF Moves
  <2> QED BY <2>1, <2>2 DEF RunsMove
<1>8. ASSUME NEW r \in Ids, Count(r) PROVE RunsMove
  <2> DEFINE n == Len(After(run[r].through))
  <2>1. run[r].at = "count" /\ UNCHANGED <<messages, failures, summary, through>>
    BY <1>8 DEF Count
  <2>2. CASE n <= Recent
    BY <1>8, <2>1, <2>2 DEF Count, RunsMove, Moves
  <2>3. CASE ~(n <= Recent)
    <3> DEFINE take == Least(n - Recent, Batch)
    <3>1. n \in Nat
      BY RunFields, AfterEnumerates
    <3>2. take \in 0..Batch
      BY <2>3, <3>1, SummaryAssumption DEF Least
    <3>3. run' = [run EXCEPT ![r] = [@ EXCEPT !.at = "find", !.take = take]]
      BY <1>8, <2>3 DEF Count
    <3> HIDE DEF n, take
    <3>4. [[run[r] EXCEPT !.at = "find"] EXCEPT !.take = take]
             = Local("find", run[r].summary, run[r].through, take, run[r].batch)
      <4>1. [run[r] EXCEPT !.at = "find"]
               = Local("find", run[r].summary, run[r].through, run[r].take, run[r].batch)
        BY RunFields, LocalFields
      <4>2. [Local("find", run[r].summary, run[r].through, run[r].take, run[r].batch)
                EXCEPT !.take = take]
               = Local("find", run[r].summary, run[r].through, take, run[r].batch)
        BY LocalFields
      <4> QED BY <4>1, <4>2, Zenon
    <3>5. Moves(r, Local("find", run[r].summary, run[r].through, take, run[r].batch))
      BY <1>1, <3>3, <3>4 DEF Moves
    <3> QED BY <2>1, <3>2, <3>5 DEF RunsMove
  <2> QED BY <2>2, <2>3
<1>9. ASSUME NEW r \in Ids, Find(r) PROVE RunsMove
  <2>1. run[r].at = "find" /\ UNCHANGED <<messages, failures, summary, through>>
    BY <1>9 DEF Find, TakeBatch
  <2>2. CASE run' = [run EXCEPT ![r] = Idle]
    BY <2>1, <2>2 DEF RunsMove, Moves
  <2>3. ASSUME NEW k \in 1..Len(After(run[r].through)),
               run' = [run EXCEPT ![r].at = "generate", ![r].batch = Asked(r, k)]
        PROVE  RunsMove
    <3> DEFINE b == Asked(r, k)
    <3>1. run' = [run EXCEPT ![r].at = "generate", ![r].batch = b]
      BY <2>3
    <3> HIDE DEF b
    <3>2. [[run[r] EXCEPT !.at = "generate"] EXCEPT !.batch = b]
             = Local("generate", run[r].summary, run[r].through, run[r].take, b)
      <4>1. [run[r] EXCEPT !.at = "generate"]
               = Local("generate", run[r].summary, run[r].through, run[r].take, run[r].batch)
        BY RunFields, LocalFields
      <4>2. [Local("generate", run[r].summary, run[r].through, run[r].take, run[r].batch)
                EXCEPT !.batch = b]
               = Local("generate", run[r].summary, run[r].through, run[r].take, b)
        BY LocalFields
      <4> QED BY <4>1, <4>2, Zenon
    <3>3. run' = [run EXCEPT ![r] = [[run[r] EXCEPT !.at = "generate"] EXCEPT !.batch = b]]
      BY <1>1, <3>1
    <3>4. Moves(r, Local("generate", run[r].summary, run[r].through, run[r].take, b))
      BY <3>2, <3>3 DEF Moves
    <3> QED BY <2>1, <3>4 DEF RunsMove, b
  <2> QED BY <1>9, <2>2, <2>3, Found DEF Asked
<1>10. ASSUME NEW r \in Ids, Save(r) PROVE RunsMove
  BY <1>10 DEF Save, RunsMove, Moves
<1>11. ASSUME NEW r \in Ids, GiveUp(r) PROVE RunsMove
  BY <1>11 DEF GiveUp, RunsMove, Moves
<1>12. CASE UNCHANGED vars
  BY <1>12 DEF vars, RunsMove
<1> QED BY <1>3, <1>4, <1>5, <1>6, <1>7, <1>8, <1>9, <1>10, <1>11, <1>12 DEF Next

(***************************************************************************)
(* The inductive invariant.  What a run has read is the summary of the     *)
(* room or one the room has passed: a run that still finds the room where  *)
(* it read it has its summary, and its batch continues it.                 *)
(***************************************************************************)

(* s holds the COMPLETED messages after a up to b.                         *)
Merges(s, a, b) ==
    \A m \in 1..Len(messages) :
        a < m /\ m <= b /\ messages[m].status = "COMPLETED" => Contains(s, m)

SavedInv ==
    /\ Increasing(summary)
    /\ through = IF summary = <<>> THEN 0 ELSE Last(summary)
    /\ through <= Len(messages)
    /\ failures = 0 => Merges(summary, 0, through)

BatchOK(e) ==
    /\ e.batch # <<>>
    /\ Increasing(e.batch)
    /\ \A i \in 1..Len(e.batch) : e.through < e.batch[i] /\ e.batch[i] <= Len(messages)
    /\ failures = 0 => Merges(e.batch, e.through, Last(e.batch))

RunOK(e) ==
    /\ e.at \in {"count", "find", "generate"} =>
          e.through <= through /\ (e.through = through => e.summary = summary)
    /\ e.at = "generate" => BatchOK(e)

RunInv == \A r \in Ids : RunOK(run[r])

Inv == TypeOK /\ StatusInv /\ SavedInv /\ RunInv

LEMMA AskedBatch ==
    ASSUME TypeOK, NEW r \in Ids, NEW k \in 1..Len(After(run[r].through))
    PROVE  /\ Asked(r, k) \in Seq(Ids) /\ Len(Asked(r, k)) = k
           /\ Asked(r, k) # <<>> /\ Increasing(Asked(r, k))
           /\ \A i \in 1..k : run[r].through < Asked(r, k)[i] /\ Asked(r, k)[i] <= Len(messages)
           /\ Merges(Asked(r, k), run[r].through, Last(Asked(r, k)))
<1> DEFINE id == run[r].through
           ids == After(id)
           b == Asked(r, k)
<1>1. id \in Nat
  BY RunFields
<1>2. /\ ids \in Seq(Later(id)) /\ ids \in Seq(Ids) /\ Len(ids) \in Nat /\ Increasing(ids)
      /\ \A m \in Later(id) : \E i \in 1..Len(ids) : ids[i] = m
  BY <1>1, AfterEnumerates
<1>3. k \in 1..Len(ids) /\ b = SubSeq(ids, 1, k)
  BY DEF Asked
<1>4. \A m \in Later(id) : id < m /\ m <= Len(messages)
  BY DEF Later, TypeOK
<1> HIDE DEF ids, b, id
<1>5. \A i \in 1..Len(ids) : ids[i] \in Later(id) /\ ids[i] \in Nat
  <2>1. \A i \in 1..Len(ids) : ids[i] \in Later(id) /\ ids[i] \in Ids
    BY <1>2, ElementOfSeq
  <2>2. \A x \in Ids : x \in Nat
    BY DEF Ids
  <2> QED BY <2>1, <2>2
<1>6. b \in Seq(Ids) /\ Len(b) = k /\ \A i \in 1..k : b[i] = ids[i]
  BY <1>2, <1>3
<1>7. k \in Nat /\ k >= 1 /\ \A i \in 1..k : i \in 1..Len(ids)
  BY <1>2, <1>3
<1>8. Increasing(b) /\ b # <<>> /\ Last(b) = ids[k]
  <2>1. Increasing(b)
    BY <1>2, <1>6, <1>7 DEF Increasing
  <2>2. k \in 1..k /\ b # <<>>
    BY <1>6, <1>7
  <2>3. Last(b) = ids[k]
    BY <1>6, <2>2 DEF Last
  <2> QED BY <2>1, <2>2, <2>3
<1>9. \A i \in 1..k : id < b[i] /\ b[i] <= Len(messages)
  BY <1>4, <1>5, <1>6, <1>7
<1>10. ASSUME NEW m \in 1..Len(messages), id < m, m <= Last(b), messages[m].status = "COMPLETED"
       PROVE  Contains(b, m)
  <2>1. m \in Later(id) /\ m \in Nat
    BY <1>10 DEF Later
  <2>2. PICK i \in 1..Len(ids) : ids[i] = m
    BY <1>2, <2>1
  <2>3. ~(k < i)
    <3>1. k < i => ids[k] < ids[i]
      BY <1>3, <2>2, <1>2 DEF Increasing
    <3>2. ids[k] \in Nat /\ ids[i] <= ids[k]
      BY <1>3, <1>5, <1>8, <1>10, <2>2
    <3>3. ids[i] \in Nat
      BY <1>5, <2>2
    <3> QED BY <3>1, <3>2, <3>3
  <2>4. i \in 1..k
    BY <1>7, <2>2, <2>3
  <2> QED BY <1>6, <2>2, <2>4 DEF Contains
<1> QED BY <1>6, <1>8, <1>9, <1>10 DEF id, b, Merges

(* While no generation fails, what was merged stays all that is COMPLETED. *)
LEMMA MergesStays ==
    ASSUME RowsMove, failures' = 0, NEW s, NEW a, NEW b \in Nat, b <= Len(messages),
           Merges(s, a, b), Len(messages) \in Nat
    PROVE  \A m \in 1..Len(messages') :
              a < m /\ m <= b /\ messages'[m].status = "COMPLETED" => Contains(s, m)
<1> SUFFICES ASSUME NEW m \in 1..Len(messages'), a < m, m <= b, messages'[m].status = "COMPLETED"
             PROVE  Contains(s, m)
  OBVIOUS
<1>1. m \in 1..Len(messages)
  BY DEF RowsMove
<1>2. messages[m].status = "COMPLETED"
  BY <1>1 DEF RowsMove
<1> QED BY <1>1, <1>2 DEF Merges

LEMMA LocalParts ==
    \A a, s, t, k, b : /\ Local(a, s, t, k, b).at = a /\ Local(a, s, t, k, b).summary = s
                       /\ Local(a, s, t, k, b).through = t /\ Local(a, s, t, k, b).batch = b
BY DEF Local

LEMMA Moved ==
    ASSUME TypeOK, NEW r \in Ids, NEW e, Moves(r, e)
    PROVE  /\ run'[r] = e
           /\ \A q \in Ids : q # r => run'[q] = run[q]
           /\ e \in RunState => run' \in [Ids -> RunState]
BY DEF TypeOK, RunState, Moves

LEMMA StepTypes == ASSUME Inv, [Next]_vars PROVE TypeOK'
<1> USE SummaryAssumption DEF Inv
<1>1. RowsMove /\ RunsMove
  BY ConversationMoves, SummariesMove
<1>2. /\ summary \in Seq(Ids) /\ through \in 0..MaxMessages
      /\ run \in [Ids -> RunState]
      /\ \A r \in Ids : run[r].at = "generate" => run[r].batch # <<>>
  BY DEF TypeOK, RunState
<1> DEFINE RunsOK == /\ run' \in [Ids -> RunState]
                     /\ \A r \in Ids : run'[r].at = "generate" => run'[r].batch # <<>>
<1>3. ASSUME NEW r \in Ids, NEW e \in RunState, Moves(r, e), e.at = "generate" => e.batch # <<>>
      PROVE  RunsOK
  BY <1>2, <1>3, Moved
<1>4. ASSUME NEW r \in Ids, Moves(r, Idle) PROVE RunsOK
  BY <1>3, <1>4, IdleType
<1> HIDE DEF RunsOK
<1>5. summary' \in Seq(Ids) /\ through' \in 0..MaxMessages /\ RunsOK
  <2>1. CASE UNCHANGED <<summary, through, run>>
    BY <1>2, <2>1 DEF RunsOK
  <2>2. ASSUME NEW q \in Ids, NEW at \in {"none", "room"},
               Moves(q, Local(at, run[q].summary, run[q].through, run[q].take, run[q].batch))
        PROVE  RunsOK
    <3> DEFINE e == Local(at, run[q].summary, run[q].through, run[q].take, run[q].batch)
    <3>1. e \in RunState /\ e.at # "generate"
      BY RunFields, LocalType, LocalParts
    <3> QED BY <1>3, <2>2, <3>1
  <2>3. ASSUME NEW r \in Ids,
               Moves(r, Local("count", summary, through, run[r].take, run[r].batch))
        PROVE  RunsOK
    <3> DEFINE e == Local("count", summary, through, run[r].take, run[r].batch)
    <3>1. e \in RunState /\ e.at # "generate"
      BY <1>2, RunFields, LocalType, LocalParts
    <3> QED BY <1>3, <2>3, <3>1
  <2>4. ASSUME NEW r \in Ids, NEW take \in 0..Batch,
               Moves(r, Local("find", run[r].summary, run[r].through, take, run[r].batch))
        PROVE  RunsOK
    <3> DEFINE e == Local("find", run[r].summary, run[r].through, take, run[r].batch)
    <3>1. e \in RunState /\ e.at # "generate"
      BY RunFields, LocalType, LocalParts
    <3> QED BY <1>3, <2>4, <3>1
  <2>5. ASSUME NEW r \in Ids, NEW k \in 1..Len(After(run[r].through)),
               Moves(r, Local("generate", run[r].summary, run[r].through, run[r].take, Asked(r, k)))
        PROVE  RunsOK
    <3> DEFINE e == Local("generate", run[r].summary, run[r].through, run[r].take, Asked(r, k))
    <3>1. Asked(r, k) \in Seq(Ids) /\ Asked(r, k) # <<>>
      BY AskedBatch
    <3>2. e \in RunState /\ e.batch # <<>>
      BY <3>1, RunFields, LocalType, LocalParts
    <3> QED BY <1>3, <2>5, <3>2
  <2>6. ASSUME NEW r \in Ids, run[r].at = "generate",
               summary' = Generated(r), through' = Last(run[r].batch)
        PROVE  summary' \in Seq(Ids) /\ through' \in 0..MaxMessages
    <3>1. run[r].summary \in Seq(Ids) /\ run[r].batch \in Seq(Ids) /\ run[r].batch # <<>>
      BY <1>2, <2>6, RunFields
    <3>2. Last(run[r].batch) \in Ids
      BY <3>1 DEF Last
    <3> QED BY <2>6, <3>1, <3>2 DEF Generated, Ids
  <2> QED BY <1>1, <1>2, <1>4, <2>1, <2>2, <2>3, <2>4, <2>5, <2>6 DEF RunsMove
<1> QED BY <1>1, <1>5 DEF TypeOK, RowsMove, RunState, RunsOK, Rows, Status

(* The save of a summary that is not stale: the room's summary, continued. *)
LEMMA Continued ==
    ASSUME Inv, NEW r \in Ids, run[r].at = "generate", run[r].through = through,
           summary' = Generated(r), through' = Last(run[r].batch)
    PROVE  /\ summary' = summary \o run[r].batch /\ summary' \in Seq(Ids)
           /\ Len(summary') = Len(summary) + Len(run[r].batch)
           /\ \A i \in 1..Len(summary) : summary'[i] = summary[i]
           /\ \A i \in 1..Len(run[r].batch) : summary'[Len(summary) + i] = run[r].batch[i]
           /\ Increasing(summary') /\ summary' # <<>>
           /\ through' = Last(summary') /\ through < through' /\ through' <= Len(messages)
           /\ through' \in Nat /\ through \in Nat
<1> DEFINE b == run[r].batch
<1> USE SummaryAssumption DEF Inv
<1>1. RunOK(run[r])
  BY DEF RunInv
<1>2. /\ b \in Seq(Ids) /\ summary \in Seq(Ids) /\ BatchOK(run[r])
      /\ run[r].summary = summary
  BY <1>1, RunFields DEF RunOK, TypeOK
<1>3. /\ b # <<>> /\ Increasing(b)
      /\ \A i \in 1..Len(b) : through < b[i] /\ b[i] <= Len(messages)
  BY <1>2 DEF BatchOK
<1>4. summary' = summary \o b /\ through' = Last(b) /\ through \in Nat
  BY <1>2 DEF Generated, TypeOK
<1> HIDE DEF b
<1>5. /\ Len(b) \in Nat /\ Len(b) >= 1 /\ Len(summary) \in Nat
      /\ \A i \in 1..Len(b) : b[i] \in Nat
      /\ \A i \in 1..Len(summary) : summary[i] \in Nat
  <2>1. Len(b) \in Nat /\ Len(summary) \in Nat /\ Len(b) # 0
    BY <1>2, <1>3
  <2>2. \A x \in Ids : x \in Nat
    BY DEF Ids
  <2> QED BY <1>2, <2>1, <2>2, ElementOfSeq
<1>6. /\ summary' \in Seq(Ids) /\ Len(summary') = Len(summary) + Len(b)
      /\ \A i \in 1..Len(summary) : summary'[i] = summary[i]
      /\ \A i \in 1..Len(b) : summary'[Len(summary) + i] = b[i]
  BY <1>2, <1>4, <1>5
<1>7. \A i \in 1..Len(summary) : summary[i] <= through
  <2> SUFFICES ASSUME NEW i \in 1..Len(summary) PROVE summary[i] <= through
    OBVIOUS
  <2>1. summary # <<>> /\ through = summary[Len(summary)] /\ Len(summary) \in 1..Len(summary)
    BY <1>2, <1>5 DEF SavedInv, Last
  <2>2. i < Len(summary) => summary[i] < summary[Len(summary)]
    BY <2>1 DEF SavedInv, Increasing
  <2>3. i < Len(summary) \/ i = Len(summary)
    BY <1>5
  <2> QED BY <1>5, <2>1, <2>2, <2>3
<1>8. Increasing(summary')
  <2> SUFFICES ASSUME NEW i \in 1..Len(summary'), NEW j \in 1..Len(summary'), i < j
               PROVE  summary'[i] < summary'[j]
    BY DEF Increasing
  <2>1. CASE j <= Len(summary)
    <3>1. i \in 1..Len(summary) /\ j \in 1..Len(summary)
      BY <1>5, <2>1
    <3>2. summary[i] < summary[j]
      BY <3>1 DEF SavedInv, Increasing
    <3> QED BY <1>6, <3>1, <3>2
  <2>2. CASE ~(j <= Len(summary)) /\ i <= Len(summary)
    <3>1. i \in 1..Len(summary)
      BY <1>5, <2>2
    <3>2. PICK l \in 1..Len(b) : j = Len(summary) + l
      <4>1. j - Len(summary) \in 1..Len(b) /\ j = Len(summary) + (j - Len(summary))
        BY <1>5, <1>6, <2>2
      <4> QED BY <4>1
    <3>3. summary[i] <= through /\ through < b[l]
      BY <1>3, <1>7, <3>1
    <3>4. summary[i] < b[l]
      BY <1>4, <1>5, <3>1, <3>2, <3>3
    <3> QED BY <1>6, <3>1, <3>2, <3>4
  <2>3. CASE ~(i <= Len(summary))
    <3>1. PICK l \in 1..Len(b) : j = Len(summary) + l
      <4>1. j - Len(summary) \in 1..Len(b) /\ j = Len(summary) + (j - Len(summary))
        BY <1>5, <1>6, <2>3
      <4> QED BY <4>1
    <3>2. PICK k \in 1..Len(b) : i = Len(summary) + k
      <4>1. i - Len(summary) \in 1..Len(b) /\ i = Len(summary) + (i - Len(summary))
        BY <1>5, <1>6, <2>3
      <4> QED BY <4>1
    <3>3. k < l
      BY <1>5, <3>1, <3>2
    <3> QED BY <1>3, <1>6, <3>1, <3>2, <3>3 DEF Increasing
  <2>4. i \in Nat /\ j \in Nat
    BY <1>5, <1>6
  <2> QED BY <1>5, <2>1, <2>2, <2>3, <2>4
<1>9. summary' # <<>> /\ through' = Last(summary') /\ through < through'
      /\ through' <= Len(messages) /\ through' \in Nat
  <2>1. Len(b) \in 1..Len(b) /\ Len(summary') # 0
    BY <1>5, <1>6
  <2>2. summary' # <<>>
    BY <1>6, <2>1
  <2>3. Last(summary') = b[Len(b)] /\ Last(b) = b[Len(b)]
    BY <1>6, <2>1 DEF Last
  <2> QED BY <1>3, <1>4, <1>5, <2>1, <2>2, <2>3
<1> QED BY <1>4, <1>6, <1>8, <1>9 DEF b

LEMMA StepSaved == ASSUME Inv, [Next]_vars PROVE SavedInv'
<1> USE SummaryAssumption DEF Inv
<1>1. RowsMove /\ RunsMove
  BY ConversationMoves, SummariesMove
<1>2. Len(messages) \in Nat /\ through \in Nat
  BY DEF TypeOK
<1>3. CASE UNCHANGED <<summary, through>>
  <2>1. through' <= Len(messages')
    BY <1>1, <1>2, <1>3 DEF SavedInv, RowsMove
  <2>2. ASSUME failures' = 0 PROVE Merges(summary, 0, through)'
    <3>1. Merges(summary, 0, through) /\ through <= Len(messages)
      BY <1>1, <2>2 DEF SavedInv, RowsMove
    <3>2. \A m \in 1..Len(messages') :
             0 < m /\ m <= through /\ messages'[m].status = "COMPLETED" => Contains(summary, m)
      BY <1>1, <1>2, <2>2, <3>1, MergesStays
    <3> QED BY <1>3, <3>2 DEF Merges, Contains
  <2> QED BY <1>3, <2>1, <2>2 DEF SavedInv, Increasing, Last
<1>4. ASSUME NEW r \in Ids, run[r].at = "generate", run[r].through = through,
             summary' = Generated(r), through' = Last(run[r].batch),
             UNCHANGED <<messages, failures>>
      PROVE  SavedInv'
  <2> DEFINE b == run[r].batch
  <2>1. /\ Len(summary') = Len(summary) + Len(b) /\ Len(summary) \in Nat /\ Len(b) \in Nat
        /\ \A i \in 1..Len(summary) : summary'[i] = summary[i]
        /\ \A i \in 1..Len(b) : summary'[Len(summary) + i] = b[i]
    <3>1. Len(summary) \in Nat /\ Len(b) \in Nat
      BY RunFields DEF TypeOK
    <3> QED BY <1>4, <3>1, Continued
  <2>2. Increasing(summary)' /\ summary' # <<>> /\ through' = Last(summary')
        /\ through < through' /\ through' <= Len(messages) /\ through' \in Nat
    BY <1>4, Continued DEF Increasing
  <2>3. ASSUME failures = 0, NEW m \in 1..Len(messages), m <= through',
               messages[m].status = "COMPLETED"
        PROVE  \E i \in 1..Len(summary') : summary'[i] = m
    <3>1. CASE m <= through
      <4>1. Contains(summary, m)
        BY <1>2, <2>3, <3>1 DEF SavedInv, Merges
      <4>2. PICK i \in 1..Len(summary) : summary[i] = m
        BY <4>1 DEF Contains
      <4>3. i \in 1..Len(summary')
        BY <2>1
      <4> QED BY <2>1, <4>2, <4>3
    <3>2. CASE through < m
      <4>1. BatchOK(run[r])
        BY <1>4 DEF RunInv, RunOK
      <4>2. Contains(b, m)
        BY <1>4, <2>3, <3>2, <4>1 DEF BatchOK, Merges
      <4>3. PICK i \in 1..Len(b) : b[i] = m
        BY <4>2 DEF Contains
      <4>4. Len(summary) + i \in 1..Len(summary')
        BY <2>1
      <4> QED BY <2>1, <4>3, <4>4
    <3> QED BY <1>2, <3>1, <3>2
  <2> QED BY <1>4, <2>2, <2>3 DEF SavedInv, Merges, Contains, Last
<1> QED BY <1>1, <1>3, <1>4 DEF RunsMove

LEMMA StepRun == ASSUME Inv, [Next]_vars PROVE RunInv'
<1> USE SummaryAssumption DEF Inv
<1>1. RowsMove /\ RunsMove
  BY ConversationMoves, SummariesMove
<1>2. /\ Len(messages) \in Nat /\ Len(messages') \in Nat /\ Len(messages) <= Len(messages')
      /\ through \in Nat
  BY <1>1 DEF TypeOK, RowsMove
(* A batch stays what it was when it was found.                            *)
<1>3. ASSUME NEW e \in RunState, BatchOK(e) PROVE BatchOK(e)'
  <2>1. /\ e.batch \in Seq(Ids) /\ Len(e.batch) \in 1..Len(e.batch)
        /\ \A i \in 1..Len(e.batch) : e.batch[i] \in Nat
    <3>1. e.batch \in Seq(Ids) /\ e.batch # <<>>
      BY <1>3 DEF BatchOK, RunState
    <3>2. \A x \in Ids : x \in Nat
      BY DEF Ids
    <3> HIDE DEF Ids
    <3> QED BY <3>1, <3>2
  <2>2. \A i \in 1..Len(e.batch) : e.through < e.batch[i] /\ e.batch[i] <= Len(messages')
    BY <1>2, <1>3, <2>1 DEF BatchOK
  <2>3. ASSUME failures' = 0 PROVE Merges(e.batch, e.through, Last(e.batch))'
    <3>1. Merges(e.batch, e.through, Last(e.batch)) /\ Last(e.batch) <= Len(messages)
          /\ Last(e.batch) \in Nat
      BY <1>1, <1>3, <2>1, <2>3 DEF BatchOK, Last, RowsMove
    <3>2. \A m \in 1..Len(messages') :
             e.through < m /\ m <= Last(e.batch) /\ messages'[m].status = "COMPLETED"
                => Contains(e.batch, m)
      BY <1>1, <1>2, <2>3, <3>1, MergesStays
    <3> QED BY <3>2 DEF Merges
  <2> QED BY <1>3, <2>2, <2>3 DEF BatchOK
<1>4. ASSUME NEW e \in RunState, RunOK(e), UNCHANGED <<summary, through>> PROVE RunOK(e)'
  BY <1>3, <1>4 DEF RunOK
<1>5. ASSUME NEW r \in Ids, NEW e \in RunState, Moves(r, e), RunOK(e)',
             UNCHANGED <<summary, through>>
      PROVE  RunInv'
  <2>1. ASSUME NEW q \in Ids, q # r PROVE RunOK(run[q])'
    <3>1. run[q] \in RunState /\ RunOK(run[q]) /\ run'[q] = run[q]
      BY <1>5, <2>1, RunFields, Moved DEF RunInv
    <3> QED BY <1>4, <1>5, <3>1
  <2>2. RunOK(run[r])'
    BY <1>5, Moved
  <2> QED BY <2>1, <2>2 DEF RunInv
<1>6. ASSUME NEW r \in Ids, NEW e \in RunState, Moves(r, e), e.at \in {"none", "room"},
             UNCHANGED <<summary, through>>
      PROVE  RunInv'
  BY <1>5, <1>6 DEF RunOK
<1>7. ASSUME NEW r \in Ids, Moves(r, Idle), UNCHANGED <<summary, through>> PROVE RunInv'
  BY <1>6, <1>7, IdleType
<1>8. CASE UNCHANGED <<summary, through, run>>
  <2>1. ASSUME NEW q \in Ids PROVE RunOK(run[q])'
    <3>1. run[q] \in RunState /\ RunOK(run[q]) /\ run'[q] = run[q]
      BY <1>8, RunFields DEF RunInv
    <3> QED BY <1>4, <1>8, <3>1
  <2> QED BY <2>1 DEF RunInv
<1>9. ASSUME NEW q \in Ids, NEW at \in {"none", "room"}, UNCHANGED <<summary, through>>,
             Moves(q, Local(at, run[q].summary, run[q].through, run[q].take, run[q].batch))
      PROVE  RunInv'
  <2> DEFINE e == Local(at, run[q].summary, run[q].through, run[q].take, run[q].batch)
  <2>1. e \in RunState /\ e.at = at
    BY RunFields, LocalType, LocalParts
  <2> QED BY <1>6, <1>9, <2>1
<1>10. ASSUME NEW r \in Ids, UNCHANGED <<summary, through>>,
              Moves(r, Local("count", summary, through, run[r].take, run[r].batch))
       PROVE  RunInv'
  <2> DEFINE e == Local("count", summary, through, run[r].take, run[r].batch)
  <2>1. e \in RunState /\ e.at = "count" /\ e.summary = summary /\ e.through = through
    <3>1. summary \in Seq(Ids) /\ through \in 0..MaxMessages
      BY DEF TypeOK
    <3> QED BY <3>1, RunFields, LocalType, LocalParts
  <2>2. \A x \in RunState : x.at = "count" /\ x.summary = summary /\ x.through = through
           => RunOK(x)'
    BY <1>2, <1>10 DEF RunOK
  <2> QED BY <1>5, <1>10, <2>1, <2>2
<1>11. ASSUME NEW r \in Ids, NEW take \in 0..Batch, UNCHANGED <<summary, through>>,
              run[r].at = "count",
              Moves(r, Local("find", run[r].summary, run[r].through, take, run[r].batch))
       PROVE  RunInv'
  <2> DEFINE e == Local("find", run[r].summary, run[r].through, take, run[r].batch)
  <2>1. e \in RunState /\ e.at = "find" /\ e.summary = run[r].summary
        /\ e.through = run[r].through
    BY RunFields, LocalType, LocalParts
  <2>2. run[r].through <= through /\ (run[r].through = through => run[r].summary = summary)
    BY <1>11 DEF RunInv, RunOK
  <2>3. \A x \in RunState : /\ x.at = "find" /\ x.through <= through
                            /\ x.through = through => x.summary = summary
                            => RunOK(x)'
    BY <1>11 DEF RunOK
  <2> QED BY <1>5, <1>11, <2>1, <2>2, <2>3
<1>12. ASSUME NEW r \in Ids, NEW k \in 1..Len(After(run[r].through)),
              UNCHANGED <<messages, failures, summary, through>>, run[r].at = "find",
              Moves(r, Local("generate", run[r].summary, run[r].through, run[r].take, Asked(r, k)))
       PROVE  RunInv'
  <2> DEFINE e == Local("generate", run[r].summary, run[r].through, run[r].take, Asked(r, k))
  <2>1. Asked(r, k) \in Seq(Ids)
    BY AskedBatch
  <2>2. e \in RunState /\ e.at = "generate" /\ e.summary = run[r].summary
        /\ e.through = run[r].through /\ e.batch = Asked(r, k)
    BY <2>1, RunFields, LocalType, LocalParts
  <2>3. run[r].through <= through /\ (run[r].through = through => run[r].summary = summary)
    BY <1>12 DEF RunInv, RunOK
  <2>4. BatchOK(e)
    BY <2>2, AskedBatch DEF BatchOK
  <2>5. \A x \in RunState : /\ x.at = "generate" /\ x.through <= through
                            /\ x.through = through => x.summary = summary
                            /\ BatchOK(x)
                            => RunOK(x)'
    BY <1>3, <1>12 DEF RunOK
  <2> QED BY <1>5, <1>12, <2>2, <2>3, <2>4, <2>5
(* The room passes every other run, which will find it changed.            *)
<1>13. ASSUME NEW r \in Ids, run[r].at = "generate", run[r].through = through,
              summary' = Generated(r), through' = Last(run[r].batch), Moves(r, Idle)
       PROVE  RunInv'
  <2>1. through < through' /\ through' \in Nat
    BY <1>13, Continued
  <2>2. ASSUME NEW e \in RunState, RunOK(e) PROVE RunOK(e)'
    <3>1. e.through \in Nat
      BY SummaryAssumption DEF RunState
    <3> QED BY <1>2, <1>3, <2>1, <2>2, <3>1 DEF RunOK
  <2>3. RunOK(Idle)'
    BY IdleType DEF RunOK
  <2>4. ASSUME NEW q \in Ids PROVE RunOK(run[q])'
    <3>1. CASE q = r
      BY <1>13, <2>3, <3>1, Moved
    <3>2. CASE q # r
      <4>1. run[q] \in RunState /\ RunOK(run[q]) /\ run'[q] = run[q]
        BY <1>13, <3>2, RunFields, Moved DEF RunInv
      <4> QED BY <2>2, <4>1
    <3> QED BY <3>1, <3>2
  <2> QED BY <2>4 DEF RunInv
<1> QED BY <1>1, <1>7, <1>8, <1>9, <1>10, <1>11, <1>12, <1>13 DEF RunsMove

LEMMA InitInv == Init => Inv
<1> SUFFICES ASSUME Init PROVE Inv
  OBVIOUS
<1>1. Len(messages) = 0 /\ Len(summary) = 0 /\ messages \in Seq(Rows) /\ summary \in Seq(Ids)
  BY DEF Init
<1>2. \A r \in Ids : run[r] \in RunState /\ run[r].at = "none"
  BY IdleType DEF Init
<1>3. run \in [Ids -> RunState]
  BY IdleType DEF Init
<1>4. TypeOK
  BY <1>1, <1>2, <1>3, SummaryAssumption DEF Init, TypeOK, Rows, Status, RunState
<1>5. SavedInv /\ StatusInv
  BY <1>1 DEF Init, SavedInv, StatusInv, Merges, Increasing
<1>6. RunInv
  BY <1>2 DEF RunInv, RunOK
<1> QED BY <1>4, <1>5, <1>6 DEF Inv

THEOREM InvHolds == Spec => []Inv
<1>1. Inv /\ [Next]_vars => Inv'
  BY StepTypes, ConversationMoves, StepSaved, StepRun DEF Inv, RowsMove
<1> QED BY InitInv, <1>1, PTL DEF Spec

(* Every reachable state has its type (run summary_overlap).               *)
THEOREM TypeCorrect == Spec => []TypeOK
<1>1. Inv => TypeOK
  BY DEF Inv
<1> QED BY InvHolds, <1>1, PTL

(* However many summaries of a room overlap, a message is merged once, in  *)
(* order, and the room records the last of them (run summary_overlap).     *)
THEOREM MergedOnceHolds == Spec => []MergedOnce
<1>1. Inv => MergedOnce
  BY DEF Inv, SavedInv, MergedOnce, Increasing
<1> QED BY InvHolds, <1>1, PTL

(* A step leaves the summary or continues it: a summary that comes late    *)
(* does not undo what another merged (run summary_overlap).                *)
THEOREM SummaryGrowsHolds == Spec => SummaryGrows
<1>1. ASSUME Inv, [Next]_vars PROVE [IsPrefix(summary, summary')]_vars
  <2>1. RunsMove /\ summary \in Seq(Ids)
    BY <1>1, SummariesMove DEF Inv, TypeOK
  <2>2. CASE summary' = summary
    BY <2>1, <2>2 DEF IsPrefix
  <2>3. ASSUME NEW r \in Ids, run[r].at = "generate", run[r].through = through,
               summary' = Generated(r), through' = Last(run[r].batch)
        PROVE  IsPrefix(summary, summary')
    <3>1. /\ summary' \in Seq(Ids) /\ Len(summary') = Len(summary) + Len(run[r].batch)
          /\ \A i \in 1..Len(summary) : summary'[i] = summary[i]
      BY <1>1, <2>3, Continued
    <3>2. Len(summary) \in Nat /\ Len(run[r].batch) \in Nat
      <4>1. run[r].batch \in Seq(Ids)
        BY <1>1, RunFields DEF Inv
      <4> QED BY <2>1, <4>1
    <3> DEFINE n == Len(summary)
               a == SubSeq(summary, 1, n)
               b == SubSeq(summary', 1, n)
    <3>3. /\ a \in Seq(Ids) /\ Len(a) = n /\ \A i \in 1..n : a[i] = summary[i]
          /\ b \in Seq(Ids) /\ Len(b) = n /\ \A i \in 1..n : b[i] = summary'[i]
      BY <2>1, <3>1, <3>2
    <3>4. \A i \in 1..n : a[i] = b[i]
      BY <3>1, <3>3
    <3> HIDE DEF a, b
    <3>5. a = b
      BY <3>3, <3>4, SeqEqual
    <3> QED BY <3>1, <3>2, <3>5 DEF IsPrefix, a, b
  <2> QED BY <2>1, <2>2, <2>3 DEF RunsMove
<1> QED BY InvHolds, <1>1, PTL DEF Spec, SummaryGrows

(* Once a room has a summary, and while no generation has failed, every    *)
(* COMPLETED message is in the summary or in the messages after it that    *)
(* make up the agent's context (run summary_overlap).                      *)
THEOREM NothingForgottenHolds == Spec => []NothingForgotten
<1>1. Inv => NothingForgotten
  <2> SUFFICES ASSUME Inv, summary # <<>>, failures = 0,
                      NEW m \in 1..Len(messages), messages[m].status = "COMPLETED"
               PROVE  Contains(summary \o After(through), m)
    BY DEF NothingForgotten, Complete, Context
  <2>1. through \in Nat /\ summary \in Seq(Ids) /\ m \in Nat
    BY DEF Inv, TypeOK
  <2> DEFINE ids == After(through)
  <2>2. /\ ids \in Seq(Ids)
        /\ \A k \in Later(through) : \E i \in 1..Len(ids) : ids[i] = k
    BY <2>1, AfterEnumerates DEF Inv
  <2> HIDE DEF ids
  <2>3. /\ Len(summary) \in Nat /\ Len(ids) \in Nat
        /\ Len(summary \o ids) = Len(summary) + Len(ids)
        /\ \A i \in 1..Len(summary) : (summary \o ids)[i] = summary[i]
        /\ \A i \in 1..Len(ids) : (summary \o ids)[Len(summary) + i] = ids[i]
    BY <2>1, <2>2
  <2>4. CASE m <= through
    <3>1. Contains(summary, m)
      BY <2>1, <2>4 DEF Inv, SavedInv, Merges
    <3>2. PICK i \in 1..Len(summary) : summary[i] = m
      BY <3>1 DEF Contains
    <3>3. i \in 1..Len(summary \o ids)
      BY <2>3
    <3> QED BY <2>3, <3>2, <3>3 DEF Contains, ids
  <2>5. CASE through < m
    <3>1. PICK i \in 1..Len(ids) : ids[i] = m
      BY <2>2, <2>5 DEF Later
    <3>2. Len(summary) + i \in 1..Len(summary \o ids)
      BY <2>3
    <3> QED BY <2>3, <3>1, <3>2 DEF Contains, ids
  <2> QED BY <2>1, <2>4, <2>5
<1> QED BY InvHolds, <1>1, PTL
=============================================================================
