------------------------ MODULE MutationTools_proofs ------------------------
(* Theorems about MutationTools: for any number of messages, calls, rows   *)
(* and runs, when a message asks for at most one update or delete.         *)
EXTENDS MutationTools, TLAPS

USE DEF rowVars, nodeVars

(***************************************************************************)
(* The inductive invariant.  With one guarded call in a message its node   *)
(* raises one card, which stays in the checkpoint until the node is done:  *)
(* every decision of the message, in whatever run it is, is for that card. *)
(***************************************************************************)
OneGuarded == \A c, d \in Calls :
    MessageOf[c] = MessageOf[d] /\ Guarded(c) /\ Guarded(d) => c = d

CardInv ==
    /\ \A m \in Messages : resumes[m] = <<>>
    /\ \A m \in Messages : live[m] => ~finished[m]
    /\ \A m \in Messages : card[m] # None =>
           MessageOf[card[m].call] = m /\ Guarded(card[m].call)

(* A run that answers a card has its decision until the tool asks.         *)
PadInv ==
    /\ \A c \in Calls, k \in RunIds : exec[c][k].at \in {"read", "ask"} =>
           pad[MessageOf[c]][k].asked = 0 /\ pad[MessageOf[c]][k].list = <<>>
    /\ \A m \in Messages : live[m] /\ card[m] # None /\ pad[m][runs[m]].asked = 0 =>
           pad[m][runs[m]].fresh # None

(* What a tool of call c knows at the stage it has reached.                *)
StageOK(c, e) ==
    /\ e.at = "insert" => ~Guarded(c)
    /\ e.at \in {"read", "ask"} => Guarded(c)
    /\ e.at = "commit" => e.decision.card \in approved /\ e.decision.card.call = c
    /\ e.at = "recheck" => call[c].tool # "update_expense"

StageInv == \A c \in Calls, k \in RunIds : StageOK(c, exec[c][k])

(* A decision that waits in the scratchpad of a run of message m.          *)
FreshOK(m, d) ==
    /\ MessageOf[d.card.call] = m
    /\ Guarded(d.card.call)
    /\ d.action = "approve" => d.card \in approved

ApprovedInv ==
    /\ \A a, b \in approved : MessageOf[a.call] = MessageOf[b.call] => a = b
    /\ \A a \in approved : ~finished[MessageOf[a.call]] => card[MessageOf[a.call]] = a
    /\ \A a \in approved : Guarded(a.call)
    /\ \A m \in Messages, k \in RunIds :
           pad[m][k].fresh # None => FreshOK(m, pad[m][k].fresh)

AppliedInv ==
    /\ applied \subseteq approved
    /\ \A a \in applied : version[Row(a.call)] = 0 \/ version[Row(a.call)] > a.version
    /\ \A c \in Calls : inserted[c] <= 1

Inv == TypeOK /\ OneGuarded /\ CardInv /\ PadInv /\ StageInv /\ ApprovedInv /\ AppliedInv

(***************************************************************************)
(* How the steps move the tools and the scratchpads.                       *)
(***************************************************************************)
ExecOK ==
    /\ exec \in [Calls -> [RunIds -> ExecState]]
    /\ \A c \in Calls, k \in RunIds :
          /\ exec[c][k].at = "ask" => exec[c][k].seen # 0
          /\ exec[c][k].at = "commit" => exec[c][k].decision # None
PadOK == pad \in [Messages -> [RunIds -> PadState]]

(* What a tool step may put for the tool of call c in run k.               *)
LocalOK(c, k, e) ==
    /\ e \in ExecState
    /\ e.at = "ask" => e.seen # 0
    /\ e.at = "commit" => e.decision # None
    /\ StageOK(c, e)
    /\ e.at # "read"
    /\ e.at = "ask" => exec[c][k].at = "read"

LEMMA Counted ==
    ASSUME NEW m \in Messages, NEW n \in Nat, n < MaxRuns[m] PROVE n + 1 \in RunIds
<1>1. n + 1 \in 1..MaxRuns[m]
  BY ToolsAssumption
<1> QED BY <1>1 DEF RunIds

(* The locals of each stage have their types.                              *)
LEMMA LocalTypes ==
    /\ \A s \in Stages, n \in Nat : At(s, n, None) \in ExecState
    /\ \A d \in Decision : At("commit", 0, d) \in ExecState
    /\ \A r \in Results : Returned(r) \in ExecState
    /\ \A s, n, d : At(s, n, d).at = s /\ At(s, n, d).seen = n /\ At(s, n, d).decision = d
    /\ \A r : Returned(r).at = "returned"
BY DEF At, Returned, ExecState, Stages

LEMMA PadTypes ==
    /\ \A n \in Nat, l \in Seq(Decision), f \in Decision \cup {None} :
          Scratchpad(n, l, f) \in PadState
    /\ \A n, l, f : /\ Scratchpad(n, l, f).asked = n
                    /\ Scratchpad(n, l, f).list = l
                    /\ Scratchpad(n, l, f).fresh = f
BY DEF Scratchpad, PadState

LEMMA PutEntries ==
    ASSUME ExecOK, NEW c \in Calls, NEW k \in RunIds, NEW e, Put(c, k, e)
    PROVE  /\ exec'[c][k] = e
           /\ \A d \in Calls, l \in RunIds : <<d, l>> # <<c, k>> => exec'[d][l] = exec[d][l]
BY DEF ExecOK, Put

LEMMA SetPadEntries ==
    ASSUME PadOK, NEW m \in Messages, NEW k \in RunIds, NEW p \in PadState, SetPad(m, k, p)
    PROVE  /\ PadOK'
           /\ pad'[m][k] = p
           /\ \A n \in Messages, l \in RunIds : <<n, l>> # <<m, k>> => pad'[n][l] = pad[n][l]
BY DEF PadOK, SetPad

(* A run of the node begins: its tools at their start, with the decision f *)
(* in its scratchpad; nothing else moves.                                  *)
LEMMA Started ==
    ASSUME Inv, NEW m \in Messages, NEW f \in Decision \cup {None}, StartRun(m, f)
    PROVE  /\ runs[m] + 1 \in RunIds /\ runs' = [runs EXCEPT ![m] = runs[m] + 1]
           /\ PadOK'
           /\ pad'[m][runs[m] + 1] = Scratchpad(0, <<>>, f)
           /\ \A n \in Messages, l \in RunIds :
                 <<n, l>> # <<m, runs[m] + 1>> => pad'[n][l] = pad[n][l]
           /\ exec' \in [Calls -> [RunIds -> ExecState]]
           /\ \A d \in Calls, l \in RunIds :
                 exec'[d][l] = IF MessageOf[d] = m /\ l = runs[m] + 1
                               THEN At(IF Guarded(d) THEN "read" ELSE "insert", 0, None)
                               ELSE exec[d][l]
<1> USE DEF Inv
<1>1. runs[m] + 1 \in RunIds /\ runs' = [runs EXCEPT ![m] = runs[m] + 1]
  BY Counted DEF StartRun, TypeOK, NodesOK
<1>2. Scratchpad(0, <<>>, f) \in PadState
  <2>1. <<>> \in Seq(Decision)
    OBVIOUS
  <2> QED BY <2>1 DEF Scratchpad, PadState
<1>3. pad' = [pad EXCEPT ![m][runs[m] + 1] = Scratchpad(0, <<>>, f)]
  BY DEF StartRun, CardInv
<1>4. PadOK' /\ pad'[m][runs[m] + 1] = Scratchpad(0, <<>>, f)
      /\ \A n \in Messages, l \in RunIds :
            <<n, l>> # <<m, runs[m] + 1>> => pad'[n][l] = pad[n][l]
  BY <1>1, <1>2, <1>3 DEF PadOK, TypeOK
<1> DEFINE new(d) == At(IF Guarded(d) THEN "read" ELSE "insert", 0, None)
<1>5. \A d \in Calls : new(d) \in ExecState
  BY LocalTypes DEF Stages
<1> HIDE DEF new
<1>6. exec' = [d \in Calls |-> IF MessageOf[d] = m
                               THEN [exec[d] EXCEPT ![runs[m] + 1] = new(d)] ELSE exec[d]]
  BY DEF StartRun, new
<1>7. /\ exec' \in [Calls -> [RunIds -> ExecState]]
      /\ \A d \in Calls, l \in RunIds :
            exec'[d][l] = IF MessageOf[d] = m /\ l = runs[m] + 1 THEN new(d) ELSE exec[d][l]
  BY <1>1, <1>5, <1>6 DEF TypeOK
<1> QED BY <1>1, <1>4, <1>7 DEF new

(* The decision a tool finds in its scratchpad is about its own card.      *)
LEMMA Decided ==
    ASSUME Inv, NEW c \in Calls, NEW k \in RunIds, GetDecision(c, k)
    PROVE  \E d \in Decision :
              /\ Decide(c, k, d)
              /\ d.action = "approve" => d.card \in approved /\ d.card.call = c
              /\ SetPad(MessageOf[c], k, Scratchpad(1, Append(<<>>, d), None))
<1> USE DEF Inv
<1> DEFINE p == pad[MessageOf[c]][k]
<1>1. exec[c][k].at = "ask" /\ p.asked = 0 /\ p.list = <<>> /\ Guarded(c)
  BY DEF GetDecision, PadInv, StageInv, StageOK
<1>2. p \in PadState /\ MessageOf[c] \in Messages
  BY ToolsAssumption DEF TypeOK
<1>3. p.fresh # None /\ Decide(c, k, p.fresh)
      /\ SetPad(MessageOf[c], k, Scratchpad(1, Append(<<>>, p.fresh), None))
  BY <1>1 DEF GetDecision
<1>4. p.fresh \in Decision
  BY <1>2, <1>3 DEF PadState
<1>5. FreshOK(MessageOf[c], p.fresh) /\ p.fresh.card.call \in Calls
  BY <1>2, <1>3, <1>4 DEF ApprovedInv, Decision, Shown
<1>6. p.fresh.card.call = c
  BY <1>1, <1>5 DEF FreshOK, OneGuarded
<1> QED BY <1>3, <1>4, <1>5, <1>6 DEF FreshOK

(* A tool step moves its tool and, when the tool asks, its scratchpad.     *)
LEMMA Moved ==
    ASSUME Inv, NEW c \in Calls, NEW k \in RunIds, ToolStep(c, k)
    PROVE  \E e : LocalOK(c, k, e) /\ Put(c, k, e)
<1> USE DEF Inv
<1>1. \A r \in Results : LocalOK(c, k, Returned(r))
  BY LocalTypes DEF LocalOK, StageOK
<1>2. /\ \A s \in {"reread", "interrupted"} : LocalOK(c, k, At(s, 0, None))
      /\ call[c].tool # "update_expense" => LocalOK(c, k, At("recheck", 0, None))
  BY LocalTypes DEF LocalOK, StageOK, Stages
<1>3. CASE DatabaseFails(c, k)
  BY <1>1, <1>3 DEF DatabaseFails, Return, Results
<1>4. CASE Create(c, k)
  BY <1>1, <1>4 DEF Create, ReturnCommitted, Return, Results
<1>5. CASE ReadRow(c, k)
  <2>1. CASE version[Row(c)] = 0
    BY <1>1, <1>5, <2>1 DEF ReadRow, Return, Results
  <2>2. CASE version[Row(c)] # 0
    <3>1. version[Row(c)] \in Nat /\ "ask" \in Stages
      BY DEF TypeOK, RowsOK, Row, Stages
    <3>2. At("ask", version[Row(c)], None) \in ExecState
      BY <3>1, LocalTypes
    <3>3. exec[c][k].at = "read" /\ Guarded(c)
      BY <1>5 DEF ReadRow, StageInv, StageOK
    <3>4. LocalOK(c, k, At("ask", version[Row(c)], None))
      BY <2>2, <3>2, <3>3, LocalTypes DEF LocalOK, StageOK
    <3> QED BY <1>5, <2>2, <3>4 DEF ReadRow
  <2> QED BY <2>1, <2>2
<1>6. CASE GetDecision(c, k)
  <2>1. PICK d \in Decision :
           Decide(c, k, d) /\ (d.action = "approve" => d.card \in approved /\ d.card.call = c)
    BY <1>6, Decided
  <2>2. CASE d.action = "approve"
    <3>1. At("commit", 0, d) \in ExecState /\ d # None
      BY LocalTypes, ToolsAssumption
    <3>2. LocalOK(c, k, At("commit", 0, d))
      BY <2>1, <2>2, <3>1, LocalTypes DEF LocalOK, StageOK
    <3> QED BY <2>1, <2>2, <3>2 DEF Decide
  <2>3. CASE d.action # "approve"
    BY <1>1, <2>1, <2>3 DEF Decide, Return, Results
  <2> QED BY <2>2, <2>3
<1>7. CASE Interrupt(c, k)
  BY <1>2, <1>7 DEF Interrupt, To
<1>8. CASE UpdateExpense(c, k)
  BY <1>1, <1>8 DEF UpdateExpense, ReturnCommitted, Return, Results
<1>9. CASE UpdateSchedule(c, k)
  BY <1>1, <1>2, <1>9 DEF UpdateSchedule, To, Return, Results
<1>10. CASE ReadUpdated(c, k)
  BY <1>1, <1>10 DEF ReadUpdated, Return, Results
<1>11. CASE DeleteRow(c, k)
  BY <1>1, <1>2, <1>11 DEF DeleteRow, ReturnCommitted, To, Return, Results
<1>12. CASE ReadUnchanged(c, k)
  BY <1>1, <1>12 DEF ReadUnchanged, Return, Results
<1> QED BY <1>3, <1>4, <1>5, <1>6, <1>7, <1>8, <1>9, <1>10, <1>11, <1>12 DEF ToolStep

LEMMA PadsMoved ==
    ASSUME Inv, NEW c \in Calls, NEW k \in RunIds, ToolStep(c, k)
    PROVE  \/ pad' = pad
           \/ /\ exec[c][k].at = "ask" /\ exec'[c][k].at # "ask"
              /\ \E p \in PadState : /\ SetPad(MessageOf[c], k, p)
                                     /\ p.asked # 0 /\ p.fresh = None
<1> USE DEF Inv
<1>1. CASE GetDecision(c, k)
  <2>1. PICK d \in Decision :
           Decide(c, k, d) /\ SetPad(MessageOf[c], k, Scratchpad(1, Append(<<>>, d), None))
    BY <1>1, Decided
  <2>2. Append(<<>>, d) \in Seq(Decision)
    OBVIOUS
  <2> DEFINE l == Append(<<>>, d)
  <2> HIDE DEF l
  <2>3. /\ Scratchpad(1, l, None) \in PadState
        /\ Scratchpad(1, l, None).asked # 0 /\ Scratchpad(1, l, None).fresh = None
    BY <2>2 DEF l, Scratchpad, PadState
  <2>4. exec'[c][k].at # "ask"
    BY <2>1, PutEntries, LocalTypes DEF Decide, Return, TypeOK, ExecOK
  <2> QED BY <1>1, <2>1, <2>3, <2>4 DEF GetDecision, l
<1>2. CASE Interrupt(c, k)
  <2> DEFINE p == pad[MessageOf[c]][k]
  <2>1. p \in PadState
    BY ToolsAssumption DEF TypeOK
  <2>2. p.asked \in Nat /\ p.list \in Seq(Decision)
    BY <2>1 DEF PadState
  <2>3. /\ Scratchpad(p.asked + 1, p.list, None) \in PadState
        /\ Scratchpad(p.asked + 1, p.list, None).asked # 0
        /\ Scratchpad(p.asked + 1, p.list, None).fresh = None
    BY <2>2, PadTypes
  <2>4. exec'[c][k].at # "ask"
    BY <1>2, PutEntries, LocalTypes DEF Interrupt, To, TypeOK, ExecOK
  <2> QED BY <1>2, <2>3, <2>4 DEF Interrupt
<1>3. CASE ~GetDecision(c, k) /\ ~Interrupt(c, k)
  BY <1>3 DEF ToolStep, DatabaseFails, Create, ReadRow, UpdateExpense, UpdateSchedule,
              ReadUpdated, DeleteRow, ReadUnchanged
<1> QED BY <1>1, <1>2, <1>3

LEMMA StepTypes == ASSUME Inv, [Next]_vars PROVE TypeOK'
<1> USE ToolsAssumption DEF Inv
<1>1. ASSUME NEW m \in Messages, NodeStep(m) PROVE TypeOK'
  <2>1. ASSUME NEW f \in Decision \cup {None}, StartRun(m, f), approved' \subseteq Shown
        PROVE  TypeOK'
    <3>1. PadOK' /\ ExecOK'
      <4>1. ASSUME NEW d \in Calls, NEW l \in RunIds
            PROVE  /\ exec'[d][l].at = "ask" => exec'[d][l].seen # 0
                   /\ exec'[d][l].at = "commit" => exec'[d][l].decision # None
        <5>1. \/ \E s \in {"read", "insert"} : exec'[d][l] = At(s, 0, None)
              \/ exec'[d][l] = exec[d][l]
          BY <2>1, Started
        <5> QED BY <5>1, LocalTypes DEF TypeOK
      <4> QED BY <2>1, <4>1, Started DEF ExecOK
    <3>2. runs[m] + 1 \in RunIds /\ runs' = [runs EXCEPT ![m] = runs[m] + 1]
      BY <2>1, Started
    <3>3. RowsOK' /\ NodesOK'
      BY <2>1, <3>2 DEF StartRun, TypeOK, RowsOK, NodesOK
    <3> QED BY <3>1, <3>3 DEF TypeOK, PadOK, ExecOK
  <2>2. CASE RunTools(m)
    BY <2>1, <2>2 DEF RunTools, TypeOK, RowsOK
  <2>3. CASE AnswerCard(m)
    <3>1. PICK action \in {"approve", "cancel"} :
              /\ StartRun(m, [action |-> action, card |-> card[m]])
              /\ approved' = IF action = "approve" THEN approved \cup {card[m]} ELSE approved
      BY <2>3 DEF AnswerCard
    <3>2. card[m] \in Shown
      BY <2>3 DEF AnswerCard, TypeOK, NodesOK
    <3>3. [action |-> action, card |-> card[m]] \in Decision /\ approved' \subseteq Shown
      BY <3>1, <3>2 DEF Decision, TypeOK, RowsOK
    <3> QED BY <2>1, <3>1, <3>3
  <2>4. CASE NodeStops(m)
    BY <2>4 DEF NodeStops, TypeOK, RowsOK, NodesOK
  <2>5. CASE Crash(m)
    <3>1. At("dead", 0, None) \in ExecState
      BY LocalTypes DEF Stages
    <3>2. \A d \in Calls, l \in RunIds :
             exec'[d][l] = At("dead", 0, None) \/ exec'[d][l] = exec[d][l]
      BY <2>5 DEF Crash
    <3>3. exec' \in [Calls -> [RunIds -> ExecState]]
      BY <2>5, <3>1 DEF Crash, TypeOK
    <3>4. ExecOK'
      <4>1. ASSUME NEW d \in Calls, NEW l \in RunIds
            PROVE  /\ exec'[d][l].at = "ask" => exec'[d][l].seen # 0
                   /\ exec'[d][l].at = "commit" => exec'[d][l].decision # None
        BY <3>2, LocalTypes DEF TypeOK
      <4> QED BY <3>3, <4>1 DEF ExecOK
    <3> QED BY <2>5, <3>4 DEF Crash, TypeOK, ExecOK, RowsOK, NodesOK
  <2>6. CASE Finish(m)
    BY <2>6 DEF Finish, TypeOK, RowsOK, NodesOK
  <2> QED BY <1>1, <2>2, <2>3, <2>4, <2>5, <2>6 DEF NodeStep
<1>2. ASSUME NEW c \in Calls, NEW k \in RunIds, ToolStep(c, k) PROVE TypeOK'
  <2> USE <1>2
  <2>1. ExecOK'
    <3>1. PICK e : LocalOK(c, k, e) /\ Put(c, k, e)
      BY Moved
    <3>2. exec' \in [Calls -> [RunIds -> ExecState]]
      BY <3>1 DEF LocalOK, Put, TypeOK
    <3>3. /\ exec'[c][k] = e
          /\ \A d \in Calls, l \in RunIds : <<d, l>> # <<c, k>> => exec'[d][l] = exec[d][l]
      BY <3>1, PutEntries DEF ExecOK, TypeOK
    <3>4. ASSUME NEW d \in Calls, NEW l \in RunIds
          PROVE  /\ exec'[d][l].at = "ask" => exec'[d][l].seen # 0
                 /\ exec'[d][l].at = "commit" => exec'[d][l].decision # None
      <4>1. CASE <<d, l>> = <<c, k>>
        BY <3>1, <3>3, <4>1 DEF LocalOK
      <4>2. CASE <<d, l>> # <<c, k>>
        BY <3>3, <4>2 DEF TypeOK
      <4> QED BY <4>1, <4>2
    <3> QED BY <3>2, <3>4 DEF ExecOK
  <2>2. PadOK'
    BY PadsMoved, SetPadEntries DEF TypeOK, PadOK
  <2>3. call[c] \in [tool : Tools, row : Rows] /\ version[Row(c)] \in Nat
    BY DEF TypeOK, RowsOK, Row
  <2>4. NodesOK'
    <3>1. CASE Interrupt(c, k)
      <4> DEFINE p == pad[MessageOf[c]][k]
      <4>1. p.list \in Seq(Decision) /\ MessageOf[c] \in Messages
        BY DEF TypeOK, PadState
      <4>2. [call |-> c, version |-> exec[c][k].seen] \in Shown
        <5>1. exec[c][k] \in ExecState /\ exec[c][k].seen # 0
          BY <3>1 DEF Interrupt, TypeOK
        <5> QED BY <5>1 DEF ExecState, Shown
      <4> DEFINE a == [call |-> c, version |-> exec[c][k].seen]
      <4> HIDE DEF p, a
      <4>3. CASE UNCHANGED <<live, card, resumes>>
        BY <3>1, <4>3 DEF Interrupt, TypeOK, NodesOK
      <4>4. CASE /\ live' = [live EXCEPT ![MessageOf[c]] = FALSE]
                 /\ card' = [card EXCEPT ![MessageOf[c]] = a]
                 /\ resumes' = [resumes EXCEPT ![MessageOf[c]] = p.list]
        <5>1. /\ live' \in [Messages -> BOOLEAN]
              /\ card' \in [Messages -> Shown \cup {None}]
              /\ resumes' \in [Messages -> Seq(Decision)]
              /\ \A n \in Messages : live'[n] => live[n]
          BY <4>1, <4>2, <4>4 DEF TypeOK, NodesOK, a
        <5> QED BY <3>1, <5>1 DEF Interrupt, TypeOK, NodesOK
      <4> QED BY <3>1, <4>3, <4>4 DEF Interrupt, p, a
    <3>2. CASE UNCHANGED nodeVars
      BY <3>2 DEF TypeOK, NodesOK
    <3> QED BY <3>1, <3>2 DEF ToolStep, DatabaseFails, Create, ReadRow, GetDecision,
          UpdateExpense, UpdateSchedule, ReadUpdated, DeleteRow, ReadUnchanged
  <2>5. RowsOK'
    <3>1. CASE Create(c, k)
      BY <3>1 DEF Create, TypeOK, RowsOK
    <3>2. ASSUME exec[c][k].at = "commit", version[Row(c)] = Expected(c, k), Change(c, k),
                 UNCHANGED <<call, inserted, approved>>,
                 operations' = operations \/ operations' = [operations EXCEPT ![c] = Expected(c, k)],
                 \E v \in Nat : version' = [version EXCEPT ![Row(c)] = v]
          PROVE  RowsOK'
      <4>1. exec[c][k] \in ExecState /\ exec[c][k].decision # None
        BY <3>2 DEF TypeOK
      <4>2. exec[c][k].decision \in Decision
        BY <4>1 DEF ExecState
      <4>3. Expected(c, k) \in Nat \ {0}
        BY <4>2 DEF Expected, Decision, Shown
      <4>4. [call |-> c, version |-> version[Row(c)]] \in Shown
        BY <2>3, <3>2, <4>3 DEF Shown
      <4>5. applied' \subseteq Shown
        BY <3>2, <4>4 DEF Change, TypeOK, RowsOK
      <4>6. operations' \in [Calls -> Nat]
        <5> DEFINE v == Expected(c, k)
        <5> HIDE DEF v
        <5>1. operations' = operations \/ operations' = [operations EXCEPT ![c] = v]
          BY <3>2 DEF v
        <5>2. v \in Nat /\ operations \in [Calls -> Nat]
          BY <4>3 DEF v, TypeOK, RowsOK
        <5> QED BY <5>1, <5>2
      <4>7. version' \in [Rows -> Nat]
        <5>1. PICK v \in Nat : version' = [version EXCEPT ![Row(c)] = v]
          BY <3>2
        <5> QED BY <5>1 DEF TypeOK, RowsOK
      <4> QED BY <3>2, <4>5, <4>6, <4>7 DEF TypeOK, RowsOK
    <3>3. CASE UpdateExpense(c, k)
      BY <2>3, <3>2, <3>3 DEF UpdateExpense, TypeOK, RowsOK
    <3>4. CASE UpdateSchedule(c, k)
      BY <2>3, <3>2, <3>4 DEF UpdateSchedule, TypeOK, RowsOK
    <3>5. CASE DeleteRow(c, k)
      BY <2>3, <3>2, <3>5 DEF DeleteRow, TypeOK, RowsOK
    <3>6. CASE UNCHANGED <<call, rowVars, approved>>
      BY <3>6 DEF TypeOK, RowsOK
    <3> QED BY <3>1, <3>3, <3>4, <3>5, <3>6 DEF ToolStep, DatabaseFails, ReadRow,
          GetDecision, Interrupt, ReadUpdated, ReadUnchanged
  <2> QED BY <2>1, <2>2, <2>4, <2>5 DEF TypeOK, ExecOK, PadOK
<1>3. CASE UNCHANGED vars
  BY <1>3 DEF vars, TypeOK, RowsOK, NodesOK
<1> QED BY <1>1, <1>2, <1>3 DEF Next

LEMMA StepOneGuarded == ASSUME Inv, [Next]_vars PROVE OneGuarded'
<1>1. ASSUME NEW m \in Messages, NodeStep(m) PROVE call' = call
  BY <1>1 DEF NodeStep, StartRun, RunTools, AnswerCard, NodeStops, Crash, Finish
<1>2. ASSUME NEW c \in Calls, NEW k \in RunIds, ToolStep(c, k) PROVE call' = call
  BY <1>2 DEF ToolStep, DatabaseFails, Create, ReadRow, GetDecision, Interrupt,
              UpdateExpense, UpdateSchedule, ReadUpdated, DeleteRow, ReadUnchanged
<1>3. call' = call
  BY <1>1, <1>2 DEF Next, vars
<1> QED BY <1>3 DEF Inv, OneGuarded, Guarded

LEMMA StepCard == ASSUME Inv, [Next]_vars PROVE CardInv'
<1> USE ToolsAssumption DEF Inv
<1>1. ASSUME NEW m \in Messages, NodeStep(m) PROVE CardInv'
  <2>1. CASE RunTools(m)
    BY <2>1 DEF RunTools, StartRun, CardInv, TypeOK, NodesOK, Guarded
  <2>2. CASE AnswerCard(m)
    BY <2>2 DEF AnswerCard, StartRun, CardInv, TypeOK, NodesOK, Guarded
  <2>3. CASE NodeStops(m)
    BY <2>3 DEF NodeStops, CardInv, TypeOK, NodesOK, Guarded
  <2>4. CASE Crash(m)
    BY <2>4 DEF Crash, CardInv, TypeOK, NodesOK, Guarded
  <2>5. CASE Finish(m)
    BY <2>5 DEF Finish, CardInv, TypeOK, NodesOK, Guarded
  <2> QED BY <1>1, <2>1, <2>2, <2>3, <2>4, <2>5 DEF NodeStep
<1>2. ASSUME NEW c \in Calls, NEW k \in RunIds, ToolStep(c, k) PROVE CardInv'
  <2>1. CASE Interrupt(c, k)
    <3>1. Guarded(c) /\ pad[MessageOf[c]][k].list = <<>> /\ MessageOf[c] \in Messages
      BY <2>1 DEF Interrupt, PadInv, StageInv, StageOK
    <3> DEFINE a == [call |-> c, version |-> exec[c][k].seen]
    <3>2. a.call = c
      OBVIOUS
    <3>3. \/ UNCHANGED <<live, card, resumes>>
          \/ /\ live' = [live EXCEPT ![MessageOf[c]] = FALSE]
             /\ card' = [card EXCEPT ![MessageOf[c]] = a]
             /\ resumes' = [resumes EXCEPT ![MessageOf[c]] = <<>>]
      BY <2>1, <3>1 DEF Interrupt
    <3> HIDE DEF a
    <3>4. /\ \A n \in Messages : resumes'[n] = resumes[n] \/ resumes'[n] = <<>>
          /\ \A n \in Messages : live'[n] => live[n]
          /\ \A n \in Messages : \/ card'[n] = card[n]
                                 \/ n = MessageOf[c] /\ card'[n].call = c
          /\ finished' = finished /\ call' = call
      <4>1. finished' = finished /\ call' = call
        BY <2>1 DEF Interrupt
      <4>2. /\ card \in [Messages -> Shown \cup {None}] /\ resumes \in [Messages -> Seq(Decision)]
            /\ live \in [Messages -> BOOLEAN]
        BY DEF TypeOK, NodesOK
      <4> QED BY <3>1, <3>2, <3>3, <4>1, <4>2
    <3>5. \A n \in Messages : card'[n] # None =>
             MessageOf[card'[n].call] = n /\ Guarded(card'[n].call)
      BY <3>1, <3>4 DEF CardInv
    <3> QED BY <3>4, <3>5 DEF CardInv, Guarded
  <2>2. CASE UNCHANGED <<call, nodeVars>>
    BY <2>2 DEF CardInv, Guarded, nodeVars
  <2>3. Interrupt(c, k) \/ UNCHANGED <<call, nodeVars>>
    BY <1>2 DEF ToolStep, DatabaseFails, Create, ReadRow, GetDecision,
        UpdateExpense, UpdateSchedule, ReadUpdated, DeleteRow, ReadUnchanged
  <2> QED BY <2>1, <2>2, <2>3
<1>3. CASE UNCHANGED vars
  BY <1>3 DEF vars, CardInv, Guarded
<1> QED BY <1>1, <1>2, <1>3 DEF Next

LEMMA StepPad == ASSUME Inv, [Next]_vars PROVE PadInv'
<1> USE ToolsAssumption DEF Inv
<1>1. ASSUME NEW m \in Messages, NodeStep(m) PROVE PadInv'
  <2>1. ASSUME NEW f \in Decision \cup {None}, StartRun(m, f), card[m] # None => f # None
        PROVE  PadInv'
    <3>1. /\ runs' = [runs EXCEPT ![m] = runs[m] + 1] /\ card' = card
          /\ live' = [live EXCEPT ![m] = TRUE]
          /\ pad'[m][runs[m] + 1] = Scratchpad(0, <<>>, f)
          /\ \A n \in Messages, l \in RunIds :
                <<n, l>> # <<m, runs[m] + 1>> => pad'[n][l] = pad[n][l]
          /\ \A d \in Calls, l \in RunIds :
                <<MessageOf[d], l>> # <<m, runs[m] + 1>> => exec'[d][l] = exec[d][l]
      BY <2>1, Started DEF StartRun
    <3>2. ASSUME NEW d \in Calls, NEW l \in RunIds, exec'[d][l].at \in {"read", "ask"}
          PROVE  pad'[MessageOf[d]][l].asked = 0 /\ pad'[MessageOf[d]][l].list = <<>>
      <4>1. CASE <<MessageOf[d], l>> = <<m, runs[m] + 1>>
        BY <3>1, <4>1, PadTypes
      <4>2. CASE <<MessageOf[d], l>> # <<m, runs[m] + 1>>
        BY <3>1, <3>2, <4>2 DEF PadInv
      <4> QED BY <4>1, <4>2
    <3>3. ASSUME NEW n \in Messages, live'[n], card'[n] # None, pad'[n][runs'[n]].asked = 0
          PROVE  pad'[n][runs'[n]].fresh # None
      <4>1. CASE n = m
        BY <2>1, <3>1, <3>3, <4>1, PadTypes DEF TypeOK, NodesOK
      <4>2. CASE n # m
        <5>1. live[n] /\ card[n] # None /\ runs'[n] = runs[n] /\ runs[n] \in RunIds
          BY <3>1, <3>3, <4>2 DEF TypeOK, NodesOK
        <5> QED BY <3>1, <3>3, <4>2, <5>1 DEF PadInv
      <4> QED BY <4>1, <4>2
    <3> QED BY <3>2, <3>3 DEF PadInv
  <2>2. CASE RunTools(m)
    BY <2>1, <2>2 DEF RunTools
  <2>3. CASE AnswerCard(m)
    <3>1. PICK action \in {"approve", "cancel"} :
              StartRun(m, [action |-> action, card |-> card[m]])
      BY <2>3 DEF AnswerCard
    <3>2. card[m] \in Shown
      BY <2>3 DEF AnswerCard, TypeOK, NodesOK
    <3>3. [action |-> action, card |-> card[m]] \in Decision
      BY <3>2 DEF Decision
    <3> QED BY <2>1, <3>1, <3>3
  <2>4. CASE NodeStops(m)
    BY <2>4 DEF NodeStops, PadInv, TypeOK, NodesOK
  <2>5. CASE Crash(m)
    <3>1. \A d \in Calls, l \in RunIds :
             exec'[d][l].at \in {"read", "ask"} => exec[d][l].at \in {"read", "ask"}
      BY <2>5, LocalTypes DEF Crash, TypeOK
    <3> QED BY <2>5, <3>1 DEF Crash, PadInv, TypeOK, NodesOK
  <2>6. CASE Finish(m)
    BY <2>6 DEF Finish, PadInv, TypeOK, NodesOK
  <2> QED BY <1>1, <2>2, <2>3, <2>4, <2>5, <2>6 DEF NodeStep
<1>2. ASSUME NEW c \in Calls, NEW k \in RunIds, ToolStep(c, k) PROVE PadInv'
  <2> USE <1>2
  <2>1. PICK e : LocalOK(c, k, e) /\ Put(c, k, e)
    BY Moved
  <2>2. /\ exec'[c][k].at # "read" /\ (exec'[c][k].at = "ask" => exec[c][k].at = "read")
        /\ \A d \in Calls, l \in RunIds : <<d, l>> # <<c, k>> => exec'[d][l] = exec[d][l]
    BY <2>1, PutEntries DEF LocalOK, TypeOK, ExecOK
  <2>3. /\ runs' = runs
        /\ \A n \in Messages : live'[n] => live[n] /\ card'[n] = card[n] /\ runs[n] \in RunIds
    <3>1. CASE Interrupt(c, k)
      BY <3>1 DEF Interrupt, TypeOK, NodesOK
    <3>2. CASE UNCHANGED nodeVars
      BY <3>2 DEF TypeOK, NodesOK
    <3> QED BY <3>1, <3>2 DEF ToolStep, DatabaseFails, Create, ReadRow, GetDecision,
          UpdateExpense, UpdateSchedule, ReadUpdated, DeleteRow, ReadUnchanged
  <2>4. CASE pad' = pad
    <3>1. ASSUME NEW d \in Calls, NEW l \in RunIds, exec'[d][l].at \in {"read", "ask"}
          PROVE  exec[d][l].at \in {"read", "ask"}
      <4>1. CASE <<d, l>> = <<c, k>>
        BY <2>2, <3>1, <4>1
      <4>2. CASE <<d, l>> # <<c, k>>
        BY <2>2, <3>1, <4>2
      <4> QED BY <4>1, <4>2
    <3>2. \A d \in Calls, l \in RunIds : exec'[d][l].at \in {"read", "ask"} =>
             pad'[MessageOf[d]][l].asked = 0 /\ pad'[MessageOf[d]][l].list = <<>>
      BY <2>4, <3>1 DEF PadInv
    <3>3. \A n \in Messages : live'[n] /\ card'[n] # None /\ pad'[n][runs'[n]].asked = 0 =>
             pad'[n][runs'[n]].fresh # None
      BY <2>3, <2>4 DEF PadInv
    <3> QED BY <3>2, <3>3 DEF PadInv
  <2>5. CASE pad' # pad
    <3>1. PICK p \in PadState : SetPad(MessageOf[c], k, p) /\ p.asked # 0
      BY <2>5, PadsMoved
    <3>2. exec[c][k].at = "ask" /\ exec'[c][k].at # "ask" /\ Guarded(c)
      BY <2>5, PadsMoved DEF StageInv, StageOK
    <3>3. /\ pad'[MessageOf[c]][k].asked # 0
          /\ \A n \in Messages, i \in RunIds :
                <<n, i>> # <<MessageOf[c], k>> => pad'[n][i] = pad[n][i]
      BY <3>1, SetPadEntries DEF TypeOK, PadOK
    <3>4. ASSUME NEW d \in Calls, NEW l \in RunIds, exec'[d][l].at \in {"read", "ask"}
          PROVE  pad'[MessageOf[d]][l].asked = 0 /\ pad'[MessageOf[d]][l].list = <<>>
      <4>1. <<d, l>> # <<c, k>>
        BY <2>2, <3>2, <3>4
      <4>2. exec[d][l].at \in {"read", "ask"}
        BY <2>2, <3>4, <4>1
      <4>3. <<MessageOf[d], l>> # <<MessageOf[c], k>>
        BY <3>2, <4>1, <4>2 DEF StageInv, StageOK, OneGuarded
      <4> QED BY <3>3, <4>2, <4>3 DEF PadInv
    <3>5. ASSUME NEW n \in Messages, live'[n], card'[n] # None, pad'[n][runs'[n]].asked = 0
          PROVE  pad'[n][runs'[n]].fresh # None
      <4>1. <<n, runs[n]>> # <<MessageOf[c], k>>
        BY <2>3, <3>3, <3>5
      <4>2. pad'[n][runs[n]] = pad[n][runs[n]]
        BY <2>3, <3>3, <3>5, <4>1
      <4> QED BY <2>3, <3>5, <4>2 DEF PadInv
    <3> QED BY <3>4, <3>5 DEF PadInv
  <2> QED BY <2>4, <2>5
<1>3. CASE UNCHANGED vars
  BY <1>3 DEF vars, PadInv
<1> QED BY <1>1, <1>2, <1>3 DEF Next

LEMMA StepStage == ASSUME Inv, [Next]_vars PROVE StageInv'
<1> USE ToolsAssumption DEF Inv
<1>1. ASSUME NEW m \in Messages, NodeStep(m) PROVE StageInv'
  <2>1. ASSUME NEW f \in Decision \cup {None}, StartRun(m, f), approved \subseteq approved'
        PROVE  StageInv'
    <3>1. ASSUME NEW d \in Calls, NEW l \in RunIds PROVE StageOK(d, exec[d][l])'
      <4>1. exec'[d][l] = IF MessageOf[d] = m /\ l = runs[m] + 1
                          THEN At(IF Guarded(d) THEN "read" ELSE "insert", 0, None)
                          ELSE exec[d][l]
        BY <2>1, Started
      <4>2. call' = call
        BY <2>1 DEF StartRun
      <4>3. CASE MessageOf[d] = m /\ l = runs[m] + 1
        BY <4>1, <4>2, <4>3, LocalTypes DEF StageOK, Guarded
      <4>4. CASE ~(MessageOf[d] = m /\ l = runs[m] + 1)
        BY <2>1, <4>1, <4>2, <4>4 DEF StageInv, StageOK, Guarded
      <4> QED BY <4>3, <4>4
    <3> QED BY <3>1 DEF StageInv
  <2>2. CASE RunTools(m)
    BY <2>1, <2>2 DEF RunTools
  <2>3. CASE AnswerCard(m)
    <3>1. PICK action \in {"approve", "cancel"} :
              /\ StartRun(m, [action |-> action, card |-> card[m]])
              /\ approved' = IF action = "approve" THEN approved \cup {card[m]} ELSE approved
      BY <2>3 DEF AnswerCard
    <3>2. card[m] \in Shown
      BY <2>3 DEF AnswerCard, TypeOK, NodesOK
    <3>3. [action |-> action, card |-> card[m]] \in Decision /\ approved \subseteq approved'
      BY <3>1, <3>2 DEF Decision
    <3> QED BY <2>1, <3>1, <3>3
  <2>4. CASE NodeStops(m)
    BY <2>4 DEF NodeStops, StageInv, StageOK, Guarded
  <2>5. CASE Crash(m)
    <3>1. ASSUME NEW d \in Calls, NEW l \in RunIds PROVE StageOK(d, exec[d][l])'
      <4>1. exec'[d][l] = exec[d][l] \/ exec'[d][l] = At("dead", 0, None)
        BY <2>5 DEF Crash
      <4> QED BY <2>5, <4>1, LocalTypes DEF Crash, StageInv, StageOK, Guarded
    <3> QED BY <3>1 DEF StageInv
  <2>6. CASE Finish(m)
    BY <2>6 DEF Finish, StageInv, StageOK, Guarded
  <2> QED BY <1>1, <2>2, <2>3, <2>4, <2>5, <2>6 DEF NodeStep
<1>2. ASSUME NEW c \in Calls, NEW k \in RunIds, ToolStep(c, k) PROVE StageInv'
  <2> USE <1>2
  <2>1. PICK e : LocalOK(c, k, e) /\ Put(c, k, e)
    BY Moved
  <2>2. UNCHANGED <<call, approved>>
    BY DEF ToolStep, DatabaseFails, Create, ReadRow, GetDecision, Interrupt,
           UpdateExpense, UpdateSchedule, ReadUpdated, DeleteRow, ReadUnchanged
  <2>3. ASSUME NEW d \in Calls, NEW l \in RunIds PROVE StageOK(d, exec[d][l])'
    <3>1. StageOK(d, exec'[d][l])
      BY <2>1, PutEntries DEF LocalOK, StageInv, TypeOK, ExecOK
    <3> QED BY <2>2, <3>1 DEF StageOK, Guarded
  <2> QED BY <2>3 DEF StageInv
<1>3. CASE UNCHANGED vars
  BY <1>3 DEF vars, StageInv, StageOK, Guarded
<1> QED BY <1>1, <1>2, <1>3 DEF Next

LEMMA StepApproved == ASSUME Inv, [Next]_vars PROVE ApprovedInv'
<1> USE ToolsAssumption DEF Inv
<1>1. ASSUME NEW m \in Messages, NodeStep(m) PROVE ApprovedInv'
  <2>1. CASE RunTools(m)
    <3>1. ASSUME NEW n \in Messages, NEW l \in RunIds
          PROVE  pad'[n][l].fresh = None \/ pad'[n][l].fresh = pad[n][l].fresh
      BY <2>1, Started, PadTypes DEF RunTools
    <3>2. UNCHANGED <<call, card, finished, approved>>
      BY <2>1 DEF RunTools, StartRun
    <3>3. ASSUME NEW n \in Messages, NEW l \in RunIds, pad'[n][l].fresh # None
          PROVE  FreshOK(n, pad[n][l].fresh)'
      <4>1. FreshOK(n, pad[n][l].fresh) /\ pad'[n][l].fresh = pad[n][l].fresh
        BY <3>1, <3>3 DEF ApprovedInv
      <4> QED BY <3>2, <4>1 DEF FreshOK, Guarded
    <3> QED BY <3>2, <3>3 DEF ApprovedInv, Guarded
  <2>2. CASE AnswerCard(m)
    <3>1. PICK action \in {"approve", "cancel"} :
              /\ StartRun(m, [action |-> action, card |-> card[m]])
              /\ approved' = IF action = "approve" THEN approved \cup {card[m]} ELSE approved
      BY <2>2 DEF AnswerCard
    <3> DEFINE new == [action |-> action, card |-> card[m]]
    <3>2. /\ ~finished[m] /\ UNCHANGED <<call, card, finished>>
          /\ card[m] \in Shown /\ MessageOf[card[m].call] = m /\ Guarded(card[m].call)
      BY <2>2, <3>1 DEF AnswerCard, StartRun, TypeOK, NodesOK, CardInv
    <3>3. new \in Decision /\ new.card = card[m] /\ new.action = action
      BY <3>2 DEF Decision
    <3>4. \A n \in Messages, l \in RunIds :
             (n = m /\ pad'[n][l].fresh = new) \/ pad'[n][l].fresh = pad[n][l].fresh
      BY <3>1, <3>3, Started, PadTypes
    <3>5. \A a \in approved' : a \in approved \/ a = card[m]
      BY <3>1
    <3>6. \A a, b \in approved' : MessageOf[a.call] = MessageOf[b.call] => a = b
      BY <3>2, <3>5 DEF ApprovedInv
    <3>7. \A a \in approved' : ~finished'[MessageOf[a.call]] => card'[MessageOf[a.call]] = a
      BY <3>2, <3>5 DEF ApprovedInv
    <3>8. \A a \in approved' : Guarded(a.call)'
      BY <3>2, <3>5 DEF ApprovedInv, Guarded
    <3>9. ASSUME NEW n \in Messages, NEW l \in RunIds, pad'[n][l].fresh # None
          PROVE  FreshOK(n, pad[n][l].fresh)'
      <4>1. CASE n = m /\ pad'[n][l].fresh = new
        BY <3>1, <3>2, <3>3, <4>1 DEF FreshOK, Guarded
      <4>2. CASE pad'[n][l].fresh = pad[n][l].fresh
        BY <3>1, <3>2, <3>9, <4>2 DEF ApprovedInv, FreshOK, Guarded
      <4> QED BY <3>4, <4>1, <4>2
    <3> QED BY <3>6, <3>7, <3>8, <3>9 DEF ApprovedInv
  <2>3. CASE NodeStops(m)
    BY <2>3 DEF NodeStops, ApprovedInv, FreshOK, Guarded
  <2>4. CASE Crash(m)
    BY <2>4 DEF Crash, ApprovedInv, FreshOK, Guarded
  <2>5. CASE Finish(m)
    <3>1. UNCHANGED <<call, approved, pad>>
      BY <2>5 DEF Finish
    <3>2. \A n \in Messages : ~finished'[n] => ~finished[n] /\ card'[n] = card[n]
      BY <2>5 DEF Finish, TypeOK, NodesOK
    <3>3. ASSUME NEW a \in approved, ~finished'[MessageOf[a.call]]
          PROVE  card'[MessageOf[a.call]] = a
      <4>1. MessageOf[a.call] \in Messages
        BY DEF TypeOK, RowsOK, Shown
      <4> QED BY <3>2, <3>3, <4>1 DEF ApprovedInv
    <3> QED BY <3>1, <3>3 DEF ApprovedInv, FreshOK, Guarded
  <2> QED BY <1>1, <2>1, <2>2, <2>3, <2>4, <2>5 DEF NodeStep
<1>2. ASSUME NEW c \in Calls, NEW k \in RunIds, ToolStep(c, k) PROVE ApprovedInv'
  <2> USE <1>2
  <2>1. \A n \in Messages, l \in RunIds :
           pad'[n][l].fresh = None \/ pad'[n][l].fresh = pad[n][l].fresh
    <3>1. CASE pad' = pad
      BY <3>1
    <3>2. CASE pad' # pad
      <4>1. PICK p \in PadState : SetPad(MessageOf[c], k, p) /\ p.fresh = None
        BY <3>2, PadsMoved
      <4>2. /\ pad'[MessageOf[c]][k].fresh = None
            /\ \A n \in Messages, i \in RunIds :
                  <<n, i>> # <<MessageOf[c], k>> => pad'[n][i] = pad[n][i]
        BY <4>1, SetPadEntries DEF TypeOK, PadOK
      <4> QED BY <4>2
    <3> QED BY <3>1, <3>2
  <2>2. UNCHANGED <<call, approved, finished>>
    BY DEF ToolStep, DatabaseFails, Create, ReadRow, GetDecision, Interrupt,
           UpdateExpense, UpdateSchedule, ReadUpdated, DeleteRow, ReadUnchanged
  <2>3. \A n \in Messages : card'[n] = card[n] \/ card[n] = None
    <3>1. CASE Interrupt(c, k)
      <4>1. pad[MessageOf[c]][k].fresh = None /\ pad[MessageOf[c]][k].asked = 0
        BY <3>1 DEF Interrupt, PadInv
      <4>2. CASE live[MessageOf[c]] /\ runs[MessageOf[c]] = k
        <5>1. card[MessageOf[c]] = None
          BY <4>1, <4>2 DEF PadInv
        <5> QED BY <3>1, <5>1 DEF Interrupt, TypeOK, NodesOK
      <4>3. CASE ~(live[MessageOf[c]] /\ runs[MessageOf[c]] = k)
        BY <3>1, <4>3 DEF Interrupt
      <4> QED BY <4>2, <4>3
    <3>2. CASE card' = card
      BY <3>2
    <3> QED BY <3>1, <3>2 DEF ToolStep, DatabaseFails, Create, ReadRow, GetDecision,
          UpdateExpense, UpdateSchedule, ReadUpdated, DeleteRow, ReadUnchanged
  <2>4. ASSUME NEW a \in approved, ~finished[MessageOf[a.call]]
        PROVE  card'[MessageOf[a.call]] = a
    <3>1. a \in Shown /\ MessageOf[a.call] \in Messages
      BY DEF TypeOK, RowsOK, Shown
    <3>2. card[MessageOf[a.call]] = a /\ a # None
      BY <2>4, <3>1 DEF ApprovedInv
    <3> QED BY <2>3, <3>1, <3>2
  <2> QED BY <2>1, <2>2, <2>4 DEF ApprovedInv, FreshOK, Guarded
<1>3. CASE UNCHANGED vars
  BY <1>3 DEF vars, ApprovedInv, FreshOK, Guarded
<1> QED BY <1>1, <1>2, <1>3 DEF Next

(***************************************************************************)
(* The heart of the argument: a tool that is about to change its row has   *)
(* the approval for the card of its message, the row still has the version *)
(* of that card, and so no earlier execution of the call changed it.       *)
(***************************************************************************)
LEMMA CommitIsFirst ==
    ASSUME Inv, NEW c \in Calls, NEW k \in RunIds, exec[c][k].at = "commit",
           version[Row(c)] = Expected(c, k), Change(c, k),
           call' = call, approved' = approved,
           \E v \in {0, version[Row(c)] + 1} : version' = [version EXCEPT ![Row(c)] = v]
    PROVE  /\ [call |-> c, version |-> version[Row(c)]] \in approved
           /\ \A b \in applied : b.call # c
           /\ applied' \subseteq approved'
           /\ \A a \in applied' :
                 version'[Row(a.call)'] = 0 \/ version'[Row(a.call)'] > a.version
<1> DEFINE a == exec[c][k].decision.card
<1> USE DEF Inv
<1>1. a \in approved /\ a.call = c /\ a \in Shown /\ a.version = version[Row(c)]
  BY DEF StageInv, StageOK, TypeOK, RowsOK, Expected
<1>2. a = [call |-> c, version |-> version[Row(c)]]
  BY <1>1 DEF Shown
<1>3. applied \subseteq Shown /\ \A b \in Shown : Row(b.call) \in Rows
  BY DEF TypeOK, RowsOK, Row, Shown
<1>4. version[Row(c)] \in Nat \ {0} /\ \A r \in Rows : version[r] \in Nat
  BY <1>1, <1>3 DEF TypeOK, RowsOK, Shown
<1>5. ASSUME NEW b \in applied PROVE b.call # c
  <2>1. b \in approved /\ b \in Shown
    BY <1>3, <1>5 DEF AppliedInv
  <2>2. b.call = c => b = a
    BY <1>1, <2>1 DEF ApprovedInv
  <2>3. version[Row(b.call)] = 0 \/ version[Row(b.call)] > b.version
    BY <1>5 DEF AppliedInv
  <2> QED BY <1>1, <1>4, <2>2, <2>3
<1>6. applied' = applied \cup {a}
  BY <1>2 DEF Change
<1>7. ASSUME NEW b \in applied'
      PROVE  version'[Row(b.call)] = 0 \/ version'[Row(b.call)] > b.version
  <2>1. version'[Row(c)] = 0 \/ version'[Row(c)] = version[Row(c)] + 1
    BY <1>1, <1>3 DEF TypeOK, RowsOK
  <2>2. b \in Shown /\ Row(b.call) \in Rows
    BY <1>1, <1>3, <1>6
  <2>3. CASE b = a
    BY <1>1, <1>4, <2>1, <2>3
  <2>4. CASE b \in applied /\ Row(b.call) = Row(c)
    BY <1>4, <2>1, <2>2, <2>4 DEF AppliedInv, Shown
  <2>5. CASE b \in applied /\ Row(b.call) # Row(c)
    BY <1>3, <2>2, <2>5 DEF AppliedInv, TypeOK, RowsOK
  <2> QED BY <1>6, <2>3, <2>4, <2>5
<1> QED BY <1>1, <1>2, <1>5, <1>6, <1>7 DEF AppliedInv, Row

LEMMA StepApplied == ASSUME Inv, [Next]_vars PROVE AppliedInv'
<1> USE DEF Inv
<1>1. ASSUME NEW m \in Messages, NodeStep(m) PROVE AppliedInv'
  <2>1. UNCHANGED <<call, rowVars>> /\ approved \subseteq approved'
    BY <1>1 DEF NodeStep, RunTools, AnswerCard, NodeStops, Crash, Finish, StartRun
  <2> QED BY <2>1 DEF AppliedInv, Row
<1>2. ASSUME NEW c \in Calls, NEW k \in RunIds, ToolStep(c, k) PROVE AppliedInv'
  <2>1. CASE Create(c, k)
    <3>1. \A d \in Calls : inserted'[d] <= 1
      BY <2>1 DEF Create, AppliedInv, TypeOK, RowsOK
    <3> QED BY <2>1, <3>1 DEF Create, AppliedInv, Row
  <2>2. ASSUME exec[c][k].at = "commit", version[Row(c)] = Expected(c, k), Change(c, k),
               UNCHANGED <<call, inserted, approved>>,
               \E v \in {0, version[Row(c)] + 1} : version' = [version EXCEPT ![Row(c)] = v]
        PROVE  AppliedInv'
    BY <2>2, CommitIsFirst DEF AppliedInv
  <2>3. CASE UNCHANGED <<call, version, inserted, applied, approved>>
    BY <2>3 DEF AppliedInv, Row
  <2>4. CASE UpdateExpense(c, k)
    BY <2>2, <2>3, <2>4 DEF UpdateExpense
  <2>5. CASE UpdateSchedule(c, k)
    BY <2>2, <2>3, <2>5 DEF UpdateSchedule
  <2>6. CASE DeleteRow(c, k)
    BY <2>2, <2>3, <2>6 DEF DeleteRow
  <2> QED BY <1>2, <2>1, <2>3, <2>4, <2>5, <2>6 DEF ToolStep, DatabaseFails, ReadRow,
        GetDecision, Interrupt, ReadUpdated, ReadUnchanged
<1>3. CASE UNCHANGED vars
  BY <1>3 DEF vars, AppliedInv, Row
<1> QED BY <1>1, <1>2, <1>3 DEF Next

LEMMA InitInv == Init /\ ~Batches => Inv
<1> SUFFICES ASSUME Init, ~Batches PROVE Inv
  OBVIOUS
<1>1. TypeOK
  <2>1. At("off", 0, None) \in ExecState /\ At("off", 0, None).at = "off"
    BY LocalTypes DEF Stages
  <2>2. Scratchpad(0, <<>>, None) \in PadState
    <3>1. <<>> \in Seq(Decision)
      OBVIOUS
    <3> QED BY <3>1 DEF Scratchpad, PadState
  <2>3. PadOK /\ ExecOK
    BY <2>1, <2>2 DEF Init, PadOK, ExecOK
  <2> QED BY <2>3, ToolsAssumption DEF Init, TypeOK, RowsOK, NodesOK, PadOK, ExecOK
<1>2. OneGuarded /\ CardInv /\ ApprovedInv /\ AppliedInv
  BY ToolsAssumption, PadTypes DEF Init, OneGuarded, CardInv, ApprovedInv, AppliedInv, Guarded
<1>3. PadInv /\ StageInv
  BY LocalTypes DEF Init, PadInv, StageInv, StageOK
<1> QED BY <1>1, <1>2, <1>3 DEF Inv

THEOREM InvHolds == ASSUME ~Batches PROVE Spec => []Inv
<1>1. Inv /\ [Next]_vars => Inv'
  BY StepTypes, StepOneGuarded, StepCard, StepPad, StepStage, StepApproved, StepApplied DEF Inv
<1> QED BY InitInv, <1>1, PTL DEF Spec

(* Every reachable state has its type (run tools_race).                    *)
THEOREM TypeCorrect == ASSUME ~Batches PROVE Spec => []TypeOK
<1>1. Inv => TypeOK
  BY DEF Inv
<1> QED BY InvHolds, <1>1, PTL

(* Replays, retries and tools left running behind a timeout insert one row *)
(* for a call and change its row once (run tools_race).                    *)
THEOREM OncePerCallHolds == ASSUME ~Batches PROVE Spec => []OncePerCall
<1>1. Inv => OncePerCall
  BY DEF Inv, OncePerCall, AppliedInv, ApprovedInv
<1> QED BY InvHolds, <1>1, PTL

(* What is changed was approved, for the version it had (run tools_race).  *)
THEOREM ApprovedOnlyHolds == ASSUME ~Batches PROVE Spec => []ApprovedOnly
<1>1. Inv => ApprovedOnly
  BY DEF Inv, ApprovedOnly, AppliedInv
<1> QED BY InvHolds, <1>1, PTL

(***************************************************************************)
(* What the results say.  The versions a tool has seen, a card shows and   *)
(* an approval names are behind the row or the version it has: a version   *)
(* that is not the approved one will never be it again.                    *)
(***************************************************************************)
Past(r, v)   == version[r] = 0 \/ v <= version[r]
Overtaken(a) == version[Row(a.call)] = 0 \/ version[Row(a.call)] > a.version

SeenInv ==
    /\ \A c \in Calls, k \in RunIds : exec[c][k].at = "ask" => Past(Row(c), exec[c][k].seen)
    /\ \A m \in Messages : card[m] # None => Past(Row(card[m].call), card[m].version)
    /\ \A a \in approved : Past(Row(a.call), a.version)

(* The approved change of c was not made and can no longer be.             *)
Superseded(c) == \E a \in approved \ applied : a.call = c /\ Overtaken(a)

ResultOK(c, e) ==
    /\ e.at = "reread" => Applied(c)
    /\ e.result \in {"updated", "already_applied", "deleted"} => Applied(c)
    /\ e.result \in {"created", "duplicated"} => inserted[c] = 1
    /\ call[c].tool = "update_expense" /\ e.result = "stale" => Superseded(c)

(* The log of operations is written and kept with the change itself.       *)
ResultInv ==
    /\ \A c \in Calls, k \in RunIds : ResultOK(c, exec[c][k])
    /\ \A c \in Calls : call[c].tool = "update_expense" => (Applied(c) <=> operations[c] # 0)
    /\ \A m \in Messages : finished[m] => runs[m] \in RunIds

(* A version only goes up or to 0, and never comes back from 0.            *)
LEMMA VersionsGrow ==
    ASSUME Inv, [Next]_vars
    PROVE  /\ call' = call /\ approved \subseteq approved'
           /\ \A r \in Rows : \/ version'[r] \in {version[r], 0}
                              \/ version[r] # 0 /\ version'[r] = version[r] + 1
<1> USE ToolsAssumption DEF Inv
<1>1. ASSUME NEW m \in Messages, NodeStep(m)
      PROVE  call' = call /\ approved \subseteq approved' /\ version' = version
  BY <1>1 DEF NodeStep, StartRun, RunTools, AnswerCard, NodeStops, Crash, Finish
<1>2. ASSUME NEW c \in Calls, NEW k \in RunIds, ToolStep(c, k)
      PROVE  /\ call' = call /\ approved \subseteq approved'
             /\ \/ version' = version
                \/ /\ version[Row(c)] # 0
                   /\ \E v \in {0, version[Row(c)] + 1} : version' = [version EXCEPT ![Row(c)] = v]
  <2>1. call' = call /\ approved' = approved
    BY <1>2 DEF ToolStep, DatabaseFails, Create, ReadRow, GetDecision, Interrupt,
                UpdateExpense, UpdateSchedule, ReadUpdated, DeleteRow, ReadUnchanged
  <2>2. exec[c][k].at = "commit" => Expected(c, k) # 0
    BY DEF StageInv, StageOK, TypeOK, RowsOK, Shown, Expected
  <2>3. CASE UpdateExpense(c, k)
    BY <2>1, <2>2, <2>3 DEF UpdateExpense
  <2>4. CASE UpdateSchedule(c, k)
    BY <2>1, <2>2, <2>4 DEF UpdateSchedule
  <2>5. CASE DeleteRow(c, k)
    BY <2>1, <2>2, <2>5 DEF DeleteRow
  <2>6. CASE UNCHANGED version
    BY <2>1, <2>6
  <2> QED BY <1>2, <2>3, <2>4, <2>5, <2>6 DEF ToolStep, DatabaseFails, Create, ReadRow,
        GetDecision, Interrupt, ReadUpdated, ReadUnchanged
<1>3. version \in [Rows -> Nat]
  BY DEF TypeOK, RowsOK
<1>4. CASE UNCHANGED vars
  BY <1>4 DEF vars
<1>5. CASE \E m \in Messages : NodeStep(m)
  BY <1>1, <1>5
<1>6. CASE \E c \in Calls, k \in RunIds : ToolStep(c, k)
  <2>1. PICK c \in Calls, k \in RunIds : ToolStep(c, k)
    BY <1>6
  <2> QED BY <1>2, <1>3, <2>1
<1> QED BY <1>4, <1>5, <1>6 DEF Next

LEMMA PastStays ==
    ASSUME Inv, [Next]_vars
    PROVE  /\ \A c \in Calls, v \in Nat : Past(Row(c), v) => Past(Row(c), v)'
           /\ \A a \in Shown : Overtaken(a) => Overtaken(a)'
<1>1. version \in [Rows -> Nat] /\ \A c \in Calls : Row(c) \in Rows /\ Row(c)' = Row(c)
  BY VersionsGrow DEF Inv, TypeOK, RowsOK, Row
<1>2. ASSUME NEW c \in Calls, NEW v \in Nat
      PROVE  /\ Past(Row(c), v) => Past(Row(c), v)'
             /\ version[Row(c)] = 0 \/ version[Row(c)] > v =>
                  version'[Row(c)] = 0 \/ version'[Row(c)] > v
  <2>1. \/ version'[Row(c)] \in {version[Row(c)], 0}
        \/ version[Row(c)] # 0 /\ version'[Row(c)] = version[Row(c)] + 1
    BY <1>1, VersionsGrow
  <2> QED BY <1>1, <2>1 DEF Past
<1>3. \A a \in Shown : a.call \in Calls /\ a.version \in Nat
  BY DEF Shown
<1> QED BY <1>1, <1>2, <1>3 DEF Overtaken

LEMMA StepSeen == ASSUME Inv, SeenInv, [Next]_vars PROVE SeenInv'
<1> USE ToolsAssumption DEF Inv
<1>1. \A a \in Shown : a.call \in Calls /\ a.version \in Nat
  BY DEF Shown
<1>2. ASSUME NEW a \in Shown, Past(Row(a.call), a.version)
      PROVE  Past(Row(a.call), a.version)'
  BY <1>1, <1>2, PastStays
<1>3. ASSUME NEW m \in Messages, NodeStep(m) PROVE SeenInv'
  <2>1. \A n \in Messages : card'[n] \in {card[n], None}
    BY <1>3 DEF NodeStep, StartRun, RunTools, AnswerCard, NodeStops, Crash, Finish,
                TypeOK, NodesOK
  <2>2. \A a \in approved' : a \in approved \/ (a = card[m] /\ card[m] # None)
    <3>1. CASE AnswerCard(m)
      <4>1. card[m] # None /\ (approved' = approved \/ approved' = approved \cup {card[m]})
        BY <3>1 DEF AnswerCard
      <4> QED BY <4>1
    <3>2. CASE approved' = approved
      BY <3>2
    <3> QED BY <1>3, <3>1, <3>2 DEF NodeStep, RunTools, NodeStops, Crash, Finish
  <2>3. ASSUME NEW c \in Calls, NEW k \in RunIds, exec'[c][k].at = "ask"
        PROVE  exec'[c][k] = exec[c][k]
    <3>1. ASSUME NEW f \in Decision \cup {None}, StartRun(m, f)
          PROVE  exec'[c][k] = exec[c][k]
      <4>1. \/ \E s \in {"read", "insert"} : exec'[c][k] = At(s, 0, None)
            \/ exec'[c][k] = exec[c][k]
        BY <3>1, Started
      <4> QED BY <2>3, <4>1, LocalTypes
    <3>2. CASE RunTools(m)
      BY <3>1, <3>2 DEF RunTools
    <3>3. CASE AnswerCard(m)
      <4>1. PICK action \in {"approve", "cancel"} :
                StartRun(m, [action |-> action, card |-> card[m]])
        BY <3>3 DEF AnswerCard
      <4>2. card[m] \in Shown
        BY <3>3 DEF AnswerCard, TypeOK, NodesOK
      <4>3. [action |-> action, card |-> card[m]] \in Decision
        BY <4>2 DEF Decision
      <4> QED BY <3>1, <4>1, <4>3
    <3>4. CASE Crash(m)
      BY <2>3, <3>4, LocalTypes DEF Crash
    <3>5. CASE NodeStops(m) \/ Finish(m)
      BY <3>5 DEF NodeStops, Finish
    <3> QED BY <1>3, <3>2, <3>3, <3>4, <3>5 DEF NodeStep
  <2>4. ASSUME NEW c \in Calls, NEW k \in RunIds, exec'[c][k].at = "ask"
        PROVE  Past(Row(c), exec[c][k].seen)'
    <3>1. exec[c][k].at = "ask" /\ exec'[c][k].seen = exec[c][k].seen /\ exec[c][k].seen \in Nat
      BY <2>3, <2>4 DEF TypeOK, ExecState
    <3>2. Past(Row(c), exec[c][k].seen)
      BY <3>1 DEF SeenInv
    <3> QED BY <3>1, <3>2, PastStays DEF Past
  <2>5. ASSUME NEW n \in Messages, card'[n] # None
        PROVE  Past(Row(card[n].call), card[n].version)'
    <3>1. card'[n] = card[n] /\ card[n] \in Shown /\ Past(Row(card[n].call), card[n].version)
      BY <2>1, <2>5 DEF SeenInv, TypeOK, NodesOK
    <3> QED BY <1>2, <3>1
  <2>6. ASSUME NEW a \in approved' PROVE Past(Row(a.call), a.version)'
    <3>1. a \in Shown /\ Past(Row(a.call), a.version)
      BY <2>2, <2>6 DEF SeenInv, TypeOK, RowsOK, NodesOK
    <3> QED BY <1>2, <3>1
  <2> QED BY <2>4, <2>5, <2>6 DEF SeenInv
<1>4. ASSUME NEW c \in Calls, NEW k \in RunIds, ToolStep(c, k) PROVE SeenInv'
  <2> USE <1>4
  <2>1. approved' = approved
    BY DEF ToolStep, DatabaseFails, Create, ReadRow, GetDecision, Interrupt,
           UpdateExpense, UpdateSchedule, ReadUpdated, DeleteRow, ReadUnchanged
  <2>2. PICK e : LocalOK(c, k, e) /\ Put(c, k, e)
    BY Moved
  <2>3. /\ exec'[c][k] = e
        /\ \A d \in Calls, l \in RunIds : <<d, l>> # <<c, k>> => exec'[d][l] = exec[d][l]
    BY <2>2, PutEntries DEF TypeOK, ExecOK
  <2>4. e.at = "ask" => e.seen = version[Row(c)] /\ version' = version /\ call' = call
    <3>1. CASE ReadRow(c, k)
      BY <2>3, <3>1, PutEntries, LocalTypes DEF ReadRow, Return, TypeOK, ExecOK
    <3>2. CASE ~ReadRow(c, k)
      <4>1. e.at = "ask" => exec[c][k].at = "read"
        BY <2>2 DEF LocalOK
      <4>2. exec[c][k].at = "read" => DatabaseFails(c, k)
        BY <3>2 DEF ToolStep, Create, GetDecision, Interrupt, UpdateExpense, UpdateSchedule,
                    ReadUpdated, DeleteRow, ReadUnchanged
      <4>3. DatabaseFails(c, k) => e.at = "returned"
        BY <2>3, PutEntries, LocalTypes DEF DatabaseFails, Return, TypeOK, ExecOK
      <4> QED BY <4>1, <4>2, <4>3
    <3> QED BY <3>1, <3>2
  <2>5. version[Row(c)] \in Nat
    BY DEF TypeOK, RowsOK, Row
  <2>6. ASSUME NEW d \in Calls, NEW l \in RunIds, exec'[d][l].at = "ask"
        PROVE  Past(Row(d), exec[d][l].seen)'
    <3>1. CASE <<d, l>> = <<c, k>>
      BY <2>3, <2>4, <2>5, <2>6, <3>1 DEF Past, Row
    <3>2. CASE <<d, l>> # <<c, k>>
      <4>1. exec'[d][l] = exec[d][l] /\ exec[d][l].seen \in Nat
        BY <2>3, <3>2 DEF TypeOK, ExecState
      <4>2. Past(Row(d), exec[d][l].seen)
        BY <2>6, <4>1 DEF SeenInv
      <4> QED BY <4>1, <4>2, PastStays DEF Past
    <3> QED BY <3>1, <3>2
  <2>7. ASSUME NEW n \in Messages, card'[n] # None
        PROVE  Past(Row(card[n].call), card[n].version)'
    <3>1. CASE card'[n] = card[n]
      <4>1. card[n] \in Shown /\ Past(Row(card[n].call), card[n].version)
        BY <2>7, <3>1 DEF SeenInv, TypeOK, NodesOK
      <4> QED BY <1>2, <3>1, <4>1
    <3>2. CASE card'[n] # card[n]
      <4> DEFINE a == [call |-> c, version |-> exec[c][k].seen]
      <4>1. a.call = c /\ a.version = exec[c][k].seen
        OBVIOUS
      <4> HIDE DEF a
      <4>2. Interrupt(c, k)
        BY <3>2 DEF ToolStep, DatabaseFails, Create, ReadRow, GetDecision,
            UpdateExpense, UpdateSchedule, ReadUpdated, DeleteRow, ReadUnchanged
      <4>3. exec[c][k].at = "ask" /\ card' = [card EXCEPT ![MessageOf[c]] = a]
        BY <3>2, <4>2 DEF Interrupt, a
      <4>4. card'[n] = a
        BY <3>2, <4>3 DEF TypeOK, NodesOK
      <4>5. Past(Row(c), exec[c][k].seen) /\ exec[c][k].seen \in Nat
        BY <4>3 DEF SeenInv, TypeOK, ExecState
      <4>6. version' = version /\ call' = call
        BY <4>2 DEF Interrupt
      <4>7. Row(c)' = Row(c)
        BY <4>6 DEF Row
      <4> QED BY <4>1, <4>4, <4>5, <4>6, <4>7 DEF Past, Row
    <3> QED BY <3>1, <3>2
  <2>8. ASSUME NEW a \in approved' PROVE Past(Row(a.call), a.version)'
    <3>1. a \in Shown /\ Past(Row(a.call), a.version)
      BY <2>1, <2>8 DEF SeenInv, TypeOK, RowsOK
    <3> QED BY <1>2, <3>1
  <2> QED BY <2>6, <2>7, <2>8 DEF SeenInv
<1>5. CASE UNCHANGED vars
  BY <1>5 DEF vars, SeenInv, Past, Row
<1> QED BY <1>3, <1>4, <1>5 DEF Next

(* What a call has reached it keeps.                                       *)
LEMMA ResultStays ==
    ASSUME Inv, SeenInv, [Next]_vars, NEW c \in Calls
    PROVE  /\ Applied(c) => Applied(c)'
           /\ inserted[c] = 1 => inserted'[c] = 1
           /\ Superseded(c) => Superseded(c)'
           /\ call'[c].tool = call[c].tool
<1> USE ToolsAssumption DEF Inv
<1>1. ASSUME NEW m \in Messages, NodeStep(m) PROVE UNCHANGED rowVars
  BY <1>1 DEF NodeStep, StartRun, RunTools, AnswerCard, NodeStops, Crash, Finish
<1>2. ASSUME NEW d \in Calls, NEW k \in RunIds, ToolStep(d, k)
      PROVE  /\ inserted[c] = 1 => inserted'[c] = 1
             /\ \/ applied' = applied
                \/ Change(d, k) /\ version[Row(d)] # 0
  <2>1. inserted[c] = 1 => inserted'[c] = 1
    <3>1. CASE Create(d, k)
      BY <3>1 DEF Create, TypeOK, RowsOK
    <3> QED BY <1>2, <3>1 DEF ToolStep, DatabaseFails, ReadRow, GetDecision, Interrupt,
          UpdateExpense, UpdateSchedule, ReadUpdated, DeleteRow, ReadUnchanged
  <2>2. exec[d][k].at = "commit" => Expected(d, k) # 0
    BY DEF StageInv, StageOK, TypeOK, RowsOK, Shown, Expected
  <2>3. applied' = applied \/ (Change(d, k) /\ version[Row(d)] # 0)
    <3>1. CASE UpdateExpense(d, k)
      BY <2>2, <3>1 DEF UpdateExpense
    <3>2. CASE UpdateSchedule(d, k)
      BY <2>2, <3>2 DEF UpdateSchedule
    <3>3. CASE DeleteRow(d, k)
      BY <2>2, <3>3 DEF DeleteRow
    <3> QED BY <1>2, <3>1, <3>2, <3>3 DEF ToolStep, DatabaseFails, Create, ReadRow,
          GetDecision, Interrupt, ReadUpdated, ReadUnchanged
  <2> QED BY <2>1, <2>3
<1>3. \/ UNCHANGED rowVars
      \/ \E d \in Calls, k \in RunIds : ToolStep(d, k)
  BY <1>1 DEF Next, vars
<1>4. inserted[c] = 1 => inserted'[c] = 1
  BY <1>2, <1>3
<1>5. \/ applied' = applied
      \/ \E d \in Calls, k \in RunIds : Change(d, k) /\ version[Row(d)] # 0
  BY <1>2, <1>3
<1>6. Applied(c) => Applied(c)'
  BY <1>5 DEF Applied, Change
<1>7. ASSUME NEW a \in approved \ applied, Overtaken(a) PROVE a \notin applied'
  <2>1. a \in Shown
    BY DEF TypeOK, RowsOK
  <2>2. ASSUME NEW d \in Calls, NEW k \in RunIds, Change(d, k), version[Row(d)] # 0
        PROVE  a \notin applied'
    <3>1. a = [call |-> d, version |-> version[Row(d)]] =>
             a.call = d /\ a.version = version[Row(d)]
      OBVIOUS
    <3>2. version[Row(d)] \in Nat
      BY DEF TypeOK, RowsOK, Row
    <3>3. a # [call |-> d, version |-> version[Row(d)]]
      BY <1>7, <2>2, <3>1, <3>2 DEF Overtaken
    <3> QED BY <2>2, <3>3 DEF Change
  <2> QED BY <1>5, <2>2
<1>8. Superseded(c) => Superseded(c)'
  <2>1. SUFFICES ASSUME Superseded(c) PROVE Superseded(c)'
    OBVIOUS
  <2>2. PICK a \in approved \ applied : a.call = c /\ Overtaken(a)
    BY <2>1 DEF Superseded
  <2>3. a \in Shown /\ a \in approved'
    BY VersionsGrow DEF TypeOK, RowsOK
  <2> QED BY <1>7, <2>2, <2>3, PastStays DEF Superseded
<1>9. call' = call
  BY VersionsGrow
<1> QED BY <1>4, <1>6, <1>8, <1>9

(* One approval a message: a superseded change is not the applied one.     *)
LEMMA SupersededIsNotApplied ==
    ASSUME Inv, NEW c \in Calls, Superseded(c) PROVE ~Applied(c)
<1>1. PICK a \in approved \ applied : a.call = c
  BY DEF Superseded
<1>2. \A b \in applied : b \in approved /\ (b.call = c => b = a)
  BY <1>1 DEF Inv, ApprovedInv, AppliedInv
<1> QED BY <1>1, <1>2 DEF Applied

(* What a tool step leaves for its own tool.                               *)
LEMMA ToolResult ==
    ASSUME Inv, SeenInv, ResultInv, NEW c \in Calls, NEW k \in RunIds, ToolStep(c, k)
    PROVE  ResultOK(c, exec[c][k])'
<1> USE ToolsAssumption DEF Inv
<1>1. \A e : Put(c, k, e) => exec'[c][k] = e
  BY PutEntries DEF TypeOK, ExecOK
<1>2. /\ \A s, n, d : /\ At(s, n, d).at = s
                      /\ At(s, n, d).result \notin Results
      /\ \A r : Returned(r).at = "returned" /\ Returned(r).result = r
  BY DEF At, Returned
<1>3. call' = call
  BY DEF ToolStep, DatabaseFails, Create, ReadRow, GetDecision, Interrupt,
         UpdateExpense, UpdateSchedule, ReadUpdated, DeleteRow, ReadUnchanged
<1>4. ASSUME NEW s, NEW n, NEW d, Put(c, k, At(s, n, d)), s # "reread"
      PROVE  ResultOK(c, exec[c][k])'
  <2>1. exec'[c][k].at = s /\ exec'[c][k].result \notin Results
    BY <1>1, <1>2, <1>4
  <2> QED BY <1>4, <2>1 DEF ResultOK, Results
<1>5. ASSUME NEW r \in {"cancelled", "error", "not_found", "already_deleted"}, Return(c, k, r)
      PROVE  ResultOK(c, exec[c][k])'
  <2>1. exec'[c][k].at = "returned" /\ exec'[c][k].result = r
    BY <1>1, <1>2, <1>5 DEF Return
  <2> QED BY <1>5, <2>1 DEF ResultOK
<1>6. ASSUME NEW r \in {"updated", "already_applied", "deleted"}, Return(c, k, r), Applied(c)'
      PROVE  ResultOK(c, exec[c][k])'
  <2>1. exec'[c][k].at = "returned" /\ exec'[c][k].result = r
    BY <1>1, <1>2, <1>6 DEF Return
  <2> QED BY <1>6, <2>1 DEF ResultOK
<1>7. ASSUME NEW r \in {"created", "duplicated"}, Return(c, k, r), inserted'[c] = 1
      PROVE  ResultOK(c, exec[c][k])'
  <2>1. exec'[c][k].at = "returned" /\ exec'[c][k].result = r
    BY <1>1, <1>2, <1>7 DEF Return
  <2> QED BY <1>7, <2>1 DEF ResultOK
<1>8. ASSUME Return(c, k, "stale"), call[c].tool = "update_expense" => Superseded(c)'
      PROVE  ResultOK(c, exec[c][k])'
  <2>1. exec'[c][k].at = "returned" /\ exec'[c][k].result = "stale"
    BY <1>1, <1>2, <1>8 DEF Return
  <2> QED BY <1>3, <1>8, <2>1 DEF ResultOK
<1>9. ASSUME Change(c, k) PROVE Applied(c)'
  <2>1. [call |-> c, version |-> version[Row(c)]] \in applied'
    BY <1>9 DEF Change
  <2> QED BY <2>1 DEF Applied
<1>10. CASE DatabaseFails(c, k)
  BY <1>5, <1>10 DEF DatabaseFails
<1>11. CASE Create(c, k)
  <2>1. inserted'[c] = 1
    BY <1>11 DEF Create, TypeOK, RowsOK
  <2> QED BY <1>5, <1>7, <1>11, <2>1 DEF Create, ReturnCommitted
<1>12. CASE ReadRow(c, k)
  BY <1>4, <1>5, <1>12 DEF ReadRow
<1>13. CASE GetDecision(c, k)
  BY <1>4, <1>5, <1>13, Decided DEF Decide
<1>14. CASE Interrupt(c, k)
  BY <1>4, <1>14 DEF Interrupt, To
<1>15. CASE UpdateExpense(c, k)
  <2>1. CASE operations[c] # 0
    <3>1. Applied(c) /\ applied' = applied
      BY <1>15, <2>1 DEF UpdateExpense, ResultInv
    <3>2. Applied(c)'
      BY <3>1 DEF Applied
    <3> QED BY <1>5, <1>6, <1>15, <2>1, <3>2 DEF UpdateExpense
  <2>2. CASE operations[c] = 0 /\ version[Row(c)] = Expected(c, k)
    BY <1>5, <1>6, <1>9, <1>15, <2>2 DEF UpdateExpense, ReturnCommitted
  <2>3. CASE operations[c] = 0 /\ version[Row(c)] # Expected(c, k) /\ version[Row(c)] # 0
    <3> DEFINE a == exec[c][k].decision.card
    <3>1. a \in approved /\ a.call = c /\ a \in Shown /\ a.version = Expected(c, k)
      BY <1>15 DEF UpdateExpense, StageInv, StageOK, TypeOK, RowsOK, Expected
    <3>2. Past(Row(c), a.version) /\ a.version \in Nat /\ version[Row(c)] \in Nat
      BY <3>1 DEF SeenInv, Shown, TypeOK, RowsOK, Row
    <3>3. Overtaken(a)
      BY <2>3, <3>1, <3>2 DEF Past, Overtaken
    <3>4. call[c].tool = "update_expense" /\ UNCHANGED <<version, applied, approved>>
          /\ Return(c, k, "stale")
      BY <1>15, <2>3 DEF UpdateExpense
    <3>5. ~Applied(c)
      BY <2>3, <3>4 DEF ResultInv
    <3>6. a \notin applied
      BY <3>1, <3>5 DEF Applied
    <3> HIDE DEF a
    <3>7. \A b : b \in approved \ applied /\ b.call = c /\ Overtaken(b) => Superseded(c)'
      BY <1>3, <3>4 DEF Overtaken, Row, Superseded
    <3>8. Superseded(c)'
      BY <3>1, <3>3, <3>6, <3>7
    <3> QED BY <1>8, <3>4, <3>8
  <2>4. CASE operations[c] = 0 /\ version[Row(c)] # Expected(c, k) /\ version[Row(c)] = 0
    BY <1>5, <1>15, <2>4 DEF UpdateExpense
  <2> QED BY <2>1, <2>2, <2>3, <2>4
<1>16. CASE UpdateSchedule(c, k)
  <2>1. CASE version[Row(c)] = Expected(c, k)
    <3>1. Applied(c)' /\ (To(c, k, "reread") \/ Return(c, k, "error"))
      BY <1>9, <1>16, <2>1 DEF UpdateSchedule
    <3>2. CASE To(c, k, "reread")
      <4>1. exec'[c][k].at = "reread" /\ exec'[c][k].result \notin Results
        BY <1>1, <1>2, <3>2 DEF To
      <4> QED BY <3>1, <4>1 DEF ResultOK, Results
    <3> QED BY <1>5, <3>1, <3>2
  <2>2. CASE version[Row(c)] # Expected(c, k)
    BY <1>4, <1>16, <2>2 DEF UpdateSchedule, To
  <2> QED BY <2>1, <2>2
<1>17. CASE ReadUpdated(c, k)
  <2>1. Applied(c) /\ applied' = applied
    BY <1>17 DEF ReadUpdated, ResultInv, ResultOK
  <2>2. Applied(c)'
    BY <2>1 DEF Applied
  <2> QED BY <1>5, <1>6, <1>17, <2>2 DEF ReadUpdated
<1>18. CASE DeleteRow(c, k)
  <2>1. CASE version[Row(c)] = Expected(c, k)
    BY <1>5, <1>6, <1>9, <1>18, <2>1 DEF DeleteRow, ReturnCommitted
  <2>2. CASE version[Row(c)] # Expected(c, k)
    BY <1>4, <1>18, <2>2 DEF DeleteRow, To
  <2> QED BY <2>1, <2>2
<1>19. CASE ReadUnchanged(c, k)
  <2>1. call[c].tool # "update_expense"
    BY <1>19 DEF ReadUnchanged, StageInv, StageOK
  <2> QED BY <1>5, <1>8, <1>19, <2>1 DEF ReadUnchanged
<1> QED BY <1>10, <1>11, <1>12, <1>13, <1>14, <1>15, <1>16, <1>17, <1>18, <1>19 DEF ToolStep

LEMMA StepResult == ASSUME Inv, SeenInv, ResultInv, [Next]_vars PROVE ResultInv'
<1> USE ToolsAssumption DEF Inv
<1>1. ASSUME NEW d \in Calls, NEW l \in RunIds,
             \/ exec'[d][l] = exec[d][l]
             \/ exec'[d][l].at # "reread" /\ exec'[d][l].result \notin Results
      PROVE  ResultOK(d, exec[d][l])'
  <2>1. CASE exec'[d][l] = exec[d][l]
    <3>1. ResultOK(d, exec[d][l])
      BY DEF ResultInv
    <3> QED BY <2>1, <3>1, ResultStays DEF ResultOK
  <2>2. CASE exec'[d][l].at # "reread" /\ exec'[d][l].result \notin Results
    BY <2>2 DEF ResultOK, Results
  <2> QED BY <1>1, <2>1, <2>2
<1>2. \A s, n, d : At(s, n, d).at = s /\ At(s, n, d).result \notin Results
  BY DEF At
<1>3. ASSUME NEW m \in Messages, NodeStep(m) PROVE ResultInv'
  <2>1. UNCHANGED <<call, rowVars>>
    BY <1>3 DEF NodeStep, RunTools, AnswerCard, NodeStops, Crash, Finish, StartRun
  <2>2. ASSUME NEW f \in Decision \cup {None}, StartRun(m, f),
               NEW d \in Calls, NEW l \in RunIds
        PROVE  ResultOK(d, exec[d][l])'
    <3>1. \/ \E s \in {"read", "insert"} : exec'[d][l] = At(s, 0, None)
          \/ exec'[d][l] = exec[d][l]
      BY <2>2, Started
    <3> QED BY <1>1, <1>2, <3>1
  <2>3. ASSUME NEW d \in Calls, NEW l \in RunIds PROVE ResultOK(d, exec[d][l])'
    <3>1. CASE RunTools(m)
      BY <2>2, <3>1 DEF RunTools
    <3>2. CASE AnswerCard(m)
      <4>1. PICK action \in {"approve", "cancel"} :
                StartRun(m, [action |-> action, card |-> card[m]])
        BY <3>2 DEF AnswerCard
      <4>2. card[m] \in Shown
        BY <3>2 DEF AnswerCard, TypeOK, NodesOK
      <4>3. [action |-> action, card |-> card[m]] \in Decision
        BY <4>2 DEF Decision
      <4> QED BY <2>2, <4>1, <4>3
    <3>3. CASE Crash(m)
      <4>1. exec'[d][l] = exec[d][l] \/ exec'[d][l] = At("dead", 0, None)
        BY <3>3 DEF Crash
      <4> QED BY <1>1, <1>2, <4>1
    <3>4. CASE exec' = exec
      BY <1>1, <3>4
    <3> QED BY <1>3, <3>1, <3>2, <3>3, <3>4 DEF NodeStep, NodeStops, Finish
  <2>4. ASSUME NEW n \in Messages, finished'[n] PROVE runs'[n] \in RunIds
    <3>1. runs'[n] = runs[n] /\ (finished[n] \/ live[n])
      <4>1. CASE RunTools(m) \/ AnswerCard(m)
        BY <2>4, <4>1 DEF RunTools, AnswerCard, StartRun, TypeOK, NodesOK
      <4>2. CASE NodeStops(m) \/ Crash(m)
        BY <2>4, <4>2 DEF NodeStops, Crash
      <4>3. CASE Finish(m)
        BY <2>4, <4>3 DEF Finish, TypeOK, NodesOK
      <4> QED BY <1>3, <4>1, <4>2, <4>3 DEF NodeStep
    <3> QED BY <3>1 DEF ResultInv, TypeOK, NodesOK
  <2>5. \A d \in Calls : Applied(d)' <=> Applied(d)
    BY <2>1 DEF Applied
  <2> QED BY <2>1, <2>3, <2>4, <2>5 DEF ResultInv
<1>4. ASSUME NEW c \in Calls, NEW k \in RunIds, ToolStep(c, k) PROVE ResultInv'
  <2> USE <1>4
  <2>1. PICK e : LocalOK(c, k, e) /\ Put(c, k, e)
    BY Moved
  <2>2. \A d \in Calls, l \in RunIds : <<d, l>> # <<c, k>> => exec'[d][l] = exec[d][l]
    BY <2>1, PutEntries DEF TypeOK, ExecOK
  <2>3. \A d \in Calls, l \in RunIds : ResultOK(d, exec[d][l])'
    BY <1>1, <2>2, ToolResult
  <2>4. UNCHANGED <<runs, finished, call>>
    BY DEF ToolStep, DatabaseFails, Create, ReadRow, GetDecision, Interrupt,
           UpdateExpense, UpdateSchedule, ReadUpdated, DeleteRow, ReadUnchanged
  <2>5. ASSUME NEW d \in Calls, call'[d].tool = "update_expense"
        PROVE  Applied(d)' <=> operations'[d] # 0
    <3>1. Applied(d) <=> operations[d] # 0
      BY <2>4, <2>5 DEF ResultInv
    <3>2. CASE UNCHANGED <<operations, applied>>
      BY <3>1, <3>2 DEF Applied
    <3>3. ASSUME call[c].tool # "update_expense", operations' = operations, Change(c, k)
          PROVE  Applied(d)' <=> operations'[d] # 0
      <4>1. d # c
        BY <2>4, <2>5, <3>3
      <4>2. Applied(d)' <=> Applied(d)
        BY <3>3, <4>1 DEF Change, Applied
      <4> QED BY <3>1, <3>3, <4>2
    <3>4. CASE UpdateExpense(c, k) /\ ~UNCHANGED <<operations, applied>>
      <4>1. /\ operations' = [operations EXCEPT ![c] = Expected(c, k)] /\ Change(c, k)
            /\ exec[c][k].at = "commit"
        BY <3>4 DEF UpdateExpense
      <4>2. Expected(c, k) # 0
        BY <4>1 DEF StageInv, StageOK, TypeOK, RowsOK, Shown, Expected
      <4>3. operations \in [Calls -> Nat]
        BY DEF TypeOK, RowsOK
      <4>4. CASE d = c
        <5>1. [call |-> c, version |-> version[Row(c)]] \in applied'
          BY <4>1 DEF Change
        <5>2. Applied(d)'
          BY <4>4, <5>1 DEF Applied
        <5> QED BY <4>1, <4>2, <4>3, <4>4, <5>2
      <4>5. CASE d # c
        <5>1. Applied(d)' <=> Applied(d)
          BY <4>1, <4>5 DEF Change, Applied
        <5> QED BY <3>1, <4>1, <4>3, <4>5, <5>1
      <4> QED BY <4>4, <4>5
    <3>5. CASE UpdateSchedule(c, k)
      BY <3>2, <3>3, <3>5 DEF UpdateSchedule
    <3>6. CASE DeleteRow(c, k)
      BY <3>2, <3>3, <3>6 DEF DeleteRow
    <3> QED BY <3>2, <3>4, <3>5, <3>6 DEF ToolStep, DatabaseFails, Create, ReadRow,
          GetDecision, Interrupt, ReadUpdated, ReadUnchanged
  <2> QED BY <2>3, <2>4, <2>5 DEF ResultInv
<1>5. CASE UNCHANGED vars
  BY <1>5 DEF vars, ResultInv, ResultOK, Superseded, Applied, Overtaken, Row
<1> QED BY <1>3, <1>4, <1>5 DEF Next

LEMMA InitResult == Init /\ ~Batches => SeenInv /\ ResultInv
<1> SUFFICES ASSUME Init, ~Batches PROVE SeenInv /\ ResultInv
  OBVIOUS
<1>1. \A c \in Calls, k \in RunIds : /\ exec[c][k].at = "off"
                                     /\ exec[c][k].result = None
  BY DEF Init, At
<1>2. None \notin Results
  BY ToolsAssumption
<1>3. SeenInv
  BY <1>1 DEF Init, SeenInv
<1>4. \A c \in Calls : ~Applied(c) /\ operations[c] = 0
  BY DEF Init, Applied
<1>5. \A m \in Messages : ~finished[m]
  BY DEF Init
<1> QED BY <1>1, <1>2, <1>3, <1>4, <1>5 DEF ResultInv, ResultOK, Results

THEOREM ResultHolds == ASSUME ~Batches PROVE Spec => [](Inv /\ SeenInv /\ ResultInv)
<1>1. Inv /\ SeenInv /\ ResultInv /\ [Next]_vars => (SeenInv /\ ResultInv)'
  BY StepSeen, StepResult
<1> QED BY InvHolds, InitResult, <1>1, PTL DEF Spec

(* What a finished call reports is the result of its tool in the last run. *)
LEMMA ReportedResult ==
    ASSUME Inv, ResultInv, NEW c \in Calls, Reported(c) # None
    PROVE  \E k \in RunIds : Reported(c) = exec[c][k].result
BY ToolsAssumption DEF Reported, ResultInv

(* What the user is told was done, was done, whichever run of the node     *)
(* reports it (run tools_race).                                            *)
THEOREM SuccessIsAppliedHolds == ASSUME ~Batches PROVE Spec => []SuccessIsApplied
<1>1. Inv /\ ResultInv => SuccessIsApplied
  <2> SUFFICES ASSUME Inv, ResultInv, NEW c \in Calls, Reported(c) \in Results
               PROVE  /\ Reported(c) \in {"updated", "already_applied", "deleted"} => Applied(c)
                      /\ Reported(c) \in {"created", "duplicated"} => inserted[c] = 1
    BY DEF SuccessIsApplied, Results
  <2>1. PICK k \in RunIds : Reported(c) = exec[c][k].result
    BY ReportedResult, ToolsAssumption
  <2> QED BY <2>1 DEF ResultInv, ResultOK
<1> QED BY ResultHolds, <1>1, PTL

(* A repeated update_expense does not take its own change for somebody     *)
(* else's: what it calls stale was never applied (run tools_race).         *)
THEOREM ReplayRecognisedHolds == ASSUME ~Batches PROVE Spec => []ReplayRecognised
<1>1. Inv /\ ResultInv => ReplayRecognised
  <2> SUFFICES ASSUME Inv, ResultInv, NEW c \in Calls,
                      call[c].tool = "update_expense", Reported(c) = "stale"
               PROVE  ~Applied(c)
    BY DEF ReplayRecognised
  <2>1. PICK k \in RunIds : Reported(c) = exec[c][k].result
    BY ReportedResult, ToolsAssumption DEF Results
  <2>2. Superseded(c)
    BY <2>1 DEF ResultInv, ResultOK
  <2> QED BY <2>2, SupersededIsNotApplied
<1> QED BY ResultHolds, <1>1, PTL

(***************************************************************************)
(* MutationTools implements ApprovedMutations: an answer approves a card,  *)
(* a commit changes a row, the first insert of a call inserts, and every   *)
(* other step is invisible (run tools_race).                               *)
(***************************************************************************)
LEMMA StepImplements ==
    ASSUME Inv, [Next]_vars PROVE [Abstract!Next]_Abstract!vars
<1> USE ToolsAssumption DEF Inv
<1>1. ASSUME NEW m \in Messages, NodeStep(m)
      PROVE  Abstract!Approve \/ UNCHANGED Abstract!vars
  <2>1. CASE AnswerCard(m) /\ approved' # approved
    <3>1. approved' = approved \cup {card[m]} /\ UNCHANGED <<call, version, inserted, applied>>
      BY <2>1 DEF AnswerCard, StartRun
    <3>2. card[m] \in Shown /\ Guarded(card[m].call)
      BY <2>1 DEF AnswerCard, TypeOK, NodesOK, CardInv
    <3> QED BY <3>1, <3>2 DEF Abstract!Approve, Abstract!Shown, Shown, Guarded
  <2>2. CASE ~(AnswerCard(m) /\ approved' # approved)
    BY <1>1, <2>2 DEF NodeStep, RunTools, AnswerCard, NodeStops, Crash, Finish, StartRun,
                      Abstract!vars
  <2> QED BY <2>1, <2>2
<1>2. ASSUME NEW c \in Calls, NEW k \in RunIds, ToolStep(c, k)
      PROVE  \/ Abstract!Insert(c)
             \/ \E a \in approved : Abstract!Change(a)
             \/ UNCHANGED Abstract!vars
  <2>1. CASE Create(c, k)
    <3>1. call[c].tool = "create"
      BY <2>1 DEF Create, StageInv, StageOK, Guarded
    <3>2. inserted[c] \in {0, 1} /\ inserted \in [Calls -> Nat]
      <4>1. inserted \in [Calls -> Nat] /\ inserted[c] <= 1
        BY DEF AppliedInv, TypeOK, RowsOK
      <4>2. inserted[c] \in Nat
        BY <4>1
      <4> QED BY <4>1, <4>2
    <3>3. CASE inserted[c] = 0
      BY <2>1, <3>1, <3>3 DEF Create, Abstract!Insert
    <3>4. CASE inserted[c] = 1
      BY <2>1, <3>2, <3>4 DEF Create, Abstract!vars
    <3> QED BY <3>2, <3>3, <3>4
  <2>2. ASSUME exec[c][k].at = "commit", version[Row(c)] = Expected(c, k), Change(c, k),
               UNCHANGED <<call, inserted, approved>>,
               version' = [version EXCEPT ![Row(c)] =
                              IF call[c].tool = "delete" THEN 0 ELSE @ + 1]
        PROVE  \E a \in approved : Abstract!Change(a)
    <3> DEFINE a == [call |-> c, version |-> version[Row(c)]]
    <3>1. a \in approved /\ \A b \in applied : b.call # c
      BY <2>2, CommitIsFirst
    <3>2. a.call = c /\ a.version = version[Row(c)] /\ applied' = applied \cup {a}
      BY <2>2 DEF Change
    <3> HIDE DEF a
    <3>3. Abstract!Change(a)
      BY <2>2, <3>1, <3>2 DEF Abstract!Change, Row
    <3> QED BY <3>1, <3>3
  <2>3. CASE UpdateExpense(c, k)
    BY <2>2, <2>3 DEF UpdateExpense, Abstract!vars
  <2>4. CASE UpdateSchedule(c, k)
    BY <2>2, <2>4 DEF UpdateSchedule, Abstract!vars
  <2>5. CASE DeleteRow(c, k)
    BY <2>2, <2>5 DEF DeleteRow, Abstract!vars
  <2>6. CASE UNCHANGED <<call, rowVars, approved>>
    BY <2>6 DEF Abstract!vars
  <2> QED BY <1>2, <2>1, <2>3, <2>4, <2>5, <2>6 DEF ToolStep, DatabaseFails, ReadRow,
        GetDecision, Interrupt, ReadUpdated, ReadUnchanged
<1>3. CASE UNCHANGED vars
  BY <1>3 DEF vars, Abstract!vars
<1> QED BY <1>1, <1>2, <1>3 DEF Next, Abstract!Next

THEOREM ImplementsHolds == ASSUME ~Batches PROVE Spec => Implements
<1>1. Init => Abstract!Init
  BY DEF Init, Abstract!Init, Tools, Abstract!Tools
<1> QED BY InvHolds, <1>1, StepImplements, PTL DEF Spec, Implements, Abstract!Spec

=============================================================================
