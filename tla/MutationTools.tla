--------------------------- MODULE MutationTools ---------------------------
(***************************************************************************)
(* The tools of the agent that write: create_*, update_expense,            *)
(* update_schedule and delete_* (src/apps/api/src/agent/                   *)
(* agent-tools.service.ts) under the tools node of the graph.              *)
(*                                                                         *)
(* The node runs all the tool calls of one AI message at once.  A tool     *)
(* that needs an approval raises an interrupt, which ends the node; the    *)
(* answer runs the node again, and every tool of it from its start.  A     *)
(* node that is timed out or stopped leaves its tools running: what they   *)
(* have begun they finish, next to the next run of the same calls.         *)
(***************************************************************************)
EXTENDS Naturals, Sequences, FiniteSets

CONSTANTS
    Calls,      \* tool calls (toolCallId within a thread)
    Messages,   \* AI messages that ask for them, each in a thread of its own
    MessageOf,  \* the message of a call
    Rows,       \* expenses and schedules of the user
    Batches,    \* TRUE: a message may ask for several updates and deletes
    Faults,     \* TRUE: a database call may fail, before or after its commit
    MaxRuns,    \* bound on the runs of the node of each message
    None

Shown    == [call : Calls, version : Nat \ {0}]
Decision == [action : {"approve", "cancel"}, card : Shown]
Results  == {"created", "duplicated", "updated", "already_applied", "deleted",
             "already_deleted", "stale", "not_found", "cancelled", "error"}

ASSUME ToolsAssumption ==
    /\ MessageOf \in [Calls -> Messages]
    /\ Batches \in BOOLEAN /\ Faults \in BOOLEAN
    /\ MaxRuns \in [Messages -> Nat]
    /\ None \notin Shown \cup Decision \cup Results

VARIABLES
    call,        \* the tool and the row of a call
    version,     \* version column of a row, 0 when there is no row
    operations,  \* ExpenseUpdateOperation.expectedVersion by call, 0: none
    inserted,    \* rows with the operationKey of a call
    card,        \* the interrupt in the checkpoint of a message, or None
    resumes,     \* decisions in the checkpoint, in the order of interrupt()
    runs,        \* runs of the node so far
    live,        \* the last of them is still awaited
    finished,    \* the node has its checkpoint: it never runs again
    pad,         \* LangGraph's scratchpad of a run
    exec,        \* a tool in a run: where it stands and what it knows
    approved,    \* history: the cards that were approved
    applied      \* history: the changes that were committed

rowVars   == <<version, operations, inserted, applied>>
nodeVars  == <<card, resumes, runs, live, finished>>
vars == <<call, rowVars, nodeVars, pad, exec, approved>>

Tools    == {"create", "update_expense", "update_schedule", "delete"}
RunIds   == UNION {1..MaxRuns[m] : m \in Messages}
Stages   == {"off", "insert", "read", "ask", "commit", "reread", "recheck",
             "returned", "interrupted", "dead"}

Guarded(c) == call[c].tool # "create"
Row(c)     == call[c].row
CallsOf(m) == {c \in Calls : MessageOf[c] = m}

(* The locals of a tool in a run, and what it hands to the node.           *)
At(stage, seen, decision) ==
    [at |-> stage, seen |-> seen, decision |-> decision, result |-> None]
Returned(result) ==
    [at |-> "returned", seen |-> 0, decision |-> None, result |-> result]

Scratchpad(asked, list, fresh) == [asked |-> asked, list |-> list, fresh |-> fresh]

(* An expense row is no schedule row.                                      *)
Init ==
    /\ call \in [Calls -> [tool : Tools, row : Rows]]
    /\ \A c, d \in Calls : call[c].tool = "update_expense" /\ Row(c) = Row(d)
                              => call[d].tool # "update_schedule"
    /\ Batches \/ \A c, d \in Calls :
                      MessageOf[c] = MessageOf[d] /\ Guarded(c) /\ Guarded(d) => c = d
    /\ version = [r \in Rows |-> 1]
    /\ operations = [c \in Calls |-> 0]
    /\ inserted = [c \in Calls |-> 0]
    /\ card = [m \in Messages |-> None]
    /\ resumes = [m \in Messages |-> <<>>]
    /\ runs = [m \in Messages |-> 0]
    /\ live = [m \in Messages |-> FALSE]
    /\ finished = [m \in Messages |-> FALSE]
    /\ pad = [m \in Messages |-> [k \in RunIds |-> Scratchpad(0, <<>>, None)]]
    /\ exec = [c \in Calls |-> [k \in RunIds |-> At("off", 0, None)]]
    /\ approved = {} /\ applied = {}

-----------------------------------------------------------------------------
(* The node.                                                               *)

StartRun(m, fresh) ==
    /\ ~live[m] /\ ~finished[m] /\ runs[m] < MaxRuns[m]
    /\ runs' = [runs EXCEPT ![m] = @ + 1]
    /\ live' = [live EXCEPT ![m] = TRUE]
    /\ pad' = [pad EXCEPT ![m][runs[m] + 1] = Scratchpad(0, resumes[m], fresh)]
    /\ exec' = [c \in Calls |->
                  IF MessageOf[c] = m
                  THEN [exec[c] EXCEPT ![runs[m] + 1] =
                          At(IF Guarded(c) THEN "read" ELSE "insert", 0, None)]
                  ELSE exec[c]]
    /\ UNCHANGED <<call, rowVars, card, resumes, finished>>

(* First run, or retry_message of a thread without an interrupt.           *)
RunTools(m) ==
    card[m] = None /\ StartRun(m, None) /\ UNCHANGED approved

(* respond_agent_approval: a decision with the version the card showed     *)
(* (a revision ends the tool like a cancellation).                         *)
AnswerCard(m) ==
    /\ card[m] # None
    /\ \E action \in {"approve", "cancel"} :
         /\ StartRun(m, [action |-> action, card |-> card[m]])
         /\ approved' = IF action = "approve" THEN approved \cup {card[m]} ELSE approved

(* Timeout of the node, stop_generation, or the provider's stream fails.   *)
NodeStops(m) ==
    /\ live[m]
    /\ live' = [live EXCEPT ![m] = FALSE]
    /\ UNCHANGED <<call, rowVars, card, resumes, runs, finished, pad, exec, approved>>

Busy(c, k) == exec[c][k].at \notin {"off", "returned", "interrupted", "dead"}

(* The server dies; PostgreSQL rolls back what it had not committed.       *)
Crash(m) ==
    /\ \E c \in CallsOf(m), k \in RunIds : Busy(c, k)
    /\ live' = [live EXCEPT ![m] = FALSE]
    /\ exec' = [c \in Calls |-> [k \in RunIds |->
                  IF MessageOf[c] = m /\ Busy(c, k)
                  THEN At("dead", 0, None) ELSE exec[c][k]]]
    /\ UNCHANGED <<call, rowVars, card, resumes, runs, finished, pad, approved>>

(* All tools returned: their messages are checkpointed.                    *)
Finish(m) ==
    /\ live[m]
    /\ \A c \in CallsOf(m) : exec[c][runs[m]].at = "returned"
    /\ live' = [live EXCEPT ![m] = FALSE]
    /\ finished' = [finished EXCEPT ![m] = TRUE]
    /\ card' = [card EXCEPT ![m] = None]
    /\ UNCHANGED <<call, rowVars, resumes, runs, pad, exec, approved>>

-----------------------------------------------------------------------------
(* A tool.                                                                 *)

Put(c, k, e)         == exec' = [exec EXCEPT ![c][k] = e]
To(c, k, stage)      == Put(c, k, At(stage, 0, None))
Return(c, k, result) == Put(c, k, Returned(result))

(* handleToolErrors: a database error becomes the tool's message.          *)
DatabaseFails(c, k) ==
    /\ Faults
    /\ exec[c][k].at \in {"insert", "read", "commit", "reread", "recheck"}
    /\ Return(c, k, "error")
    /\ UNCHANGED <<call, rowVars, nodeVars, pad, approved>>

(* The commit is done; its acknowledgement may be lost.                    *)
ReturnCommitted(c, k, result) ==
    Return(c, k, result) \/ (Faults /\ Return(c, k, "error"))

(* Variant: without the unique operation key.                              *)
CreateAgain(c, k) ==
    /\ exec[c][k].at = "insert"
    /\ inserted' = [inserted EXCEPT ![c] = @ + 1]
    /\ ReturnCommitted(c, k, "created")
    /\ UNCHANGED <<call, version, operations, applied, nodeVars, pad, approved>>

(* createMany with skipDuplicates on (userId, operationKey).               *)
Create(c, k) ==
    /\ exec[c][k].at = "insert"
    /\ inserted' = [inserted EXCEPT ![c] = 1]
    /\ ReturnCommitted(c, k, IF inserted[c] = 0 THEN "created" ELSE "duplicated")
    /\ UNCHANGED <<call, version, operations, applied, nodeVars, pad, approved>>

ReadRow(c, k) ==
    /\ exec[c][k].at = "read"
    /\ IF version[Row(c)] = 0
       THEN Return(c, k, "not_found")
       ELSE Put(c, k, At("ask", version[Row(c)], None))
    /\ UNCHANGED <<call, rowVars, nodeVars, pad, approved>>

SetPad(m, k, p) == pad' = [pad EXCEPT ![m][k] = p]

Decide(c, k, d) ==
    IF d.action = "approve"
    THEN Put(c, k, At("commit", 0, d))
    ELSE Return(c, k, "cancelled")

(* interrupt(): the n-th call of a run gets the n-th decision of the       *)
(* thread, whichever tool it comes from; the first call without one takes  *)
(* the new decision, and the next interrupts the node.                     *)
GetDecision(c, k) ==
    LET p == pad[MessageOf[c]][k]
        n == p.asked + 1
    IN /\ exec[c][k].at = "ask"
       /\ \/ /\ n <= Len(p.list)
             /\ Decide(c, k, p.list[n])
             /\ SetPad(MessageOf[c], k, Scratchpad(n, p.list, p.fresh))
          \/ /\ n > Len(p.list) /\ p.fresh # None
             /\ Decide(c, k, p.fresh)
             /\ SetPad(MessageOf[c], k, Scratchpad(n, Append(p.list, p.fresh), None))
       /\ UNCHANGED <<call, rowVars, nodeVars, approved>>

Interrupt(c, k) ==
    LET m == MessageOf[c]
        p == pad[m][k]
    IN /\ exec[c][k].at = "ask" /\ p.asked >= Len(p.list) /\ p.fresh = None
       /\ To(c, k, "interrupted")
       /\ IF live[m] /\ runs[m] = k
          THEN /\ live' = [live EXCEPT ![m] = FALSE]
               /\ card' = [card EXCEPT ![m] = [call |-> c, version |-> exec[c][k].seen]]
               /\ resumes' = [resumes EXCEPT ![m] = p.list]
          ELSE UNCHANGED <<live, card, resumes>>
       /\ SetPad(m, k, Scratchpad(p.asked + 1, p.list, None))
       /\ UNCHANGED <<call, rowVars, runs, finished, approved>>

Expected(c, k) == exec[c][k].decision.card.version
Change(c, k)   == applied' = applied \cup {[call |-> c, version |-> version[Row(c)]]}

(* Variants: the operation is not looked up; it stays claimed when the row  *)
(* is stale; the version is not compared.                                  *)
UpdateExpenseWithoutLog(c, k) ==
    /\ call[c].tool = "update_expense" /\ exec[c][k].at = "commit"
    /\ IF version[Row(c)] = Expected(c, k)
       THEN /\ version' = [version EXCEPT ![Row(c)] = @ + 1]
            /\ Change(c, k)
            /\ ReturnCommitted(c, k, "updated")
       ELSE /\ Return(c, k, IF version[Row(c)] = 0 THEN "not_found" ELSE "stale")
            /\ UNCHANGED <<version, applied>>
    /\ UNCHANGED <<call, operations, inserted, nodeVars, pad, approved>>

UpdateExpenseKeepsClaim(c, k) ==
    /\ call[c].tool = "update_expense" /\ exec[c][k].at = "commit"
    /\ operations' = [operations EXCEPT ![c] = Expected(c, k)]
    /\ IF operations[c] # 0
       THEN Return(c, k, "already_applied") /\ UNCHANGED <<version, applied>>
       ELSE IF version[Row(c)] = Expected(c, k)
       THEN /\ version' = [version EXCEPT ![Row(c)] = @ + 1]
            /\ Change(c, k)
            /\ ReturnCommitted(c, k, "updated")
       ELSE Return(c, k, "stale") /\ UNCHANGED <<version, applied>>
    /\ UNCHANGED <<call, inserted, nodeVars, pad, approved>>

(* One transaction: claim the operation key, update the row if it has the  *)
(* expected version, give the claim back if it has not.                    *)
UpdateExpense(c, k) ==
    /\ call[c].tool = "update_expense" /\ exec[c][k].at = "commit"
    /\ IF operations[c] # 0
       THEN /\ Return(c, k, IF operations[c] = Expected(c, k)
                            THEN "already_applied" ELSE "error")
            /\ UNCHANGED <<version, operations, applied>>
       ELSE IF version[Row(c)] = Expected(c, k)
       THEN /\ operations' = [operations EXCEPT ![c] = Expected(c, k)]
            /\ version' = [version EXCEPT ![Row(c)] = @ + 1]
            /\ Change(c, k)
            /\ ReturnCommitted(c, k, "updated")
       ELSE /\ Return(c, k, IF version[Row(c)] = 0 THEN "not_found" ELSE "stale")
            /\ UNCHANGED <<version, operations, applied>>
    /\ UNCHANGED <<call, inserted, nodeVars, pad, approved>>

(* updateMany on the version; then the row is read for the report.         *)
UpdateSchedule(c, k) ==
    /\ call[c].tool = "update_schedule" /\ exec[c][k].at = "commit"
    /\ IF version[Row(c)] = Expected(c, k)
       THEN /\ version' = [version EXCEPT ![Row(c)] = @ + 1]
            /\ Change(c, k)
            /\ To(c, k, "reread") \/ (Faults /\ Return(c, k, "error"))
       ELSE To(c, k, "recheck") /\ UNCHANGED <<version, applied>>
    /\ UNCHANGED <<call, operations, inserted, nodeVars, pad, approved>>

ReadUpdated(c, k) ==
    /\ exec[c][k].at = "reread"
    /\ Return(c, k, IF version[Row(c)] = 0 THEN "error" ELSE "updated")
    /\ UNCHANGED <<call, rowVars, nodeVars, pad, approved>>

(* Variant: the version is not compared.                                   *)
DeleteRowBlindly(c, k) ==
    /\ call[c].tool = "delete" /\ exec[c][k].at = "commit"
    /\ IF version[Row(c)] > 0
       THEN /\ version' = [version EXCEPT ![Row(c)] = 0]
            /\ Change(c, k)
            /\ ReturnCommitted(c, k, "deleted")
       ELSE To(c, k, "recheck") /\ UNCHANGED <<version, applied>>
    /\ UNCHANGED <<call, operations, inserted, nodeVars, pad, approved>>

DeleteRow(c, k) ==
    /\ call[c].tool = "delete" /\ exec[c][k].at = "commit"
    /\ IF version[Row(c)] = Expected(c, k)
       THEN /\ version' = [version EXCEPT ![Row(c)] = 0]
            /\ Change(c, k)
            /\ ReturnCommitted(c, k, "deleted")
       ELSE To(c, k, "recheck") /\ UNCHANGED <<version, applied>>
    /\ UNCHANGED <<call, operations, inserted, nodeVars, pad, approved>>

ReadUnchanged(c, k) ==
    /\ exec[c][k].at = "recheck"
    /\ Return(c, k, IF version[Row(c)] # 0 THEN "stale"
                    ELSE IF call[c].tool = "delete" THEN "already_deleted" ELSE "not_found")
    /\ UNCHANGED <<call, rowVars, nodeVars, pad, approved>>

-----------------------------------------------------------------------------
NodeStep(m) == RunTools(m) \/ AnswerCard(m) \/ NodeStops(m) \/ Crash(m) \/ Finish(m)

ToolStep(c, k) ==
    \/ DatabaseFails(c, k) \/ Create(c, k) \/ ReadRow(c, k)
    \/ GetDecision(c, k) \/ Interrupt(c, k)
    \/ UpdateExpense(c, k) \/ UpdateSchedule(c, k) \/ ReadUpdated(c, k)
    \/ DeleteRow(c, k) \/ ReadUnchanged(c, k)

Next == \/ \E m \in Messages : NodeStep(m)
        \/ \E c \in Calls, k \in RunIds : ToolStep(c, k)

Spec == Init /\ [][Next]_vars

-----------------------------------------------------------------------------
(* Properties.                                                             *)

ExecState == [at : Stages, seen : Nat, decision : Decision \cup {None},
              result : Results \cup {None}]
PadState  == [asked : Nat, list : Seq(Decision), fresh : Decision \cup {None}]

RowsOK ==
    /\ call \in [Calls -> [tool : Tools, row : Rows]]
    /\ version \in [Rows -> Nat] /\ operations \in [Calls -> Nat]
    /\ inserted \in [Calls -> Nat]
    /\ approved \subseteq Shown /\ applied \subseteq Shown

NodesOK ==
    /\ card \in [Messages -> Shown \cup {None}]
    /\ resumes \in [Messages -> Seq(Decision)]
    /\ runs \in [Messages -> Nat] /\ \A m \in Messages : runs[m] <= MaxRuns[m]
    /\ live \in [Messages -> BOOLEAN] /\ finished \in [Messages -> BOOLEAN]
    /\ \A m \in Messages : live[m] => runs[m] \in RunIds

(* Every variable has its type; a tool at its interrupt() has seen its     *)
(* row, and one that writes has an approval.                               *)
TypeOK ==
    /\ RowsOK /\ NodesOK
    /\ pad \in [Messages -> [RunIds -> PadState]]
    /\ exec \in [Calls -> [RunIds -> ExecState]]
    /\ \A c \in Calls, k \in RunIds :
          /\ exec[c][k].at = "ask" => exec[c][k].seen # 0
          /\ exec[c][k].at = "commit" => exec[c][k].decision # None

Applied(c)  == \E a \in applied : a.call = c
Reported(c) == IF finished[MessageOf[c]]
               THEN exec[c][runs[MessageOf[c]]].result ELSE None

(* README.md:198: whatever is replayed, retried or left running behind a   *)
(* timeout, a call inserts one row and changes its row once.               *)
OncePerCall ==
    /\ \A c \in Calls : inserted[c] <= 1
    /\ \A a, b \in applied : a.call = b.call => a = b

(* README.md:174-180: what is changed was approved, for this call and for  *)
(* the version the row still had.                                          *)
ApprovedOnly == applied \subseteq approved

(* A user who is told that the change is made finds it made.               *)
SuccessIsApplied ==
    \A c \in Calls : /\ Reported(c) \in {"updated", "already_applied", "deleted"} => Applied(c)
                     /\ Reported(c) \in {"created", "duplicated"} => inserted[c] = 1

(* README.md:75: a repeated update_expense recognises its own change and   *)
(* does not report it as somebody else's.                                  *)
ReplayRecognised ==
    \A c \in Calls : call[c].tool = "update_expense" /\ Reported(c) = "stale" => ~Applied(c)

(* The message of update_schedule: "the schedule was changed while it      *)
(* waited for your approval" is said of somebody else's change.            *)
StaleIsForeign ==
    \A c \in Calls : Reported(c) = "stale" => ~Applied(c)

(* The mapping: a call is its tool and its row, the rest is shared state.  *)
Abstract == INSTANCE ApprovedMutations WITH
                call <- call, version <- version, inserted <- inserted,
                approved <- approved, applied <- applied
Implements == Abstract!Spec
=============================================================================
