------------------------- MODULE ApprovedMutations -------------------------
(***************************************************************************)
(* What the mutation tools of the agent promise (README.md:75, 174-180 and *)
(* 198-208): a tool call inserts its row at most once; it changes or       *)
(* deletes a row at most once, only after the user approved that call, and *)
(* only while the row still has the version the approval card showed.      *)
(***************************************************************************)
EXTENDS Naturals

CONSTANTS Calls, Rows

VARIABLES
    call,      \* the tool and the row of a call
    version,   \* version of a row, 0 when there is none
    inserted,  \* rows inserted by a call
    approved,  \* the cards that were approved: call and version shown
    applied    \* the changes made: call and version of the row before

vars == <<call, version, inserted, approved, applied>>

Tools == {"create", "update_expense", "update_schedule", "delete"}
Shown == [call : Calls, version : Nat \ {0}]

Init ==
    /\ call \in [Calls -> [tool : Tools, row : Rows]]
    /\ version \in [Rows -> Nat]
    /\ inserted = [c \in Calls |-> 0]
    /\ approved = {} /\ applied = {}

(* (Versions are unbounded: the new card is picked from approved'.)        *)
Approve ==
    /\ \E a \in approved' : /\ a \in Shown /\ call[a.call].tool # "create"
                            /\ approved' = approved \cup {a}
    /\ UNCHANGED <<call, version, inserted, applied>>

Insert(c) ==
    /\ call[c].tool = "create" /\ inserted[c] = 0
    /\ inserted' = [inserted EXCEPT ![c] = 1]
    /\ UNCHANGED <<call, version, approved, applied>>

Change(a) ==
    LET r == call[a.call].row IN
    /\ version[r] = a.version
    /\ \A b \in applied : b.call # a.call
    /\ applied' = applied \cup {a}
    /\ version' = [version EXCEPT ![r] = IF call[a.call].tool = "delete" THEN 0 ELSE @ + 1]
    /\ UNCHANGED <<call, inserted, approved>>

Next == \/ Approve
        \/ \E a \in approved : Change(a)
        \/ \E c \in Calls : Insert(c)

Spec == Init /\ [][Next]_vars
=============================================================================
