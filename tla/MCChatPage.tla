----------------------------- MODULE MCChatPage -----------------------------
(* Room a has two pages of messages and a question that failed; in room b  *)
(* a card waits.                                                           *)
EXTENDS ChatPage
CONSTANTS a, b
MCStored == [r \in Rooms |->
    IF r = a THEN <<<<"user", "completed">>, <<"assistant", "completed">>,
                    <<"user", "failed">>, <<"assistant", "failed">>>>
    ELSE <<<<"user", "completed">>, <<"assistant", "completed">>>>]
MCAll == Ops
=============================================================================
