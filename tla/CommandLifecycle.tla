-------------------------- MODULE CommandLifecycle --------------------------
(***************************************************************************)
(* What the Zigbee command pipeline promises to the caller of              *)
(* send_message: every command goes through its life once.  It is issued,  *)
(* then either waits in the command list for the dongle's response or is   *)
(* gone at once; a waiting command is either handed to the resend list or  *)
(* dropped; a handed over command is eventually dropped.  One command      *)
(* changes its status at a time and no command ever comes back.            *)
(***************************************************************************)
CONSTANT Cmd       \* the commands the application issues

VARIABLE status    \* status[c], where command c is in its life

Status == {"new", "calling", "waiting", "tracked", "done"}

\* The status changes one command may make.
Moves == { <<"new", "calling">>,        \* send_message is entered
           <<"new", "done">>,           \* written at once, not followed up
           <<"calling", "waiting">>,    \* put on the command list
           <<"calling", "done">>,       \* no memory, dropped
           <<"waiting", "tracked">>,    \* answered, moved to the resend list
           <<"waiting", "done">>,       \* no answer in time, dropped
           <<"tracked", "done">> }      \* confirmed or given up

Init == status = [c \in Cmd |-> "new"]

Move(c) == \E t \in Status : /\ <<status[c], t>> \in Moves
                             /\ status' = [status EXCEPT ![c] = t]

Next == \E c \in Cmd : Move(c)

Spec == Init /\ [][Next]_status
=============================================================================
