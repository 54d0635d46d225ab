------------------------------- MODULE ModemJobs -------------------------------
(***************************************************************************)
(* What the control program and the AT procedures agree on: the modem      *)
(* takes part in one job at a time, of one thread.  A job lists what was   *)
(* received and then waits for more, or sends a message; it may be cut off *)
(* anywhere, and another one begins only when it is over.                  *)
(*                                                                         *)
(* SmsControl hands out the jobs and implements this with its slot (exc);  *)
(* SmsProcedures carries them out and knows of no more than one.           *)
(***************************************************************************)
CONSTANT Threads

VARIABLE running    \* the jobs that are carried out, each with its thread

Init == running = {}

Begin ==
    /\ running = {}
    /\ \E t \in Threads, kind \in {"list", "send"} : running' = {<<t, kind>>}

Wait ==
    \E t \in Threads : running = {<<t, "list">>} /\ running' = {<<t, "wait">>}

Over == running' = {}

Next == Begin \/ Wait \/ Over

Spec == Init /\ [][Next]_running
=============================================================================
