-------------------------------- MODULE Reading --------------------------------
(***************************************************************************)
(* What a temperature server makes of the readings it is sent, whatever    *)
(* its shape (a thread per client in wujinlong/server_pthread.c, one loop  *)
(* over epoll in epoll_server/epoll_sever.c): a reading gets into the      *)
(* database once, after it was sent, or it is lost for good.  Neither      *)
(* server acknowledges or repeats anything, so nothing better is promised. *)
(***************************************************************************)
CONSTANT Conns      \* connections, each of which carries one reading

VARIABLE stage      \* what became of each reading

Init == stage = [c \in Conns |-> "unsent"]

Step(c, from, to) ==
    /\ stage[c] \in from
    /\ stage' = [stage EXCEPT ![c] = to]

Send(c)   == Step(c, {"unsent"}, "sent")
Record(c) == Step(c, {"sent"}, "stored")
Lose(c)   == Step(c, {"unsent", "sent"}, "lost")

Next == \E c \in Conns : Send(c) \/ Record(c) \/ Lose(c)

Spec == Init /\ [][Next]_stage
=============================================================================
