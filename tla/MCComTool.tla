------------------------------ MODULE MCComTool ------------------------------
(* The instance of ComTool that TLC checks: lines that fit a buffer of three*)
(* bytes, one that does not, an empty one, and, in a pipe, half a line.     *)
EXTENDS ComTool

SomeLines == {<<NL>>, <<"a", NL>>, <<"b", NL>>, <<"a", "b", NL>>}
HalfALine == {<<"b">>}

EvenParity == {[Defaults EXCEPT !.paritybit = "E", !.baudrate = 77]}
TwoTerms ==
    {[speed |-> 9600, csize |-> 8, parenb |-> FALSE, parodd |-> FALSE, cstopb |-> FALSE,
      raw |-> FALSE, crtscts |-> FALSE, ixon |-> FALSE],
     [speed |-> 1200, csize |-> 5, parenb |-> TRUE, parodd |-> TRUE, cstopb |-> TRUE,
      raw |-> FALSE, crtscts |-> TRUE, ixon |-> TRUE]}
=============================================================================
