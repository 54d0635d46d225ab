-------------------------------- MODULE MCSms --------------------------------
(* The instances of SmsProcedures that TLC checks: all that the modem of   *)
(* SmsModem may send, in any order, is what AtTest allows it.  The dialler's*)
(* functions, which nothing calls, are checked beside them.                *)
EXTENDS SmsProcedures

CONSTANT Room       \* bound: of PppConnect; lines longer than it are among Files

ASSUME RoomAssumption == Room \in Nat \ {0}

P == INSTANCE PppConnect

AllKinds == {"eol", "OK", "ERROR", ">", "READY", "+CMGS", "+CREG", "+CSQ", "+CMGR", "+CMGL", "+CMTI"}

Files    == UNION {[1..k -> {"a", "b", "nl"}] : k \in 1..5}
Wanted   == {<<"a">>, <<"a", "b">>}
NewTexts == {<<>>, <<"b">>, <<"x", "y", "z">>}

DiallerRight ==
    /\ \A blanks \in 0..4, strsize \in {0, 3} : P!OperatorFound(blanks, strsize)
    /\ \A file \in Files, seekstr \in Wanted, newstr \in NewTexts,
          relay_loca \in {"RELAY_CUR", "RELAY_END", "other"} :
          P!OnlyThatLine(file, seekstr, newstr, relay_loca)

(* Constant, so asked once: every operator of the list is told from every *)
(* other by the IMSI, and of a script only the piece of a line that was    *)
(* looked for is changed, for all files of up to five characters.          *)
DialScript == Init => DiallerRight
=============================================================================
