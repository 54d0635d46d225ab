------------------------------ MODULE PppConnect ------------------------------
(***************************************************************************)
(* sim5360/ppp_connect.c: which operator a SIM card belongs to, by its     *)
(* IMSI, and the rewriting of a dial script in place.  Strings and files   *)
(* are sequences of characters; no string holds the terminating Nul.       *)
(***************************************************************************)
EXTENDS Integers, SequencesExt

CONSTANT Room       \* 1023 in the code: what fgets() puts into buff at most

Nul   == "nul"
NL    == "nl"
White == {" ", "\r", "\t", NL}

-----------------------------------------------------------------------------
(* id_isp().                                                               *)

At(s, k) == IF k \in DOMAIN s THEN s[k] ELSE Nul

(* How many characters the leading blanks are.                             *)
Blanks(s) == IF \A k \in DOMAIN s : s[k] \in White THEN Len(s)
             ELSE SelectInSeq(s, LAMBDA c : c \notin White) - 1

(* The size is compared with the count of blanks, after each.              *)
(* The digit in the middle of the three that are looked at is not compared *)
(* unless it is 2; what follows two of "460" is another country.           *)
id_isp(cimi, strsize) ==
    LET b == Blanks(cimi)
        d == [k \in 1..5 |-> At(cimi, b + k)]
    IN  CASE strsize \in 1..b -> -1
          [] strsize \notin 1..b /\ SubSeq(d, 1, 3) # <<"4", "6", "0">> -> -1
          [] strsize \notin 1..b /\ SubSeq(d, 1, 4) = <<"4", "6", "0", "2">> -> 4
          [] OTHER -> CASE d[5] \in {"0", "2", "7"} -> 1
                        [] d[5] \in {"1", "6"}      -> 2
                        [] d[5] \in {"3", "5"}      -> 3
                        [] OTHER                    -> -1

(* The reference: the list in the comment at the end of id_isp.            *)
Operators ==
    {<<"0", "0", 1>>, <<"0", "2", 1>>, <<"0", "7", 1>>, <<"0", "1", 2>>, <<"0", "6", 2>>,
     <<"0", "3", 3>>, <<"0", "5", 3>>, <<"2", "0", 4>>}

-----------------------------------------------------------------------------
(* modify_file().                                                          *)

(* A file is written at a position over what is there, or beyond its end.  *)
WriteAt(file, pos, s) ==
    [k \in 1..IF pos + Len(s) > Len(file) THEN pos + Len(s) ELSE Len(file) |->
        IF k \in pos + 1..pos + Len(s) THEN s[k - pos] ELSE file[k]]

Zeros(n) == [k \in 1..n |-> Nul]

(* fgets() takes a line, or of a longer one pieces as long as its room: no *)
(* piece is too long for the test of buff's last byte, which never fires.  *)
LineStart(file, k) ==
    CHOOSE b \in 1..k : (b = 1 \/ file[b - 1] = NL) /\ \A m \in b..k - 1 : file[m] # NL

PieceStart(file, k) == k - ((k - LineStart(file, k)) % Room)

Ends(file, k, e) == \/ file[e] = NL \/ e = Len(file)
                    \/ (e - LineStart(file, k) + 1) % Room = 0

PieceEnd(file, k) ==    \* of the piece that k is in: ftell() after fgets()
    CHOOSE e \in k..Len(file) : Ends(file, k, e) /\ \A m \in k..e - 1 : ~Ends(file, k, m)

(* Where strstr finds the string: in a piece, and before any zero in it.   *)
Places(file, s) ==
    {k \in DOMAIN file :
        /\ k + Len(s) - 1 <= PieceEnd(file, k) /\ SubSeq(file, k, k + Len(s) - 1) = s
        /\ \A m \in PieceStart(file, k)..k : file[m] # Nul}

(* strlen() of the rest of the piece from k on.                            *)
Strlen(file, k) ==
    LET zeros == {m \in k..PieceEnd(file, k) : file[m] = Nul}
    IN  IF zeros = {} THEN PieceEnd(file, k) - k + 1
        ELSE (CHOOSE z \in zeros : \A y \in zeros : z <= y) - k

(* A slip that OnlyThatLine would catch: the piece is read into p_mem, too. *)
FaultRest(file, k) == SubSeq(file, k, Len(file)) \o Zeros(2)

(* p_mem: what stands behind the piece, and two zeros.                     *)
Rest(file, k) == SubSeq(file, PieceEnd(file, k) + 1, Len(file)) \o Zeros(2)

modify_file(file, seekstr, newstr, relay_loca) ==
    IF Places(file, seekstr) = {} \/ relay_loca \notin {"RELAY_CUR", "RELAY_END"} THEN file
    ELSE LET k       == CHOOSE p \in Places(file, seekstr) : \A q \in Places(file, seekstr) : p <= q
             seek    == PieceEnd(file, k) - Strlen(file, k)
             start   == IF relay_loca = "RELAY_CUR" THEN seek ELSE seek + Len(seekstr)
             new     == WriteAt(file, start, newstr)
             back    == WriteAt(new, start + Len(newstr), Rest(file, k))
             written == start + Len(newstr) + Len(Rest(file, k))
         IN  IF written < Len(file)
             THEN WriteAt(back, written, Zeros(Len(file) - written))
             ELSE back

-----------------------------------------------------------------------------
(* Properties, of the arguments an instance chooses.                       *)

(* Every operator in the list is found, behind n blanks unless the size is *)
(* one of the counts on the way; another country's card never is.          *)
OperatorFound(n, strsize) ==
    \A m \in Operators, mcc \in {<<"4", "6", "0">>, <<"4", "6", "1">>} :
        id_isp([k \in 1..n |-> " "] \o mcc \o <<m[1], m[2], "5">>, strsize) =
            IF strsize \notin 1..n /\ mcc[3] = "0" THEN m[3] ELSE -1

(* The file is changed where the string is first found in a piece, and only*)
(* there: what is before it stays, the new text follows, then what stands  *)
(* behind the piece, whether the new text is longer or shorter than the    *)
(* old; then only zeros.  A string that lies across pieces is not found,   *)
(* and without a place, or told neither of the two, nothing is changed.    *)
(* Not so where zeros of an earlier call are: strlen stops at them.        *)
OnlyThatLine(file, seekstr, newstr, relay_loca) ==
    LET result == modify_file(file, seekstr, newstr, relay_loca)
        found  == Places(file, seekstr)
    IN  (\A m \in DOMAIN file : file[m] # Nul) =>
        IF found = {} \/ relay_loca \notin {"RELAY_CUR", "RELAY_END"} THEN result = file
        ELSE \E k \in found :
            LET keep == IF relay_loca = "RELAY_CUR" THEN k - 1 ELSE k - 1 + Len(seekstr)
                want == SubSeq(file, 1, keep) \o newstr
                            \o SubSeq(file, PieceEnd(file, k) + 1, Len(file))
            IN  /\ \A q \in found : k <= q
                /\ IsPrefix(want, result)
                /\ \A m \in Len(want) + 1..Len(result) : result[m] = Nul
                /\ Len(result) >= Len(file)
=============================================================================
