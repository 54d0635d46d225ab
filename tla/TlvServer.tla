------------------------------ MODULE TlvServer ------------------------------
(***************************************************************************)
(* The TLV temperature server, tlv/server_tlv.c: it serves one connection  *)
(* at a time, appends what read() returns to a buffer, and lets unpacktlv  *)
(* look for packets in it.  unpacktlv keeps the incomplete packet it finds *)
(* at the end and returns its length, where the next read continues.       *)
(*                                                                         *)
(* One iteration of the for loop of unpacktlv is one step, with an action  *)
(* for each of its branches.  g_cilentstop never changes (the handler      *)
(* compares it with the number of the signal), so the server never stops.  *)
(***************************************************************************)
EXTENDS TlvPacket

CONSTANTS
    Streams,    \* what a connection may carry: sequences of messages
                \* [bytes, reading], reading = <<>> or <<degrees, hundredths>>
    BufSize     \* sizeof(buf), 64

MAXDATALEN == 8
Bytes == 0..255
(* The most bytes unpacktlv hands back: a packet of value < MAXDATALEN     *)
(* that lacks its last byte.                                               *)
MaxKept == TLV_FIXED_SIZE + MAXDATALEN - 2

Messages == [bytes : Seq(Bytes), reading : {<<>>} \cup (-128..127) \X (-128..127)]

Carried(s) == FlattenSeq([i \in DOMAIN s |-> s[i].bytes])

ASSUME StreamsAssumption ==
    \A s \in Streams : s \in Seq(Messages) /\ Carried(s) \in Seq(Bytes)
(* Room for what is kept; and below 126, so that a length byte below the   *)
(* fixed size always counts as too long.                                   *)
ASSUME BufSizeAssumption == BufSize \in MaxKept + 1..125

VARIABLES
    at,         \* "accept", "read", "unpack", "scan" or "dead"
    buf, remain, current,
    wire,       \* bytes of the connection not read yet
    sent,       \* history: the messages of this connection
    accepted    \* history: the readings accepted on it, as <<degrees, hundredths>>

buffer == <<buf, remain>>
conn   == <<wire, sent, accepted>>
vars   == <<at, buffer, current, conn>>

TypeOK ==
    /\ at \in {"accept", "read", "unpack", "scan", "dead"}
    /\ buf \in [0..BufSize - 1 -> Bytes]
    /\ remain \in 0..BufSize /\ current \in Nat
    /\ wire \in Seq(Bytes) /\ sent \in Seq(Messages)
    /\ accepted \in Seq((-128..127) \X (-128..127))

Init ==
    /\ at = "accept"
    /\ buf = [i \in 0..BufSize - 1 |-> 0] /\ remain = 0 /\ current = 0
    /\ wire = <<>> /\ sent = <<>> /\ accepted = <<>>

-----------------------------------------------------------------------------
(* main().                                                                 *)

Accept ==
    /\ at = "accept"
    /\ sent' \in Streams /\ wire' = Carried(sent') /\ accepted' = <<>>
    /\ buf' = [i \in 0..BufSize - 1 |-> 0] /\ remain' = 0
    /\ at' = "read" /\ UNCHANGED current

(* accept() < 0, for which its uninitialised addrlen is enough: return -4. *)
AcceptFails ==
    /\ at = "accept"
    /\ at' = "dead" /\ UNCHANGED <<buffer, current, conn>>

(* read(new_fd, &buf[remain], sizeof(buf) - remain) returns any part of    *)
(* what is on its way.                                                     *)
Read ==
    /\ at = "read"
    /\ \E n \in 1..Len(wire) :
          /\ n <= BufSize - remain
          /\ buf' = [i \in 0..BufSize - 1 |->
                        IF i \in remain..remain + n - 1 THEN wire[i - remain + 1] ELSE buf[i]]
          /\ remain' = remain + n
          /\ wire' = SubSeq(wire, n + 1, Len(wire))
    /\ at' = "unpack" /\ UNCHANGED <<current, sent, accepted>>

(* read() <= 0: the end of the stream, a reset at any point of it, or a    *)
(* buffer with no room, for which read() also returns 0.  The block that   *)
(* declares buf and remain ends; their values are of no more use.          *)
Disconnect ==
    /\ at = "read"
    /\ wire' = <<>> /\ sent' = <<>> /\ accepted' = <<>>
    /\ buf' = [i \in 0..BufSize - 1 |-> 0] /\ remain' = 0 /\ current' = 0
    /\ at' = "accept"

-----------------------------------------------------------------------------
(* unpacktlv().                                                            *)

TooLittle ==
    /\ at = "unpack" /\ remain < TLV_FIXED_SIZE + 1
    /\ at' = "read" /\ UNCHANGED <<buffer, current, conn>>

Enough ==
    /\ at = "unpack" /\ remain >= TLV_FIXED_SIZE + 1
    /\ at' = "scan" /\ current' = 0
    /\ UNCHANGED <<buffer, conn>>

Header   == at = "scan" /\ current < remain /\ buf[current] = PACK_HEADER
Avail    == remain - current
Partial  == Avail < TLV_FIXED_SIZE + 1
Length   == signed(buf[current + 2])
FaultAwaitedAll   == Length > Avail               \* waits for any length
Awaited  == Length > Avail /\ Length - TLV_FIXED_SIZE < MAXDATALEN
TooLong  == byte(Length - TLV_FIXED_SIZE) > BufSize - 3
Judged   == Header /\ ~Partial /\ ~Awaited /\ ~TooLong

(* The checksum covers all but the last two of Length bytes, which reach   *)
(* into stale contents of buf when they exceed remain.                     *)
Window(first, n) == [i \in 1..n |-> buf[first + i - 1]]
CrcMatches == Crc(Window(current, Length - 2)) =
              bytes_to_ushort(Window(current + Length - 2, 2))
(* Behind the end of buf the bytes compared are anything.                  *)
Overread == current + Length > BufSize
MayMatch == IF Overread THEN TRUE ELSE CrcMatches
MayFail  == IF Overread THEN TRUE ELSE ~CrcMatches

Next1 == current' = current + 1 /\ UNCHANGED <<at, buffer, conn>>

(* memmove(buf, &buf[k], remain - k): what follows keeps its old value.    *)
Shift(k) ==
    /\ buf' = [i \in 0..BufSize - 1 |-> IF i < remain - k THEN buf[i + k] ELSE buf[i]]
    /\ remain' = remain - k

(* A temperature is accepted, wherever the bytes judged came from.         *)
Printed ==
    /\ Judged /\ MayMatch /\ buf[current + 1] = TEMPRATURE
    /\ accepted' = Append(accepted, <<signed(buf[current + 3]), signed(buf[current + 4])>>)
    /\ UNCHANGED <<wire, sent>>

(* Slips that the properties below would catch; no specification uses them.*)
FaultUnknownTag ==  \* starts over at the packet it could not use
    /\ Judged /\ MayMatch /\ buf[current + 1] # TEMPRATURE
    /\ Shift(current) /\ current' = 0
    /\ UNCHANGED <<at, conn>>

FaultDropRest ==    \* empties the buffer after a packet
    Printed /\ Length <= Avail /\ Shift(remain) /\ current' = 1 /\ UNCHANGED at

FaultTemperature == \* starts over at the packet it accepted
    Printed /\ Length <= Avail /\ Shift(current) /\ current' = 0 /\ UNCHANGED at

NoHeader ==
    /\ at = "scan" /\ current < remain /\ buf[current] # PACK_HEADER
    /\ Next1

Keep ==
    /\ Header /\ (IF Partial THEN TRUE ELSE Awaited)
    /\ Shift(current)
    /\ at' = "read" /\ UNCHANGED <<current, conn>>

LengthWrong == Header /\ ~Partial /\ ~Awaited /\ TooLong /\ Next1

CrcWrong == Judged /\ MayFail /\ Next1

(* The packet is dropped from the buffer; "current = 0; continue" then     *)
(* goes on at index 1.                                                     *)
Temperature ==
    Printed /\ Length <= Avail /\ Shift(current + Length) /\ current' = 1 /\ UNCHANGED at

(* A packet that reaches beyond what was read: memmove is given a negative *)
(* size, and that is the end of the server.                                *)
Negative ==
    Printed /\ Length > Avail /\ at' = "dead" /\ UNCHANGED <<buffer, current>>

(* The bytes are copied to tep[10]; more may end the server before it      *)
(* prints anything.                                                        *)
Overrun ==
    /\ Judged /\ MayMatch /\ buf[current + 1] = TEMPRATURE
    /\ Length > 10
    /\ at' = "dead" /\ UNCHANGED <<buffer, current, conn>>

(* Here current does not advance: the packet itself moves to the front.    *)
UnknownTag ==
    /\ Judged /\ MayMatch /\ buf[current + 1] # TEMPRATURE
    /\ Shift(current) /\ current' = 1
    /\ UNCHANGED <<at, conn>>

ScanEnd ==
    /\ at = "scan" /\ current >= remain
    /\ remain' = 0
    /\ at' = "read" /\ UNCHANGED <<buf, current, conn>>

unpacktlv ==
    \/ TooLittle \/ Enough
    \/ NoHeader \/ Keep \/ LengthWrong \/ CrcWrong
    \/ Temperature \/ Negative \/ Overrun \/ UnknownTag \/ ScanEnd

Next == Accept \/ AcceptFails \/ Read \/ Disconnect \/ unpacktlv

Spec == Init /\ [][Next]_vars

(* unpacktlv runs to its end; nothing makes a client connect or send.      *)
FairSpec == Spec /\ WF_vars(unpacktlv)

-----------------------------------------------------------------------------
(* Properties.                                                             *)

(* What unpacktlv keeps leaves room for the next read.  (With none, read() *)
(* returns 0 and the server takes a living client for disconnected.)       *)
RoomToRead == at = "read" => remain <= MaxKept

IsReading(m) == m.reading # <<>>
Readings(s)  == {i \in DOMAIN s : IsReading(s[i])}

(* The readings accepted were carried by the connection, in this order and *)
(* each once: neither stale bytes of the buffer nor the bytes of two       *)
(* packets or two connections make up a packet.                            *)
CarriedInOrder ==
    \E which \in [DOMAIN accepted -> Readings(sent)] :
        /\ \A i, j \in DOMAIN accepted : i < j => which[i] < which[j]
        /\ \A i \in DOMAIN accepted : accepted[i] = sent[which[i]].reading

(* However the stream is cut into reads, every reading accepted was sent,  *)
(* none twice and none out of order, except that the last one before the   *)
(* server dies may be made up (see RightData).  A reading stays accepted,  *)
(* so this speaks of every one but the one the server dies of.             *)
AcceptedInOrder == at # "dead" => CarriedInOrder

(* A reading in a packet that is awaited when it comes in parts.           *)
IsAwaited(m) == IsReading(m) /\ Len(m.bytes) - TLV_FIXED_SIZE < MAXDATALEN

Idle == at = "read" /\ wire = <<>>    \* the server has used all it was sent

(* However they are cut: the first message of a connection, if it is a     *)
(* reading, is accepted; one that follows another in the same buffer may be*)
(* skipped (the scan resumes at index 1), but never two in a row.  (Packets*)
(* of 13 bytes or more are not awaited, and lost when they come in parts.) *)
NoTwoSkipped ==
    /\ Idle /\ sent # <<>> /\ IsAwaited(sent[1]) =>
           accepted # <<>> /\ accepted[1] = sent[1].reading
    /\ Idle /\ (\A i \in DOMAIN sent : IsAwaited(sent[i])) =>
           \A i \in 1..Len(sent) - 1 :
               \E j \in i..i + 1 : sent[j].reading \in Range(accepted)

(* unpacktlv returns on any contents of the buffer, although it restarts   *)
(* its loop after every packet it finds.                                   *)
UnpackReturns == at = "scan" ~> at # "scan"

-----------------------------------------------------------------------------
(* What the source says and the code does not do.                          *)

(* "data is incomplete" (server_tlv.c:220) is found out before the packet  *)
(* is judged, and what passes is "the right data" (server_tlv.c:260): no   *)
(* reading is printed that nobody sent, not even by a server about to die. *)
RightData == CarriedInOrder
=============================================================================
