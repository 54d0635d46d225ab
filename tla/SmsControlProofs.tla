-------------------------- MODULE SmsControlProofs --------------------------
(* Theorems about SmsControl, for every set of reader slots, every bound on *)
(* the inbox and both meanings of a cancellation.                           *)
EXTENDS SmsControl, SequenceTheorems, TLAPS

USE ReadersAssumption, MaxInboxAssumption, PromptCancelAssumption
USE DEF MSG, CTR, PRI_CALL, PRI_SENDMEG, PRI_READMEG

(* What a 12-byte read leaves in the inbox is again an inbox, no longer     *)
(* than before.                                                             *)
LEMMA CutInbox ==
    ASSUME NEW s \in Seq(Lines), NEW k \in 0..Len(s)
    PROVE  /\ SubSeq(s, k + 1, Len(s)) \in Seq(Lines)
           /\ Len(SubSeq(s, k + 1, Len(s))) <= Len(s)
           /\ k < Len(s) =>
                /\ <<"text">> \o SubSeq(s, k + 2, Len(s)) \in Seq(Lines)
                /\ Len(<<"text">> \o SubSeq(s, k + 2, Len(s))) <= Len(s)
<1>1. Len(s) \in Nat /\ k \in Nat /\ k <= Len(s)
  BY LenProperties
<1>2. /\ SubSeq(s, k + 1, Len(s)) \in Seq(Lines)
      /\ Len(SubSeq(s, k + 1, Len(s))) <= Len(s)
  BY <1>1, SubSeqProperties
<1>3. ASSUME k < Len(s)
      PROVE  /\ <<"text">> \o SubSeq(s, k + 2, Len(s)) \in Seq(Lines)
             /\ Len(<<"text">> \o SubSeq(s, k + 2, Len(s))) <= Len(s)
  <2> DEFINE rest == SubSeq(s, k + 2, Len(s))
  <2>1. rest \in Seq(Lines) /\ Len(rest) <= Len(s) - 1
    BY <1>1, <1>3, SubSeqProperties
  <2>2. <<"text">> \in Seq(Lines) /\ Len(<<"text">>) = 1
    BY DEF Lines
  <2> HIDE DEF rest
  <2>3. /\ <<"text">> \o rest \in Seq(Lines)
        /\ Len(<<"text">> \o rest) = 1 + Len(rest)
    BY <2>1, <2>2, ConcatProperties
  <2>4. Len(rest) \in Nat
    BY <2>1, LenProperties
  <2> QED BY <1>1, <2>1, <2>3, <2>4 DEF rest
<1> QED BY <1>2, <1>3

-----------------------------------------------------------------------------
(* Type correctness. *)

USE DEF Goto, Move, Exit, Quiet, Pass, record, main, threads, client

(* Whatever the client wrote, getreq returns a request or 0. *)
LEMMA GetreqType == \A l : getreq(l) \in 0..3
<1> SUFFICES ASSUME NEW l PROVE getreq(l) \in 0..3
  OBVIOUS
<1>1. /\ l = "call" => getreq(l) = 3
      /\ l = "send message" => getreq(l) = 2
      /\ l = "read message" => getreq(l) = 1
  BY DEF getreq
<1>2. l \notin {"call", "send message", "read message"} => getreq(l) = 0
  BY DEF getreq
<1>3. getreq(l) \in {0, 1, 2, 3}
  BY <1>1, <1>2, Zenon
<1> QED BY <1>3, SMT

LEMMA TypeInit == Init => TypeOK
<1> SUFFICES ASSUME Init PROVE TypeOK
  OBVIOUS
<1>1. worker \in [Workers -> Locations]
  BY DEF Init, Workers, Locations
<1>2. inbox \in Seq(Lines) /\ Len(inbox) <= MaxInbox
  <2>1. CASE inbox = <<>>
    BY <2>1
  <2>2. CASE \E l \in Lines : inbox = <<l>>
    <3> PICK l \in Lines : inbox = <<l>>
      BY <2>2
    <3>1. <<l>> \in Seq(Lines) /\ Len(<<l>>) = 1
      OBVIOUS
    <3> QED BY <3>1
  <2> QED BY <2>1, <2>2 DEF Init
<1>3. conn \in {"open", "eof", "reset"}
  BY DEF Init
<1>4. lock = "free" /\ tid_rvmsg \in Readers
  BY DEF Init
<1>5. /\ req \in 0..3 /\ exc \in 0..3 /\ occupy \in {0, 1}
      /\ srcfd \in {"none", "ret_fd"}
  BY DEF Init
<1>6. ctr \in CtrLocations /\ cmd_buff \in Lines /\ reg \in 0..3
  BY DEF Init, CtrLocations, Lines
<1>7. cancelled \in SUBSET Readers /\ g_stop \in BOOLEAN /\ exited = "no"
  BY DEF Init
<1> QED BY <1>1, <1>2, <1>3, <1>4, <1>5, <1>6, <1>7 DEF TypeOK

LEMMA TypeCtr ==
    ASSUME TypeOK, CtrNext
    PROVE  TypeOK'
<1> USE DEF TypeOK, Workers, CtrLocations
<1>1. CASE CtrTop \/ CtrReadEof \/ CtrReadError \/ CtrTestReq \/ CtrTestIdle
             \/ CtrTestBusy \/ CtrIllegal \/ CtrTestPrio \/ CtrCompare \/ CtrSleep
             \/ CtrClose \/ CtrCreateFails
  BY <1>1 DEF CtrTop, CtrReadEof, CtrReadError, CtrTestReq, CtrTestIdle, CtrTestBusy,
              CtrIllegal, CtrTestPrio, CtrCompare, CtrSleep, CtrClose, CtrCreateFails
<1>2. CASE CtrRead
  <2>1. Received \in Lines
    BY DEF Received, Lines
  <2>2. <<>> \in Seq(Lines) /\ Len(<<>>) <= MaxInbox
    OBVIOUS
  <2> QED BY <1>2, <2>1, <2>2 DEF CtrRead
<1>3. CASE CtrLock
  BY <1>3 DEF CtrLock, AfterLock
<1>4. CASE CtrPost \/ CtrGrant \/ CtrPreempt
  BY <1>4, GetreqType DEF CtrPost, CtrGrant, CtrPreempt
<1>5. CASE CtrCancel
  BY <1>5 DEF CtrCancel
<1>6. CASE CtrCreate
  BY <1>6 DEF CtrCreate, Locations
<1> QED BY <1>1, <1>2, <1>3, <1>4, <1>5, <1>6 DEF CtrNext

LEMMA TypeWorker ==
    ASSUME TypeOK, NEW t \in Workers, Finish(t) \/ GiveUp(t)
    PROVE  TypeOK'
<1> USE DEF TypeOK, Workers, Locations, MsgBusy, ReadBusy, Finishing
<1>1. CASE FinishLock(t)     BY <1>1 DEF FinishLock
<1>2. CASE FinishClearReq(t) BY <1>2 DEF FinishClearReq
<1>3. CASE FinishClearExc(t) BY <1>3 DEF FinishClearExc
<1>4. CASE FinishUnlock(t)   BY <1>4 DEF FinishUnlock
<1>5. CASE GiveUp(t)         BY <1>5 DEF GiveUp
<1> QED BY <1>1, <1>2, <1>3, <1>4, <1>5 DEF Finish

LEMMA TypeMsg ==
    ASSUME TypeOK, MsgNext
    PROVE  TypeOK'
<1>0. MSG \in Workers
  BY DEF Workers
<1>1. CASE Finish(MSG) \/ GiveUp(MSG)
  BY <1>0, <1>1, TypeWorker
<1> USE DEF TypeOK, Workers, Locations, MsgBusy, ReadBusy, Finishing
<1>2. CASE MsgBegin \/ MsgJudged \/ MsgReadEof \/ MsgSent \/ MsgSendFail
  BY <1>2, ZenonT(30) DEF MsgBegin, MsgJudged, MsgReadEof, MsgSent, MsgSendFail
<1>3. CASE MsgOccupy \/ MsgReadError \/ MsgRelease
  BY <1>3 DEF MsgOccupy, MsgReadError, MsgRelease
<1>4. CASE MsgReadContent
  BY <1>4 DEF MsgReadContent
<1>5. CASE MsgReadNumber
  <2>1. inbox' \in Seq(Lines) /\ Len(inbox') <= Len(inbox)
    BY <1>5, CutInbox, ZenonT(30) DEF MsgReadNumber
  <2>2. Len(inbox) \in Nat /\ Len(inbox') \in Nat
    BY <2>1, LenProperties
  <2>3. Len(inbox') <= MaxInbox
    BY <2>1, <2>2
  <2> QED BY <1>5, <2>1, <2>3 DEF MsgReadNumber
<1> QED BY <1>1, <1>2, <1>3, <1>4, <1>5 DEF MsgNext, MsgSteps

LEMMA TypeRv ==
    ASSUME TypeOK, NEW r \in Readers, RvNext(r)
    PROVE  TypeOK'
<1>0. r \in Workers
  BY DEF Workers
<1>1. CASE Finish(r) \/ GiveUp(r)
  BY <1>0, <1>1, TypeWorker
<1> USE DEF TypeOK, Workers, Locations, MsgBusy, ReadBusy, Finishing
<1>2. CASE RvBegin(r) \/ RvJudged(r) \/ RvListed(r) \/ RvWaited(r)
  BY <1>2, ZenonT(30) DEF RvBegin, RvJudged, RvListed, RvWaited
<1>3. CASE RvDie(r)
  BY <1>3 DEF RvDie
<1> QED BY <1>1, <1>2, <1>3 DEF RvNext, RvSteps

LEMMA TypeClient ==
    ASSUME TypeOK, ClientSend \/ ClientLeave \/ sig_sigint
    PROVE  TypeOK'
<1> USE DEF TypeOK
<1>1. CASE ClientSend
  <2> PICK l \in Lines : inbox' = Append(inbox, l)
    BY <1>1 DEF ClientSend
  <2>1. inbox' \in Seq(Lines) /\ Len(inbox') = Len(inbox) + 1
    BY AppendProperties
  <2>2. Len(inbox) \in Nat /\ Len(inbox) < MaxInbox
    BY <1>1, LenProperties DEF ClientSend
  <2> QED BY <1>1, <2>1, <2>2 DEF ClientSend
<1>2. CASE ClientLeave \/ sig_sigint
  BY <1>2 DEF ClientLeave, sig_sigint
<1> QED BY <1>1, <1>2

LEMMA TypeNext == TypeOK /\ [Next]_vars => TypeOK'
<1> SUFFICES ASSUME TypeOK, [Next]_vars PROVE TypeOK'
  OBVIOUS
<1>1. CASE UNCHANGED vars
  BY <1>1 DEF vars, TypeOK
<1> QED BY <1>1, TypeCtr, TypeMsg, TypeRv, TypeClient DEF Next

(* Every variable of the control program keeps its type. *)
THEOREM TypeCorrect == Spec => []TypeOK
BY TypeInit, TypeNext, PTL DEF Spec

-----------------------------------------------------------------------------
(* Mutual exclusion, the order of the writes of srcfd and exc, and the      *)
(* direction of a preemption.  What the main thread found in the record     *)
(* stays true up to the write it is about to make:                          *)

(* srcfd was written before the request was looked at; *)
Posted ==
    ctr \in {"test_req", "test_idle", "lock2", "grant", "test_busy", "test_prio",
             "compare", "cancel", "lock3", "preempt", "create"} => srcfd = "ret_fd"

(* req is still what the command asked for, or was cleared by a worker;     *)
Requested ==
    ctr \in {"test_req", "test_idle", "lock2", "grant"} => req \in {0, getreq(cmd_buff)}

(* nobody but the main thread takes a free slot; *)
SlotFree == ctr \in {"lock2", "grant"} => exc = 0

(* and the workers only ever free it, so it never rises above the request,  *)
(* not even above one that was loaded before the worker cleared both.       *)
NotCall == ctr \in {"cancel", "lock3", "preempt"} => exc # PRI_CALL

IInv ==
    /\ TypeOK /\ CriticalSections /\ SrcfdBeforeWork
    /\ Posted /\ Requested /\ SlotFree /\ NotCall

LEMMA CriticalInit == Init => IInv
<1> SUFFICES ASSUME Init PROVE IInv
  OBVIOUS
<1>1. ctr = "top" /\ exc = 0 /\ srcfd = "none"
  BY DEF Init
<1>2. \A t \in Workers : worker[t] \in {"none", "idle"}
  BY DEF Init
<1>3. worker[MSG] = "idle"
  BY DEF Init, Workers
<1> QED BY <1>1, <1>2, <1>3, TypeInit
        DEF IInv, CriticalSections, SrcfdBeforeWork, Posted, Requested, SlotFree, NotCall

(* A step of the main thread keeps IInv. *)
LEMMA CriticalCtr ==
    ASSUME IInv, CtrNext, TypeOK'
    PROVE  IInv'
<1> USE DEF IInv, CriticalSections, SrcfdBeforeWork, Posted, Requested, SlotFree, NotCall
<1>0. CTR \notin Workers /\ "free" \notin Workers
  BY DEF Workers
<1>1. CASE CtrTop \/ CtrRead \/ CtrReadEof \/ CtrReadError \/ CtrTestReq \/ CtrTestIdle
             \/ CtrTestBusy \/ CtrIllegal \/ CtrCancel \/ CtrSleep \/ CtrClose
             \/ CtrCreateFails
  BY <1>1 DEF CtrTop, CtrRead, CtrReadEof, CtrReadError, CtrTestReq, CtrTestIdle,
              CtrTestBusy, CtrIllegal, CtrCancel, CtrSleep, CtrClose, CtrCreateFails
<1>2. CASE CtrTestPrio \/ CtrCompare
  <2>1. reg > exc => exc # PRI_CALL
    BY DEF TypeOK
  <2> QED BY <1>2, <2>1 DEF CtrTestPrio, CtrCompare
<1>3. CASE CtrLock
  BY <1>3, <1>0 DEF CtrLock, AfterLock
<1>4. CASE CtrPost \/ CtrGrant \/ CtrPreempt
  BY <1>4, <1>0 DEF CtrPost, CtrGrant, CtrPreempt
<1>5. CASE CtrCreate
  <2>1. \A t \in Workers : worker'[t] # "idle" => worker'[t] = worker[t]
    BY <1>5 DEF CtrCreate, Workers, TypeOK
  <2>2. worker'[MSG] = worker[MSG]
    BY <1>5 DEF CtrCreate, Workers, TypeOK
  <2> QED BY <1>5, <2>1, <2>2 DEF CtrCreate
<1> QED BY <1>1, <1>2, <1>3, <1>4, <1>5 DEF CtrNext

(* So does a step of a worker that is giving the slot back, *)
LEMMA CriticalFinish ==
    ASSUME IInv, TypeOK', NEW t \in Workers, Finish(t) \/ GiveUp(t)
    PROVE  IInv'
<1> USE DEF IInv, CriticalSections, SrcfdBeforeWork, Posted, Requested, SlotFree, NotCall
<1>0. CTR \notin Workers /\ "free" \notin Workers /\ MSG \in Workers
  BY DEF Workers
<1>1. \A u \in Workers : u # t /\ (\E l : Move(t, l)) => worker'[u] = worker[u]
  BY DEF TypeOK
<1>2. CASE FinishLock(t)
  BY <1>0, <1>2 DEF FinishLock, TypeOK
<1>3. CASE FinishClearReq(t)
  BY <1>0, <1>3 DEF FinishClearReq, TypeOK
<1>4. CASE FinishClearExc(t)
  BY <1>0, <1>4 DEF FinishClearExc, TypeOK
<1>5. CASE FinishUnlock(t)
  BY <1>0, <1>5 DEF FinishUnlock, TypeOK
<1>6. CASE GiveUp(t)
  BY <1>6 DEF GiveUp
<1> QED BY <1>2, <1>3, <1>4, <1>5, <1>6 DEF Finish

(* any other step of the sender, *)
LEMMA CriticalMsg ==
    ASSUME IInv, TypeOK', MsgNext
    PROVE  IInv'
<1>0. MSG \in Workers
  BY DEF Workers
<1>1. CASE Finish(MSG) \/ GiveUp(MSG)
  BY <1>0, <1>1, CriticalFinish
<1> USE DEF IInv, CriticalSections, SrcfdBeforeWork, Posted, Requested, SlotFree, NotCall
<1>2. CASE MsgBegin
  BY <1>0, <1>2 DEF MsgBegin, TypeOK
<1>3. CASE MsgJudged \/ MsgReadEof \/ MsgSent \/ MsgSendFail
  BY <1>0, <1>3 DEF MsgJudged, MsgReadEof, MsgSent, MsgSendFail, TypeOK
<1>4. CASE MsgOccupy \/ MsgReadContent \/ MsgReadNumber \/ MsgReadError \/ MsgRelease
  BY <1>0, <1>4 DEF MsgOccupy, MsgReadContent, MsgReadNumber, MsgReadError, MsgRelease, TypeOK
<1> QED BY <1>1, <1>2, <1>3, <1>4 DEF MsgNext, MsgSteps

(* and any other step of a reader, its death included. *)
LEMMA CriticalRv ==
    ASSUME IInv, TypeOK', NEW r \in Readers, RvNext(r)
    PROVE  IInv'
<1>0. r \in Workers /\ MSG \in Workers /\ MSG \notin Readers /\ CTR \notin Workers
  BY DEF Workers
<1>1. CASE Finish(r) \/ GiveUp(r)
  BY <1>0, <1>1, CriticalFinish
<1> USE DEF IInv, CriticalSections, SrcfdBeforeWork, Posted, Requested, SlotFree, NotCall
<1>2. CASE RvBegin(r) \/ RvJudged(r) \/ RvListed(r) \/ RvWaited(r)
  BY <1>0, <1>2 DEF RvBegin, RvJudged, RvListed, RvWaited, TypeOK
<1>3. CASE RvDie(r)
  BY <1>0, <1>3 DEF RvDie, TypeOK
<1> QED BY <1>1, <1>2, <1>3 DEF RvNext, RvSteps

LEMMA CriticalNext == IInv /\ [Next]_vars => IInv'
<1> SUFFICES ASSUME IInv, [Next]_vars PROVE IInv'
  OBVIOUS
<1>1. TypeOK'
  BY TypeNext DEF IInv
<1> USE DEF IInv, CriticalSections, SrcfdBeforeWork, Posted, Requested, SlotFree, NotCall
<1>2. CASE UNCHANGED vars
  BY <1>1, <1>2 DEF vars
<1>3. CASE ClientSend \/ ClientLeave \/ sig_sigint
  BY <1>1, <1>3 DEF ClientSend, ClientLeave, sig_sigint
<1> QED BY <1>1, <1>2, <1>3, CriticalCtr, CriticalMsg, CriticalRv DEF Next

THEOREM CriticalInv == Spec => []IInv
BY CriticalInit, CriticalNext, PTL DEF Spec

(* The record is written by one thread at a time, and only by the thread    *)
(* that locked the mutex, also when readers are cancelled in the middle.    *)
THEOREM CriticalSectionsHold == Spec => []CriticalSections
<1>1. IInv => CriticalSections
  BY DEF IInv
<1> QED BY <1>1, CriticalInv, PTL

(* The descriptor the sender reads without the lock is the client's.        *)
THEOREM SrcfdIsReady == Spec => []SrcfdBeforeWork
<1>1. IInv => SrcfdBeforeWork
  BY DEF IInv
<1> QED BY <1>1, CriticalInv, PTL

(* No step takes the slot from a running request for a lower one.           *)
(* And what main grants is the command it read last, or nothing.            *)
THEOREM PriorityOnlyRises == Spec => PriorityNeverDemoted
<1> DEFINE Rises == exc' \notin {0, exc} =>
                      exc' > exc /\ (ctr = "grant" => exc' = getreq(cmd_buff))
<1>1. IInv /\ [Next]_vars => [Rises]_vars
  <2> SUFFICES ASSUME IInv, Next PROVE Rises
    OBVIOUS
  <2>0. exc \in 0..3
    BY DEF IInv, TypeOK
  <2>1. CASE CtrGrant
    BY <2>0, <2>1 DEF CtrGrant, IInv, TypeOK, SlotFree, Requested
  <2>2. CASE CtrPreempt
    BY <2>0, <2>2 DEF CtrPreempt, IInv, NotCall
  <2>3. CASE CtrNext /\ ~CtrGrant /\ ~CtrPreempt
    <3>1. exc' = exc
      BY <2>3 DEF CtrNext, CtrTop, CtrRead, CtrReadEof, CtrReadError, CtrLock, CtrPost,
              CtrTestReq, CtrTestIdle, CtrTestBusy, CtrIllegal, CtrTestPrio, CtrCompare,
              CtrCancel, CtrCreate, CtrCreateFails, CtrSleep, CtrClose
    <3> QED BY <3>1, <2>0
  <2>4. ASSUME NEW t \in Workers, Finish(t) \/ GiveUp(t)
        PROVE  exc' = exc \/ exc' = 0
    BY <2>4 DEF Finish, GiveUp, FinishLock, FinishClearReq, FinishClearExc, FinishUnlock
  <2>5. CASE MsgNext
    <3>1. exc' = exc \/ exc' = 0
      BY <2>4, <2>5 DEF MsgNext, MsgSteps, MsgBegin, MsgJudged, MsgOccupy, MsgReadContent,
              MsgReadNumber, MsgReadEof, MsgReadError, MsgSent, MsgSendFail, MsgRelease, Workers
    <3> QED BY <3>1, <2>0
  <2>6. ASSUME NEW r \in Readers, RvNext(r)
        PROVE  Rises
    <3>1. exc' = exc \/ exc' = 0
      BY <2>4, <2>6 DEF RvNext, RvSteps, RvBegin, RvJudged, RvListed, RvWaited, RvDie, Workers
    <3> QED BY <3>1, <2>0
  <2>7. CASE ClientSend \/ ClientLeave \/ sig_sigint
    BY <2>0, <2>7 DEF ClientSend, ClientLeave, sig_sigint
  <2> QED BY <2>1, <2>2, <2>3, <2>5, <2>6, <2>7 DEF Next
<1> QED BY <1>1, CriticalInv, PTL DEF Spec, PriorityNeverDemoted

-----------------------------------------------------------------------------
(* Who owns the slot, when a cancelled reader runs no further code.         *)

(* A worker is only at the locations of its own start routine; *)
Places ==
    /\ worker[MSG] \in {"idle", "unlock"} \cup MsgBusy
    /\ \A r \in Readers : worker[r] \in {"none", "idle", "unlock"} \cup ReadBusy

(* the only reader that still runs is the one created last; *)
LastReader == \A r \in Readers : Acting(r) => r = tid_rvmsg

(* and from its cancellation to the creation of the next one none runs.     *)
NoReader == ctr \in {"lock3", "preempt", "create"} => \A r \in Readers : ~Acting(r)

OInv == IInv /\ SlotOwned /\ Places /\ LastReader /\ NoReader

LEMMA OwnedInit == Init => OInv
<1> SUFFICES ASSUME Init PROVE OInv
  OBVIOUS
<1>1. /\ ctr = "top" /\ MSG \in Workers /\ MSG \notin Readers
      /\ \A r \in Readers : r \in Workers /\ (worker[r] # "none" => r = tid_rvmsg)
  BY DEF Init, Workers
<1>2. \A t \in Workers : worker[t] \in {"none", "idle"} /\ (t = MSG => worker[t] = "idle")
  BY DEF Init, Workers
<1> QED BY <1>1, <1>2, CriticalInit
        DEF OInv, SlotOwned, Places, LastReader, NoReader, Acting, Busy, MsgBusy, ReadBusy, Finishing

(* The main thread changes exc only when nobody who runs is busy with       *)
(* anything else.                                                           *)
LEMMA OwnedCtr ==
    ASSUME PromptCancel, OInv, CtrNext, IInv'
    PROVE  OInv'
<1> USE DEF OInv, SlotOwned, Places, LastReader, NoReader, Acting
<1>0. Workers = {MSG} \cup Readers /\ MSG \notin Readers
  BY DEF Workers
<1>1. CASE CtrTop \/ CtrRead \/ CtrReadEof \/ CtrReadError \/ CtrLock \/ CtrPost
             \/ CtrTestReq \/ CtrTestIdle \/ CtrTestBusy \/ CtrIllegal \/ CtrTestPrio
             \/ CtrCompare \/ CtrSleep \/ CtrClose \/ CtrCreateFails
  BY <1>1 DEF CtrTop, CtrRead, CtrReadEof, CtrReadError, CtrLock, AfterLock, CtrPost,
              CtrTestReq, CtrTestIdle, CtrTestBusy, CtrIllegal, CtrTestPrio, CtrCompare,
              CtrSleep, CtrClose, CtrCreateFails, Busy
<1>2. CASE CtrCancel
  BY <1>0, <1>2 DEF CtrCancel, Busy
<1>3. CASE CtrGrant
  <2>1. exc = 0
    BY <1>3 DEF CtrGrant, IInv, SlotFree
  <2>2. \A t \in Workers : ~(Acting(t) /\ Busy(t))
    BY <2>1
  <2>3. ASSUME NEW t \in Workers PROVE ~(Acting(t)' /\ Busy(t)')
    BY <1>3, <2>2 DEF CtrGrant, Busy
  <2> QED BY <1>3, <2>3 DEF CtrGrant
<1>4. CASE CtrPreempt
  <2>1. \A r \in Readers : ~Acting(r)
    BY <1>4 DEF CtrPreempt
  <2> QED BY <1>0, <1>4, <2>1 DEF CtrPreempt, Busy
<1>5. CASE CtrCreate
  <2> PICK r \in Readers : /\ worker[r] = "none"
                           /\ worker' = [worker EXCEPT ![r] = "idle"]
                           /\ tid_rvmsg' = r
    BY <1>5 DEF CtrCreate
  <2>1. \A t \in Workers : worker'[t] = IF t = r THEN "idle" ELSE worker[t]
    BY <1>0 DEF IInv, TypeOK
  <2>2. \A q \in Readers : Acting(q)' => q = r
    BY <1>0, <1>5, <2>1 DEF CtrCreate
  <2>3. SlotOwned'
    BY <1>0, <1>5, <2>1, <2>2 DEF CtrCreate, Busy, MsgBusy, ReadBusy, Finishing
  <2>4. Places'
    BY <1>0, <2>1
  <2> QED BY <1>5, <2>2, <2>3, <2>4 DEF CtrCreate
<1> QED BY <1>1, <1>2, <1>3, <1>4, <1>5 DEF CtrNext

(* Only the owner of the slot gives it back.                                *)
LEMMA OwnedFinish ==
    ASSUME PromptCancel, OInv, IInv', NEW t \in Workers, Acting(t), Finish(t) \/ GiveUp(t)
    PROVE  OInv'
<1> USE DEF OInv, SlotOwned, Places, LastReader, NoReader, Acting
<1>0. Workers = {MSG} \cup Readers /\ MSG \notin Readers
  BY DEF Workers
<1>1. \A u \in Workers, l \in Locations :
          Move(t, l) => worker'[u] = IF u = t THEN l ELSE worker[u]
  BY DEF IInv, TypeOK
<1> USE DEF Busy, MsgBusy, ReadBusy, Finishing, Locations
<1>2. CASE FinishLock(t)
  BY <1>0, <1>1, <1>2 DEF FinishLock
<1>3. CASE FinishClearReq(t)
  BY <1>0, <1>1, <1>3 DEF FinishClearReq
<1>4. CASE FinishClearExc(t)
  <2>1. \A u \in Workers : Acting(u) /\ Busy(u) => u = t
    BY <1>0, <1>4 DEF FinishClearExc
  <2> QED BY <1>0, <1>1, <1>4, <2>1 DEF FinishClearExc
<1>5. CASE FinishUnlock(t)
  BY <1>0, <1>1, <1>5 DEF FinishUnlock
<1>6. CASE GiveUp(t)
  BY <1>6 DEF GiveUp
<1> QED BY <1>2, <1>3, <1>4, <1>5, <1>6 DEF Finish

LEMMA OwnedMsg ==
    ASSUME PromptCancel, OInv, IInv', MsgNext
    PROVE  OInv'
<1>0. Workers = {MSG} \cup Readers /\ MSG \notin Readers
  BY DEF Workers
<1>1. CASE Finish(MSG) \/ GiveUp(MSG)
  <2>1. Acting(MSG)
    BY <1>0 DEF OInv, IInv, TypeOK, Places, Acting, MsgBusy, Finishing
  <2> QED BY <1>0, <1>1, <2>1, OwnedFinish
<1> USE DEF OInv, SlotOwned, Places, LastReader, NoReader, Acting
<1>2. \A u \in Workers, l \in Locations :
          Move(MSG, l) => worker'[u] = IF u = MSG THEN l ELSE worker[u]
  BY <1>0 DEF IInv, TypeOK
<1> USE DEF Busy, MsgBusy, ReadBusy, Finishing, Locations
<1>3. CASE MsgBegin \/ MsgJudged \/ MsgReadEof \/ MsgSent \/ MsgSendFail
  BY <1>0, <1>2, <1>3, ZenonT(30) DEF MsgBegin, MsgJudged, MsgReadEof, MsgSent, MsgSendFail
<1>4. CASE MsgOccupy \/ MsgReadContent \/ MsgReadNumber \/ MsgReadError \/ MsgRelease
  BY <1>0, <1>2, <1>4, ZenonT(30) DEF MsgOccupy, MsgReadContent, MsgReadNumber, MsgReadError, MsgRelease
<1> QED BY <1>1, <1>3, <1>4 DEF MsgNext, MsgSteps

LEMMA OwnedRv ==
    ASSUME PromptCancel, OInv, IInv', NEW r \in Readers, RvNext(r)
    PROVE  OInv'
<1>0. Workers = {MSG} \cup Readers /\ MSG \notin Readers
  BY DEF Workers
<1>1. CASE Acting(r) /\ (Finish(r) \/ GiveUp(r))
  BY <1>0, <1>1, OwnedFinish
<1> USE DEF OInv, SlotOwned, Places, LastReader, NoReader, Acting
<1>2. \A u \in Workers, l \in Locations :
          Move(r, l) => worker'[u] = IF u = r THEN l ELSE worker[u]
  BY <1>0 DEF IInv, TypeOK
<1> USE DEF Busy, MsgBusy, ReadBusy, Finishing, Locations
<1>3. CASE Acting(r) /\ (RvBegin(r) \/ RvJudged(r) \/ RvListed(r) \/ RvWaited(r))
  <2>1. exc = PRI_READMEG /\ UNCHANGED <<exc, ctr, tid_rvmsg, cancelled>>
    BY <1>0, <1>3 DEF RvBegin, RvJudged, RvListed, RvWaited
  <2>2. PICK l \in {"judge", "list", "wait", "lock"} :
            \A u \in Workers : worker'[u] = IF u = r THEN l ELSE worker[u]
    BY <1>0, <1>2, <1>3 DEF RvBegin, RvJudged, RvListed, RvWaited
  <2> QED BY <1>0, <1>3, <2>1, <2>2
<1>4. CASE RvDie(r)
  <2>1. \A u \in Workers : worker'[u] = IF u = r THEN "none" ELSE worker[u]
    BY <1>0, <1>4 DEF RvDie, IInv, TypeOK
  <2> QED BY <1>0, <1>4, <2>1, ZenonT(30) DEF RvDie
<1> QED BY <1>1, <1>3, <1>4 DEF RvNext, RvSteps

LEMMA OwnedNext ==
    ASSUME PromptCancel
    PROVE  OInv /\ [Next]_vars => OInv'
<1> SUFFICES ASSUME OInv, [Next]_vars PROVE OInv'
  OBVIOUS
<1>1. IInv'
  BY CriticalNext DEF OInv
<1> USE DEF OInv, SlotOwned, Places, LastReader, NoReader, Acting, Busy
<1>2. CASE UNCHANGED vars
  BY <1>1, <1>2 DEF vars
<1>3. CASE ClientSend \/ ClientLeave \/ sig_sigint
  BY <1>1, <1>3 DEF ClientSend, ClientLeave, sig_sigint
<1> QED BY <1>1, <1>2, <1>3, OwnedCtr, OwnedMsg, OwnedRv DEF Next

LEMMA OwnedInv ==
    ASSUME PromptCancel
    PROVE  Spec => []OInv
BY OwnedInit, OwnedNext, PTL DEF Spec

(* The slot names the job of every worker that is busy, if a cancelled      *)
(* reader stops at once.                                                    *)
THEOREM SlotIsOwned ==
    ASSUME PromptCancel
    PROVE  Spec => []SlotOwned
<1>1. OInv => SlotOwned
  BY DEF OInv
<1> QED BY <1>1, OwnedInv, PTL

(* Under the same assumption two threads never use the modem together.      *)
THEOREM SerialIsExclusive ==
    ASSUME PromptCancel
    PROVE  Spec => []SerialExclusive
<1>1. OInv => SerialExclusive
  <2> SUFFICES ASSUME OInv, NEW t \in SerialUsers, NEW u \in SerialUsers
               PROVE  t = u
    BY DEF SerialExclusive
  <2>1. /\ t \in Workers /\ Acting(t) /\ Busy(t)
        /\ u \in Workers /\ Acting(u) /\ Busy(u)
    BY DEF SerialUsers, OInv, Places, Busy, MsgBusy, ReadBusy, Finishing, Workers
  <2> QED BY <2>1 DEF OInv, SlotOwned, LastReader, Workers
<1> QED BY <1>1, OwnedInv, PTL

(* A mutex whose owner was cancelled is locked for good: main waits for it   *)
(* at its next lock, and no request is served again.                        *)
THEOREM OrphanedForGood ==
    Spec => [][lock = "orphaned" => lock' = "orphaned"]_vars
<1> DEFINE Stays == lock = "orphaned" => lock' = "orphaned"
<1>1. IInv /\ [Next]_vars => [Stays]_vars
  <2> SUFFICES ASSUME IInv, Next, lock = "orphaned" PROVE lock' = "orphaned"
    OBVIOUS
  <2>0. CTR # "orphaned" /\ "orphaned" \notin Workers /\ MSG \in Workers
    BY DEF Workers
  <2>1. CASE CtrNext
    BY <2>1, <2>0 DEF IInv, CriticalSections, CtrNext, CtrTop, CtrRead, CtrReadEof,
       CtrReadError, CtrLock, CtrPost, CtrTestReq, CtrTestIdle, CtrGrant, CtrTestBusy,
       CtrIllegal, CtrTestPrio, CtrCompare, CtrCancel, CtrPreempt, CtrCreate,
       CtrCreateFails, CtrSleep, CtrClose
  <2>2. ASSUME NEW t \in Workers, Finish(t) \/ GiveUp(t)
        PROVE  lock' = "orphaned"
    BY <2>0, <2>2 DEF IInv, CriticalSections, Finish, GiveUp, FinishLock, FinishClearReq,
       FinishClearExc, FinishUnlock
  <2>3. CASE MsgNext
    BY <2>0, <2>2, <2>3 DEF MsgNext, MsgSteps, MsgBegin, MsgJudged, MsgOccupy,
       MsgReadContent, MsgReadNumber, MsgReadEof, MsgReadError, MsgSent, MsgSendFail, MsgRelease
  <2>4. ASSUME NEW r \in Readers, RvNext(r)
        PROVE  lock' = "orphaned"
    BY <2>0, <2>2, <2>4 DEF RvNext, RvSteps, RvBegin, RvJudged, RvListed, RvWaited, RvDie,
       Workers
  <2>5. CASE ClientSend \/ ClientLeave \/ sig_sigint
    BY <2>5 DEF ClientSend, ClientLeave, sig_sigint
  <2> QED BY <2>1, <2>3, <2>4, <2>5 DEF Next
<1> QED BY <1>1, CriticalInv, PTL DEF Spec

(* A call that was granted the slot keeps it for good, since no thread      *)
(* serves it and main preempts only what ranks lower.                       *)
THEOREM CallKeepsSlot ==
    ASSUME PromptCancel
    PROVE  Spec => [][exc = PRI_CALL => exc' = PRI_CALL]_vars
<1> DEFINE Keeps == exc = PRI_CALL => exc' = PRI_CALL
<1>1. OInv /\ [Next]_vars => [Keeps]_vars
  <2> SUFFICES ASSUME OInv, Next, exc = PRI_CALL PROVE exc' = PRI_CALL
    OBVIOUS
  <2>0. MSG \in Workers /\ Workers = {MSG} \cup Readers
    BY DEF Workers
  <2>1. CASE CtrNext
    BY <2>1 DEF OInv, IInv, SlotFree, NotCall, CtrNext, CtrTop, CtrRead, CtrReadEof,
       CtrReadError, CtrLock, CtrPost, CtrTestReq, CtrTestIdle, CtrGrant, CtrTestBusy,
       CtrIllegal, CtrTestPrio, CtrCompare, CtrCancel, CtrPreempt, CtrCreate,
       CtrCreateFails, CtrSleep, CtrClose
  <2>2. ASSUME NEW t \in Workers, Acting(t), Finish(t) \/ GiveUp(t)
        PROVE  exc' = PRI_CALL
    <3>1. ~Busy(t)
      BY <2>2 DEF OInv, SlotOwned
    <3>2. ~FinishClearExc(t)
      BY <3>1 DEF FinishClearExc, Busy, MsgBusy, ReadBusy, Finishing
    <3> QED BY <2>2, <3>2 DEF Finish, GiveUp, FinishLock, FinishClearReq, FinishUnlock
  <2>3. CASE MsgNext
    <3>1. Acting(MSG)
      BY <2>0 DEF OInv, IInv, TypeOK, Places, Acting, MsgBusy, Finishing
    <3> QED BY <2>0, <2>2, <2>3, <3>1 DEF MsgNext, MsgSteps, MsgBegin, MsgJudged, MsgOccupy,
       MsgReadContent, MsgReadNumber, MsgReadEof, MsgReadError, MsgSent, MsgSendFail, MsgRelease
  <2>4. ASSUME NEW r \in Readers, RvNext(r)
        PROVE  exc' = PRI_CALL
    BY <2>0, <2>2, <2>4 DEF RvNext, RvSteps, RvBegin, RvJudged, RvListed, RvWaited, RvDie
  <2>5. CASE ClientSend \/ ClientLeave \/ sig_sigint
    BY <2>5 DEF ClientSend, ClientLeave, sig_sigint
  <2> QED BY <2>1, <2>3, <2>4, <2>5 DEF Next
<1> QED BY <1>1, OwnedInv, PTL DEF Spec

-----------------------------------------------------------------------------
(* ModemJobs is implemented: what a step makes of the jobs.                 *)

LEMMA OneAtJob ==
    ASSUME OInv, NEW t \in Workers, AtJob(t)
    PROVE  /\ exc = (IF t = MSG THEN PRI_SENDMEG ELSE PRI_READMEG)
           /\ \A u \in Workers : AtJob(u) => u = t
<1>1. ASSUME NEW u \in Workers, AtJob(u)
      PROVE  /\ exc = (IF u = MSG THEN PRI_SENDMEG ELSE PRI_READMEG)
             /\ u # MSG => u = tid_rvmsg
  <2>1. Acting(u) /\ Busy(u)
    BY <1>1 DEF AtJob, Busy, MsgBusy, ReadBusy
  <2> QED BY <2>1 DEF OInv, SlotOwned, LastReader, Workers
<1>2. ASSUME NEW u \in Workers, AtJob(u) PROVE u = t
  BY <1>1, <1>2 DEF PRI_SENDMEG, PRI_READMEG
<1> QED BY <1>1, <1>2

SameJobs == \A t \in Workers : /\ AtJob(t)' <=> AtJob(t)
                               /\ AtJob(t) => Kind(t)' = Kind(t)
NoJobs   == \A t \in Workers : ~AtJob(t)

(* The steps of ModemJobs, as changes of one thread.                        *)
LEMMA JobsMove ==
    ASSUME \/ SameJobs
           \/ NoJobs'
           \/ /\ NoJobs
              /\ \E t \in Workers : /\ AtJob(t)' /\ Kind(t)' \in {"list", "send"}
                                    /\ \A u \in Workers : AtJob(u)' => u = t
           \/ \E t \in Workers : /\ AtJob(t) /\ Kind(t) = "list"
                                 /\ AtJob(t)' /\ Kind(t)' = "wait"
                                 /\ \A u \in Workers : AtJob(u) \/ AtJob(u)' => u = t
    PROVE  [J!Next]_Jobs
<1>1. CASE SameJobs
  <2>1. \A j : j \in Jobs' <=> j \in Jobs
    BY <1>1 DEF SameJobs, Jobs
  <2>2. Jobs' = Jobs
    BY <2>1
  <2> QED BY <2>2
<1>2. CASE NoJobs'
  BY <1>2 DEF NoJobs, Jobs, J!Next, J!Over
<1>3. ASSUME NoJobs, NEW t \in Workers, AtJob(t)', Kind(t)' \in {"list", "send"},
             \A u \in Workers : AtJob(u)' => u = t
      PROVE  J!Next
  <2>1. Jobs = {}
    BY <1>3 DEF NoJobs, Jobs
  <2>2. Jobs' = {<<t, Kind(t)'>>}
    BY <1>3 DEF Jobs
  <2> QED BY <1>3, <2>1, <2>2 DEF J!Next, J!Begin
<1>4. ASSUME NEW t \in Workers, AtJob(t), Kind(t) = "list", AtJob(t)', Kind(t)' = "wait",
             \A u \in Workers : AtJob(u) \/ AtJob(u)' => u = t
      PROVE  J!Next
  <2>1. Jobs = {<<t, "list">>}
    BY <1>4 DEF Jobs
  <2>2. Jobs' = {<<t, "wait">>}
    BY <1>4 DEF Jobs
  <2> QED BY <2>1, <2>2 DEF J!Next, J!Wait
<1> QED BY <1>1, <1>2, <1>3, <1>4

LEMMA JobsCtr ==
    ASSUME PromptCancel, OInv, CtrNext
    PROVE  [J!Next]_Jobs
<1>0. Workers = {MSG} \cup Readers /\ MSG \notin Readers
  BY DEF Workers
<1>1. CASE UNCHANGED threads
  <2>1. SameJobs
    BY <1>1 DEF SameJobs, AtJob, Kind, Acting, threads
  <2> QED BY <2>1, JobsMove
<1>2. CASE CtrCancel
  <2>1. worker' = worker /\ cancelled' = cancelled \cup {tid_rvmsg}
    BY <1>2 DEF CtrCancel
  <2>2. tid_rvmsg \in Workers
    BY <1>0 DEF OInv, IInv, TypeOK
  <2>3. CASE AtJob(tid_rvmsg)
    <3>1. NoJobs'
      BY <2>1, <2>2, <2>3, OneAtJob DEF NoJobs, AtJob, Acting
    <3> QED BY <3>1, JobsMove
  <2>4. CASE ~AtJob(tid_rvmsg)
    <3>1. SameJobs
      BY <2>1, <2>2, <2>4 DEF SameJobs, AtJob, Kind, Acting
    <3> QED BY <3>1, JobsMove
  <2> QED BY <2>3, <2>4
<1>3. CASE CtrCreate
  <2>1. PICK r \in Readers : /\ worker[r] = "none" /\ cancelled' = cancelled
                             /\ worker' = [worker EXCEPT ![r] = "idle"]
    BY <1>3 DEF CtrCreate, Move
  <2>2. \A t \in Workers : worker'[t] = IF t = r THEN "idle" ELSE worker[t]
    BY <1>0, <2>1 DEF OInv, IInv, TypeOK
  <2>3. SameJobs
    BY <1>0, <2>1, <2>2 DEF SameJobs, AtJob, Kind, Acting
  <2> QED BY <2>3, JobsMove
<1>4. CASE ~(CtrCancel \/ CtrCreate)
  <2>1. UNCHANGED threads
    BY <1>4 DEF CtrNext, CtrTop, CtrRead, CtrReadEof, CtrReadError, CtrLock, CtrPost,
       CtrTestReq, CtrTestIdle, CtrGrant, CtrTestBusy, CtrIllegal, CtrTestPrio, CtrCompare,
       CtrPreempt, CtrCreateFails, CtrSleep, CtrClose, Exit
  <2> QED BY <1>1, <2>1
<1> QED BY <1>2, <1>3, <1>4

(* A step of a worker: what it does at its new location, nobody else does.  *)
LEMMA JobsWorker ==
    ASSUME PromptCancel, OInv, NEW t \in Workers, Acting(t), NEW l, l # "none",
           UNCHANGED cancelled,
           \A u \in Workers : worker'[u] = IF u = t THEN l ELSE worker[u],
           \/ AtJob(t)' <=> AtJob(t)
           \/ AtJob(t)
           \/ exc = (IF t = MSG THEN PRI_SENDMEG ELSE PRI_READMEG) /\ Kind(t)' # "wait",
           AtJob(t) /\ AtJob(t)' => \/ Kind(t)' = Kind(t)
                                    \/ Kind(t) = "list" /\ Kind(t)' = "wait"
    PROVE  [J!Next]_Jobs
<1>1. ASSUME NEW u \in Workers, u # t
      PROVE  (AtJob(u)' <=> AtJob(u)) /\ Kind(u)' = Kind(u)
  BY <1>1 DEF AtJob, Kind, Acting
<1>2. CASE AtJob(t)
  <2>1. \A u \in Workers : AtJob(u) \/ AtJob(u)' => u = t
    BY <1>1, <1>2, OneAtJob
  <2>2. CASE ~AtJob(t)'
    <3>1. NoJobs'
      BY <2>1, <2>2 DEF NoJobs
    <3> QED BY <3>1, JobsMove
  <2>3. CASE AtJob(t)' /\ Kind(t)' = Kind(t)
    <3>1. SameJobs
      BY <1>1, <1>2, <2>3 DEF SameJobs
    <3> QED BY <3>1, JobsMove
  <2>4. CASE AtJob(t)' /\ Kind(t) = "list" /\ Kind(t)' = "wait"
    BY <1>2, <2>1, <2>4, JobsMove
  <2> QED BY <1>2, <2>2, <2>3, <2>4
<1>3. CASE ~AtJob(t) /\ ~AtJob(t)'
  <2>1. SameJobs
    BY <1>1, <1>3 DEF SameJobs
  <2> QED BY <2>1, JobsMove
<1>4. CASE ~AtJob(t) /\ AtJob(t)'
  <2>1. exc = (IF t = MSG THEN PRI_SENDMEG ELSE PRI_READMEG) /\ Kind(t)' \in {"list", "send"}
    BY <1>4 DEF Kind
  <2>2. ASSUME NEW u \in Workers, AtJob(u) PROVE FALSE
    <3>1. exc = (IF u = MSG THEN PRI_SENDMEG ELSE PRI_READMEG)
      BY <2>2, OneAtJob
    <3>2. u # MSG /\ t # MSG
      BY <1>4, <2>1, <2>2, <3>1 DEF PRI_SENDMEG, PRI_READMEG
    <3>3. Acting(u)
      BY <2>2 DEF AtJob
    <3>4. u = t
      BY <3>2, <3>3 DEF OInv, LastReader, Workers
    <3> QED BY <1>4, <2>2, <3>4
  <2>3. NoJobs /\ \A u \in Workers : AtJob(u)' => u = t
    BY <1>1, <2>2 DEF NoJobs
  <2> QED BY <1>4, <2>1, <2>3, JobsMove
<1> QED BY <1>2, <1>3, <1>4

LEMMA JobsFinish ==
    ASSUME PromptCancel, OInv, NEW t \in Workers, Acting(t), Finish(t) \/ GiveUp(t)
    PROVE  [J!Next]_Jobs
<1>1. CASE GiveUp(t)
  <2>1. SameJobs
    BY <1>1 DEF GiveUp, Exit, SameJobs, AtJob, Kind, Acting, threads
  <2> QED BY <2>1, JobsMove
<1>2. CASE Finish(t)
  <2>1. PICK l \in {"clear_req", "clear_exc", "unlock", "idle"} :
            Move(t, l) /\ worker[t] \in Finishing \cup {"unlock"}
    BY <1>2 DEF Finish, FinishLock, FinishClearReq, FinishClearExc, FinishUnlock, Finishing
  <2>2. l \in Locations /\ l # "none"
    BY DEF Locations, MsgBusy, Finishing
  <2>3. /\ UNCHANGED cancelled
        /\ \A u \in Workers : worker'[u] = IF u = t THEN l ELSE worker[u]
    BY <2>1 DEF OInv, IInv, TypeOK
  <2>4. ~AtJob(t) /\ ~AtJob(t)'
    BY <2>1, <2>3 DEF AtJob, Finishing
  <2> QED BY <2>2, <2>3, <2>4, JobsWorker
<1> QED BY <1>1, <1>2

LEMMA JobsMsg ==
    ASSUME PromptCancel, OInv, MsgNext
    PROVE  [J!Next]_Jobs
<1>0. MSG \in Workers /\ MSG \notin Readers /\ Acting(MSG)
  BY DEF Workers, OInv, IInv, TypeOK, Places, Acting, MsgBusy, Finishing
<1>1. CASE Finish(MSG) \/ GiveUp(MSG)
  BY <1>0, <1>1, JobsFinish
<1>2. CASE ~(Finish(MSG) \/ GiveUp(MSG))
  <2>1. PICK l \in {"idle", "judge", "occupy", "content", "number", "send", "release", "lock"} :
            /\ Move(MSG, l)
            /\ \/ worker[MSG] = "idle" /\ exc = PRI_SENDMEG
               \/ worker[MSG] \in {"judge", "occupy", "content", "number", "send"}
               \/ worker[MSG] = "release" /\ l = "lock"
    BY <1>2 DEF MsgNext, MsgSteps, MsgBegin, MsgJudged, MsgOccupy, MsgReadContent, MsgReadNumber,
       MsgReadEof, MsgReadError, MsgSent, MsgSendFail, MsgRelease, Pass
  <2>2. l \in Locations /\ l # "none"
    BY DEF Locations, MsgBusy, Finishing
  <2>3. /\ UNCHANGED cancelled
        /\ \A u \in Workers : worker'[u] = IF u = MSG THEN l ELSE worker[u]
    BY <1>0, <2>1 DEF OInv, IInv, TypeOK
  <2>4. \/ AtJob(MSG)' <=> AtJob(MSG)
        \/ AtJob(MSG)
        \/ exc = PRI_SENDMEG
    BY <1>0, <2>1, <2>3 DEF AtJob, Acting
  <2>5. Kind(MSG) = "send" /\ Kind(MSG)' = "send"
    BY DEF Kind
  <2> QED BY <1>0, <2>2, <2>3, <2>4, <2>5, JobsWorker
<1> QED BY <1>1, <1>2

LEMMA JobsRv ==
    ASSUME PromptCancel, OInv, NEW r \in Readers, RvNext(r)
    PROVE  [J!Next]_Jobs
<1>0. r \in Workers /\ r # MSG
  BY DEF Workers
<1>1. CASE Acting(r) /\ (Finish(r) \/ GiveUp(r))
  BY <1>0, <1>1, JobsFinish
<1>2. CASE RvDie(r)
  <2>1. /\ r \in cancelled /\ cancelled' = cancelled \ {r}
        /\ \A u \in Workers : worker'[u] = IF u = r THEN "none" ELSE worker[u]
    BY <1>0, <1>2 DEF RvDie, OInv, IInv, TypeOK
  <2>2. SameJobs
    BY <2>1 DEF SameJobs, AtJob, Kind, Acting
  <2> QED BY <2>2, JobsMove
<1>3. CASE Acting(r) /\ (RvBegin(r) \/ RvJudged(r) \/ RvListed(r) \/ RvWaited(r))
  <2>1. PICK l \in {"judge", "list", "wait", "lock"} :
            /\ Move(r, l)
            /\ \/ worker[r] = "idle" /\ exc = PRI_READMEG /\ l = "judge"
               \/ worker[r] = "judge" /\ l = "list"
               \/ worker[r] = "list" /\ l = "wait"
               \/ worker[r] = "wait" /\ l = "lock"
    BY <1>3 DEF RvBegin, RvJudged, RvListed, RvWaited, Pass
  <2>2. l \in Locations /\ l # "none"
    BY DEF Locations, ReadBusy, Finishing
  <2>3. /\ UNCHANGED cancelled
        /\ \A u \in Workers : worker'[u] = IF u = r THEN l ELSE worker[u]
    BY <1>0, <2>1 DEF OInv, IInv, TypeOK
  <2>4. \/ AtJob(r)
        \/ exc = PRI_READMEG /\ Kind(r)' # "wait"
    BY <1>0, <1>3, <2>1, <2>3 DEF AtJob, Kind
  <2>5. AtJob(r) /\ AtJob(r)' => \/ Kind(r)' = Kind(r)
                                 \/ Kind(r) = "list" /\ Kind(r)' = "wait"
    BY <1>0, <2>1, <2>3 DEF AtJob, Kind
  <2> QED BY <1>0, <1>3, <2>2, <2>3, <2>4, <2>5, JobsWorker
<1> QED BY <1>1, <1>2, <1>3 DEF RvNext, RvSteps

(* The control program gives the modem one job at a time, for any number of *)
(* reader slots and whatever is cancelled, requested or fails: refinement.  *)
THEOREM OneJobHolds ==
    ASSUME PromptCancel
    PROVE  Spec => OneJobAtATime
<1>1. Init => J!Init
  <2> SUFFICES ASSUME Init PROVE Jobs = {}
    BY DEF J!Init
  <2>1. \A t \in Workers : worker[t] \in {"idle", "none"}
    BY DEF Init
  <2> QED BY <2>1 DEF Jobs, AtJob
<1>2. OInv /\ [Next]_vars => [J!Next]_Jobs
  <2> SUFFICES ASSUME OInv, [Next]_vars PROVE [J!Next]_Jobs
    OBVIOUS
  <2>1. CASE UNCHANGED threads
    <3>1. SameJobs
      BY <2>1 DEF SameJobs, AtJob, Kind, Acting, threads
    <3> QED BY <3>1, JobsMove
  <2>2. CASE ~UNCHANGED threads
    <3>1. Next /\ ~(ClientSend \/ ClientLeave \/ sig_sigint)
      BY <2>2 DEF vars, ClientSend, ClientLeave, sig_sigint
    <3> QED BY <3>1, JobsCtr, JobsMsg, JobsRv DEF Next
  <2> QED BY <2>1, <2>2
<1> QED BY <1>1, <1>2, OwnedInv, PTL DEF Spec, OneJobAtATime, J!Spec
=============================================================================
