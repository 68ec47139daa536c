------------------------ MODULE EspirReceiverProofs -------------------------
(***************************************************************************)
(* The receiver's queue never overflows, and a call that starts with the   *)
(* receiver free returns a frame of its own time, for any lengths of       *)
(* frames.                                                                 *)
(***************************************************************************)
EXTENDS EspirReceiver, TLAPS

\* Both follow from how many frames are owed at each point of the loop.
RxInv == RxTypeOK /\ NoEventLost

LEMMA RxInitInv == RxInit => RxInv
  <1> SUFFICES ASSUME RxInit PROVE RxInv
    OBVIOUS
  <1>1. queued \in 0 .. QueueDepth /\ Owed <= 1
    BY ReceiverAssumption, SMT DEF RxInit, Owed
  <1>2. fresh \in [syms : BOOLEAN, best : BOOLEAN]
    BY DEF RxInit
  <1>3. pc = "out" /\ ~dropped
    BY DEF RxInit
  <1> QED
    BY <1>1, <1>2, <1>3 DEF RxInit, RxInv, RxTypeOK, NoEventLost

\* What the copy loop reads is a frame.
LEMMA ReadableType ==
  ASSUME RxTypeOK, NEW r \in Readable
  PROVE  r.frame \in Frame \cup {NoFrame} /\ r.fresh \in BOOLEAN
  <1>1. syms \in Frame \cup {NoFrame} /\ fresh.syms \in BOOLEAN
    BY DEF RxTypeOK
  <1>2. CASE r = [frame |-> syms, fresh |-> fresh.syms]
    BY <1>1, <1>2
  <1>3. CASE r \in [frame : Frame, fresh : {FALSE}]
    BY <1>3
  <1> QED
    BY <1>2, <1>3 DEF Readable

\* A frame that ends was owed before, and the event it leaves is owed now.
LEMMA RemoteOwed ==
  ASSUME RxInv, NEW f \in Frame, Remote(f)
  PROVE  Owed' = Owed
  <1>1. /\ armed = TRUE /\ armed' = FALSE
        /\ queued < 2 => queued' = queued + 1
    BY ReceiverAssumption DEF Remote
  <1> QED
    BY <1>1, ReceiverAssumption DEF RxInv, RxTypeOK, NoEventLost, Owed

LEMMA RxNextInv == RxInv /\ [RxNext]_rxVars => RxInv'
  <1> SUFFICES ASSUME RxInv, [RxNext]_rxVars PROVE RxInv'
    OBVIOUS
  <1> USE ReceiverAssumption DEF RxInv, RxTypeOK, NoEventLost, Owed
  <1>1. ASSUME NEW f \in Frame, Remote(f) PROVE RxInv'
    <2>1. fresh' \in [syms : BOOLEAN, best : BOOLEAN]
      BY <1>1 DEF Remote
    <2>2. /\ armed = TRUE /\ armed' = FALSE /\ syms' = f
          /\ queued < 2 => queued' = queued + 1 /\ dropped' = dropped
          /\ UNCHANGED <<pc, clean, expired, best>>
      BY <1>1 DEF Remote
    <2>3. queued' \in 0 .. 2 /\ dropped' = dropped /\ Owed' = Owed
      BY <2>2
    <2> QED
      BY <2>1, <2>2, <2>3
  <1>2. CASE Call
    <2>1. clean' \in BOOLEAN /\ expired' \in BOOLEAN
      BY <1>2 DEF Call
    <2>2. fresh' \in [syms : BOOLEAN, best : BOOLEAN]
      BY <1>2 DEF Call
    <2>3. /\ best' = NoFrame /\ pc' = "loop" /\ pc = "out"
          /\ UNCHANGED <<armed, queued, dropped, syms>>
      BY <1>2 DEF Call
    <2> QED
      BY <2>1, <2>2, <2>3
  <1>3. CASE Expire
    BY <1>3 DEF Expire
  <1>4. CASE Arm
    <2>1. /\ pc = "loop"
          /\ UNCHANGED <<queued, dropped, syms, clean, expired, best, fresh>>
      BY <1>4 DEF Arm
    <2>2. CASE armed = FALSE /\ armed' = TRUE /\ pc' = "wait"
      BY <2>1, <2>2
    <2>3. CASE armed' = armed /\ pc' = "ret"
      BY <2>1, <2>3
    <2> QED
      BY <1>4, <2>2, <2>3 DEF Arm
  <1>5. CASE TimeOut
    BY <1>5 DEF TimeOut
  <1>6. CASE Take
    <2>1. PICK r \in Readable :
             /\ best' = IF r.frame.len > best.len THEN r.frame ELSE best
             /\ fresh' = IF r.frame.len > best.len
                         THEN [fresh EXCEPT !.best = r.fresh] ELSE fresh
      BY <1>6 DEF Take
    <2>2. r.frame \in Frame \cup {NoFrame} /\ r.fresh \in BOOLEAN
      BY ReadableType
    <2>3. best' \in Frame \cup {NoFrame}
      BY <2>1, <2>2
    <2>4. fresh' \in [syms : BOOLEAN, best : BOOLEAN]
      BY <2>1, <2>2
    <2>5. /\ pc = "wait" /\ queued > 0 /\ queued' = queued - 1
          /\ pc' \in {"ret", "loop"}
          /\ UNCHANGED <<armed, dropped, syms, clean, expired>>
      BY <1>6 DEF Take
    <2> HIDE DEF NoFrame
    <2> QED
      BY <2>3, <2>4, <2>5
  <1>7. CASE Return
    BY <1>7 DEF Return
  <1>8. CASE UNCHANGED rxVars
    BY <1>8 DEF rxVars
  <1> QED
    BY <1>1, <1>2, <1>3, <1>4, <1>5, <1>6, <1>7, <1>8 DEF RxNext

\* The interrupt always finds room for its event, whatever is on the air
\* (espir_ir.c:33-40, 72).
THEOREM QueueNeverOverflows == RxSpec => []NoEventLost
  <1>1. RxInv => NoEventLost
    BY DEF RxInv
  <1> QED
    BY <1>1, RxInitInv, RxNextInv, PTL DEF RxSpec

\* The variables of the receiver stay in their ranges.
THEOREM ReceiverTypeCorrect == RxSpec => []RxTypeOK
  <1>1. RxInv => RxTypeOK
    BY DEF RxInv
  <1> QED
    BY <1>1, RxInitInv, RxNextInv, PTL DEF RxSpec

-----------------------------------------------------------------------------

\* In a call that started clean one frame is owed at most, none when the loop
\* comes round, and all that is owed or kept is of this call.
CleanInv ==
    clean /\ pc # "out" =>
        /\ Owed <= 1
        /\ pc = "loop" => Owed = 0
        /\ queued > 0 => fresh.syms
        /\ best.len > 0 => fresh.best

LEMMA CleanNextInv == RxInv /\ CleanInv /\ [RxNext]_rxVars => CleanInv'
  <1> SUFFICES ASSUME RxInv, CleanInv, [RxNext]_rxVars PROVE CleanInv'
    OBVIOUS
  <1>0. fresh \in [syms : BOOLEAN, best : BOOLEAN]
    BY DEF RxInv, RxTypeOK
  <1> USE ReceiverAssumption DEF RxInv, RxTypeOK, CleanInv, Owed
  <1>1. ASSUME NEW f \in Frame, Remote(f) PROVE CleanInv'
    <2>1. fresh' = [fresh EXCEPT !.syms = pc # "out"]
      BY <1>1 DEF Remote
    <2>2. (pc # "out" => fresh'.syms) /\ (fresh.best => fresh'.best)
      BY <1>0, <2>1
    <2>3. /\ armed = TRUE /\ armed' = FALSE
          /\ UNCHANGED <<pc, clean, best>>
      BY <1>1 DEF Remote
    <2>4. Owed' = Owed
      BY <1>1, RemoteOwed
    <2>5. pc # "loop" \/ ~clean
      BY <2>3
    <2> QED
      BY <2>2, <2>3, <2>4, <2>5
  <1>2. CASE Call
    <2>1. clean' = (~armed /\ queued = 0)
      BY <1>2 DEF Call
    <2>2. best'.len = 0 /\ armed' = armed /\ queued' = queued
      BY <1>2 DEF Call, NoFrame
    <2>3. clean' => armed' = FALSE /\ queued' = 0
      BY <2>1, <2>2
    <2> QED
      BY <2>2, <2>3
  <1>3. CASE Expire
    BY <1>3 DEF Expire
  <1>4. CASE Arm
    BY <1>4 DEF Arm
  <1>5. CASE TimeOut
    BY <1>5 DEF TimeOut
  <1>6. CASE Take
    <2> SUFFICES ASSUME clean PROVE CleanInv'
      BY <1>6 DEF Take
    <2>1. pc = "wait" /\ queued = 1 /\ ~armed /\ fresh.syms
      BY <1>6 DEF Take
    <2>2. Readable = {[frame |-> syms, fresh |-> TRUE]}
      BY <2>1 DEF Readable
    <2>3. queued' = 0 /\ armed' = armed
      BY <1>6, <2>1 DEF Take
    <2>4. (best' = best /\ fresh' = fresh)
          \/ fresh' = [fresh EXCEPT !.best = TRUE]
      <3>1. PICK r \in Readable :
               /\ best' = IF r.frame.len > best.len THEN r.frame ELSE best
               /\ fresh' = IF r.frame.len > best.len
                           THEN [fresh EXCEPT !.best = r.fresh] ELSE fresh
        BY <1>6 DEF Take
      <3>2. r.fresh = TRUE
        BY <2>2
      <3> QED
        BY <3>1, <3>2
    <2>5. best'.len > 0 => fresh'.best
      BY <1>0, <1>6, <2>1, <2>4 DEF Take
    <2> QED
      BY <2>1, <2>3, <2>5
  <1>7. CASE Return
    BY <1>7 DEF Return
  <1>8. CASE UNCHANGED rxVars
    BY <1>8 DEF rxVars
  <1> QED
    BY <1>1, <1>2, <1>3, <1>4, <1>5, <1>6, <1>7, <1>8 DEF RxNext

\* A learn that finds the receiver free stores what was sent during it, not
\* what came before (espir_ir.c:153-197).
THEOREM CleanCallsAreFresh == RxSpec => []CleanCallIsFresh
  <1>1. RxInit => CleanInv
    BY DEF RxInit, CleanInv
  <1>2. RxInv /\ CleanInv => CleanCallIsFresh
    <2> SUFFICES ASSUME RxInv, CleanInv, clean, pc = "ret", best.len >= 2
                 PROVE  fresh.best
      BY DEF CleanCallIsFresh, Captured
    <2>1. best.len \in Nat
      <3>1. best \in Frame \/ best = NoFrame
        BY DEF RxInv, RxTypeOK
      <3>2. CASE best \in Frame
        BY <3>2, ReceiverAssumption DEF Frame
      <3>3. CASE best = NoFrame
        BY <3>3 DEF NoFrame
      <3> QED
        BY <3>1, <3>2, <3>3
    <2>2. best.len > 0
      BY <2>1, SMT
    <2> QED
      BY <2>2 DEF CleanInv
  <1> QED
    BY <1>1, <1>2, RxInitInv, RxNextInv, CleanNextInv, PTL DEF RxSpec

-----------------------------------------------------------------------------

\* A clean call comes to its end with a whole frame or at its deadline.
WaitsInv == clean /\ pc = "ret" => expired \/ Good(best)

LEMMA WaitsNextInv == RxInv /\ CleanInv /\ WaitsInv /\ [RxNext]_rxVars => WaitsInv'
  <1> SUFFICES ASSUME RxInv, CleanInv, WaitsInv, [RxNext]_rxVars PROVE WaitsInv'
    OBVIOUS
  <1> USE DEF WaitsInv
  <1>1. ASSUME NEW f \in Frame, Remote(f) PROVE WaitsInv'
    BY <1>1 DEF Remote
  <1>2. CASE Call
    BY <1>2 DEF Call
  <1>3. CASE Expire
    BY <1>3 DEF Expire
  <1>4. CASE Arm
    <2>1. pc = "loop" /\ UNCHANGED <<clean, expired, best>>
      BY <1>4 DEF Arm
    <2>2. ASSUME clean PROVE armed # TRUE
      <3> SUFFICES ASSUME armed = TRUE PROVE FALSE
        OBVIOUS
      <3>1. Owed = 0 /\ queued \in 0 .. 2
        BY <2>1, <2>2, ReceiverAssumption DEF RxInv, RxTypeOK, CleanInv
      <3>2. Owed = queued + 1
        BY Zenon DEF Owed
      <3>3. queued + 1 # 0
        BY <3>1
      <3> QED  BY <3>1, <3>2, <3>3
    <2>3. clean => pc' = "wait" \/ expired
      BY <1>4, <2>2 DEF Arm, RxInv, RxTypeOK
    <2> QED  BY <2>1, <2>3
  <1>5. CASE TimeOut
    BY <1>5 DEF TimeOut
  <1>6. CASE Take
    <2>1. pc' = "ret" => Good(best')
      BY <1>6 DEF Take
    <2> QED  BY <2>1 DEF Good
  <1>7. CASE Return
    BY <1>7 DEF Return
  <1>8. CASE UNCHANGED rxVars
    BY <1>8 DEF rxVars
  <1> QED
    BY <1>1, <1>2, <1>3, <1>4, <1>5, <1>6, <1>7, <1>8 DEF RxNext

\* A learn that finds the receiver free does not give up before its window is
\* over: it cannot find the channel armed by itself, nor stop at a fragment
\* (espir_ir.c:173-192).
THEOREM CleanCallsWait == RxSpec => []CleanCallWaits
  <1>1. RxInit => CleanInv /\ WaitsInv
    BY DEF RxInit, CleanInv, WaitsInv
  <1>2. RxInv /\ WaitsInv => CleanCallWaits
    <2> SUFFICES ASSUME RxInv, WaitsInv, clean, pc = "ret", ~expired PROVE best.len >= 2
      BY DEF CleanCallWaits, Captured
    <2>1. best.len >= GoodSymbols
      BY DEF WaitsInv, Good
    <2>2. best.len \in Nat
      <3>1. CASE best \in Frame
        BY <3>1, ReceiverAssumption DEF Frame
      <3>2. CASE best = NoFrame
        BY <3>2 DEF NoFrame
      <3> QED  BY <3>1, <3>2 DEF RxInv, RxTypeOK
    <2> QED  BY <2>1, <2>2, ReceiverAssumption
  <1> QED  BY <1>1, <1>2, RxInitInv, RxNextInv, CleanNextInv, WaitsNextInv, PTL DEF RxSpec

=============================================================================
