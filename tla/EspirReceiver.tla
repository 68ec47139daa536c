--------------------------- MODULE EspirReceiver ----------------------------
(***************************************************************************)
(* The receive half of components/espir_ir: espir_ir_receive, the RMT      *)
(* channel it arms, and the queue that the receive-done interrupt fills.   *)
(*                                                                         *)
(* The driver is external and modelled by what espir_ir relies on:         *)
(* rmt_receive arms an enabled channel and fails on one that is armed      *)
(* already; a frame that ends while the channel is armed is copied to      *)
(* s_rx_syms, disarms the channel and raises the interrupt.  An event says *)
(* that the buffer was filled; it does not hold the symbols.               *)
(*                                                                         *)
(* A frame is [len, header]: its number of durations, and whether it       *)
(* starts with a header mark.  fresh tells the frames that came during the *)
(* present call from those that came before it.                            *)
(***************************************************************************)
EXTENDS Naturals, Sequences

CONSTANTS
    FrameLen,     \* the lengths of frames
    GoodSymbols,  \* IR_GOOD_SYMBOLS
    QueueDepth    \* length of s_rx_queue

ASSUME ReceiverAssumption ==
    /\ FrameLen \subseteq Nat \ {0}
    /\ GoodSymbols \in Nat /\ GoodSymbols >= 2
    /\ QueueDepth = 2

Frame == [len : FrameLen, header : BOOLEAN]

VARIABLES
    armed,        \* whether the channel waits for a frame
    queued,       \* events in s_rx_queue
    dropped,      \* whether an event has found the queue full
    syms,         \* the frame in s_rx_syms
    pc,           \* where espir_ir_receive is; "out" when it is not called
    clean,        \* whether the call found the channel free and no event
    expired,      \* whether the deadline of the call has passed
    best,         \* the frame copied to out so far, of length 0 if none
    fresh         \* [syms, best]: whether that frame came during this call

rxVars == <<armed, queued, dropped, syms, pc, clean, expired, best, fresh>>

NoFrame == [len |-> 0, header |-> FALSE]

Good(f) == f.len >= GoodSymbols /\ f.header

-----------------------------------------------------------------------------
(* The air, and the interrupt                                              *)

\* Variant: the channel is left armed after a frame.
RemoteContinuous(f) ==
    /\ armed
    /\ syms' = f
    /\ fresh' = [fresh EXCEPT !.syms = pc # "out"]
    /\ IF queued < QueueDepth THEN queued' = queued + 1 /\ UNCHANGED dropped
                              ELSE dropped' = TRUE /\ UNCHANGED queued
    /\ UNCHANGED <<armed, pc, clean, expired, best>>

\* Variant: so it is, and nothing limits the queue.
RemoteUnbounded(f) ==
    /\ armed
    /\ queued' = queued + 1
    /\ UNCHANGED <<armed, dropped, syms, pc, clean, expired, best, fresh>>

\* A frame ends.  on_rx_done queues the event, or loses it if there is no room.
Remote(f) ==
    /\ armed
    /\ armed' = FALSE
    /\ syms' = f
    /\ fresh' = [fresh EXCEPT !.syms = pc # "out"]
    /\ IF queued < QueueDepth THEN queued' = queued + 1 /\ UNCHANGED dropped
                              ELSE dropped' = TRUE /\ UNCHANGED queued
    /\ UNCHANGED <<pc, clean, expired, best>>

-----------------------------------------------------------------------------
(* espir_ir_receive                                                        *)

\* Variant: out is not cleared.
CallKeepsOut ==
    /\ pc = "out"
    /\ pc' = "loop"
    /\ clean' = (~armed /\ queued = 0)
    /\ expired' = FALSE
    /\ fresh' = [syms |-> FALSE, best |-> FALSE]
    /\ UNCHANGED <<armed, queued, dropped, syms, best>>

Call ==
    /\ pc = "out"
    /\ pc' = "loop"
    /\ clean' = (~armed /\ queued = 0)
    /\ expired' = FALSE
    /\ best' = NoFrame
    /\ fresh' = [syms |-> FALSE, best |-> FALSE]
    /\ UNCHANGED <<armed, queued, dropped, syms>>

Expire ==
    /\ pc \in {"loop", "wait"}
    /\ ~expired
    /\ expired' = TRUE
    /\ UNCHANGED <<armed, queued, dropped, syms, pc, clean, best, fresh>>

\* Variant: the window is not looked at while frames keep coming.
ArmForEver ==
    /\ pc = "loop"
    /\ IF armed THEN pc' = "ret" /\ UNCHANGED armed
                ELSE pc' = "wait" /\ armed' = TRUE
    /\ UNCHANGED <<queued, dropped, syms, clean, expired, best, fresh>>

\* The head of the loop: past the deadline it ends; rmt_receive arms the
\* channel, or fails because it is armed, and the loop ends too.
Arm ==
    /\ pc = "loop"
    /\ \/ ~expired /\ ~armed /\ armed' = TRUE /\ pc' = "wait"
       \/ (expired \/ armed) /\ pc' = "ret" /\ UNCHANGED armed
    /\ UNCHANGED <<queued, dropped, syms, clean, expired, best, fresh>>

\* Variant: the queue is only polled.
TimeOutAtOnce ==
    /\ pc = "wait"
    /\ queued = 0
    /\ pc' = "ret"
    /\ UNCHANGED <<armed, queued, dropped, syms, clean, expired, best, fresh>>

\* xQueueReceive times out.  The channel stays armed.
TimeOut ==
    /\ pc = "wait"
    /\ queued = 0
    /\ expired
    /\ pc' = "ret"
    /\ UNCHANGED <<armed, queued, dropped, syms, clean, expired, best, fresh>>

\* What the copy loop finds in s_rx_syms: the frame there or, while the
\* channel is armed and may be writing it, any mixture.
Readable ==
    {[frame |-> syms, fresh |-> fresh.syms]}
    \cup IF armed THEN [frame : Frame, fresh : {FALSE}] ELSE {}

\* An event arrives: the frame is kept if it is the longest so far, and the
\* loop ends on a long one with a header.
Take ==
    /\ pc = "wait"
    /\ queued > 0
    /\ queued' = queued - 1
    /\ \E r \in Readable :
          LET longer == r.frame.len > best.len
          IN  /\ best' = IF longer THEN r.frame ELSE best
              /\ fresh' = IF longer THEN [fresh EXCEPT !.best = r.fresh] ELSE fresh
    /\ pc' = IF Good(best') THEN "ret" ELSE "loop"
    /\ UNCHANGED <<armed, dropped, syms, clean, expired>>

\* ESP_OK with at least two durations, ESP_ERR_TIMEOUT otherwise.
Captured == best.len >= 2

Return ==
    /\ pc = "ret"
    /\ pc' = "out"
    /\ UNCHANGED <<armed, queued, dropped, syms, clean, expired, best, fresh>>

-----------------------------------------------------------------------------

RxInit ==
    /\ armed = FALSE
    /\ queued = 0
    /\ dropped = FALSE
    /\ syms = NoFrame
    /\ pc = "out"
    /\ clean = TRUE
    /\ expired = FALSE
    /\ best = NoFrame
    /\ fresh = [syms |-> FALSE, best |-> FALSE]

RxNext ==
    \/ \E f \in Frame : Remote(f)
    \/ Call \/ Expire \/ Arm \/ TimeOut \/ Take \/ Return

RxSpec == RxInit /\ [][RxNext]_rxVars

\* The clock runs, and the learn task is scheduled.  Nobody has to press a key.
RxFairSpec ==
    RxSpec /\ WF_rxVars(Expire) /\ WF_rxVars(Arm \/ TimeOut \/ Take \/ Return)

-----------------------------------------------------------------------------
(* Properties                                                              *)

\* Every variable keeps its type; the queue never holds more than its places.
RxTypeOK ==
    /\ armed \in BOOLEAN /\ dropped \in BOOLEAN
    /\ clean \in BOOLEAN /\ expired \in BOOLEAN
    /\ queued \in 0 .. QueueDepth
    /\ syms \in Frame \cup {NoFrame}
    /\ best \in Frame \cup {NoFrame}
    /\ pc \in {"out", "loop", "wait", "ret"}
    /\ fresh \in [syms : BOOLEAN, best : BOOLEAN]

\* Frames owed to the learn task: queued, or still to come on an armed channel.
Owed == queued + (IF armed THEN 1 ELSE 0)

\* A call leaves at most one frame behind, whatever was on the air during and
\* after it, so that the two places of the queue are always enough and no
\* event is lost in the interrupt (espir_ir.c:38, 72).
NoEventLost ==
    /\ ~dropped
    /\ Owed <= IF pc = "wait" THEN 2 ELSE 1

\* A call that found the channel free and the queue empty captures a frame
\* that came while it was waiting.
CleanCallIsFresh == clean /\ pc = "ret" /\ Captured => fresh.best

\* "Capture one raw envelope into `out`" (espir_ir.h:22): a capture is of a
\* frame that came during the call.
FreshCapture == pc = "ret" /\ Captured => fresh.best

\* A call that finds the receiver free either captures or waits for its whole
\* window.
CleanCallWaits == clean /\ pc = "ret" /\ ~Captured => expired

\* Every call returns, whatever is on the air and even if nothing is.
ReceiveReturns == pc # "out" ~> pc = "out"
=============================================================================
