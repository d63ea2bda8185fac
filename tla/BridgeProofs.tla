----------------------------- MODULE BridgeProofs ---------------------------
(***************************************************************************)
(* Theorems about one bridged connection, for every number of chunks and   *)
(* every size of the sockets' buffers: nothing is delivered that was not   *)
(* sent, a peer that finishes before the other has everything delivered,   *)
(* and where a socket can be closed for writing alone, so has every peer.  *)
(***************************************************************************)
EXTENDS Bridge, TLAPS

(* Each side's other one is the other one.                                 *)
LEMMA OtherSide ==
    /\ Other("client") = "backend"
    /\ Other("backend") = "client"
BY DEF Other, Sides

Copying(s) == copier[s] \in {"reading", "writing"}

-----------------------------------------------------------------------------
(* Types and counts.                                                       *)

(* What a goroutine holds between reading a chunk and writing it.          *)
InHand(s) == IF copier[s] = "writing" THEN 1 ELSE 0
ReadIsWritten ==
    \A s \in Sides : Copying(s) => read[s] = written[s] + InHand(s)
FlowPart == TypeOK /\ ReadIsWritten

(* The connection begins with nothing sent and both goroutines reading.    *)
LEMMA FlowInitially == Init => FlowPart
<1> SUFFICES ASSUME Init PROVE FlowPart
    OBVIOUS
<1>1. \A f \in {sent, read, written, taken} : f = [s \in Sides |-> 0]
    BY DEF Init
<1>2. 0 \in 0..Chunks
    BY BoundsAssumption
<1>3. TypeOK
    <2>1. \A f \in {sent, read, written, taken} : f \in [Sides -> 0..Chunks]
        BY <1>1, <1>2
    <2>2. \A s \in Sides : taken[s] = 0 /\ written[s] = 0 /\ read[s] = 0 /\ sent[s] = 0
        BY <1>1
    <2>3. \A s \in Sides :
            taken[s] <= written[s] /\ written[s] <= read[s] /\ read[s] <= sent[s]
        BY <2>2
    <2>4. /\ peer \in [Sides -> {"open", "half", "gone"}]
          /\ sock \in [Sides -> {"open", "shut", "closed"}]
          /\ copier \in [Sides -> {"reading", "writing", "closing", "ended"}]
          /\ severed \in BOOLEAN
        BY DEF Init
    <2>5. QED BY <2>1, <2>3, <2>4 DEF TypeOK
<1>4. ReadIsWritten
    BY <1>1 DEF Init, ReadIsWritten, InHand
<1>5. QED BY <1>3, <1>4 DEF FlowPart

(* No step reads, writes or takes more than there is.                      *)
LEMMA FlowStep == FlowPart /\ [Next]_vars => FlowPart'
<1> SUFFICES ASSUME FlowPart, [Next]_vars PROVE FlowPart'
    OBVIOUS
<1> USE BoundsAssumption DEF FlowPart, TypeOK, ReadIsWritten, Copying, InHand
<1>1. ASSUME NEW s \in Sides, Send(s) PROVE FlowPart'
    BY <1>1 DEF Send
<1>2. ASSUME NEW s \in Sides, Take(s) PROVE FlowPart'
    BY <1>2 DEF Take
<1>3. ASSUME NEW s \in Sides, Finish(s) PROVE FlowPart'
    BY <1>3 DEF Finish, flow
<1>4. ASSUME NEW s \in Sides, Read(s) PROVE FlowPart'
    BY <1>4 DEF Read, Goto
<1>5. ASSUME NEW s \in Sides, ReadEnds(s) PROVE FlowPart'
    BY <1>5 DEF ReadEnds, Goto, flow
<1>6. ASSUME NEW s \in Sides, Write(s) PROVE FlowPart'
    BY <1>6 DEF Write, Goto
<1>7. ASSUME NEW s \in Sides, WriteFails(s) PROVE FlowPart'
    BY <1>7 DEF WriteFails, Goto, flow
<1>8. ASSUME NEW s \in Sides, CloseDst(s) PROVE FlowPart'
    BY <1>8, OtherSide DEF CloseDst, Closed, Goto, flow, Sides
<1>9. CASE Sever
    BY <1>9 DEF Sever, flow
<1>10. CASE UNCHANGED vars
    BY <1>10 DEF vars, flow
<1>11. QED
    BY <1>1, <1>2, <1>3, <1>4, <1>5, <1>6, <1>7, <1>8, <1>9, <1>10 DEF Next, CopierStep

(* TypeOK: in particular no peer receives what the other has not sent.     *)
THEOREM NothingIsInvented == Spec => []TypeOK
<1>1. FlowPart => TypeOK
    BY DEF FlowPart
<1>2. QED BY <1>1, FlowInitially, FlowStep, PTL DEF Spec
-----------------------------------------------------------------------------
(* A peer that finishes first.                                             *)

(* Until the deadline severs the connection, a socket is closed only by    *)
(* the goroutine that copies to it, at its end.                            *)
ClosedByItsCopier ==
    \A s \in Sides : sock[Other(s)] # "open" => copier[s] = "ended"

(* While one peer is all open and the other not gone, the goroutine that   *)
(* copies from the open one does not end first, and the other one ends     *)
(* when its peer has finished and everything is written.                   *)
OpenPeerEndsLast ==
    \A s \in Sides : peer[s] # "gone" /\ peer[Other(s)] = "open" =>
        /\ Copying(s) => Copying(Other(s))
        /\ ~Copying(s) => peer[s] = "half" /\ written[s] = sent[s]

DeliveryPart ==
    FlowPart /\ (~severed => ClosedByItsCopier /\ OpenPeerEndsLast)

(* At the beginning every socket is open and every goroutine copies.       *)
LEMMA DeliveryInitially == Init => DeliveryPart
<1> SUFFICES ASSUME Init PROVE DeliveryPart
    OBVIOUS
<1>1. FlowPart
    BY FlowInitially
<1>2. \A s \in Sides : Other(s) \in Sides
    BY OtherSide DEF Sides
<1>3. ClosedByItsCopier /\ OpenPeerEndsLast
    BY <1>2 DEF Init, ClosedByItsCopier, OpenPeerEndsLast, Copying
<1>4. QED BY <1>1, <1>3 DEF DeliveryPart

(* No step ends the goroutine of an open peer first.                       *)
LEMMA DeliveryStep == DeliveryPart /\ [Next]_vars => DeliveryPart'
<1> SUFFICES ASSUME DeliveryPart, [Next]_vars, ~severed'
             PROVE  ClosedByItsCopier' /\ OpenPeerEndsLast'
    BY FlowStep DEF DeliveryPart
<1>1. FlowPart
    BY DEF DeliveryPart
<1> USE <1>1, OtherSide
    DEF DeliveryPart, FlowPart, TypeOK, ReadIsWritten, Copying, InHand,
        ClosedByItsCopier, OpenPeerEndsLast, Sides
<1>2. ASSUME NEW s \in Sides, Send(s) PROVE ClosedByItsCopier' /\ OpenPeerEndsLast'
    BY <1>2 DEF Send
<1>3. ASSUME NEW s \in Sides, Take(s) PROVE ClosedByItsCopier' /\ OpenPeerEndsLast'
    BY <1>3 DEF Take
<1>4. ASSUME NEW s \in Sides, Finish(s) PROVE ClosedByItsCopier' /\ OpenPeerEndsLast'
    BY <1>4 DEF Finish, flow
<1>5. ASSUME NEW s \in Sides, Read(s) PROVE ClosedByItsCopier' /\ OpenPeerEndsLast'
    BY <1>5 DEF Read, Goto
<1>6. ASSUME NEW s \in Sides, ReadEnds(s) PROVE ClosedByItsCopier' /\ OpenPeerEndsLast'
    BY <1>6 DEF ReadEnds, Goto, flow
<1>7. ASSUME NEW s \in Sides, Write(s) PROVE ClosedByItsCopier' /\ OpenPeerEndsLast'
    BY <1>7 DEF Write, Goto
<1>8. ASSUME NEW s \in Sides, WriteFails(s) PROVE ClosedByItsCopier' /\ OpenPeerEndsLast'
    BY <1>8 DEF WriteFails, Goto, flow
<1>9. ASSUME NEW s \in Sides, CloseDst(s) PROVE ClosedByItsCopier' /\ OpenPeerEndsLast'
    BY <1>9 DEF CloseDst, Closed, Goto, flow
<1>10. CASE Sever
    BY <1>10 DEF Sever
<1>11. CASE UNCHANGED vars
    BY <1>11 DEF vars, flow
<1>12. QED
    BY <1>2, <1>3, <1>4, <1>5, <1>6, <1>7, <1>8, <1>9, <1>10, <1>11 DEF Next, CopierStep

(* FinishedIsDelivered: a peer that ends its side, to a peer that keeps    *)
(* both directions open, has everything it sent delivered, though the      *)
(* bridge then closes both sockets altogether.                             *)
THEOREM FinishedPeerIsHeard == Spec => []FinishedIsDelivered
<1>1. DeliveryPart => FinishedIsDelivered
    BY DEF DeliveryPart, OpenPeerEndsLast, FinishedIsDelivered, Copying
<1>2. QED BY <1>1, DeliveryInitially, DeliveryStep, PTL DEF Spec
-----------------------------------------------------------------------------
(* Sockets with a CloseWrite.                                              *)

(* Nothing but the deadline closes a socket altogether, and a goroutine    *)
(* stops at the end of what its peer had to say.                           *)
HalfClosePart ==
    FlowPart /\ (~severed =>
        /\ \A s \in Sides : sock[s] # "closed"
        /\ \A s \in Sides : ~Copying(s) /\ (\A o \in Sides : peer[o] # "gone") =>
               peer[s] = "half" /\ written[s] = sent[s])

(* No step ends a goroutine before its peer has, CloseWrite being used.    *)
LEMMA HalfCloseStep == ~Wrapped /\ HalfClosePart /\ [Next]_vars => HalfClosePart'
<1> SUFFICES ASSUME ~Wrapped, HalfClosePart, [Next]_vars, FlowPart', ~severed'
             PROVE  HalfClosePart'
    BY FlowStep DEF HalfClosePart
<1>1. FlowPart
    BY DEF HalfClosePart
<1> USE <1>1, OtherSide
    DEF HalfClosePart, FlowPart, TypeOK, ReadIsWritten, Copying, InHand, Sides
<1>2. ASSUME NEW s \in Sides, Send(s) PROVE HalfClosePart'
    BY <1>2 DEF Send
<1>3. ASSUME NEW s \in Sides, Take(s) PROVE HalfClosePart'
    BY <1>3 DEF Take
<1>4. ASSUME NEW s \in Sides, Finish(s) PROVE HalfClosePart'
    BY <1>4 DEF Finish, flow
<1>5. ASSUME NEW s \in Sides, CopierStep(s), ~CloseDst(s) PROVE HalfClosePart'
    BY <1>5 DEF CopierStep, Read, ReadEnds, Write, WriteFails, Goto, flow
<1>6. ASSUME NEW s \in Sides, CloseDst(s) PROVE HalfClosePart'
    BY <1>6 DEF CloseDst, Closed, Goto, flow
<1>7. CASE Sever
    BY <1>7 DEF Sever
<1>8. CASE UNCHANGED vars
    BY <1>8 DEF vars, flow
<1>9. QED
    BY <1>2, <1>3, <1>4, <1>5, <1>6, <1>7, <1>8 DEF Next

(* HalfCloseDelivers: it is the counting connection's lack of a CloseWrite *)
(* alone that loses data; a bridge between plain TCP connections delivers  *)
(* to both peers, in whichever order they finish.                          *)
THEOREM PlainSocketsDeliver == ASSUME ~Wrapped PROVE Spec => []HalfCloseDelivers
<1>1. Init => HalfClosePart
    BY FlowInitially DEF Init, HalfClosePart, Copying
<1>2. HalfClosePart /\ [Next]_vars => HalfClosePart'
    BY HalfCloseStep
<1>3. HalfClosePart => HalfCloseDelivers
    BY DEF HalfClosePart, HalfCloseDelivers, Copying
<1>4. QED BY <1>1, <1>2, <1>3, PTL DEF Spec
=============================================================================
