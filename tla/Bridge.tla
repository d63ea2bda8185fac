------------------------------- MODULE Bridge -------------------------------
(***************************************************************************)
(* One proxied connection (internal/proxy/bridge.go): two goroutines, one  *)
(* for each direction, copy from a source socket to a destination socket   *)
(* and then close the destination for writing.  The sockets the listener   *)
(* passes are CountingConns (internal/proxy/countingconn.go), which have   *)
(* no CloseWrite, so that the destination is closed altogether.            *)
(*                                                                         *)
(* A direction is named by the side it copies from.  Data are counted in   *)
(* chunks; a socket buffer holds Room of them.                             *)
(***************************************************************************)
EXTENDS Naturals

CONSTANTS
    Wrapped,    \* the sockets are CountingConns, as in handleConn
    Chunks,     \* bound: chunks a peer sends
    Room        \* chunks a socket buffer holds

ASSUME WrappedAssumption == Wrapped \in BOOLEAN
ASSUME BoundsAssumption == Chunks \in Nat /\ Room \in Nat \ {0}

Sides == {"client", "backend"}
Other(s) == CHOOSE o \in Sides : o # s

VARIABLES
    peer,       \* what each peer does: "open", "half" closed, "gone"
    sock,       \* the proxy's socket to it: "open", "shut" for writing, "closed"
    copier,     \* the goroutine: "reading", "writing", "closing", "ended"
    sent,       \* chunks the peer has sent
    read,       \* chunks the goroutine has read (CountingConn.bytesRead)
    written,    \* chunks it has written to the other socket (bytesWritten)
    taken,      \* chunks the other peer has received
    severed     \* StopGraceful has closed both sockets

flow == <<sent, read, written, taken>>
vars == <<peer, sock, copier, flow, severed>>

Returned == \A s \in Sides : copier[s] = "ended"

(* In particular, a peer receives no chunk before the other has sent it.   *)
TypeOK ==
    /\ peer \in [Sides -> {"open", "half", "gone"}]
    /\ sock \in [Sides -> {"open", "shut", "closed"}]
    /\ copier \in [Sides -> {"reading", "writing", "closing", "ended"}]
    /\ \A f \in {sent, read, written, taken} : f \in [Sides -> 0..Chunks]
    /\ severed \in BOOLEAN
    /\ \A s \in Sides : taken[s] <= written[s] /\ written[s] <= read[s] /\ read[s] <= sent[s]

Init ==
    /\ peer = [s \in Sides |-> "open"]
    /\ sock = [s \in Sides |-> "open"]
    /\ copier = [s \in Sides |-> "reading"]
    /\ sent = [s \in Sides |-> 0] /\ read = sent /\ written = sent /\ taken = sent
    /\ severed = FALSE

(***************************************************************************)
(* The peers send, receive, close for writing, close.                      *)
(***************************************************************************)
Send(s) ==
    /\ peer[s] = "open"
    /\ sock[s] # "closed"
    /\ sent[s] < Chunks
    /\ sent[s] - read[s] < Room
    /\ sent' = [sent EXCEPT ![s] = @ + 1]
    /\ UNCHANGED <<peer, sock, copier, read, written, taken, severed>>

Take(s) ==
    /\ peer[Other(s)] # "gone"
    /\ taken[s] < written[s]
    /\ taken' = [taken EXCEPT ![s] = @ + 1]
    /\ UNCHANGED <<peer, sock, copier, sent, read, written, severed>>

Finish(s) ==
    /\ \/ peer[s] = "open" /\ peer' = [peer EXCEPT ![s] = "half"]
       \/ peer[s] # "gone" /\ peer' = [peer EXCEPT ![s] = "gone"]
    /\ UNCHANGED <<sock, copier, flow, severed>>

(***************************************************************************)
(* io.Copy: read, write, until EOF or an error on either socket.           *)
(***************************************************************************)
Goto(s, state) == copier' = [copier EXCEPT ![s] = state]

Read(s) ==
    /\ copier[s] = "reading"
    /\ sock[s] # "closed"
    /\ read[s] < sent[s]
    /\ read' = [read EXCEPT ![s] = @ + 1]
    /\ Goto(s, "writing")
    /\ UNCHANGED <<peer, sock, sent, written, taken, severed>>

(* A copy that ends as soon as the peer has finished, unread data or not.  *)
ReadEndsEarly(s) ==
    /\ copier[s] = "reading"
    /\ sock[s] = "closed" \/ peer[s] # "open"
    /\ Goto(s, "closing")
    /\ UNCHANGED <<peer, sock, flow, severed>>

(* A peer that is gone may have reset the connection, unread data and all. *)
ReadEnds(s) ==
    /\ copier[s] = "reading"
    /\ \/ sock[s] = "closed"
       \/ peer[s] = "half" /\ read[s] = sent[s]
       \/ peer[s] = "gone"
    /\ Goto(s, "closing")
    /\ UNCHANGED <<peer, sock, flow, severed>>

(* A chunk written and kept.                                               *)
WriteAgain(s) ==
    /\ copier[s] = "writing"
    /\ sock[Other(s)] = "open"
    /\ written[s] - taken[s] < Room
    /\ written' = [written EXCEPT ![s] = @ + 1]
    /\ UNCHANGED <<peer, sock, copier, sent, read, taken, severed>>

Write(s) ==
    /\ copier[s] = "writing"
    /\ sock[Other(s)] = "open"
    /\ written[s] - taken[s] < Room
    /\ written' = [written EXCEPT ![s] = @ + 1]
    /\ Goto(s, "reading")
    /\ UNCHANGED <<peer, sock, sent, read, taken, severed>>

WriteFails(s) ==
    /\ copier[s] = "writing"
    /\ sock[Other(s)] = "closed" \/ peer[Other(s)] = "gone"
    /\ Goto(s, "closing")
    /\ UNCHANGED <<peer, sock, flow, severed>>

(* CloseWrite whatever the connection is.                                  *)
ClosedForWriting(state) == IF state = "closed" THEN "closed" ELSE "shut"

(* CloseWrite where there is one, else Close.                              *)
Closed(state) == IF Wrapped \/ state = "closed" THEN "closed" ELSE "shut"

CloseDst(s) ==
    /\ copier[s] = "closing"
    /\ sock' = [sock EXCEPT ![Other(s)] = Closed(@)]
    /\ Goto(s, "ended")
    /\ UNCHANGED <<peer, flow, severed>>

CopierStep(s) == Read(s) \/ ReadEnds(s) \/ Write(s) \/ WriteFails(s) \/ CloseDst(s)

(* The drain deadline of StopGraceful closes both sockets.                 *)
Sever ==
    /\ ~Returned
    /\ severed' = TRUE
    /\ sock' = [s \in Sides |-> "closed"]
    /\ UNCHANGED <<peer, copier, flow>>

Next ==
    \/ \E s \in Sides : Send(s) \/ Take(s) \/ Finish(s) \/ CopierStep(s)
    \/ Sever

(* The goroutines run; of the peers nothing is assumed.                    *)
Fairness == \A s \in Sides : WF_vars(CopierStep(s))

Spec == Init /\ [][Next]_vars /\ Fairness
-----------------------------------------------------------------------------
(* A peer that ends its side after its last chunk, to a peer that keeps    *)
(* both directions open, has everything it sent delivered, although the    *)
(* bridge then closes both sockets altogether.                             *)
FinishedIsDelivered ==
    \A s \in Sides :
        /\ copier[s] \in {"closing", "ended"}
        /\ peer[s] = "half" /\ peer[Other(s)] = "open"
        /\ ~severed
        => written[s] = sent[s]

(* With sockets that can be closed for writing alone, so has a peer whose  *)
(* other half has finished before it: a request is half-closed, and the    *)
(* response is still delivered.                                            *)
HalfCloseDelivers ==
    \A s \in Sides :
        /\ copier[s] \in {"closing", "ended"}
        /\ \A o \in Sides : peer[o] # "gone"
        /\ ~severed
        => written[s] = sent[s]

(* Once one direction has ended, the bridge returns, or the other          *)
(* direction waits for a peer that does not read; once the drain deadline  *)
(* has closed both sockets it returns whatever the peers do, which is what *)
(* StopGraceful counts on.                                                 *)
Stalled == \E s \in Sides : copier[s] = "writing" /\ written[s] - taken[s] >= Room
OneEndsBoth ==
    severed \/ (\E s \in Sides : copier[s] = "ended") ~> Returned \/ (Stalled /\ ~severed)
=============================================================================
