------------------------ MODULE GuiSendServerProofs ------------------------
(***************************************************************************)
(* Proofs about GuiSendServer, for any drops and any number of receivers:  *)
(* its type invariant, and the three things it promises the user.          *)
(*                                                                         *)
(* What the user sees (the flags) is tied to where the server thread is    *)
(* (Phases), and the two drops under way are accepted, different, and      *)
(* meant for the present receiver (UnderWay). The receiver changes only    *)
(* where neither can be there.                                             *)
(***************************************************************************)
EXTENDS GuiSendServer, TLAPS

Serving == {"wait", "check", "send", "sent", "unsent", "hangup", "detach"}

Phases ==
  /\ connected => server \in Serving
  /\ server \in Serving => connected
  /\ transferring => server \in {"send", "sent", "unsent", "hangup", "detach"}
  /\ server = "ended" => ~listening
  /\ ui = "new" => server = "none"
  /\ ui = "stopped" => server = "ended"

UnderWay ==
  /\ sending # 0 => fate[sending] = "accepted" /\ meant[sending] = receiver
  /\ pending # 0 => /\ fate[pending] = "accepted" /\ meant[pending] = receiver
                    /\ pending # sending /\ server \in Serving

IInv == TypeOK /\ Phases /\ UnderWay /\ AcceptedIsKept

LEMMA ZeroIsNoDrop == 0 \notin Drops /\ Receivers \in Nat
BY ServerAssumption DEF ServerAssumption

LEMMA InitEstablishesInvariant == Init => IInv
<1> SUFFICES ASSUME Init PROVE IInv
  OBVIOUS
<1>1. /\ fate \in [Drops -> Fates] /\ meant \in [Drops -> 0 .. Receivers]
      /\ \A d \in Drops : fate[d] = "none"
  BY ZeroIsNoDrop DEF Init, Fates
<1>2. {listening, connected, transferring, cancelled} \subseteq BOOLEAN
  BY Zenon DEF Init
<1>3. TypeOK
  BY <1>1, <1>2, ZeroIsNoDrop DEF Init, TypeOK, Free
<1>4. Phases
  BY DEF Init, Phases, Serving
<1>5. UnderWay /\ AcceptedIsKept
  BY <1>1 DEF Init, UnderWay, AcceptedIsKept
<1> QED BY <1>3, <1>4, <1>5 DEF IInv

(* Discarding what is pending takes no other drop with it.                 *)
LEMMA DiscardedIsPending ==
  ASSUME IInv, NEW why \in Fates \ {"accepted"}, Discard(why)
  PROVE  /\ pending' = 0 /\ fate' \in [Drops -> Fates]
         /\ \A d \in Drops : fate'[d] = "accepted" <=> fate[d] = "accepted" /\ d # pending
BY DEF Discard, IInv, TypeOK

(* Steps that leave the drops and the receiver alone.                      *)
Quiet == UNCHANGED <<pending, sending, receiver, history>>

LEMMA QuietKeepsDrops ==
  ASSUME IInv, Quiet, server \in Serving => server' \in Serving \/ pending = 0
  PROVE  UnderWay' /\ AcceptedIsKept'
BY DEF IInv, UnderWay, AcceptedIsKept, Quiet, history

QuietServer ==
  \/ Bind \/ AwaitReceiver \/ Listen \/ AcceptEnds \/ Wrap \/ HandshakeFails \/ Adopt \/ Attach
  \/ WaitCancelled \/ WaitTimeout \/ CheckConnection \/ TransferOver \/ HangUp \/ Release \/ Failed
  \/ HandshakeDone

LEMMA QuietServerKeepsInvariant ==
  ASSUME IInv, QuietServer
  PROVE  IInv'
<1>1. TypeOK' /\ Phases'
  <2>1. CASE Bind
    <3>1. TypeOK'
      BY <2>1 DEF Bind, IInv, TypeOK, peerVars, uiVars, flags, cancelVars, history
    <3>2. Phases'
      BY <2>1 DEF Bind, IInv, Phases, Serving, uiVars, flags
    <3> QED BY <3>1, <3>2
  <2>2. CASE AwaitReceiver
    <3>1. TypeOK'
      BY <2>2 DEF AwaitReceiver, IInv, TypeOK, peerVars, uiVars, flags, cancelVars, history
    <3>2. Phases'
      BY <2>2 DEF AwaitReceiver, IInv, Phases, Serving, uiVars, flags
    <3> QED BY <3>1, <3>2
  <2>3. CASE Listen
    <3>1. TypeOK'
      BY <2>3 DEF Listen, IInv, TypeOK, peerVars, uiVars, flags, cancelVars, history, Connect, Slots
    <3>2. Phases'
      BY <2>3 DEF Listen, IInv, Phases, Serving, uiVars, flags
    <3> QED BY <3>1, <3>2
  <2>4. CASE AcceptEnds
    <3>1. TypeOK'
      BY <2>4 DEF AcceptEnds, IInv, TypeOK, peerVars, uiVars, flags, cancelVars, history
    <3>2. Phases'
      BY <2>4 DEF AcceptEnds, IInv, Phases, Serving, uiVars, flags
    <3> QED BY <3>1, <3>2
  <2>5. CASE Wrap
    <3>1. TypeOK'
      BY <2>5 DEF Wrap, IInv, TypeOK, peerVars, uiVars, flags, cancelVars, history, Connect, Slots
    <3>2. Phases'
      BY <2>5 DEF Wrap, IInv, Phases, Serving, uiVars, flags
    <3> QED BY <3>1, <3>2
  <2>6. CASE HandshakeFails
    <3>1. TypeOK'
      BY <2>6 DEF HandshakeFails, IInv, TypeOK, peerVars, uiVars, flags, cancelVars, history
    <3>2. Phases'
      BY <2>6 DEF HandshakeFails, IInv, Phases, Serving, uiVars, flags
    <3> QED BY <3>1, <3>2
  <2>7. CASE HandshakeDone
    <3>1. TypeOK'
      BY <2>7 DEF HandshakeDone, IInv, TypeOK, peerVars, uiVars, flags, cancelVars, history
    <3>2. Phases'
      BY <2>7 DEF HandshakeDone, IInv, Phases, Serving, uiVars, flags
    <3> QED BY <3>1, <3>2
  <2>8. CASE Adopt
    <3>1. TypeOK'
      BY <2>8 DEF Adopt, IInv, TypeOK, peerVars, uiVars, flags, cancelVars, history, Connect, Slots
    <3>2. Phases'
      BY <2>8 DEF Adopt, IInv, Phases, Serving, uiVars, flags
    <3> QED BY <3>1, <3>2
  <2>9. CASE Attach
    <3>1. TypeOK'
      BY <2>9 DEF Attach, IInv, TypeOK, peerVars, uiVars, flags, cancelVars, history
    <3>2. Phases'
      BY <2>9 DEF Attach, IInv, Phases, Serving, uiVars, flags
    <3> QED BY <3>1, <3>2
  <2>10. CASE WaitCancelled
    <3>1. TypeOK'
      BY <2>10 DEF WaitCancelled, IInv, TypeOK, peerVars, uiVars, flags, cancelVars, history
    <3>2. Phases'
      BY <2>10 DEF WaitCancelled, IInv, Phases, Serving, uiVars, flags
    <3> QED BY <3>1, <3>2
  <2>11. CASE WaitTimeout
    <3>1. TypeOK'
      BY <2>11 DEF WaitTimeout, IInv, TypeOK, peerVars, uiVars, flags, cancelVars, history
    <3>2. Phases'
      BY <2>11 DEF WaitTimeout, IInv, Phases, Serving, uiVars, flags
    <3> QED BY <3>1, <3>2
  <2>12. CASE CheckConnection
    <3>1. TypeOK'
      BY <2>12 DEF CheckConnection, IInv, TypeOK, peerVars, uiVars, flags, cancelVars, history
    <3>2. Phases'
      BY <2>12 DEF CheckConnection, IInv, Phases, Serving, uiVars, flags
    <3> QED BY <3>1, <3>2
  <2>13. CASE TransferOver
    <3>1. TypeOK'
      BY <2>13 DEF TransferOver, IInv, TypeOK, peerVars, uiVars, flags, cancelVars, history
    <3>2. Phases'
      BY <2>13 DEF TransferOver, IInv, Phases, Serving, uiVars, flags
    <3> QED BY <3>1, <3>2
  <2>14. CASE HangUp
    <3>1. TypeOK'
      BY <2>14 DEF HangUp, IInv, TypeOK, peerVars, uiVars, flags, cancelVars, history
    <3>2. Phases'
      BY <2>14 DEF HangUp, IInv, Phases, Serving, uiVars, flags
    <3> QED BY <3>1, <3>2
  <2>15. CASE Release
    <3>1. TypeOK'
      BY <2>15 DEF Release, IInv, TypeOK, peerVars, uiVars, flags, cancelVars, history
    <3>2. Phases'
      BY <2>15 DEF Release, IInv, Phases, Serving, uiVars, flags
    <3> QED BY <3>1, <3>2
  <2>16. CASE Failed
    <3>1. TypeOK'
      BY <2>16 DEF Failed, IInv, TypeOK, peerVars, uiVars, flags, cancelVars, history
    <3>2. Phases'
      BY <2>16 DEF Failed, IInv, Phases, Serving, uiVars, flags
    <3> QED BY <3>1, <3>2
  <2> QED
    BY <2>1, <2>2, <2>3, <2>4, <2>5, <2>6, <2>7, <2>8, <2>9, <2>10, <2>11, <2>12, <2>13, <2>14, <2>15, <2>16
    DEF QuietServer
<1>2. Quiet /\ (server \in Serving => server' \in Serving)
  BY DEF QuietServer, Bind, AwaitReceiver, Listen, AcceptEnds, Wrap, HandshakeFails, HandshakeDone,
         Adopt, Attach, WaitCancelled, WaitTimeout, CheckConnection, TransferOver, HangUp, Release,
         Failed, Quiet, Serving, peerVars
<1> QED BY <1>1, <1>2, QuietKeepsDrops DEF IInv

LEMMA ReceiverComesKeepsInvariant ==
  ASSUME IInv, ReceiverComes
  PROVE  IInv'
<1>1. TypeOK' /\ Phases'
  BY ZeroIsNoDrop DEF ReceiverComes, IInv, TypeOK, peerVars, Phases, Serving, uiVars, flags, history
<1>2. pending = 0 /\ sending = 0
  BY DEF ReceiverComes, IInv, TypeOK, peerVars, UnderWay, Serving
<1> QED BY <1>1, <1>2 DEF ReceiverComes, IInv, UnderWay, AcceptedIsKept, history

LEMMA TakeDropKeepsInvariant ==
  ASSUME IInv, TakeDrop
  PROVE  IInv'
<1>1. TypeOK' /\ Phases'
  BY DEF TakeDrop, IInv, TypeOK, peerVars, Phases, Serving, uiVars, cancelVars, history
<1>2. UnderWay' /\ AcceptedIsKept'
  BY ZeroIsNoDrop DEF TakeDrop, IInv, TypeOK, peerVars, UnderWay, AcceptedIsKept, history
<1> QED BY <1>1, <1>2 DEF IInv

LEMMA SendKeepsInvariant ==
  ASSUME IInv, Send
  PROVE  IInv'
<1>1. /\ sending \in Drops /\ sending' = 0 /\ server = "send"
      /\ server' \in {"sent", "unsent", "hangup"}
      /\ \E how \in {"sent", "failed"} : fate' = [fate EXCEPT ![sending] = how]
      /\ UNCHANGED <<uiVars, startup, flags, pending, peerVars, cancelVars, meant>>
  BY DEF Send, IInv, TypeOK, peerVars
<1>2. TypeOK'
  BY <1>1 DEF IInv, TypeOK, peerVars, Fates, uiVars, flags, cancelVars
<1>3. Phases'
  BY <1>1 DEF IInv, Phases, Serving, uiVars, flags
<1>4. UnderWay' /\ AcceptedIsKept'
  BY <1>1, ZeroIsNoDrop DEF IInv, TypeOK, peerVars, UnderWay, AcceptedIsKept, Serving
<1> QED BY <1>2, <1>3, <1>4 DEF IInv

LEMMA DiscardKeepsInvariant ==
  ASSUME IInv, Detach \/ Final \/ RunSlots
  PROVE  IInv'
<1>1. /\ pending' = 0 /\ fate' \in [Drops -> Fates]
      /\ \A d \in Drops : fate'[d] = "accepted" <=> fate[d] = "accepted" /\ d # pending
  BY DiscardedIsPending DEF Detach, Final, RunSlots, Fates
<1>2. UNCHANGED <<sending, receiver, meant>>
  BY DEF Detach, Final, RunSlots, peerVars
<1>3. TypeOK'
  <2>1. CASE Detach
    BY <1>1, <2>1 DEF Detach, IInv, TypeOK, peerVars, uiVars, cancelVars
  <2>2. CASE Final
    BY <1>1, <2>2 DEF Final, IInv, TypeOK, peerVars, uiVars, cancelVars
  <2>3. CASE RunSlots
    BY <1>1, <2>3 DEF RunSlots, IInv, TypeOK, peerVars, flags, Free
  <2> QED BY <2>1, <2>2, <2>3
<1>4. Phases'
  BY DEF Detach, Final, RunSlots, IInv, Phases, Serving, uiVars, flags
<1>5. UnderWay' /\ AcceptedIsKept'
  BY <1>1, <1>2, ZeroIsNoDrop DEF IInv, TypeOK, peerVars, UnderWay, AcceptedIsKept
<1> QED BY <1>3, <1>4, <1>5 DEF IInv

LEMMA SubmitKeepsInvariant ==
  ASSUME IInv, NEW d \in Drops, Submit(d)
  PROVE  IInv'
<1>1. /\ fate[d] = "none" /\ ui = "idle"
      /\ UNCHANGED <<uiVars, server, startup, flags, sending, peerVars, cancelVars>>
  BY DEF Submit
<1>2. Phases'
  BY <1>1 DEF IInv, Phases, uiVars, flags
<1>3. CASE MayDrop
  <2>1. /\ connected /\ pending = 0 /\ pending' = d
        /\ fate' = [fate EXCEPT ![d] = "accepted"] /\ meant' = [meant EXCEPT ![d] = receiver]
    BY <1>3 DEF Submit, MayDrop
  <2>2. TypeOK'
    BY <1>1, <2>1 DEF IInv, TypeOK, peerVars, Fates, uiVars, flags, cancelVars
  <2>3. d # sending /\ server \in Serving
    BY <1>1, <2>1, ZeroIsNoDrop DEF IInv, UnderWay, Phases
  <2>4. UnderWay' /\ AcceptedIsKept'
    BY <1>1, <2>1, <2>3, ZeroIsNoDrop DEF IInv, TypeOK, peerVars, UnderWay, AcceptedIsKept
  <2> QED BY <1>2, <2>2, <2>4 DEF IInv
<1>4. CASE ~MayDrop
  <2>1. fate' = [fate EXCEPT ![d] = "refused"] /\ UNCHANGED <<pending, meant>>
    BY <1>4 DEF Submit
  <2>2. TypeOK'
    BY <1>1, <2>1 DEF IInv, TypeOK, peerVars, Fates, uiVars, flags, cancelVars
  <2>3. UnderWay' /\ AcceptedIsKept'
    BY <1>1, <2>1 DEF IInv, TypeOK, peerVars, UnderWay, AcceptedIsKept
  <2> QED BY <1>2, <2>2, <2>3 DEF IInv
<1> QED BY <1>3, <1>4

PeerChanges == PeerLeaves \/ PeerStalls \/ PeerGoesOn \/ PingSticks \/ PingEnds

QuietElsewhere == PeerChanges \/ Start \/ Started \/ Stop \/ Stopped

LEMMA QuietElsewhereKeepsInvariant ==
  ASSUME IInv, QuietElsewhere
  PROVE  IInv'
<1>1. TypeOK' /\ Phases'
  <2>1. CASE PeerChanges
    <3>1. /\ UNCHANGED <<uiVars, server, startup, flags, pending, sending, receiver, cancelVars, history>>
          /\ peer' \in {peer, "gone", "stalled", "there"} /\ keepalive' \in {keepalive, "idle", "stuck"}
      BY <2>1 DEF PeerChanges, PeerLeaves, PeerStalls, PeerGoesOn, PeerBecomes, PingSticks, PingEnds
    <3>2. TypeOK'
      BY <3>1 DEF IInv, TypeOK, uiVars, flags, cancelVars, history
    <3>3. Phases'
      BY <3>1 DEF IInv, Phases, uiVars, flags
    <3> QED BY <3>2, <3>3
  <2>2. CASE Start
    <3>1. TypeOK'
      BY <2>2 DEF Start, IInv, TypeOK, peerVars, Phases, uiVars, flags, cancelVars, history
    <3>2. Phases'
      BY <2>2 DEF Start, IInv, Phases, Serving, uiVars, flags
    <3> QED BY <3>1, <3>2
  <2>3. CASE Started
    <3>1. TypeOK'
      BY <2>3 DEF Started, IInv, TypeOK, peerVars, uiVars, flags, cancelVars, history
    <3>2. Phases'
      BY <2>3 DEF Started, IInv, Phases, Serving, uiVars, flags
    <3> QED BY <3>1, <3>2
  <2>4. CASE Stop
    <3>1. TypeOK'
      BY <2>4 DEF Stop, IInv, TypeOK, peerVars, uiVars, flags, cancelVars, history
    <3>2. Phases'
      BY <2>4 DEF Stop, IInv, Phases, Serving, uiVars, flags
    <3> QED BY <3>1, <3>2
  <2>5. CASE Stopped
    <3>1. TypeOK'
      BY <2>5 DEF Stopped, IInv, TypeOK, peerVars, uiVars, flags, cancelVars, history
    <3>2. Phases'
      BY <2>5 DEF Stopped, IInv, Phases, Serving, uiVars, flags
    <3> QED BY <3>1, <3>2
  <2> QED
    BY <2>1, <2>2, <2>3, <2>4, <2>5 DEF QuietElsewhere
<1>2. Quiet /\ (server \in Serving => server' \in Serving)
  BY DEF QuietElsewhere, PeerChanges, PeerLeaves, PeerStalls, PeerGoesOn, PeerBecomes, PingSticks,
         PingEnds, peerVars, Start, Started, Stop, Stopped, Quiet, IInv, Phases, Serving
<1> QED BY <1>1, <1>2, QuietKeepsDrops DEF IInv

LEMMA NextKeepsInvariant == IInv /\ [Next]_vars => IInv'
<1> SUFFICES ASSUME IInv, [Next]_vars PROVE IInv'
  OBVIOUS
<1>1. CASE QuietServer
  BY <1>1, QuietServerKeepsInvariant
<1>2. CASE ReceiverComes
  BY <1>2, ReceiverComesKeepsInvariant
<1>3. CASE TakeDrop
  BY <1>3, TakeDropKeepsInvariant
<1>4. CASE Send
  BY <1>4, SendKeepsInvariant
<1>5. CASE Detach \/ Final \/ RunSlots
  BY <1>5, DiscardKeepsInvariant
<1>6. CASE \E d \in Drops : Submit(d)
  BY <1>6, SubmitKeepsInvariant
<1>7. CASE QuietElsewhere
  BY <1>7, QuietElsewhereKeepsInvariant
<1>8. CASE UNCHANGED vars
  BY <1>8 DEF vars, uiVars, flags, cancelVars, history, IInv, TypeOK, peerVars, Phases, UnderWay,
              AcceptedIsKept
<1> QED
  BY <1>1, <1>2, <1>3, <1>4, <1>5, <1>6, <1>7, <1>8
     DEF Next, ServerStep, PeerStep, AcceptFails, AcceptError, QuietServer, QuietElsewhere,
         PeerChanges, Finished

LEMMA Invariance == Spec => []IInv
BY InitEstablishesInvariant, NextKeepsInvariant, PTL DEF Spec

(* Whatever the user, the receivers and the server thread do, and in       *)
(* whatever order, the state of the session is of its type, and the thread *)
(* is sending exactly when it has a drop to send.                          *)
THEOREM TypeCorrect == Spec => []TypeOK
<1>1. IInv => TypeOK
  BY DEF IInv
<1> QED BY <1>1, Invariance, PTL

(* A drop goes to the receiver the user saw when dropping it, for any      *)
(* number of receivers coming and going.                                   *)
THEOREM DropsAreNotMixedUp == Spec => []DropGoesToItsReceiver
<1>1. IInv => DropGoesToItsReceiver
  BY DEF IInv, Phases, UnderWay, DropGoesToItsReceiver
<1> QED BY <1>1, Invariance, PTL

(* No accepted drop is overwritten by a later one, for any number of drops.*)
THEOREM AcceptedDropsAreKept == Spec => []AcceptedIsKept
<1>1. IInv => AcceptedIsKept
  BY DEF IInv
<1> QED BY <1>1, Invariance, PTL

(* stop() leaves nothing behind: no thread, no pending drop and no flag.   *)
THEOREM StopIsQuiet == Spec => []StoppedIsQuiet
<1>1. IInv => StoppedIsQuiet
  BY DEF IInv, Phases, UnderWay, Serving, StoppedIsQuiet
<1> QED BY <1>1, Invariance, PTL
=============================================================================
