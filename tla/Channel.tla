------------------------------ MODULE Channel ------------------------------
(***************************************************************************)
(* What a BoundedQueue promises to the pipeline stage on either side of    *)
(* it: a bounded first-in first-out channel. Items leave in the order they *)
(* entered and none is lost or duplicated. Closing keeps every item the    *)
(* channel has accepted; an item that is only offered, by a producer the   *)
(* channel holds back, is thrown away exactly when that producer is told.  *)
(* A consumer is told the end when nothing is left for it, with the one    *)
(* exception stated at End. Abandoning throws away everything. Nothing     *)
(* here says how waiting and waking are done: that is BoundedQueue's       *)
(* business.                                                               *)
(***************************************************************************)
EXTENDS Naturals, Sequences

CONSTANTS Producers,   (* the senders                                      *)
          Consumers,   (* the receivers                                    *)
          Capacity     (* accepted items the channel holds                 *)

VARIABLES status,      (* "Open", "Closed" or "Abandoned"                  *)
          cut,         (* closed by somebody other than a producer         *)
          sent,        (* number of items each producer has put in         *)
          transit,     (* items accepted and not yet taken, oldest first   *)
          offered,     (* items of the producers held back, oldest first   *)
          delivered,   (* items each consumer has taken out                *)
          refused,     (* producers that were told their item is refused   *)
          ended        (* consumers that were told the end                 *)

vars == <<status, cut, sent, transit, offered, delivered, refused, ended>>

NextItem(p) == <<p, sent[p] + 1>>

Senders(items) == {items[i][1] : i \in DOMAIN items}

Init ==
  /\ status = "Open"
  /\ cut = FALSE
  /\ sent = [p \in Producers |-> 0]
  /\ transit = <<>>
  /\ offered = <<>>
  /\ delivered = [c \in Consumers |-> <<>>]
  /\ refused = {}
  /\ ended = {}

(* A producer's item is accepted while there is room and nobody is before  *)
(* it.                                                                     *)
Send(p) ==
  /\ status = "Open"
  /\ offered = <<>>
  /\ Len(transit) < Capacity
  /\ sent' = [sent EXCEPT ![p] = @ + 1]
  /\ transit' = Append(transit, NextItem(p))
  /\ UNCHANGED <<status, cut, offered, delivered, refused, ended>>

(* On a full channel a producer may be held back, with one item.           *)
Offer(p) ==
  /\ status = "Open"
  /\ Len(transit) = Capacity
  /\ p \notin Senders(offered)
  /\ sent' = [sent EXCEPT ![p] = @ + 1]
  /\ offered' = Append(offered, NextItem(p))
  /\ UNCHANGED <<status, cut, transit, delivered, refused, ended>>

(* The oldest item on offer moves into free room.                          *)
Accept ==
  /\ status = "Open"
  /\ offered # <<>>
  /\ Len(transit) < Capacity
  /\ transit' = Append(transit, Head(offered))
  /\ offered' = Tail(offered)
  /\ UNCHANGED <<status, cut, sent, delivered, refused, ended>>

(* The oldest item goes to a consumer, while the channel is open or after  *)
(* it was closed; the oldest one on offer may move into its place.         *)
Deliver(c) ==
  /\ status # "Abandoned"
  /\ transit # <<>>
  /\ c \notin ended
  /\ delivered' = [delivered EXCEPT ![c] = Append(@, Head(transit))]
  /\ \/ /\ transit' = Tail(transit)
        /\ UNCHANGED offered
     \/ /\ status = "Open" /\ offered # <<>>
        /\ transit' = Append(Tail(transit), Head(offered))
        /\ offered' = Tail(offered)
  /\ UNCHANGED <<status, cut, sent, refused, ended>>

(* With nothing older in the channel an item may go straight to a waiting  *)
(* consumer.                                                               *)
Pass(p, c) ==
  /\ status = "Open"
  /\ transit = <<>> /\ offered = <<>>
  /\ c \notin ended
  /\ sent' = [sent EXCEPT ![p] = @ + 1]
  /\ delivered' = [delivered EXCEPT ![c] = Append(@, NextItem(p))]
  /\ UNCHANGED <<status, cut, transit, offered, refused, ended>>

(* The producers held back are told that their items are refused, and the  *)
(* items go.                                                               *)
RefuseOffered ==
  /\ refused' = refused \cup Senders(offered)
  /\ offered' = <<>>

(* Closing keeps what was accepted: all of it.                             *)
Close ==
  /\ status = "Open"
  /\ status' = "Closed"
  /\ cut' \in BOOLEAN
  /\ RefuseOffered
  /\ UNCHANGED <<sent, transit, delivered, ended>>

Abandon ==
  /\ status # "Abandoned"
  /\ status' = "Abandoned"
  /\ transit' = <<>>
  /\ RefuseOffered
  /\ UNCHANGED <<cut, sent, delivered, ended>>

(* A channel that ended refuses an item before it takes it.                *)
Refuse(p) ==
  /\ status # "Open"
  /\ p \notin Senders(offered)
  /\ refused' = refused \cup {p}
  /\ UNCHANGED <<status, cut, sent, transit, offered, delivered, ended>>

(* A consumer learns the end of the stream when nothing is left. Only when *)
(* somebody other than the producer closed the channel may it miss what a  *)
(* producer was just putting in: the last item, one of each producer.      *)
End(c) ==
  /\ status # "Open"
  /\ transit # <<>> =>
       /\ status = "Closed" /\ cut
       /\ \A i, j \in DOMAIN transit : transit[i][1] = transit[j][1] => i = j
  /\ ended' = ended \cup {c}
  /\ UNCHANGED <<status, cut, sent, transit, offered, delivered, refused>>

Next ==
  \/ \E p \in Producers : Send(p) \/ Offer(p) \/ Refuse(p)
  \/ \E c \in Consumers : Deliver(c) \/ End(c)
  \/ \E p \in Producers, c \in Consumers : Pass(p, c)
  \/ Accept
  \/ Close
  \/ Abandon

Spec == Init /\ [][Next]_vars

=============================================================================
