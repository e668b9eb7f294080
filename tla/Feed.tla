-------------------------------- MODULE Feed --------------------------------
(***************************************************************************)
(* What an agent promises its collectors (blastpacket(), watchstat() and   *)
(* acceptor() of pcapper.c): one feed of records for all of them.  A       *)
(* collector gets the feed from the record that is published next after it *)
(* subscribed, without gaps, until it is lost; and no record is published  *)
(* before every collector that is not lost has been given the one before.  *)
(***************************************************************************)
EXTENDS Integers, Sequences

CONSTANTS Collectors, Records, NotYet

VARIABLES
    feed,       \* the records published
    from,       \* how many there were when a collector subscribed, or NotYet
    stream,     \* the records each collector was given
    lost        \* collectors that have left or were cut off

vars == <<feed, from, stream, lost>>

Init ==
    /\ feed = <<>>
    /\ from = [c \in Collectors |-> NotYet]
    /\ stream = [c \in Collectors |-> <<>>]
    /\ lost = {}

Behind(c) == from[c] # NotYet /\ from[c] + Len(stream[c]) < Len(feed)

Publish(r) ==
    /\ \A c \in Collectors \ lost : ~ Behind(c)
    /\ feed' = Append(feed, r)
    /\ UNCHANGED <<from, stream, lost>>

\* One that was lost before its turn came is still entered.
Subscribe(c) ==
    /\ from[c] = NotYet
    /\ from' = [from EXCEPT ![c] = Len(feed)]
    /\ UNCHANGED <<feed, stream, lost>>

Deliver(c) ==
    /\ c \notin lost /\ Behind(c)
    /\ stream' = [stream EXCEPT ![c] = Append(@, feed[from[c] + Len(@) + 1])]
    /\ UNCHANGED <<feed, from, lost>>

Lose(c) ==
    /\ c \notin lost
    /\ lost' = lost \union {c}
    /\ UNCHANGED <<feed, from, stream>>

Next ==
    \/ \E r \in Records : Publish(r)
    \/ \E c \in Collectors : Subscribe(c) \/ Deliver(c) \/ Lose(c)

Spec == Init /\ [][Next]_vars
=============================================================================
