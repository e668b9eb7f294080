------------------------------- MODULE Links -------------------------------
(***************************************************************************)
(* What the collector promises about the systems of its configuration:     *)
(* each has one link, which goes round from down (waiting to be connected) *)
(* to up (its records are read) to closing (its descriptor is being        *)
(* replaced) and down again, one link at a time.  A link that could not    *)
(* get a new descriptor is dropped for good.                               *)
(***************************************************************************)
CONSTANT Systems
VARIABLE link

LinkState == {"absent", "down", "up", "closing", "dropped"}

Init == link = [i \in Systems |-> "absent"]

Move(i, from, to) ==
    /\ link[i] = from
    /\ link' = [link EXCEPT ![i] = to]

Configure(i) == Move(i, "absent", "down")
Connect(i)   == Move(i, "down", "up")
Lose(i)      == Move(i, "up", "closing")
Requeue(i)   == Move(i, "closing", "down")
Drop(i)      == Move(i, "closing", "dropped")

Next == \E i \in Systems :
            Configure(i) \/ Connect(i) \/ Lose(i) \/ Requeue(i) \/ Drop(i)

Spec == Init /\ [][Next]_link
=============================================================================
