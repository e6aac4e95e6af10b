------------------------------ MODULE BytePipe ------------------------------
(***************************************************************************)
(* What each direction of a tunnel promises, with no records, retries or   *)
(* connections in it: a byte stream whose n-th byte is named n.  The       *)
(* producer offers bytes, the pipe delivers them in order without loss or  *)
(* duplication, and it releases (acknowledges, so that the producer may    *)
(* forget) only bytes that were delivered.  The pipe may stop at any time. *)
(***************************************************************************)
EXTENDS Integers, Sequences

VARIABLES
    offered,     \* how many bytes the producer has handed over
    delivered,   \* the bytes the consumer got, in order
    released     \* how many bytes were acknowledged to the producer

pipe == <<offered, delivered, released>>

Prefix(n) == [i \in 1 .. n |-> i]

Init ==
    /\ offered = 0
    /\ delivered = Prefix(0)
    /\ released = 0

Offer ==
    /\ offered' \in Nat
    /\ offered' > offered
    /\ UNCHANGED <<delivered, released>>

Deliver ==
    /\ \E n \in Len(delivered) + 1 .. offered : delivered' = Prefix(n)
    /\ UNCHANGED <<offered, released>>

Release ==
    /\ \E n \in released + 1 .. Len(delivered) : released' = n
    /\ UNCHANGED <<offered, delivered>>

Next == Offer \/ Deliver \/ Release

Spec == Init /\ [][Next]_pipe
=============================================================================
