----------------------------- MODULE OrderedFeed -----------------------------
(***************************************************************************)
(* What the Gateway's event stream promises a subscriber: of the events that  *)
(* are offered, numbered 1, 2, 3 ..., it receives some, each once and in the  *)
(* order of their numbers.  Nothing is promised about which.                  *)
(***************************************************************************)
EXTENDS Naturals, Sequences

CONSTANT Receiver

VARIABLES offered,      \* how many events have been offered
          received      \* the numbers each receiver has received

feed == <<offered, received>>

FeedInit == offered = 0 /\ received = [c \in Receiver |-> <<>>]

\* The number of the last event c has received.
LastOf(c) == IF received[c] = <<>> THEN 0 ELSE received[c][Len(received[c])]

Offer == offered' = offered + 1 /\ UNCHANGED received

Deliver(c) ==
    /\ \E n \in 1..offered : n > LastOf(c) /\ received' = [received EXCEPT ![c] = Append(@, n)]
    /\ UNCHANGED offered

FeedSpec == FeedInit /\ [][Offer \/ \E c \in Receiver : Deliver(c)]_feed
=============================================================================
