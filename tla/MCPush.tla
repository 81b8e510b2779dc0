------------------------------- MODULE MCPush --------------------------------
(* Finite instances of the two halves of the push path from the ControlBus to an *)
(* SDK process: the Gateway's hub, and the activation feed of one strategy.  A   *)
(* behaviour is of one half; part says which.                                    *)
EXTENDS ActivationFeed, EventHub

CONSTANTS own, other

VARIABLE part

TwoStrategies == {own, other}
On     == [active |-> TRUE, freeze |-> FALSE]
Off    == [active |-> FALSE, freeze |-> FALSE]
Frozen == [active |-> TRUE, freeze |-> TRUE]

\* A freeze after the side was opened; another strategy's side opens before the own
\* one is closed.
FreezeOne  == <<<<own, "long", On>>, <<own, "long", Frozen>>>>
OtherOpens == <<<<other, "long", On>>, <<own, "long", Off>>>>
Feeds == {FreezeOne, OtherOpens}

\* A connection that falls behind loses the oldest of its events and only those: what is
\* queued for it is a run of the newest, whatever it filters, and every variable of the
\* two halves has its type.
QueuesSafe == FeedTypeOK /\ HubTypeOK /\ QueueIsNewest

PushInit ==
    /\ FeedInit /\ HubInit
    /\ \/ part = "feed"
       \/ part = "hub" /\ script = FreezeOne

PushNext ==
    \/ part = "feed" /\ FeedNext /\ UNCHANGED <<hubVars, part>>
    \/ part = "hub" /\ HubNext /\ UNCHANGED <<feedVars, part>>

PushSpec ==
    /\ PushInit /\ [][PushNext]_<<feedVars, hubVars, part>>
    /\ part = "feed" => FeedFairness
    /\ part = "hub" => HubFairness
=============================================================================
