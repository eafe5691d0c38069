------------------------------ MODULE RunEvents ------------------------------
(***************************************************************************)
(* What is published about runs (module RunProgress) and how it reaches a  *)
(* client (module RunFeed).  The feed takes what Redis delivers and tells  *)
(* the publishers nothing, so it is given every sequence of messages, and  *)
(* a behaviour is one of the publishers or one of the feed.                *)
(***************************************************************************)
EXTENDS Naturals

CONSTANTS Runs, Requests, RunOf, NoRun, NodesOf, IdOf, Steps, MaxFaults, MaxInbox

VARIABLES
    used,
    status, shown, handler, queue, launch, progress, thread, bar, active, closed,
    beside, stray, faults,                                     \* of RunProgress
    client, request, wanted, subscribed, inbox, receiver, forwarder, endpoint \* of RunFeed

PublisherVars == <<status, shown, handler, queue, launch, progress, thread, bar, active,
                   closed, beside, stray, faults>>
FeedVars == <<client, request, wanted, subscribed, inbox, receiver, forwarder, endpoint>>

Pub == INSTANCE RunProgress
Feed == INSTANCE RunFeed

ASSUME EventsAssumption == Pub!ProgressConstants /\ MaxInbox \in Nat

Init == used \in {"publishers", "feed"} /\ Pub!Init /\ Feed!Init

PublishersNext == used = "publishers" /\ Pub!Next /\ UNCHANGED <<used, FeedVars>>
FeedNext == used = "feed" /\ Feed!Next /\ UNCHANGED <<used, PublisherVars>>
Next == PublishersNext \/ FeedNext

vars == <<used, PublisherVars, FeedVars>>

\* The event loop runs every task that can go on.
Served(A) == used = "feed" /\ A /\ UNCHANGED <<used, PublisherVars>>

Spec ==
    /\ Init /\ [][Next]_vars
    /\ WF_vars(Served(Feed!Subscribe)) /\ WF_vars(Served(Feed!Receive))
    /\ WF_vars(Served(Feed!Listen)) /\ WF_vars(Served(Feed!SendText))
    /\ WF_vars(Served(Feed!TasksEnd)) /\ WF_vars(Served(Feed!Unsubscribe))

\* Progress messages name the nodes of their run (RunProgress).
OwnProgress == Pub!OwnProgress

\* The registries of bars retain nothing between runs, but stray bars (RunProgress).
NothingIsRetained == Pub!NothingIsRetained

\* A progress message is no older than its poll (RunProgress).
PollIsCurrent == Pub!PollIsCurrent

\* Statuses are published in the order in which the run had them (RunProgress).
EventsInOrder == Pub!EventsInOrder

\* The final state of every node of a completed run is reported (RunProgress).
FinalStatesAreReported == Pub!FinalStatesAreReported

\* A client that leaves ends its subscription (RunFeed).
DisconnectReleases == Feed!DisconnectReleases

\* The inductive invariant, proved in RunEvents_proofs; of the feed, its types.
IInv == Pub!IInv /\ Feed!TypeOK
=============================================================================
