------------------------------- MODULE RunFeed -------------------------------
(***************************************************************************)
(* One client of /ws/runs (runs_ws.py): what is published about runs on    *)
(* three Redis channels is forwarded to it.  Two tasks serve the client,   *)
(* one that receives the run it asks for and one that forwards; the first  *)
(* to end ends the other, whatever that is waiting for, and the            *)
(* subscription to Redis.                                                  *)
(***************************************************************************)
EXTENDS Naturals, Sequences

CONSTANTS Runs, NoRun,
          MaxInbox    \* bound on messages that wait for the forwarding task

\* Definitions whose name starts with Wrong are plausible defects of the
\* definition that follows them.  No specification uses them: each is put in
\* the place of that definition to see that a property notices it.

VARIABLES
    client,      \* of the WebSocket
    request,     \* the last run.subscribe message the service has not read, or NoRun
    wanted,      \* run_id
    subscribed,  \* to the channels in Redis
    inbox,       \* messages of the subscription, oldest first
    receiver,    \* task receive_run_id
    forwarder,   \* task forward_messages
    endpoint     \* runs_websocket itself

vars == <<client, request, wanted, subscribed, inbox, receiver, forwarder, endpoint>>

Channels == {"run.complete", "run.progress", "run.state_change"}
Message == [type: Channels, run: Runs]

TypeOK ==
    /\ client \in {"connected", "gone"}
    /\ request \in Runs \cup {NoRun}
    /\ wanted \in Runs \cup {NoRun}
    /\ subscribed \in BOOLEAN
    /\ inbox \in UNION {[1 .. n -> Message] : n \in 0 .. MaxInbox}
    /\ receiver \in {"receiving", "done"}
    /\ forwarder \in {"listening", "sending", "done"}
    /\ endpoint \in {"connecting", "waiting", "leaving", "closed"}

Init ==
    /\ client = "connected" /\ request = NoRun /\ wanted = NoRun
    /\ subscribed = FALSE /\ inbox = <<>>
    /\ receiver = "done" /\ forwarder = "done" /\ endpoint = "connecting"

-----------------------------------------------------------------------------
(* The client and the publishers *)

Ask(r) ==
    /\ client = "connected"
    /\ request' = r
    /\ UNCHANGED <<client, wanted, subscribed, inbox, receiver, forwarder, endpoint>>

Leave ==
    /\ client = "connected"
    /\ client' = "gone"
    /\ UNCHANGED <<request, wanted, subscribed, inbox, receiver, forwarder, endpoint>>

Publish(message) ==
    /\ subscribed /\ Len(inbox) < MaxInbox
    /\ inbox' = Append(inbox, message)
    /\ UNCHANGED <<client, request, wanted, subscribed, receiver, forwarder, endpoint>>

-----------------------------------------------------------------------------
(* The endpoint and its tasks *)

Subscribe ==
    /\ endpoint = "connecting"
    /\ subscribed' = TRUE
    /\ receiver' = "receiving" /\ forwarder' = "listening" /\ endpoint' = "waiting"
    /\ UNCHANGED <<client, request, wanted, inbox>>

Receive ==
    /\ receiver = "receiving"
    /\ \/ request # NoRun /\ wanted' = request /\ request' = NoRun /\ UNCHANGED receiver
       \/ /\ request = NoRun /\ client = "gone"
          /\ receiver' = "done"
          /\ UNCHANGED <<wanted, request>>
    /\ UNCHANGED <<client, subscribed, inbox, forwarder, endpoint>>

\* Status changes go to everybody, the rest to whom the run interests.
Interests(message) ==
    message.type = "run.state_change" \/ wanted \in {NoRun, message.run}

Listen ==
    /\ forwarder = "listening" /\ inbox # <<>>
    /\ inbox' = Tail(inbox)
    /\ forwarder' = IF Interests(Head(inbox)) THEN "sending" ELSE "listening"
    /\ UNCHANGED <<client, request, wanted, subscribed, receiver, endpoint>>

\* The message is sent, or the client or the connection to Redis is gone.
SendText ==
    /\ forwarder = "sending"
    /\ forwarder' = IF client = "connected" THEN "listening" ELSE "done"
    /\ UNCHANGED <<client, request, wanted, subscribed, inbox, receiver, endpoint>>

ListenFails ==
    /\ forwarder = "listening"
    /\ forwarder' = "done"
    /\ UNCHANGED <<client, request, wanted, subscribed, inbox, receiver, endpoint>>

WrongTasksEnd ==
    /\ endpoint = "waiting" /\ receiver = "done" /\ forwarder = "done"
    /\ endpoint' = "leaving"
    /\ UNCHANGED <<client, request, wanted, subscribed, inbox, receiver, forwarder>>

\* FIRST_COMPLETED; the other task is cancelled.
TasksEnd ==
    /\ endpoint = "waiting" /\ "done" \in {receiver, forwarder}
    /\ receiver' = "done" /\ forwarder' = "done"
    /\ endpoint' = "leaving"
    /\ UNCHANGED <<client, request, wanted, subscribed, inbox>>

Unsubscribe ==
    /\ endpoint = "leaving"
    /\ subscribed' = FALSE /\ inbox' = <<>>
    /\ endpoint' = "closed"
    /\ UNCHANGED <<client, request, wanted, receiver, forwarder>>

-----------------------------------------------------------------------------

Next ==
    \/ \E r \in Runs : Ask(r)
    \/ Leave
    \/ \E message \in Message : Publish(message)
    \/ Subscribe \/ Receive \/ Listen \/ SendText \/ ListenFails \/ TasksEnd \/ Unsubscribe

\* "A disconnected receiver must not leave the Redis listener alive forever": a
\* client that leaves ends its subscription, also when nothing is published anymore.
DisconnectReleases == client = "gone" ~> endpoint = "closed" /\ ~subscribed
=============================================================================
