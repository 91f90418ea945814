-------------------------------- MODULE Chat --------------------------------
(***************************************************************************)
(* Direct messages in one browser tab (Chat.jsx) over the hub (ChatHub.cs).*)
(*                                                                         *)
(* The hub works off a tab's calls one after the other, and what it sends  *)
(* a tab arrives in order.  A message is stored first and pushed later, to *)
(* the connections that have joined.  The connection can break at any time *)
(* and comes back, until the client gives up.                              *)
(*                                                                         *)
(* The tab's own messages go like everybody's.  Delivered and seen marks,  *)
(* groups, presence, files and deleted conversations are left out, and the *)
(* database keeps every message.                                           *)
(***************************************************************************)
EXTENDS Naturals, Sequences, FiniteSets

CONSTANTS
    Partners,           \* whom the tab's owner writes with
    MaxChatMessages,    \* bound: messages of all conversations
    MaxChatClicks,      \* bound: conversations opened and closed
    MaxChatBreaks       \* bound: times the connection breaks or a call of the hub fails

Nobody == "nobody"
Messages == [id : 1..MaxChatMessages, with : Partners]

VARIABLES
    stored,     \* messages in the database
    unsent,     \* of these, the ones not pushed yet
    link,       \* the tab's connection: "never", "up", "broken" or "given up"
    joined,     \* it receives the owner's messages
    hub,        \* the tab's calls the hub has not finished
    history,    \* what it read for the first of them
    inbox,      \* on its way to the tab
    missing,    \* a call failed since the connection is up
    selected,   \* the conversation the tab shows
    target,     \* the conversation whose history it waits for
    messages,   \* the messages the tab has
    clicks,
    breaks

serverVars == <<stored, unsent>>
linkVars == <<link, joined, hub, history, inbox, missing, breaks>>
tabVars == <<selected, target, messages, clicks>>
chatVars == <<serverVars, linkVars, tabVars>>

Join == [method |-> "JoinChat", with |-> Nobody]
GetHistory(p) == [method |-> "GetChatHistory", with |-> p]

Unread == [read |-> FALSE, rows |-> {}]

With(rs, p) == {m \in rs : m.with = p}

-----------------------------------------------------------------------------
(* The server.                                                             *)

\* SendMessage of any tab: the row first ...
StoreMessage(p) ==
    LET id == Cardinality(stored) + 1
    IN  /\ id <= MaxChatMessages
        /\ stored' = stored \cup {[id |-> id, with |-> p]}
        /\ unsent' = unsent \cup {[id |-> id, with |-> p]}
        /\ UNCHANGED <<linkVars, tabVars>>

\* ... then ReceiveMessage to the connections of both.
Push(m) ==
    /\ m \in unsent
    /\ unsent' = unsent \ {m}
    /\ inbox' = IF joined THEN Append(inbox, [event |-> "ReceiveMessage", rows |-> {m}])
                ELSE inbox
    /\ UNCHANGED <<stored, link, joined, hub, history, missing, breaks, tabVars>>

JoinChat ==
    /\ hub # <<>> /\ Head(hub).method = "JoinChat"
    /\ joined' = TRUE
    /\ hub' = Tail(hub)
    /\ UNCHANGED <<serverVars, link, history, inbox, missing, breaks, tabVars>>

ReadHistory ==
    /\ hub # <<>> /\ Head(hub).method = "GetChatHistory"
    /\ ~history.read
    /\ history' = [read |-> TRUE, rows |-> With(stored, Head(hub).with)]
    /\ UNCHANGED <<serverVars, link, joined, hub, inbox, missing, breaks, tabVars>>

SendHistory ==
    /\ history.read
    /\ inbox' = Append(inbox, [event |-> "ChatHistory", rows |-> history.rows])
    /\ history' = Unread
    /\ hub' = Tail(hub)
    /\ UNCHANGED <<serverVars, link, joined, missing, breaks, tabVars>>

\* A call throws; the tab logs it.
HubCallFails ==
    /\ hub # <<>> /\ breaks < MaxChatBreaks
    /\ breaks' = breaks + 1
    /\ missing' = TRUE
    /\ history' = Unread
    /\ hub' = Tail(hub)
    /\ UNCHANGED <<serverVars, link, joined, inbox, tabVars>>

-----------------------------------------------------------------------------
(* The connection.                                                         *)

\* Mutant of Greeting: the history is asked for before the tab has joined.
GreetingSwapped(p) == (IF p = Nobody THEN <<>> ELSE <<GetHistory(p)>>) \o <<Join>>

\* The calls a tab makes when it is connected, or connected again.
Greeting(p) == <<Join>> \o (IF p = Nobody THEN <<>> ELSE <<GetHistory(p)>>)

\* The first time the history is asked for by the effect, which names it the target.
ConnectTab ==
    /\ link \in {"never", "broken"}
    /\ link' = "up"
    /\ hub' = Greeting(selected)
    /\ target' = IF link = "never" /\ selected # Nobody THEN selected ELSE target
    /\ missing' = FALSE
    /\ UNCHANGED <<serverVars, joined, history, inbox, breaks, selected, messages, clicks>>

\* What is on its way either way is lost, and the new connection has not joined.
Break ==
    /\ link = "up" /\ breaks < MaxChatBreaks
    /\ breaks' = breaks + 1
    /\ link' = "broken"
    /\ joined' = FALSE
    /\ hub' = <<>> /\ history' = Unread /\ inbox' = <<>>
    /\ UNCHANGED <<serverVars, missing, tabVars>>

\* start() is tried once, a broken connection a few times.
GiveUpLink ==
    /\ link \in {"never", "broken"}
    /\ link' = "given up"
    /\ UNCHANGED <<serverVars, joined, hub, history, inbox, missing, breaks, tabVars>>

-----------------------------------------------------------------------------
(* The tab.                                                                *)

CountClick == clicks < MaxChatClicks /\ clicks' = clicks + 1

\* The effect asks for the history, in vain while the connection is broken.
Select(p) ==
    /\ p # selected
    /\ CountClick
    /\ selected' = p
    /\ target' = IF link = "never" THEN target ELSE p
    /\ hub' = IF link = "up" THEN Append(hub, GetHistory(p)) ELSE hub
    /\ UNCHANGED <<serverVars, link, joined, history, inbox, missing, breaks, messages>>

\* A group is selected, or the conversation is closed, which also resets the target.
Deselect ==
    /\ selected # Nobody
    /\ CountClick
    /\ selected' = Nobody
    /\ target' \in {target, Nobody}
    /\ UNCHANGED <<serverVars, linkVars, messages>>

Receive ==
    /\ inbox # <<>> /\ Head(inbox).event = "ReceiveMessage"
    /\ messages' = messages \cup Head(inbox).rows
    /\ inbox' = Tail(inbox)
    /\ UNCHANGED <<serverVars, link, joined, hub, history, missing, breaks, selected, target,
                   clicks>>

\* Of a history only the messages with the target count.
ReceiveHistory ==
    LET active == IF target # Nobody THEN target ELSE selected
    IN  /\ inbox # <<>> /\ Head(inbox).event = "ChatHistory"
        /\ messages' = messages \cup With(Head(inbox).rows, active)
        /\ inbox' = Tail(inbox)
        /\ UNCHANGED <<serverVars, link, joined, hub, history, missing, breaks, selected, target,
                   clicks>>

-----------------------------------------------------------------------------
ChatInit ==
    /\ stored = {} /\ unsent = {}
    /\ link = "never" /\ joined = FALSE
    /\ hub = <<>> /\ history = Unread /\ inbox = <<>>
    /\ missing = FALSE /\ breaks = 0
    /\ selected = Nobody /\ target = Nobody
    /\ messages = {} /\ clicks = 0

ChatNext ==
    \/ \E p \in Partners : StoreMessage(p) \/ Select(p)
    \/ \E m \in unsent : Push(m)
    \/ JoinChat \/ ReadHistory \/ SendHistory \/ HubCallFails
    \/ ConnectTab \/ Break \/ GiveUpLink
    \/ Deselect \/ Receive \/ ReceiveHistory

ChatSpec == ChatInit /\ [][ChatNext]_chatVars

-----------------------------------------------------------------------------
(* Properties.                                                             *)

\* The tab has only messages that are stored; the hub and the inbox hold calls and
\* events.
ChatTypeOK ==
    /\ stored \subseteq Messages /\ unsent \subseteq stored /\ messages \subseteq stored
    /\ link \in {"never", "up", "broken", "given up"}
    /\ joined => link = "up"
    /\ selected \in Partners \cup {Nobody} /\ target \in Partners \cup {Nobody}
    /\ \A n \in DOMAIN hub : hub[n] = Join \/ \E p \in Partners : hub[n] = GetHistory(p)
    /\ \A n \in DOMAIN inbox : inbox[n].rows \subseteq stored

\* A tab that is connected and at rest shows every message of the conversation it has
\* open, however often the connection broke, and whatever was stored, pushed or selected
\* meanwhile; unless a call of the hub failed.
NothingMissed ==
    (link = "up" /\ ~missing /\ hub = <<>> /\ inbox = <<>> /\ unsent = {} /\ selected # Nobody)
        => With(stored, selected) \subseteq messages
=============================================================================
