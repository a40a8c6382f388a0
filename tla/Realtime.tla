------------------------------- MODULE Realtime -------------------------------
(***************************************************************************)
(* The realtime hub, the two websocket routes that feed it (events and     *)
(* chat) and the requests that broadcast through it.                       *)
(*                                                                         *)
(* One event loop runs a task per websocket and per request.  No task      *)
(* waits while it holds the hub's lock, so each locked section is a step,  *)
(* and with it the first list of recipients it leads to; every send is a   *)
(* step of its own, at which other tasks run.  A send to a peer that is    *)
(* gone may fail, and then the task that sends disconnects that socket and *)
(* announces the leave itself, before it goes on with its own recipients.  *)
(* The checks of a handshake (ticket, session, version, drain) belong to   *)
(* other modules: here a connection they refuse is one that is not opened. *)
(***************************************************************************)
EXTENDS Backend, Integers, Sequences, FiniteSets

CONSTANTS
  Sockets,
  UserOf,     \* UserOf[s]: the user behind the websocket s
  Zones,      \* the levels
  Hubs,       \* those that are town hubs
  Places,     \* bound: the zone, hub flag and previews that come with a scope
  Global,     \* the global chat channel
  Direct,     \* the direct channels that can come to be
  Pairs,      \* the pairs of users that ask for a direct channel
  MaxInputs   \* bound: connections, client messages and requests

Place == [zone: Zones \cup {None}, hub: BOOLEAN, previews: SUBSET Zones]

ASSUME RealtimeConstants ==
  /\ UserOf \in [Sockets -> Users] /\ Sockets \cap Requests = {}
  /\ Global \notin Direct /\ None \notin Users \cup Zones \cup Direct \cup {Global}
  /\ Hubs \subseteq Zones /\ Places \subseteq Place
  /\ Pairs \subseteq SUBSET Users /\ MaxInputs \in Nat

Channels == Direct \cup {Global}
Tasks == Sockets \cup Requests

VARIABLES
  meta,      \* meta[s]: the hub's record of socket s, or None
  channels, zones, users,   \* the hub's indexes: sockets by channel, zone, user
  presence,  \* presence[u]: the hub zone where user u counts as present, or None
  task,      \* task[s]: how far the task of socket s is
  chan,      \* chan[s]: the channel that its route was asked for, or None
  alive,     \* alive[s]: its peer is there
  jobs,      \* jobs[t]: the broadcasts that task t is in the middle of, the inner first
  members,   \* members[d]: who belongs to the direct channel d
  making,    \* making[q]: the direct channel and the pair that request q makes, or None
  inputs     \* connections, client messages and requests so far

hub == <<meta, channels, zones, users, presence>>
chat == <<members, making>>
vars == <<hub, task, chan, alive, jobs, chat, inputs>>

\* channel: a chat socket's; zone, is_hub and previews: an events socket's.  The
\* adjacent levels count only while their preview is allowed, so they are one.
Meta == [channel: Channels \cup {None}, zone: Zones \cup {None}, hub: BOOLEAN,
         previews: SUBSET Zones]

\* A broadcast under way: the channel it is for, if any, the sockets that are
\* still to be sent to, and the hub zone to be joined after it, if any.
Broadcast == [channel: Channels \cup {None}, to: SUBSET Sockets, join: Zones \cup {None}]

\* A direct channel whose row is there, and the pair that it is for.
Making == [channel: Direct, pair: Pairs]

ASSUME NoRecord == None \notin Meta /\ None \notin Making

TypeOK ==
  /\ meta \in [Sockets -> Meta \cup {None}]
  /\ channels \in [Channels -> SUBSET Sockets]
  /\ zones \in [Zones -> SUBSET Sockets]
  /\ users \in [Users -> SUBSET Sockets]
  /\ presence \in [Users -> Zones \cup {None}]
  /\ task \in [Sockets -> {"away", "accepting", "serving", "leaving"}]
  /\ chan \in [Sockets -> Channels \cup {None}]
  /\ alive \in [Sockets -> BOOLEAN]
  /\ jobs \in [Tasks -> Seq(Broadcast)]
  /\ members \in [Direct -> SUBSET Users]
  /\ making \in [Requests -> Making \cup {None}]
  /\ inputs \in 0 .. MaxInputs

Init ==
  /\ meta = [s \in Sockets |-> None]
  /\ channels = [c \in Channels |-> {}]
  /\ zones = [z \in Zones |-> {}]
  /\ users = [u \in Users |-> {}]
  /\ presence = [u \in Users |-> None]
  /\ task = [s \in Sockets |-> "away"]
  /\ chan = [s \in Sockets |-> None]
  /\ alive = [s \in Sockets |-> TRUE]
  /\ jobs = [t \in Tasks |-> << >>]
  /\ members = [d \in Direct |-> {}]
  /\ making = [q \in Requests |-> None]
  /\ inputs = 0

Input == inputs < MaxInputs /\ inputs' = inputs + 1

-------------------------------------------------------------------------------
(* The hub. *)

Add(index, k, s) == IF k = None THEN index ELSE [index EXCEPT ![k] = @ \cup {s}]
Discard(index, k, s) == IF k = None THEN index ELSE [index EXCEPT ![k] = @ \ {s}]

\* Those who hear that user u joined or left zone z.
Audience(z, u) == {s \in zones[z]: UserOf[s] # u}
\* Those who hear of u's moves in zone z: the sockets there and those that preview it.
Watchers(z, u) == {s \in Sockets: /\ meta[s] # None /\ UserOf[s] # u
                                  /\ meta[s].zone = z \/ z \in meta[s].previews}

Sending(c, to, join) == [channel |-> c, to |-> to, join |-> join]
\* A broadcast that has nobody left to send to, and nothing to follow, is over.
Pending(job) == job.to # {} \/ job.join # None
Push(job, rest) == IF Pending(job) THEN <<job>> \o rest ELSE rest
Start(t, job) == jobs' = [jobs EXCEPT ![t] = Push(job, @)]
Announcement(zone, u) == Sending(None, IF zone = None THEN {} ELSE Audience(zone, u), None)

(* Mutant: the zone index keeps the socket. *)
Removed_NotFromZone(s) ==
  /\ meta' = [meta EXCEPT ![s] = None]
  /\ channels' = Discard(channels, meta[s].channel, s)
  /\ users' = Discard(users, UserOf[s], s)
  /\ UNCHANGED zones

Removed(s) ==
  /\ meta' = [meta EXCEPT ![s] = None]
  /\ channels' = Discard(channels, meta[s].channel, s)
  /\ zones' = Discard(zones, meta[s].zone, s)
  /\ users' = Discard(users, UserOf[s], s)

\* disconnect: the task t takes the socket s out of the hub, once, and announces
\* that its user left if it was the user's last one.
Disconnect(t, s, rest) ==
  LET u == UserOf[s]
      last == users[u] = {s} IN
  IF meta[s] = None
  THEN /\ UNCHANGED hub /\ jobs' = [jobs EXCEPT ![t] = rest]
  ELSE /\ Removed(s)
       /\ presence' = IF last THEN [presence EXCEPT ![u] = None] ELSE presence
       /\ jobs' = [jobs EXCEPT ![t] =
            Push(Announcement(IF last THEN presence[u] ELSE None, u), rest)]

\* connect: the accepted socket s is registered for its channel, or for a zone.  A
\* hub zone becomes its user's; the hub where the user was is not told.
Connect(s, zone, is_hub) ==
  LET u == UserOf[s]
      joins == is_hub /\ zone # None /\ presence[u] # zone IN
  /\ task[s] = "accepting"
  /\ task' = [task EXCEPT ![s] = "serving"]
  /\ meta' = [meta EXCEPT ![s] = [channel |-> chan[s], zone |-> zone, hub |-> is_hub,
                                  previews |-> {}]]
  /\ channels' = Add(channels, chan[s], s)
  /\ zones' = Add(zones, zone, s)
  /\ users' = Add(users, u, s)
  /\ presence' = IF joins THEN [presence EXCEPT ![u] = zone] ELSE presence
  /\ Start(s, Announcement(IF joins THEN zone ELSE None, u))
  /\ UNCHANGED <<chan, alive, chat, inputs>>

\* update_zone_scope: an events socket moves to a zone.  Its user leaves the hub
\* it counted as present in when the socket comes from a hub, and that one is
\* another, or goes where there is none; then the user joins the new hub.
ZoneScope(s, p) ==
  LET u == UserOf[s]
      zone == p.zone
      is_hub == p.hub /\ zone # None
      leaves == presence[u] # None /\ (~is_hub \/ (meta[s].hub /\ presence[u] # zone))
      joins == is_hub /\ presence[u] # zone
      joined == IF joins THEN zone ELSE None IN
  /\ Input
  /\ task[s] = "serving" /\ alive[s] /\ jobs[s] = << >>
  /\ chan[s] = None /\ meta[s] # None
  /\ meta' = [meta EXCEPT ![s].zone = zone, ![s].hub = is_hub, ![s].previews = p.previews]
  /\ zones' = Add(Discard(zones, meta[s].zone, s), zone, s)
  /\ presence' = [presence EXCEPT ![u] = IF is_hub THEN zone ELSE None]
  /\ Start(s, IF leaves THEN [Announcement(presence[u], u) EXCEPT !.join = joined]
              ELSE Announcement(joined, u))
  /\ UNCHANGED <<channels, users, task, chan, alive, chat>>

-------------------------------------------------------------------------------
(* A task that broadcasts. *)

\* One send of the innermost broadcast of task t, to socket s.  A send to a peer
\* that is gone may go unnoticed; if it fails, the sender disconnects the socket.
Send(t, s) ==
  LET job == Head(jobs[t])
      rest == Push([job EXCEPT !.to = @ \ {s}], Tail(jobs[t])) IN
  /\ jobs[t] # << >> /\ s \in job.to
  /\ \/ jobs' = [jobs EXCEPT ![t] = rest] /\ UNCHANGED hub
     \/ ~alive[s] /\ Disconnect(t, s, rest)
  /\ UNCHANGED <<task, chan, alive, chat, inputs>>

\* The leave has been announced, and the join of the same move follows.
Follow(s) ==
  LET job == Head(jobs[s]) IN
  /\ jobs[s] # << >> /\ job.to = {}
  /\ jobs' = [jobs EXCEPT ![s] = Push(Announcement(job.join, UserOf[s]), Tail(@))]
  /\ UNCHANGED <<hub, task, chan, alive, chat, inputs>>

-------------------------------------------------------------------------------
(* The websocket routes. *)

CanAccess(u, c) == c \in {Global} \cup {d \in Direct: u \in members[d]}

\* A peer connects to the events route (c = None) or to the chat route, which
\* checks the channel before it accepts.
Arrive(s, c) ==
  /\ task[s] = "away" /\ Input
  /\ IF c = None THEN TRUE ELSE CanAccess(UserOf[s], c)
  /\ task' = [task EXCEPT ![s] = "accepting"]
  /\ chan' = [chan EXCEPT ![s] = c]
  /\ alive' = [alive EXCEPT ![s] = TRUE]
  /\ UNCHANGED <<hub, jobs, chat>>

\* A message that came in on a chat socket goes to everyone in its channel.
Say(s) ==
  /\ Input
  /\ task[s] = "serving" /\ alive[s] /\ jobs[s] = << >> /\ chan[s] # None
  /\ Start(s, Sending(chan[s], channels[chan[s]], None))
  /\ UNCHANGED <<hub, task, chan, alive, chat>>

\* A zone_presence of an events socket, for a zone that is a hub.
Move(s, zone) ==
  /\ Input
  /\ task[s] = "serving" /\ alive[s] /\ jobs[s] = << >> /\ chan[s] = None
  /\ Start(s, Sending(None, Watchers(zone, UserOf[s]), None))
  /\ UNCHANGED <<hub, task, chan, alive, chat>>

\* The peer goes away; what it sent before is handled first.
Break(s) ==
  /\ task[s] \in {"accepting", "serving"} /\ alive[s]
  /\ alive' = [alive EXCEPT ![s] = FALSE]
  /\ UNCHANGED <<hub, task, chan, jobs, chat, inputs>>

(* Mutant: the route ends without taking its socket out of the hub. *)
Leave_Registered(s) ==
  /\ task[s] = "serving" /\ ~alive[s] /\ jobs[s] = << >>
  /\ task' = [task EXCEPT ![s] = "leaving"]
  /\ UNCHANGED <<hub, jobs, chan, alive, chat, inputs>>

\* The next receive fails, or the first send after the registration, and the
\* route's finally takes the socket out of the hub.
Leave(s) ==
  /\ task[s] = "serving" /\ ~alive[s] /\ jobs[s] = << >>
  /\ task' = [task EXCEPT ![s] = "leaving"]
  /\ Disconnect(s, s, << >>)
  /\ UNCHANGED <<chan, alive, chat, inputs>>

\* An accept fails when the peer is gone, and there is nothing to disconnect.
End(s) ==
  /\ \/ task[s] = "leaving" /\ jobs[s] = << >>
     \/ task[s] = "accepting" /\ ~alive[s]
  /\ task' = [task EXCEPT ![s] = "away"]
  /\ chan' = [chan EXCEPT ![s] = None]
  /\ UNCHANGED <<hub, alive, jobs, chat, inputs>>

\* The routes' registrations: of an events socket, with the hub flag of the
\* session's level and the zone of the selected character, and of a chat socket.
ConnectEvents(s, p) == chan[s] = None /\ Connect(s, p.zone, p.hub)
ConnectChat(s) == chan[s] # None /\ Connect(s, None, FALSE)

-------------------------------------------------------------------------------
(* Requests. *)

\* A content publish, its warning and its cutoff, and a forced update go to every
\* socket; a message that is posted goes to its channel.
Notify(q) ==
  /\ Input
  /\ jobs[q] = << >> /\ making[q] = None
  /\ Start(q, Sending(None, {s \in Sockets: meta[s] # None}, None))
  /\ UNCHANGED <<hub, task, chan, alive, chat>>

CreateMessage(q, u, c) ==
  /\ Input
  /\ jobs[q] = << >> /\ making[q] = None
  /\ CanAccess(u, c)
  /\ Start(q, Sending(c, channels[c], None))
  /\ UNCHANGED <<hub, task, chan, alive, chat>>

\* A direct channel of two users is made when they have none: its row first, ...
CreateDirect(q, pair, d) ==
  /\ Input
  /\ jobs[q] = << >> /\ making[q] = None
  /\ \A e \in Direct: members[e] # pair
  /\ members[d] = {} /\ \A p \in Requests: (making[p] # None => making[p].channel # d)
  /\ making' = [making EXCEPT ![q] = [channel |-> d, pair |-> pair]]
  /\ UNCHANGED <<hub, task, chan, alive, jobs, members>>
\* ... and its members in a transaction of their own.
AddMembers(q) ==
  /\ making[q] # None
  /\ members' = [members EXCEPT ![making[q].channel] = making[q].pair]
  /\ making' = [making EXCEPT ![q] = None]
  /\ UNCHANGED <<hub, task, chan, alive, jobs, inputs>>

-------------------------------------------------------------------------------
\* What the event loop does for socket s without its peer.
Serve(s) == \/ \E o \in Sockets: Send(s, o)
            \/ Follow(s) \/ Leave(s) \/ End(s)

Next ==
  \/ \E s \in Sockets:
       \/ Serve(s) \/ Say(s) \/ Break(s)
       \/ \E c \in Channels \cup {None}: Arrive(s, c)
       \/ ConnectChat(s) \/ \E p \in Places: ConnectEvents(s, p) \/ ZoneScope(s, p)
       \/ \E z \in Hubs: Move(s, z)
  \/ \E q \in Requests:
       \/ Notify(q) \/ \E s \in Sockets: Send(q, s)
       \/ \E u \in Users, c \in Channels: CreateMessage(q, u, c)
       \/ AddMembers(q) \/ \E p \in Pairs, d \in Direct: CreateDirect(q, p, d)

\* The event loop runs every task that can go on.
Fairness == \A s \in Sockets: WF_vars(Serve(s))

Spec == Init /\ [][Next]_vars /\ Fairness

-------------------------------------------------------------------------------
(* Properties. *)

(* Every index of the hub holds exactly the sockets whose record says so, and *)
(* a user counts as present in a hub only while a connection of theirs is     *)
(* registered.                                                                *)
Indexed ==
  /\ \A c \in Channels: channels[c] = {s \in Sockets: meta[s] # None /\ meta[s].channel = c}
  /\ \A z \in Zones: zones[z] = {s \in Sockets: meta[s] # None /\ meta[s].zone = z}
  /\ \A u \in Users: users[u] = {s \in Sockets: meta[s] # None /\ UserOf[s] = u}
  /\ \A u \in Users: presence[u] # None => users[u] # {}

(* What is said in a direct channel is on its way only to sockets of its two  *)
(* members, also when the channel was made while they connected (chat_ws,     *)
(* create_message and the list of recipients that broadcast takes).           *)
Private(m, list) ==
  \A i \in DOMAIN list: list[i].channel \in Direct =>
    \A s \in list[i].to: UserOf[s] \in m[list[i].channel]
DirectIsPrivate == \A t \in Tasks: Private(members, jobs[t])

(* The hub holds together and says nothing to strangers, whoever disconnects  *)
(* whom, during whose broadcast, and however zones change in between          *)
(* (connect, disconnect, update_zone_scope and the broadcasts).               *)
Coherent == Indexed /\ DirectIsPrivate

(* The inductive invariant of RealtimeProofs: besides, a socket is registered *)
(* only while its route serves it, for the channel that the route was asked   *)
(* for; who is on a direct channel's socket belongs to it; and a channel that *)
(* is being made has nobody in it yet, and one request that makes it.         *)
Registered ==
  \A s \in Sockets: meta[s] # None => task[s] = "serving" /\ meta[s].channel = chan[s]
Entitled == \A s \in Sockets: chan[s] \in Direct => UserOf[s] \in members[chan[s]]
MadeOnce ==
  \A q \in Requests: making[q] # None =>
    /\ members[making[q].channel] = {}
    /\ \A r \in Requests: making[r] # None /\ making[r].channel = making[q].channel => r = q

IndInv == TypeOK /\ Registered /\ Entitled /\ MadeOnce /\ Coherent

(* A connection whose peer is gone leaves the hub in the end, and its user's  *)
(* presence with the last one: again and again there is no dead connection,   *)
(* although a task may first have to finish broadcasts in which it            *)
(* disconnects others (the routes' finally and the sends that fail).          *)
GoneAreForgotten ==
  []<>(\A s \in Sockets: alive[s] \/ (task[s] = "away" /\ meta[s] = None))
===============================================================================
