---------------------------- MODULE RealtimeProofs ----------------------------
(* The coherence of the hub of Realtime, and after it that of the parties of  *)
(* Parties, proved for any users, sockets, levels, channels, requests and     *)
(* bounds.                                                                    *)
EXTENDS Realtime, Parties, TLAPS

-------------------------------------------------------------------------------
(* Broadcasts. *)

(* The parts of the type invariant that belong together. *)
HubType ==
  /\ meta \in [Sockets -> Meta \cup {None}]
  /\ channels \in [Channels -> SUBSET Sockets]
  /\ zones \in [Zones -> SUBSET Sockets]
  /\ users \in [Users -> SUBSET Sockets]
  /\ presence \in [Users -> Zones \cup {None}]
RouteType ==
  /\ task \in [Sockets -> {"away", "accepting", "serving", "leaving"}]
  /\ chan \in [Sockets -> Channels \cup {None}]
  /\ alive \in [Sockets -> BOOLEAN]
ChatType ==
  /\ members \in [Direct -> SUBSET Users]
  /\ making \in [Requests -> Making \cup {None}]
JobsType == jobs \in [Tasks -> Seq(Broadcast)]

LEMMA Types == TypeOK <=> HubType /\ RouteType /\ ChatType /\ JobsType /\ inputs \in 0 .. MaxInputs
BY DEF TypeOK, HubType, RouteType, ChatType, JobsType

(* Putting a broadcast before others keeps their type, and their privacy if   *)
(* it is itself only for those who may hear it.                               *)
LEMMA PushFacts ==
  ASSUME NEW m \in [Direct -> SUBSET Users], NEW job \in Broadcast, NEW rest \in Seq(Broadcast),
         Private(m, rest),
         job.channel \in Direct => \A s \in job.to : UserOf[s] \in m[job.channel]
  PROVE  Push(job, rest) \in Seq(Broadcast) /\ Private(m, Push(job, rest))
<1>1. <<job>> \o rest \in Seq(Broadcast)
  OBVIOUS
<1>2. Private(m, <<job>> \o rest)
  <2> DEFINE both == <<job>> \o rest
  <2>1. /\ Len(both) = Len(rest) + 1 /\ DOMAIN both = 1 .. Len(rest) + 1 /\ Len(rest) \in Nat
        /\ both[1] = job /\ \A i \in 2 .. Len(rest) + 1 : both[i] = rest[i - 1]
        /\ DOMAIN rest = 1 .. Len(rest)
    OBVIOUS
  <2>2. ASSUME NEW i \in DOMAIN both, both[i].channel \in Direct
        PROVE  \A s \in both[i].to : UserOf[s] \in m[both[i].channel]
    <3>1. CASE i = 1
      BY <2>1, <2>2, <3>1
    <3>2. CASE i # 1
      <4>1. i \in 2 .. Len(rest) + 1 /\ i - 1 \in DOMAIN rest /\ both[i] = rest[i - 1]
        BY <2>1, <3>2
      <4>2. QED
        BY <4>1, <2>2 DEF Private
    <3>3. QED
      BY <3>1, <3>2
  <2>3. QED
    BY <2>2 DEF Private
<1>3. QED
  BY <1>1, <1>2 DEF Push

LEMMA TailFacts ==
  ASSUME NEW m \in [Direct -> SUBSET Users], NEW list \in Seq(Broadcast), list # << >>,
         Private(m, list)
  PROVE  /\ Head(list) \in Broadcast /\ Tail(list) \in Seq(Broadcast)
         /\ Private(m, Tail(list))
         /\ Head(list).channel \in Direct =>
              \A s \in Head(list).to : UserOf[s] \in m[Head(list).channel]
<1>1. /\ Head(list) \in Broadcast /\ Tail(list) \in Seq(Broadcast)
      /\ Head(list) = list[1] /\ 1 \in DOMAIN list
      /\ DOMAIN Tail(list) = 1 .. Len(list) - 1 /\ DOMAIN list = 1 .. Len(list) /\ Len(list) \in Nat
      /\ \A i \in 1 .. Len(list) - 1 : Tail(list)[i] = list[i + 1]
  OBVIOUS
<1>2. Private(m, Tail(list))
  <2>1. ASSUME NEW i \in DOMAIN Tail(list), Tail(list)[i].channel \in Direct
        PROVE  \A s \in Tail(list)[i].to : UserOf[s] \in m[Tail(list)[i].channel]
    <3>1. i + 1 \in DOMAIN list /\ Tail(list)[i] = list[i + 1]
      BY <1>1
    <3>2. QED
      BY <3>1, <2>1 DEF Private
  <2>2. QED
    BY <2>1 DEF Private
<1>3. QED
  BY <1>1, <1>2 DEF Private

LEMMA SendingFacts ==
  ASSUME NEW c \in Channels \cup {None}, NEW to \in SUBSET Sockets, NEW join \in Zones \cup {None}
  PROVE  /\ Sending(c, to, join) \in Broadcast /\ Sending(c, to, join).channel = c
         /\ Sending(c, to, join).to = to
BY DEF Sending, Broadcast

(* An announcement is about no channel. *)
LEMMA AnnouncementFacts ==
  ASSUME HubType, NEW z \in Zones \cup {None}, NEW u \in Users
  PROVE  Announcement(z, u) \in Broadcast /\ Announcement(z, u).channel \notin Direct
<1>1. (IF z = None THEN {} ELSE Audience(z, u)) \in SUBSET Sockets
  BY DEF HubType, Audience
<1>2. Announcement(z, u) \in Broadcast /\ Announcement(z, u).channel = None
  BY <1>1, SendingFacts DEF Announcement
<1>3. QED
  BY <1>2, RealtimeConstants

(* The broadcasts of one task are replaced, and nobody leaves a channel. *)
JobsOf(t) ==
  \E list \in Seq(Broadcast) : Private(members, list) /\ jobs' = [jobs EXCEPT ![t] = list]

LEMMA JobsKept ==
  ASSUME JobsType, DirectIsPrivate, NEW t \in Tasks, JobsOf(t), UNCHANGED members
  PROVE  JobsType' /\ DirectIsPrivate'
BY DEF JobsType, DirectIsPrivate, JobsOf, Private

LEMMA JobsSame ==
  ASSUME JobsType, DirectIsPrivate, UNCHANGED <<jobs, members>>
  PROVE  JobsType' /\ DirectIsPrivate'
BY DEF JobsType, DirectIsPrivate, Private

LEMMA StartFacts ==
  ASSUME JobsType, ChatType, DirectIsPrivate, NEW t \in Tasks, NEW job \in Broadcast,
         job.channel \in Direct => \A s \in job.to : UserOf[s] \in members[job.channel],
         Start(t, job)
  PROVE  JobsOf(t)
<1>1. jobs[t] \in Seq(Broadcast) /\ Private(members, jobs[t])
  BY DEF JobsType, DirectIsPrivate
<1>2. Push(job, jobs[t]) \in Seq(Broadcast) /\ Private(members, Push(job, jobs[t]))
  BY <1>1, PushFacts DEF ChatType
<1>3. QED
  BY <1>2 DEF Start, JobsOf

-------------------------------------------------------------------------------
(* The hub. *)

(* What a disconnect does to the hub, when the socket is in it. *)
LEMMA RemovedFacts ==
  ASSUME HubType, Indexed, NEW s \in Sockets, meta[s] # None, Removed(s),
         presence' = IF users[UserOf[s]] = {s} THEN [presence EXCEPT ![UserOf[s]] = None] ELSE presence
  PROVE  HubType' /\ Indexed' /\ meta' = [meta EXCEPT ![s] = None]
<1> DEFINE u == UserOf[s]
<1>1. /\ meta[s] \in Meta /\ u \in Users
      /\ meta[s].channel \in Channels \cup {None} /\ meta[s].zone \in Zones \cup {None}
  BY RealtimeConstants DEF HubType, Meta
<1>2. /\ meta' = [meta EXCEPT ![s] = None]
      /\ channels' = Discard(channels, meta[s].channel, s)
      /\ zones' = Discard(zones, meta[s].zone, s)
      /\ users' = [users EXCEPT ![u] = @ \ {s}]
  BY <1>1, RealtimeConstants DEF Removed, Discard
<1>3. HubType'
  BY <1>1, <1>2 DEF HubType, Discard
<1>4. \A c \in Channels: channels'[c] = {x \in Sockets: meta'[x] # None /\ meta'[x].channel = c}
  <2>1. ASSUME NEW c \in Channels
        PROVE  channels'[c] = {x \in Sockets: meta'[x] # None /\ meta'[x].channel = c}
    <3>1. channels[c] = {x \in Sockets: meta[x] # None /\ meta[x].channel = c}
      BY DEF Indexed
    <3>2. channels'[c] = IF meta[s].channel = c THEN channels[c] \ {s} ELSE channels[c]
      BY <1>1, <1>2, RealtimeConstants DEF HubType, Discard, Channels
    <3>3. QED
      BY <1>2, <3>1, <3>2 DEF HubType
  <2>2. QED
    BY <2>1
<1>5. \A z \in Zones: zones'[z] = {x \in Sockets: meta'[x] # None /\ meta'[x].zone = z}
  <2>1. ASSUME NEW z \in Zones
        PROVE  zones'[z] = {x \in Sockets: meta'[x] # None /\ meta'[x].zone = z}
    <3>1. zones[z] = {x \in Sockets: meta[x] # None /\ meta[x].zone = z}
      BY DEF Indexed
    <3>2. zones'[z] = IF meta[s].zone = z THEN zones[z] \ {s} ELSE zones[z]
      BY <1>1, <1>2, RealtimeConstants DEF HubType, Discard
    <3>3. QED
      BY <1>2, <3>1, <3>2 DEF HubType
  <2>2. QED
    BY <2>1
<1>6. \A v \in Users: users'[v] = {x \in Sockets: meta'[x] # None /\ UserOf[x] = v}
  <2>1. ASSUME NEW v \in Users
        PROVE  users'[v] = {x \in Sockets: meta'[x] # None /\ UserOf[x] = v}
    <3>1. users[v] = {x \in Sockets: meta[x] # None /\ UserOf[x] = v}
      BY DEF Indexed
    <3>2. users'[v] = IF u = v THEN users[v] \ {s} ELSE users[v]
      BY <1>1, <1>2 DEF HubType
    <3>3. QED
      BY <1>2, <3>1, <3>2 DEF HubType
  <2>2. QED
    BY <2>1
<1>7. \A v \in Users: presence'[v] # None => users'[v] # {}
  <2>1. ASSUME NEW v \in Users, presence'[v] # None
        PROVE  users'[v] # {}
    <3>1. users'[v] = IF u = v THEN users[v] \ {s} ELSE users[v]
      BY <1>1, <1>2 DEF HubType
    <3>2. CASE v # u
      BY <2>1, <3>1, <3>2, <1>1 DEF HubType, Indexed
    <3>3. CASE v = u /\ users[u] = {s}
      BY <2>1, <3>3, <1>1 DEF HubType
    <3>4. CASE v = u /\ users[u] # {s}
      <4>1. users[u] # {}
        BY <2>1, <3>4, <1>1 DEF Indexed
      <4>2. QED
        BY <4>1, <3>1, <3>4
    <3>5. QED
      BY <3>2, <3>3, <3>4
  <2>2. QED
    BY <2>1
<1>8. QED
  BY <1>2, <1>3, <1>4, <1>5, <1>6, <1>7 DEF Indexed

(* Disconnecting keeps the hub together, whoever does it, and leaves the      *)
(* caller with broadcasts it may make.                                        *)
LEMMA DisconnectFacts ==
  ASSUME TypeOK, Indexed, NEW t \in Tasks, NEW s \in Sockets, NEW rest \in Seq(Broadcast),
         Private(members, rest), Disconnect(t, s, rest)
  PROVE  HubType' /\ Indexed' /\ meta' = [meta EXCEPT ![s] = None] /\ JobsOf(t)
<1>1. HubType /\ ChatType
  BY Types
<1>2. CASE meta[s] = None
  <2>1. UNCHANGED hub /\ jobs' = [jobs EXCEPT ![t] = rest]
    BY <1>2 DEF Disconnect
  <2>2. HubType' /\ Indexed' /\ meta' = [meta EXCEPT ![s] = None]
    BY <1>1, <1>2, <2>1 DEF HubType, Indexed, hub
  <2>3. QED
    BY <2>1, <2>2 DEF JobsOf
<1>3. CASE meta[s] # None
  <2> DEFINE left == IF users[UserOf[s]] = {s} THEN presence[UserOf[s]] ELSE None
  <2>1. /\ Removed(s)
        /\ presence' = IF users[UserOf[s]] = {s} THEN [presence EXCEPT ![UserOf[s]] = None] ELSE presence
        /\ jobs' = [jobs EXCEPT ![t] = Push(Announcement(left, UserOf[s]), rest)]
    BY <1>3 DEF Disconnect
  <2>2. HubType' /\ Indexed' /\ meta' = [meta EXCEPT ![s] = None]
    BY <1>1, <1>3, <2>1, RemovedFacts
  <2>3. UserOf[s] \in Users /\ left \in Zones \cup {None}
    BY <1>1, RealtimeConstants DEF HubType
  <2>4. Announcement(left, UserOf[s]) \in Broadcast /\ Announcement(left, UserOf[s]).channel \notin Direct
    BY <1>1, <2>3, AnnouncementFacts
  <2>5. /\ Push(Announcement(left, UserOf[s]), rest) \in Seq(Broadcast)
        /\ Private(members, Push(Announcement(left, UserOf[s]), rest))
    BY <1>1, <2>4, PushFacts DEF ChatType
  <2>6. QED
    BY <2>1, <2>2, <2>5 DEF JobsOf
<1>4. QED
  BY <1>2, <1>3

(* A socket that is in no index is put into those its record names.           *)
LEMMA ConnectFacts ==
  ASSUME TypeOK, Registered, Indexed, NEW s \in Sockets, NEW zone \in Zones \cup {None},
         NEW is_hub \in BOOLEAN, Connect(s, zone, is_hub)
  PROVE  /\ HubType' /\ Indexed'
         /\ meta'[s] # None /\ meta'[s].channel = chan[s]
         /\ \A x \in Sockets \ {s} : meta'[x] = meta[x]
<1> DEFINE u == UserOf[s]
           joins == is_hub /\ zone # None /\ presence[u] # zone
           record == [channel |-> chan[s], zone |-> zone, hub |-> is_hub, previews |-> {}]
<1>1. HubType /\ RouteType /\ u \in Users
  BY Types, RealtimeConstants
<1>2. record \in Meta /\ record # None
  BY <1>1, NoRecord DEF RouteType, Meta
<1>3. meta[s] = None
  BY DEF Connect, Registered
<1>4. /\ meta' = [meta EXCEPT ![s] = record]
      /\ channels' = Add(channels, chan[s], s)
      /\ zones' = Add(zones, zone, s)
      /\ users' = [users EXCEPT ![u] = @ \cup {s}]
      /\ presence' = IF joins THEN [presence EXCEPT ![u] = zone] ELSE presence
  BY <1>1, RealtimeConstants DEF Connect, Add
<1>5. HubType'
  BY <1>1, <1>2, <1>4 DEF HubType, RouteType, Add
<1>6. \A c \in Channels: channels'[c] = {x \in Sockets: meta'[x] # None /\ meta'[x].channel = c}
  <2>1. ASSUME NEW c \in Channels
        PROVE  channels'[c] = {x \in Sockets: meta'[x] # None /\ meta'[x].channel = c}
    <3>1. channels[c] = {x \in Sockets: meta[x] # None /\ meta[x].channel = c}
      BY DEF Indexed
    <3>2. channels'[c] = IF chan[s] = c THEN channels[c] \cup {s} ELSE channels[c]
      BY <1>1, <1>4, RealtimeConstants DEF HubType, RouteType, Add, Channels
    <3>3. QED
      BY <1>1, <1>2, <1>3, <1>4, <3>1, <3>2 DEF HubType
  <2>2. QED
    BY <2>1
<1>7. \A z \in Zones: zones'[z] = {x \in Sockets: meta'[x] # None /\ meta'[x].zone = z}
  <2>1. ASSUME NEW z \in Zones
        PROVE  zones'[z] = {x \in Sockets: meta'[x] # None /\ meta'[x].zone = z}
    <3>1. zones[z] = {x \in Sockets: meta[x] # None /\ meta[x].zone = z}
      BY DEF Indexed
    <3>2. zones'[z] = IF zone = z THEN zones[z] \cup {s} ELSE zones[z]
      BY <1>1, <1>4, RealtimeConstants DEF HubType, Add
    <3>3. QED
      BY <1>1, <1>2, <1>3, <1>4, <3>1, <3>2 DEF HubType
  <2>2. QED
    BY <2>1
<1>8. \A v \in Users: users'[v] = {x \in Sockets: meta'[x] # None /\ UserOf[x] = v}
  <2>1. ASSUME NEW v \in Users
        PROVE  users'[v] = {x \in Sockets: meta'[x] # None /\ UserOf[x] = v}
    <3>1. users[v] = {x \in Sockets: meta[x] # None /\ UserOf[x] = v}
      BY DEF Indexed
    <3>2. users'[v] = IF u = v THEN users[v] \cup {s} ELSE users[v]
      BY <1>1, <1>4 DEF HubType
    <3>3. QED
      BY <1>1, <1>2, <1>3, <1>4, <3>1, <3>2 DEF HubType
  <2>2. QED
    BY <2>1
<1>9. \A v \in Users: presence'[v] # None => users'[v] # {}
  BY <1>1, <1>4 DEF HubType, Indexed
<1>10. QED
  BY <1>1, <1>2, <1>4, <1>5, <1>6, <1>7, <1>8, <1>9 DEF Indexed, HubType

(* A socket that moves changes its zone in the index and in its record.       *)
LEMMA ScopeFacts ==
  ASSUME TypeOK, Indexed, NEW s \in Sockets, NEW p \in Place, ZoneScope(s, p)
  PROVE  /\ HubType' /\ Indexed'
         /\ meta'[s] # None /\ meta'[s].channel = meta[s].channel
         /\ \A x \in Sockets \ {s} : meta'[x] = meta[x]
<1> DEFINE u == UserOf[s]
           is_hub == p.hub /\ p.zone # None
           record == [meta[s] EXCEPT !.zone = p.zone, !.hub = is_hub, !.previews = p.previews]
<1>1. HubType /\ u \in Users /\ p.zone \in Zones \cup {None} /\ is_hub \in BOOLEAN /\ p.previews \in SUBSET Zones
  BY Types, RealtimeConstants DEF Place
<1>2. meta[s] # None /\ meta[s] \in Meta
  BY <1>1 DEF ZoneScope, HubType
<1>3. /\ record \in Meta /\ record # None /\ record.channel = meta[s].channel /\ record.zone = p.zone
  BY <1>1, <1>2, NoRecord DEF Meta
<1>4. /\ meta' = [meta EXCEPT ![s] = record]
      /\ zones' = Add(Discard(zones, meta[s].zone, s), p.zone, s)
      /\ presence' = [presence EXCEPT ![u] = IF is_hub THEN p.zone ELSE None]
      /\ UNCHANGED <<channels, users>>
  <2>1. meta' = [meta EXCEPT ![s].zone = p.zone, ![s].hub = is_hub, ![s].previews = p.previews]
    BY DEF ZoneScope
  <2>2. meta' = [meta EXCEPT ![s] = record]
    BY <1>1, <1>2, <2>1 DEF HubType, Meta
  <2>3. QED
    BY <2>2 DEF ZoneScope
<1>5. HubType'
  BY <1>1, <1>2, <1>3, <1>4 DEF HubType, Add, Discard, Meta
<1>6. \A c \in Channels: channels'[c] = {x \in Sockets: meta'[x] # None /\ meta'[x].channel = c}
  BY <1>1, <1>2, <1>3, <1>4 DEF HubType, Indexed
<1>7. \A z \in Zones: zones'[z] = {x \in Sockets: meta'[x] # None /\ meta'[x].zone = z}
  <2>1. ASSUME NEW z \in Zones
        PROVE  zones'[z] = {x \in Sockets: meta'[x] # None /\ meta'[x].zone = z}
    <3>1. zones[z] = {x \in Sockets: meta[x] # None /\ meta[x].zone = z}
      BY DEF Indexed
    <3>2. zones'[z] = IF p.zone = z THEN zones[z] \cup {s} ELSE zones[z] \ {s}
      <4> DEFINE less == Discard(zones, meta[s].zone, s)
      <4>1. meta[s].zone \in Zones \cup {None}
        BY <1>2 DEF Meta
      <4>2. less \in [Zones -> SUBSET Sockets] /\ less[z] = zones[z] \ {s}
        BY <1>1, <1>2, <4>1, <3>1, RealtimeConstants DEF HubType, Discard
      <4>3. zones' = Add(less, p.zone, s)
        BY <1>4
      <4>4. QED
        BY <1>1, <3>1, <4>2, <4>3, RealtimeConstants DEF Add
    <3>3. QED
      BY <1>1, <1>2, <1>3, <1>4, <3>1, <3>2 DEF HubType
  <2>2. QED
    BY <2>1
<1>8. \A v \in Users: users'[v] = {x \in Sockets: meta'[x] # None /\ UserOf[x] = v}
  BY <1>1, <1>2, <1>3, <1>4 DEF HubType, Indexed
<1>9. \A v \in Users: presence'[v] # None => users'[v] # {}
  <2>1. s \in users[u]
    BY <1>1, <1>2 DEF Indexed
  <2>2. QED
    BY <1>1, <1>4, <2>1 DEF HubType, Indexed
<1>10. QED
  BY <1>1, <1>2, <1>3, <1>4, <1>5, <1>6, <1>7, <1>8, <1>9 DEF Indexed, HubType

-------------------------------------------------------------------------------
(* The inductive invariant, one action at a time.                             *)

LEMMA Parts ==
  IndInv <=> /\ HubType /\ RouteType /\ ChatType /\ JobsType /\ inputs \in 0 .. MaxInputs
             /\ Registered /\ Entitled /\ MadeOnce /\ Indexed /\ DirectIsPrivate
BY Types DEF IndInv, Coherent

LEMMA PartsNext ==
  ASSUME HubType', RouteType', ChatType', JobsType', inputs' \in 0 .. MaxInputs,
         Registered', Entitled', MadeOnce', Indexed', DirectIsPrivate'
  PROVE  IndInv'
BY DEF IndInv, Coherent, TypeOK, HubType, RouteType, ChatType, JobsType

LEMMA InputFacts ==
  ASSUME inputs \in 0 .. MaxInputs, Input \/ UNCHANGED inputs
  PROVE  inputs' \in 0 .. MaxInputs
BY RealtimeConstants DEF Input

LEMMA InitInv == Init => IndInv
<1> SUFFICES ASSUME Init PROVE IndInv
  OBVIOUS
<1>1. HubType /\ RouteType /\ ChatType /\ inputs \in 0 .. MaxInputs
  BY RealtimeConstants DEF Init, HubType, RouteType, ChatType
<1>2. JobsType /\ DirectIsPrivate
  BY DEF Init, JobsType, DirectIsPrivate, Private
<1>3. Registered /\ MadeOnce /\ Indexed
  BY DEF Init, Registered, MadeOnce, Indexed
<1>4. Entitled
  BY RealtimeConstants DEF Init, Entitled
<1>5. QED
  BY <1>1, <1>2, <1>3, <1>4, Parts

(* A task goes on with its broadcasts while the hub and the rest stay.        *)
LEMMA OnlyJobs ==
  ASSUME IndInv, NEW t \in Tasks, JobsOf(t), UNCHANGED <<hub, task, chan, alive, chat>>,
         Input \/ UNCHANGED inputs
  PROVE  IndInv'
<1>1. JobsType' /\ DirectIsPrivate'
  BY Parts, JobsKept DEF chat
<1>2. HubType' /\ RouteType' /\ ChatType' /\ Registered' /\ Entitled' /\ MadeOnce' /\ Indexed'
  BY Parts DEF HubType, RouteType, ChatType, Registered, Entitled, MadeOnce, Indexed, hub, chat
<1>3. inputs' \in 0 .. MaxInputs
  BY Parts, InputFacts
<1>4. QED
  BY <1>1, <1>2, <1>3, PartsNext

(* A socket is taken out of the hub by its own task or by another one.        *)
LEMMA DisconnectInv ==
  ASSUME IndInv, NEW t \in Tasks, NEW s \in Sockets, NEW rest \in Seq(Broadcast),
         Private(members, rest), Disconnect(t, s, rest),
         \/ UNCHANGED task
         \/ task[s] = "serving" /\ task' = [task EXCEPT ![s] = "leaving"],
         UNCHANGED <<chan, alive, chat, inputs>>
  PROVE  IndInv'
<1>1. HubType' /\ Indexed' /\ meta' = [meta EXCEPT ![s] = None] /\ JobsOf(t)
  BY DisconnectFacts DEF IndInv, Coherent
<1>2. JobsType' /\ DirectIsPrivate'
  BY <1>1, Parts, JobsKept DEF chat
<1>3. RouteType' /\ ChatType' /\ Entitled' /\ MadeOnce' /\ inputs' \in 0 .. MaxInputs
  BY Parts DEF RouteType, ChatType, Entitled, MadeOnce, chat
<1>4. Registered'
  BY <1>1, Parts DEF Registered, HubType, RouteType
<1>5. QED
  BY <1>1, <1>2, <1>3, <1>4, PartsNext

LEMMA SendInv ==
  ASSUME IndInv, NEW t \in Tasks, NEW s \in Sockets, Send(t, s)
  PROVE  IndInv'
<1> DEFINE job == Head(jobs[t])
           less == [job EXCEPT !.to = @ \ {s}]
           rest == Push(less, Tail(jobs[t]))
<1>1. jobs[t] \in Seq(Broadcast) /\ Private(members, jobs[t]) /\ jobs[t] # << >>
      /\ members \in [Direct -> SUBSET Users]
  BY Parts DEF JobsType, DirectIsPrivate, Send, ChatType
<1>2. /\ job \in Broadcast /\ Tail(jobs[t]) \in Seq(Broadcast) /\ Private(members, Tail(jobs[t]))
      /\ job.channel \in Direct => \A x \in job.to : UserOf[x] \in members[job.channel]
  BY <1>1, TailFacts
<1>3. less \in Broadcast /\ less.channel = job.channel /\ less.to = job.to \ {s}
  BY <1>2 DEF Broadcast
<1>4. rest \in Seq(Broadcast) /\ Private(members, rest)
  BY <1>1, <1>2, <1>3, PushFacts
<1>5. CASE jobs' = [jobs EXCEPT ![t] = rest] /\ UNCHANGED hub
  <2>1. JobsOf(t)
    BY <1>4, <1>5 DEF JobsOf
  <2>2. QED
    BY <1>5, <2>1, OnlyJobs DEF Send
<1>6. CASE Disconnect(t, s, rest)
  BY <1>4, <1>6, DisconnectInv DEF Send
<1>7. QED
  BY <1>5, <1>6 DEF Send

LEMMA FollowInv ==
  ASSUME IndInv, NEW s \in Sockets, Follow(s)
  PROVE  IndInv'
<1> DEFINE job == Head(jobs[s])
           next == Announcement(job.join, UserOf[s])
<1>1. s \in Tasks /\ UserOf[s] \in Users
  BY RealtimeConstants DEF Tasks
<1>2. jobs[s] \in Seq(Broadcast) /\ Private(members, jobs[s]) /\ jobs[s] # << >>
      /\ members \in [Direct -> SUBSET Users]
  BY <1>1, Parts DEF JobsType, DirectIsPrivate, Follow, ChatType
<1>3. job \in Broadcast /\ Tail(jobs[s]) \in Seq(Broadcast) /\ Private(members, Tail(jobs[s]))
  BY <1>2, TailFacts
<1>4. next \in Broadcast /\ next.channel \notin Direct
  BY <1>1, <1>3, Parts, AnnouncementFacts DEF Broadcast
<1>5. Push(next, Tail(jobs[s])) \in Seq(Broadcast) /\ Private(members, Push(next, Tail(jobs[s])))
  BY <1>2, <1>3, <1>4, PushFacts
<1>6. JobsOf(s)
  BY <1>5 DEF Follow, JobsOf
<1>7. QED
  BY <1>1, <1>6, OnlyJobs DEF Follow

LEMMA LeaveInv ==
  ASSUME IndInv, NEW s \in Sockets, Leave(s)
  PROVE  IndInv'
<1>1. s \in Tasks
  BY DEF Tasks
<1>2. << >> \in Seq(Broadcast) /\ Private(members, << >>)
  BY DEF Private
<1>3. QED
  BY <1>1, <1>2, DisconnectInv DEF Leave

LEMMA EndInv ==
  ASSUME IndInv, NEW s \in Sockets, End(s)
  PROVE  IndInv'
<1>1. task[s] # "serving" /\ meta[s] = None
  BY Parts DEF End, Registered
<1>2. HubType' /\ Indexed' /\ ChatType' /\ MadeOnce' /\ inputs' \in 0 .. MaxInputs
  BY Parts DEF End, HubType, Indexed, ChatType, MadeOnce, hub, chat
<1>3. JobsType' /\ DirectIsPrivate'
  BY Parts, JobsSame DEF End, chat
<1>4. RouteType' /\ Registered'
  BY <1>1, Parts DEF End, RouteType, Registered, hub
<1>5. Entitled'
  BY Parts, RealtimeConstants DEF End, RouteType, Entitled, chat
<1>6. QED
  BY <1>2, <1>3, <1>4, <1>5, PartsNext

LEMMA BreakInv ==
  ASSUME IndInv, NEW s \in Sockets, Break(s)
  PROVE  IndInv'
<1>1. HubType' /\ Indexed' /\ ChatType' /\ MadeOnce' /\ inputs' \in 0 .. MaxInputs
  BY Parts DEF Break, HubType, Indexed, ChatType, MadeOnce, hub, chat
<1>2. JobsType' /\ DirectIsPrivate'
  BY Parts, JobsSame DEF Break, chat
<1>3. RouteType' /\ Registered' /\ Entitled'
  BY Parts DEF Break, RouteType, Registered, Entitled, hub, chat
<1>4. QED
  BY <1>1, <1>2, <1>3, PartsNext

LEMMA ArriveInv ==
  ASSUME IndInv, NEW s \in Sockets, NEW c \in Channels \cup {None}, Arrive(s, c)
  PROVE  IndInv'
<1>1. task[s] # "serving" /\ meta[s] = None
  BY Parts DEF Arrive, Registered
<1>2. HubType' /\ Indexed' /\ ChatType' /\ MadeOnce' /\ inputs' \in 0 .. MaxInputs
  BY Parts, InputFacts DEF Arrive, HubType, Indexed, ChatType, MadeOnce, hub, chat
<1>3. JobsType' /\ DirectIsPrivate'
  BY Parts, JobsSame DEF Arrive, chat
<1>4. RouteType' /\ Registered'
  BY <1>1, Parts DEF Arrive, RouteType, Registered, hub
<1>5. c \in Direct => UserOf[s] \in members[c]
  BY RealtimeConstants DEF Arrive, CanAccess
<1>6. Entitled'
  BY <1>5, Parts DEF Arrive, RouteType, Entitled, chat
<1>7. QED
  BY <1>2, <1>3, <1>4, <1>6, PartsNext

LEMMA ConnectInv ==
  ASSUME IndInv, NEW s \in Sockets, NEW zone \in Zones \cup {None}, NEW is_hub \in BOOLEAN,
         Connect(s, zone, is_hub)
  PROVE  IndInv'
<1> DEFINE u == UserOf[s]
           joins == is_hub /\ zone # None /\ presence[u] # zone
           job == Announcement(IF joins THEN zone ELSE None, u)
<1>1. /\ HubType' /\ Indexed'
      /\ meta'[s] # None /\ meta'[s].channel = chan[s]
      /\ \A x \in Sockets \ {s} : meta'[x] = meta[x]
  BY ConnectFacts DEF IndInv, Coherent
<1>2. s \in Tasks /\ u \in Users /\ (IF joins THEN zone ELSE None) \in Zones \cup {None}
  BY RealtimeConstants DEF Tasks
<1>3. job \in Broadcast /\ job.channel \notin Direct
  BY <1>2, Parts, AnnouncementFacts
<1>4. Start(s, job)
  BY DEF Connect
<1>5. JobsOf(s)
  BY <1>2, <1>3, <1>4, Parts, StartFacts
<1>6. JobsType' /\ DirectIsPrivate'
  BY <1>2, <1>5, Parts, JobsKept DEF Connect, chat
<1>7. RouteType' /\ ChatType' /\ Entitled' /\ MadeOnce' /\ inputs' \in 0 .. MaxInputs
  BY Parts DEF Connect, RouteType, ChatType, Entitled, MadeOnce, chat
<1>8. Registered'
  BY <1>1, Parts DEF Connect, Registered, RouteType
<1>9. QED
  BY <1>1, <1>6, <1>7, <1>8, PartsNext

LEMMA ZoneScopeInv ==
  ASSUME IndInv, NEW s \in Sockets, NEW p \in Place, ZoneScope(s, p)
  PROVE  IndInv'
<1> DEFINE u == UserOf[s]
           is_hub == p.hub /\ p.zone # None
           leaves == presence[u] # None /\ (~is_hub \/ (meta[s].hub /\ presence[u] # p.zone))
           joins == is_hub /\ presence[u] # p.zone
           joined == IF joins THEN p.zone ELSE None
           leave == [Announcement(presence[u], u) EXCEPT !.join = joined]
           job == IF leaves THEN leave ELSE Announcement(joined, u)
<1>1. /\ HubType' /\ Indexed'
      /\ meta'[s] # None /\ meta'[s].channel = meta[s].channel
      /\ \A x \in Sockets \ {s} : meta'[x] = meta[x]
  BY ScopeFacts DEF IndInv, Coherent
<1>2. s \in Tasks /\ u \in Users /\ joined \in Zones \cup {None} /\ presence[u] \in Zones \cup {None}
  BY Parts, RealtimeConstants DEF Tasks, Place, HubType
<1>3. Announcement(joined, u) \in Broadcast /\ Announcement(joined, u).channel \notin Direct
  BY <1>2, Parts, AnnouncementFacts
<1>4. leave \in Broadcast /\ leave.channel \notin Direct
  <2>1. Announcement(presence[u], u) \in Broadcast /\ Announcement(presence[u], u).channel \notin Direct
    BY <1>2, Parts, AnnouncementFacts
  <2>2. QED
    BY <1>2, <2>1 DEF Broadcast
<1>5. job \in Broadcast /\ job.channel \notin Direct
  BY <1>3, <1>4
<1>6. Start(s, job)
  BY DEF ZoneScope
<1>7. JobsOf(s)
  BY <1>2, <1>5, <1>6, Parts, StartFacts
<1>8. JobsType' /\ DirectIsPrivate'
  BY <1>2, <1>7, Parts, JobsKept DEF ZoneScope, chat
<1>9. RouteType' /\ ChatType' /\ Entitled' /\ MadeOnce' /\ inputs' \in 0 .. MaxInputs
  BY Parts, InputFacts DEF ZoneScope, RouteType, ChatType, Entitled, MadeOnce, chat
<1>10. Registered'
  BY <1>1, Parts DEF ZoneScope, Registered, RouteType
<1>11. QED
  BY <1>1, <1>8, <1>9, <1>10, PartsNext

(* Everybody in the index of a channel may hear what is said there.           *)
LEMMA ListenersBelong ==
  ASSUME IndInv, NEW c \in Channels
  PROVE  /\ channels[c] \in SUBSET Sockets
         /\ c \in Direct => \A s \in channels[c] : UserOf[s] \in members[c]
BY Parts DEF HubType, Indexed, Registered, Entitled

LEMMA SayInv ==
  ASSUME IndInv, NEW s \in Sockets, Say(s)
  PROVE  IndInv'
<1> DEFINE job == Sending(chan[s], channels[chan[s]], None)
<1>1. s \in Tasks /\ chan[s] \in Channels
  BY Parts DEF Tasks, RouteType, Say
<1>2. /\ job \in Broadcast
      /\ job.channel \in Direct => \A x \in job.to : UserOf[x] \in members[job.channel]
  BY <1>1, ListenersBelong, SendingFacts
<1>3. JobsOf(s)
  BY <1>1, <1>2, Parts, StartFacts DEF Say
<1>4. QED
  BY <1>1, <1>3, OnlyJobs DEF Say

LEMMA MoveInv ==
  ASSUME IndInv, NEW s \in Sockets, NEW z \in Zones, Move(s, z)
  PROVE  IndInv'
<1> DEFINE job == Sending(None, Watchers(z, UserOf[s]), None)
<1>1. s \in Tasks /\ Watchers(z, UserOf[s]) \in SUBSET Sockets
  BY DEF Tasks, Watchers
<1>2. job \in Broadcast /\ job.channel \notin Direct
  BY <1>1, SendingFacts, RealtimeConstants
<1>3. JobsOf(s)
  BY <1>1, <1>2, Parts, StartFacts DEF Move
<1>4. QED
  BY <1>1, <1>3, OnlyJobs DEF Move

LEMMA NotifyInv ==
  ASSUME IndInv, NEW q \in Requests, Notify(q)
  PROVE  IndInv'
<1> DEFINE job == Sending(None, {s \in Sockets: meta[s] # None}, None)
<1>1. q \in Tasks
  BY DEF Tasks
<1>2. job \in Broadcast /\ job.channel \notin Direct
  BY SendingFacts, RealtimeConstants
<1>3. JobsOf(q)
  BY <1>1, <1>2, Parts, StartFacts DEF Notify
<1>4. QED
  BY <1>1, <1>3, OnlyJobs DEF Notify

LEMMA CreateMessageInv ==
  ASSUME IndInv, NEW q \in Requests, NEW u \in Users, NEW c \in Channels, CreateMessage(q, u, c)
  PROVE  IndInv'
<1> DEFINE job == Sending(c, channels[c], None)
<1>1. q \in Tasks
  BY DEF Tasks
<1>2. /\ job \in Broadcast
      /\ job.channel \in Direct => \A x \in job.to : UserOf[x] \in members[job.channel]
  BY ListenersBelong, SendingFacts
<1>3. JobsOf(q)
  BY <1>1, <1>2, Parts, StartFacts DEF CreateMessage
<1>4. QED
  BY <1>1, <1>3, OnlyJobs DEF CreateMessage

LEMMA CreateDirectInv ==
  ASSUME IndInv, NEW q \in Requests, NEW pair \in Pairs, NEW d \in Direct, CreateDirect(q, pair, d)
  PROVE  IndInv'
<1> DEFINE made == [channel |-> d, pair |-> pair]
<1>1. made \in Making /\ made # None
  BY NoRecord DEF Making
<1>2. making' = [making EXCEPT ![q] = made] /\ UNCHANGED <<hub, task, chan, alive, jobs, members>>
  BY DEF CreateDirect
<1>3. HubType' /\ RouteType' /\ Registered' /\ Entitled' /\ Indexed' /\ inputs' \in 0 .. MaxInputs
  BY <1>2, Parts, InputFacts DEF CreateDirect, HubType, RouteType, Registered, Entitled, Indexed, hub
<1>4. JobsType' /\ DirectIsPrivate'
  BY <1>2, Parts, JobsSame
<1>5. ChatType'
  BY <1>1, <1>2, Parts DEF ChatType
<1>6. MadeOnce'
  BY <1>1, <1>2, Parts DEF CreateDirect, ChatType, MadeOnce
<1>7. QED
  BY <1>3, <1>4, <1>5, <1>6, PartsNext

LEMMA AddMembersInv ==
  ASSUME IndInv, NEW q \in Requests, AddMembers(q)
  PROVE  IndInv'
<1> DEFINE d == making[q].channel
<1>1. /\ making[q] \in Making /\ d \in Direct /\ making[q].pair \in SUBSET Users
      /\ members[d] = {} /\ making[q] # None
  BY Parts, RealtimeConstants DEF AddMembers, ChatType, Making, MadeOnce
<1>2. /\ members' = [members EXCEPT ![d] = making[q].pair] /\ making' = [making EXCEPT ![q] = None]
      /\ UNCHANGED <<hub, task, chan, alive, jobs, inputs>>
  BY DEF AddMembers
<1>3. \A e \in Direct : members[e] \subseteq members'[e]
  BY <1>1, <1>2, Parts DEF ChatType
<1>4. HubType' /\ RouteType' /\ Registered' /\ Indexed' /\ JobsType' /\ inputs' \in 0 .. MaxInputs
  BY <1>2, Parts DEF HubType, RouteType, Registered, Indexed, JobsType, hub
<1>5. Entitled'
  BY <1>2, <1>3, Parts DEF Entitled
<1>6. DirectIsPrivate'
  BY <1>2, <1>3, Parts DEF DirectIsPrivate, Private
<1>7. ChatType'
  BY <1>1, <1>2, Parts DEF ChatType
<1>8. MadeOnce'
  BY <1>1, <1>2, Parts DEF ChatType, MadeOnce, Making
<1>9. QED
  BY <1>4, <1>5, <1>6, <1>7, <1>8, PartsNext

LEMMA NextInv == IndInv /\ [Next]_vars => IndInv'
<1> SUFFICES ASSUME IndInv, [Next]_vars PROVE IndInv'
  OBVIOUS
<1>1. ASSUME NEW s \in Sockets, Serve(s)
      PROVE  IndInv'
  <2>1. s \in Tasks
    BY DEF Tasks
  <2>2. QED
    BY <1>1, <2>1, SendInv, FollowInv, LeaveInv, EndInv DEF Serve
<1>2. ASSUME NEW s \in Sockets, ConnectChat(s)
      PROVE  IndInv'
  BY <1>2, ConnectInv DEF ConnectChat
<1>3. ASSUME NEW s \in Sockets, NEW p \in Places, ConnectEvents(s, p) \/ ZoneScope(s, p)
      PROVE  IndInv'
  <2>1. p \in Place /\ p.zone \in Zones \cup {None} /\ p.hub \in BOOLEAN
    BY RealtimeConstants DEF Place
  <2>2. QED
    BY <1>3, <2>1, ConnectInv, ZoneScopeInv DEF ConnectEvents
<1>4. ASSUME NEW s \in Sockets, NEW z \in Hubs, Move(s, z)
      PROVE  IndInv'
  <2>1. z \in Zones
    BY RealtimeConstants
  <2>2. QED
    BY <1>4, <2>1, MoveInv
<1>5. ASSUME NEW q \in Requests, NEW s \in Sockets, Send(q, s)
      PROVE  IndInv'
  <2>1. q \in Tasks
    BY DEF Tasks
  <2>2. QED
    BY <1>5, <2>1, SendInv
<1>6. ASSUME UNCHANGED vars
      PROVE  IndInv'
  <2>1. JobsType' /\ DirectIsPrivate'
    BY <1>6, Parts, JobsSame DEF vars, chat
  <2>2. HubType' /\ RouteType' /\ ChatType' /\ inputs' \in 0 .. MaxInputs
        /\ Registered' /\ Entitled' /\ MadeOnce' /\ Indexed'
    BY <1>6, Parts DEF HubType, RouteType, ChatType, Registered, Entitled, MadeOnce, Indexed, vars, hub, chat
  <2>3. QED
    BY <2>1, <2>2, PartsNext
<1>7. QED
  BY <1>1, <1>2, <1>3, <1>4, <1>5, <1>6, SayInv, BreakInv, ArriveInv, NotifyInv, CreateMessageInv,
     CreateDirectInv, AddMembersInv DEF Next

-------------------------------------------------------------------------------
(* The theorems. *)

(* The invariant holds in every reachable state: what a socket's task, the    *)
(* tasks that send to it and the requests do to the hub fits together.        *)
THEOREM Coherence == Spec => []IndInv
BY InitInv, NextInv, PTL DEF Spec

(* The indexes of the hub agree with its records, somebody who is present in  *)
(* a hub has a connection, and what is said in a direct channel is only on    *)
(* its way to its two members (connect, disconnect, update_zone_scope and the *)
(* broadcasts of realtime.py, with the chat routes).                          *)
THEOREM HubHolds == Spec => []Coherent
<1>1. IndInv => Coherent
  BY DEF IndInv
<1>2. QED
  BY <1>1, Coherence, PTL

-----------------------------------------------------------------------------
(* Parties: the inductive invariant.                                       *)

(* A party with roles rs is led by o: a member, and the only owner.        *)
LedBy(o, rs) == o \in DOMAIN rs /\ \A u \in DOMAIN rs : rs[u] = "owner" <=> u = o

(* What the commit of a request's writes would leave of its party.         *)
MembersAfter(w) == (Members(w.party) \cup w.joins) \ w.gone
RolesAfter(w) == [u \in MembersAfter(w) |-> NewRole(w, u)]

(* A request adds its own user only, and hands a party on or removes a     *)
(* member of it, or neither; what it invites to or joins is there, or is   *)
(* its own new party.                                                      *)
Shaped(w) ==
  /\ w.joins \subseteq {w.user}
  /\ w.joins # {} => /\ w.gone = {} /\ w.roles = NoRoles /\ w.owner \in {None, w.user}
                     /\ w.owner # None \/ owner[w.party] # None
  /\ HandsOn(w) => w.gone = {}
  /\ w.invite # None => /\ w.row \in PartyInvite /\ w.row.party = w.party
                        /\ w.owner # None \/ owner[w.party] # None

(* A request that nothing has crossed would not remove the owner, creates  *)
(* a party that is not there yet, or would leave the one it hands on with  *)
(* one owner; and it puts its user in no second party.                     *)
Leads(w) ==
  /\ Leader(w) \notin w.gone
  /\ HandsOn(w) /\ w.joins # {} => owner[w.party] = None
  /\ HandsOn(w) /\ w.joins = {} /\ ~w.missing
       => /\ DOMAIN w.roles \subseteq Members(w.party) /\ Leader(w) \in Members(w.party)
          /\ \A u \in Members(w.party) : NewRole(w, u) = "owner" <=> u = Leader(w)
Sound(w) ==
  /\ Shaped(w)
  /\ w.party \notin w.crossed => Leads(w)
  /\ w.user \notin w.crossed /\ w.joins # {} => PartiesOf(w.user) \subseteq {w.party}

RequestsSound == \A r \in Requests : req[r] # None => Sound(req[r])
Unowned == \A p \in PartyIds : owner[p] = None => Members(p) = {}
InvitesNamed == \A i \in InviteIds : invites[i] # None => owner[invites[i].party] # None

PartiesInv == PartiesTypeOK /\ RequestsSound /\ InvitesNamed /\ Unowned /\ OwnerLeads /\ OneParty

-----------------------------------------------------------------------------
(* The first half of a request.                                            *)

(* Writes that are sound when they are prepared keep the invariant.        *)
LEMMA PreparedSound ==
  ASSUME PartiesInv, NEW w \in Writes, Sound(w), Prepare(w)
  PROVE  PartiesInv'
<1>1. PICK r \in Requests : /\ req[r] = None /\ req' = [req EXCEPT ![r] = w]
                            /\ UNCHANGED <<owner, roles, invites, torn>>
  BY DEF Prepare
<1>2. PartiesTypeOK'
  BY <1>1 DEF PartiesInv, PartiesTypeOK
<1>3. RequestsSound'
  <2> SUFFICES ASSUME NEW s \in Requests, req'[s] # None PROVE Sound(req[s])'
    BY DEF RequestsSound
  <2>1. Sound(req'[s])
    BY <1>1 DEF PartiesInv, RequestsSound, PartiesTypeOK
  <2>2. QED
    BY <1>1, <2>1 DEF Sound, Shaped, Leads, Leader, HandsOn, NewRole, Members, PartiesOf
<1>4. InvitesNamed' /\ Unowned' /\ OwnerLeads' /\ OneParty'
  BY <1>1 DEF PartiesInv, InvitesNamed, Unowned, OwnerLeads, OneParty, Members, PartiesOf
<1>5. QED
  BY <1>2, <1>3, <1>4 DEF PartiesInv

(* Writes that start from nothing.                                         *)
LEMMA NothingTyped ==
  ASSUME NEW kind \in {"create", "invite", "accept", "decline", "leave", "kick", "promote"},
         NEW u \in Users, NEW p \in PartyIds
  PROVE  Nothing(kind, u, p) \in Writes
<1>1. NoRoles \in [{} -> Roles]
  BY DEF NoRoles
<1>2. NoRoles \in UNION {[U -> Roles] : U \in SUBSET Users}
  BY <1>1
<1>3. QED
  BY <1>2 DEF Nothing, Writes

LEMMA CreateSound ==
  ASSUME PartiesInv, NEW u \in Users, CreateParty(u)
  PROVE  PartiesInv'
<1>1. PICK p \in PartyIds : InNoParty(u) /\ NewParty(p) /\ Prepare(Created(Nothing("create", u, p)))
  BY DEF CreateParty
<1> DEFINE w == Created(Nothing("create", u, p))
<1>2. w \in Writes
  <2>1. Nothing("create", u, p) \in Writes
    BY NothingTyped
  <2>2. QED
    BY <2>1 DEF Created, Writes, Nothing
<1>3. Sound(w)
  <2>1. /\ w.party = p /\ w.owner = u /\ w.joins = {u} /\ w.gone = {} /\ w.roles = NoRoles
        /\ w.user = u /\ w.invite = None /\ u # None
    BY PartiesAssumption DEF Created, Nothing
  <2>2. QED
    BY <1>1, <2>1 DEF Sound, Shaped, Leads, InNoParty, NewParty
<1>4. QED
  BY <1>1, <1>2, <1>3, PreparedSound

LEMMA InviteSound ==
  ASSUME PartiesInv, NEW u \in Users, NEW target \in Users, NEW i \in InviteIds, Invite(u, target, i)
  PROVE  PartiesInv'
<1>1. PICK p \in PartyIds :
        LET invited == [Nothing("invite", u, p) EXCEPT
                          !.invite = i,
                          !.row = [party |-> p, inviter |-> u, target |-> target, status |-> "pending"]]
        IN \/ InNoParty(u) /\ NewParty(p) /\ Prepare(Created(invited))
           \/ InParty(u, p) /\ IsOwner(p, u) /\ Prepare(invited)
  BY DEF Invite
<1> DEFINE row == [party |-> p, inviter |-> u, target |-> target, status |-> "pending"]
           invited == [Nothing("invite", u, p) EXCEPT !.invite = i, !.row = row]
<1>2. row \in PartyInvite /\ row.party = p
  BY DEF PartyInvite
<1> HIDE DEF row
<1>3. invited \in Writes /\ Created(invited) \in Writes
  <2>1. Nothing("invite", u, p) \in Writes
    BY NothingTyped
  <2>2. QED
    BY <1>2, <2>1 DEF Created, Writes, Nothing
<1>4. CASE InNoParty(u) /\ NewParty(p) /\ Prepare(Created(invited))
  <2> DEFINE w == Created(invited)
  <2>1. /\ w.party = p /\ w.owner = u /\ w.joins = {u} /\ w.gone = {} /\ w.roles = NoRoles
        /\ w.user = u /\ w.row = row /\ u # None
    BY PartiesAssumption DEF Created, Nothing
  <2>2. Sound(w)
    BY <1>2, <1>4, <2>1 DEF Sound, Shaped, Leads, InNoParty, NewParty
  <2>3. QED
    BY <1>3, <1>4, <2>2, PreparedSound
<1>5. CASE InParty(u, p) /\ IsOwner(p, u) /\ Prepare(invited)
  <2>1. /\ invited.party = p /\ invited.owner = None /\ invited.joins = {} /\ invited.gone = {}
        /\ invited.roles = NoRoles /\ invited.row = row
    BY DEF Nothing
  <2>2. owner[p] # None
    BY <1>5, PartiesAssumption DEF IsOwner
  <2>3. Sound(invited)
    BY <1>2, <2>1, <2>2 DEF Sound, Shaped, Leads, HandsOn
  <2>4. QED
    BY <1>3, <1>5, <2>3, PreparedSound
<1>6. QED
  BY <1>1, <1>4, <1>5 DEF row

(* An answer to an invite: what it writes besides the member it adds.      *)
LEMMA HandledFacts ==
  ASSUME PartiesInv, NEW i \in InviteIds, IsPending(i),
         NEW kind \in {"accept", "decline"}, NEW status \in {"accepted", "declined"},
         NEW w, w = Handled(kind, i, status)
  PROVE  /\ w \in Writes
         /\ w.user = invites[i].target /\ w.user \in Users /\ w.party = invites[i].party
         /\ w.party \in PartyIds /\ owner[w.party] # None
         /\ w.owner = None /\ w.joins = {} /\ w.gone = {} /\ w.roles = NoRoles
         /\ w.row \in PartyInvite /\ w.row.party = w.party
<1>1. invites[i] # None /\ invites[i] \in PartyInvite /\ owner[invites[i].party] # None
  BY DEF PartiesInv, PartiesTypeOK, IsPending, InvitesNamed
<1> DEFINE row == [invites[i] EXCEPT !.status = status]
<1>2. /\ row \in PartyInvite /\ row.party = invites[i].party
      /\ invites[i].target \in Users /\ invites[i].party \in PartyIds
  BY <1>1 DEF PartyInvite
<1>3. w = [Nothing(kind, invites[i].target, invites[i].party) EXCEPT !.invite = i, !.row = row]
  BY DEF Handled
<1> HIDE DEF row
<1>4. Nothing(kind, invites[i].target, invites[i].party) \in Writes
  BY <1>2, NothingTyped
<1>5. w \in Writes
  BY <1>2, <1>3, <1>4 DEF Writes
<1>6. QED
  BY <1>1, <1>2, <1>3, <1>5 DEF Nothing

LEMMA InviteAcceptSound ==
  ASSUME PartiesInv, NEW i \in InviteIds, InviteAccept(i)
  PROVE  PartiesInv'
<1> DEFINE u == invites[i].target
           p == invites[i].party
           joins == {u} \ Members(p)
           h == Handled("accept", i, "accepted")
           w == [h EXCEPT !.joins = joins]
<1>1. IsPending(i) /\ MayJoin(u, p) /\ Prepare(w)
  BY DEF InviteAccept
<1>2. /\ h \in Writes
      /\ h.user = u /\ u \in Users /\ h.party = p /\ p \in PartyIds /\ owner[p] # None
      /\ h.owner = None /\ h.gone = {} /\ h.roles = NoRoles
      /\ h.row \in PartyInvite /\ h.row.party = p
  BY <1>1, HandledFacts
<1> HIDE DEF h
<1>3. /\ w \in Writes
      /\ w.user = u /\ w.party = p /\ w.owner = None /\ w.joins = joins /\ w.gone = {} /\ w.roles = NoRoles
      /\ w.row \in PartyInvite /\ w.row.party = p
  BY <1>2 DEF Writes
<1> HIDE DEF w
<1>4. PartiesOf(u) \subseteq {p}
  BY <1>1 DEF MayJoin, InNoParty, InParty, Answered
<1>5. Sound(w)
  BY <1>2, <1>3, <1>4 DEF Sound, Shaped, Leads, HandsOn
<1>6. QED
  BY <1>1, <1>3, <1>5, PreparedSound

LEMMA InviteDeclineSound ==
  ASSUME PartiesInv, NEW i \in InviteIds, InviteDecline(i)
  PROVE  PartiesInv'
<1> DEFINE p == invites[i].party
           w == Handled("decline", i, "declined")
<1>1. IsPending(i) /\ Prepare(w)
  BY DEF InviteDecline
<1>2. /\ w \in Writes
      /\ w.party = p /\ p \in PartyIds /\ owner[p] # None
      /\ w.owner = None /\ w.joins = {} /\ w.gone = {} /\ w.roles = NoRoles
      /\ w.row \in PartyInvite /\ w.row.party = p
  BY <1>1, HandledFacts
<1> HIDE DEF w
<1>3. Sound(w)
  BY <1>2 DEF Sound, Shaped, Leads, HandsOn
<1>4. QED
  BY <1>1, <1>2, <1>3, PreparedSound

(* A new owner: the roles that differ are written, and the roles that then *)
(* stand are the ones assigned.                                            *)
LEMMA TransferSound ==
  ASSUME PartiesInv, NEW kind \in {"leave", "kick", "promote"}, NEW u \in Users, NEW p \in PartyIds,
         NEW new \in Members(p), Prepare(Transferred(Nothing(kind, u, p), p, new))
  PROVE  PartiesInv'
<1> DEFINE w == Transferred(Nothing(kind, u, p), p, new)
<1>1. new \in Users /\ Members(p) \subseteq Users /\ roles[p] \in [Members(p) -> Roles]
  BY DEF PartiesInv, PartiesTypeOK, PartyMember, Members
<1>2. Assigned(p, new) \in [Members(p) -> Roles]
  BY DEF Assigned, Roles
<1>3. Changed(p, Assigned(p, new)) \in UNION {[U -> Roles] : U \in SUBSET Users}
  <2> DEFINE changed == {v \in DOMAIN Assigned(p, new) : Assigned(p, new)[v] # roles[p][v]}
  <2>1. changed \in SUBSET Users /\ \A v \in changed : Assigned(p, new)[v] \in Roles
    BY <1>1, <1>2
  <2>2. Changed(p, Assigned(p, new)) \in [changed -> Roles]
    BY <2>1 DEF Changed
  <2>3. QED
    BY <2>1, <2>2
<1>4. w \in Writes
  <2>1. Nothing(kind, u, p) \in Writes
    BY NothingTyped
  <2>2. QED
    BY <1>1, <1>3, <2>1 DEF Transferred, Writes
<1>5. /\ w.party = p /\ w.owner = (IF new = owner[p] THEN None ELSE new) /\ w.joins = {} /\ w.gone = {}
      /\ w.roles = Changed(p, Assigned(p, new)) /\ w.invite = None
  BY DEF Transferred, Nothing
<1>6. Leads(w)
  <2>1. Leader(w) = new
    BY <1>1, <1>5, PartiesAssumption DEF Leader
  <2>2. DOMAIN w.roles \subseteq Members(p)
    BY <1>5 DEF Changed, Assigned
  <2>3. \A v \in Members(p) : NewRole(w, v) = Assigned(p, new)[v]
    BY <1>5 DEF NewRole, Changed, Assigned
  <2> HIDE DEF w
  <2>4. QED
    BY <1>5, <2>1, <2>2, <2>3 DEF Leads, Assigned
<1>7. Sound(w)
  BY <1>5, <1>6 DEF Sound, Shaped
<1>8. QED
  BY <1>4, <1>7, PreparedSound

(* A member who is not the owner is deleted, or the owner handed on.       *)
LEMMA RemoveSound ==
  ASSUME PartiesInv, NEW kind \in {"leave", "kick"}, NEW u \in Users, NEW p \in PartyIds,
         NEW gone \in Members(p), RemovePartyMember(Nothing(kind, u, p), p, gone)
  PROVE  PartiesInv'
<1>1. CASE IsOwner(p, gone)
  BY <1>1, TransferSound DEF RemovePartyMember
<1>2. CASE ~IsOwner(p, gone)
  <2> DEFINE w == [Nothing(kind, u, p) EXCEPT !.gone = {gone}]
  <2>1. Prepare(w)
    BY <1>2 DEF RemovePartyMember
  <2>2. gone \in Users
    BY DEF PartiesInv, PartiesTypeOK, PartyMember, Members
  <2>3. w \in Writes
    <3>1. Nothing(kind, u, p) \in Writes
      BY NothingTyped
    <3>2. QED
      BY <2>2, <3>1 DEF Writes
  <2>4. /\ w.party = p /\ w.owner = None /\ w.joins = {} /\ w.gone = {gone} /\ w.roles = NoRoles
        /\ w.invite = None
    BY DEF Nothing
  <2>5. ~HandsOn(w) /\ Leader(w) # gone
    BY <1>2, <2>4 DEF HandsOn, Leader, IsOwner
  <2>6. Sound(w)
    BY <2>4, <2>5 DEF Sound, Shaped, Leads
  <2>7. QED
    BY <2>1, <2>3, <2>6, PreparedSound
<1>3. QED
  BY <1>1, <1>2

LEMMA LeaveSound ==
  ASSUME PartiesInv, NEW u \in Users, LeaveParty(u)
  PROVE  PartiesInv'
BY RemoveSound DEF LeaveParty, InParty, PartiesOf

LEMMA KickSound ==
  ASSUME PartiesInv, NEW u \in Users, NEW target \in Users, KickMember(u, target)
  PROVE  PartiesInv'
BY RemoveSound DEF KickMember

LEMMA PromoteSound ==
  ASSUME PartiesInv, NEW u \in Users, NEW target \in Users, PromoteMember(u, target)
  PROVE  PartiesInv'
BY TransferSound DEF PromoteMember

-----------------------------------------------------------------------------
(* The second half.                                                        *)

(* What a commit leaves behind, party by party and request by request.     *)
LEMMA CommitFacts ==
  ASSUME PartiesInv, NEW r \in Requests, Commit(r)
  PROVE  /\ req[r] \in Writes /\ Sound(req[r])
         /\ owner' = [owner EXCEPT ![req[r].party] = Leader(req[r])]
         /\ roles' = [roles EXCEPT ![req[r].party] = RolesAfter(req[r])]
         /\ RolesAfter(req[r]) \in [MembersAfter(req[r]) -> Roles] /\ MembersAfter(req[r]) \subseteq Users
         /\ \A p \in PartyIds : owner[p] # None => owner'[p] # None
         /\ \A u \in Users \ req[r].joins : PartiesOf(u)' \subseteq PartiesOf(u)
<1> DEFINE w == req[r]
<1>1. /\ w \in Writes /\ Sound(w) /\ w.party \in PartyIds /\ w.owner \in Users \cup {None}
      /\ w.roles \in UNION {[U -> Roles] : U \in SUBSET Users} /\ w.joins \in SUBSET Users
  BY DEF PartiesInv, PartiesTypeOK, RequestsSound, Commit, Writes
<1>2. owner \in [PartyIds -> Users \cup {None}] /\ roles \in PartyMember
  BY DEF PartiesInv, PartiesTypeOK, Party
<1>3. owner' = [owner EXCEPT ![w.party] = Leader(w)]
  BY DEF Commit, Apply
<1>4. roles' = [roles EXCEPT ![w.party] = RolesAfter(w)]
  BY DEF Commit, Apply, RolesAfter, MembersAfter
<1>5. Members(w.party) \subseteq Users /\ roles[w.party] \in [Members(w.party) -> Roles]
  BY <1>1, <1>2 DEF PartyMember, Members
<1>6. \A u \in DOMAIN w.roles : w.roles[u] \in Roles
  BY <1>1
<1>7. \A u \in MembersAfter(w) : NewRole(w, u) \in Roles
  BY <1>5, <1>6 DEF MembersAfter, NewRole, Roles
<1>8. RolesAfter(w) \in [MembersAfter(w) -> Roles] /\ MembersAfter(w) \subseteq Users
  BY <1>1, <1>5, <1>7 DEF RolesAfter, MembersAfter
<1>9. \A p \in PartyIds : owner[p] # None => owner'[p] # None
  BY <1>1, <1>2, <1>3, PartiesAssumption DEF Leader
<1>10. ASSUME NEW u \in Users \ w.joins PROVE PartiesOf(u)' \subseteq PartiesOf(u)
  <2> SUFFICES ASSUME NEW p \in PartyIds, u \in DOMAIN roles'[p] PROVE u \in DOMAIN roles[p]
    BY DEF PartiesOf, Members
  <2>1. CASE p = w.party
    BY <1>2, <1>4, <1>8, <2>1 DEF PartyMember, MembersAfter, Members
  <2>2. CASE p # w.party
    BY <1>2, <1>4, <2>2 DEF PartyMember
  <2>3. QED
    BY <2>1, <2>2
<1>11. QED
  BY <1>1, <1>3, <1>4, <1>8, <1>9, <1>10

LEMMA CommitSound ==
  ASSUME PartiesInv, NEW r \in Requests, Commit(r)
  PROVE  PartiesInv'
<1> DEFINE w == req[r]
           p == w.party
<1>1. /\ w # None /\ w \in Writes /\ Sound(w)
      /\ owner' = [owner EXCEPT ![p] = Leader(w)]
      /\ roles' = [roles EXCEPT ![p] = RolesAfter(w)]
      /\ RolesAfter(w) \in [MembersAfter(w) -> Roles] /\ MembersAfter(w) \subseteq Users
      /\ \A q \in PartyIds : owner[q] # None => owner'[q] # None
      /\ \A u \in Users \ w.joins : PartiesOf(u)' \subseteq PartiesOf(u)
  BY CommitFacts DEF Commit
<1>2. /\ p \in PartyIds /\ w.user \in Users /\ w.owner \in Users \cup {None}
      /\ w.invite \in InviteIds \cup {None} /\ w.crossed \subseteq Users \cup PartyIds
      /\ w.joins \subseteq Users
  BY <1>1 DEF Writes
<1>3. /\ owner \in Party /\ roles \in PartyMember /\ req \in [Requests -> Writes \cup {None}]
      /\ invites \in [InviteIds -> PartyInvite \cup {None}] /\ torn \subseteq Users \cup PartyIds
  BY DEF PartiesInv, PartiesTypeOK
<1>4. /\ torn' = (torn \ {q \in {p} : HandsOn(w)}) \cup w.crossed
      /\ w.joins \cap Members(p) = {} /\ ~w.missing
      /\ req' = [Overlapped(w) EXCEPT ![r] = None]
      /\ invites' = IF w.invite = None THEN invites ELSE [invites EXCEPT ![w.invite] = w.row]
  BY DEF Commit, Apply, Fits
<1> HIDE DEF w
<1>5. PartiesTypeOK'
  <2>1. owner' \in Party
    BY <1>1, <1>2, <1>3 DEF Party, Leader
  <2>2. roles' \in PartyMember
    <3>1. RolesAfter(w) \in UNION {[U -> Roles] : U \in SUBSET Users}
      BY <1>1
    <3>2. QED
      BY <1>1, <1>2, <1>3, <3>1 DEF PartyMember
  <2>3. invites' \in [InviteIds -> PartyInvite \cup {None}]
    BY <1>1, <1>2, <1>3, <1>4 DEF Sound, Shaped
  <2>4. req' \in [Requests -> Writes \cup {None}]
    <3>1. ASSUME NEW v \in Writes PROVE Overtaken(v, w) \in Writes
      <4> DEFINE gone == IF v.party = p THEN v.gone \ w.gone ELSE v.gone
                 missing == v.missing \/ (v.party = p /\ DOMAIN v.roles \cap w.gone # {})
                 crossed == v.crossed \cup Contested(v, w)
      <4>1. gone \in SUBSET Users /\ missing \in BOOLEAN
        BY DEF Writes
      <4>2. crossed \in SUBSET (Users \cup PartyIds)
        BY <1>2 DEF Writes, Contested
      <4>3. Overtaken(v, w) = [v EXCEPT !.crossed = crossed, !.gone = gone, !.missing = missing]
        BY DEF Overtaken
      <4> HIDE DEF gone, missing, crossed
      <4>4. QED
        BY <4>1, <4>2, <4>3 DEF Writes
    <3>2. \A s \in Requests : Overlapped(w)[s] \in Writes \cup {None}
      BY <1>3, <3>1 DEF Overlapped
    <3>3. QED
      BY <1>4, <3>2 DEF Overlapped
  <2>5. torn' \subseteq Users \cup PartyIds
    BY <1>2, <1>3, <1>4
  <2>6. QED
    BY <2>1, <2>2, <2>3, <2>4, <2>5 DEF PartiesTypeOK
<1>6. InvitesNamed'
  <2> SUFFICES ASSUME NEW i \in InviteIds, invites'[i] # None PROVE owner'[invites'[i].party] # None
    BY DEF InvitesNamed
  <2>1. CASE w.invite = i
    <3>1. /\ w.invite # None /\ invites'[i] = w.row /\ w.row.party = p
          /\ w.owner # None \/ owner[p] # None
      BY <1>1, <1>2, <1>3, <1>4, <2>1, PartiesAssumption DEF Sound, Shaped
    <3>2. owner'[p] = Leader(w)
      BY <1>1, <1>2, <1>3 DEF Party
    <3>3. QED
      BY <1>2, <3>1, <3>2, PartiesAssumption DEF Leader
  <2>2. CASE w.invite # i
    <3>1. invites'[i] = invites[i] /\ invites[i].party \in PartyIds
      BY <1>3, <1>4, <2>2 DEF PartyInvite
    <3>2. QED
      BY <1>1, <3>1 DEF PartiesInv, InvitesNamed
  <2>3. QED
    BY <2>1, <2>2
<1>7. OwnerLeads' /\ Unowned'
  <2>0. owner'[p] = Leader(w) /\ roles'[p] = RolesAfter(w)
    BY <1>1, <1>2, <1>3 DEF Party, PartyMember
  <2>1. ASSUME NEW q \in PartyIds, q # p
        PROVE  owner'[q] = owner[q] /\ roles'[q] = roles[q] /\ (q \notin torn' => q \notin torn)
    BY <1>1, <1>3, <1>4, <2>1 DEF Party, PartyMember
  <2>2. Leader(w) = None => RolesAfter(w) = [u \in {} |-> "owner"]
    <3> SUFFICES ASSUME Leader(w) = None PROVE RolesAfter(w) = [u \in {} |-> "owner"]
      OBVIOUS
    <3>1. w.owner = None /\ owner[p] = None
      BY <1>2, PartiesAssumption DEF Leader
    <3>2. w.joins = {} /\ Members(p) = {}
      BY <1>1, <1>2, <3>1 DEF Sound, Shaped, PartiesInv, Unowned
    <3>3. QED
      BY <3>2 DEF RolesAfter, MembersAfter
  <2>3. ASSUME p \notin torn' PROVE Leader(w) = None \/ LedBy(Leader(w), RolesAfter(w))
    <3>1. p \notin w.crossed /\ (HandsOn(w) \/ p \notin torn) /\ Leads(w) /\ Shaped(w)
      BY <1>1, <1>4, <2>3 DEF Sound
    <3>2. CASE HandsOn(w) /\ w.joins = {}
      BY <1>4, <3>1, <3>2 DEF Leads, Shaped, LedBy, RolesAfter, MembersAfter
    <3>3. CASE HandsOn(w) /\ w.joins # {}
      <4>1. Members(p) = {} /\ w.gone = {} /\ w.roles = NoRoles
        BY <1>2, <3>1, <3>3 DEF Leads, Shaped, PartiesInv, Unowned
      <4>2. w.owner = w.user /\ w.joins = {w.user} /\ w.owner # None
        BY <3>1, <3>3, <4>1 DEF Shaped, HandsOn
      <4>3. MembersAfter(w) = {w.user} /\ NewRole(w, w.user) = "owner" /\ Leader(w) = w.user
        BY <4>1, <4>2 DEF MembersAfter, NewRole, Leader, NoRoles
      <4>4. QED
        BY <4>3 DEF LedBy, RolesAfter
    <3>4. CASE ~HandsOn(w) /\ owner[p] # None
      <4>1. w.owner = None /\ w.roles = NoRoles /\ Leader(w) = owner[p] /\ owner[p] \notin w.gone
        BY <3>1, <3>4 DEF HandsOn, Leader, Leads
      <4>2. LedBy(owner[p], roles[p])
        BY <1>2, <3>1, <3>4 DEF PartiesInv, OwnerLeads, LedBy, Members
      <4>3. \A u \in MembersAfter(w) : NewRole(w, u) = IF u \in w.joins THEN "member" ELSE roles[p][u]
        BY <1>2, <4>1, PartiesAssumption DEF MembersAfter, NewRole, NoRoles
      <4>4. owner[p] \in MembersAfter(w)
        BY <4>1, <4>2 DEF LedBy, MembersAfter, Members
      <4>5. \A u \in MembersAfter(w) : NewRole(w, u) = "owner" <=> u = owner[p]
        BY <1>4, <4>2, <4>3 DEF LedBy, MembersAfter, Members
      <4>6. QED
        BY <4>1, <4>4, <4>5 DEF LedBy, RolesAfter
    <3>5. CASE ~HandsOn(w) /\ owner[p] = None
      BY <3>5 DEF HandsOn, Leader
    <3>6. QED
      BY <3>2, <3>3, <3>4, <3>5
  <2>4. Unowned'
    BY <2>0, <2>1, <2>2 DEF PartiesInv, Unowned, Members
  <2>5. ASSUME NEW q \in PartyIds \ torn'
        PROVE  \/ owner'[q] = None /\ DOMAIN roles'[q] = {}
               \/ LedBy(owner'[q], roles'[q])
    <3>1. CASE q = p
      BY <2>0, <2>2, <2>3, <3>1
    <3>2. CASE q # p
      BY <2>1, <3>2 DEF PartiesInv, OwnerLeads, LedBy, Members
    <3>3. QED
      BY <3>1, <3>2
  <2>6. QED
    BY <2>4, <2>5 DEF OwnerLeads, LedBy, Members
<1>8. OneParty'
  <2> SUFFICES ASSUME NEW u \in Users \ torn', NEW q1 \in PartiesOf(u)', NEW q2 \in PartiesOf(u)'
               PROVE  q1 = q2
    BY DEF OneParty
  <2>1. u \in Users \ torn /\ u \notin w.crossed
    BY <1>2, <1>4, PartiesAssumption
  <2>2. CASE u \in w.joins
    <3>1. u = w.user /\ PartiesOf(u) \subseteq {p}
      BY <1>1, <1>2, <2>1, <2>2 DEF Sound, Shaped
    <3>2. ASSUME NEW q \in PartiesOf(u)' PROVE q = p
      BY <1>1, <1>3, <3>1 DEF PartiesOf, Members, PartyMember
    <3>3. QED
      BY <3>2
  <2>3. CASE u \notin w.joins
    BY <1>1, <2>1, <2>3 DEF PartiesInv, OneParty
  <2>4. QED
    BY <2>2, <2>3
<1>9. RequestsSound'
  <2> SUFFICES ASSUME NEW s \in Requests, req'[s] # None PROVE Sound(req[s])'
    BY DEF RequestsSound
  <2>0. PICK v : v = req[s]
    OBVIOUS
  <2>1. s # r /\ v # None /\ v \in Writes /\ Sound(v) /\ Shaped(v)
    BY <1>3, <1>4, <2>0 DEF PartiesInv, RequestsSound, Overlapped, Sound
  <2>2. PICK x : x = Overtaken(v, w)
    OBVIOUS
  <2>3. req'[s] = x
    BY <1>3, <1>4, <2>0, <2>1, <2>2 DEF Overlapped
  <2>4. /\ x.user = v.user /\ x.party = v.party /\ x.owner = v.owner /\ x.roles = v.roles
        /\ x.joins = v.joins /\ x.invite = v.invite /\ x.row = v.row
        /\ x.crossed = v.crossed \cup Contested(v, w) /\ x.gone \subseteq v.gone
        /\ x.missing = (v.missing \/ (v.party = p /\ DOMAIN v.roles \cap w.gone # {}))
    BY <2>1, <2>2 DEF Overtaken, Writes
  <2>5. v.party \in PartyIds /\ v.user \in Users /\ v.owner \in Users \cup {None}
    BY <2>1 DEF Writes
  <2>6. Shaped(x)'
    BY <1>1, <2>1, <2>4, <2>5 DEF Shaped, HandsOn
  <2>7. ASSUME x.party \notin x.crossed PROVE Leads(x)'
    <3>0. Leads(v) /\ v.party \notin Contested(v, w)
      BY <2>1, <2>4, <2>7 DEF Sound
    <3>1. CASE v.party # p
      <4>1. owner'[v.party] = owner[v.party] /\ roles'[v.party] = roles[v.party]
        BY <1>1, <1>3, <2>5, <3>1 DEF Party, PartyMember
      <4>2. QED
        BY <2>4, <3>0, <3>1, <4>1 DEF Leads, Leader, HandsOn, NewRole, Members
    <3>2. CASE v.party = p
      <4>1. ~(HandsOn(v) /\ HandsOn(w)) /\ Leader(v) \notin w.gone /\ Leader(w) \notin v.gone
        BY <3>0, <3>2 DEF Contested
      <4>2. owner'[p] = Leader(w) /\ roles'[p] = RolesAfter(w)
        BY <1>1, <1>2, <1>3 DEF Party, PartyMember
      <4>3. Leader(x)' \notin x.gone
        BY <2>1, <2>4, <3>2, <4>1, <4>2 DEF Leader, Shaped, HandsOn
      <4>4. ASSUME HandsOn(v)
            PROVE  w.owner = None /\ w.roles = NoRoles /\ owner'[p] = owner[p] /\ Leader(x)' = Leader(v)
        BY <2>4, <3>2, <4>1, <4>2, <4>4 DEF Leader, HandsOn
      <4>5. ASSUME HandsOn(v), v.joins = {}, ~x.missing
            PROVE  /\ DOMAIN v.roles \subseteq DOMAIN roles'[p] /\ Leader(v) \in DOMAIN roles'[p]
                   /\ \A u \in DOMAIN roles'[p] : NewRole(x, u)' = "owner" <=> u = Leader(v)
        <5>1. /\ DOMAIN v.roles \subseteq Members(p) /\ DOMAIN v.roles \cap w.gone = {}
              /\ Leader(v) \in Members(p)
              /\ \A u \in Members(p) : NewRole(v, u) = "owner" <=> u = Leader(v)
          BY <2>4, <3>0, <3>2, <4>5 DEF Leads
        <5>2. DOMAIN roles'[p] = (Members(p) \cup w.joins) \ w.gone
          BY <4>2 DEF RolesAfter, MembersAfter
        <5>3. ASSUME NEW u \in DOMAIN roles'[p]
              PROVE  NewRole(x, u)' = IF u \in Members(p) THEN NewRole(v, u) ELSE "member"
          <6>1. roles'[p][u] = IF u \in w.joins THEN "member" ELSE roles[p][u]
            BY <1>2, <4>2, <4>4, <4>5, <5>2, PartiesAssumption DEF RolesAfter, NewRole, NoRoles
          <6>2. NewRole(x, u)' = IF u \in DOMAIN v.roles THEN v.roles[u] ELSE roles'[p][u]
            BY <2>4, <3>2, <4>5 DEF NewRole
          <6>3. NewRole(v, u) = IF u \in DOMAIN v.roles THEN v.roles[u] ELSE roles[p][u]
            BY <3>2, <4>5 DEF NewRole
          <6>4. u \in Members(p) <=> u \notin w.joins
            BY <1>4, <5>2
          <6>5. QED
            BY <5>1, <6>1, <6>2, <6>3, <6>4
        <5>4. QED
          BY <4>1, <5>1, <5>2, <5>3
      <4>6. HandsOn(x)' <=> HandsOn(v)
        BY <2>4 DEF HandsOn
      <4>7. HandsOn(v) /\ v.joins # {} => owner'[p] = None
        BY <3>0, <3>2, <4>4 DEF Leads
      <4>8. QED
        BY <2>4, <3>2, <4>3, <4>4, <4>5, <4>6, <4>7 DEF Leads, Members
    <3>3. QED
      BY <3>1, <3>2
  <2>8. ASSUME x.user \notin x.crossed, x.joins # {} PROVE PartiesOf(x.user)' \subseteq {x.party}
    <3>1. v.joins = {v.user} /\ v.user \notin w.joins /\ v.user \notin v.crossed
      BY <2>1, <2>4, <2>8 DEF Contested, Shaped
    <3>2. PartiesOf(v.user) \subseteq {v.party}
      BY <2>1, <3>1 DEF Sound
    <3>3. PartiesOf(v.user)' \subseteq PartiesOf(v.user)
      BY <1>1, <2>5, <3>1
    <3>4. PartiesOf(x.user)' = PartiesOf(v.user)'
      BY <2>4 DEF PartiesOf
    <3>5. QED
      BY <2>4, <3>2, <3>3, <3>4
  <2>9. Sound(x)'
    BY <2>6, <2>7, <2>8 DEF Sound
  <2>10. QED
    BY <2>3, <2>9 DEF Sound, Shaped, Leads, Leader, HandsOn, NewRole, Members, PartiesOf
<1>10. QED
  BY <1>5, <1>6, <1>7, <1>8, <1>9 DEF PartiesInv

LEMMA RollbackSound ==
  ASSUME PartiesInv, NEW r \in Requests, Rollback(r)
  PROVE  PartiesInv'
<1>1. req' = [req EXCEPT ![r] = None] /\ UNCHANGED <<owner, roles, invites, torn>>
  BY DEF Rollback
<1>2. PartiesTypeOK'
  BY <1>1 DEF PartiesInv, PartiesTypeOK
<1>3. RequestsSound'
  <2> SUFFICES ASSUME NEW s \in Requests, req'[s] # None PROVE Sound(req[s])'
    BY DEF RequestsSound
  <2>1. Sound(req'[s])
    BY <1>1 DEF PartiesInv, RequestsSound, PartiesTypeOK
  <2>2. QED
    BY <1>1, <2>1 DEF Sound, Shaped, Leads, Leader, HandsOn, NewRole, Members, PartiesOf
<1>4. InvitesNamed' /\ Unowned' /\ OwnerLeads' /\ OneParty'
  BY <1>1 DEF PartiesInv, InvitesNamed, Unowned, OwnerLeads, OneParty, Members, PartiesOf
<1>5. QED
  BY <1>2, <1>3, <1>4 DEF PartiesInv

-----------------------------------------------------------------------------
(* The invariant holds in every reachable state, for any users, parties,   *)
(* invites and requests at the same time.                                  *)
THEOREM PartiesCoherent == PartiesSpec => []PartiesInv
<1>1. PartiesInit => PartiesInv
  <2> SUFFICES ASSUME PartiesInit PROVE PartiesInv
    OBVIOUS
  <2>1. NoRoles \in UNION {[U -> Roles] : U \in SUBSET Users}
    <3>1. NoRoles \in [{} -> Roles]
      BY DEF NoRoles
    <3>2. QED
      BY <3>1
  <2>2. \A p \in PartyIds : Members(p) = {}
    BY DEF PartiesInit, Members, NoRoles
  <2>3. PartiesTypeOK
    BY <2>1 DEF PartiesInit, PartiesTypeOK, Party, PartyMember
  <2>4. RequestsSound /\ InvitesNamed /\ Unowned /\ OwnerLeads /\ OneParty
    BY <2>2 DEF PartiesInit, RequestsSound, InvitesNamed, Unowned, OwnerLeads, OneParty, PartiesOf
  <2>5. QED
    BY <2>3, <2>4 DEF PartiesInv
<1>2. PartiesInv /\ [PartiesNext]_partyVars => PartiesInv'
  <2> SUFFICES ASSUME PartiesInv, [PartiesNext]_partyVars PROVE PartiesInv'
    OBVIOUS
  <2>1. ASSUME NEW u \in Users, CreateParty(u) PROVE PartiesInv'
    BY <2>1, CreateSound
  <2>2. ASSUME NEW u \in Users, NEW target \in Users, NEW i \in InviteIds, Invite(u, target, i)
        PROVE  PartiesInv'
    BY <2>2, InviteSound
  <2>3. ASSUME NEW i \in InviteIds, InviteAccept(i) PROVE PartiesInv'
    BY <2>3, InviteAcceptSound
  <2>4. ASSUME NEW i \in InviteIds, InviteDecline(i) PROVE PartiesInv'
    BY <2>4, InviteDeclineSound
  <2>5. ASSUME NEW u \in Users, LeaveParty(u) PROVE PartiesInv'
    BY <2>5, LeaveSound
  <2>6. ASSUME NEW u \in Users, NEW target \in Users, KickMember(u, target) PROVE PartiesInv'
    BY <2>6, KickSound
  <2>7. ASSUME NEW u \in Users, NEW target \in Users, PromoteMember(u, target) PROVE PartiesInv'
    BY <2>7, PromoteSound
  <2>8. ASSUME NEW r \in Requests, Commit(r) PROVE PartiesInv'
    BY <2>8, CommitSound
  <2>9. ASSUME NEW r \in Requests, Rollback(r) PROVE PartiesInv'
    BY <2>9, RollbackSound
  <2>10. CASE UNCHANGED partyVars
    BY <2>10 DEF partyVars, PartiesInv, PartiesTypeOK, RequestsSound, Sound, Shaped, Leads, Leader, HandsOn, InvitesNamed,
                 Unowned, OwnerLeads, OneParty, NewRole, Members, PartiesOf
  <2>11. QED
    BY <2>1, <2>2, <2>3, <2>4, <2>5, <2>6, <2>7, <2>8, <2>9, <2>10 DEF PartiesNext
<1>3. QED
  BY <1>1, <1>2, PTL DEF PartiesSpec

(* A party keeps an owner who is a member, and only one.                   *)
THEOREM OwnersLead == PartiesSpec => []OwnerLeads
<1>1. PartiesInv => OwnerLeads
  BY DEF PartiesInv
<1>2. QED
  BY <1>1, PartiesCoherent, PTL

(* No user comes to be in two parties.                                     *)
THEOREM OnePartyEach == PartiesSpec => []OneParty
<1>1. PartiesInv => OneParty
  BY DEF PartiesInv
<1>2. QED
  BY <1>1, PartiesCoherent, PTL
===============================================================================
