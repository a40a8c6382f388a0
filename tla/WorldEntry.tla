---------------------------- MODULE WorldEntry ----------------------------
(* Characters, their entry into a world instance, and their actions there. *)
(*                                                                         *)
(* A user creates, selects, places and deletes characters.  Entering the   *)
(* world selects the character in a first commit, then looks the user's    *)
(* party up and assigns the session to an instance in a second one: the    *)
(* hub of the level, the party's instance or the character's own.  An      *)
(* action is rewarded at most once for each nonce of a session.            *)
(*                                                                         *)
(* As in Parties, a request prepares its writes from what it reads and     *)
(* commits them later; only the columns it changed are written.  A request *)
(* is crossed when what it decided on was decided anew by one of its kind  *)
(* that committed first: the selection of its user, the status of an       *)
(* instance, the experience of a character.  The ghost torn names the      *)
(* users, instances and characters that a crossed request has written.     *)
(*                                                                         *)
(* A character is known by its name, which is unique, and a deleted name   *)
(* is not taken again.  Locations, loot and audit rows that are not        *)
(* rewarded are left out; the movement check and the rate limit, which     *)
(* only refuse an action, are a choice.                                    *)
EXTENDS Backend, Naturals, FiniteSets

CONSTANTS
  Names,        \* names of characters
  Levels, Hubs, \* levels, and the ones that are town hubs
  First,        \* the first level in the order of the levels
  PartyIds,
  Sessions,
  UserOf,       \* user of each session
  Admins,       \* users that may enter a level of their choice
  Nonces,       \* action nonces clients send
  Grants,       \* xp an action may be granted, 0 for one refused
  XpToLevelup,  \* _xp_to_levelup
  MaxChanges,   \* bound: instances that outlive their time, changes of party
  MaxRequests,  \* bound: requests
  Deleted       \* the row of a character that was there

ASSUME WorldEntryAssumption ==
  /\ Hubs \subseteq Levels /\ First \in Levels
  /\ UserOf \in [Sessions -> Users] /\ Admins \subseteq Users
  /\ Grants \subseteq Nat /\ XpToLevelup \in Nat \ {0}
  /\ MaxChanges \in Nat /\ MaxRequests \in Nat

VARIABLES
  chars,      \* rows of characters: None, Deleted or the row
  sessions,   \* current_* columns of each session
  instances,  \* rows of world_instances, by id
  members,    \* users with a row of world_instance_members, by instance
  actions,    \* rows of gameplay_action_audit that were rewarded
  party,      \* what get_active_party_for_user answers: external
  req,        \* requests under way
  rewards,    \* ghost: how often each action was rewarded
  earned,     \* ghost: the xp each character was granted
  torn,       \* ghost: users, instances and characters written by a crossed request
  elapsed,    \* expiries and party changes so far
  begun       \* requests so far

entryVars == <<chars, sessions, instances, members, actions, party, req, rewards, earned, torn, elapsed, begun>>

Character == [user : Users, level_id : Levels \cup {None}, selected : BOOLEAN,
              level : Nat, experience : Nat]
NewCharacter(u) == [user |-> u, level_id |-> First, selected |-> FALSE, level |-> 1, experience |-> 0]

Hub(l) == [kind |-> "hub", level |-> l, of |-> None]
Instances == {Hub(l) : l \in Hubs}
             \cup [kind : {"party"}, level : Levels \ Hubs, of : PartyIds]
             \cup [kind : {"solo"}, level : Levels \ Hubs, of : Names]
(* due: expires_at has passed.                                             *)
WorldInstance == [status : {"none", "active", "expired"}, due : BOOLEAN]

(* A row is told from the absence of one. *)
ASSUME RowOrNone == None # Deleted /\ {None, Deleted} \cap Character = {}
(* Users, instances and characters are told apart in torn. *)
ASSUME TornApart == Users \cap Instances = {} /\ Names \cap (Users \cup Instances) = {}

Exists(c) == chars[c] # None /\ chars[c] # Deleted
Owned(u) == {c \in Names : Exists(c) /\ chars[c].user = u}
SelectedOf(u) == {c \in Owned(u) : chars[c].selected}

-----------------------------------------------------------------------------
(* What a request will commit: the columns it changes of its character,    *)
(* the characters it deselects, the columns of its session, instances,     *)
(* the member row it adds and the nonce it uses.                           *)

Same == [x \in {} |-> x]
Nothing(step, s, c) ==
  [step |-> step, session |-> s, char |-> c, level |-> None, columns |-> Same, deselect |-> {}, current |-> Same,
   insert |-> None, inst |-> Same, join |-> None, nonce |-> None, xp |-> 0,
   missing |-> FALSE, crossed |-> FALSE]
(* The fields of a record that differ from those of the row read.          *)
Diff(row, new) == [f \in {g \in DOMAIN new : new[g] # row[g]} |-> new[f]]
Over(row, new) == [f \in DOMAIN row |-> IF f \in DOMAIN new THEN new[f] ELSE row[f]]

Prepare(w) == \E r \in Requests : /\ begun < MaxRequests /\ begun' = begun + 1
                                  /\ req[r] = None
                                  /\ req' = [req EXCEPT ![r] = w]
                                  /\ UNCHANGED <<chars, sessions, instances, members, actions, party,
                                                 rewards, earned, torn, elapsed>>

Mine(s, c) == c \in Owned(UserOf[s])

-----------------------------------------------------------------------------
(* Characters. *)

CreateCharacter(s, c) ==
  /\ chars[c] = None
  /\ Prepare([Nothing("create", s, c) EXCEPT !.insert = c])

(* Mutant: the other characters stay selected. *)
ApplySelected_Adds(w, c, new) == [w EXCEPT !.columns = Diff(chars[c], new)]
ApplySelected(w, c, new) ==
  [w EXCEPT !.columns = Diff(chars[c], new),
            !.deselect = SelectedOf(chars[c].user) \ {c}]

SelectCharacter(s, c) ==
  Mine(s, c) /\ Prepare(ApplySelected(Nothing("select", s, c), c, [selected |-> TRUE]))

DeleteCharacter(s, c) == Mine(s, c) /\ Prepare(Nothing("delete", s, c))

(* An admin assigns a level; the client reports one with a location, and   *)
(* its session follows.                                                    *)
AssignLevel(s, c, l) ==
  /\ Mine(s, c)
  /\ Prepare([Nothing("level", s, c) EXCEPT !.columns = Diff(chars[c], [level_id |-> l])])
UpdateLocation(s, c, l) ==
  /\ Mine(s, c)
  /\ Prepare([Nothing("location", s, c) EXCEPT
                !.columns = Diff(chars[c], [level_id |-> l]),
                !.current = Diff(sessions[s], [level |-> l, char |-> c])])

-----------------------------------------------------------------------------
(* Entering the world. *)

TargetLevel(c) == IF chars[c].level_id = None THEN First ELSE chars[c].level_id

Bootstrap(s, c) ==
  /\ Mine(s, c)
  /\ Prepare(ApplySelected([Nothing("bootstrap", s, c) EXCEPT !.level = TargetLevel(c)], c,
                           [selected |-> TRUE, level_id |-> TargetLevel(c)]))

(* An admin enters a level of their choice, the first one if there is no   *)
(* such level: the level of the character stays what it was.               *)
BootstrapOver(s, c, l) ==
  /\ Mine(s, c) /\ UserOf[s] \in Admins
  /\ Prepare(ApplySelected([Nothing("bootstrap", s, c) EXCEPT !.level = l], c, [selected |-> TRUE]))

(* The second half, after the commit.  The row of the character is read    *)
(* again and fails the request if it is gone, as do two member rows.       *)
InstanceDescriptor(l, c, p) ==
  IF l \in Hubs THEN Hub(l)
  ELSE IF p # None THEN [kind |-> "party", level |-> l, of |-> p]
  ELSE [kind |-> "solo", level |-> l, of |-> c]

Stale == {i \in Instances : instances[i].status = "active" /\ instances[i].due}

(* The instances expired on the way, and the one assigned: its status is   *)
(* written when it was not active before or has just been expired.         *)
(* Mutant: an instance that had expired is not made active again. *)
Assigned_Expired(i) ==
  [j \in Stale \cup {i} |-> IF j # i THEN [status |-> "expired"]
                           ELSE IF instances[i].status # "none" THEN [due |-> FALSE]
                           ELSE [status |-> "active", due |-> FALSE]]
Assigned(i) ==
  [j \in Stale \cup {i} |->
     IF j # i THEN [status |-> "expired"]
     ELSE IF instances[i].status = "active" /\ i \notin Stale THEN [due |-> FALSE]
     ELSE [status |-> "active", due |-> FALSE]]

AssignInstance(s, c, l) ==
  LET p == party[UserOf[s]]
      i == InstanceDescriptor(l, c, p)
  IN [Nothing("enter", s, c) EXCEPT
        !.inst = Assigned(i),
        !.insert = IF instances[i].status = "none" THEN i ELSE None,
        !.join = IF UserOf[s] \in members[i] THEN None ELSE i,
        !.current = Diff(sessions[s], [party |-> p, instance |-> i, char |-> c, level |-> l])]

Enter(r) ==
  /\ req[r] # None /\ req[r].step = "selected"
  /\ LET s == req[r].session
         c == req[r].char
     IN IF Exists(c) /\ party[UserOf[s]] # "two"
        THEN req' = [req EXCEPT ![r] = AssignInstance(s, c, req[r].level)]
        ELSE req' = [req EXCEPT ![r] = None]
  /\ UNCHANGED <<chars, sessions, instances, members, actions, party, rewards, earned, torn, elapsed, begun>>

-----------------------------------------------------------------------------
(* Actions. *)

(* Mutant: experience starts again at every level gained. *)
Progression_Reset(c, xp) ==
  LET total == chars[c].experience + xp
  IN [level |-> chars[c].level + (total \div XpToLevelup),
      experience |-> IF total < XpToLevelup THEN total ELSE 0]
Progression(c, xp) ==
  LET total == chars[c].experience + xp
  IN [level |-> chars[c].level + (total \div XpToLevelup), experience |-> total % XpToLevelup]

ResolveAction(s, c, n, xp) ==
  /\ Mine(s, c)
  /\ Prepare([Nothing("action", s, c) EXCEPT
                !.columns = Diff(chars[c], Progression(c, xp)),
                !.current = Diff(sessions[s], [char |-> c]),
                !.nonce = n, !.xp = xp])

-----------------------------------------------------------------------------
(* Commits. *)

Audit(w) == [session |-> w.session, nonce |-> w.nonce, char |-> w.char]

(* Mutant: the audit rows have no unique nonce. *)
Fresh_Any(w) == TRUE
Fresh(w) == \A a \in actions : a.session # w.session \/ a.nonce # w.nonce

(* A commit breaks a unique key or updates a row that is gone: it rolls    *)
(* back.                                                                   *)
Fits(w) ==
  /\ ~w.missing
  /\ w.step = "create" => chars[w.char] = None
  /\ "char" \in DOMAIN w.current \/ w.join # None => Exists(w.char)
  /\ w.step = "enter" => /\ w.insert # None => instances[w.insert].status = "none"
                         /\ w.join # None => UserOf[w.session] \notin members[w.join]
  /\ w.step = "action" => Exists(w.char) /\ Fresh(w)

(* What a request reads and then writes as it found it or changed. *)
Contested(w) ==
  CASE w.step \in {"select", "bootstrap"} -> {UserOf[w.session]}
    [] w.step = "enter" -> DOMAIN w.inst
    [] w.step = "action" -> {w.char}
    [] OTHER -> {}
Overtaken(v, w) ==
  [v EXCEPT !.crossed = @ \/ Contested(v) \cap Contested(w) # {},
            !.missing = @ \/ (w.step = "delete" /\
                              (w.char \in v.deselect \/ (w.char = v.char /\ v.columns # Same)))]
Overlapped(w) == [r \in Requests |-> IF req[r] = None THEN None ELSE Overtaken(req[r], w)]

Written(w) ==
  [c \in Names |->
     IF w.step = "delete" /\ c = w.char THEN Deleted
     ELSE IF w.step = "create" /\ c = w.char THEN NewCharacter(UserOf[w.session])
     ELSE IF ~Exists(c) THEN chars[c]
     ELSE IF c = w.char THEN Over(chars[c], w.columns)
     ELSE IF c \in w.deselect THEN [chars[c] EXCEPT !.selected = FALSE]
     ELSE chars[c]]

(* A deleted character is set to null in the sessions, its audit rows go.  *)
Sessions2(w) ==
  [s \in Sessions |->
     IF w.step = "delete" /\ sessions[s].char = w.char THEN [sessions[s] EXCEPT !.char = None]
     ELSE IF s = w.session THEN Over(sessions[s], w.current)
     ELSE sessions[s]]
Actions2(w) ==
  IF w.step = "delete" THEN {a \in actions : a.char # w.char}
  ELSE IF w.step = "action" THEN actions \cup {Audit(w)}
  ELSE actions

Commit(r) ==
  LET w == req[r]
  IN /\ w # None /\ w.step # "selected" /\ Fits(w)
     /\ chars' = Written(w)
     /\ sessions' = Sessions2(w)
     /\ instances' = [i \in Instances |-> IF i \in DOMAIN w.inst THEN Over(instances[i], w.inst[i])
                                          ELSE instances[i]]
     /\ members' = IF w.step = "enter" /\ w.join # None
                   THEN [members EXCEPT ![w.join] = @ \cup {UserOf[w.session]}] ELSE members
     /\ actions' = Actions2(w)
     /\ rewards' = IF w.step = "action" THEN [rewards EXCEPT ![Audit(w)] = @ + 1] ELSE rewards
     /\ earned' = [earned EXCEPT ![w.char] = @ + w.xp]
     /\ torn' = IF w.crossed THEN torn \cup Contested(w) ELSE torn \ (Contested(w) \ Names)
     /\ req' = [Overlapped(w) EXCEPT
                  ![r] = IF w.step = "bootstrap" THEN [w EXCEPT !.step = "selected"] ELSE None]
     /\ UNCHANGED <<party, elapsed, begun>>

Rollback(r) ==
  /\ req[r] # None /\ req[r].step # "selected" /\ ~Fits(req[r])
  /\ req' = [req EXCEPT ![r] = None]
  /\ UNCHANGED <<chars, sessions, instances, members, actions, party, rewards, earned, torn, elapsed, begun>>

-----------------------------------------------------------------------------
(* Time and the parties. *)

Expires(i) ==
  /\ elapsed < MaxChanges /\ elapsed' = elapsed + 1
  /\ instances[i].status = "active" /\ ~instances[i].due
  /\ instances' = [instances EXCEPT ![i].due = TRUE]
  /\ UNCHANGED <<chars, sessions, members, actions, party, req, rewards, earned, torn, begun>>

PartyChanges(u) ==
  /\ elapsed < MaxChanges /\ elapsed' = elapsed + 1
  /\ \E p \in PartyIds \cup {None, "two"} : party[u] # p /\ party' = [party EXCEPT ![u] = p]
  /\ UNCHANGED <<chars, sessions, instances, members, actions, req, rewards, earned, torn, begun>>

-----------------------------------------------------------------------------
EntryInit ==
  /\ chars = [c \in Names |-> None]
  /\ sessions = [s \in Sessions |-> [char |-> None, level |-> None, instance |-> None, party |-> None]]
  /\ instances = [i \in Instances |-> [status |-> "none", due |-> FALSE]]
  /\ members = [i \in Instances |-> {}]
  /\ actions = {}
  /\ party = [u \in Users |-> None]
  /\ req = [r \in Requests |-> None]
  /\ rewards = [a \in [session : Sessions, nonce : Nonces, char : Names] |-> 0]
  /\ earned = [c \in Names |-> 0]
  /\ torn = {}
  /\ elapsed = 0
  /\ begun = 0

EntryNext ==
  \/ \E s \in Sessions, c \in Names :
       \/ CreateCharacter(s, c)
       \/ SelectCharacter(s, c)
       \/ DeleteCharacter(s, c)
       \/ Bootstrap(s, c)
       \/ \E l \in Levels : BootstrapOver(s, c, l)
       \/ \E l \in Levels \cup {None} : AssignLevel(s, c, l) \/ UpdateLocation(s, c, l)
       \/ \E n \in Nonces, xp \in Grants : ResolveAction(s, c, n, xp)
  \/ \E r \in Requests : Enter(r) \/ Commit(r) \/ Rollback(r)
  \/ \E i \in Instances : Expires(i)
  \/ \E u \in Users : PartyChanges(u)

EntrySpec == EntryInit /\ [][EntryNext]_entryVars

-----------------------------------------------------------------------------
(* Properties. *)

(* The columns of a character, a session and an instance that a request    *)
(* changes.                                                                *)
CharacterColumns(x) ==
  /\ DOMAIN x \subseteq {"level_id", "selected", "level", "experience"}
  /\ "level_id" \in DOMAIN x => x["level_id"] \in Levels \cup {None}
  /\ "selected" \in DOMAIN x => x["selected"] \in BOOLEAN
  /\ "level" \in DOMAIN x => x["level"] \in Nat
  /\ "experience" \in DOMAIN x => x["experience"] \in Nat
SessionColumns(x) ==
  /\ DOMAIN x \subseteq {"char", "level", "instance", "party"}
  /\ "char" \in DOMAIN x => x["char"] \in Names
  /\ "level" \in DOMAIN x => x["level"] \in Levels \cup {None}
  /\ "instance" \in DOMAIN x => x["instance"] \in Instances
  /\ "party" \in DOMAIN x => x["party"] \in PartyIds \cup {None}
InstanceColumns(x) ==
  /\ DOMAIN x \subseteq {"status", "due"}
  /\ "status" \in DOMAIN x => x["status"] \in {"active", "expired"}
  /\ "due" \in DOMAIN x => x["due"] = FALSE

EntryRequest(w) ==
  /\ w \in [step : {"create", "select", "delete", "level", "location", "bootstrap", "selected", "enter",
                     "action"},
             session : Sessions, char : Names, level : Levels \cup {None}, columns : {w.columns},
             deselect : SUBSET Names, current : {w.current}, insert : Names \cup Instances \cup {None},
             inst : {w.inst}, join : Instances \cup {None}, nonce : Nonces \cup {None}, xp : Nat,
             missing : BOOLEAN, crossed : BOOLEAN]
  /\ CharacterColumns(w.columns) /\ SessionColumns(w.current)
  /\ DOMAIN w.inst \subseteq Instances /\ \A i \in DOMAIN w.inst : InstanceColumns(w.inst[i])

EntryTypeOK ==
  /\ chars \in [Names -> Character \cup {None, Deleted}]
  /\ sessions \in [Sessions -> [char : Names \cup {None}, level : Levels \cup {None},
                                instance : Instances \cup {None}, party : PartyIds \cup {None}]]
  /\ instances \in [Instances -> WorldInstance]
  /\ members \in [Instances -> SUBSET Users]
  /\ actions \subseteq [session : Sessions, nonce : Nonces, char : Names]
  /\ party \in [Users -> PartyIds \cup {None, "two"}]
  /\ req = [r \in Requests |-> req[r]] /\ \A r \in Requests : req[r] # None => EntryRequest(req[r])
  /\ rewards \in [[session : Sessions, nonce : Nonces, char : Names] -> Nat]
  /\ earned \in [Names -> Nat]
  /\ torn \subseteq Users \cup Instances \cup Names
  /\ elapsed \in 0..MaxChanges /\ begun \in 0..MaxRequests

(* A user has one selected character at most, whatever else overlaps,      *)
(* unless two selections of theirs crossed; and one again as soon as       *)
(* another selection has gone through by itself.                           *)
OneSelected == \A u \in Users \ torn : \A c, d \in SelectedOf(u) : c = d

(* An instance is expired only when its time has passed, unless two        *)
(* entries that wrote it crossed: one that expires it late would take it   *)
(* from a session that has just been assigned to it.  The next entry that  *)
(* writes it by itself makes it good.                                      *)
ExpiredIsDue == \A i \in Instances \ torn : instances[i].status = "expired" => instances[i].due

(* An action is rewarded once, however often and through however many      *)
(* requests it is sent, and whatever overlaps.                             *)
RewardedOnce == \A a \in DOMAIN rewards : rewards[a] <= 1

(* The level and the experience of a character add up to the xp of its     *)
(* rewards, whatever else overlaps, unless two actions of the character    *)
(* crossed: both would then add to the experience they read, and since     *)
(* only changed columns are written the sum can come out smaller or larger.*)
EarnedIsKept ==
  \A c \in Names \ torn :
    Exists(c) => (chars[c].level - 1) * XpToLevelup + chars[c].experience = earned[c]
=============================================================================
