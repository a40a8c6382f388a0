------------------------------ MODULE Parties ------------------------------
(* Parties: their owners, their members and the invites to them.           *)
(*                                                                         *)
(* A request reads what it needs, prepares its writes in a session that    *)
(* never flushes by itself, and commits them later: other requests commit  *)
(* in between, and nothing is locked.  What a commit writes are the rows   *)
(* and columns the session changed, so two overlapping requests can each   *)
(* be right about what they read and leave behind what neither intended.   *)
(* It is so when both hand the party on, when one hands it to the member   *)
(* that the other removes, or when both make one user a member: each is    *)
(* then crossed by the one that commits first.  The ghost torn names the   *)
(* parties and users for which a crossed request has committed.            *)
(*                                                                         *)
(* A party is never closed: a member row marked for deletion is still      *)
(* among the rows the service counts, so the branch that closes an empty   *)
(* party is never taken.  joined_at, which breaks a tie between two rows   *)
(* of role owner, is abstracted to a choice.                               *)
EXTENDS Backend

CONSTANTS
  PartyIds,   \* ids of parties, a finite supply of uuids
  InviteIds   \* bound: invites

ASSUME PartiesAssumption ==
  /\ Users \cap PartyIds = {}
  /\ None \notin Users \cup PartyIds \cup InviteIds

VARIABLES
  owner,    \* owner_user_id of each party, None while there is no such party
  roles,    \* role of each member of each party
  invites,  \* rows of party_invites
  req,      \* the writes each request under way has prepared
  torn      \* ghost: parties and users that a crossed request has written

partyVars == <<owner, roles, invites, req, torn>>

Roles == {"owner", "member"}
Party == [PartyIds -> Users \cup {None}]
PartyMember == [PartyIds -> UNION {[U -> Roles] : U \in SUBSET Users}]
PartyInvite == [party : PartyIds, inviter : Users, target : Users,
                status : {"pending", "accepted", "declined"}]

(* What a request will commit: the owner and the roles it changes, the     *)
(* members it adds and deletes, and the invite it writes; missing: a row   *)
(* whose role it changes has been deleted since; crossed: the party or the *)
(* user on which a request that committed first decided otherwise.         *)
Writes == [kind : {"create", "invite", "accept", "decline", "leave", "kick", "promote"},
           user : Users, party : PartyIds, owner : Users \cup {None},
           roles : UNION {[U -> Roles] : U \in SUBSET Users},
           joins : SUBSET Users, gone : SUBSET Users,
           invite : InviteIds \cup {None}, row : PartyInvite \cup {None},
           missing : BOOLEAN, crossed : SUBSET (Users \cup PartyIds)]

NoRoles == [u \in {} |-> "member"]
Nothing(kind, u, p) ==
  [kind |-> kind, user |-> u, party |-> p, owner |-> None, roles |-> NoRoles, joins |-> {},
   gone |-> {}, invite |-> None, row |-> None, missing |-> FALSE, crossed |-> {}]

-----------------------------------------------------------------------------
(* Reads. *)

Members(p) == DOMAIN roles[p]
PartiesOf(u) == {p \in PartyIds : u \in Members(p)}

(* get_active_party_for_user raises for a user with two member rows: every *)
(* request of such a user fails.                                           *)
Answered(u) == \A p, q \in PartiesOf(u) : p = q
InParty(u, p) == Answered(u) /\ p \in PartiesOf(u)
InNoParty(u) == PartiesOf(u) = {}

Reserved == {req[r].party : r \in {s \in Requests : req[s] # None}}
NewParty(p) == owner[p] = None /\ p \notin Reserved

Used(i) == invites[i] # None \/ \E r \in Requests : req[r] # None /\ req[r].invite = i
PendingInvites(p, u) == {i \in InviteIds : /\ invites[i] # None
                                           /\ invites[i].party = p /\ invites[i].target = u
                                           /\ invites[i].status = "pending"}

IsOwner(p, u) == owner[p] = u

-----------------------------------------------------------------------------
(* The first half of each request: what it reads decides what it writes.   *)

Prepare(w) == \E r \in Requests : /\ req[r] = None
                                  /\ req' = [req EXCEPT ![r] = w]
                                  /\ UNCHANGED <<owner, roles, invites, torn>>

Created(w) == [w EXCEPT !.owner = w.user, !.joins = {w.user}]

CreateParty(u) == \E p \in PartyIds : InNoParty(u) /\ NewParty(p)
                                      /\ Prepare(Created(Nothing("create", u, p)))

(* An invite also creates the party of an inviter who has none.            *)
Invite(u, target, i) ==
  /\ target # u /\ ~Used(i)
  /\ \E p \in PartyIds :
       LET invited == [Nothing("invite", u, p) EXCEPT
                         !.invite = i,
                         !.row = [party |-> p, inviter |-> u, target |-> target, status |-> "pending"]]
       IN \/ InNoParty(u) /\ NewParty(p) /\ Prepare(Created(invited))
          \/ InParty(u, p) /\ IsOwner(p, u) /\ PendingInvites(p, target) = {} /\ Prepare(invited)

Handled(kind, i, status) ==
  [Nothing(kind, invites[i].target, invites[i].party) EXCEPT
     !.invite = i, !.row = [invites[i] EXCEPT !.status = status]]

IsPending(i) == invites[i] # None /\ invites[i].status = "pending"

(* Mutant: another party of the user is not looked for. *)
MayJoin_Second(u, p) == TRUE
MayJoin(u, p) == InNoParty(u) \/ InParty(u, p)

InviteAccept(i) ==
  /\ IsPending(i)
  /\ LET u == invites[i].target
         p == invites[i].party
     IN /\ MayJoin(u, p)
        /\ Prepare([Handled("accept", i, "accepted") EXCEPT !.joins = {u} \ Members(p)])

InviteDecline(i) == IsPending(i) /\ Prepare(Handled("decline", i, "declined"))

(* Roles that transfer_party_owner and remove_party_member assign to the   *)
(* rows they loaded; only the ones that differ are written.                *)
(* Mutant: only the new owner's row is assigned. *)
Assigned_New(p, new) == [u \in Members(p) |-> IF u = new THEN "owner" ELSE roles[p][u]]
Assigned(p, new) == [u \in Members(p) |-> IF u = new THEN "owner" ELSE "member"]
Changed(p, assigned) ==
  [v \in {u \in DOMAIN assigned : assigned[u] # roles[p][u]} |-> assigned[v]]
Transferred(w, p, new) ==
  [w EXCEPT !.owner = IF new = owner[p] THEN None ELSE new, !.roles = Changed(p, Assigned(p, new))]

(* The first of the rows sorted by role, then by joined_at.                *)
Replacement(p, u) ==
  LET owners == {v \in Members(p) : roles[p][v] = "owner"}
  IN u \in IF owners # {} THEN owners ELSE Members(p)

(* An owner who leaves hands the party to the first of the member rows,    *)
(* the leaving one still among them; assigning the roles adds that row to  *)
(* the session again, which takes back its deletion.                       *)
RemovePartyMember(w, p, u) ==
  IF IsOwner(p, u)
  THEN \E new \in Members(p) : Replacement(p, new) /\ Prepare(Transferred(w, p, new))
  ELSE Prepare([w EXCEPT !.gone = {u}])

LeaveParty(u) ==
  \E p \in PartyIds : InParty(u, p) /\ RemovePartyMember(Nothing("leave", u, p), p, u)

MayManage(p, u) == InParty(u, p) /\ IsOwner(p, u)

KickMember(u, target) ==
  \E p \in PartyIds :
    /\ MayManage(p, u) /\ target # u /\ target \in Members(p)
    /\ RemovePartyMember(Nothing("kick", u, p), p, target)

PromoteMember(u, target) ==
  \E p \in PartyIds :
    /\ MayManage(p, u) /\ target \in Members(p)
    /\ Prepare(Transferred(Nothing("promote", u, p), p, target))

-----------------------------------------------------------------------------
(* The second half: the commit. *)

Leader(w) == IF w.owner = None THEN owner[w.party] ELSE w.owner
HandsOn(w) == w.owner # None \/ w.roles # NoRoles

Contested(v, w) ==
  {p \in {v.party} : /\ p = w.party
                     /\ \/ HandsOn(v) /\ HandsOn(w)
                        \/ Leader(v) \in w.gone
                        \/ Leader(w) \in v.gone}
  \cup (v.joins \cap w.joins)
Overtaken(v, w) ==
  [v EXCEPT !.crossed = v.crossed \cup Contested(v, w),
            !.gone = IF v.party = w.party THEN v.gone \ w.gone ELSE v.gone,
            !.missing = v.missing \/ (v.party = w.party /\ DOMAIN v.roles \cap w.gone # {})]
Overlapped(w) == [r \in Requests |-> IF req[r] = None THEN None ELSE Overtaken(req[r], w)]

(* A row to insert that is there already breaks uq_party_member_party_user,*)
(* a row to update that is gone is a StaleDataError: either rolls back.  A *)
(* row to delete that is gone is only warned about.                        *)
Fits(w) == w.joins \cap Members(w.party) = {} /\ ~w.missing

NewRole(w, u) == IF u \in DOMAIN w.roles THEN w.roles[u]
                 ELSE IF u \in w.joins THEN IF w.owner = u THEN "owner" ELSE "member"
                 ELSE roles[w.party][u]

Apply(w) ==
  /\ owner' = [owner EXCEPT ![w.party] = Leader(w)]
  /\ roles' = [roles EXCEPT ![w.party] = [u \in (Members(w.party) \cup w.joins) \ w.gone |-> NewRole(w, u)]]
  /\ invites' = IF w.invite = None THEN invites ELSE [invites EXCEPT ![w.invite] = w.row]

Commit(r) ==
  /\ req[r] # None /\ Fits(req[r])
  /\ Apply(req[r])
  /\ req' = [Overlapped(req[r]) EXCEPT ![r] = None]
  /\ torn' = (torn \ {p \in {req[r].party} : HandsOn(req[r])}) \cup req[r].crossed

Rollback(r) ==
  /\ req[r] # None /\ ~Fits(req[r])
  /\ req' = [req EXCEPT ![r] = None]
  /\ UNCHANGED <<owner, roles, invites, torn>>

-----------------------------------------------------------------------------
PartiesInit ==
  /\ owner = [p \in PartyIds |-> None]
  /\ roles = [p \in PartyIds |-> NoRoles]
  /\ invites = [i \in InviteIds |-> None]
  /\ req = [r \in Requests |-> None]
  /\ torn = {}

PartiesNext ==
  \/ \E u \in Users : CreateParty(u)
  \/ \E u, target \in Users, i \in InviteIds : Invite(u, target, i)
  \/ \E i \in InviteIds : InviteAccept(i)
  \/ \E i \in InviteIds : InviteDecline(i)
  \/ \E u \in Users : LeaveParty(u)
  \/ \E u, target \in Users : KickMember(u, target)
  \/ \E u, target \in Users : PromoteMember(u, target)
  \/ \E r \in Requests : Commit(r) \/ Rollback(r)

PartiesSpec == PartiesInit /\ [][PartiesNext]_partyVars

-----------------------------------------------------------------------------
(* Properties. *)

PartiesTypeOK ==
  /\ owner \in Party
  /\ roles \in PartyMember
  /\ invites \in [InviteIds -> PartyInvite \cup {None}]
  /\ req \in [Requests -> Writes \cup {None}]
  /\ torn \subseteq Users \cup PartyIds

(* The owner of a party is a member of it, and the only one of role owner, *)
(* whatever overlaps, unless the party was handed on twice at once, or to  *)
(* a member who was being removed; and it is so again as soon as it is     *)
(* handed on by a request that none of that crosses.                       *)
OwnerLeads ==
  \A p \in PartyIds \ torn :
    \/ owner[p] = None /\ Members(p) = {}
    \/ owner[p] \in Members(p) /\ {u \in Members(p) : roles[p][u] = "owner"} = {owner[p]}

(* A user is a member of one party, whatever overlaps, unless two requests *)
(* made them a member at once.  A user of two parties can use neither, and *)
(* cannot leave them: get_active_party_for_user raises.                    *)
OneParty == \A u \in Users \ torn : \A p, q \in PartiesOf(u) : p = q

(* A member who leaves is no member any more ("Use leave to leave your own *)
(* party"): false of the owner.                                            *)
LeaveLeaves ==
  [][\A r \in Requests : req[r] # None /\ req[r].kind = "leave" /\ req'[r] = None
       => req[r].user \notin DOMAIN roles'[req[r].party]]_partyVars
=============================================================================
