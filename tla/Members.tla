------------------------------- MODULE Members -------------------------------
(* One domain's members, invites and settings: services/domains.py, behind   *)
(* api/domains.py, web/members.py, web/manage.py and the bot's /domains; and *)
(* the bot's current domain of each user (bot/state.py).                     *)
(*                                                                           *)
(* A request authorises its user and reads in one action, and commits in a   *)
(* later one: what it read may be out of date by then.  A domain has one     *)
(* owner for ever: ownership is not transferred anywhere.                    *)
EXTENDS Integers, FiniteSets

CONSTANTS
    Users,
    Owner,        \* the user the domain was made by
    Assigned,     \* the roles given out, of ASSIGNABLE_ROLES
    Invites,      \* invite ids
    Mailed,       \* the invites that name an e-mail address; the others a login
    Quotas,       \* what is asked of the setting storage_quota_mb
    MaxQuota,     \* settings.default_domain_quota_mb
    Requests,     \* requests that may be in flight
    None

ASSIGNABLE_ROLES == {"admin", "editor", "tagger", "viewer", "scanner"}
Role == ASSIGNABLE_ROLES \cup {"owner"}

(* A row of domain_invite. *)
InviteRows == [to : Users, role : Assigned, accepted : BOOLEAN, expired : BOOLEAN]

(* What the code lets one assume of the constants.                           *)
ASSUME MembersAssumption ==
    /\ Owner \in Users /\ Assigned \subseteq ASSIGNABLE_ROLES
    /\ Mailed \subseteq Invites
    /\ Quotas \subseteq Nat /\ MaxQuota \in Nat
ASSUME NoneAssumption == None \notin Role \cup InviteRows \cup Nat \cup BOOLEAN

VARIABLES
    live,      \* the domain exists
    member,    \* domain_member: [Users -> role or None]
    invite,    \* domain_invite: [Invites -> row or None]
    settings,  \* domain.settings: [key -> value or None]
    current,   \* bot_user_state: the users whose current domain this is
    req        \* the requests: what each has read and will write

vars == <<live, member, invite, settings, current, req>>

Idle == [op |-> "none"]
SettingKeys == {"auto_ocr", "storage_quota_mb"}

-----------------------------------------------------------------------------
(* Roles and what they may do. *)

ROLE_CAPS == [role \in Role |->
    CASE role = "owner" ->
             {"view", "upload", "write", "download", "process", "manage", "delete", "own"}
      [] role = "admin" -> {"view", "upload", "write", "download", "process", "manage", "delete"}
      [] role = "editor" -> {"view", "upload", "write", "download", "process"}
      [] role = "tagger" -> {"view", "write", "download", "process"}
      [] role = "viewer" -> {"view", "download"}
      [] role = "scanner" -> {"view", "process"}]

(* require: a member whose role has the capability, by the row as it is now. *)
Require(u, cap) == live /\ member[u] # None /\ cap \in ROLE_CAPS[member[u]]

Begin(r, x) ==
    /\ req[r] = Idle
    /\ req' = [req EXCEPT ![r] = x]
    /\ UNCHANGED <<live, member, invite, settings, current>>

(* Whatever else a request wrote, those in flight over the same thing have   *)
(* read what is out of date now.                                             *)
Done(r, Same(_)) ==
    req' = [x \in Requests |->
              IF x = r THEN Idle
              ELSE IF req[x].op = req[r].op /\ Same(x)
              THEN [req[x] EXCEPT !.overtaken = TRUE] ELSE req[x]]

-----------------------------------------------------------------------------
(* Members. *)

(* add_or_update_member up to its flush; the form of the web and the bot's   *)
(* line of text come to the same.                                            *)
SetMember(r, actor, u, role) ==
    /\ Require(actor, "manage")
    /\ member[u] # "owner"
    /\ Begin(r, [op |-> "role", user |-> u, role |-> role, had |-> member[u],
                 overtaken |-> FALSE])

(* A fault: the owner can be removed like anybody. *)
FaultAnybody(u) == member[u] # None

Removable(u) == u # Owner /\ member[u] # None

RemoveMember(r, actor, u) ==
    /\ Require(actor, "manage") /\ Removable(u)
    /\ Begin(r, [op |-> "remove", user |-> u, leaves |-> FALSE, overtaken |-> FALSE])

(* The bot's button, for oneself. *)
Leave(r, u) ==
    /\ live /\ Removable(u)
    /\ Begin(r, [op |-> "remove", user |-> u, leaves |-> TRUE, overtaken |-> FALSE])

(* A new member is an insert, refused if the row exists by now; a new role   *)
(* an update, which fails if the row is gone, and is left out if it is the   *)
(* old one.                                                                  *)
Lost(r) == (req[r].had = None) # (member[req[r].user] = None)

CommitRole(r) ==
    /\ req[r].op = "role" /\ ~Lost(r)
    /\ member' = [member EXCEPT ![req[r].user] = IF req[r].role = req[r].had THEN @
                                                 ELSE req[r].role]
    /\ Done(r, LAMBDA x : req[x].user = req[r].user)
    /\ UNCHANGED <<live, invite, settings, current>>

CommitRemove(r) ==
    /\ req[r].op = "remove"
    /\ member' = [member EXCEPT ![req[r].user] = None]
    /\ current' = IF req[r].leaves THEN current \ {req[r].user} ELSE current
    /\ Done(r, LAMBDA x : req[x].user = req[r].user)
    /\ UNCHANGED <<live, invite, settings>>

-----------------------------------------------------------------------------
(* Invites. *)

(* A domain has one invite for an e-mail address, for ever: a second one, be *)
(* the first used or expired, is refused by the table (the request fails).   *)
CreateInvite(actor, i, u, role) ==
    /\ Require(actor, "manage")
    /\ invite[i] = None
    /\ i \in Mailed => \A j \in Mailed : invite[j] # None => invite[j].to # u
    /\ invite' = [invite EXCEPT ![i] = [to |-> u, role |-> role, accepted |-> FALSE,
                                        expired |-> FALSE]]
    /\ UNCHANGED <<live, member, settings, current, req>>

(* A fault: an accepted invite is still good. *)
FaultStillGood(i, u) == invite[i] # None /\ ~invite[i].expired /\ invite[i].to = u

Acceptable(i, u) == invite[i] # None /\ ~invite[i].accepted /\ ~invite[i].expired
                                     /\ invite[i].to = u

(* accept_invite up to its flush. *)
Accept(r, i, u) ==
    /\ Acceptable(i, u)
    /\ Begin(r, [op |-> "accept", invite |-> i, user |-> u, role |-> invite[i].role,
                 had |-> member[u], overtaken |-> FALSE])

(* Who is a member already keeps his role, and the invite is used all the    *)
(* same.                                                                     *)
CommitAccept(r) ==
    /\ req[r].op = "accept" /\ (req[r].had = None => ~Lost(r))
    /\ member' = [member EXCEPT ![req[r].user] = IF req[r].had = None THEN req[r].role ELSE @]
    /\ invite' = [invite EXCEPT ![req[r].invite].accepted = TRUE]
    /\ Done(r, LAMBDA x : req[x].invite = req[r].invite)
    /\ UNCHANGED <<live, settings, current>>

Expire(i) ==
    /\ invite[i] # None /\ ~invite[i].expired
    /\ invite' = [invite EXCEPT ![i].expired = TRUE]
    /\ UNCHANGED <<live, member, settings, current, req>>

-----------------------------------------------------------------------------
(* Settings: one JSON column, read, merged and written back as a whole.      *)

(* A fault: the column becomes the body. *)
FaultReplaces(old, new) == [k \in SettingKeys |-> IF k \in DOMAIN new THEN new[k] ELSE None]

Merge(old, new) == [k \in SettingKeys |-> IF k \in DOMAIN new THEN new[k] ELSE old[k]]

Change(r, actor, new) ==
    /\ Require(actor, "manage")
    /\ Begin(r, [op |-> "settings", named |-> DOMAIN new, settings |-> Merge(settings, new),
                 overtaken |-> FALSE])

(* The API takes what it is given ... *)
UpdateDomain(r, actor, k, v) == Change(r, actor, [x \in {k} |-> v])

(* ... the web form has every switch, and numbers if they parse, clamped.    *)
Clamped(n) == IF n > MaxQuota THEN MaxQuota ELSE n

SettingsSave(r, actor, on, quota) ==
    Change(r, actor, [k \in {"auto_ocr"} \cup (IF quota = None THEN {} ELSE {"storage_quota_mb"}) |->
                        IF k = "auto_ocr" THEN on ELSE Clamped(quota)])

CommitSettings(r) ==
    /\ req[r].op = "settings"
    /\ settings' = req[r].settings
    /\ Done(r, LAMBDA x : TRUE)
    /\ UNCHANGED <<live, member, invite, current>>

-----------------------------------------------------------------------------
(* The bot's current domain: kept when the member is removed (nothing calls  *)
(* clear_dangling_domain); an upload looks at the membership again.          *)
SetCurrent(u) ==
    /\ live /\ member[u] # None /\ u \notin current
    /\ current' = current \cup {u}
    /\ UNCHANGED <<live, member, invite, settings, req>>

(* A fault: the foreign key does not clear it. *)
FaultKeepsCurrent == current

CurrentAfterDelete == {}

(* Members, invites and settings go with the domain; so do the requests in   *)
(* flight, whose rows are gone.                                              *)
DeleteDomain(actor) ==
    /\ Require(actor, "own")
    /\ live' = FALSE
    /\ member' = [u \in Users |-> None]
    /\ invite' = [i \in Invites |-> None]
    /\ settings' = [k \in SettingKeys |-> None]
    /\ current' = CurrentAfterDelete
    /\ req' = [r \in Requests |-> IF req[r] = Idle THEN Idle ELSE [op |-> "orphaned"]]

(* The commit fails, and the request with it. *)
RollBack(r) ==
    /\ \/ req[r].op = "orphaned"
       \/ req[r].op = "role" /\ Lost(r)
       \/ req[r].op = "accept" /\ req[r].had = None /\ Lost(r)
    /\ req' = [req EXCEPT ![r] = Idle]
    /\ UNCHANGED <<live, member, invite, settings, current>>

-----------------------------------------------------------------------------
(* create_domain: the domain and the owner's membership in one transaction.  *)
Init ==
    /\ live = TRUE
    /\ member = [u \in Users |-> IF u = Owner THEN "owner" ELSE None]
    /\ invite = [i \in Invites |-> None]
    /\ settings = [k \in SettingKeys |-> None]
    /\ current = {}
    /\ req = [r \in Requests |-> Idle]

Next ==
    \/ \E r \in Requests, u \in Users :
          \/ \E actor \in Users : RemoveMember(r, actor, u)
          \/ \E actor \in Users, role \in Assigned : SetMember(r, actor, u, role)
          \/ \E i \in Invites : Accept(r, i, u)
          \/ \E k \in SettingKeys, v \in Quotas :
                 UpdateDomain(r, u, k, IF k = "auto_ocr" THEN v > 0 ELSE v)
          \/ \E on \in BOOLEAN, v \in Quotas \cup {None} : SettingsSave(r, u, on, v)
          \/ Leave(r, u)
    \/ \E r \in Requests :
          CommitRole(r) \/ CommitRemove(r) \/ CommitAccept(r) \/ CommitSettings(r) \/ RollBack(r)
    \/ \E actor, u \in Users, i \in Invites, role \in Assigned : CreateInvite(actor, i, u, role)
    \/ \E i \in Invites : Expire(i)
    \/ \E u \in Users : SetCurrent(u) \/ DeleteDomain(u)

Spec == Init /\ [][Next]_vars

-----------------------------------------------------------------------------
TypeOK ==
    /\ live \in BOOLEAN
    /\ member \in [Users -> Role \cup {None}]
    /\ invite \in [Invites -> InviteRows \cup {None}]
    /\ DOMAIN settings = SettingKeys /\ settings["auto_ocr"] \in BOOLEAN \cup {None}
    /\ settings["storage_quota_mb"] \in Quotas \cup {MaxQuota, None}
    /\ current \subseteq Users /\ (current # {} => live)
    /\ \A r \in Requests :
          req[r].op \in {"none", "role", "remove", "accept", "settings", "orphaned"}

(* The domain has its one owner as long as it lives, whoever adds, removes,  *)
(* invites or leaves at the same time; and nobody is left when it is gone.   *)
OneOwner == \A u \in Users : member[u] = "owner" <=> live /\ u = Owner

(* An invite lets its addressee in once: who was removed comes back only by  *)
(* being added or by an invite not used yet - or by a second acceptance that *)
(* was under way when the first went through.                                *)
EntersOnce ==
    \A u \in Users : member[u] = None /\ member'[u] # None =>
        \E r \in Requests :
            /\ req[r].op \in {"role", "accept"} /\ req[r].user = u /\ req'[r] = Idle
            /\ req[r].op = "accept" => ~invite[req[r].invite].accepted \/ req[r].overtaken
InviteLetsInOnceUnlessRaced == [][EntersOnce]_vars

(* A setting changes by a request that names it.  As the column is written   *)
(* whole, one that overlaps another may bring the old value back.            *)
SettingChanges ==
    \A k \in SettingKeys : live' /\ settings'[k] # settings[k] =>
        \E r \in Requests : /\ req[r].op = "settings" /\ req'[r] = Idle
                            /\ k \in req[r].named \/ req[r].overtaken
SettingsStandUnlessRaced == [][SettingChanges]_vars
=============================================================================
