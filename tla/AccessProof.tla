------------------------------ MODULE AccessProof -----------------------------
(* Proofs about MCAccess, for every set of users, roles, invites, settings,  *)
(* passwords, Telegram ids, tokens and requests: first the members of a      *)
(* domain (the one owner, invites that let in once, settings that change     *)
(* only by a request that names them), then the Telegram links, then the     *)
(* accounts, and last what MCAccess makes of the three.                      *)
EXTENDS MCAccess, FiniteSetTheorems, TLAPS

-----------------------------------------------------------------------------
(* Members: the inductive invariant - what a request in flight carries, and  *)
(* what of it still holds while nothing has overtaken it.                    *)

MaybeRole == Role \cup {None}
Settings ==
    {s \in [SettingKeys -> BOOLEAN \cup Nat \cup {None}] :
        /\ s["auto_ocr"] \in BOOLEAN \cup {None}
        /\ s["storage_quota_mb"] \in Quotas \cup {MaxQuota, None}}

\* The owner is nobody's business: no request changes or removes him.
RoleRequest == [op : {"role"}, user : Users \ {Owner}, role : Assigned, had : MaybeRole,
                overtaken : BOOLEAN]
RemoveRequest == [op : {"remove"}, user : Users \ {Owner}, leaves : BOOLEAN,
                  overtaken : BOOLEAN]
AcceptRequest == [op : {"accept"}, invite : Invites, user : Users, role : Assigned,
                  had : MaybeRole, overtaken : BOOLEAN]
SettingsRequest == [op : {"settings"}, named : SUBSET SettingKeys, settings : Settings,
                    overtaken : BOOLEAN]
Orphan == [op |-> "orphaned"]
Request == {Idle, Orphan} \cup RoleRequest \cup RemoveRequest \cup AcceptRequest
                          \cup SettingsRequest

Typed ==
    /\ live \in BOOLEAN
    /\ member \in [Users -> MaybeRole]
    /\ invite \in [Invites -> InviteRows \cup {None}]
    /\ settings \in Settings
    /\ current \subseteq Users
    /\ req \in [Requests -> Request]

\* A deleted domain leaves no invite, and no request that could still write.
NothingAfterDelete ==
    ~live => /\ current = {}
             /\ \A i \in Invites : invite[i] = None
             /\ \A r \in Requests : req[r] \in {Idle, Orphan}

\* An acceptance under way holds an invite that is not used, unless overtaken.
AcceptsUnused ==
    \A r \in Requests : req[r].op = "accept" =>
        /\ invite[req[r].invite] # None
        /\ invite[req[r].invite].accepted => req[r].overtaken

\* A change of settings under way carries the others as they are, unless
\* overtaken.
CarriesSettings ==
    \A r \in Requests : req[r].op = "settings" =>
        \A k \in SettingKeys \ req[r].named :
            req[r].settings[k] = settings[k] \/ req[r].overtaken

IInv == Typed /\ OneOwner /\ NothingAfterDelete /\ AcceptsUnused /\ CarriesSettings

-----------------------------------------------------------------------------
(* Requests. *)

\* What is known of a request's record by its operation.
LEMMA RequestByOp ==
    ASSUME NEW q \in Request
    PROVE  /\ q.op \in {"none", "role", "remove", "accept", "settings", "orphaned"}
           /\ q.op = "none" => q = Idle
           /\ q.op = "role" => q \in RoleRequest
           /\ q.op = "remove" => q \in RemoveRequest
           /\ q.op = "accept" => q \in AcceptRequest
           /\ q.op = "settings" => q \in SettingsRequest
           /\ q.op = "orphaned" => q = Orphan
BY DEF Request, Idle, Orphan, RoleRequest, RemoveRequest, AcceptRequest, SettingsRequest

\* Marking a request as overtaken leaves the rest of it alone.
LEMMA Overtaking ==
    ASSUME NEW q \in Request, q.op \in {"role", "remove", "accept", "settings"}
    PROVE  LET o == [q EXCEPT !.overtaken = TRUE]
           IN  /\ o \in Request /\ o.overtaken /\ o.op = q.op
               /\ q.op = "accept" => o.invite = q.invite
               /\ q.op = "settings" => o.named = q.named /\ o.settings = q.settings
<1>1. CASE q.op = "role"
    BY <1>1, RequestByOp DEF Request, RoleRequest
<1>2. CASE q.op = "remove"
    BY <1>2, RequestByOp DEF Request, RemoveRequest
<1>3. CASE q.op = "accept"
    BY <1>3, RequestByOp DEF Request, AcceptRequest
<1>4. CASE q.op = "settings"
    BY <1>4, RequestByOp DEF Request, SettingsRequest
<1>5. QED
    BY <1>1, <1>2, <1>3, <1>4

\* What a commit leaves in flight: it is done itself, those over the same
\* thing are overtaken, the others stand.
Marked(r, S) ==
    /\ req' \in [Requests -> Request]
    /\ req'[r] = Idle
    /\ \A x \in Requests \ {r} :
          /\ req'[x].op = req[x].op
          /\ req[x].op = "accept" => req'[x].invite = req[x].invite
          /\ req[x].op = "settings" => /\ req'[x].named = req[x].named
                                      /\ req'[x].settings = req[x].settings
          /\ IF x \in S THEN req'[x].overtaken ELSE req'[x] = req[x]

LEMMA Finished ==
    ASSUME req \in [Requests -> Request], NEW r \in Requests, NEW S \in SUBSET Requests,
           \A x \in S : req[x].op \in {"role", "remove", "accept", "settings"},
           req' = [x \in Requests |->
                      IF x = r THEN Idle
                      ELSE IF x \in S THEN [req[x] EXCEPT !.overtaken = TRUE] ELSE req[x]]
    PROVE  Marked(r, S)
<1>1. Idle \in Request
    BY DEF Request
<1>2. ASSUME NEW x \in Requests \ {r}
      PROVE  /\ req'[x] \in Request /\ req'[x].op = req[x].op
             /\ req[x].op = "accept" => req'[x].invite = req[x].invite
             /\ req[x].op = "settings" => /\ req'[x].named = req[x].named
                                         /\ req'[x].settings = req[x].settings
             /\ IF x \in S THEN req'[x].overtaken ELSE req'[x] = req[x]
    <2>1. CASE x \in S
        <3> DEFINE q == req[x]
        <3>1. q \in Request /\ q.op \in {"role", "remove", "accept", "settings"}
            BY <2>1
        <3>2. req'[x] = [q EXCEPT !.overtaken = TRUE]
            BY <2>1, <1>2
        <3> HIDE DEF q
        <3>3. /\ req'[x] \in Request /\ req'[x].overtaken /\ req'[x].op = q.op
              /\ q.op = "accept" => req'[x].invite = q.invite
              /\ q.op = "settings" => req'[x].named = q.named /\ req'[x].settings = q.settings
            BY <3>1, <3>2, Overtaking
        <3> QED
            BY <2>1, <3>3 DEF q
    <2>2. CASE x \notin S
        BY <2>2, <1>2
    <2> QED
        BY <2>1, <2>2
<1>3. \A x \in Requests : req'[x] \in Request
    BY <1>1, <1>2
<1>4. QED
    BY <1>2, <1>3 DEF Marked

-----------------------------------------------------------------------------
(* Every step keeps the invariant. *)

LEMMA InvInit == Init => IInv
<1>. SUFFICES ASSUME Init PROVE IInv
    OBVIOUS
<1>1. Typed
    BY MembersAssumption DEF Init, Typed, MaybeRole, Role, Settings, SettingKeys, Request
<1>2. OneOwner
    BY MembersAssumption, NoneAssumption DEF Init, OneOwner, Role
<1>3. NothingAfterDelete /\ AcceptsUnused /\ CarriesSettings
    BY DEF Init, NothingAfterDelete, AcceptsUnused, CarriesSettings, Idle
<1>4. QED
    BY <1>1, <1>2, <1>3 DEF IInv

\* A request starts with what the domain holds now.
LEMMA Begins ==
    ASSUME IInv, live, NEW r \in Requests, NEW x \in Request, Begin(r, x),
           x.op = "accept" => invite[x.invite] # None /\ ~invite[x.invite].accepted,
           x.op = "settings" =>
               \A k \in SettingKeys \ x.named : x.settings[k] = settings[k]
    PROVE  IInv'
<1>1. /\ req' = [req EXCEPT ![r] = x]
      /\ UNCHANGED <<live, member, invite, settings, current>>
    BY DEF Begin
<1>2. Typed'
    BY <1>1 DEF IInv, Typed
<1>3. OneOwner' /\ NothingAfterDelete'
    BY <1>1 DEF IInv, OneOwner, NothingAfterDelete
<1>4. AcceptsUnused'
    BY <1>1 DEF IInv, AcceptsUnused, Typed
<1>5. CarriesSettings'
    BY <1>1 DEF IInv, CarriesSettings, Typed
<1>6. QED
    BY <1>2, <1>3, <1>4, <1>5 DEF IInv

LEMMA InvSetMember ==
    ASSUME IInv, NEW r \in Requests, NEW actor \in Users, NEW u \in Users, NEW role \in Assigned,
           SetMember(r, actor, u, role)
    PROVE  IInv'
<1> DEFINE x == [op |-> "role", user |-> u, role |-> role, had |-> member[u],
                 overtaken |-> FALSE]
<1>1. live /\ member[u] # "owner" /\ Begin(r, x)
    BY DEF SetMember, Require
<1>2. x \in RoleRequest /\ x.op = "role"
    BY <1>1 DEF IInv, Typed, OneOwner, RoleRequest
<1> HIDE DEF x
<1>3. QED
    BY <1>1, <1>2, Begins DEF Request

LEMMA InvRemoveMember ==
    ASSUME IInv, NEW r \in Requests, NEW u \in Users,
           Leave(r, u) \/ \E actor \in Users : RemoveMember(r, actor, u)
    PROVE  IInv'
<1>1. PICK leaves \in BOOLEAN :
          /\ live /\ u # Owner
          /\ Begin(r, [op |-> "remove", user |-> u, leaves |-> leaves, overtaken |-> FALSE])
    BY DEF Leave, RemoveMember, Require, Removable
<1> DEFINE x == [op |-> "remove", user |-> u, leaves |-> leaves, overtaken |-> FALSE]
<1>2. x \in RemoveRequest /\ x.op = "remove"
    BY <1>1 DEF RemoveRequest
<1>3. Begin(r, x)
    BY <1>1
<1> HIDE DEF x
<1>4. QED
    BY <1>1, <1>2, <1>3, Begins DEF Request

LEMMA InvAccept ==
    ASSUME IInv, NEW r \in Requests, NEW i \in Invites, NEW u \in Users, Accept(r, i, u)
    PROVE  IInv'
<1> DEFINE x == [op |-> "accept", invite |-> i, user |-> u, role |-> invite[i].role,
                 had |-> member[u], overtaken |-> FALSE]
<1>1. invite[i] # None /\ ~invite[i].accepted /\ Begin(r, x)
    BY DEF Accept, Acceptable
<1>2. live
    BY <1>1 DEF IInv, NothingAfterDelete, Typed
<1>3. invite[i] \in InviteRows
    BY <1>1 DEF IInv, Typed
<1>4. x \in AcceptRequest /\ x.op = "accept" /\ x.invite = i
    BY <1>3 DEF IInv, Typed, AcceptRequest, InviteRows
<1> HIDE DEF x
<1>5. QED
    BY <1>1, <1>2, <1>4, Begins DEF Request

\* What is written back is the column as read, but for what the body names.
LEMMA InvChange ==
    ASSUME IInv, NEW r \in Requests, NEW actor \in Users, NEW new, Change(r, actor, new),
           DOMAIN new \subseteq SettingKeys,
           "auto_ocr" \in DOMAIN new => new["auto_ocr"] \in BOOLEAN,
           "storage_quota_mb" \in DOMAIN new => new["storage_quota_mb"] \in Quotas \cup {MaxQuota}
    PROVE  IInv'
<1> DEFINE merged == Merge(settings, new)
           x == [op |-> "settings", named |-> DOMAIN new, settings |-> merged,
                 overtaken |-> FALSE]
<1>1. live /\ Begin(r, x)
    BY DEF Change, Require
<1>2. settings \in Settings
    BY DEF IInv, Typed
<1>3. /\ merged \in Settings
      /\ \A k \in SettingKeys \ DOMAIN new : merged[k] = settings[k]
    BY <1>2, MembersAssumption DEF Settings, Merge, SettingKeys
<1>4. /\ x \in SettingsRequest /\ x.op = "settings"
      /\ \A k \in SettingKeys \ x.named : x.settings[k] = settings[k]
    <2> HIDE DEF merged
    <2> QED
        BY <1>3 DEF SettingsRequest
<1> HIDE DEF x
<1>5. QED
    BY <1>1, <1>4, Begins DEF Request

LEMMA InvUpdateDomain ==
    ASSUME IInv, NEW r \in Requests, NEW u \in Users, NEW k \in SettingKeys, NEW v \in Quotas,
           UpdateDomain(r, u, k, IF k = "auto_ocr" THEN v > 0 ELSE v)
    PROVE  IInv'
<1> DEFINE value == IF k = "auto_ocr" THEN v > 0 ELSE v
           new == [x \in {k} |-> value]
<1>1. Change(r, u, new)
    BY DEF UpdateDomain
<1>2. IF k = "auto_ocr" THEN value \in BOOLEAN ELSE value \in Quotas
    OBVIOUS
<1> HIDE DEF value
<1>3. /\ DOMAIN new \subseteq SettingKeys
      /\ "auto_ocr" \in DOMAIN new => new["auto_ocr"] \in BOOLEAN
      /\ "storage_quota_mb" \in DOMAIN new => new["storage_quota_mb"] \in Quotas
    BY <1>2
<1> HIDE DEF new
<1>4. QED
    BY <1>1, <1>3, InvChange

LEMMA InvSettingsSave ==
    ASSUME IInv, NEW r \in Requests, NEW u \in Users, NEW on \in BOOLEAN,
           NEW v \in Quotas \cup {None}, SettingsSave(r, u, on, v)
    PROVE  IInv'
<1> DEFINE new == [k \in {"auto_ocr"} \cup (IF v = None THEN {} ELSE {"storage_quota_mb"}) |->
                      IF k = "auto_ocr" THEN on ELSE Clamped(v)]
<1>1. Change(r, u, new)
    BY DEF SettingsSave
<1>2. v # None => Clamped(v) \in Quotas \cup {MaxQuota}
    BY DEF Clamped
<1>3. /\ DOMAIN new \subseteq SettingKeys
      /\ "auto_ocr" \in DOMAIN new => new["auto_ocr"] \in BOOLEAN
      /\ "storage_quota_mb" \in DOMAIN new => new["storage_quota_mb"] \in Quotas \cup {MaxQuota}
    BY <1>2 DEF SettingKeys
<1> HIDE DEF new
<1>4. QED
    BY <1>1, <1>3, InvChange

\* The owner's row is not among those a commit writes.
LEMMA InvCommitRole ==
    ASSUME IInv, NEW r \in Requests, CommitRole(r)
    PROVE  IInv'
<1> DEFINE S == {x \in Requests : req[x].op = req[r].op /\ req[x].user = req[r].user}
           u == req[r].user
<1>1. req[r] \in RoleRequest /\ req[r].op = "role" /\ u \in Users \ {Owner}
    BY RequestByOp DEF CommitRole, IInv, Typed, RoleRequest
<1>2. Marked(r, S)
    <2>1. req' = [x \in Requests |->
                    IF x = r THEN Idle
                    ELSE IF x \in S THEN [req[x] EXCEPT !.overtaken = TRUE] ELSE req[x]]
        BY DEF CommitRole, Done
    <2>2. S \in SUBSET Requests
          /\ \A x \in S : req[x].op \in {"role", "remove", "accept", "settings"}
        BY <1>1
    <2>3. req \in [Requests -> Request]
        BY DEF IInv, Typed
    <2> HIDE DEF S
    <2>4. QED
        BY <2>1, <2>2, <2>3, Finished
<1>3. /\ member' = [member EXCEPT ![u] = IF req[r].role = req[r].had THEN @ ELSE req[r].role]
      /\ UNCHANGED <<live, invite, settings, current>>
    BY DEF CommitRole
<1>4. live
    BY <1>1 DEF IInv, NothingAfterDelete, Typed, Idle, Orphan
<1>5. req[r].role \in Role \ {"owner"}
    BY <1>1, MembersAssumption DEF RoleRequest, Role, ASSIGNABLE_ROLES
<1>6. Typed'
    BY <1>1, <1>2, <1>3, <1>5 DEF IInv, Typed, MaybeRole, Marked
<1>7. OneOwner'
    BY <1>1, <1>3, <1>4, <1>5 DEF IInv, Typed, OneOwner
<1>8. NothingAfterDelete'
    BY <1>3, <1>4 DEF NothingAfterDelete
<1>9. AcceptsUnused' /\ CarriesSettings'
    <2>1. \A x \in S : req[x].op = "role"
        BY <1>1
    <2> HIDE DEF S
    <2>2. AcceptsUnused'
        BY <1>1, <1>2, <1>3, <2>1 DEF IInv, AcceptsUnused, Idle, Marked
    <2>3. CarriesSettings'
        BY <1>1, <1>2, <1>3, <2>1 DEF IInv, CarriesSettings, Idle, Marked
    <2> QED
        BY <2>2, <2>3
<1>10. QED
    BY <1>6, <1>7, <1>8, <1>9 DEF IInv

LEMMA InvCommitRemove ==
    ASSUME IInv, NEW r \in Requests, CommitRemove(r)
    PROVE  IInv'
<1> DEFINE S == {x \in Requests : req[x].op = req[r].op /\ req[x].user = req[r].user}
           u == req[r].user
<1>1. req[r].op = "remove" /\ u \in Users \ {Owner}
    BY RequestByOp DEF CommitRemove, IInv, Typed, RemoveRequest
<1>2. Marked(r, S)
    <2>1. req' = [x \in Requests |->
                    IF x = r THEN Idle
                    ELSE IF x \in S THEN [req[x] EXCEPT !.overtaken = TRUE] ELSE req[x]]
        BY DEF CommitRemove, Done
    <2>2. S \in SUBSET Requests
          /\ \A x \in S : req[x].op \in {"role", "remove", "accept", "settings"}
        BY <1>1
    <2>3. req \in [Requests -> Request]
        BY DEF IInv, Typed
    <2> HIDE DEF S
    <2>4. QED
        BY <2>1, <2>2, <2>3, Finished
<1>3. /\ member' = [member EXCEPT ![u] = None] /\ current' \subseteq current
      /\ UNCHANGED <<live, invite, settings>>
    BY DEF CommitRemove
<1>4. live
    BY <1>1 DEF IInv, NothingAfterDelete, Typed, Idle, Orphan
<1>5. Typed'
    BY <1>1, <1>2, <1>3 DEF IInv, Typed, MaybeRole, Marked
<1>6. OneOwner'
    BY <1>1, <1>3, <1>4, NoneAssumption DEF IInv, Typed, OneOwner, Role
<1>7. NothingAfterDelete'
    BY <1>3, <1>4 DEF NothingAfterDelete
<1>8. \A x \in S : req[x].op = "remove"
    BY <1>1
<1> HIDE DEF S
<1>9. AcceptsUnused'
    BY <1>1, <1>2, <1>3, <1>8 DEF IInv, AcceptsUnused, Idle, Marked
<1>10. CarriesSettings'
    BY <1>1, <1>2, <1>3, <1>8 DEF IInv, CarriesSettings, Idle, Marked
<1>11. QED
    BY <1>5, <1>6, <1>7, <1>9, <1>10 DEF IInv

\* Who enters by an invite was no member, so not the owner; and every other
\* acceptance of the invite is overtaken.
LEMMA InvCommitAccept ==
    ASSUME IInv, NEW r \in Requests, CommitAccept(r)
    PROVE  IInv'
<1> DEFINE S == {x \in Requests : req[x].op = req[r].op /\ req[x].invite = req[r].invite}
           u == req[r].user
           i == req[r].invite
<1>1. req[r] \in AcceptRequest /\ req[r].op = "accept" /\ u \in Users /\ i \in Invites
    BY RequestByOp DEF CommitAccept, IInv, Typed, AcceptRequest
<1>2. Marked(r, S)
    <2>1. req' = [x \in Requests |->
                    IF x = r THEN Idle
                    ELSE IF x \in S THEN [req[x] EXCEPT !.overtaken = TRUE] ELSE req[x]]
        BY DEF CommitAccept, Done
    <2>2. S \in SUBSET Requests
          /\ \A x \in S : req[x].op \in {"role", "remove", "accept", "settings"}
        BY <1>1
    <2>3. req \in [Requests -> Request]
        BY DEF IInv, Typed
    <2> HIDE DEF S
    <2>4. QED
        BY <2>1, <2>2, <2>3, Finished
<1>3. /\ member' = [member EXCEPT ![u] = IF req[r].had = None THEN req[r].role ELSE @]
      /\ invite' = [invite EXCEPT ![i].accepted = TRUE]
      /\ UNCHANGED <<live, settings, current>>
      /\ req[r].had = None => member[u] = None
    BY DEF CommitAccept, Lost
<1>4. live
    BY <1>1 DEF IInv, NothingAfterDelete, Typed, Idle, Orphan
<1>5. req[r].role \in Role \ {"owner"}
    BY <1>1, MembersAssumption DEF AcceptRequest, Role, ASSIGNABLE_ROLES
<1>6. invite[i] \in InviteRows /\ invite'[i] \in InviteRows /\ invite'[i] # None
      /\ \A j \in Invites : j # i => invite'[j] = invite[j]
    <2>1. invite[i] \in InviteRows
        BY <1>1 DEF IInv, Typed, AcceptsUnused
    <2>2. invite'[i] = [invite[i] EXCEPT !.accepted = TRUE]
        BY <1>1, <1>3 DEF IInv, Typed
    <2>3. invite'[i] \in InviteRows
        BY <2>1, <2>2 DEF InviteRows
    <2>4. QED
        BY <1>1, <1>3, <2>1, <2>3, NoneAssumption DEF IInv, Typed
<1>7. Typed'
    <2>1. member' \in [Users -> MaybeRole]
        BY <1>1, <1>3, <1>5 DEF IInv, Typed, MaybeRole
    <2>2. invite' \in [Invites -> InviteRows \cup {None}]
        BY <1>3, <1>6 DEF IInv, Typed
    <2>3. QED
        BY <1>2, <1>3, <2>1, <2>2 DEF IInv, Typed, Marked
<1>8. OneOwner'
    BY <1>1, <1>3, <1>4, <1>5, NoneAssumption DEF IInv, Typed, OneOwner, Role
<1>9. NothingAfterDelete'
    BY <1>3, <1>4 DEF NothingAfterDelete
<1>10. AcceptsUnused'
    <2>1. SUFFICES ASSUME NEW x \in Requests, req'[x].op = "accept"
                   PROVE  /\ invite'[req'[x].invite] # None
                          /\ invite'[req'[x].invite].accepted => req'[x].overtaken
        BY DEF AcceptsUnused
    <2>2. /\ x # r /\ req[x].op = "accept" /\ req'[x].invite = req[x].invite
          /\ IF x \in S THEN req'[x].overtaken ELSE req'[x] = req[x]
        BY <1>2, <2>1 DEF Marked, Idle
    <2>3. req[x].invite \in Invites
        BY <2>2, RequestByOp DEF IInv, Typed, AcceptRequest
    <2>4. /\ invite[req[x].invite] # None
          /\ invite[req[x].invite].accepted => req[x].overtaken
        BY <2>2 DEF IInv, AcceptsUnused
    <2>5. CASE req[x].invite = i
        BY <1>1, <1>6, <2>2, <2>5
    <2>6. CASE req[x].invite # i
        BY <1>6, <2>2, <2>3, <2>4, <2>6
    <2>7. QED
        BY <2>5, <2>6
<1>11. \A x \in S : req[x].op = "accept"
    BY <1>1
<1> HIDE DEF S
<1>12. CarriesSettings'
    BY <1>1, <1>2, <1>3, <1>11 DEF IInv, CarriesSettings, Idle, Marked
<1>13. QED
    BY <1>7, <1>8, <1>9, <1>10, <1>12 DEF IInv

\* Every other change of settings under way is overtaken.
LEMMA InvCommitSettings ==
    ASSUME IInv, NEW r \in Requests, CommitSettings(r)
    PROVE  IInv'
<1> DEFINE S == {x \in Requests : req[x].op = req[r].op}
<1>1. req[r].op = "settings" /\ req[r].settings \in Settings
    BY RequestByOp DEF CommitSettings, IInv, Typed, SettingsRequest
<1>2. Marked(r, S)
    <2>1. req' = [x \in Requests |->
                    IF x = r THEN Idle
                    ELSE IF x \in S THEN [req[x] EXCEPT !.overtaken = TRUE] ELSE req[x]]
        BY DEF CommitSettings, Done
    <2>2. S \in SUBSET Requests
          /\ \A x \in S : req[x].op \in {"role", "remove", "accept", "settings"}
        BY <1>1
    <2>3. req \in [Requests -> Request]
        BY DEF IInv, Typed
    <2> HIDE DEF S
    <2>4. QED
        BY <2>1, <2>2, <2>3, Finished
<1>3. settings' = req[r].settings /\ UNCHANGED <<live, member, invite, current>>
    BY DEF CommitSettings
<1>4. live
    BY <1>1 DEF IInv, NothingAfterDelete, Typed, Idle, Orphan
<1>5. Typed'
    BY <1>1, <1>2, <1>3 DEF IInv, Typed, Marked
<1>6. OneOwner' /\ NothingAfterDelete'
    BY <1>3, <1>4 DEF IInv, OneOwner, NothingAfterDelete
<1>7. \A x \in Requests : x \in S <=> req[x].op = "settings"
    BY <1>1
<1> HIDE DEF S
<1>8. AcceptsUnused'
    BY <1>1, <1>2, <1>3, <1>7 DEF IInv, AcceptsUnused, Idle, Marked
<1>9. CarriesSettings'
    BY <1>1, <1>2, <1>3, <1>7 DEF IInv, CarriesSettings, Idle, Marked
<1>10. QED
    BY <1>5, <1>6, <1>8, <1>9 DEF IInv

LEMMA InvRollBack ==
    ASSUME IInv, NEW r \in Requests, RollBack(r)
    PROVE  IInv'
<1>1. /\ req' = [req EXCEPT ![r] = Idle]
      /\ UNCHANGED <<live, member, invite, settings, current>>
    BY DEF RollBack
<1>2. Typed'
    BY <1>1 DEF IInv, Typed, Request
<1>3. OneOwner' /\ NothingAfterDelete'
    BY <1>1 DEF IInv, Typed, OneOwner, NothingAfterDelete
<1>4. AcceptsUnused' /\ CarriesSettings'
    BY <1>1 DEF IInv, Typed, AcceptsUnused, CarriesSettings, Idle
<1>5. QED
    BY <1>2, <1>3, <1>4 DEF IInv

LEMMA InvCreateInvite ==
    ASSUME IInv, NEW actor \in Users, NEW u \in Users, NEW i \in Invites, NEW role \in Assigned,
           CreateInvite(actor, i, u, role)
    PROVE  IInv'
<1> DEFINE row == [to |-> u, role |-> role, accepted |-> FALSE, expired |-> FALSE]
<1>1. /\ live /\ invite[i] = None /\ invite' = [invite EXCEPT ![i] = row]
      /\ UNCHANGED <<live, member, settings, current, req>>
    BY DEF CreateInvite, Require
<1>2. row \in InviteRows
    BY DEF InviteRows
<1> HIDE DEF row
<1>3. Typed'
    BY <1>1, <1>2 DEF IInv, Typed
<1>4. OneOwner' /\ NothingAfterDelete' /\ CarriesSettings'
    BY <1>1 DEF IInv, OneOwner, NothingAfterDelete, CarriesSettings
<1>5. AcceptsUnused'
    \* no acceptance under way is of an invite that is not there
    <2>1. \A r \in Requests : req[r].op = "accept" =>
              req[r].invite # i /\ req[r].invite \in Invites
        BY <1>1, RequestByOp DEF IInv, Typed, AcceptsUnused, AcceptRequest
    <2>2. QED
        BY <1>1, <2>1 DEF IInv, Typed, AcceptsUnused
<1>6. QED
    BY <1>3, <1>4, <1>5 DEF IInv

LEMMA InvExpire ==
    ASSUME IInv, NEW i \in Invites, Expire(i)
    PROVE  IInv'
<1>1. /\ invite[i] # None /\ invite' = [invite EXCEPT ![i].expired = TRUE]
      /\ UNCHANGED <<live, member, settings, current, req>>
    BY DEF Expire
<1>2. invite[i] \in InviteRows /\ live
    BY <1>1 DEF IInv, Typed, NothingAfterDelete
<1>3. invite'[i] = [invite[i] EXCEPT !.expired = TRUE]
    BY <1>1 DEF IInv, Typed
<1>4. /\ invite'[i] \in InviteRows /\ invite'[i] # None
      /\ invite'[i].accepted = invite[i].accepted
    BY <1>2, <1>3, NoneAssumption DEF InviteRows
<1>5. \A j \in Invites : j # i => invite'[j] = invite[j]
    BY <1>1 DEF IInv, Typed
<1>6. Typed'
    BY <1>1, <1>4, <1>5 DEF IInv, Typed
<1>7. OneOwner' /\ NothingAfterDelete' /\ CarriesSettings'
    BY <1>1, <1>2 DEF IInv, OneOwner, NothingAfterDelete, CarriesSettings
<1>8. AcceptsUnused'
    <2>1. \A r \in Requests : req[r].op = "accept" => req[r].invite \in Invites
        BY RequestByOp DEF IInv, Typed, AcceptRequest
    <2>2. QED
        BY <1>1, <1>4, <1>5, <2>1 DEF IInv, AcceptsUnused
<1>9. QED
    BY <1>6, <1>7, <1>8 DEF IInv

LEMMA InvSetCurrent ==
    ASSUME IInv, NEW u \in Users, SetCurrent(u)
    PROVE  IInv'
<1>1. /\ live /\ current' = current \cup {u}
      /\ UNCHANGED <<live, member, invite, settings, req>>
    BY DEF SetCurrent
<1>2. QED
    BY <1>1 DEF IInv, Typed, OneOwner, NothingAfterDelete, AcceptsUnused, CarriesSettings

LEMMA InvDeleteDomain ==
    ASSUME IInv, NEW actor \in Users, DeleteDomain(actor)
    PROVE  IInv'
<1>1. /\ live' = FALSE
      /\ member' = [u \in Users |-> None]
      /\ invite' = [i \in Invites |-> None]
      /\ settings' = [k \in SettingKeys |-> None]
      /\ current' = {}
      /\ \A r \in Requests : req'[r] \in {Idle, Orphan}
      /\ req' \in [Requests -> Request]
    BY DEF DeleteDomain, CurrentAfterDelete, Orphan, Request
<1>2. Typed'
    BY <1>1 DEF Typed, MaybeRole, Settings, SettingKeys
<1>3. OneOwner' /\ NothingAfterDelete'
    BY <1>1, NoneAssumption DEF OneOwner, NothingAfterDelete, Role
<1>4. AcceptsUnused' /\ CarriesSettings'
    BY <1>1 DEF AcceptsUnused, CarriesSettings, Idle, Orphan
<1>5. QED
    BY <1>2, <1>3, <1>4 DEF IInv

LEMMA InvStutter ==
    ASSUME IInv, UNCHANGED vars
    PROVE  IInv'
BY DEF vars, IInv, Typed, OneOwner, NothingAfterDelete, AcceptsUnused, CarriesSettings

LEMMA InvNext ==
    ASSUME IInv, [Next]_vars
    PROVE  IInv'
<1>1. ASSUME NEW r \in Requests, NEW u \in Users, NEW actor \in Users,
             RemoveMember(r, actor, u)
      PROVE  IInv'
    BY <1>1, InvRemoveMember
<1>2. ASSUME NEW r \in Requests, NEW u \in Users, NEW actor \in Users, NEW role \in Assigned,
             SetMember(r, actor, u, role)
      PROVE  IInv'
    BY <1>2, InvSetMember
<1>3. ASSUME NEW r \in Requests, NEW u \in Users, NEW i \in Invites, Accept(r, i, u)
      PROVE  IInv'
    BY <1>3, InvAccept
<1>4. ASSUME NEW r \in Requests, NEW u \in Users, NEW k \in SettingKeys, NEW v \in Quotas,
             UpdateDomain(r, u, k, IF k = "auto_ocr" THEN v > 0 ELSE v)
      PROVE  IInv'
    BY <1>4, InvUpdateDomain
<1>5. ASSUME NEW r \in Requests, NEW u \in Users, NEW on \in BOOLEAN,
             NEW v \in Quotas \cup {None}, SettingsSave(r, u, on, v)
      PROVE  IInv'
    BY <1>5, InvSettingsSave
<1>6. ASSUME NEW r \in Requests, NEW u \in Users, Leave(r, u)
      PROVE  IInv'
    BY <1>6, InvRemoveMember
<1>7. ASSUME NEW r \in Requests,
             CommitRole(r) \/ CommitRemove(r) \/ CommitAccept(r) \/ CommitSettings(r) \/ RollBack(r)
      PROVE  IInv'
    BY <1>7, InvCommitRole, InvCommitRemove, InvCommitAccept, InvCommitSettings, InvRollBack
<1>8. ASSUME NEW actor \in Users, NEW u \in Users, NEW i \in Invites, NEW role \in Assigned,
             CreateInvite(actor, i, u, role)
      PROVE  IInv'
    BY <1>8, InvCreateInvite
<1>9. ASSUME NEW i \in Invites, Expire(i)
      PROVE  IInv'
    BY <1>9, InvExpire
<1>10. ASSUME NEW u \in Users, SetCurrent(u) \/ DeleteDomain(u)
       PROVE  IInv'
    BY <1>10, InvSetCurrent, InvDeleteDomain
<1>11. CASE UNCHANGED vars
    BY <1>11, InvStutter
<1>12. QED
    BY <1>1, <1>2, <1>3, <1>4, <1>5, <1>6, <1>7, <1>8, <1>9, <1>10, <1>11 DEF Next

-----------------------------------------------------------------------------
(* What follows. *)

\* IInv holds in every reachable state.
THEOREM InductiveInvariant == Spec => []IInv
<1>1. IInv /\ [Next]_vars => IInv'
    BY InvNext
<1>2. QED
    BY <1>1, InvInit, PTL DEF Spec

LEMMA InvTypeOK == IInv => TypeOK
<1>1. SUFFICES ASSUME IInv PROVE TypeOK
    OBVIOUS
<1>2. /\ live \in BOOLEAN /\ member \in [Users -> Role \cup {None}]
      /\ invite \in [Invites -> InviteRows \cup {None}]
      /\ current \subseteq Users /\ (current # {} => live)
    BY <1>1 DEF IInv, Typed, NothingAfterDelete, MaybeRole
<1>3. /\ DOMAIN settings = SettingKeys /\ settings["auto_ocr"] \in BOOLEAN \cup {None}
      /\ settings["storage_quota_mb"] \in Quotas \cup {MaxQuota, None}
    BY <1>1 DEF IInv, Typed, Settings
<1>4. \A r \in Requests :
          req[r].op \in {"none", "role", "remove", "accept", "settings", "orphaned"}
    BY <1>1, RequestByOp DEF IInv, Typed
<1>5. QED
    BY <1>2, <1>3, <1>4 DEF TypeOK

\* Every variable keeps its type, a current domain is one that exists.
THEOREM TypeCorrect == Spec => []TypeOK
<1>1. QED
    BY InvTypeOK, InductiveInvariant, PTL

\* The domain has its one owner as long as it lives, whoever adds, removes,
\* invites or leaves at the same time.
THEOREM OwnerStands == Spec => []OneOwner
<1>1. IInv => OneOwner
    BY DEF IInv
<1>2. QED
    BY <1>1, InductiveInvariant, PTL

LEMMA EntersOnceStep ==
    ASSUME IInv, [Next]_vars
    PROVE  EntersOnce
<1>1. SUFFICES ASSUME NEW u \in Users, member[u] = None, member'[u] # None
               PROVE  \E r \in Requests :
                         /\ req[r].op \in {"role", "accept"} /\ req[r].user = u /\ req'[r] = Idle
                         /\ req[r].op = "accept" =>
                               ~invite[req[r].invite].accepted \/ req[r].overtaken
    BY DEF EntersOnce
<1>2. PICK r \in Requests : CommitRole(r) \/ CommitAccept(r)
    \* no other step lets anybody in
    BY <1>1 DEF IInv, Typed, Next, vars, SetMember, RemoveMember, Leave, Begin, Accept, Change,
                UpdateDomain, SettingsSave, CommitRemove, CommitSettings, RollBack, CreateInvite,
                Expire, SetCurrent, DeleteDomain
<1>3. req[r].op \in {"role", "accept"} /\ req[r].user = u
    BY <1>1, <1>2 DEF IInv, Typed, CommitRole, CommitAccept
<1>4. req'[r] = Idle
    BY <1>2 DEF CommitRole, CommitAccept, Done
<1>5. req[r].op = "accept" => ~invite[req[r].invite].accepted \/ req[r].overtaken
    BY DEF IInv, AcceptsUnused
<1>6. QED
    BY <1>3, <1>4, <1>5

\* An invite lets its addressee in once: whoever comes in is added, or
\* accepts an invite not used yet, or accepts it a second time when the second
\* acceptance was under way during the first.
THEOREM InviteLetsInOnce == Spec => InviteLetsInOnceUnlessRaced
<1>1. IInv /\ [Next]_vars => EntersOnce
    BY EntersOnceStep
<1>2. QED
    BY <1>1, InductiveInvariant, PTL DEF Spec, InviteLetsInOnceUnlessRaced

LEMMA SettingChangesStep ==
    ASSUME IInv, [Next]_vars
    PROVE  SettingChanges
<1>1. SUFFICES ASSUME NEW k \in SettingKeys, live', settings'[k] # settings[k]
               PROVE  \E r \in Requests : /\ req[r].op = "settings" /\ req'[r] = Idle
                                          /\ k \in req[r].named \/ req[r].overtaken
    BY DEF SettingChanges
<1>2. PICK r \in Requests : CommitSettings(r)
    \* no other step writes the column of a domain that stays
    BY <1>1 DEF Next, vars, SetMember, RemoveMember, Leave, Begin, Accept, Change, UpdateDomain,
                SettingsSave, CommitRole, CommitRemove, CommitAccept, RollBack, CreateInvite,
                Expire, SetCurrent, DeleteDomain
<1>3. req[r].op = "settings" /\ req'[r] = Idle /\ settings' = req[r].settings
    BY <1>2 DEF CommitSettings, Done
<1>4. k \in req[r].named \/ req[r].overtaken
    BY <1>1, <1>3 DEF IInv, CarriesSettings
<1>5. QED
    BY <1>3, <1>4

\* A setting changes by a request that names it, or by one that overlapped
\* another.
THEOREM SettingsStand == Spec => SettingsStandUnlessRaced
<1>1. IInv /\ [Next]_vars => SettingChanges
    BY SettingChangesStep
<1>2. QED
    BY <1>1, InductiveInvariant, PTL DEF Spec, SettingsStandUnlessRaced

-----------------------------------------------------------------------------
(* Telegram links: the inductive invariant. *)

TgRequest == [op : {"confirm"}, token : Tokens, user : Accounts, tg : Tgs, overtaken : BOOLEAN]

TgTyped ==
    /\ tg \in [Accounts -> Tgs \cup {None}]
    /\ token \in [Tokens -> TG!Rows \cup {None}]
    /\ tgReq \in [Requests -> TgRequest \cup {TG!Idle}]

\* A Telegram id speaks for one account at most.
TgUnique == \A u, w \in Accounts : u # w /\ tg[u] # None => tg[u] # tg[w]

\* A confirmation under way has its token, and takes from it the side that
\* made it.
ConfirmsToken ==
    \A r \in Requests : tgReq[r] # TG!Idle =>
        LET k == tgReq[r].token
        IN  /\ token[k] # None
            /\ IF token[k].by = "bot" THEN token[k].tg = tgReq[r].tg
                                      ELSE token[k].account = tgReq[r].user

\* It read an account that was not linked: one that is now has overtaken it.
ConfirmsUnlinked ==
    \A r \in Requests : tgReq[r] # TG!Idle /\ tg[tgReq[r].user] # None => tgReq[r].overtaken

\* A token names the side that made it.
MadeByOneSide ==
    \A k \in Tokens : token[k] # None =>
        IF token[k].by = "bot" THEN token[k].tg # None ELSE token[k].account # None

TgInv == TgTyped /\ TgUnique /\ TG!LinkedByBoth /\ MadeByOneSide /\ ConfirmsToken
         /\ ConfirmsUnlinked

-----------------------------------------------------------------------------
(* Accounts: the inductive invariant. *)

RegisterRequest == [op : {"register"}, user : Logins, password : Passwords, slug : Nat \ {0},
                    overtaken : BOOLEAN]
LoginRequest == [op : {"login"}, user : Logins, typed : Passwords, rehash : BOOLEAN,
                 verified : BOOLEAN, overtaken : BOOLEAN]
CodeRequest == [op : {"verify", "resend"}, user : Logins, overtaken : BOOLEAN]
PasswordRequest == [op : {"password"}, user : Logins, password : Passwords, overtaken : BOOLEAN]
AccountRequest == {AC!Idle} \cup RegisterRequest \cup LoginRequest \cup CodeRequest
                            \cup PasswordRequest

AccountsTyped ==
    /\ account \in [Logins -> AC!Rows \cup {None}]
    /\ sent \in [Logins -> 0..MaxCodes]
    /\ session \subseteq Logins /\ apiKey \subseteq Logins
    /\ accountReq \in [Requests -> AccountRequest]

AccountsThere == {u \in Logins : AC!Registered(u)}

\* The slugs taken are the first ones, one for each account and each domain of
\* others; a registration has read the first that was free.
SlugsInARow ==
    /\ \E n \in Nat : slugs = 1..n /\ n <= MaxSlugs + Cardinality(AccountsThere)
    /\ \A r \in Requests : accountReq[r].op = "register" =>
           1..(accountReq[r].slug - 1) \subseteq slugs

\* Sessions and keys belong to confirmed accounts.
ConfirmedOnly == \A u \in session \cup apiKey : AC!Registered(u) /\ account[u].verified

\* What a request under way read of its account, unless overtaken, still holds.
LoginStale ==
    \A r \in Requests : accountReq[r].op = "login" =>
        LET q == accountReq[r]
        IN  /\ q.verified => account[q.user].verified
            /\ ~q.verified /\ account[q.user].verified => q.overtaken
            /\ account[q.user].password # q.typed => q.overtaken
ResendStale ==
    \A r \in Requests :
        accountReq[r].op = "resend" /\ account[accountReq[r].user].verified =>
            accountReq[r].overtaken

\* All but registrations are requests of an account that is there.
OfAnAccount ==
    \A r \in Requests : accountReq[r].op \in {"login", "verify", "resend", "password"} =>
        AC!Registered(accountReq[r].user)

AccountsInv == AccountsTyped /\ SlugsInARow /\ ConfirmedOnly /\ OfAnAccount /\ LoginStale
               /\ ResendStale

-----------------------------------------------------------------------------
(* Telegram links: every step keeps the invariant. *)

LEMMA TgConstants == None \notin Accounts /\ None \notin Tgs /\ None \notin TG!Rows
BY AccessAssumption DEF TG!TgLinkAssumption

LEMMA TgInit == TG!Init => TgInv
BY TgConstants DEF TG!Init, TgInv, TgTyped, TgUnique, TG!LinkedByBoth, MadeByOneSide,
                   ConfirmsToken, ConfirmsUnlinked

LEMMA TgNewToken ==
    ASSUME TgInv, NEW k \in Tokens,
           \/ \E t \in Tgs : TG!CreateBotInitiated(k, t)
           \/ \E u \in Accounts : TG!CreateWebInitiated(k, u)
    PROVE  TgInv'
<1>1. PICK row \in TG!Rows :
          /\ TG!NewToken(k, row)
          /\ IF row.by = "bot" THEN row.tg # None ELSE row.account # None
    <2>1. ASSUME NEW t \in Tgs, TG!CreateBotInitiated(k, t)
          PROVE  \E row \in TG!Rows : TG!NewToken(k, row) /\ row.by = "bot" /\ row.tg = t
        <3> DEFINE row == [tg |-> t, account |-> None, by |-> "bot", consumed |-> FALSE,
                           expired |-> FALSE]
        <3>1. row \in TG!Rows /\ row.by = "bot" /\ row.tg = t
            BY DEF TG!Rows
        <3>2. TG!NewToken(k, row)
            BY <2>1 DEF TG!CreateBotInitiated
        <3> QED
            BY <3>1, <3>2
    <2>2. ASSUME NEW u \in Accounts, TG!CreateWebInitiated(k, u)
          PROVE  \E row \in TG!Rows : TG!NewToken(k, row) /\ row.by = "web" /\ row.account = u
        <3> DEFINE row == [tg |-> None, account |-> u, by |-> "web", consumed |-> FALSE,
                           expired |-> FALSE]
        <3>1. row \in TG!Rows /\ row.by = "web" /\ row.account = u
            BY DEF TG!Rows
        <3>2. TG!NewToken(k, row)
            BY <2>2 DEF TG!CreateWebInitiated
        <3> QED
            BY <3>1, <3>2
    <2>3. QED
        BY <2>1, <2>2, TgConstants
<1>2. /\ token[k] = None /\ token' = [token EXCEPT ![k] = row]
      /\ UNCHANGED <<tg, tgReq>>
    BY <1>1 DEF TG!NewToken
<1>3. TgTyped' /\ TgUnique' /\ ConfirmsUnlinked'
    BY <1>2 DEF TgInv, TgTyped, TgUnique, ConfirmsUnlinked
<1>4. TG!LinkedByBoth' /\ MadeByOneSide'
    BY <1>1, <1>2 DEF TgInv, TgTyped, TG!LinkedByBoth, MadeByOneSide
<1>5. ConfirmsToken'
    <2>1. \A r \in Requests : tgReq[r] # TG!Idle => tgReq[r].token \in Tokens \ {k}
        BY <1>2 DEF TgInv, TgTyped, TgRequest, ConfirmsToken
    <2>2. QED
        BY <1>2, <2>1, TgConstants DEF TgInv, TgTyped, ConfirmsToken
<1>6. QED
    BY <1>3, <1>4, <1>5 DEF TgInv

LEMMA TgConfirm ==
    ASSUME TgInv, NEW r \in Requests, NEW k \in Tokens,
           \/ \E u \in Accounts : TG!ConfirmBotInitiated(r, k, u)
           \/ \E t \in Tgs : TG!ConfirmWebInitiated(r, k, t)
    PROVE  TgInv'
<1>1. token[k] # None /\ token[k] \in TG!Rows
    BY DEF TgInv, TgTyped, TG!ConfirmBotInitiated, TG!ConfirmWebInitiated
<1>2. PICK u \in Accounts, t \in Tgs :
          /\ TG!Confirm(r, k, u, t)
          /\ IF token[k].by = "bot" THEN token[k].tg = t ELSE token[k].account = u
    BY <1>1, TgConstants
    DEF TgInv, MadeByOneSide, TG!ConfirmBotInitiated, TG!ConfirmWebInitiated, TG!Rows
<1> DEFINE q == [op |-> "confirm", token |-> k, user |-> u, tg |-> t, overtaken |-> FALSE]
<1>3. /\ tgReq' = [tgReq EXCEPT ![r] = q] /\ tg[u] = None
      /\ UNCHANGED <<tg, token>>
    BY <1>2 DEF TG!Confirm, TG!NotLinked
<1>4. /\ q \in TgRequest
      /\ q.token = k /\ q.user = u /\ q.tg = t
    BY DEF TgRequest
<1> HIDE DEF q
<1>5. TgTyped' /\ TgUnique' /\ TG!LinkedByBoth' /\ MadeByOneSide'
    BY <1>3, <1>4 DEF TgInv, TgTyped, TgUnique, TG!LinkedByBoth, MadeByOneSide
<1>6. ConfirmsToken'
    BY <1>1, <1>2, <1>3, <1>4 DEF TgInv, TgTyped, ConfirmsToken
<1>7. ConfirmsUnlinked'
    BY <1>3, <1>4 DEF TgInv, TgTyped, ConfirmsUnlinked
<1>8. QED
    BY <1>5, <1>6, <1>7 DEF TgInv

\* A commit that is not refused leaves the links of the others, and what bears
\* them out: another's link is to another Telegram id, so its token is not the
\* one consumed.
LEMMA TgCommitConfirm ==
    ASSUME TgInv, NEW r \in Requests, TG!CommitConfirm(r)
    PROVE  TgInv'
<1> DEFINE q == tgReq[r]
           row == token[q.token]
           new == TG!Consumed(r)
<1>1. q \in TgRequest /\ tgReq[r] # TG!Idle
    BY DEF TgInv, TgTyped, TG!CommitConfirm, TG!Idle, TgRequest
<1>2. /\ q.token \in Tokens /\ q.user \in Accounts /\ q.tg \in Tgs
      /\ row # None /\ row \in TG!Rows
      /\ IF row.by = "bot" THEN row.tg = q.tg ELSE row.account = q.user
    BY <1>1 DEF TgInv, TgTyped, ConfirmsToken, TgRequest
<1>3. /\ new \in TG!Rows /\ new.account = q.user /\ new.tg = q.tg /\ new.consumed
      /\ new.by = row.by
    BY <1>2 DEF TG!Consumed, TG!Rows
<1> HIDE DEF new
<1>4. /\ tg' = [tg EXCEPT ![q.user] = q.tg]
      /\ token' = [token EXCEPT ![q.token] = new]
      /\ \A v \in Accounts \ {q.user} : tg[v] # q.tg
    BY DEF TG!CommitConfirm, TG!Refused, new
<1>5. /\ tgReq'[r] = TG!Idle
      /\ tgReq' \in [Requests -> TgRequest \cup {TG!Idle}]
      /\ \A x \in Requests \ {r} : tgReq[x] # TG!Idle =>
            /\ tgReq'[x] # TG!Idle
            /\ tgReq'[x].token = tgReq[x].token /\ tgReq'[x].user = tgReq[x].user
            /\ tgReq'[x].tg = tgReq[x].tg
            /\ IF tgReq[x].token = q.token \/ tgReq[x].user = q.user
               THEN tgReq'[x].overtaken ELSE tgReq'[x].overtaken = tgReq[x].overtaken
      /\ \A x \in Requests : tgReq[x] = TG!Idle => tgReq'[x] = TG!Idle
    <2>1. ASSUME NEW x \in Requests, x # r, tgReq[x] # TG!Idle
          PROVE  [tgReq[x] EXCEPT !.overtaken = TRUE] \in TgRequest
        BY <2>1 DEF TgInv, TgTyped, TgRequest
    <2>2. \A o \in TgRequest : o # TG!Idle
        BY DEF TgRequest, TG!Idle
    <2>3. tgReq' = [x \in Requests |->
                 IF x = r THEN TG!Idle
                 ELSE IF tgReq[x] # TG!Idle /\ (tgReq[x].token = q.token \/ tgReq[x].user = q.user)
                 THEN [tgReq[x] EXCEPT !.overtaken = TRUE] ELSE tgReq[x]]
        BY DEF TG!CommitConfirm
    <2>4. tgReq \in [Requests -> TgRequest \cup {TG!Idle}]
        BY DEF TgInv, TgTyped
    <2>5. ASSUME NEW x \in Requests \ {r}, tgReq[x] # TG!Idle
          PROVE  /\ tgReq'[x] # TG!Idle
                 /\ tgReq'[x].token = tgReq[x].token /\ tgReq'[x].user = tgReq[x].user
                 /\ tgReq'[x].tg = tgReq[x].tg
                 /\ IF tgReq[x].token = q.token \/ tgReq[x].user = q.user
                    THEN tgReq'[x].overtaken ELSE tgReq'[x].overtaken = tgReq[x].overtaken
        BY <2>1, <2>2, <2>3, <2>4, <2>5 DEF TgRequest
    <2>6. tgReq' \in [Requests -> TgRequest \cup {TG!Idle}]
        BY <2>1, <2>3, <2>4
    <2>7. tgReq'[r] = TG!Idle /\ \A x \in Requests : tgReq[x] = TG!Idle => tgReq'[x] = TG!Idle
        BY <2>3
    <2>8. QED
        BY <2>5, <2>6, <2>7
<1> HIDE DEF q, row
<1>6. TgTyped'
    BY <1>2, <1>3, <1>4, <1>5 DEF TgInv, TgTyped
<1>7. TgUnique'
    BY <1>2, <1>4, TgConstants DEF TgInv, TgTyped, TgUnique
<1>8. TG!LinkedByBoth'
    <2>1. SUFFICES ASSUME NEW v \in Accounts, tg'[v] # None
                   PROVE  \E k \in Tokens : /\ token'[k] # None /\ token'[k].consumed
                                            /\ token'[k].account = v /\ token'[k].tg = tg'[v]
        BY DEF TG!LinkedByBoth
    <2>2. CASE v = q.user
        BY <1>2, <1>3, <1>4, <2>2, TgConstants DEF TgInv, TgTyped
    <2>3. CASE v # q.user
        <3>1. tg'[v] = tg[v] /\ tg[v] # q.tg
            BY <1>4, <2>3 DEF TgInv, TgTyped
        <3>2. PICK k \in Tokens : /\ token[k] # None /\ token[k].consumed
                                  /\ token[k].account = v /\ token[k].tg = tg[v]
            BY <2>1, <3>1 DEF TgInv, TG!LinkedByBoth
        <3>3. k # q.token
            BY <1>2, <2>3, <3>1, <3>2 DEF row
        <3>4. token'[k] = token[k]
            BY <1>4, <3>3 DEF TgInv, TgTyped
        <3>5. QED
            BY <3>1, <3>2, <3>4
    <2>4. QED
        BY <2>2, <2>3
<1>9. MadeByOneSide'
    BY <1>2, <1>3, <1>4, TgConstants DEF TgInv, TgTyped, MadeByOneSide
<1>10. ConfirmsToken'
    <2>1. SUFFICES ASSUME NEW x \in Requests, tgReq'[x] # TG!Idle
                   PROVE  LET k == tgReq'[x].token
                          IN  /\ token'[k] # None
                              /\ IF token'[k].by = "bot" THEN token'[k].tg = tgReq'[x].tg
                                                         ELSE token'[k].account = tgReq'[x].user
        BY DEF ConfirmsToken
    <2>2. /\ x # r /\ tgReq[x] # TG!Idle
          /\ tgReq'[x].token = tgReq[x].token /\ tgReq'[x].user = tgReq[x].user
          /\ tgReq'[x].tg = tgReq[x].tg
        BY <1>5, <2>1
    <2>3. /\ tgReq[x].token \in Tokens /\ token[tgReq[x].token] # None
          /\ IF token[tgReq[x].token].by = "bot" THEN token[tgReq[x].token].tg = tgReq[x].tg
             ELSE token[tgReq[x].token].account = tgReq[x].user
        BY <2>2 DEF TgInv, TgTyped, TgRequest, ConfirmsToken
    <2>4. CASE tgReq[x].token = q.token
        BY <1>2, <1>3, <1>4, <2>2, <2>3, <2>4, TgConstants DEF TgInv, TgTyped, row
    <2>5. CASE tgReq[x].token # q.token
        BY <1>4, <2>2, <2>3, <2>5 DEF TgInv, TgTyped
    <2>6. QED
        BY <2>4, <2>5
<1>11. ConfirmsUnlinked'
    BY <1>4, <1>5 DEF TgInv, TgTyped, TgRequest, ConfirmsUnlinked
<1>12. QED
    BY <1>6, <1>7, <1>8, <1>9, <1>10, <1>11 DEF TgInv

LEMMA TgConfirmFails ==
    ASSUME TgInv, NEW r \in Requests, TG!ConfirmFails(r)
    PROVE  TgInv'
<1>1. tgReq' = [tgReq EXCEPT ![r] = TG!Idle] /\ UNCHANGED <<tg, token>>
    BY DEF TG!ConfirmFails
<1>2. TgTyped' /\ TgUnique' /\ TG!LinkedByBoth' /\ MadeByOneSide'
    BY <1>1 DEF TgInv, TgTyped, TgUnique, TG!LinkedByBoth, MadeByOneSide
<1>3. ConfirmsToken' /\ ConfirmsUnlinked'
    BY <1>1 DEF TgInv, TgTyped, ConfirmsToken, ConfirmsUnlinked
<1>4. QED
    BY <1>2, <1>3 DEF TgInv

LEMMA TgUnlink ==
    ASSUME TgInv, NEW u \in Accounts, TG!Unlink(u)
    PROVE  TgInv'
<1>1. tg' = [tg EXCEPT ![u] = None] /\ UNCHANGED <<token, tgReq>>
    BY DEF TG!Unlink
<1>2. TgTyped' /\ TgUnique' /\ TG!LinkedByBoth' /\ MadeByOneSide'
    BY <1>1 DEF TgInv, TgTyped, TgUnique, TG!LinkedByBoth, MadeByOneSide
<1>3. ConfirmsToken' /\ ConfirmsUnlinked'
    BY <1>1 DEF TgInv, TgTyped, ConfirmsToken, ConfirmsUnlinked
<1>4. QED
    BY <1>2, <1>3 DEF TgInv

LEMMA TgExpire ==
    ASSUME TgInv, NEW k \in Tokens, TG!Expire(k)
    PROVE  TgInv'
<1>1. /\ token[k] # None /\ token' = [token EXCEPT ![k].expired = TRUE]
      /\ UNCHANGED <<tg, tgReq>>
    BY DEF TG!Expire
<1> DEFINE new == [token[k] EXCEPT !.expired = TRUE]
<1>2. token[k] \in TG!Rows
    BY <1>1 DEF TgInv, TgTyped
<1>3. /\ new \in TG!Rows /\ new # None /\ new.tg = token[k].tg /\ new.account = token[k].account
      /\ new.by = token[k].by /\ new.consumed = token[k].consumed
    BY <1>2, TgConstants DEF TG!Rows
<1>4. token' = [token EXCEPT ![k] = new]
    BY <1>1
<1> HIDE DEF new
<1>5. TgTyped' /\ TgUnique' /\ ConfirmsUnlinked'
    BY <1>1, <1>3, <1>4 DEF TgInv, TgTyped, TgUnique, ConfirmsUnlinked
<1>6. \A j \in Tokens :
          /\ token'[j] = None <=> token[j] = None
          /\ token[j] # None => /\ token'[j].tg = token[j].tg /\ token'[j].by = token[j].by
                                /\ token'[j].account = token[j].account
                                /\ token'[j].consumed = token[j].consumed
    BY <1>1, <1>3, <1>4 DEF TgInv, TgTyped
<1>7. TG!LinkedByBoth' /\ MadeByOneSide'
    BY <1>1, <1>6 DEF TgInv, TG!LinkedByBoth, MadeByOneSide
<1>8. ConfirmsToken'
    BY <1>1, <1>6 DEF TgInv, TgTyped, TgRequest, ConfirmsToken
<1>9. QED
    BY <1>5, <1>7, <1>8 DEF TgInv

LEMMA TgStutter == TgInv /\ UNCHANGED tgvars => TgInv'
BY DEF tgvars, TgInv, TgTyped, TgUnique, TG!LinkedByBoth, MadeByOneSide, ConfirmsToken,
       ConfirmsUnlinked

LEMMA TgNext == TgInv /\ (TG!Next \/ UNCHANGED tgvars) => TgInv'
BY TgNewToken, TgConfirm, TgCommitConfirm, TgConfirmFails, TgUnlink, TgExpire, TgStutter
DEF TG!Next

\* A confirmation that writes over a link was under way when the link was made.
LEMMA LinkChangesStep == TgInv /\ (TG!Next \/ UNCHANGED tgvars) => TG!LinkChanges
<1>1. SUFFICES ASSUME TgInv, TG!Next \/ UNCHANGED tgvars, NEW u \in Accounts,
                      tg[u] # None, tg'[u] \notin {tg[u], None}
               PROVE  \E r \in Requests :
                         /\ tgReq[r].op = "confirm" /\ tgReq[r].user = u /\ tgReq'[r] = TG!Idle
                         /\ tgReq[r].overtaken
    BY DEF TG!LinkChanges
<1>2. PICK r \in Requests : TG!CommitConfirm(r)
    BY <1>1 DEF TgInv, TgTyped, TG!Next, tgvars, TG!CreateBotInitiated, TG!CreateWebInitiated,
                TG!NewToken, TG!ConfirmBotInitiated, TG!ConfirmWebInitiated, TG!Confirm,
                TG!ConfirmFails, TG!Unlink, TG!Expire
<1>3. tgReq[r].op = "confirm" /\ tgReq[r].user = u /\ tgReq'[r] = TG!Idle
    BY <1>1, <1>2 DEF TgInv, TgTyped, TG!CommitConfirm
<1>4. tgReq[r].overtaken
    BY <1>1, <1>3 DEF TgInv, ConfirmsUnlinked, TG!Idle
<1>5. QED
    BY <1>3, <1>4

-----------------------------------------------------------------------------
(* Accounts: requests and slugs. *)

LEMMA AcConstants ==
    /\ IsFiniteSet(Logins) /\ MaxCodes \in Nat \ {0} /\ MaxSlugs \in Nat
    /\ None \notin 1..MaxCodes /\ None \notin AC!Rows
BY AccessAssumption DEF AC!AccountsAssumption, AC!IsFiniteSet, IsFiniteSet

LEMMA AccountRequestByOp ==
    ASSUME NEW q \in AccountRequest
    PROVE  /\ q.op \in {"none", "register", "login", "verify", "resend", "password"}
           /\ q.op = "none" <=> q = AC!Idle
           /\ q.op = "register" => q \in RegisterRequest
           /\ q.op = "login" => q \in LoginRequest
           /\ q.op \in {"verify", "resend"} => q \in CodeRequest
           /\ q.op = "password" => q \in PasswordRequest
BY DEF AccountRequest, AC!Idle, RegisterRequest, LoginRequest, CodeRequest, PasswordRequest

\* What a commit leaves of the others' requests: those of the same user are
\* overtaken.
Overtaken(o, q) ==
    /\ o \in AccountRequest /\ o.op = q.op /\ o.user = q.user /\ o.overtaken
    /\ q.op = "register" => o.slug = q.slug
    /\ q.op = "login" => o.verified = q.verified /\ o.typed = q.typed

AcMarked(r) ==
    /\ accountReq' \in [Requests -> AccountRequest]
    /\ accountReq'[r] = AC!Idle
    /\ \A x \in Requests \ {r} :
          IF accountReq[x] # AC!Idle /\ accountReq[x].user = accountReq[r].user
          THEN Overtaken(accountReq'[x], accountReq[x])
          ELSE accountReq'[x] = accountReq[x]

LEMMA OvertakingAccount ==
    ASSUME NEW q \in AccountRequest, q # AC!Idle
    PROVE  Overtaken([q EXCEPT !.overtaken = TRUE], q)
<1>1. CASE q.op = "register"
    BY <1>1, AccountRequestByOp DEF AccountRequest, RegisterRequest, Overtaken
<1>2. CASE q.op = "login"
    BY <1>2, AccountRequestByOp DEF AccountRequest, LoginRequest, Overtaken
<1>3. CASE q.op \in {"verify", "resend"}
    BY <1>3, AccountRequestByOp DEF AccountRequest, CodeRequest, Overtaken
<1>4. CASE q.op = "password"
    BY <1>4, AccountRequestByOp DEF AccountRequest, PasswordRequest, Overtaken
<1>5. QED
    BY <1>1, <1>2, <1>3, <1>4, AccountRequestByOp

LEMMA AcMarks ==
    ASSUME AccountsTyped, NEW r \in Requests, AC!Done(r)
    PROVE  AcMarked(r)
<1>1. accountReq' = [x \in Requests |->
          IF x = r THEN AC!Idle
          ELSE IF accountReq[x] # AC!Idle /\ accountReq[x].user = accountReq[r].user
          THEN [accountReq[x] EXCEPT !.overtaken = TRUE] ELSE accountReq[x]]
    BY DEF AC!Done
<1>2. accountReq \in [Requests -> AccountRequest]
    BY DEF AccountsTyped
<1>3. ASSUME NEW x \in Requests \ {r}
      PROVE  IF accountReq[x] # AC!Idle /\ accountReq[x].user = accountReq[r].user
             THEN Overtaken(accountReq'[x], accountReq[x])
             ELSE accountReq'[x] = accountReq[x]
    BY <1>1, <1>2, OvertakingAccount
<1>4. AC!Idle \in AccountRequest
    BY DEF AccountRequest
<1>5. \A x \in Requests : accountReq'[x] \in AccountRequest
    BY <1>1, <1>2, <1>3, <1>4 DEF Overtaken
<1>6. QED
    BY <1>1, <1>3, <1>5 DEF AcMarked

\* unique_slug finds the one after the last.
LEMMA SlugFound ==
    ASSUME NEW n \in Nat, slugs = 1..n
    PROVE  Cardinality(slugs) = n /\ AC!FreeSlug = n + 1
<1>1. Cardinality(slugs) = n
    BY FS_Interval
<1>2. /\ n + 1 \in 1..(n + 1) /\ n + 1 \notin slugs
      /\ \A m \in 1..n : m \in slugs
    OBVIOUS
<1>3. \A k \in 1..(n + 1) : k \notin slugs => k = n + 1
    OBVIOUS
<1>4. AC!FreeSlug = CHOOSE k \in 1..(n + 1) : k \notin slugs /\ \A m \in 1..(k - 1) : m \in slugs
    BY <1>1 DEF AC!FreeSlug, AC!Cardinality, Cardinality
<1>5. \E k \in 1..(n + 1) : k \notin slugs /\ \A m \in 1..(k - 1) : m \in slugs
    BY <1>2
<1>6. AC!FreeSlug \in 1..(n + 1) /\ AC!FreeSlug \notin slugs
    BY <1>4, <1>5
<1>7. QED
    BY <1>1, <1>3, <1>6

-----------------------------------------------------------------------------
(* Accounts: every step keeps the invariant. *)

LEMMA AcInit == AC!Init => AccountsInv
<1>. SUFFICES ASSUME AC!Init PROVE AccountsInv
    OBVIOUS
<1>1. AccountsTyped /\ ConfirmedOnly
    BY AcConstants DEF AC!Init, AccountsTyped, AccountRequest, ConfirmedOnly
<1>2. OfAnAccount /\ LoginStale /\ ResendStale
    BY DEF AC!Init, AC!Idle, OfAnAccount, LoginStale, ResendStale
<1>3. SlugsInARow
    <2>1. AccountsThere = {}
        BY DEF AC!Init, AccountsThere, AC!Registered
    <2>2. Cardinality(AccountsThere) = 0
        BY <2>1, FS_EmptySet
    <2>3. slugs = 1..0 /\ 0 <= MaxSlugs + Cardinality(AccountsThere)
        BY <2>2, AcConstants DEF AC!Init
    <2>4. \A r \in Requests : accountReq[r].op # "register"
        BY DEF AC!Init, AC!Idle
    <2>5. QED
        BY <2>3, <2>4 DEF SlugsInARow
<1>4. QED
    BY <1>1, <1>2, <1>3 DEF AccountsInv

\* A request starts with what its account is now.
LEMMA AcBegins ==
    ASSUME AccountsInv, NEW r \in Requests, NEW q \in AccountRequest, AC!Begin(r, q),
           q.op = "register" => 1..(q.slug - 1) \subseteq slugs,
           q.op \in {"login", "verify", "resend", "password"} => AC!Registered(q.user),
           q.op = "login" => /\ q.verified <=> account[q.user].verified
                             /\ q.typed = account[q.user].password,
           q.op = "resend" => ~account[q.user].verified
    PROVE  AccountsInv'
<1>1. /\ accountReq' = [accountReq EXCEPT ![r] = q]
      /\ UNCHANGED <<account, sent, session, apiKey, slugs>>
    BY DEF AC!Begin
<1>2. AccountsTyped' /\ ConfirmedOnly'
    BY <1>1 DEF AccountsInv, AccountsTyped, ConfirmedOnly, AC!Registered
<1>3. /\ accountReq'[r] = q
      /\ \A x \in Requests \ {r} : accountReq'[x] = accountReq[x]
    BY <1>1 DEF AccountsInv, AccountsTyped
<1>4. SlugsInARow'
    <2>1. AccountsThere' = AccountsThere
        BY <1>1 DEF AccountsThere, AC!Registered
    <2>2. QED
        BY <1>1, <1>3, <2>1 DEF AccountsInv, SlugsInARow
<1>5. OfAnAccount'
    BY <1>1, <1>3 DEF AccountsInv, OfAnAccount, AC!Registered
<1>6. LoginStale'
    BY <1>1, <1>3 DEF AccountsInv, LoginStale
<1>7. ResendStale'
    BY <1>1, <1>3 DEF AccountsInv, ResendStale
<1>8. QED
    BY <1>2, <1>4, <1>5, <1>6, <1>7 DEF AccountsInv

LEMMA AcRegister ==
    ASSUME AccountsInv, NEW r \in Requests, NEW u \in Logins, NEW p \in Passwords,
           AC!Register(r, u, p)
    PROVE  AccountsInv'
<1> DEFINE q == [op |-> "register", user |-> u, password |-> p, slug |-> AC!FreeSlug,
                 overtaken |-> FALSE]
<1>1. AC!Begin(r, q)
    BY DEF AC!Register
<1>2. PICK n \in Nat : slugs = 1..n
    BY DEF AccountsInv, SlugsInARow
<1>3. AC!FreeSlug = n + 1
    BY <1>2, SlugFound
<1>4. q \in RegisterRequest /\ q.op = "register" /\ q.slug = n + 1
    BY <1>3 DEF RegisterRequest
<1> HIDE DEF q
<1>5. QED
    BY <1>1, <1>2, <1>4, AcBegins DEF AccountRequest

LEMMA AcAuthenticate ==
    ASSUME AccountsInv, NEW r \in Requests, NEW u \in Logins, NEW p \in Passwords,
           AC!Authenticate(r, u, p)
    PROVE  AccountsInv'
<1> DEFINE q == [op |-> "login", user |-> u, typed |-> p, rehash |-> account[u].outdated,
                 verified |-> account[u].verified, overtaken |-> FALSE]
<1>1. AC!Begin(r, q) /\ AC!Registered(u) /\ account[u].password = p
    BY DEF AC!Authenticate, AC!PasswordGood
<1>2. account[u] \in AC!Rows
    BY <1>1 DEF AccountsInv, AccountsTyped, AC!Registered
<1>3. /\ q \in LoginRequest /\ q.op = "login" /\ q.user = u
      /\ q.verified = account[u].verified /\ q.typed = p
    BY <1>2 DEF LoginRequest, AC!Rows
<1> HIDE DEF q
<1>4. QED
    BY <1>1, <1>3, AcBegins DEF AccountRequest

LEMMA AcOthers ==
    ASSUME AccountsInv, NEW r \in Requests, NEW u \in Logins,
           \/ \E code \in 1..MaxCodes : AC!VerifyCode(r, u, code)
           \/ AC!VerifyResend(r, u)
           \/ \E p, new \in Passwords : AC!ChangePassword(r, u, p, new)
    PROVE  AccountsInv'
<1>1. ASSUME NEW code \in 1..MaxCodes, AC!VerifyCode(r, u, code)
      PROVE  AccountsInv'
    <2> DEFINE q == [op |-> "verify", user |-> u, overtaken |-> FALSE]
    <2>1. AC!Begin(r, q) /\ AC!Registered(u)
        BY <1>1 DEF AC!VerifyCode, AC!CodeGood
    <2>2. q \in CodeRequest /\ q.op = "verify" /\ q.user = u
        BY DEF CodeRequest
    <2> HIDE DEF q
    <2>3. QED
        BY <2>1, <2>2, AcBegins DEF AccountRequest
<1>2. ASSUME AC!VerifyResend(r, u)
      PROVE  AccountsInv'
    <2> DEFINE q == [op |-> "resend", user |-> u, overtaken |-> FALSE]
    <2>1. AC!Begin(r, q) /\ AC!Registered(u) /\ ~account[u].verified
        BY <1>2 DEF AC!VerifyResend
    <2>2. q \in CodeRequest /\ q.op = "resend" /\ q.user = u
        BY DEF CodeRequest
    <2> HIDE DEF q
    <2>3. QED
        BY <2>1, <2>2, AcBegins DEF AccountRequest
<1>3. ASSUME NEW p \in Passwords, NEW new \in Passwords, AC!ChangePassword(r, u, p, new)
      PROVE  AccountsInv'
    <2> DEFINE q == [op |-> "password", user |-> u, password |-> new, overtaken |-> FALSE]
    <2>1. AC!Begin(r, q) /\ AC!Registered(u)
        BY <1>3 DEF AC!ChangePassword, AC!SignedIn
    <2>2. q \in PasswordRequest /\ q.op = "password" /\ q.user = u
        BY DEF PasswordRequest
    <2> HIDE DEF q
    <2>3. QED
        BY <2>1, <2>2, AcBegins DEF AccountRequest
<1>4. QED
    BY <1>1, <1>2, <1>3

\* The account and the others' requests after a commit for an account that is
\* there: what they had read may be out of date, so they are overtaken.
LEMMA AcCommits ==
    ASSUME AccountsInv, NEW r \in Requests, NEW u \in Logins, NEW row \in AC!Rows,
           accountReq[r] # AC!Idle, accountReq[r].user = u, AcMarked(r),
           account[u] # None, account' = [account EXCEPT ![u] = row],
           account[u].verified => row.verified,
           sent' \in [Logins -> 0..MaxCodes],
           session' \subseteq session \cup (IF row.verified THEN {u} ELSE {}),
           UNCHANGED <<apiKey, slugs>>
    PROVE  AccountsInv'
<1>1. /\ account \in [Logins -> AC!Rows \cup {None}] /\ row # None
      /\ account'[u] = row
      /\ \A w \in Logins \ {u} : account'[w] = account[w]
    BY AcConstants DEF AccountsInv, AccountsTyped
<1>2. AccountsTyped'
    BY <1>1 DEF AccountsInv, AccountsTyped, AcMarked
<1>3. \A w \in Logins : AC!Registered(w)' <=> AC!Registered(w)
    BY <1>1 DEF AC!Registered
<1>4. SlugsInARow'
    <2>1. AccountsThere' = AccountsThere
        BY <1>3 DEF AccountsThere
    <2>2. \A x \in Requests : accountReq'[x].op = "register" =>
              accountReq[x].op = "register" /\ accountReq'[x].slug = accountReq[x].slug
        BY DEF AcMarked, Overtaken, AC!Idle
    <2>3. QED
        BY <2>1, <2>2 DEF AccountsInv, SlugsInARow
<1>5. ConfirmedOnly'
    <2>1. SUFFICES ASSUME NEW w \in session' \cup apiKey'
                   PROVE  account'[w] # None /\ account'[w].verified
        BY DEF ConfirmedOnly, AC!Registered
    <2>2. CASE w = u
        <3>1. row.verified
            BY <2>1, <2>2 DEF AccountsInv, ConfirmedOnly
        <3>2. QED
            BY <1>1, <2>2, <3>1
    <2>3. CASE w # u
        <3>1. w \in session \cup apiKey /\ w \in Logins
            BY <2>1, <2>3 DEF AccountsInv, AccountsTyped
        <3>2. account[w] # None /\ account[w].verified
            BY <3>1 DEF AccountsInv, ConfirmedOnly, AC!Registered
        <3>3. QED
            BY <1>1, <2>3, <3>1, <3>2
    <2>4. QED
        BY <2>2, <2>3
<1>6. \A x \in Requests : accountReq'[x].op # "none" =>
          /\ accountReq'[x].op = accountReq[x].op /\ accountReq'[x].user = accountReq[x].user
          /\ accountReq'[x].user \in Logins
          /\ accountReq[x].op = "login" => /\ accountReq'[x].verified = accountReq[x].verified
                                          /\ accountReq'[x].typed = accountReq[x].typed
          /\ IF accountReq[x].user = u THEN accountReq'[x].overtaken
                                       ELSE accountReq'[x].overtaken = accountReq[x].overtaken
    <2>1. SUFFICES ASSUME NEW x \in Requests, accountReq'[x].op # "none"
                   PROVE  /\ accountReq'[x].op = accountReq[x].op /\ accountReq'[x].user = accountReq[x].user
                          /\ accountReq'[x].user \in Logins
                          /\ accountReq[x].op = "login" =>
                                /\ accountReq'[x].verified = accountReq[x].verified
                                /\ accountReq'[x].typed = accountReq[x].typed
                          /\ IF accountReq[x].user = u THEN accountReq'[x].overtaken
                             ELSE accountReq'[x].overtaken = accountReq[x].overtaken
        OBVIOUS
    <2>2. x # r /\ accountReq'[x] \in AccountRequest
        BY <2>1 DEF AcMarked, AC!Idle
    <2>3. accountReq'[x].user \in Logins
        BY <2>1, <2>2, AccountRequestByOp
        DEF RegisterRequest, LoginRequest, CodeRequest, PasswordRequest
    <2>4. CASE accountReq[x] = AC!Idle
        BY <2>1, <2>2, <2>4 DEF AcMarked, AC!Idle
    <2>5. CASE accountReq[x] # AC!Idle
        BY <2>2, <2>3, <2>5 DEF AcMarked, Overtaken
    <2>6. QED
        BY <2>4, <2>5
<1>7. OfAnAccount'
    BY <1>3, <1>6 DEF AccountsInv, OfAnAccount
<1>8. LoginStale'
    BY <1>1, <1>6 DEF AccountsInv, LoginStale
<1>9. ResendStale'
    BY <1>1, <1>6 DEF AccountsInv, ResendStale
<1>10. QED
    BY <1>2, <1>4, <1>5, <1>7, <1>8, <1>9 DEF AccountsInv

\* The commits for an account that is there.
LEMMA AcLogin ==
    ASSUME AccountsInv, NEW r \in Requests,
           AC!Login(r) \/ AC!WebLoginUnverified(r)
    PROVE  AccountsInv'
<1> DEFINE q == accountReq[r]
           u == q.user
<1>1. q \in LoginRequest /\ q.op = "login" /\ q # AC!Idle
    BY AccountRequestByOp DEF AccountsInv, AccountsTyped, AC!Login, AC!WebLoginUnverified
<1>2. u \in Logins /\ account[u] # None /\ account[u] \in AC!Rows
    BY <1>1 DEF AccountsInv, AccountsTyped, OfAnAccount, AC!Registered, LoginRequest
<1>3. /\ AC!Rehashed(r) \in AC!Rows
      /\ AC!Rehashed(r).verified = account[u].verified
    BY <1>1, <1>2 DEF AC!Rehashed, AC!User, AC!Rows, LoginRequest
<1>4. q.verified => account[u].verified
    BY <1>1 DEF AccountsInv, LoginStale
<1>5. AcMarked(r)
    BY AcMarks DEF AccountsInv, AC!Login, AC!WebLoginUnverified
<1>6. CASE AC!Login(r)
    <2>1. /\ account' = [account EXCEPT ![u] = AC!Rehashed(r)]
          /\ session' = session \cup {u} /\ q.verified
          /\ UNCHANGED <<sent, apiKey, slugs>>
        BY <1>6 DEF AC!Login, AC!User
    <2>2. QED
        BY <1>1, <1>2, <1>3, <1>4, <1>5, <2>1, AcCommits DEF AccountsInv, AccountsTyped
<1>7. CASE AC!WebLoginUnverified(r)
    <2> DEFINE row == [AC!Rehashed(r) EXCEPT !.code = sent[u] + 1, !.lapsed = FALSE]
    <2>1. /\ account' = [account EXCEPT ![u] = row]
          /\ sent' = [sent EXCEPT ![u] = @ + 1] /\ sent[u] < MaxCodes
          /\ UNCHANGED <<session, apiKey, slugs>>
        BY <1>7 DEF AC!WebLoginUnverified, AC!User
    <2>2. sent[u] + 1 \in 1..MaxCodes /\ sent' \in [Logins -> 0..MaxCodes]
        BY <1>2, <2>1, AcConstants DEF AccountsInv, AccountsTyped
    <2>3. row \in AC!Rows /\ row.verified = account[u].verified
        BY <1>3, <2>2 DEF AC!Rows
    <2> HIDE DEF row
    <2>4. QED
        BY <1>1, <1>2, <1>5, <2>1, <2>2, <2>3, AcCommits
<1>8. QED
    BY <1>6, <1>7

LEMMA AcCommitVerify ==
    ASSUME AccountsInv, NEW r \in Requests, AC!CommitVerify(r)
    PROVE  AccountsInv'
<1> DEFINE u == accountReq[r].user
           row == AC!Confirmed(account[u])
<1>1. accountReq[r] \in CodeRequest /\ accountReq[r].op = "verify" /\ accountReq[r] # AC!Idle
    BY AccountRequestByOp DEF AccountsInv, AccountsTyped, AC!CommitVerify
<1>2. u \in Logins /\ account[u] # None /\ account[u] \in AC!Rows
    BY <1>1 DEF AccountsInv, AccountsTyped, OfAnAccount, AC!Registered, CodeRequest
<1>3. row \in AC!Rows /\ row.verified
    BY <1>2 DEF AC!Confirmed, AC!Rows
<1> HIDE DEF row
<1>4. /\ account' = [account EXCEPT ![u] = row]
      /\ session' = session \cup {u}
      /\ UNCHANGED <<sent, apiKey, slugs>>
    BY DEF AC!CommitVerify, AC!User, row
<1>5. AcMarked(r)
    BY AcMarks DEF AccountsInv, AC!CommitVerify
<1>6. QED
    BY <1>1, <1>2, <1>3, <1>4, <1>5, AcCommits DEF AccountsInv, AccountsTyped

LEMMA AcCommitResend ==
    ASSUME AccountsInv, NEW r \in Requests, AC!CommitResend(r)
    PROVE  AccountsInv'
<1> DEFINE u == accountReq[r].user
           row == [account[u] EXCEPT !.code = sent[u] + 1, !.lapsed = FALSE]
<1>1. accountReq[r] \in CodeRequest /\ accountReq[r].op = "resend" /\ accountReq[r] # AC!Idle
    BY AccountRequestByOp DEF AccountsInv, AccountsTyped, AC!CommitResend
<1>2. u \in Logins /\ account[u] # None /\ account[u] \in AC!Rows
    BY <1>1 DEF AccountsInv, AccountsTyped, OfAnAccount, AC!Registered, CodeRequest
<1>3. /\ account' = [account EXCEPT ![u] = row]
      /\ sent' = [sent EXCEPT ![u] = @ + 1] /\ sent[u] < MaxCodes
      /\ UNCHANGED <<session, apiKey, slugs>>
    BY <1>2 DEF AC!CommitResend, AC!User, AccountsInv, AccountsTyped
<1>4. sent[u] + 1 \in 1..MaxCodes /\ sent' \in [Logins -> 0..MaxCodes]
    BY <1>2, <1>3, AcConstants DEF AccountsInv, AccountsTyped
<1>5. row \in AC!Rows /\ row.verified = account[u].verified
    BY <1>2, <1>4 DEF AC!Rows
<1> HIDE DEF row
<1>6. AcMarked(r)
    BY AcMarks DEF AccountsInv, AC!CommitResend
<1>7. QED
    BY <1>1, <1>2, <1>3, <1>4, <1>5, <1>6, AcCommits

LEMMA AcCommitPassword ==
    ASSUME AccountsInv, NEW r \in Requests, AC!CommitPassword(r)
    PROVE  AccountsInv'
<1> DEFINE u == accountReq[r].user
           row == [account[u] EXCEPT !.password = accountReq[r].password, !.outdated = FALSE]
<1>1. /\ accountReq[r] \in PasswordRequest /\ accountReq[r].op = "password"
      /\ accountReq[r] # AC!Idle
    BY AccountRequestByOp DEF AccountsInv, AccountsTyped, AC!CommitPassword
<1>2. u \in Logins /\ account[u] # None /\ account[u] \in AC!Rows
    BY <1>1 DEF AccountsInv, AccountsTyped, OfAnAccount, AC!Registered, PasswordRequest
<1>3. /\ account' = [account EXCEPT ![u] = row]
      /\ UNCHANGED <<sent, session, apiKey, slugs>>
    BY <1>2 DEF AC!CommitPassword, AC!User, AccountsInv, AccountsTyped
<1>4. row \in AC!Rows /\ row.verified = account[u].verified
    BY <1>1, <1>2 DEF AC!Rows, PasswordRequest
<1> HIDE DEF row
<1>5. AcMarked(r)
    BY AcMarks DEF AccountsInv, AC!CommitPassword
<1>6. QED
    BY <1>1, <1>2, <1>3, <1>4, <1>5, AcCommits DEF AccountsInv, AccountsTyped

\* A new account: nothing was known of it, so only the slug, which is the next
\* one, and the number of accounts change.
LEMMA AcCommitRegister ==
    ASSUME AccountsInv, NEW r \in Requests, AC!CommitRegister(r)
    PROVE  AccountsInv'
<1> DEFINE q == accountReq[r]
           u == q.user
           row == [verified |-> FALSE, code |-> sent[u] + 1, lapsed |-> FALSE,
                   password |-> q.password, outdated |-> FALSE]
<1>1. q \in RegisterRequest /\ q.op = "register" /\ q # AC!Idle /\ u \in Logins
    BY AccountRequestByOp DEF AccountsInv, AccountsTyped, AC!CommitRegister, RegisterRequest
<1>2. /\ account[u] = None /\ q.slug \notin slugs /\ sent[u] < MaxCodes
      /\ account' = [account EXCEPT ![u] = row]
      /\ sent' = [sent EXCEPT ![u] = @ + 1]
      /\ slugs' = slugs \cup {q.slug}
      /\ UNCHANGED <<session, apiKey>>
    BY DEF AC!CommitRegister, AC!Taken, AC!User, AC!Registered, AC!SessionsAfterRegister
<1>3. sent[u] + 1 \in 1..MaxCodes /\ sent' \in [Logins -> 0..MaxCodes]
    BY <1>1, <1>2, AcConstants DEF AccountsInv, AccountsTyped
<1>4. row \in AC!Rows /\ ~row.verified
    BY <1>1, <1>3 DEF AC!Rows, RegisterRequest
<1> HIDE DEF row
<1>5. /\ account' \in [Logins -> AC!Rows \cup {None}] /\ account'[u] = row /\ row # None
      /\ \A w \in Logins \ {u} : account'[w] = account[w]
    BY <1>1, <1>2, <1>4, AcConstants DEF AccountsInv, AccountsTyped
<1>6. AcMarked(r)
    BY AcMarks DEF AccountsInv, AC!CommitRegister
<1>7. AccountsTyped'
    BY <1>2, <1>3, <1>5, <1>6 DEF AccountsInv, AccountsTyped, AcMarked
<1>8. u \notin session \cup apiKey
    BY <1>2 DEF AccountsInv, ConfirmedOnly, AC!Registered
<1>9. ConfirmedOnly'
    BY <1>2, <1>5, <1>8 DEF AccountsInv, AccountsTyped, ConfirmedOnly, AC!Registered
<1>10. \A x \in Requests : accountReq[x].op \in {"login", "verify", "resend", "password"} =>
           accountReq[x].user \in Logins \ {u} /\ account[accountReq[x].user] # None
    BY <1>2, AccountRequestByOp
    DEF AccountsInv, AccountsTyped, OfAnAccount, AC!Registered, LoginRequest, CodeRequest,
        PasswordRequest
<1>11. \A x \in Requests :
          accountReq'[x].op \in {"login", "verify", "resend", "password"} =>
              accountReq'[x] = accountReq[x]
    BY <1>6, <1>10 DEF AcMarked, AC!Idle, Overtaken
<1>12. OfAnAccount' /\ LoginStale' /\ ResendStale'
    <2>1. OfAnAccount'
        BY <1>5, <1>10, <1>11 DEF OfAnAccount, AC!Registered
    <2>2. LoginStale'
        BY <1>5, <1>10, <1>11 DEF AccountsInv, LoginStale
    <2>3. ResendStale'
        BY <1>5, <1>10, <1>11 DEF AccountsInv, ResendStale
    <2>4. QED
        BY <2>1, <2>2, <2>3
<1>13. SlugsInARow'
    <2>1. PICK n \in Nat : slugs = 1..n /\ n <= MaxSlugs + Cardinality(AccountsThere)
        BY DEF AccountsInv, SlugsInARow
    <2>2. q.slug \in Nat \ {0} /\ 1..(q.slug - 1) \subseteq slugs
        BY <1>1 DEF AccountsInv, SlugsInARow, RegisterRequest
    <2>3. q.slug = n + 1
        <3>1. q.slug > n
            BY <1>2, <2>1, <2>2
        <3>2. CASE q.slug > n + 1
            <4>1. n + 1 \in 1..(q.slug - 1)
                BY <2>1, <2>2, <3>2
            <4>2. QED
                BY <2>1, <2>2, <4>1
        <3>3. QED
            BY <2>1, <2>2, <3>1, <3>2
    <2>4. slugs' = 1..(n + 1)
        BY <1>2, <2>1, <2>3
    <2>5. AccountsThere' = AccountsThere \cup {u} /\ u \notin AccountsThere
        BY <1>1, <1>2, <1>5 DEF AccountsThere, AC!Registered
    <2>6. IsFiniteSet(AccountsThere)
        BY AcConstants, FS_Subset DEF AccountsThere
    <2>7. Cardinality(AccountsThere') = Cardinality(AccountsThere) + 1
        BY <2>5, <2>6, FS_AddElement
    <2>8. Cardinality(AccountsThere) \in Nat
        BY <2>6, FS_CardinalityType
    <2>9. n + 1 <= MaxSlugs + Cardinality(AccountsThere')
        BY <2>1, <2>7, <2>8, AcConstants
    <2>10. \A x \in Requests : accountReq'[x].op = "register" =>
               accountReq[x].op = "register" /\ accountReq'[x].slug = accountReq[x].slug
        BY <1>6 DEF AcMarked, Overtaken, AC!Idle
    <2>11. \A x \in Requests : accountReq'[x].op = "register" =>
               1..(accountReq'[x].slug - 1) \subseteq slugs'
        BY <1>2, <2>10 DEF AccountsInv, SlugsInARow
    <2>12. QED
        BY <2>1, <2>4, <2>9, <2>11 DEF SlugsInARow
<1>14. QED
    BY <1>7, <1>9, <1>12, <1>13 DEF AccountsInv

\* A request that fails leaves everything as it is.
LEMMA AcFails ==
    ASSUME AccountsInv, NEW r \in Requests, AC!RegisterFails(r) \/ AC!ApiLoginUnverified(r)
    PROVE  AccountsInv'
<1>1. /\ accountReq' = [accountReq EXCEPT ![r] = AC!Idle]
      /\ UNCHANGED <<account, sent, session, apiKey, slugs>>
    BY DEF AC!RegisterFails, AC!ApiLoginUnverified
<1>2. accountReq' \in [Requests -> AccountRequest]
    BY <1>1 DEF AccountsInv, AccountsTyped, AccountRequest
<1>3. \A x \in Requests : accountReq'[x] = AC!Idle \/ accountReq'[x] = accountReq[x]
    BY <1>1 DEF AccountsInv, AccountsTyped
<1>4. AccountsTyped' /\ ConfirmedOnly'
    BY <1>1, <1>2 DEF AccountsInv, AccountsTyped, ConfirmedOnly, AC!Registered
<1>5. AccountsThere' = AccountsThere
    BY <1>1 DEF AccountsThere, AC!Registered
<1>6. SlugsInARow'
    BY <1>1, <1>3, <1>5 DEF AccountsInv, SlugsInARow, AC!Idle
<1>7. OfAnAccount' /\ LoginStale' /\ ResendStale'
    BY <1>1, <1>3 DEF AccountsInv, OfAnAccount, LoginStale, ResendStale, AC!Registered, AC!Idle
<1>8. QED
    BY <1>4, <1>6, <1>7 DEF AccountsInv

LEMMA AcOthersRegister ==
    ASSUME AccountsInv, AC!OthersRegister
    PROVE  AccountsInv'
<1>1. PICK n \in Nat : slugs = 1..n /\ n <= MaxSlugs + Cardinality(AccountsThere)
    BY DEF AccountsInv, SlugsInARow
<1>2. /\ n < MaxSlugs /\ slugs' = 1..(n + 1)
      /\ UNCHANGED <<account, sent, session, apiKey, accountReq>>
    <2>1. Cardinality(slugs) = n /\ AC!FreeSlug = n + 1
        BY <1>1, SlugFound
    <2>2. /\ Cardinality(slugs) < MaxSlugs /\ slugs' = slugs \cup {n + 1}
          /\ UNCHANGED <<account, sent, session, apiKey, accountReq>>
        BY <2>1 DEF AC!OthersRegister, AC!Cardinality, Cardinality
    <2>3. QED
        BY <1>1, <2>1, <2>2
<1>3. SlugsInARow'
    <2>1. AccountsThere' = AccountsThere
        BY <1>2 DEF AccountsThere, AC!Registered
    <2>2. IsFiniteSet(AccountsThere)
        BY AcConstants, FS_Subset DEF AccountsThere
    <2>3. Cardinality(AccountsThere') \in Nat
        BY <2>1, <2>2, FS_CardinalityType
    <2>4. n + 1 <= MaxSlugs + Cardinality(AccountsThere')
        BY <1>2, <2>3, AcConstants
    <2>5. slugs \subseteq slugs'
        BY <1>1, <1>2
    <2>6. QED
        BY <1>2, <2>4, <2>5 DEF AccountsInv, SlugsInARow
<1>4. AccountsTyped' /\ ConfirmedOnly' /\ OfAnAccount' /\ LoginStale' /\ ResendStale'
    BY <1>2 DEF AccountsInv, AccountsTyped, ConfirmedOnly, OfAnAccount, LoginStale, ResendStale,
                AC!Registered
<1>5. QED
    BY <1>3, <1>4 DEF AccountsInv

\* Keys and sessions: made by who is signed in, so confirmed.
LEMMA AcSessions ==
    ASSUME AccountsInv, NEW u \in Logins,
           AC!CreateApiKey(u) \/ AC!RevokeApiKey(u) \/ AC!Logout(u)
    PROVE  AccountsInv'
<1>1. /\ session' \cup apiKey' \subseteq session \cup apiKey
      /\ session' \subseteq Logins /\ apiKey' \subseteq Logins
      /\ UNCHANGED <<account, sent, slugs, accountReq>>
    BY DEF AccountsInv, AccountsTyped, AC!CreateApiKey, AC!RevokeApiKey, AC!Logout, AC!SignedIn
<1>2. AccountsThere' = AccountsThere
    BY <1>1 DEF AccountsThere, AC!Registered
<1>3. QED
    BY <1>1, <1>2 DEF AccountsInv, AccountsTyped, SlugsInARow, ConfirmedOnly, OfAnAccount,
                      LoginStale, ResendStale, AC!Registered

LEMMA AcTime ==
    ASSUME AccountsInv, NEW u \in Logins, AC!CodeLapses(u) \/ AC!HashOutdated(u)
    PROVE  AccountsInv'
<1>1. account[u] # None /\ account[u] \in AC!Rows
    BY DEF AccountsInv, AccountsTyped, AC!CodeLapses, AC!HashOutdated, AC!Registered
<1>2. PICK row \in AC!Rows :
          /\ row.verified = account[u].verified /\ row.password = account[u].password
          /\ row.code = account[u].code
          /\ account' = [account EXCEPT ![u] = row]
    <2>1. CASE AC!CodeLapses(u)
        <3> DEFINE row == [account[u] EXCEPT !.lapsed = TRUE]
        <3>1. row \in AC!Rows /\ row.verified = account[u].verified
              /\ row.password = account[u].password /\ row.code = account[u].code
            BY <1>1 DEF AC!Rows
        <3>2. account' = [account EXCEPT ![u] = row]
            BY <2>1 DEF AC!CodeLapses
        <3>3. QED
            BY <3>1, <3>2
    <2>2. CASE AC!HashOutdated(u)
        <3> DEFINE row == [account[u] EXCEPT !.outdated = TRUE]
        <3>1. row \in AC!Rows /\ row.verified = account[u].verified
              /\ row.password = account[u].password /\ row.code = account[u].code
            BY <1>1 DEF AC!Rows
        <3>2. account' = [account EXCEPT ![u] = row]
            BY <2>2 DEF AC!HashOutdated
        <3>3. QED
            BY <3>1, <3>2
    <2>3. QED
        BY <2>1, <2>2
<1>3. UNCHANGED <<sent, session, apiKey, slugs, accountReq>>
    BY DEF AC!CodeLapses, AC!HashOutdated
<1>4. /\ account' \in [Logins -> AC!Rows \cup {None}]
      /\ \A w \in Logins : account'[w] = None <=> account[w] = None
      /\ \A w \in Logins : account'[w].verified = account[w].verified
      /\ \A w \in Logins : account'[w].password = account[w].password
    BY <1>1, <1>2, AcConstants DEF AccountsInv, AccountsTyped
<1>5. \A x \in Requests : accountReq[x].op # "none" => accountReq[x].user \in Logins
    BY AccountRequestByOp
    DEF AccountsInv, AccountsTyped, RegisterRequest, LoginRequest, CodeRequest, PasswordRequest
<1>6. \A w \in Logins : AC!Registered(w)' <=> AC!Registered(w)
    BY <1>4 DEF AC!Registered
<1>7. AccountsTyped' /\ SlugsInARow'
    <2>1. AccountsThere' = AccountsThere
        BY <1>6 DEF AccountsThere
    <2>2. QED
        BY <1>3, <1>4, <2>1 DEF AccountsInv, AccountsTyped, SlugsInARow
<1>8. ConfirmedOnly'
    <2>1. \A w \in session \cup apiKey : w \in Logins /\ account[w] # None /\ account[w].verified
        BY DEF AccountsInv, AccountsTyped, ConfirmedOnly, AC!Registered
    <2>2. \A w \in session' \cup apiKey' : account'[w] # None /\ account'[w].verified
        BY <1>3, <1>4, <2>1
    <2>3. QED
        BY <2>2 DEF ConfirmedOnly, AC!Registered
<1>9. OfAnAccount'
    BY <1>3, <1>4, <1>5 DEF AccountsInv, OfAnAccount, AC!Registered
<1>10. LoginStale'
    <2>1. SUFFICES ASSUME NEW x \in Requests, accountReq[x].op = "login"
                   PROVE  LET q == accountReq[x]
                          IN  /\ q.verified => account'[q.user].verified
                              /\ ~q.verified /\ account'[q.user].verified => q.overtaken
                              /\ account'[q.user].password # q.typed => q.overtaken
        BY <1>3 DEF LoginStale
    <2>2. /\ account'[accountReq[x].user].verified = account[accountReq[x].user].verified
          /\ account'[accountReq[x].user].password = account[accountReq[x].user].password
        BY <1>4, <1>5, <2>1
    <2>3. QED
        BY <2>1, <2>2 DEF AccountsInv, LoginStale
<1>11. ResendStale'
    BY <1>3, <1>4, <1>5 DEF AccountsInv, ResendStale
<1>12. QED
    BY <1>7, <1>8, <1>9, <1>10, <1>11 DEF AccountsInv

LEMMA AcStutter == AccountsInv /\ UNCHANGED acvars => AccountsInv'
<1>1. UNCHANGED acvars => AccountsThere' = AccountsThere
    BY DEF acvars, AccountsThere, AC!Registered
<1>2. QED
    BY <1>1 DEF acvars, AccountsInv, AccountsTyped, SlugsInARow, ConfirmedOnly, OfAnAccount,
                LoginStale, ResendStale, AC!Registered

LEMMA AcNext == AccountsInv /\ (AC!Next \/ UNCHANGED acvars) => AccountsInv'
BY AcRegister, AcAuthenticate, AcOthers, AcLogin, AcCommitVerify, AcCommitResend,
   AcCommitPassword, AcCommitRegister, AcFails, AcOthersRegister, AcSessions, AcTime, AcStutter
DEF AC!Next

-----------------------------------------------------------------------------
(* Accounts: what a step may do to a row. *)

\* The requests that write the account they are of.
WritesAccount(r) ==
    AC!Login(r) \/ AC!WebLoginUnverified(r) \/ AC!CommitVerify(r) \/ AC!CommitResend(r)
    \/ AC!CommitPassword(r)

\* A step that changes a row is such a request of that account, or time.
LEMMA RowChanges ==
    ASSUME AccountsInv, AC!Next \/ UNCHANGED acvars, NEW u \in Logins, AC!Registered(u)
    PROVE  \/ account'[u] = account[u]
           \/ AC!CodeLapses(u) \/ AC!HashOutdated(u)
           \/ \E r \in Requests : WritesAccount(r) /\ accountReq[r].user = u
<1>1. SUFFICES ASSUME account'[u] # account[u]
               PROVE  \/ AC!CodeLapses(u) \/ AC!HashOutdated(u)
                      \/ \E r \in Requests : WritesAccount(r) /\ accountReq[r].user = u
    OBVIOUS
<1>2. \/ \E w \in Logins : AC!CodeLapses(w) \/ AC!HashOutdated(w)
      \/ \E r \in Requests : WritesAccount(r) \/ AC!CommitRegister(r)
    BY <1>1 DEF AC!Next, acvars, WritesAccount, AC!Register, AC!Authenticate, AC!ChangePassword,
                AC!VerifyCode, AC!VerifyResend, AC!Begin, AC!RegisterFails, AC!ApiLoginUnverified,
                AC!CreateApiKey, AC!RevokeApiKey, AC!Logout, AC!OthersRegister
<1>3. ASSUME NEW w \in Logins, AC!CodeLapses(w) \/ AC!HashOutdated(w)
      PROVE  w = u
    BY <1>1, <1>3 DEF AccountsInv, AccountsTyped, AC!CodeLapses, AC!HashOutdated
<1>4. ASSUME NEW r \in Requests, WritesAccount(r)
      PROVE  accountReq[r].user = u
    BY <1>1, <1>4
    DEF AccountsInv, AccountsTyped, WritesAccount, AC!Login, AC!WebLoginUnverified,
        AC!CommitVerify, AC!CommitResend, AC!CommitPassword, AC!User
<1>5. ASSUME NEW r \in Requests, AC!CommitRegister(r)
      PROVE  FALSE
    BY <1>1, <1>5
    DEF AccountsInv, AccountsTyped, AC!CommitRegister, AC!Taken, AC!User, AC!Registered
<1>6. QED
    BY <1>2, <1>3, <1>4, <1>5

\* What each of them writes.
LEMMA Written ==
    ASSUME AccountsInv, NEW r \in Requests, WritesAccount(r)
    PROVE  LET q == accountReq[r]
               u == q.user
           IN  /\ q # AC!Idle /\ accountReq'[r] = AC!Idle
               /\ u \in Logins /\ account[u] \in AC!Rows
               /\ AC!CommitVerify(r) => account'[u].code = None /\ account'[u].password = account[u].password
               /\ ~AC!CommitVerify(r) => account'[u].verified = account[u].verified
               /\ AC!Login(r) \/ AC!CommitPassword(r) => account'[u].code = account[u].code
               /\ AC!CommitResend(r) => account'[u].password = account[u].password /\ q.op = "resend"
               /\ AC!Login(r) \/ AC!WebLoginUnverified(r) =>
                     /\ account'[u].password \in {account[u].password, q.typed}
                     /\ q.op = "login"
               /\ AC!WebLoginUnverified(r) => ~q.verified
               /\ AC!CommitPassword(r) => q.op = "password"
<1> DEFINE q == accountReq[r]
           u == q.user
<1>1. q \in AccountRequest /\ q.op \in {"login", "verify", "resend", "password"}
    BY DEF AccountsInv, AccountsTyped, WritesAccount, AC!Login, AC!WebLoginUnverified,
           AC!CommitVerify, AC!CommitResend, AC!CommitPassword
<1>2. u \in Logins /\ account[u] \in AC!Rows /\ account \in [Logins -> AC!Rows \cup {None}]
    BY <1>1, AccountRequestByOp
    DEF AccountsInv, AccountsTyped, OfAnAccount, AC!Registered, LoginRequest, CodeRequest,
        PasswordRequest
<1>3. q # AC!Idle /\ accountReq'[r] = AC!Idle
    <2>1. AC!Done(r)
        BY DEF WritesAccount, AC!Login, AC!WebLoginUnverified, AC!CommitVerify, AC!CommitResend,
               AC!CommitPassword
    <2>2. QED
        BY <1>1, <2>1 DEF AC!Done, AC!Idle
<1>4. /\ AC!Rehashed(r).verified = account[u].verified /\ AC!Rehashed(r).code = account[u].code
      /\ AC!Rehashed(r).password \in {account[u].password, q.typed}
      /\ DOMAIN AC!Rehashed(r) = {"verified", "code", "lapsed", "password", "outdated"}
    BY <1>2 DEF AC!Rehashed, AC!User, AC!Rows
<1>5. CASE AC!Login(r)
    <2>1. account'[u] = AC!Rehashed(r) /\ q.op = "login" /\ q.verified
        BY <1>2, <1>5 DEF AC!Login, AC!User
    <2>2. ~AC!CommitVerify(r) /\ ~AC!CommitResend(r) /\ ~AC!CommitPassword(r)
        BY <2>1 DEF AC!CommitVerify, AC!CommitResend, AC!CommitPassword
    <2>3. ~AC!WebLoginUnverified(r)
        BY <2>1 DEF AC!WebLoginUnverified
    <2>4. QED
        BY <1>2, <1>3, <1>4, <2>1, <2>2, <2>3
<1>6. CASE AC!WebLoginUnverified(r)
    <2>1. /\ account'[u] = [AC!Rehashed(r) EXCEPT !.code = sent[u] + 1, !.lapsed = FALSE]
          /\ q.op = "login" /\ ~q.verified
        BY <1>2, <1>6 DEF AC!WebLoginUnverified, AC!User
    <2>2. ~AC!CommitVerify(r) /\ ~AC!CommitResend(r) /\ ~AC!CommitPassword(r)
        BY <2>1 DEF AC!CommitVerify, AC!CommitResend, AC!CommitPassword
    <2>3. ~AC!Login(r)
        BY <2>1 DEF AC!Login
    <2>4. account'[u].verified = account[u].verified
          /\ account'[u].password \in {account[u].password, q.typed}
        BY <1>4, <2>1
    <2>5. QED
        BY <1>2, <1>3, <2>1, <2>2, <2>3, <2>4
<1>7. CASE AC!CommitVerify(r)
    <2>1. account'[u] = AC!Confirmed(account[u]) /\ q.op = "verify"
        BY <1>2, <1>7 DEF AC!CommitVerify, AC!User
    <2>2. account'[u].code = None /\ account'[u].password = account[u].password
        BY <1>2, <2>1 DEF AC!Confirmed, AC!Rows
    <2>3. ~AC!Login(r) /\ ~AC!WebLoginUnverified(r) /\ ~AC!CommitResend(r) /\ ~AC!CommitPassword(r)
        BY <2>1 DEF AC!Login, AC!WebLoginUnverified, AC!CommitResend, AC!CommitPassword
    <2>4. QED
        BY <1>2, <1>3, <1>7, <2>2, <2>3
<1>8. CASE AC!CommitResend(r)
    <2>1. /\ account'[u] = [account[u] EXCEPT !.code = sent[u] + 1, !.lapsed = FALSE]
          /\ q.op = "resend"
        BY <1>2, <1>8 DEF AC!CommitResend, AC!User
    <2>2. account'[u].verified = account[u].verified /\ account'[u].password = account[u].password
        BY <1>2, <2>1 DEF AC!Rows
    <2>3. ~AC!Login(r) /\ ~AC!WebLoginUnverified(r) /\ ~AC!CommitVerify(r) /\ ~AC!CommitPassword(r)
        BY <2>1 DEF AC!Login, AC!WebLoginUnverified, AC!CommitVerify, AC!CommitPassword
    <2>4. QED
        BY <1>2, <1>3, <2>1, <2>2, <2>3
<1>9. CASE AC!CommitPassword(r)
    <2>1. /\ account'[u] = [account[u] EXCEPT !.password = q.password, !.outdated = FALSE]
          /\ q.op = "password"
        BY <1>2, <1>9 DEF AC!CommitPassword, AC!User
    <2>2. account'[u].verified = account[u].verified /\ account'[u].code = account[u].code
        BY <1>2, <2>1 DEF AC!Rows
    <2>3. ~AC!Login(r) /\ ~AC!WebLoginUnverified(r) /\ ~AC!CommitVerify(r) /\ ~AC!CommitResend(r)
        BY <2>1 DEF AC!Login, AC!WebLoginUnverified, AC!CommitVerify, AC!CommitResend
    <2>4. QED
        BY <1>2, <1>3, <2>1, <2>2, <2>3
<1>10. QED
    BY <1>5, <1>6, <1>7, <1>8, <1>9 DEF WritesAccount

LEMMA TimeWrites ==
    ASSUME AccountsInv, NEW u \in Logins, AC!CodeLapses(u) \/ AC!HashOutdated(u)
    PROVE  /\ account'[u].verified = account[u].verified /\ account'[u].code = account[u].code
           /\ account'[u].password = account[u].password
<1>1. account[u] \in AC!Rows /\ account \in [Logins -> AC!Rows \cup {None}]
    BY DEF AccountsInv, AccountsTyped, AC!CodeLapses, AC!HashOutdated, AC!Registered
<1>2. \/ account'[u] = [account[u] EXCEPT !.lapsed = TRUE]
      \/ account'[u] = [account[u] EXCEPT !.outdated = TRUE]
    BY <1>1 DEF AC!CodeLapses, AC!HashOutdated
<1>3. QED
    BY <1>1, <1>2 DEF AC!Rows

\* A code for a confirmed account is written by a request that read it before.
LEMMA NoCodeAfterStep == AccountsInv /\ (AC!Next \/ UNCHANGED acvars) => AC!NoCodeAfter
<1>1. SUFFICES ASSUME AccountsInv, AC!Next \/ UNCHANGED acvars, NEW u \in Logins, AC!Registered(u),
                      account'[u].verified, account'[u].code # None
               PROVE  \/ account[u].verified /\ account[u].code # None
                      \/ \E r \in Requests : /\ accountReq[r] # AC!Idle /\ accountReq[r].user = u
                                              /\ accountReq'[r] = AC!Idle /\ accountReq[r].overtaken
    BY DEF AC!NoCodeAfter
<1>2. CASE account'[u] = account[u]
    BY <1>1, <1>2
<1>3. CASE AC!CodeLapses(u) \/ AC!HashOutdated(u)
    BY <1>1, <1>3, TimeWrites
<1>4. ASSUME NEW r \in Requests, WritesAccount(r), accountReq[r].user = u
      PROVE  \/ account[u].verified /\ account[u].code # None
             \/ /\ accountReq[r] # AC!Idle /\ accountReq'[r] = AC!Idle
                /\ accountReq[r].overtaken
    <2>1. ~AC!CommitVerify(r)
        BY <1>1, <1>4, Written
    <2>2. account[u].verified
        BY <1>1, <1>4, <2>1, Written
    <2>3. CASE AC!Login(r) \/ AC!CommitPassword(r)
        BY <1>1, <1>4, <2>2, <2>3, Written
    <2>4. CASE AC!WebLoginUnverified(r)
        <3>1. accountReq[r].op = "login" /\ ~accountReq[r].verified
            BY <1>1, <1>4, <2>4, Written
        <3>2. accountReq[r].overtaken
            BY <1>1, <1>4, <2>2, <3>1 DEF AccountsInv, LoginStale
        <3>3. QED
            BY <1>1, <1>4, <3>2, Written
    <2>5. CASE AC!CommitResend(r)
        <3>1. accountReq[r].op = "resend"
            BY <1>1, <1>4, <2>5, Written
        <3>2. accountReq[r].overtaken
            BY <1>1, <1>4, <2>2, <3>1 DEF AccountsInv, ResendStale
        <3>3. QED
            BY <1>1, <1>4, <3>2, Written
    <2>6. QED
        BY <1>4, <2>1, <2>3, <2>4, <2>5 DEF WritesAccount
<1>5. QED
    BY <1>1, <1>2, <1>3, <1>4, RowChanges

\* A password is written by who changes it, or by a login that was overtaken.
LEMMA PasswordChangesStep == AccountsInv /\ (AC!Next \/ UNCHANGED acvars) => AC!PasswordChanges
<1>1. SUFFICES ASSUME AccountsInv, AC!Next \/ UNCHANGED acvars, NEW u \in Logins, AC!Registered(u),
                      account'[u].password # account[u].password
               PROVE  \E r \in Requests : /\ accountReq[r] # AC!Idle /\ accountReq[r].user = u
                                          /\ accountReq'[r] = AC!Idle
                                          /\ accountReq[r].op = "password" \/ accountReq[r].overtaken
    BY DEF AC!PasswordChanges
<1>2. PICK r \in Requests : WritesAccount(r) /\ accountReq[r].user = u
    BY <1>1, RowChanges, TimeWrites
<1>3. accountReq[r] # AC!Idle /\ accountReq'[r] = AC!Idle
    BY <1>1, <1>2, Written
<1>4. ~AC!CommitVerify(r) /\ ~AC!CommitResend(r)
    BY <1>1, <1>2, Written
<1>5. CASE AC!CommitPassword(r)
    BY <1>1, <1>2, <1>3, <1>5, Written
<1>6. CASE AC!Login(r) \/ AC!WebLoginUnverified(r)
    <2>1. account[u].password # accountReq[r].typed /\ accountReq[r].op = "login"
        BY <1>1, <1>2, <1>6, Written
    <2>2. accountReq[r].overtaken
        BY <1>1, <1>2, <2>1 DEF AccountsInv, LoginStale
    <2>3. QED
        BY <1>2, <1>3, <2>2
<1>7. QED
    BY <1>2, <1>4, <1>5, <1>6 DEF WritesAccount

-----------------------------------------------------------------------------
(* The three parts together. *)

AccessInv == IInv /\ AccountsInv /\ TgInv

AccessVars == <<part, vars, acvars, tgvars>>

LEMMA AccessInit == MCInit => AccessInv
BY InvInit, AcInit, TgInit DEF MCInit, AccessInv

\* Each part makes a step of its own or stands still.
LEMMA AccessStep ==
    [MCNext]_AccessVars => /\ [Next]_vars
                           /\ AC!Next \/ UNCHANGED acvars
                           /\ TG!Next \/ UNCHANGED tgvars
BY DEF MCNext, AccessVars

LEMMA AccessNext == AccessInv /\ [MCNext]_AccessVars => AccessInv'
BY AccessStep, InvNext, AcNext, TgNext DEF AccessInv

\* AccessInv, the three invariants, holds in every reachable state.
THEOREM AccessInvariant == MCSpec => []AccessInv
<1>1. QED
    BY AccessInit, AccessNext, PTL DEF MCSpec, AccessVars

LEMMA AccountsTypeOK == AccountsInv => AC!TypeOK
<1>1. SUFFICES ASSUME AccountsInv PROVE AC!TypeOK
    OBVIOUS
<1>2. PICK n \in Nat : slugs = 1..n /\ n <= MaxSlugs + Cardinality(AccountsThere)
    BY <1>1 DEF AccountsInv, SlugsInARow
<1>3. AccountsThere \subseteq Logins
    BY DEF AccountsThere
<1>4. /\ Cardinality(AccountsThere) <= Cardinality(Logins)
      /\ Cardinality(AccountsThere) \in Nat /\ Cardinality(Logins) \in Nat
    BY <1>3, AcConstants, FS_Subset, FS_CardinalityType
<1>5. slugs \subseteq 1..(MaxSlugs + Cardinality(Logins))
    BY <1>2, <1>4, AcConstants
<1>6. slugs \subseteq 1..(MaxSlugs + AC!Cardinality(Logins))
    BY <1>5 DEF AC!Cardinality, Cardinality
<1>7. \A r \in Requests :
          accountReq[r].op \in {"none", "register", "login", "verify", "resend", "password"}
    BY <1>1, AccountRequestByOp DEF AccountsInv, AccountsTyped
<1>8. QED
    BY <1>1, <1>6, <1>7 DEF AccountsInv, AccountsTyped, AC!TypeOK

\* Every variable of members, accounts and Telegram links keeps its type: no
\* personal domain takes a slug that is not the next one, a Telegram id speaks
\* for one account at most.
THEOREM AccessTypes == MCSpec => []AccessTypeOK
<1>1. AccessInv => TypeOK
    BY InvTypeOK DEF AccessInv
<1>2. AccessInv => AC!TypeOK
    BY AccountsTypeOK DEF AccessInv
<1>3. AccessInv => TG!TypeOK
    BY DEF AccessInv, TgInv, TgTyped, TgUnique, TgRequest, TG!TypeOK, TG!Idle
<1>4. AccessInv => AccessTypeOK
    BY <1>1, <1>2, <1>3 DEF AccessTypeOK
<1>5. QED
    BY <1>4, AccessInvariant, PTL

\* Nobody acts for an account, by a session or a key, before its address is
\* confirmed.
THEOREM DormantAccounts == MCSpec => []DormantUntilConfirmed
<1>1. AccessInv => DormantUntilConfirmed
    BY DEF AccessInv, AccountsInv, ConfirmedOnly, DormantUntilConfirmed, AC!DormantUntilConfirmed,
           AC!SignedIn
<1>2. QED
    BY <1>1, AccessInvariant, PTL

\* Every Telegram link is borne out by a used token that names both sides.
THEOREM LinksAgreed == MCSpec => []LinkedByBoth
<1>1. AccessInv => LinkedByBoth
    BY DEF AccessInv, TgInv, LinkedByBoth
<1>2. QED
    BY <1>1, AccessInvariant, PTL

\* A confirmed account gets no code but from a request that was under way at
\* the confirmation.
THEOREM CodeCleared == MCSpec => CodeClearedUnlessRaced
<1>1. AccessInv /\ [MCNext]_AccessVars => [AC!NoCodeAfter]_AC!vars
    BY AccessStep, NoCodeAfterStep DEF AccessInv
<1>2. QED
    BY <1>1, AccessInvariant, PTL
    DEF MCSpec, AccessVars, CodeClearedUnlessRaced, AC!CodeClearedUnlessRaced

\* A password holds until its owner changes it, but for a login that overlaps
\* the change.
THEOREM PasswordStands == MCSpec => PasswordStandsUnlessRaced
<1>1. AccessInv /\ [MCNext]_AccessVars => [AC!PasswordChanges]_AC!vars
    BY AccessStep, PasswordChangesStep DEF AccessInv
<1>2. QED
    BY <1>1, AccessInvariant, PTL
    DEF MCSpec, AccessVars, PasswordStandsUnlessRaced, AC!PasswordStandsUnlessRaced

\* A Telegram link is written over only by a confirmation that was under way
\* when it was made.
THEOREM LinkStands == MCSpec => LinkStandsUnlessRaced
<1>1. AccessInv /\ [MCNext]_AccessVars => [TG!LinkChanges]_TG!vars
    BY AccessStep, LinkChangesStep DEF AccessInv
<1>2. QED
    BY <1>1, AccessInvariant, PTL
    DEF MCSpec, AccessVars, LinkStandsUnlessRaced, TG!LinkStandsUnlessRaced
=============================================================================
