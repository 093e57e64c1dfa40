----------------------------- MODULE ShareLinks ------------------------------
(* Share links of one document set: services/docsets.py from create_share_   *)
(* link on, the public download of api/docsets.py and the gallery.  Links    *)
(* hang on an artifact of the set; what the archive holds is SetArchive's    *)
(* subject, here it is ready or not.                                         *)
(*                                                                           *)
(* A request reads in one action and writes in a later one, where other      *)
(* requests may come in between: creating a link counts, then takes the      *)
(* artifact (a commit of its own if the archive is not fresh), then inserts; *)
(* a download checks, then counts itself.                                    *)
EXTENDS Integers, FiniteSets

CONSTANTS
    Links,     \* link rows
    Arts,      \* artifact rows
    Requests,  \* requests that may be in flight
    LinkLimits,\* [kind -> the active links allowed]
    None

Kinds == DOMAIN LinkLimits
VARIABLES
    live,   \* the set exists
    arts,   \* the artifacts of the set, dangling ones included
    link,   \* [Links -> row or None]
    zip,    \* the archive's file exists, and is the one a link may send
    build,  \* "none", "running", or "late": its set was deleted under it
    req     \* [Requests -> what it has read]
VARIABLES
    raced,  \* history: links made by two requests in flight together, or
            \* counted on another artifact than they were hung on
    made    \* history: the kind each link was made with

vars == <<live, arts, link, zip, build, req, raced, made>>

Idle == [op |-> "none"]
Rows == [art : Arts, kind : Kinds, count : 0..1, expired : BOOLEAN, revoked : BOOLEAN]

(* What the code lets one assume of the constants.                           *)
ASSUME LinkLimitsAssumption ==
    /\ Kinds \subseteq {"gallery", "permanent", "one_time"} /\ LinkLimits \in [Kinds -> Nat]
    /\ IsFiniteSet(Links)
ASSUME NoneAssumption ==
    None \notin Links /\ None \notin Arts /\ None \notin Rows /\ None \notin Kinds \cup {"one_time"}

Exists(l) == link[l] # None

(* link_is_active *)
Active(row) == ~row.revoked /\ (row.kind = "one_time" => row.count < 1) /\ ~row.expired

(* links_of_set and active_link_counts, over one artifact of the set.        *)
ActiveCount(a, kind) ==
    Cardinality({l \in Links : Exists(l) /\ link[l].art = a /\ link[l].kind = kind
                                         /\ Active(link[l])})

(* get_set_artifact: any artifact of the set, if it has several.             *)
AnArtifact == IF arts = {} THEN {None} ELSE arts

-----------------------------------------------------------------------------
(* Creating a link. *)

(* A fault: the limit is checked one too late. *)
FaultLimitOffByOne(a, kind) == a # None /\ ActiveCount(a, kind) > LinkLimits[kind]

AtLimit(a, kind) == (IF a = None THEN 0 ELSE ActiveCount(a, kind)) >= LinkLimits[kind]

InCreation == {r \in Requests : req[r].op = "create"}

(* create_share_link up to the limit.                                        *)
CountLinks(r, kind) ==
    /\ live /\ req[r] = Idle
    /\ \E a \in AnArtifact :
          /\ ~AtLimit(a, kind)
          /\ req' = [req EXCEPT ![r] = [op |-> "create", kind |-> kind,
                                        art |-> a, found |-> FALSE, alone |-> InCreation = {}]]
    /\ UNCHANGED <<live, arts, link, zip, build, raced, made>>

(* Who asks for one: the API and the buttons of the bot know archive links,  *)
(* the form of the set's page offers every kind.                             *)
CreateLink(r, kind) == kind # "gallery" /\ CountLinks(r, kind)
SetLinkCreate(r, kind) == CountLinks(r, kind)
MakeLink(r, kind) == kind # "gallery" /\ CountLinks(r, kind)

(* ensure_current_archive looks for the artifact.                            *)
EnsureFinds(r) ==
    /\ req[r].op = "create" /\ ~req[r].found
    /\ \E a \in AnArtifact :
          req' = [req EXCEPT ![r].found = TRUE, ![r].art = a,
                             ![r].alone = @ /\ req[r].art \in {None, a}]
    /\ UNCHANGED <<live, arts, link, zip, build, raced, made>>

(* The owner asks for the archive, and there is no record of it yet.         *)
OwnerAccess(r) ==
    /\ live /\ req[r] = Idle /\ arts = {}
    /\ req' = [req EXCEPT ![r] = [op |-> "access"]]
    /\ UNCHANGED <<live, arts, link, zip, build, raced, made>>

(* In the bot a ready archive may be too large to send: a one-time link is   *)
(* made for it instead.                                                      *)
DownloadArchive(r) ==
    \/ OwnerAccess(r)
    \/ zip /\ "one_time" \in Kinds /\ CountLinks(r, "one_time")

(* The artifact that was not there is inserted, and committed with the       *)
(* request for a build - for a set deleted meanwhile, too.                   *)
InsertArtifact(r) ==
    /\ \/ req[r].op = "access"
       \/ req[r].op = "create" /\ req[r].found /\ req[r].art = None
    /\ \E a \in Arts \ arts :
          /\ arts' = arts \cup {a}
          /\ req' = [req EXCEPT ![r] = IF @.op = "access" THEN Idle ELSE [@ EXCEPT !.art = a]]
    /\ UNCHANGED <<live, link, zip, build, raced, made>>

InsertLink(r, l) ==
    /\ req[r].op = "create" /\ req[r].found /\ req[r].art \in arts /\ made[l] = None
    /\ link' = [link EXCEPT ![l] = [art |-> req[r].art, kind |-> req[r].kind, count |-> 0,
                                    expired |-> FALSE, revoked |-> FALSE]]
    /\ req' = [x \in Requests |-> IF x = r THEN Idle
                                  ELSE IF req[x].op = "create" THEN [req[x] EXCEPT !.alone = FALSE]
                                  ELSE req[x]]
    /\ raced' = IF req[r].alone THEN raced ELSE raced \cup {l}
    /\ made' = [made EXCEPT ![l] = req[r].kind]
    /\ UNCHANGED <<live, arts, zip, build>>

-----------------------------------------------------------------------------
(* Using a link. *)

(* A fault: a used up link is not refused. *)
FaultForgetsCount(l) == Exists(l) /\ live /\ ~link[l].revoked /\ ~link[l].expired

(* What public_download and the gallery's _resolve check.                    *)
Usable(l) == Exists(l) /\ live /\ Active(link[l])

(* GET /d/{token}: checked, and the archive is ready; a download that finds  *)
(* it building is answered 202 and changes nothing here.                     *)
Download(r, l) ==
    /\ req[r] = Idle /\ Exists(l) /\ link[l].kind # "gallery"
    /\ Usable(l) /\ zip
    /\ req' = [req EXCEPT ![r] = [op |-> "download", link |-> l, count |-> link[l].count]]
    /\ UNCHANGED <<live, arts, link, zip, build, raced, made>>

(* The count is written as a value, and no other column with it.  (That of a *)
(* standing link is only shown, and is left out.)                            *)
Counted(r) ==
    [link[req[r].link] EXCEPT !.count = IF link[req[r].link].kind = "one_time"
                                        THEN req[r].count + 1 ELSE @]

Serve(r) ==
    /\ req[r].op = "download" /\ Exists(req[r].link)
    /\ link' = [link EXCEPT ![req[r].link] = Counted(r)]
    /\ req' = [req EXCEPT ![r] = Idle]
    /\ UNCHANGED <<live, arts, zip, build, raced, made>>

(* The link's row is gone: the update matches no row and the request fails.  *)
ServeFails(r) ==
    /\ req[r].op = "download" /\ ~Exists(req[r].link)
    /\ req' = [req EXCEPT ![r] = Idle]
    /\ UNCHANGED <<live, arts, link, zip, build, raced, made>>

(* GET /g/{token}: the page, then the documents of the list it resolved.     *)
OpenGallery(r, l) ==
    /\ req[r] = Idle /\ Exists(l) /\ link[l].kind = "gallery"
    /\ Usable(l)
    /\ req' = [req EXCEPT ![r] = [op |-> "gallery", link |-> l]]
    /\ UNCHANGED <<live, arts, link, zip, build, raced, made>>

LeaveGallery(r) ==
    /\ req[r].op = "gallery"
    /\ req' = [req EXCEPT ![r] = Idle]
    /\ UNCHANGED <<live, arts, link, zip, build, raced, made>>

(* The link's artifact leads to a set of the user; a dangling one to none.   *)
Owned(l) == live /\ Exists(l)

(* revoke_link: from the API or the set's page.  Revoking what has expired   *)
(* is left out.                                                              *)
Revoke(l) ==
    /\ Owned(l) /\ ~link[l].revoked /\ ~link[l].expired
    /\ link' = [link EXCEPT ![l].revoked = TRUE]
    /\ UNCHANGED <<live, arts, zip, build, req, raced, made>>

(* The API may give an archive link an expiry.                               *)
Expire(l) ==
    /\ Exists(l) /\ link[l].kind # "gallery" /\ Active(link[l])
    /\ link' = [link EXCEPT ![l].expired = TRUE]
    /\ UNCHANGED <<live, arts, zip, build, req, raced, made>>

-----------------------------------------------------------------------------
(* The archive and the set. *)

(* The archive lapses and is cleaned up.  (A stale one is as good as none.)  *)
CleanUp ==
    /\ arts # {} /\ zip
    /\ zip' = FALSE
    /\ UNCHANGED <<live, arts, link, build, req, raced, made>>

BuildStarts ==
    /\ live /\ arts # {} /\ ~zip /\ build = "none"
    /\ build' = "running"
    /\ UNCHANGED <<live, arts, link, zip, req, raced, made>>

(* The zip is written whatever became of the set meanwhile.                  *)
BuildEnds ==
    /\ build # "none"
    /\ zip' = TRUE
    /\ build' = IF build = "late" THEN "late" ELSE "none"
    /\ UNCHANGED <<live, arts, link, req, raced, made>>

(* A fault: the file stays. *)
FaultKeepsZip == zip

ZipAfterDelete == IF arts = {} THEN zip ELSE FALSE

(* delete_set: one artifact with its links and the file, and the set.        *)
DeleteSet ==
    /\ live
    /\ live' = FALSE
    /\ \E a \in AnArtifact :
          /\ arts' = arts \ {a}
          /\ link' = [l \in Links |-> IF Exists(l) /\ link[l].art = a THEN None ELSE link[l]]
    /\ zip' = ZipAfterDelete
    /\ build' = IF build = "running" THEN "late" ELSE build
    /\ UNCHANGED <<req, raced, made>>

(* The artifact the link was to hang on went with the set.                   *)
Abandon(r) ==
    /\ req[r].op = "create" /\ req[r].found /\ req[r].art \notin arts \cup {None}
    /\ req' = [req EXCEPT ![r] = Idle]
    /\ UNCHANGED <<live, arts, link, zip, build, raced, made>>

-----------------------------------------------------------------------------
Init ==
    /\ live = TRUE /\ arts = {} /\ zip = FALSE /\ build = "none"
    /\ link = [l \in Links |-> None]
    /\ req = [r \in Requests |-> Idle]
    /\ raced = {} /\ made = [l \in Links |-> None]

Next ==
    \/ \E r \in Requests :
          \/ \E kind \in Kinds : CreateLink(r, kind) \/ SetLinkCreate(r, kind) \/ MakeLink(r, kind)
          \/ EnsureFinds(r) \/ OwnerAccess(r) \/ DownloadArchive(r) \/ InsertArtifact(r) \/ Abandon(r)
          \/ Serve(r) \/ ServeFails(r) \/ LeaveGallery(r)
          \/ \E l \in Links : InsertLink(r, l) \/ Download(r, l) \/ OpenGallery(r, l)
    \/ \E l \in Links : Revoke(l) \/ Expire(l)
    \/ CleanUp \/ BuildStarts \/ BuildEnds \/ DeleteSet

Spec == Init /\ [][Next]_vars
-----------------------------------------------------------------------------
TypeOK ==
    /\ live \in BOOLEAN /\ zip \in BOOLEAN
    /\ build \in {"none", "running", "late"}
    /\ arts \subseteq Arts /\ raced \subseteq Links /\ made \in [Links -> Kinds \cup {None}]
    /\ link \in [Links -> Rows \cup {None}]
    /\ \A r \in Requests : req[r].op \in {"none", "create", "access", "download", "gallery"}
    /\ \A l \in Links : Exists(l) => link[l].art \in arts

(* The limits hold on each artifact over the links that no other request was *)
(* making at the time: they are counted in one step and inserted in another. *)
WithinLimitsUnlessRaced ==
    \A a \in Arts, kind \in Kinds :
        Cardinality({l \in Links \ raced : Exists(l) /\ link[l].art = a /\ link[l].kind = kind
                                                     /\ Active(link[l])}) <= LinkLimits[kind]

(* Nothing of a deleted set is left on disk, unless a build was running then.*)
ZipGoesWithTheSet == zip => live \/ build = "late"

(* A link keeps what LinkPromise says of it.  It is ended once the set is    *)
(* deleted, whether or not its row went; a download that was let in while    *)
(* the link was good is the one a one-time link may still serve.             *)
Life(l) == CASE Exists(l) /\ live /\ Active(link[l]) -> "live"
             [] made[l] = None -> "new"
             [] OTHER -> "ended"
Inside(r) == IF req[r].op \in {"download", "gallery"} THEN req[r].link ELSE None

Promise == INSTANCE LinkPromise WITH
    Clients <- Requests,
    life <- [l \in Links |-> Life(l)],
    once <- {l \in Links : made[l] = "one_time"},
    inside <- [r \in Requests |-> Inside(r)]
KeepsPromise == Promise!Spec
=============================================================================
