----------------------------- MODULE LinkPromise -----------------------------
(* What a share link promises (docs/architecture.md, "Share links"): every   *)
(* access is checked against the link as it is then; a link that has ended - *)
(* revoked, expired, its set deleted, its one download completed - lets      *)
(* nobody in any more and never comes back.  Accesses let in before the end  *)
(* are served to their end.                                                  *)
CONSTANTS Links, Clients, None

VARIABLES
    life,     \* [link -> "new", "live" or "ended"]
    once,     \* the links good for one completed download
    inside    \* [client -> the link that let it in, or None]

(* A link made for a set deleted meanwhile has ended before anyone had it.   *)
Make(l, single, as) ==
    /\ life[l] = "new"
    /\ life' = [life EXCEPT ![l] = as]
    /\ once' = IF single THEN once \cup {l} ELSE once
    /\ UNCHANGED inside

LetIn(c, l) ==
    /\ inside[c] = None /\ life[l] = "live"
    /\ inside' = [inside EXCEPT ![c] = l]
    /\ UNCHANGED <<life, once>>

(* A completed download is the end of a link that is good for one.           *)
Served(c) ==
    /\ inside[c] # None
    /\ inside' = [inside EXCEPT ![c] = None]
    /\ life' = IF inside[c] \in once THEN [life EXCEPT ![inside[c]] = "ended"] ELSE life
    /\ UNCHANGED once

(* The access fails after all.                                               *)
TurnedAway(c) ==
    /\ inside[c] # None
    /\ inside' = [inside EXCEPT ![c] = None]
    /\ UNCHANGED <<life, once>>

(* Revocation and expiry end one link, the deletion of the set all of them.  *)
End(E) ==
    /\ \A l \in E : life[l] = "live"
    /\ life' = [l \in Links |-> IF l \in E THEN "ended" ELSE life[l]]
    /\ UNCHANGED <<once, inside>>

Init ==
    /\ life = [l \in Links |-> "new"]
    /\ once = {}
    /\ inside = [c \in Clients |-> None]

Next ==
    \/ \E l \in Links, single \in BOOLEAN, as \in {"live", "ended"} : Make(l, single, as)
    \/ \E c \in Clients : Served(c) \/ TurnedAway(c) \/ \E l \in Links : LetIn(c, l)
    \/ \E E \in SUBSET Links : End(E)

Spec == Init /\ [][Next]_<<life, once, inside>>
=============================================================================
