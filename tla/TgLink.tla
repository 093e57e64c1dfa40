------------------------------- MODULE TgLink --------------------------------
(* Linking a Telegram identity and an account (services/tglink.py, its       *)
(* routes in api/tglink.py, api/auth.py and web/profile.py, the bot's        *)
(* /start).  A token is made by one side and confirmed by the other: the bot *)
(* knows the Telegram id it talks to, the web the account it is signed in.   *)
(*                                                                           *)
(* A confirmation reads token and accounts in one action and commits in a    *)
(* later one, where another may have come in between.                        *)

CONSTANTS
    Users,
    Tgs,       \* Telegram ids
    Tokens,    \* token rows
    Requests,  \* confirmations that may be in flight
    None

VARIABLES
    tg,       \* user.tg_id: [Users -> Telegram id or None]
    token,    \* tg_link_token: [Tokens -> row or None]
    req       \* the confirmations: what each has read

vars == <<tg, token, req>>

Idle == [op |-> "none"]
Rows == [tg : Tgs \cup {None}, account : Users \cup {None}, by : {"bot", "web"},
         consumed : BOOLEAN, expired : BOOLEAN]

(* What the code lets one assume of the constants.                           *)
TgLinkAssumption == None \notin Users /\ None \notin Tgs /\ None \notin Rows

Linked == {tg[u] : u \in Users} \ {None}

NewToken(k, row) ==
    /\ token[k] = None
    /\ token' = [token EXCEPT ![k] = row]
    /\ UNCHANGED <<tg, req>>

(* /start without a payload, from a Telegram id that is not linked.          *)
CreateBotInitiated(k, t) ==
    t \notin Linked /\ NewToken(k, [tg |-> t, account |-> None, by |-> "bot",
                                        consumed |-> FALSE, expired |-> FALSE])

(* The profile page, or the API, of an account that has none.                *)
CreateWebInitiated(k, u) ==
    tg[u] = None /\ NewToken(k, [tg |-> None, account |-> u, by |-> "web",
                                      consumed |-> FALSE, expired |-> FALSE])

(* _load_pending *)
Pending(k) == token[k] # None /\ ~token[k].consumed /\ ~token[k].expired

(* A fault: a link the account has is not looked at. *)
FaultUnchecked(u, t) == t \notin Linked

NotLinked(u, t) == tg[u] = None /\ t \notin Linked

Confirm(r, k, u, t) ==
    /\ req[r] = Idle
    /\ Pending(k) /\ NotLinked(u, t)
    /\ req' = [req EXCEPT ![r] = [op |-> "confirm", token |-> k, user |-> u, tg |-> t,
                                  overtaken |-> FALSE]]
    /\ UNCHANGED <<tg, token>>

(* confirm_bot_initiated: the account is the one signed in.                  *)
ConfirmBotInitiated(r, k, u) ==
    /\ token[k] # None /\ token[k].tg # None /\ token[k].account = None
    /\ Confirm(r, k, u, token[k].tg)

(* confirm_web_initiated: the Telegram id is the one that sends /start.      *)
ConfirmWebInitiated(r, k, t) ==
    /\ token[k] # None /\ token[k].account # None /\ token[k].tg = None
    /\ Confirm(r, k, token[k].account, t)

(* user.tg_id is unique: the flush fails, and the request with it.           *)
Refused(r) == \E u \in Users \ {req[r].user} : tg[u] = req[r].tg

(* A fault: the token does not record who confirmed it. *)
FaultNotRecorded(r) == [token[req[r].token] EXCEPT !.consumed = TRUE]

(* The side that was missing is filled in.                                   *)
Consumed(r) ==
    LET row == [token[req[r].token] EXCEPT !.consumed = TRUE]
    IN  IF row.by = "bot" THEN [row EXCEPT !.account = req[r].user]
                          ELSE [row EXCEPT !.tg = req[r].tg]

(* Account and token in one commit; what was read of either is written over. *)
CommitConfirm(r) ==
    /\ req[r].op = "confirm" /\ ~Refused(r)
    /\ tg' = [tg EXCEPT ![req[r].user] = req[r].tg]
    /\ token' = [token EXCEPT ![req[r].token] = Consumed(r)]
    /\ req' = [x \in Requests |->
                 IF x = r THEN Idle
                 ELSE IF req[x] # Idle /\ (req[x].token = req[r].token \/ req[x].user = req[r].user)
                 THEN [req[x] EXCEPT !.overtaken = TRUE] ELSE req[x]]

ConfirmFails(r) ==
    /\ req[r].op = "confirm" /\ Refused(r)
    /\ req' = [req EXCEPT ![r] = Idle]
    /\ UNCHANGED <<tg, token>>

(* profile_tg_unlink *)
Unlink(u) ==
    /\ tg[u] # None
    /\ tg' = [tg EXCEPT ![u] = None]
    /\ UNCHANGED <<token, req>>

Expire(k) ==
    /\ token[k] # None /\ ~token[k].expired
    /\ token' = [token EXCEPT ![k].expired = TRUE]
    /\ UNCHANGED <<tg, req>>

-----------------------------------------------------------------------------
Init ==
    /\ tg = [u \in Users |-> None]
    /\ token = [k \in Tokens |-> None]
    /\ req = [r \in Requests |-> Idle]

Next ==
    \/ \E k \in Tokens, t \in Tgs : CreateBotInitiated(k, t)
    \/ \E k \in Tokens, u \in Users : CreateWebInitiated(k, u)
    \/ \E r \in Requests, k \in Tokens :
          \/ \E u \in Users : ConfirmBotInitiated(r, k, u)
          \/ \E t \in Tgs : ConfirmWebInitiated(r, k, t)
    \/ \E r \in Requests : CommitConfirm(r) \/ ConfirmFails(r)
    \/ \E u \in Users : Unlink(u)
    \/ \E k \in Tokens : Expire(k)

Spec == Init /\ [][Next]_vars

-----------------------------------------------------------------------------
(* A Telegram id speaks for one account at most.                             *)
TypeOK ==
    /\ tg \in [Users -> Tgs \cup {None}]
    /\ token \in [Tokens -> Rows \cup {None}]
    /\ \A r \in Requests : req[r].op \in {"none", "confirm"}
    /\ \A u, w \in Users : u # w /\ tg[u] # None => tg[u] # tg[w]

(* A link stands until it is taken back: no confirmation writes over another *)
(* - but one that read the account, or a token, before another consumed it.  *)
LinkChanges ==
    \A u \in Users : tg[u] # None /\ tg'[u] \notin {tg[u], None} =>
        \E r \in Requests : /\ req[r].op = "confirm" /\ req[r].user = u /\ req'[r] = Idle
                            /\ req[r].overtaken
LinkStandsUnlessRaced == [][LinkChanges]_vars

(* Every link was agreed by both sides: a token that was used names the      *)
(* account and the Telegram id, whoever confirmed what at the same time.     *)
LinkedByBoth ==
    \A u \in Users : tg[u] # None =>
        \E k \in Tokens : /\ token[k] # None /\ token[k].consumed
                          /\ token[k].account = u /\ token[k].tg = tg[u]
=============================================================================
