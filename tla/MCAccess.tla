------------------------------- MODULE MCAccess ------------------------------
(* Model checking of who may do what, in one run: a domain's members, in the *)
(* module this one extends, accounts (AC) and their Telegram links (TG).     *)
(* They share no state, so a behaviour of this module is one of one of them, *)
(* chosen at first.                                                          *)
EXTENDS Members, TLC

CONSTANTS
    Logins, Passwords, MaxCodes, MaxSlugs,    \* of AC; Logins, its users
    Accounts, Tgs, Tokens                     \* of TG; Accounts, its users

VARIABLES part,
          account, sent, session, apiKey, slugs, accountReq,
          tg, token, tgReq

AC == INSTANCE Accounts WITH Users <- Logins, req <- accountReq
TG == INSTANCE TgLink WITH Users <- Accounts, req <- tgReq

acvars == <<account, sent, session, apiKey, slugs, accountReq>>
tgvars == <<tg, token, tgReq>>

MCInit == part \in {"members", "accounts", "telegram"} /\ Init /\ AC!Init /\ TG!Init
MCNext ==
    /\ UNCHANGED part
    /\ \/ part = "members" /\ Next /\ UNCHANGED <<acvars, tgvars>>
       \/ part = "accounts" /\ AC!Next /\ UNCHANGED <<vars, tgvars>>
       \/ part = "telegram" /\ TG!Next /\ UNCHANGED <<vars, acvars>>
MCSpec == MCInit /\ [][MCNext]_<<part, vars, acvars, tgvars>>

ASSUME AccessAssumption == AC!AccountsAssumption /\ TG!TgLinkAssumption

Symmetry == Permutations(Requests)

(* The variables of every part keep their types.                             *)
AccessTypeOK == TypeOK /\ AC!TypeOK /\ TG!TypeOK
(* Nobody acts for an account whose address is not confirmed.                *)
DormantUntilConfirmed == AC!DormantUntilConfirmed
(* No code is left or issued once the address is confirmed.                  *)
CodeClearedUnlessRaced == AC!CodeClearedUnlessRaced
(* A password holds until its owner changes it.                              *)
PasswordStandsUnlessRaced == AC!PasswordStandsUnlessRaced
(* A Telegram link stands until it is taken back.                            *)
LinkStandsUnlessRaced == TG!LinkStandsUnlessRaced
(* A Telegram link was agreed by both sides.                                 *)
LinkedByBoth == TG!LinkedByBoth
=============================================================================
