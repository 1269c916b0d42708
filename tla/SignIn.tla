------------------------------- MODULE SignIn -------------------------------
(***************************************************************************)
(* Accounts and how they are reached: connect sessions, the callback from  *)
(* Google (OAuthService, oauth/router.py), tokens handed out to a poll or  *)
(* for an authorization code (OAuthServerService), and the deletion of an  *)
(* account.  Callbacks, polls and exchanges are transactions that read     *)
(* first and commit later, and several may be at work on one session: a    *)
(* page is reloaded, a client polls twice.                                 *)
(***************************************************************************)
EXTENDS Naturals, Accounts

CONSTANTS Emails, Sessions, Callbacks, Polls

VARIABLES accounts, (* the users that exist                                *)
          used,     (* the users that ever existed: ids are not reused     *)
          identity, (* user_identities: whose account an address opens     *)
          cred,     (* the valid oauth_credentials, <<user, address>>      *)
          session,  (* connect_sessions                                    *)
          code,     (* authorization_codes, one for each session at most   *)
          refresh,  (* refresh_tokens, <<user, session>>                   *)
          callback, (* the requests to /oauth/callback                     *)
          poll,     (* the requests that ask for tokens                    *)
          consented (* for each session, the users for whom a callback of *)
                    (* it ended, or whose stored credential opened it      *)

signInVars == <<accounts, used, identity, cred, session, code, refresh, callback, poll, consented>>

NoSession == [status |-> "none", user |-> None, kind |-> "poll", dispensed |-> FALSE]
NoCode == [user |-> None, status |-> "none"]
Idle == [at |-> "idle", session |-> None, email |-> None, user |-> None]

SignInInit ==
  /\ accounts = {} /\ used = {} /\ cred = {} /\ refresh = {}
  /\ identity = [e \in Emails |-> None]
  /\ session = [s \in Sessions |-> NoSession]
  /\ code = [s \in Sessions |-> NoCode]
  /\ callback = [c \in Callbacks |-> Idle]
  /\ poll = [p \in Polls |-> Idle]
  /\ consented = [s \in Sessions |-> {}]

-----------------------------------------------------------------------------
(* A session is opened for a poll, by a signed-in user who adds an address *)
(* or by nobody yet, or for a client that gets a code.                     *)
CreateConnectSession(s) ==
  /\ session[s] = NoSession
  /\ \E u \in accounts \union {None} :
       session' = [session EXCEPT ![s] = [NoSession EXCEPT !.status = "pending", !.user = u]]
  /\ UNCHANGED <<accounts, used, identity, cred, code, refresh, callback, poll, consented>>

CreateAuthorizeSession(s) ==
  /\ session[s] = NoSession
  /\ session' = [session EXCEPT ![s] =
                   [NoSession EXCEPT !.status = "pending", !.kind = "client"]]
  /\ UNCHANGED <<accounts, used, identity, cred, code, refresh, callback, poll, consented>>

(* A session that is done when it is opened has no poll secret.            *)
Done(u) == [status |-> "connected", user |-> u, kind |-> "none", dispensed |-> FALSE]

(* A plausible slip: anybody's valid credential will do.                   *)
ConnectedToSomebody(s, u, e) ==
  /\ session[s] = NoSession
  /\ u \in accounts /\ <<identity[e], e>> \in cred
  /\ session' = [session EXCEPT ![s] = Done(u)]
  /\ refresh' = refresh \union {<<u, s>>}
  /\ consented' = [consented EXCEPT ![s] = @ \union {identity[e]}]
  /\ UNCHANGED <<accounts, used, identity, cred, code, callback, poll>>
(* A signed-in user connects an address of his again that has a valid      *)
(* credential: no callback comes to this session, and it gives tokens at   *)
(* once, on the consent that came with the credential.                     *)
CheckExisting(u, e) == identity[e] = u /\ <<u, e>> \in cred
AlreadyConnected(s, u, e) ==
  /\ session[s] = NoSession
  /\ CheckExisting(u, e)
  /\ session' = [session EXCEPT ![s] = Done(u)]
  /\ refresh' = refresh \union {<<u, s>>}
  /\ consented' = [consented EXCEPT ![s] = @ \union {identity[e]}]
  /\ UNCHANGED <<accounts, used, identity, cred, code, callback, poll>>

-----------------------------------------------------------------------------
(* The callback: Google is asked for the address, the user is found by it, *)
(* or is the one of the session, or is new; everything is committed at     *)
(* once.  The status of the session is not looked at.                      *)
ReadSession(c, s, e) ==
  /\ callback[c] = Idle
  /\ session[s].status # "none" /\ session[s].kind # "none"
  /\ callback' = [callback EXCEPT ![c] =
                    [at |-> "resolve", session |-> s, email |-> e, user |-> session[s].user]]
  /\ UNCHANGED <<accounts, used, identity, cred, session, code, refresh, poll, consented>>

(* A row for an address that another callback has inserted waits for it.   *)
Inserting(c, e) == callback[c].at = "new" /\ callback[c].email = e
FreshIds == Users \ (used \union {callback[d].user : d \in Callbacks})

ResolveOrCreateUser(c) ==
  LET e == callback[c].email IN
  /\ callback[c].at = "resolve"
  /\ \/ /\ identity[e] # None
        /\ callback' = [callback EXCEPT ![c].at = "known", ![c].user = identity[e]]
     \/ /\ identity[e] = None
        /\ \A d \in Callbacks : ~Inserting(d, e)
        /\ \E u \in IF callback[c].user = None THEN FreshIds ELSE {callback[c].user} :
             callback' = [callback EXCEPT ![c].at = "new", ![c].user = u]
     \/ /\ identity[e] = None
        /\ \E d \in Callbacks : Inserting(d, e)
        /\ callback' = [callback EXCEPT ![c].at = "wait"]
  /\ UNCHANGED <<accounts, used, identity, cred, session, code, refresh, poll, consented>>

(* The insert that waited: the address is taken now, or it is free again.  *)
Wake(c) ==
  /\ callback[c].at = "wait"
  /\ \A d \in Callbacks : ~Inserting(d, callback[c].email)
  /\ callback' = [callback EXCEPT ![c].at =
                    IF identity[callback[c].email] = None THEN "resolve" ELSE "failed"]
  /\ UNCHANGED <<accounts, used, identity, cred, session, code, refresh, poll, consented>>

Gone(c) == callback[c].user \in used \ accounts
UpsertCredentials(u, e) == cred' = cred \union {<<u, e>>}

(* A plausible slip: the credential goes to the user of the session.       *)
SessionKeepsUser(c) ==
  LET s == callback[c].session
      u == IF session[s].user = None THEN callback[c].user ELSE session[s].user
      e == callback[c].email IN
  /\ callback[c].at \in {"known", "new"} /\ ~Gone(c)
  /\ accounts' = accounts \union {callback[c].user}
  /\ used' = used \union {callback[c].user}
  /\ identity' = [identity EXCEPT ![e] = callback[c].user]
  /\ UpsertCredentials(u, e)
  /\ session' = [session EXCEPT ![s].status = "connected", ![s].user = u]
  /\ consented' = [consented EXCEPT ![s] = @ \union {u}]
  /\ callback' = [callback EXCEPT ![c].at = IF session[s].kind = "client" THEN "code" ELSE "done"]
  /\ UNCHANGED <<code, refresh, poll>>

CompleteOAuth(c) ==
  LET u == callback[c].user
      e == callback[c].email
      s == callback[c].session IN
  /\ callback[c].at \in {"known", "new"} /\ ~Gone(c)
  /\ accounts' = accounts \union {u}
  /\ used' = used \union {u}
  /\ identity' = [identity EXCEPT ![e] = u]
  /\ UpsertCredentials(u, e)
  /\ session' = [session EXCEPT ![s].status = "connected", ![s].user = u]
  /\ consented' = [consented EXCEPT ![s] = @ \union {u}]
  /\ callback' = [callback EXCEPT ![c].at = IF session[s].kind = "client" THEN "code" ELSE "done"]
  /\ UNCHANGED <<code, refresh, poll>>

(* The code for the client is committed with the end of the request; a     *)
(* second callback of the session makes another one.                       *)
CreateCode(c) ==
  /\ callback[c].at = "code"
  /\ code' = [code EXCEPT ![callback[c].session] =
                IF Gone(c) THEN @ ELSE [user |-> callback[c].user, status |-> "fresh"]]
  /\ callback' = [callback EXCEPT ![c].at = "done"]
  /\ UNCHANGED <<accounts, used, identity, cred, session, refresh, poll, consented>>

(* Google refuses the code, the address was taken or the account is gone:  *)
(* what the callback wrote is rolled back, and the session has failed,     *)
(* also one that was connected.                                            *)
CallbackFails(c) ==
  /\ \/ callback[c].at \in {"resolve", "failed"}
     \/ callback[c].at \in {"known", "new"} /\ Gone(c)
  /\ session' = [session EXCEPT ![callback[c].session].status = "failed"]
  /\ callback' = [callback EXCEPT ![c].at = "done"]
  /\ UNCHANGED <<accounts, used, identity, cred, code, refresh, poll, consented>>

-----------------------------------------------------------------------------
(* Tokens.  A poll reads the session and hands out tokens when it is       *)
(* connected and has not handed out any; an exchange does so with a code   *)
(* that is not used.  Both decide on what they read.                       *)
PollConnect(p, s) ==
  /\ poll[p] = Idle
  /\ session[s].status = "connected" /\ session[s].kind = "poll"
  /\ session[s].user # None /\ ~session[s].dispensed
  /\ poll' = [poll EXCEPT ![p] =
                [at |-> "poll", session |-> s, email |-> None, user |-> session[s].user]]
  /\ UNCHANGED <<accounts, used, identity, cred, session, code, refresh, callback, consented>>

ExchangeCode(p, s) ==
  /\ poll[p] = Idle
  /\ code[s].status = "fresh"
  /\ poll' = [poll EXCEPT ![p] =
                [at |-> "exchange", session |-> s, email |-> None, user |-> code[s].user]]
  /\ UNCHANGED <<accounts, used, identity, cred, session, code, refresh, callback, consented>>

MintTokens(p) ==
  LET s == poll[p].session
      u == poll[p].user IN
  /\ poll[p].at \in {"poll", "exchange"}
  /\ poll' = [poll EXCEPT ![p] = Idle]
  /\ IF u \notin accounts
     THEN UNCHANGED <<session, code, refresh>>
     ELSE /\ refresh' = refresh \union {<<u, s>>}
          /\ session' = IF poll[p].at = "poll" THEN [session EXCEPT ![s].dispensed = TRUE] ELSE session
          /\ code' = IF poll[p].at = "exchange" THEN [code EXCEPT ![s].status = "used"] ELSE code
  /\ UNCHANGED <<accounts, used, identity, cred, callback, consented>>

-----------------------------------------------------------------------------
(* The rows of the account go with it; its sessions stay without a user.   *)
DeleteUserAccount(u) ==
  /\ u \in accounts
  /\ accounts' = accounts \ {u}
  /\ identity' = [e \in Emails |-> IF identity[e] = u THEN None ELSE identity[e]]
  /\ cred' = {k \in cred : k[1] # u}
  /\ session' = [s \in Sessions |->
                   IF session[s].user = u THEN [session[s] EXCEPT !.user = None] ELSE session[s]]
  /\ code' = [s \in Sessions |-> IF code[s].user = u THEN NoCode ELSE code[s]]
  /\ refresh' = {t \in refresh : t[1] # u}
  /\ UNCHANGED <<used, callback, poll, consented>>

CallbackStep(c) ==
  \/ \E s \in Sessions, e \in Emails : ReadSession(c, s, e)
  \/ ResolveOrCreateUser(c) \/ Wake(c) \/ CompleteOAuth(c) \/ CreateCode(c) \/ CallbackFails(c)

SignInNext ==
  \/ \E s \in Sessions :
       CreateConnectSession(s) \/ CreateAuthorizeSession(s)
       \/ \E u \in Users, e \in Emails : AlreadyConnected(s, u, e)
  \/ \E c \in Callbacks : CallbackStep(c)
  \/ \E p \in Polls :
       MintTokens(p) \/ \E s \in Sessions : PollConnect(p, s) \/ ExchangeCode(p, s)
  \/ \E u \in Users : DeleteUserAccount(u)

SignInSpec == SignInInit /\ [][SignInNext]_signInVars

-----------------------------------------------------------------------------
(* Properties.                                                             *)

TokenRequests == [at : {"idle", "resolve", "wait", "known", "new", "failed", "code", "done", "poll",
                   "exchange"},
             session : Sessions \union {None}, email : Emails \union {None},
             user : Users \union {None}]

SignInTypeOK ==
  /\ accounts \in SUBSET used /\ used \in SUBSET Users
  /\ identity \in [Emails -> accounts \union {None}]
  /\ cred \in SUBSET (accounts \X Emails)
  /\ session \in [Sessions -> [status : {"none", "pending", "connected", "failed"},
                               user : accounts \union {None}, kind : {"poll", "client", "none"},
                               dispensed : BOOLEAN]]
  /\ code \in [Sessions -> [user : accounts \union {None}, status : {"none", "fresh", "used"}]]
  /\ refresh \in SUBSET (accounts \X Sessions)
  /\ callback \in [Callbacks -> TokenRequests]
  /\ poll \in [Polls -> TokenRequests]
  /\ consented \in [Sessions -> SUBSET Users]

(* Whatever callbacks, polls, exchanges and deletions race: tokens of a    *)
(* session are handed out only to a user for whom Google's consent came    *)
(* back to that very session, or who, signed in, opened it for an address  *)
(* of his own with a valid credential, which an earlier consent left; and  *)
(* only while the account exists.                                          *)
TokensFollowConsent ==
  \A t \in refresh : t[1] \in accounts /\ t[1] \in consented[t[2]]

(* No account is out of reach, and no credential is somebody else's: every *)
(* account is opened by an address, and a credential for an address is     *)
(* held by the account it opens.                                           *)
AccountsReachable ==
  /\ \A u \in accounts : \E e \in Emails : identity[e] = u /\ <<u, e>> \in cred
  /\ \A k \in cred : identity[k[2]] = k[1]

=============================================================================
