------------------------------- MODULE Login -------------------------------
(***************************************************************************)
(* Logging in to a Minecraft account: BackendState::login in               *)
(* backend/src/backend.rs, login_flow in backend/src/backend_handler.rs    *)
(* and the stages of auth/src/credentials.rs.                              *)
(*                                                                         *)
(* Five credentials lead from a Microsoft account to the game, each bought *)
(* with the one below it.  A login starts at the highest one that is left, *)
(* walks down while the servers refuse what it has and then, once it has   *)
(* gone up a stage, only up.  LaunchInstance says when a login begins and  *)
(* what becomes of it.                                                     *)
(***************************************************************************)
EXTENDS Naturals

CONSTANTS
    Accounts,     \* the accounts a user may have
    OldAccounts,  \* those the launcher may have been used with before
    None,
    TornAt,       \* after how many tokens storing them may fail
    MaxExpiries   \* bound on the credentials that expire during one login

ASSUME LoginAssumption ==
    /\ None \notin Accounts \cup Nat
    /\ OldAccounts \subseteq Accounts
    /\ TornAt \subseteq Nat
    /\ MaxExpiries \in Nat

\* AuthStage; stages 1 to 5 are also the credentials they use.
Initial == 0
MsaRefresh == 1
MsaAccess == 2
AccessToken == 5
Stages == Initial .. AccessToken
Tokens == MsaRefresh .. AccessToken

\* Credentials: for each token the account it was issued to, or None.
Credentials == [Tokens -> Accounts \cup {None}]
NoCredentials == [k \in Tokens |-> None]

VARIABLES
    keychain,       \* what the secret storage holds for each account
    storage,        \* secret_storage: "new", "ready" or "broken"
    known,          \* account_info.accounts: "absent", "online" or "offline"
    selected,       \* account_info.selected_account
    step,           \* where the login is: "idle", "top", "match", "browser", "wait", "done", "returned"
    loginAs,        \* selected_account of login_flow
    creds,
    expired,        \* tokens of creds whose time is over
    expiries,       \* how many expired since this login began
    lastStage,      \* last_auth_stage
    allowBackwards,
    asked,          \* the stage a server was asked about, and whose token that is
    accepted,       \* history: a server has accepted something in this login
    result,         \* what login returned: "none", "ok", "cancelled", "failed", "backwards", "notChanged"
    modal           \* the request's ModalAction

storeVars == <<keychain, storage>>
accountVars == <<known, selected>>
loginVars == <<step, loginAs, creds, expired, expiries, lastStage, allowBackwards, asked, accepted, result>>

NotAsked == [stage |-> Initial, owner |-> None]

\* "finished" and "failed": set_finished, without or with an error message;
\* "closed": CloseModal; "dropped": the last clone is gone and the frontend
\* finishes it.  Nobody looks at the cancel request of one that has ended.
Modal(s, cancel) == [state |-> s, cancel |-> cancel]
End(s) == Modal(s, FALSE)

\* Mutant: the error is not put into the dialog, which ends all the same.
FailSilently == modal' = End("dropped")

Fail == modal' = End("failed")

LoginInit ==
    /\ \E used, stored \in SUBSET OldAccounts :
          /\ keychain = [a \in Accounts |-> [k \in Tokens |-> IF a \in stored THEN a ELSE None]]
          /\ known = [a \in Accounts |-> IF a \in used THEN "online" ELSE "absent"]
          /\ selected \in used \cup {None}
    /\ storage = "new"
    /\ step = "idle" /\ loginAs = None
    /\ creds = NoCredentials /\ expired = {} /\ expiries = 0
    /\ lastStage = None /\ allowBackwards = TRUE /\ asked = NotAsked
    /\ accepted = FALSE /\ result = "none"
    /\ modal = End("none")

-----------------------------------------------------------------------------
(* AccountCredentials::stage                                                *)

Usable(k) == creds[k] # None /\ k \notin expired

\* The highest token that is there and not expired.
CurrentStage ==
    CHOOSE s \in Stages : /\ s = Initial \/ Usable(s)
                          /\ \A k \in Tokens : k > s => ~Usable(k)

\* stage() forgets the tokens above that one.
ClearAbove(s) ==
    /\ creds' = [k \in Tokens |-> IF k > s THEN None ELSE creds[k]]
    /\ expired' = {k \in expired : k <= s}

-----------------------------------------------------------------------------
(* login_flow up to the loop of login.                                      *)

StartLoop(a, c, stale) ==
    /\ step' = "top" /\ loginAs' = a
    /\ creds' = c /\ expired' = stale /\ expiries' = 0
    /\ lastStage' = None /\ allowBackwards' = TRUE /\ asked' = NotAsked
    /\ accepted' = FALSE /\ result' = "none"

\* The storage is initialised when it is first needed; the outcome is kept.
StorageWorks == storage # "broken" /\ storage' = "ready"
StorageFails == storage # "ready" /\ storage' = "broken"

Return(r) ==
    /\ step' = "returned" /\ result' = r
    /\ loginAs' = None /\ creds' = NoCredentials /\ expired' = {}
    /\ lastStage' = None /\ allowBackwards' = TRUE /\ asked' = NotAsked
    /\ accepted' = FALSE
    /\ UNCHANGED expiries

BeginLogin(a) ==
    \/ /\ a = None
       /\ StartLoop(None, NoCredentials, {})
       /\ UNCHANGED <<storage, modal>>
    \/ /\ a # None
       /\ StorageFails
       /\ Return("failed")
       /\ Fail
    \/ /\ a # None
       /\ StorageWorks
       /\ UNCHANGED modal
       /\ \/ StartLoop(a, NoCredentials, {})   \* nothing stored, or it cannot be read
          \/ \E stale \in SUBSET {k \in Tokens : k > MsaRefresh /\ keychain[a][k] # None} :
                StartLoop(a, keychain[a], stale)

-----------------------------------------------------------------------------
(* The loop of login.                                                       *)

\* A token expires while the login runs.
Expire ==
    /\ step \in {"top", "match", "browser", "wait"}
    /\ expiries < MaxExpiries
    /\ \E k \in Tokens : /\ k > MsaRefresh
                         /\ Usable(k)
                         /\ expired' = expired \cup {k}
    /\ expiries' = expiries + 1
    /\ UNCHANGED <<storeVars, accountVars, step, loginAs, creds, lastStage, allowBackwards,
                   asked, accepted, result, modal>>

LoginResult(r) ==
    /\ step' = "done" /\ result' = r
    /\ UNCHANGED <<loginAs, creds, expired, expiries, lastStage, allowBackwards, asked, accepted>>

\* Mutant: nobody listens while the user is in the browser.
CancelledBetweenStages ==
    /\ step = "top"
    /\ modal.cancel
    /\ LoginResult("cancelled")
    /\ UNCHANGED <<storeVars, accountVars, modal>>

LoginCancelled ==
    /\ step \in {"top", "browser"}
    /\ modal.cancel
    /\ LoginResult("cancelled")
    /\ UNCHANGED <<storeVars, accountVars, modal>>

\* allow_backwards: until the login has gone up a stage.
NoStepForward(s) == allowBackwards /\ (lastStage = None \/ s < lastStage)

CheckStage ==
    /\ step = "top"
    /\ ~modal.cancel
    /\ LET s == CurrentStage
           back == lastStage # None /\ s < lastStage /\ ~allowBackwards
       IN  /\ ClearAbove(s)
           /\ IF back \/ s = lastStage
              THEN /\ step' = "done" /\ result' = IF back THEN "backwards" ELSE "notChanged"
                   /\ UNCHANGED <<lastStage, allowBackwards>>
              ELSE /\ step' = "match"
                   /\ lastStage' = s
                   /\ allowBackwards' = NoStepForward(s)
                   /\ UNCHANGED result
    /\ UNCHANGED <<storeVars, accountVars, loginAs, expiries, asked, accepted, modal>>

\* credentials.stage() is called a second time, and may answer otherwise.
MatchStage ==
    /\ step = "match"
    /\ LET s == CurrentStage
       IN  /\ ClearAbove(s)
           /\ asked' = [stage |-> s, owner |-> IF s = Initial THEN None ELSE creds[s]]
           /\ step' = IF s = Initial THEN "browser" ELSE "wait"
    /\ UNCHANGED <<storeVars, accountVars, loginAs, expiries, lastStage, allowBackwards, accepted, result, modal>>

\* The user logs in in the browser, with whichever account.
UserLogsIn ==
    /\ step = "browser"
    /\ \E a \in Accounts : asked' = [asked EXCEPT !.owner = a]
    /\ step' = "wait"
    /\ UNCHANGED <<storeVars, accountVars, loginAs, creds, expired, expiries, lastStage,
                   allowBackwards, accepted, result, modal>>

\* The redirect reports an error, or its server cannot be started.
BrowserFails ==
    /\ step = "browser"
    /\ LoginResult("failed")
    /\ UNCHANGED <<storeVars, accountVars, modal>>

\* What a server gives for the credential it was asked about.
Bought(refresh) ==
    IF asked.stage <= MsaRefresh
    THEN [creds EXCEPT ![MsaAccess] = asked.owner,
                       ![MsaRefresh] = IF refresh THEN asked.owner ELSE None]
    ELSE [creds EXCEPT ![asked.stage + 1] = asked.owner]

Accepted ==
    /\ step = "wait"
    /\ asked.stage < AccessToken
    /\ \E refresh \in BOOLEAN : creds' = Bought(refresh)
    /\ expired' = expired \ {IF asked.stage <= MsaRefresh THEN MsaAccess ELSE asked.stage + 1}
    /\ step' = "top" /\ asked' = NotAsked /\ accepted' = TRUE
    /\ UNCHANGED <<storeVars, accountVars, loginAs, expiries, lastStage, allowBackwards,
                   result, modal>>

ProfileFetched ==
    /\ step = "wait"
    /\ asked.stage = AccessToken
    /\ LoginResult("ok")
    /\ UNCHANGED <<storeVars, accountVars, modal>>

\* Mutant: the credential that was refused stays.
KeepRefused == UNCHANGED creds

ForgetRefused == creds' = [creds EXCEPT ![asked.stage] = None]

\* A server refuses the credential: the next lower one is tried.
Refused ==
    /\ step = "wait"
    /\ allowBackwards /\ asked.stage # Initial
    /\ ForgetRefused
    /\ expired' = expired \ {asked.stage}
    /\ step' = "top" /\ asked' = NotAsked
    /\ UNCHANGED <<storeVars, accountVars, loginAs, expiries, lastStage, allowBackwards, accepted,
                   result, modal>>

\* It cannot be reached, or it refuses what must not be refused any more.
RequestFails ==
    /\ step = "wait"
    /\ LoginResult("failed")
    /\ UNCHANGED <<storeVars, accountVars, modal>>

-----------------------------------------------------------------------------
(* login_flow after the loop.                                               *)

ReturnCancelled ==
    /\ step = "done" /\ result = "cancelled"
    /\ Return("cancelled")
    /\ modal' = End("closed")
    /\ UNCHANGED <<storeVars, accountVars>>

ReturnWithoutStorage ==
    /\ step = "done" /\ result # "cancelled"
    /\ StorageFails
    /\ Return("failed")
    /\ Fail
    /\ UNCHANGED <<keychain, accountVars>>

\* delete_credentials, whose failure is ignored.
Deleted(store, a) == {store, [store EXCEPT ![a] = NoCredentials]}

\* Whatever went wrong, the account's credentials are deleted.
ReturnFailed ==
    /\ step = "done" /\ result \notin {"cancelled", "ok"}
    /\ StorageWorks
    /\ keychain' \in IF loginAs = None THEN {keychain} ELSE Deleted(keychain, loginAs)
    /\ Return(result)
    /\ Fail
    /\ UNCHANGED accountVars

\* Mutant: the tokens are stored for the account that was selected.
StoreAsSelected(store, p, n) ==
    LET a == IF loginAs = None THEN p ELSE loginAs
    IN  [store EXCEPT ![a] = [k \in Tokens |-> IF k <= n THEN creds[k] ELSE @[k]]]

\* write_credentials: on Windows one token after the other, up to the first
\* failure; elsewhere all of them or none.
Stored(store, p, n) ==
    [store EXCEPT ![p] = [k \in Tokens |-> IF k <= n THEN creds[k] ELSE @[k]]]

ReturnProfile ==
    /\ step = "done" /\ result = "ok"
    /\ StorageWorks
    /\ LET p == asked.owner
       IN  /\ \E store \in IF loginAs \in {None, p} THEN {keychain} ELSE Deleted(keychain, loginAs),
                 n \in TornAt \cup {AccessToken} :
                 keychain' = Stored(store, p, n)
           /\ known' = [known EXCEPT ![p] = IF @ = "absent" THEN "online" ELSE @]
           /\ selected' = p
    /\ Return("ok")
    /\ UNCHANGED modal

\* Everything but what the user, the browser and the clock do.
LoginStep ==
    \/ LoginCancelled \/ CheckStage \/ MatchStage
    \/ Accepted \/ ProfileFetched \/ Refused \/ RequestFails
    \/ ReturnCancelled \/ ReturnWithoutStorage \/ ReturnFailed \/ ReturnProfile

-----------------------------------------------------------------------------
(* Properties.                                                              *)

LoginTypeOK ==
    /\ keychain \in [Accounts -> Credentials]
    /\ storage \in {"new", "ready", "broken"}
    /\ known \in [Accounts -> {"absent", "online", "offline"}]
    /\ selected \in Accounts \cup {None}
    /\ step \in {"idle", "top", "match", "browser", "wait", "done", "returned"}
    /\ loginAs \in Accounts \cup {None}
    /\ creds \in Credentials
    /\ expired \subseteq Tokens
    /\ expiries \in Nat
    /\ lastStage \in Stages \cup {None}
    /\ allowBackwards \in BOOLEAN
    /\ asked \in [stage : Stages, owner : Accounts \cup {None}]
    /\ accepted \in BOOLEAN
    /\ result \in {"none", "ok", "cancelled", "failed", "backwards", "notChanged"}
    /\ modal \in [state : {"none", "running", "finished", "failed", "closed", "dropped"}, cancel : BOOLEAN]

\* Tokens are stored under the account they were issued to, although the user
\* may choose another account in the browser than the one that is selected
\* and the storage may fail at any token.
KeychainIsOwners ==
    \A a \in Accounts, k \in Tokens : keychain[a][k] \in {None, a}

\* Unless a token expires meanwhile a login neither stands still nor goes back once
\* it went forward, and does not send the user to the browser after a server has
\* accepted something (backend.rs:389-500).
LoginGoesForward ==
    expiries = 0 =>
        /\ result \notin {"backwards", "notChanged"}
        /\ step = "browser" => ~accepted
=============================================================================
