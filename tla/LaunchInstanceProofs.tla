------------------------ MODULE LaunchInstanceProofs ------------------------
(***************************************************************************)
(* Theorems about LaunchInstance and Login, for any accounts, instances    *)
(* and bounds.                                                             *)
(*                                                                         *)
(* The invariant says how far the request in hand has got (Phases), whose  *)
(* tokens a login holds (Owners), to which side of the last stage it is    *)
(* now (Climbs), that an instance is launched only while it has no child   *)
(* (Games), and that only a cancel request makes a login end as cancelled  *)
(* (Dialogs).                                                              *)
(***************************************************************************)
EXTENDS LaunchInstance, TLAPS

Phases ==
    /\ phase = "login" <=> step # "idle"
    /\ phase = "idle" => inHand = NoRequest

\* All tokens a login holds were issued to one account, and the server is
\* asked about one of them.
Owners ==
    /\ KeychainIsOwners
    /\ \A k, l \in Tokens : creds[k] # None /\ creds[l] # None => creds[k] = creds[l]
    /\ step = "browser" => creds = NoCredentials /\ asked.stage = Initial
    /\ step = "wait" \/ (step = "done" /\ result = "ok") =>
          /\ asked.owner \in Accounts
          /\ \A k \in Tokens : creds[k] \in {None, asked.owner}

\* Once a login has come back from a server the stage is another one: lower,
\* while it may go back and nothing was accepted yet, and higher otherwise.
OnItsWay ==
    /\ step = "top" =>
          \/ lastStage = None /\ ~accepted
          \/ lastStage # None /\ CurrentStage > lastStage
          \/ lastStage # None /\ CurrentStage < lastStage /\ allowBackwards /\ ~accepted
    /\ step \in {"match", "browser", "wait"} =>
          lastStage \in Stages /\ (accepted => lastStage # Initial /\ ~allowBackwards)
    /\ step = "match" => CurrentStage = lastStage
    /\ step \in {"browser", "wait"} =>
          asked.stage = lastStage /\ \A k \in Tokens : k > lastStage => ~Usable(k)

Climbs == LoginGoesForward /\ (expiries = 0 => OnItsWay)

Launching == {"launch", "processor"}

Games ==
    /\ NoStrayProcess
    /\ phase \in Launching => inHand.of \in present /\ child[inHand.of] = "none"
    /\ StatusMatchesChild

Dialogs ==
    /\ modal.cancel => modal.state = "running"
    /\ step = "done" /\ result = "cancelled" => modal.cancel
    /\ step = "returned" /\ result = "ok" => selected \in Accounts /\ known[selected] # "absent"

-----------------------------------------------------------------------------
(* Stages and requests.                                                     *)

\* AccountCredentials::stage answers with a stage, and with a token that is
\* there unless it is the initial one.
LEMMA StageIsUsable ==
    ASSUME creds \in Credentials
    PROVE  /\ CurrentStage \in Stages
           /\ CurrentStage # Initial => CurrentStage \in Tokens /\ Usable(CurrentStage)
           /\ \A k \in Tokens : k > CurrentStage => ~Usable(k)
<1> DEFINE IsStage(s) == /\ s = Initial \/ Usable(s)
                         /\ \A k \in Tokens : k > s => ~Usable(k)
<1>1. \E s \in Stages : IsStage(s)
    <2>1. CASE Usable(5)
        BY <2>1 DEF IsStage, Stages, Tokens, Initial, MsaRefresh, AccessToken
    <2>2. CASE Usable(4) /\ ~Usable(5)
        BY <2>2 DEF IsStage, Stages, Tokens, Initial, MsaRefresh, AccessToken
    <2>3. CASE Usable(3) /\ ~Usable(4) /\ ~Usable(5)
        BY <2>3 DEF IsStage, Stages, Tokens, Initial, MsaRefresh, AccessToken
    <2>4. CASE Usable(2) /\ ~Usable(3) /\ ~Usable(4) /\ ~Usable(5)
        BY <2>4 DEF IsStage, Stages, Tokens, Initial, MsaRefresh, AccessToken
    <2>5. CASE Usable(1) /\ ~Usable(2) /\ ~Usable(3) /\ ~Usable(4) /\ ~Usable(5)
        BY <2>5 DEF IsStage, Stages, Tokens, Initial, MsaRefresh, AccessToken
    <2>6. CASE ~Usable(1) /\ ~Usable(2) /\ ~Usable(3) /\ ~Usable(4) /\ ~Usable(5)
        BY <2>6 DEF IsStage, Stages, Tokens, Initial, MsaRefresh, AccessToken
    <2>7. QED
        BY <2>1, <2>2, <2>3, <2>4, <2>5, <2>6
<1>2. CurrentStage \in Stages /\ IsStage(CurrentStage)
    BY <1>1 DEF CurrentStage
<1>3. CurrentStage # Initial => CurrentStage \in Tokens
    BY <1>2 DEF Stages, Tokens, Initial, MsaRefresh, AccessToken
<1>4. QED
    BY <1>2, <1>3

\* What Handles takes is a request, and leaves requests.
LEMMA HeadAndTail ==
    ASSUME NEW S, NEW s \in Seq(S), s # <<>>
    PROVE  Head(s) \in S /\ Tail(s) \in Seq(S)
OBVIOUS

-----------------------------------------------------------------------------
(* The type invariant, by the variables that change together.               *)

StoreOK ==
    /\ keychain \in [Accounts -> Credentials]
    /\ storage \in {"new", "ready", "broken"}

AccountsOK ==
    /\ known \in [Accounts -> {"absent", "online", "offline"}]
    /\ selected \in Accounts \cup {None}

LoopOK ==
    /\ step \in {"idle", "top", "match", "browser", "wait", "done", "returned"}
    /\ loginAs \in Accounts \cup {None}
    /\ creds \in Credentials
    /\ expired \subseteq Tokens
    /\ expiries \in Nat
    /\ lastStage \in Stages \cup {None}
    /\ allowBackwards \in BOOLEAN
    /\ asked \in [stage : Stages, owner : Accounts \cup {None}]
    /\ accepted \in BOOLEAN
    /\ result \in {"none", "ok", "cancelled", "failed", "backwards", "notChanged"}

ModalOK ==
    modal \in [state : {"none", "running", "finished", "failed", "closed", "dropped"}, cancel : BOOLEAN]

RequestsOK ==
    /\ requests \in Seq(Requests)
    /\ sent \in Nat

HandlerOK ==
    /\ phase \in {"idle", "login", "prelaunch", "launch", "processor"}
    /\ inHand \in [op : {"start"}, of : Instances] \cup {Request("add", None), NoRequest}
    /\ phase \in {"prelaunch", "launch", "processor"} => inHand.op = "start"

GamesOK ==
    /\ present \subseteq Instances
    /\ child \in [Instances -> {"none", "running", "exited"}]
    /\ strays \subseteq Instances
    /\ shown \in [Instances -> {"NotRunning", "Launching", "Running"}]
    /\ lost \subseteq Instances

Types == StoreOK /\ AccountsOK /\ LoopOK /\ ModalOK /\ RequestsOK /\ HandlerOK /\ GamesOK

LEMMA TypesAreTypeOK == Types => TypeOK
BY DEF Types, TypeOK, LoginTypeOK, StoreOK, AccountsOK, LoopOK, ModalOK, RequestsOK, HandlerOK, GamesOK

LEMMA TypeInit == Init => Types
<1> SUFFICES ASSUME Init PROVE Types
    OBVIOUS
<1> USE LoginAssumption, LaunchAssumption DEF Init, LoginInit
<1>1. StoreOK /\ AccountsOK
    BY DEF StoreOK, AccountsOK, Credentials
<1>2. LoopOK
    <2>1. accepted \in BOOLEAN /\ allowBackwards \in BOOLEAN
        OBVIOUS
    <2>2. QED
        BY <2>1 DEF LoopOK, NoCredentials, NotAsked, Credentials, Stages, Initial, AccessToken
<1>3. ModalOK /\ RequestsOK /\ HandlerOK /\ GamesOK
    BY DEF ModalOK, RequestsOK, HandlerOK, GamesOK, End, Modal
<1>4. QED
    BY <1>1, <1>2, <1>3 DEF Types

\* The ways a dialog ends are among its states.
LEMMA EndIsModal ==
    ASSUME NEW s \in {"none", "finished", "failed", "closed", "dropped"}, modal' = End(s)
    PROVE  ModalOK' /\ modal'.state = s /\ modal'.cancel = FALSE
BY DEF ModalOK, End, Modal

LEMMA Unchanged ==
    ASSUME Types
    PROVE  /\ UNCHANGED storeVars => StoreOK'
           /\ UNCHANGED accountVars => AccountsOK'
           /\ UNCHANGED loginVars => LoopOK'
           /\ UNCHANGED modal => ModalOK'
           /\ UNCHANGED requestVars => RequestsOK'
           /\ UNCHANGED handlerVars => HandlerOK'
           /\ UNCHANGED gameVars => GamesOK'
<1> USE DEF Types
<1>1. UNCHANGED storeVars => StoreOK'
    BY DEF StoreOK, storeVars
<1>2. UNCHANGED accountVars => AccountsOK'
    BY DEF AccountsOK, accountVars
<1>3. UNCHANGED loginVars => LoopOK'
    BY DEF LoopOK, loginVars
<1>4. UNCHANGED modal => ModalOK'
    BY DEF ModalOK
<1>5. UNCHANGED requestVars => RequestsOK'
    BY DEF RequestsOK, requestVars
<1>6. UNCHANGED handlerVars => HandlerOK'
    BY DEF HandlerOK, handlerVars
<1>7. UNCHANGED gameVars => GamesOK'
    BY DEF GamesOK, gameVars
<1>8. QED
    BY <1>1, <1>2, <1>3, <1>4, <1>5, <1>6, <1>7
LEMMA ReturnsWell ==
    ASSUME Types, NEW r \in {"none", "ok", "cancelled", "failed", "backwards", "notChanged"}, Return(r)
    PROVE  LoopOK'
<1>1. accepted' \in BOOLEAN /\ allowBackwards' \in BOOLEAN
    BY DEF Return
<1>2. creds' \in Credentials /\ asked' \in [stage : Stages, owner : Accounts \cup {None}]
    BY DEF Return, NoCredentials, NotAsked, Credentials, Stages, Initial, AccessToken
<1>3. QED
    BY <1>1, <1>2 DEF Types, LoopOK, Return

LEMMA ResultIsWell ==
    ASSUME Types, NEW r \in {"ok", "cancelled", "failed", "backwards", "notChanged"}, LoginResult(r)
    PROVE  LoopOK'
BY DEF Types, LoopOK, LoginResult

LEMMA StorageTypes ==
    ASSUME Types, StorageWorks \/ StorageFails
    PROVE  storage' \in {"new", "ready", "broken"}
BY DEF StorageWorks, StorageFails

LEMMA DeletedTypes ==
    ASSUME NEW store \in [Accounts -> Credentials], NEW a \in Accounts, NEW del \in Deleted(store, a)
    PROVE  del \in [Accounts -> Credentials]
<1>1. NoCredentials \in Credentials
    BY DEF NoCredentials, Credentials
<1>2. QED
    BY <1>1 DEF Deleted

LEMMA StoredTypes ==
    ASSUME NEW store \in [Accounts -> Credentials], NEW p, NEW n, creds \in Credentials
    PROVE  Stored(store, p, n) \in [Accounts -> Credentials]
<1> DEFINE new == [k \in Tokens |-> IF k <= n THEN creds[k] ELSE store[p][k]]
<1>1. ASSUME p \in Accounts
      PROVE  new \in Credentials
    <2>1. store[p] \in Credentials
        BY <1>1
    <2>2. QED
        BY <2>1 DEF Credentials
<1>2. Stored(store, p, n) = [store EXCEPT ![p] = new]
    BY DEF Stored
<1>3. QED
    BY <1>1, <1>2

\* The loop of a login, the user, the browser and the clock.
LEMMA LoopTypes ==
    ASSUME Types,
           \/ Expire \/ LoginCancelled \/ CheckStage \/ MatchStage \/ UserLogsIn \/ BrowserFails
           \/ Accepted \/ ProfileFetched \/ Refused \/ RequestFails
    PROVE  LoopOK'
<1> USE DEF Types
<1>1. CASE Expire
    BY <1>1 DEF Expire, LoopOK
<1>2. CASE LoginCancelled \/ BrowserFails \/ ProfileFetched \/ RequestFails
    BY <1>2, ResultIsWell DEF LoginCancelled, BrowserFails, ProfileFetched, RequestFails
<1>3. creds \in Credentials
    BY DEF LoopOK
<1>4. ASSUME NEW s \in Stages, ClearAbove(s)
      PROVE  creds' \in Credentials /\ expired' \subseteq Tokens
    BY <1>3, <1>4 DEF ClearAbove, LoopOK, Credentials
<1>5. CASE CheckStage
    <2>1. CurrentStage \in Stages /\ ClearAbove(CurrentStage)
        BY <1>3, <1>5, StageIsUsable DEF CheckStage
    <2>2. step' \in {"done", "match"} /\ result' \in {result, "backwards", "notChanged"}
        BY <1>5 DEF CheckStage
    <2>3. lastStage' \in Stages \cup {None}
        BY <1>5, <2>1 DEF CheckStage, LoopOK
    <2>4. allowBackwards' \in BOOLEAN
        BY <1>5 DEF CheckStage, LoopOK, NoStepForward
    <2>5. UNCHANGED <<loginAs, expiries, asked, accepted>>
        BY <1>5 DEF CheckStage
    <2>6. QED
        BY <1>4, <2>1, <2>2, <2>3, <2>4, <2>5 DEF LoopOK
<1>6. CASE MatchStage
    <2>1. CurrentStage \in Stages /\ ClearAbove(CurrentStage)
        BY <1>3, <1>6, StageIsUsable DEF MatchStage
    <2>2. asked' \in [stage : Stages, owner : Accounts \cup {None}]
        BY <1>3, <1>6, StageIsUsable DEF MatchStage, Credentials, Usable
    <2>3. step' \in {"browser", "wait"}
        BY <1>6 DEF MatchStage
    <2>4. UNCHANGED <<loginAs, expiries, lastStage, allowBackwards, accepted, result>>
        BY <1>6 DEF MatchStage
    <2>5. QED
        BY <1>4, <2>1, <2>2, <2>3, <2>4 DEF LoopOK
<1>7. CASE UserLogsIn
    BY <1>7 DEF UserLogsIn, LoopOK
<1>8. NotAsked \in [stage : Stages, owner : Accounts \cup {None}]
    BY DEF NotAsked, Stages, Initial, AccessToken
<1>9. CASE Accepted
    <2>1. PICK refresh \in BOOLEAN : creds' = Bought(refresh)
        BY <1>9 DEF Accepted
    <2>2. Bought(refresh) \in Credentials
        BY <1>3 DEF Bought, LoopOK, Credentials
    <2>3. expired' \subseteq Tokens /\ step' = "top" /\ asked' = NotAsked
        BY <1>9 DEF Accepted, LoopOK
    <2>4. UNCHANGED <<loginAs, expiries, lastStage, allowBackwards, result>> /\ accepted' = TRUE
        BY <1>9 DEF Accepted
    <2>5. QED
        BY <1>8, <2>1, <2>2, <2>3, <2>4 DEF LoopOK
<1>10. CASE Refused
    <2>1. creds' \in Credentials
        BY <1>3, <1>10 DEF Refused, ForgetRefused, Credentials
    <2>2. expired' \subseteq Tokens /\ step' = "top" /\ asked' = NotAsked
        BY <1>10 DEF Refused, LoopOK
    <2>3. UNCHANGED <<loginAs, expiries, lastStage, allowBackwards, accepted, result>>
        BY <1>10 DEF Refused
    <2>4. QED
        BY <1>8, <2>1, <2>2, <2>3 DEF LoopOK
<1>11. QED
    BY <1>1, <1>2, <1>5, <1>6, <1>7, <1>9, <1>10

\* A login leaves its request and the games alone.
LEMMA LoginTypes ==
    ASSUME Types, InLogin(LoginStep \/ UserLogsIn \/ BrowserFails \/ Expire)
    PROVE  Types'
<1>1. RequestsOK' /\ HandlerOK' /\ GamesOK'
    BY Unchanged DEF InLogin
<1>2. CASE \/ Expire \/ LoginCancelled \/ CheckStage \/ MatchStage \/ UserLogsIn \/ BrowserFails
           \/ Accepted \/ ProfileFetched \/ Refused \/ RequestFails
    <2>1. LoopOK'
        BY <1>2, LoopTypes
    <2>2. UNCHANGED <<storeVars, accountVars, modal>>
        BY <1>2 DEF Expire, LoginCancelled, CheckStage, MatchStage, UserLogsIn, BrowserFails,
                    Accepted, ProfileFetched, Refused, RequestFails
    <2>3. QED
        BY <1>1, <2>1, <2>2, Unchanged DEF Types
<1>3. CASE ReturnCancelled
    <2>1. LoopOK' /\ ModalOK'
        BY <1>3, ReturnsWell, EndIsModal DEF ReturnCancelled
    <2>2. UNCHANGED storeVars /\ UNCHANGED accountVars
        BY <1>3 DEF ReturnCancelled
    <2>3. QED
        BY <1>1, <2>1, <2>2, Unchanged DEF Types
<1>4. CASE ReturnWithoutStorage
    <2>1. LoopOK' /\ ModalOK'
        BY <1>4, ReturnsWell, EndIsModal DEF ReturnWithoutStorage, Fail
    <2>2. StoreOK'
        BY <1>4, StorageTypes DEF ReturnWithoutStorage, StoreOK, Types
    <2>3. UNCHANGED accountVars
        BY <1>4 DEF ReturnWithoutStorage
    <2>4. QED
        BY <1>1, <2>1, <2>2, <2>3, Unchanged DEF Types
<1>5. CASE ReturnFailed
    <2>1. result \in {"none", "ok", "cancelled", "failed", "backwards", "notChanged"}
        BY DEF Types, LoopOK
    <2>2. LoopOK' /\ ModalOK'
        BY <1>5, <2>1, ReturnsWell, EndIsModal DEF ReturnFailed, Fail
    <2>3. keychain' \in [Accounts -> Credentials]
        BY <1>5, DeletedTypes DEF ReturnFailed, Types, StoreOK, LoopOK
    <2>4. StoreOK'
        BY <1>5, <2>3, StorageTypes DEF ReturnFailed, StoreOK
    <2>5. UNCHANGED accountVars
        BY <1>5 DEF ReturnFailed
    <2>6. QED
        BY <1>1, <2>2, <2>4, <2>5, Unchanged DEF Types
<1>6. CASE ReturnProfile
    <2> DEFINE p == asked.owner
    <2>1. PICK store \in IF loginAs \in {None, p} THEN {keychain} ELSE Deleted(keychain, loginAs),
               n \in TornAt \cup {AccessToken} : keychain' = Stored(store, p, n)
        BY <1>6 DEF ReturnProfile
    <2>2. p \in Accounts \cup {None}
        BY DEF Types, LoopOK
    <2>3. store \in [Accounts -> Credentials]
        BY <2>1, DeletedTypes DEF Types, StoreOK, LoopOK
    <2>4. StoreOK'
        BY <1>6, <2>1, <2>3, StoredTypes, StorageTypes DEF ReturnProfile, Types, StoreOK, LoopOK
    <2>5. known' = [known EXCEPT ![p] = IF @ = "absent" THEN "online" ELSE @] /\ selected' = p
        BY <1>6 DEF ReturnProfile
    <2>6. AccountsOK'
        BY <2>2, <2>5 DEF Types, AccountsOK
    <2>7. LoopOK'
        BY <1>6, ReturnsWell DEF ReturnProfile
    <2>8. UNCHANGED modal
        BY <1>6 DEF ReturnProfile
    <2>9. QED
        BY <1>1, <2>4, <2>6, <2>7, <2>8, Unchanged DEF Types
<1>7. QED
    BY <1>2, <1>3, <1>4, <1>5, <1>6 DEF InLogin, LoginStep

LEMMA StartsWell ==
    ASSUME Types, NEW a \in Accounts \cup {None}, NEW c \in Credentials, NEW stale \in SUBSET Tokens,
           StartLoop(a, c, stale)
    PROVE  LoopOK'
<1>1. accepted' \in BOOLEAN /\ allowBackwards' \in BOOLEAN
    BY DEF StartLoop
<1>2. asked' \in [stage : Stages, owner : Accounts \cup {None}]
    BY DEF StartLoop, NotAsked, Stages, Initial, AccessToken
<1>3. QED
    BY <1>1, <1>2 DEF Types, LoopOK, StartLoop

LEMMA BeginTypes ==
    ASSUME Types, NEW a \in Accounts \cup {None}, BeginLogin(a), UNCHANGED keychain
    PROVE  StoreOK' /\ LoopOK' /\ ModalOK'
<1>1. NoCredentials \in Credentials
    BY DEF NoCredentials, Credentials
<1>2. CASE a = None
    <2>1. StartLoop(None, NoCredentials, {}) /\ UNCHANGED <<storage, modal>>
        BY <1>2 DEF BeginLogin
    <2>2. LoopOK'
        BY <1>1, <2>1, StartsWell
    <2>3. QED
        BY <2>1, <2>2, Unchanged DEF storeVars
<1>3. CASE a # None /\ StorageFails /\ Return("failed") /\ Fail
    <2>1. LoopOK' /\ ModalOK'
        BY <1>3, ReturnsWell, EndIsModal DEF Fail
    <2>2. StoreOK'
        BY <1>3, StorageTypes DEF Types, StoreOK
    <2>3. QED
        BY <2>1, <2>2
<1>4. CASE a # None /\ StorageWorks /\ UNCHANGED modal
           /\ (\/ StartLoop(a, NoCredentials, {})
               \/ \E stale \in SUBSET {k \in Tokens : k > MsaRefresh /\ keychain[a][k] # None} :
                     StartLoop(a, keychain[a], stale))
    <2>1. keychain[a] \in Credentials
        BY <1>4 DEF Types, StoreOK
    <2>2. StartLoop(a, NoCredentials, {}) => LoopOK'
        BY <1>1, StartsWell
    <2>3. ASSUME NEW stale \in SUBSET {k \in Tokens : k > MsaRefresh /\ keychain[a][k] # None},
                 StartLoop(a, keychain[a], stale)
          PROVE  LoopOK'
        BY <2>1, <2>3, StartsWell
    <2>4. StoreOK' /\ ModalOK'
        BY <1>4, StorageTypes, Unchanged DEF Types, StoreOK
    <2>5. QED
        BY <1>4, <2>2, <2>3, <2>4
<1>5. QED
    BY <1>2, <1>3, <1>4 DEF BeginLogin

\* The request that is handled.
LEMMA HandlesTypes ==
    ASSUME Types, NEW op, Handles(op)
    PROVE  RequestsOK' /\ Head(requests) \in Requests /\ Head(requests).op = op
<1>1. Head(requests) \in Requests /\ Tail(requests) \in Seq(Requests)
    BY HeadAndTail DEF Handles, Types, RequestsOK
<1>2. QED
    BY <1>1 DEF Handles, Types, RequestsOK

LEMMA CompletesTypes == Completes => HandlerOK'
BY DEF Completes, HandlerOK

LEMMA TypeStep == Types /\ [Next]_vars => Types'
<1> SUFFICES ASSUME Types, [Next]_vars PROVE Types'
    OBVIOUS
<1>1. CASE SendRequest
    <2>1. \E r \in Requests : requests' = Append(requests, r)
        <3>1. \A i \in Instances : Request("start", i) \in Requests /\ Request("kill", i) \in Requests
            BY DEF Requests, Request
        <3>2. \A op \in AccountOps, a \in Accounts : Request(op, a) \in Requests
            BY DEF Requests, Request
        <3>3. Request("add", None) \in Requests
            BY DEF Requests
        <3>4. QED
            BY <1>1, <3>1, <3>2, <3>3 DEF SendRequest
    <2>2. RequestsOK'
        BY <1>1, <2>1 DEF SendRequest, Types, RequestsOK
    <2>3. modal' = Modal("running", FALSE) => ModalOK'
        BY DEF ModalOK, Modal
    <2>4. ModalOK'
        BY <1>1, <2>3, Unchanged DEF SendRequest
    <2>5. QED
        BY <1>1, <2>2, <2>4, Unchanged DEF SendRequest, Types
<1>2. CASE RequestCancel
    <2>1. ModalOK'
        BY <1>2 DEF RequestCancel, ModalOK, Modal
    <2>2. QED
        BY <1>2, <2>1, Unchanged DEF RequestCancel, Types
<1>3. CASE GameExits
    <2>1. GamesOK'
        BY <1>3 DEF GameExits, Types, GamesOK
    <2>2. QED
        BY <1>3, <2>1, Unchanged DEF GameExits, Types
<1>4. CASE RemoveInstance
    <2>1. GamesOK'
        BY <1>4 DEF RemoveInstance, Types, GamesOK
    <2>2. QED
        BY <1>4, <2>1, Unchanged DEF RemoveInstance, Types, handlerVars
<1>5. CASE InLogin(UserLogsIn \/ BrowserFails \/ Expire) \/ InLogin(LoginStep)
    BY <1>5, LoginTypes DEF InLogin
<1>6. CASE AddNewAccount
    <2>1. StoreOK' /\ LoopOK' /\ ModalOK'
        BY <1>6, BeginTypes DEF AddNewAccount
    <2>2. RequestsOK' /\ Head(requests) \in Requests /\ Head(requests).op = "add"
        BY <1>6, HandlesTypes DEF AddNewAccount
    <2>3. HandlerOK'
        BY <1>6, <2>2 DEF AddNewAccount, Takes, HandlerOK, Requests, AccountOps
    <2>4. QED
        BY <1>6, <2>1, <2>2, <2>3, Unchanged DEF AddNewAccount, Types
<1>7. CASE StartWithLogin
    <2>1. StoreOK' /\ LoopOK' /\ ModalOK'
        BY <1>7, BeginTypes DEF StartWithLogin, Types, AccountsOK
    <2>2. RequestsOK' /\ Head(requests) \in Requests /\ Head(requests).op = "start"
        BY <1>7, HandlesTypes DEF StartWithLogin
    <2>3. HandlerOK'
        BY <1>7, <2>2 DEF StartWithLogin, Takes, HandlerOK, Requests, Request, AccountOps
    <2>4. QED
        BY <1>7, <2>1, <2>2, <2>3, Unchanged DEF StartWithLogin, Types
<1>8. CASE StartOffline
    <2>1. RequestsOK' /\ Head(requests) \in Requests /\ Head(requests).op = "start"
        BY <1>8, HandlesTypes DEF StartOffline
    <2>2. HandlerOK'
        BY <1>8, <2>1 DEF StartOffline, Takes, HandlerOK, Requests, Request, AccountOps
    <2>3. QED
        BY <1>8, <2>1, <2>2, Unchanged DEF StartOffline, Types
<1>9. CASE LoginReturned
    <2>1. LoopOK'
        BY <1>9 DEF LoginReturned, Types, LoopOK
    <2>2. HandlerOK'
        BY <1>9, CompletesTypes DEF LoginReturned, Types, HandlerOK
    <2>3. ModalOK'
        BY <1>9, EndIsModal, Unchanged DEF LoginReturned
    <2>4. QED
        BY <1>9, <2>1, <2>2, <2>3, Unchanged DEF LoginReturned, Types
<1>10. CASE PrelaunchCancelled \/ PrelaunchFailed \/ LaunchRefused
    <2>1. ModalOK' /\ HandlerOK'
        BY <1>10, EndIsModal, CompletesTypes
           DEF PrelaunchCancelled, PrelaunchFailed, LaunchRefused, Fail
    <2>2. QED
        BY <1>10, <2>1, Unchanged
           DEF PrelaunchCancelled, PrelaunchFailed, LaunchRefused, InPhase, Types
<1>11. CASE BeginLaunch
    <2>1. HandlerOK'
        BY <1>11 DEF BeginLaunch, InPhase, Types, HandlerOK
    <2>2. GamesOK'
        BY <1>11 DEF BeginLaunch, Tell, Types, GamesOK
    <2>3. QED
        BY <1>11, <2>1, <2>2, Unchanged DEF BeginLaunch, InPhase, Types
<1>12. CASE LaunchCancelled \/ LaunchFails
    <2>1. ModalOK' /\ HandlerOK'
        BY <1>12, EndIsModal, CompletesTypes DEF LaunchCancelled, LaunchFails, Fail
    <2>2. GamesOK'
        BY <1>12 DEF LaunchCancelled, LaunchFails, TellCancelled, Tell, Status, Types, GamesOK
    <2>3. QED
        BY <1>12, <2>1, <2>2, Unchanged DEF LaunchCancelled, LaunchFails, InPhase, Types
<1>13. CASE Spawn
    <2>1. ModalOK' /\ HandlerOK'
        BY <1>13, EndIsModal, CompletesTypes DEF Spawn
    <2>2. inHand.of \in Instances
        BY <1>13 DEF Spawn, InPhase, Types, HandlerOK, NoRequest, Request
    <2>3. GamesOK'
        BY <1>13, <2>2 DEF Spawn, Tell, Types, GamesOK
    <2>4. QED
        BY <1>13, <2>1, <2>3, Unchanged DEF Spawn, InPhase, Types
<1>14. CASE KillInstance
    <2>1. RequestsOK'
        BY <1>14, HandlesTypes DEF KillInstance
    <2>2. GamesOK'
        BY <1>14 DEF KillInstance, Tell, Types, GamesOK
    <2>3. QED
        BY <1>14, <2>1, <2>2, Unchanged DEF KillInstance, Types
<1>15. CASE SelectAccount \/ DeleteAccount \/ AddOfflineAccount
    <2>1. RequestsOK' /\ Head(requests).of \in Accounts
        BY <1>15, HandlesTypes
           DEF SelectAccount, DeleteAccount, AddOfflineAccount, Requests, Request, AccountOps
    <2>2. AccountsOK'
        BY <1>15, <2>1 DEF SelectAccount, DeleteAccount, AddOfflineAccount, Types, AccountsOK
    <2>3. QED
        BY <1>15, <2>1, <2>2, Unchanged DEF SelectAccount, DeleteAccount, AddOfflineAccount, Types
<1>16. CASE Tick
    <2>1. GamesOK'
        BY <1>16 DEF Tick, Types, GamesOK
    <2>2. QED
        BY <1>16, <2>1, Unchanged DEF Tick, Types, handlerVars
<1>17. CASE UNCHANGED vars
    BY <1>17, Unchanged DEF vars, Types
<1>18. CASE BeginProcessor \/ ProcessorEnds
    <2>1. HandlerOK'
        BY <1>18 DEF BeginProcessor, ProcessorEnds, InPhase, Types, HandlerOK
    <2>2. QED
        BY <1>18, <2>1, Unchanged DEF BeginProcessor, ProcessorEnds, InPhase, Types
<1>19. QED
    BY <1>1, <1>2, <1>3, <1>4, <1>5, <1>6, <1>7, <1>8, <1>9, <1>10, <1>11, <1>12, <1>13, <1>14,
       <1>15, <1>16, <1>17, <1>18 DEF Next, MainLoop, Prompt, Unlimited

\* Every variable keeps its type: a login always is at some stage, and every
\* request names an account or an instance.
THEOREM TypeCorrect == Spec => []TypeOK
<1>1. Init => Types
    BY TypeInit
<1>2. Types /\ [Next]_vars => Types'
    BY TypeStep
<1>3. Types => TypeOK
    BY TypesAreTypeOK
<1>4. QED
    BY <1>1, <1>2, <1>3, PTL DEF Spec

-----------------------------------------------------------------------------
(* The invariant.                                                           *)

IInv == Types /\ Phases /\ Owners /\ Climbs /\ Games /\ Dialogs

LEMMA IInvInit == Init => IInv
<1> SUFFICES ASSUME Init PROVE IInv
    OBVIOUS
<1> USE DEF Init, LoginInit
<1>1. Types
    BY TypeInit
<1>2. Phases
    BY DEF Phases
<1>3. Owners
    BY DEF Owners, KeychainIsOwners, NoCredentials
<1>4. Climbs
    BY DEF Climbs, LoginGoesForward, OnItsWay
<1>5. Games
    BY DEF Games, Launching, NoStrayProcess, StatusMatchesChild
<1>6. Dialogs
    BY DEF Dialogs, End, Modal
<1>7. QED
    BY <1>1, <1>2, <1>3, <1>4, <1>5, <1>6 DEF IInv

\* A login is where the request in hand says it is.
LEMMA PhasesStep == IInv /\ [Next]_vars => Phases'
<1> SUFFICES ASSUME IInv, [Next]_vars PROVE Phases'
    OBVIOUS
<1> USE DEF IInv, Phases
<1>1. CASE SendRequest \/ RequestCancel \/ GameExits \/ RemoveInstance
    BY <1>1 DEF SendRequest, RequestCancel, GameExits, RemoveInstance, loginVars, handlerVars
<1>2. CASE InLogin(UserLogsIn \/ BrowserFails \/ Expire) \/ InLogin(LoginStep)
    <2>1. UNCHANGED handlerVars
        BY <1>2 DEF InLogin
    <2>2. step # "idle" /\ step' # "idle"
        BY <1>2 DEF InLogin, LoginStep, UserLogsIn, BrowserFails, Expire, LoginCancelled, CheckStage,
                    MatchStage, Accepted, ProfileFetched, Refused, RequestFails, ReturnCancelled,
                    ReturnWithoutStorage, ReturnFailed, ReturnProfile, LoginResult, Return
    <2>3. QED
        BY <2>1, <2>2 DEF handlerVars
<1>3. CASE AddNewAccount \/ StartWithLogin
    <2>1. phase' = "login"
        BY <1>3 DEF AddNewAccount, StartWithLogin, Takes
    <2>2. \E a : BeginLogin(a)
        BY <1>3 DEF AddNewAccount, StartWithLogin
    <2>3. step' # "idle"
        BY <2>2 DEF BeginLogin, StartLoop, Return
    <2>4. QED
        BY <2>1, <2>3
<1>4. CASE StartOffline
    BY <1>4 DEF StartOffline, Handles, Takes, loginVars
<1>5. CASE LoginReturned
    BY <1>5 DEF LoginReturned, Completes
<1>6. CASE PrelaunchCancelled \/ PrelaunchFailed \/ LaunchRefused \/ BeginLaunch
           \/ BeginProcessor \/ ProcessorEnds \/ LaunchCancelled \/ LaunchFails \/ Spawn
    BY <1>6 DEF PrelaunchCancelled, PrelaunchFailed, LaunchRefused, BeginLaunch,
                    BeginProcessor, ProcessorEnds, LaunchCancelled,
                LaunchFails, Spawn, InPhase, Completes, loginVars
<1>7. CASE KillInstance \/ SelectAccount \/ DeleteAccount \/ AddOfflineAccount \/ Tick
    BY <1>7 DEF KillInstance, SelectAccount, DeleteAccount, AddOfflineAccount, Tick,
                loginVars, handlerVars
<1>8. CASE UNCHANGED vars
    BY <1>8 DEF vars, loginVars, handlerVars
<1>9. QED
    BY <1>1, <1>2, <1>3, <1>4, <1>5, <1>6, <1>7, <1>8 DEF Next, MainLoop, Prompt, Unlimited

\* Owners speaks of these variables only.
LEMMA OwnersUnchanged ==
    Owners /\ UNCHANGED <<keychain, step, creds, asked, result>> => Owners'
BY DEF Owners, KeychainIsOwners

\* Forgetting tokens keeps them one account's.
LEMMA Forgetting ==
    ASSUME Owners, \A k \in Tokens : creds'[k] \in {None, creds[k]}, UNCHANGED keychain,
           step' \notin {"browser", "wait"}, step' = "done" => result' # "ok"
    PROVE  Owners'
BY DEF Owners, KeychainIsOwners

\* The tokens of a login are those that were stored for the account, or what
\* was bought with them, or with what the browser brought.
LEMMA LoopOwners ==
    ASSUME IInv,
           \/ Expire \/ LoginCancelled \/ CheckStage \/ MatchStage \/ UserLogsIn \/ BrowserFails
           \/ Accepted \/ ProfileFetched \/ Refused \/ RequestFails
    PROVE  Owners'
<1> USE DEF IInv
<1>1. creds \in Credentials
    BY DEF Types, LoopOK
<1>2. CASE Expire
    BY <1>2, OwnersUnchanged DEF Expire, storeVars
<1>3. CASE LoginCancelled \/ BrowserFails \/ RequestFails
    BY <1>3, Forgetting DEF LoginCancelled, BrowserFails, RequestFails, LoginResult, storeVars
<1>4. CASE CheckStage
    BY <1>1, <1>4, Forgetting DEF CheckStage, ClearAbove, storeVars, Credentials
<1>5. CASE MatchStage
    <2> DEFINE s == CurrentStage
    <2>1. creds' = [k \in Tokens |-> IF k > s THEN None ELSE creds[k]] /\ UNCHANGED keychain
        BY <1>5 DEF MatchStage, ClearAbove, storeVars
    <2>2. CASE s = Initial
        <3>1. creds' = NoCredentials
            BY <2>1, <2>2 DEF NoCredentials, Tokens, Initial, MsaRefresh, AccessToken
        <3>2. step' = "browser" /\ asked'.stage = Initial
            BY <1>5, <2>2 DEF MatchStage
        <3>3. QED
            BY <2>1, <3>1, <3>2 DEF Owners, KeychainIsOwners, NoCredentials
    <2>3. CASE s # Initial
        <3>1. step' = "wait" /\ asked'.owner = creds[s]
            BY <1>5, <2>3 DEF MatchStage
        <3>2. s \in Tokens /\ creds[s] # None
            BY <1>1, <2>3, StageIsUsable DEF Usable
        <3>3. creds[s] \in Accounts
            BY <1>1, <3>2 DEF Credentials
        <3>4. \A k \in Tokens : creds[k] \in {None, creds[s]}
            BY <3>2 DEF Owners
        <3>5. \A k \in Tokens : creds'[k] \in {None, creds[s]}
            BY <2>1, <3>4
        <3>6. QED
            BY <2>1, <3>1, <3>3, <3>5 DEF Owners, KeychainIsOwners
    <2>4. QED
        BY <2>2, <2>3
<1>6. CASE UserLogsIn
    <2>1. PICK a \in Accounts : asked' = [asked EXCEPT !.owner = a]
        BY <1>6 DEF UserLogsIn
    <2>2. asked'.owner = a
        BY <2>1 DEF Types, LoopOK
    <2>3. creds' = NoCredentials /\ step' = "wait" /\ UNCHANGED keychain
        BY <1>6 DEF UserLogsIn, Owners, storeVars
    <2>4. QED
        BY <2>2, <2>3 DEF Owners, KeychainIsOwners, NoCredentials
<1>7. CASE Accepted
    <2>1. PICK refresh \in BOOLEAN : creds' = Bought(refresh)
        BY <1>7 DEF Accepted
    <2>2. \A k \in Tokens : creds[k] \in {None, asked.owner}
        BY <1>7 DEF Accepted, Owners
    <2>3. \A k \in Tokens : creds'[k] \in {None, asked.owner}
        BY <1>1, <2>1, <2>2 DEF Bought, Credentials
    <2>4. step' = "top" /\ UNCHANGED keychain
        BY <1>7 DEF Accepted, storeVars
    <2>5. QED
        BY <2>3, <2>4 DEF Owners, KeychainIsOwners
<1>8. CASE ProfileFetched
    BY <1>8 DEF ProfileFetched, LoginResult, Owners, KeychainIsOwners, storeVars
<1>9. CASE Refused
    BY <1>1, <1>9, Forgetting DEF Refused, ForgetRefused, storeVars, Credentials
<1>10. QED
    BY <1>2, <1>3, <1>4, <1>5, <1>6, <1>7, <1>8, <1>9

LEMMA DeletedOwners ==
    ASSUME NEW store \in [Accounts -> Credentials], NEW b \in Accounts, NEW del \in Deleted(store, b),
           \A a \in Accounts, k \in Tokens : store[a][k] \in {None, a}
    PROVE  \A a \in Accounts, k \in Tokens : del[a][k] \in {None, a}
BY DEF Deleted, NoCredentials

LEMMA ReturnOwners ==
    ASSUME NEW r, Return(r), KeychainIsOwners'
    PROVE  Owners'
BY DEF Return, Owners, NoCredentials

LEMMA LoginOwners ==
    ASSUME IInv, InLogin(LoginStep \/ UserLogsIn \/ BrowserFails \/ Expire)
    PROVE  Owners'
<1> USE DEF IInv
<1>1. KeychainIsOwners
    BY DEF Owners
<1>2. keychain \in [Accounts -> Credentials]
    BY DEF Types, StoreOK
<1>3. CASE ReturnCancelled \/ ReturnWithoutStorage
    <2>1. KeychainIsOwners'
        BY <1>1, <1>3 DEF ReturnCancelled, ReturnWithoutStorage, KeychainIsOwners, storeVars
    <2>2. QED
        BY <1>3, <2>1, ReturnOwners DEF ReturnCancelled, ReturnWithoutStorage
<1>4. CASE ReturnFailed
    <2>1. KeychainIsOwners'
        BY <1>1, <1>2, <1>4, DeletedOwners DEF ReturnFailed, KeychainIsOwners, Types, LoopOK
    <2>2. QED
        BY <1>4, <2>1, ReturnOwners DEF ReturnFailed
<1>5. CASE ReturnProfile
    <2> DEFINE p == asked.owner
    <2>1. PICK store \in IF loginAs \in {None, p} THEN {keychain} ELSE Deleted(keychain, loginAs),
               n \in TornAt \cup {AccessToken} : keychain' = Stored(store, p, n)
        BY <1>5 DEF ReturnProfile
    <2>2. store \in [Accounts -> Credentials]
        BY <1>2, <2>1, DeletedTypes DEF Types, LoopOK
    <2>3. \A a \in Accounts, k \in Tokens : store[a][k] \in {None, a}
        BY <1>1, <1>2, <2>1, DeletedOwners DEF KeychainIsOwners, Types, LoopOK
    <2>4. p \in Accounts /\ \A k \in Tokens : creds[k] \in {None, p}
        BY <1>5 DEF ReturnProfile, Owners
    <2>5. keychain' = [store EXCEPT ![p] = [k \in Tokens |-> IF k <= n THEN creds[k] ELSE store[p][k]]]
        BY <2>1 DEF Stored
    <2>6. KeychainIsOwners'
        BY <2>2, <2>3, <2>4, <2>5 DEF KeychainIsOwners
    <2>7. QED
        BY <1>5, <2>6, ReturnOwners DEF ReturnProfile
<1>6. QED
    BY <1>3, <1>4, <1>5, LoopOwners DEF InLogin, LoginStep

LEMMA OwnersStep == IInv /\ [Next]_vars => Owners'
<1> SUFFICES ASSUME IInv, [Next]_vars PROVE Owners'
    OBVIOUS
<1> USE DEF IInv
<1>1. CASE InLogin(UserLogsIn \/ BrowserFails \/ Expire) \/ InLogin(LoginStep)
    BY <1>1, LoginOwners DEF InLogin
<1>2. CASE AddNewAccount \/ StartWithLogin
    <2>1. PICK a \in Accounts \cup {None} : BeginLogin(a)
        BY <1>2 DEF AddNewAccount, StartWithLogin, Types, AccountsOK
    <2>2. KeychainIsOwners'
        BY <1>2 DEF AddNewAccount, StartWithLogin, Owners, KeychainIsOwners
    <2>3. CASE Return("failed")
        BY <2>2, <2>3, ReturnOwners
    <2>4. ASSUME NEW c, NEW stale, StartLoop(a, c, stale),
                 c = NoCredentials \/ (a \in Accounts /\ c = keychain[a])
          PROVE  Owners'
        BY <2>2, <2>4 DEF StartLoop, Owners, KeychainIsOwners, NoCredentials
    <2>5. QED
        BY <2>1, <2>3, <2>4 DEF BeginLogin
<1>3. CASE LoginReturned
    BY <1>3 DEF LoginReturned, Owners, KeychainIsOwners, storeVars
<1>4. CASE \/ SendRequest \/ RequestCancel \/ GameExits \/ RemoveInstance \/ StartOffline
           \/ PrelaunchCancelled \/ PrelaunchFailed \/ LaunchRefused \/ BeginLaunch
           \/ BeginProcessor \/ ProcessorEnds \/ LaunchCancelled \/ LaunchFails \/ Spawn
           \/ KillInstance \/ SelectAccount \/ DeleteAccount \/ AddOfflineAccount \/ Tick
           \/ UNCHANGED vars
    <2>1. UNCHANGED <<storeVars, loginVars>>
        BY <1>4 DEF SendRequest, RequestCancel, GameExits, RemoveInstance, StartOffline,
                    PrelaunchCancelled, PrelaunchFailed, LaunchRefused, BeginLaunch,
                    BeginProcessor, ProcessorEnds, LaunchCancelled,
                    LaunchFails, Spawn, InPhase, KillInstance, SelectAccount, DeleteAccount,
                    AddOfflineAccount, Tick, vars
    <2>2. QED
        BY <2>1, OwnersUnchanged DEF storeVars, loginVars
<1>5. QED
    BY <1>1, <1>2, <1>3, <1>4 DEF Next, MainLoop, Prompt, Unlimited

-----------------------------------------------------------------------------
(* Logins that go forward.                                                  *)

StageFacts ==
    /\ CurrentStage \in Stages
    /\ CurrentStage # Initial => CurrentStage \in Tokens /\ Usable(CurrentStage)
    /\ \A k \in Tokens : k > CurrentStage => ~Usable(k)

LEMMA StagesAreUsable == LoopOK => StageFacts
BY StageIsUsable DEF LoopOK, StageFacts

\* The same of the next state.
UsableThen(k) == creds'[k] # None /\ k \notin expired'

LEMMA NextStage ==
    LoopOK' => /\ CurrentStage' \in Stages
               /\ CurrentStage' # Initial => CurrentStage' \in Tokens /\ UsableThen(CurrentStage')
               /\ \A k \in Tokens : k > CurrentStage' => ~UsableThen(k)
<1>1. LoopOK' => StageFacts'
    BY StagesAreUsable, PTL
<1>2. QED
    BY <1>1 DEF StageFacts, Usable, UsableThen

\* What stage() answers does not change by what it forgets.
LEMMA StageStays ==
    ASSUME LoopOK, LoopOK', ClearAbove(CurrentStage)
    PROVE  CurrentStage' = CurrentStage /\ \A k \in Tokens : k > CurrentStage => ~UsableThen(k)
<1>1. StageFacts
    BY StagesAreUsable
<1>2. \A k \in Tokens : k > CurrentStage => ~UsableThen(k)
    BY DEF ClearAbove, UsableThen
<1>3. CurrentStage # Initial => UsableThen(CurrentStage)
    BY <1>1 DEF StageFacts, ClearAbove, Usable, UsableThen, Stages, Initial, AccessToken
<1>4. ~(CurrentStage' > CurrentStage)
    BY <1>1, <1>2, NextStage DEF StageFacts, Stages, Initial, AccessToken
<1>5. ~(CurrentStage > CurrentStage')
    BY <1>1, <1>3, NextStage DEF StageFacts, Stages, Initial, AccessToken
<1>6. QED
    BY <1>1, <1>2, <1>4, <1>5, NextStage DEF StageFacts, Stages, Initial, AccessToken

LEMMA NoneIsNoStage == None \notin Stages
BY LoginAssumption DEF Stages, Initial, AccessToken

\* The steps of a login's loop, while no token expires.
LEMMA LoopClimbs ==
    ASSUME IInv, expiries = 0, LoopOK',
           \/ LoginCancelled \/ CheckStage \/ MatchStage \/ UserLogsIn \/ BrowserFails
           \/ Accepted \/ ProfileFetched \/ Refused \/ RequestFails
    PROVE  Climbs'
<1>1. LoopOK /\ OnItsWay /\ LoginGoesForward
    BY DEF IInv, Types, Climbs
<1>2. StageFacts
    BY <1>1, StagesAreUsable
<1>3. result \notin {"backwards", "notChanged"}
    BY <1>1 DEF LoginGoesForward
<1>4. CASE LoginCancelled \/ BrowserFails \/ ProfileFetched \/ RequestFails
    <2>1. step' = "done" /\ result' \in {"cancelled", "failed", "ok"}
        BY <1>4 DEF LoginCancelled, BrowserFails, ProfileFetched, RequestFails, LoginResult
    <2>2. QED
        BY <2>1 DEF Climbs, LoginGoesForward, OnItsWay
<1>5. CASE CheckStage
    <2> DEFINE s == CurrentStage
    <2>1. s \in Stages /\ s # None
        BY <1>2, NoneIsNoStage DEF StageFacts
    <2>2. \/ lastStage = None /\ ~accepted
          \/ lastStage # None /\ s > lastStage
          \/ lastStage # None /\ s < lastStage /\ allowBackwards /\ ~accepted
        BY <1>1, <1>5 DEF OnItsWay, CheckStage
    <2>3. lastStage \in Stages \cup {None}
        BY <1>1 DEF LoopOK
    <2>4. s # lastStage /\ ~(lastStage # None /\ s < lastStage /\ ~allowBackwards)
        BY <2>1, <2>2, <2>3 DEF Stages, Initial, AccessToken
    <2>5. step' = "match" /\ lastStage' = s /\ allowBackwards' = NoStepForward(s)
          /\ UNCHANGED <<result, accepted>> /\ ClearAbove(s)
        BY <1>5, <2>4 DEF CheckStage
    <2>6. accepted => s # Initial /\ ~NoStepForward(s)
        BY <2>1, <2>2, <2>3 DEF NoStepForward, Stages, Initial, AccessToken
    <2>7. CurrentStage' = s
        BY <1>1, <2>5, StageStays
    <2>8. QED
        BY <1>3, <2>1, <2>5, <2>6, <2>7 DEF Climbs, LoginGoesForward, OnItsWay
<1>6. CASE MatchStage
    <2> DEFINE s == CurrentStage
    <2>1. s = lastStage /\ s \in Stages /\ (accepted => s # Initial /\ ~allowBackwards)
        BY <1>1, <1>6 DEF OnItsWay, MatchStage
    <2>2. /\ step' = IF s = Initial THEN "browser" ELSE "wait"
          /\ asked'.stage = s
          /\ ClearAbove(s)
          /\ UNCHANGED <<lastStage, allowBackwards, accepted, result>>
        BY <1>6 DEF MatchStage
    <2>3. \A k \in Tokens : k > s => ~UsableThen(k)
        BY <1>1, <2>2, StageStays
    <2>4. OnItsWay'
        BY <2>1, <2>2, <2>3 DEF OnItsWay, Usable, UsableThen
    <2>5. LoginGoesForward'
        BY <1>3, <2>1, <2>2 DEF LoginGoesForward
    <2>6. QED
        BY <2>4, <2>5 DEF Climbs
<1>7. CASE UserLogsIn
    <2>1. asked'.stage = asked.stage
        BY <1>1, <1>7 DEF UserLogsIn, LoopOK
    <2>2. step = "browser" /\ step' = "wait" /\ UNCHANGED <<creds, expired, lastStage, allowBackwards, accepted, result>>
        BY <1>7 DEF UserLogsIn
    <2>3. OnItsWay'
        BY <1>1, <2>1, <2>2 DEF OnItsWay, Usable
    <2>4. QED
        BY <1>3, <2>2, <2>3 DEF Climbs, LoginGoesForward
<1>8. CASE Accepted
    <2> DEFINE n == IF asked.stage <= MsaRefresh THEN MsaAccess ELSE asked.stage + 1
    <2>1. asked.stage = lastStage /\ lastStage \in Stages /\ lastStage < AccessToken
        BY <1>1, <1>8 DEF OnItsWay, Accepted
    <2>2. n \in Tokens /\ n > lastStage
        BY <2>1 DEF Stages, Tokens, Initial, MsaRefresh, MsaAccess, AccessToken
    <2>3. asked.owner # None
        BY <1>8, LoginAssumption DEF Accepted, IInv, Owners
    <2>4. PICK refresh \in BOOLEAN : creds' = Bought(refresh)
        BY <1>8 DEF Accepted
    <2>5. creds'[n] = asked.owner
        <3>1. CASE asked.stage <= MsaRefresh
            BY <1>1, <2>2, <2>4, <3>1 DEF Bought, LoopOK, Credentials, MsaRefresh, MsaAccess
        <3>2. CASE ~(asked.stage <= MsaRefresh)
            BY <1>1, <2>2, <2>4, <3>2 DEF Bought, LoopOK, Credentials
        <3>3. QED
            BY <3>1, <3>2
    <2>6. n \notin expired' /\ step' = "top" /\ UNCHANGED <<lastStage, allowBackwards, result>>
        BY <1>8 DEF Accepted
    <2>7. UsableThen(n)
        BY <2>3, <2>5, <2>6 DEF UsableThen
    <2>8. ~(n > CurrentStage')
        BY <2>2, <2>7, NextStage
    <2>9. CurrentStage' > lastStage /\ lastStage # None
        BY <2>1, <2>2, <2>8, NextStage, NoneIsNoStage
           DEF Stages, Tokens, Initial, MsaRefresh, AccessToken
    <2>10. QED
        BY <1>3, <2>6, <2>9 DEF Climbs, LoginGoesForward, OnItsWay
<1>9. CASE Refused
    <2>1. /\ asked.stage = lastStage /\ lastStage \in Stages /\ lastStage # Initial
          /\ allowBackwards /\ ~accepted
          /\ \A k \in Tokens : k > lastStage => ~Usable(k)
        BY <1>1, <1>9 DEF OnItsWay, Refused
    <2>2. creds' = [creds EXCEPT ![lastStage] = None] /\ expired' = expired \ {lastStage}
        BY <1>9, <2>1 DEF Refused, ForgetRefused
    <2>3. step' = "top" /\ UNCHANGED <<lastStage, allowBackwards, accepted, result>>
        BY <1>9 DEF Refused
    <2>4. \A k \in Tokens : k >= lastStage => ~UsableThen(k)
        BY <1>1, <2>1, <2>2 DEF Usable, UsableThen, LoopOK, Credentials, Stages, Tokens, Initial, MsaRefresh, AccessToken
    <2>5. CurrentStage' < lastStage /\ lastStage # None
        BY <2>1, <2>4, NextStage, NoneIsNoStage
           DEF Stages, Tokens, Initial, MsaRefresh, AccessToken
    <2>6. QED
        BY <1>3, <2>1, <2>3, <2>5 DEF Climbs, LoginGoesForward, OnItsWay
<1>10. QED
    BY <1>4, <1>5, <1>6, <1>7, <1>8, <1>9

\* Where no loop runs only what the login returned matters.
LEMMA ClimbsOutside ==
    ASSUME step' \in {"idle", "done", "returned"}, result' \notin {"backwards", "notChanged"}
    PROVE  Climbs'
BY DEF Climbs, LoginGoesForward, OnItsWay

LEMMA ClimbsStep == IInv /\ [Next]_vars => Climbs'
<1> SUFFICES ASSUME IInv, [Next]_vars PROVE Climbs'
    OBVIOUS
<1>1. LoopOK /\ LoopOK' /\ Climbs /\ expiries \in Nat
    BY TypeStep DEF IInv, Types, LoopOK
<1>2. CASE InLogin(Expire)
    <2>1. expiries' # 0
        BY <1>1, <1>2 DEF InLogin, Expire
    <2>2. QED
        BY <2>1 DEF Climbs, LoginGoesForward
<1>3. CASE InLogin(LoginStep \/ UserLogsIn \/ BrowserFails)
    <2>1. expiries' = expiries
        BY <1>3 DEF InLogin, LoginStep, UserLogsIn, BrowserFails, LoginCancelled, CheckStage,
                    MatchStage, Accepted, ProfileFetched, Refused, RequestFails, ReturnCancelled,
                    ReturnWithoutStorage, ReturnFailed, ReturnProfile, LoginResult, Return
    <2>2. CASE expiries # 0
        BY <2>1, <2>2 DEF Climbs, LoginGoesForward
    <2>3. CASE expiries = 0
        <3>1. CASE ReturnCancelled \/ ReturnWithoutStorage \/ ReturnFailed \/ ReturnProfile
            <4>1. step' = "returned" /\ result' \in {"cancelled", "failed", "ok", result}
                BY <3>1 DEF ReturnCancelled, ReturnWithoutStorage, ReturnFailed, ReturnProfile, Return
            <4>2. QED
                BY <1>1, <2>3, <4>1, ClimbsOutside DEF Climbs, LoginGoesForward
        <3>2. QED
            BY <1>1, <1>3, <2>3, <3>1, LoopClimbs DEF InLogin, LoginStep
    <2>4. QED
        BY <2>2, <2>3
<1>4. CASE AddNewAccount \/ StartWithLogin
    <2>1. PICK a : BeginLogin(a)
        BY <1>4 DEF AddNewAccount, StartWithLogin
    <2>2. CASE Return("failed")
        BY <2>2, ClimbsOutside DEF Return
    <2>3. ASSUME NEW c, NEW stale, StartLoop(a, c, stale)
          PROVE  Climbs'
        BY <2>3 DEF StartLoop, Climbs, LoginGoesForward, OnItsWay
    <2>4. ASSUME NEW c, NEW stale, StartLoop(None, c, stale)
          PROVE  Climbs'
        BY <2>4 DEF StartLoop, Climbs, LoginGoesForward, OnItsWay
    <2>5. QED
        BY <2>1, <2>2, <2>3, <2>4 DEF BeginLogin
<1>5. CASE LoginReturned
    BY <1>5, ClimbsOutside DEF LoginReturned
<1>6. CASE \/ SendRequest \/ RequestCancel \/ GameExits \/ RemoveInstance \/ StartOffline
           \/ PrelaunchCancelled \/ PrelaunchFailed \/ LaunchRefused \/ BeginLaunch
           \/ BeginProcessor \/ ProcessorEnds \/ LaunchCancelled \/ LaunchFails \/ Spawn
           \/ KillInstance \/ SelectAccount \/ DeleteAccount \/ AddOfflineAccount \/ Tick
           \/ UNCHANGED vars
    <2>1. UNCHANGED loginVars
        BY <1>6 DEF SendRequest, RequestCancel, GameExits, RemoveInstance, StartOffline,
                    PrelaunchCancelled, PrelaunchFailed, LaunchRefused, BeginLaunch,
                    BeginProcessor, ProcessorEnds, LaunchCancelled,
                    LaunchFails, Spawn, InPhase, KillInstance, SelectAccount, DeleteAccount,
                    AddOfflineAccount, Tick, vars
    <2>2. QED
        BY <1>1, <2>1 DEF loginVars, Climbs, LoginGoesForward, OnItsWay, CurrentStage, Usable
<1>7. QED
    BY <1>2, <1>3, <1>4, <1>5, <1>6 DEF Next, MainLoop, Prompt, Unlimited, InLogin

-----------------------------------------------------------------------------
(* Games and dialogs.                                                       *)

\* Games speaks of these variables only.
LEMMA GamesUnchanged ==
    ASSUME Games, UNCHANGED gameVars,
           phase' \in Launching => phase \in Launching /\ inHand' = inHand,
           phase \in Launching => phase' \in Launching
    PROVE  Games'
<1>1. phase' \in Launching /\ inHand'.of = inHand.of <=> phase \in Launching /\ inHand'.of = inHand.of
    OBVIOUS
<1>2. QED
    BY <1>1 DEF Games, Launching, NoStrayProcess, StatusMatchesChild, gameVars

\* The status is told with every change of a child, and no launch begins
\* while there is one.
LEMMA GamesStep == IInv /\ [Next]_vars => Games'
<1> SUFFICES ASSUME IInv, [Next]_vars PROVE Games'
    OBVIOUS
<1> USE DEF IInv
<1>1. GamesOK /\ HandlerOK
    BY DEF Types
<1>2. CASE \/ SendRequest \/ RequestCancel
           \/ InLogin(UserLogsIn \/ BrowserFails \/ Expire) \/ InLogin(LoginStep)
           \/ SelectAccount \/ DeleteAccount \/ AddOfflineAccount \/ UNCHANGED vars
    <2>1. UNCHANGED <<handlerVars, gameVars>>
        BY <1>2 DEF SendRequest, RequestCancel, InLogin, SelectAccount, DeleteAccount,
                    AddOfflineAccount, vars
    <2>2. QED
        BY <2>1, GamesUnchanged DEF handlerVars
<1>3. CASE AddNewAccount \/ StartWithLogin \/ StartOffline
    BY <1>3, GamesUnchanged DEF AddNewAccount, StartWithLogin, StartOffline, Handles, Takes, Launching
<1>4. CASE LoginReturned
    BY <1>4, GamesUnchanged DEF Launching, LoginReturned, Completes
<1>5. CASE PrelaunchCancelled \/ PrelaunchFailed \/ LaunchRefused
    BY <1>5, GamesUnchanged DEF PrelaunchCancelled, PrelaunchFailed, LaunchRefused, InPhase, Completes, Launching
<1>6. CASE GameExits
    <2>1. UNCHANGED <<phase, inHand, present, shown, lost>>
        BY <1>6 DEF GameExits, handlerVars
    <2>2. strays' \subseteq strays
        BY <1>6 DEF GameExits
    <2>3. \A i \in Instances : child'[i] = "none" <=> child[i] = "none"
        BY <1>1, <1>6 DEF GameExits, GamesOK
    <2>4. phase \in Launching => inHand.of \in Instances
        BY <1>1 DEF Games, GamesOK, Launching
    <2>5. QED
        BY <1>1, <2>1, <2>2, <2>3, <2>4 DEF Games, Launching, NoStrayProcess, StatusMatchesChild, GamesOK
<1>7. CASE RemoveInstance
    <2>1. phase = "idle" /\ UNCHANGED <<phase, inHand, shown>>
        BY <1>7 DEF RemoveInstance, handlerVars
    <2>2. PICK i \in present :
              /\ present' = present \ {i}
              /\ lost' = lost \cup {i}
              /\ strays' = IF child[i] = "running" THEN strays \cup {i} ELSE strays
              /\ child' = [child EXCEPT ![i] = "none"]
        BY <1>7 DEF RemoveInstance
    <2>3. strays' \subseteq lost'
        BY <2>2 DEF Games, NoStrayProcess
    <2>4. \A j \in present' : j \in present /\ child'[j] = child[j]
        BY <1>1, <2>2 DEF GamesOK
    <2>5. QED
        BY <2>1, <2>3, <2>4 DEF Games, Launching, NoStrayProcess, StatusMatchesChild
<1>8. CASE BeginLaunch
    <2>1. inHand.of \in present /\ child[inHand.of] = "none" /\ phase = "prelaunch" /\ phase' = "launch"
        BY <1>8 DEF BeginLaunch, MayLaunch, InPhase
    <2>2. UNCHANGED <<inHand, present, child, strays, lost>>
        BY <1>8 DEF BeginLaunch
    <2>3. shown' = [shown EXCEPT ![inHand.of] = "Launching"]
        BY <1>8 DEF BeginLaunch, Tell
    <2>4. QED
        BY <1>1, <2>1, <2>2, <2>3 DEF Games, Launching, NoStrayProcess, StatusMatchesChild, GamesOK
<1>9. CASE LaunchCancelled \/ LaunchFails
    <2>1. inHand.of \in present /\ child[inHand.of] = "none" /\ phase = "launch" /\ phase' = "idle"
        BY <1>9 DEF LaunchCancelled, LaunchFails, InPhase, Completes, Games, Launching
    <2>2. UNCHANGED <<present, child, strays, lost>>
        BY <1>9 DEF LaunchCancelled, LaunchFails
    <2>3. shown' = [shown EXCEPT ![inHand.of] = "NotRunning"]
        BY <1>9, <2>1 DEF LaunchCancelled, LaunchFails, TellCancelled, Tell, Status
    <2>4. QED
        BY <1>1, <2>1, <2>2, <2>3 DEF Games, Launching, NoStrayProcess, StatusMatchesChild, GamesOK
<1>10. CASE Spawn
    <2>1. inHand.of \in present /\ child[inHand.of] = "none" /\ phase = "launch" /\ phase' = "idle"
        BY <1>10 DEF Spawn, InPhase, Completes, Games, Launching
    <2>2. UNCHANGED <<present, lost>> /\ strays' = strays
        BY <1>10, <2>1 DEF Spawn
    <2>3. /\ shown' = [shown EXCEPT ![inHand.of] = "Running"]
          /\ child' = [child EXCEPT ![inHand.of] = "running"]
        BY <1>10 DEF Spawn, Tell
    <2>4. QED
        BY <1>1, <2>1, <2>2, <2>3 DEF Games, Launching, NoStrayProcess, StatusMatchesChild, GamesOK
<1>11. CASE KillInstance
    <2> DEFINE i == Head(requests).of
    <2>1. phase = "idle" /\ UNCHANGED <<phase, inHand, present>>
        BY <1>11 DEF KillInstance, Handles, handlerVars
    <2>2. CASE i \in present /\ child[i] # "none"
        <3>1. /\ child' = [child EXCEPT ![i] = "none"]
              /\ shown' = [shown EXCEPT ![i] = "NotRunning"]
              /\ \/ UNCHANGED <<strays, lost>>
                 \/ strays' = strays \cup {i} /\ lost' = lost \cup {i}
            BY <1>11, <2>2 DEF KillInstance, Tell
        <3>2. QED
            BY <1>1, <2>1, <3>1 DEF Games, Launching, NoStrayProcess, StatusMatchesChild, GamesOK
    <2>3. CASE ~(i \in present /\ child[i] # "none")
        BY <1>11, <2>1, <2>3, GamesUnchanged DEF KillInstance, gameVars
    <2>4. QED
        BY <2>2, <2>3
<1>12. CASE Tick
    <2> DEFINE over == {i \in present : NotAlive(i)}
    <2>1. phase = "idle" /\ UNCHANGED <<phase, inHand, present, strays, lost>>
        BY <1>12 DEF Tick, handlerVars
    <2>2. /\ child' = [i \in Instances |-> IF i \in over THEN "none" ELSE child[i]]
          /\ shown' = [i \in Instances |-> IF i \in over THEN "NotRunning" ELSE shown[i]]
        BY <1>12 DEF Tick
    <2>3. QED
        BY <1>1, <2>1, <2>2 DEF Games, Launching, NoStrayProcess, StatusMatchesChild, GamesOK
<1>13. CASE BeginProcessor \/ ProcessorEnds
    <2>1. phase \in Launching /\ phase' \in Launching /\ inHand' = inHand
        BY <1>13 DEF BeginProcessor, ProcessorEnds, InPhase, Launching
    <2>2. UNCHANGED gameVars
        BY <1>13 DEF BeginProcessor, ProcessorEnds
    <2>3. QED
        BY <2>1, <2>2, GamesUnchanged
<1>14. QED
    BY <1>2, <1>3, <1>4, <1>5, <1>6, <1>7, <1>8, <1>9, <1>10, <1>11, <1>12, <1>13
       DEF Next, MainLoop, Prompt, Unlimited

LEMMA DialogsStep == IInv /\ [Next]_vars => Dialogs'
<1> SUFFICES ASSUME IInv, [Next]_vars PROVE Dialogs'
    OBVIOUS
<1> USE DEF IInv
<1>1. LoopOK /\ AccountsOK /\ Phases /\ Dialogs
    BY DEF Types
<1>2. CASE SendRequest
    BY <1>1, <1>2 DEF SendRequest, Dialogs, Modal, loginVars, accountVars
<1>3. CASE RequestCancel
    BY <1>1, <1>3 DEF RequestCancel, Dialogs, Modal, loginVars, accountVars
<1>4. CASE InLogin(UserLogsIn \/ BrowserFails \/ Expire) \/ InLogin(LoginStep)
    <2>1. CASE LoginCancelled
        BY <1>1, <2>1 DEF LoginCancelled, LoginResult, Dialogs
    <2>2. CASE CheckStage
        BY <1>1, <2>2 DEF CheckStage, Dialogs
    <2>3. CASE MatchStage \/ UserLogsIn \/ Accepted \/ Refused
        BY <1>1, <2>3 DEF MatchStage, UserLogsIn, Accepted, Refused, Dialogs
    <2>4. CASE BrowserFails \/ ProfileFetched \/ RequestFails
        BY <1>1, <2>4 DEF BrowserFails, ProfileFetched, RequestFails, LoginResult, Dialogs
    <2>5. CASE Expire
        BY <1>1, <2>5 DEF Expire, Dialogs, accountVars
    <2>6. CASE ReturnCancelled \/ ReturnWithoutStorage
        BY <1>1, <2>6 DEF ReturnCancelled, ReturnWithoutStorage, Return, Fail, End, Modal, Dialogs
    <2>7. CASE ReturnFailed
        BY <1>1, <2>7 DEF ReturnFailed, Return, Fail, End, Modal, Dialogs
    <2>8. CASE ReturnProfile
        <3>1. asked.owner \in Accounts
            BY <2>8 DEF ReturnProfile, Owners
        <3>2. /\ known' = [known EXCEPT ![asked.owner] = IF @ = "absent" THEN "online" ELSE @]
              /\ selected' = asked.owner
            BY <2>8 DEF ReturnProfile
        <3>3. selected' \in Accounts /\ known'[selected'] # "absent"
            BY <1>1, <3>1, <3>2 DEF AccountsOK
        <3>4. UNCHANGED modal /\ step' = "returned"
            BY <2>8 DEF ReturnProfile, Return
        <3>5. QED
            BY <1>1, <3>3, <3>4 DEF Dialogs
    <2>9. QED
        BY <1>4, <2>1, <2>2, <2>3, <2>4, <2>5, <2>6, <2>7, <2>8 DEF InLogin, LoginStep
<1>5. CASE AddNewAccount \/ StartWithLogin
    <2>1. PICK a : BeginLogin(a)
        BY <1>5 DEF AddNewAccount, StartWithLogin
    <2>2. step' \in {"top", "returned"} /\ (step' = "returned" => result' = "failed")
        BY <2>1 DEF BeginLogin, StartLoop, Return
    <2>3. modal' = modal \/ modal'.cancel = FALSE
        BY <2>1 DEF BeginLogin, Fail, End, Modal
    <2>4. QED
        BY <1>1, <2>2, <2>3 DEF Dialogs
<1>6. CASE LoginReturned
    BY <1>1, <1>6 DEF LoginReturned, End, Modal, Dialogs
<1>7. CASE PrelaunchCancelled \/ PrelaunchFailed \/ LaunchRefused \/ LaunchCancelled \/ LaunchFails \/ Spawn
    <2>1. UNCHANGED <<accountVars, loginVars>> /\ modal'.cancel = FALSE /\ step = "idle"
        BY <1>1, <1>7 DEF PrelaunchCancelled, PrelaunchFailed, LaunchRefused, LaunchCancelled,
                          LaunchFails, Spawn, InPhase, Fail, End, Modal, Phases
    <2>2. QED
        BY <2>1 DEF loginVars, Dialogs
<1>8. CASE \/ GameExits \/ RemoveInstance \/ StartOffline \/ BeginLaunch
           \/ BeginProcessor \/ ProcessorEnds \/ KillInstance \/ Tick
           \/ UNCHANGED vars
    <2>1. UNCHANGED <<accountVars, loginVars, modal>>
        BY <1>8 DEF GameExits, RemoveInstance, StartOffline, BeginLaunch, BeginProcessor,
                    ProcessorEnds, gameVars, InPhase, KillInstance, Tick, vars
    <2>2. QED
        BY <1>1, <2>1 DEF accountVars, loginVars, Dialogs
<1>9. CASE SelectAccount \/ DeleteAccount \/ AddOfflineAccount
    <2>1. UNCHANGED <<loginVars, modal>> /\ step = "idle"
        BY <1>1, <1>9 DEF SelectAccount, DeleteAccount, AddOfflineAccount, Handles, Phases
    <2>2. QED
        BY <1>1, <2>1 DEF loginVars, Dialogs
<1>10. QED
    BY <1>2, <1>3, <1>4, <1>5, <1>6, <1>7, <1>8, <1>9 DEF Next, MainLoop, Prompt, Unlimited

THEOREM Invariance == Spec => []IInv
<1>1. Init => IInv
    BY IInvInit
<1>2. IInv /\ [Next]_vars => IInv'
    BY TypeStep, PhasesStep, OwnersStep, ClimbsStep, GamesStep, DialogsStep DEF IInv
<1>3. QED
    BY <1>1, <1>2, PTL DEF Spec

-----------------------------------------------------------------------------
(* What follows.                                                            *)

\* Tokens are only ever stored under the account they were issued to: for any
\* accounts, however often the user changes between them in the browser, and
\* wherever the storage fails (login_flow, write_credentials).
THEOREM TokensStayWithTheirOwner == Spec => []KeychainIsOwners
<1>1. IInv => KeychainIsOwners
    BY DEF IInv, Owners
<1>2. QED
    BY <1>1, Invariance, PTL

\* Without an expiry a login does not stand still, turns back only before its
\* first success, and never sends the user to the browser after one: with any
\* tokens left over, and any answers of the servers (BackendState::login).
THEOREM LoginsGoForward == Spec => []LoginGoesForward
<1>1. IInv => LoginGoesForward
    BY DEF IInv, Climbs
<1>2. QED
    BY <1>1, Invariance, PTL

\* A process without a Child is one whose instance was taken away or whose
\* kill failed, for any instances (StartInstance, KillInstance, handle_tick).
THEOREM ProcessesAreKept == Spec => []NoStrayProcess
<1>1. IInv => NoStrayProcess
    BY DEF IInv, Games
<1>2. QED
    BY <1>1, Invariance, PTL

\* The status the frontend shows is that of the child, whichever way a launch
\* ends (create_modify_message).
THEOREM StatusIsRight == Spec => []StatusMatchesChild
<1>1. IInv => StatusMatchesChild
    BY DEF IInv, Games
<1>2. QED
    BY <1>1, Invariance, PTL

\* Whatever ends a dialog tells the truth: of any request, early returns and
\* cancellations included (login_flow, StartInstance).
THEOREM DialogsAreTruthful == Spec => DialogTellsTheTruth
<1> DEFINE Ends == modal.state = "running" /\ modal'.state # "running"
           Truth == CASE modal'.state = "closed" -> modal.cancel /\ child' = child
                      [] modal'.state = "failed" -> child' = child
                      [] OTHER -> IF inHand.op = "start"
                                  THEN child[inHand.of] = "none" /\ child'[inHand.of] = "running"
                                  ELSE selected # None /\ known[selected] # "absent"
<1>1. ASSUME IInv, Next, Ends
      PROVE  Truth
    <2> USE <1>1 DEF IInv
    <2>1. modal' # modal
        OBVIOUS
    <2>2. CASE SendRequest \/ RequestCancel
        BY <2>2 DEF SendRequest, RequestCancel, Modal
    <2>3. CASE InLogin(UserLogsIn \/ BrowserFails \/ Expire) \/ InLogin(LoginStep)
        <3>1. ReturnCancelled \/ ReturnWithoutStorage \/ ReturnFailed
            BY <2>1, <2>3 DEF InLogin, LoginStep, UserLogsIn, BrowserFails, Expire, LoginCancelled,
                              CheckStage, MatchStage, Accepted, ProfileFetched, Refused,
                              RequestFails, ReturnProfile
        <3>2. child' = child
            BY <2>3 DEF InLogin, gameVars
        <3>3. CASE ReturnCancelled
            BY <3>2, <3>3 DEF ReturnCancelled, End, Modal, Dialogs
        <3>4. CASE ReturnWithoutStorage \/ ReturnFailed
            BY <3>2, <3>4 DEF ReturnWithoutStorage, ReturnFailed, Fail, End, Modal
        <3>5. QED
            BY <3>1, <3>3, <3>4
    <2>4. CASE AddNewAccount \/ StartWithLogin
        <3>1. child' = child
            BY <2>4 DEF AddNewAccount, StartWithLogin, gameVars
        <3>2. \E a : BeginLogin(a)
            BY <2>4 DEF AddNewAccount, StartWithLogin
        <3>3. Fail
            BY <2>1, <3>2 DEF BeginLogin
        <3>4. QED
            BY <3>1, <3>3 DEF Fail, End, Modal
    <2>5. CASE LoginReturned
        <3>1. result = "ok" /\ inHand.op # "start" /\ modal' = End("dropped")
            BY <2>1, <2>5 DEF LoginReturned
        <3>2. selected \in Accounts /\ known[selected] # "absent"
            BY <2>5, <3>1 DEF LoginReturned, Dialogs
        <3>3. QED
            BY <3>1, <3>2, LoginAssumption DEF End, Modal
    <2>6. CASE PrelaunchCancelled \/ LaunchCancelled
        BY <2>6 DEF PrelaunchCancelled, LaunchCancelled, End, Modal, gameVars
    <2>7. CASE PrelaunchFailed \/ LaunchRefused \/ LaunchFails
        BY <2>7 DEF PrelaunchFailed, LaunchRefused, LaunchFails, Fail, End, Modal, gameVars
    <2>8. CASE Spawn
        <3>1. inHand.op = "start" /\ inHand.of \in present /\ child[inHand.of] = "none"
            BY <2>8 DEF Spawn, InPhase, Types, HandlerOK, Games, Launching
        <3>2. child' = [child EXCEPT ![inHand.of] = "running"] /\ modal' = End("finished")
            BY <2>8 DEF Spawn
        <3>3. child'[inHand.of] = "running"
            BY <3>1, <3>2 DEF Types, GamesOK
        <3>4. QED
            BY <3>1, <3>2, <3>3 DEF End, Modal
    <2>9. CASE \/ GameExits \/ RemoveInstance \/ StartOffline \/ BeginLaunch
               \/ BeginProcessor \/ ProcessorEnds \/ KillInstance
               \/ SelectAccount \/ DeleteAccount \/ AddOfflineAccount \/ Tick
        BY <2>1, <2>9 DEF GameExits, RemoveInstance, StartOffline, BeginLaunch,
                          BeginProcessor, ProcessorEnds, KillInstance,
                          SelectAccount, DeleteAccount, AddOfflineAccount, Tick
    <2>10. QED
        BY <2>2, <2>3, <2>4, <2>5, <2>6, <2>7, <2>8, <2>9 DEF Next, MainLoop, Prompt, Unlimited
<1>2. IInv /\ [Next]_vars => [Ends => Truth]_vars
    BY <1>1
<1>3. QED
    BY <1>2, Invariance, PTL DEF Spec, DialogTellsTheTruth
=============================================================================
