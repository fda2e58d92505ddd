--------------------------- MODULE LaunchInstance ---------------------------
(***************************************************************************)
(* Starting and killing instances, and the account requests between them:  *)
(* backend/src/backend_handler.rs, with get_login_info and handle_tick of  *)
(* backend/src/backend.rs and LaunchContext of backend/src/launch.rs.      *)
(*                                                                         *)
(* The main loop awaits a launch in place, its login included: requests,   *)
(* the tick and events of the file system wait meanwhile.  Only the user's *)
(* cancel request, a token of the ModalAction, reaches a running launch.   *)
(***************************************************************************)
EXTENDS Login, Sequences

CONSTANTS
    Instances,
    MaxRequests   \* bound on the user's requests

ASSUME LaunchAssumption ==
    /\ None \notin Instances
    /\ MaxRequests \in Nat

AccountOps == {"select", "delete", "offline"}
Request(op, of) == [op |-> op, of |-> of]
NoRequest == Request("none", None)
Requests ==
    [op : {"start", "kill"}, of : Instances] \cup [op : AccountOps, of : Accounts]
        \cup {Request("add", None)}

VARIABLES
    requests,   \* messages not yet handled, oldest first
    sent,
    phase,      \* of the request in hand: "idle", "login", "prelaunch", "launch", or
                \* "processor" while a launch runs a processor of Forge's installer
    inHand,
    present,    \* instances in the backend's table
    child,      \* the process behind Instance.child: "none", "running" or "exited"
    strays,     \* instances with a process that no Child stands for
    shown,      \* the status the frontend was told last
    lost        \* history: instances whose Child was dropped or not killed

requestVars == <<requests, sent>>
handlerVars == <<phase, inHand>>
gameVars == <<present, child, strays, shown, lost>>
vars == <<storeVars, accountVars, loginVars, modal, requestVars, handlerVars, gameVars>>

Init ==
    /\ LoginInit
    /\ requests = <<>> /\ sent = 0
    /\ phase = "idle" /\ inHand = NoRequest
    /\ present = Instances
    /\ child = [i \in Instances |-> "none"]
    /\ strays = {} /\ lost = {}
    /\ shown = [i \in Instances |-> "NotRunning"]

-----------------------------------------------------------------------------
(* The user and the game.                                                   *)

\* A dialog covers the window while its ModalAction runs: requests are made
\* without one.  Those that show one make a new ModalAction.
SendRequest ==
    /\ sent < MaxRequests /\ modal.state # "running"
    /\ sent' = sent + 1
    /\ \/ /\ \/ \E i \in Instances : requests' = Append(requests, Request("start", i))
             \/ requests' = Append(requests, Request("add", None))
          /\ modal' = Modal("running", FALSE)
       \/ /\ \/ \E i \in Instances : requests' = Append(requests, Request("kill", i))
             \/ \E op \in AccountOps, a \in Accounts : requests' = Append(requests, Request(op, a))
          /\ UNCHANGED modal
    /\ UNCHANGED <<storeVars, accountVars, loginVars, handlerVars, gameVars>>

RequestCancel ==
    /\ modal.state = "running" /\ ~modal.cancel
    /\ modal' = Modal("running", TRUE)
    /\ UNCHANGED <<storeVars, accountVars, loginVars, requestVars, handlerVars, gameVars>>

GameExits ==
    /\ \E i \in Instances :
          \/ /\ child[i] = "running"
             /\ child' = [child EXCEPT ![i] = "exited"]
             /\ UNCHANGED strays
          \/ /\ i \in strays
             /\ strays' = strays \ {i}
             /\ UNCHANGED child
    /\ UNCHANGED <<storeVars, accountVars, loginVars, modal, requestVars, handlerVars,
                   present, shown, lost>>

\* An event of the file system takes the instance out of the table and its
\* Child with it: the process goes on.
RemoveInstance ==
    /\ phase = "idle"
    /\ \E i \in present :
          /\ present' = present \ {i}
          /\ lost' = lost \cup {i}
          /\ strays' = IF child[i] = "running" THEN strays \cup {i} ELSE strays
          /\ child' = [child EXCEPT ![i] = "none"]
    /\ UNCHANGED <<storeVars, accountVars, loginVars, modal, requestVars, handlerVars, shown>>

-----------------------------------------------------------------------------
(* The requests.                                                            *)

Handles(op) ==
    /\ phase = "idle"
    /\ requests # <<>> /\ Head(requests).op = op
    /\ requests' = Tail(requests)
    /\ UNCHANGED sent

Takes(next) == phase' = next /\ inHand' = Head(requests)
Completes == phase' = "idle" /\ inHand' = NoRequest

Status(c) == IF c = "none" THEN "NotRunning" ELSE "Running"

\* create_modify_message of one instance.
Tell(i, status) == shown' = [shown EXCEPT ![i] = status]

AddNewAccount ==
    /\ Handles("add")
    /\ BeginLogin(None)
    /\ Takes("login")
    /\ UNCHANGED <<keychain, accountVars, gameVars>>

\* get_login_info: an offline account needs no login, and a selected account
\* that is not in the list counts as none.
StartOffline ==
    /\ Handles("start")
    /\ selected # None /\ known[selected] = "offline"
    /\ Takes("prelaunch")
    /\ UNCHANGED <<storeVars, accountVars, loginVars, modal, gameVars>>

StartWithLogin ==
    /\ Handles("start")
    /\ ~(selected # None /\ known[selected] = "offline")
    /\ BeginLogin(IF selected # None /\ known[selected] = "online" THEN selected ELSE None)
    /\ Takes("login")
    /\ UNCHANGED <<keychain, accountVars, gameVars>>

\* A login that ends closes AddNewAccount's dialog only by dropping its
\* ModalAction.
LoginReturned ==
    /\ phase = "login" /\ step = "returned"
    /\ step' = "idle" /\ result' = "none" /\ expiries' = 0
    /\ IF result = "ok" /\ inHand.op = "start"
       THEN phase' = "prelaunch" /\ UNCHANGED <<inHand, modal>>
       ELSE Completes /\ modal' = IF result = "ok" THEN End("dropped") ELSE modal
    /\ UNCHANGED <<storeVars, accountVars, loginAs, creds, expired, lastStage, allowBackwards, asked,
                   accepted, requestVars, gameVars>>

InPhase(p) == phase = p /\ UNCHANGED <<storeVars, accountVars, loginVars, requestVars>>

PrelaunchCancelled ==
    /\ InPhase("prelaunch")
    /\ modal.cancel
    /\ modal' = End("closed")
    /\ Completes
    /\ UNCHANGED gameVars

\* A download for a modpack failed: its error ends the launch.
PrelaunchFailed ==
    /\ InPhase("prelaunch")
    /\ Fail
    /\ Completes
    /\ UNCHANGED gameVars

\* Mutant: an instance that runs is launched again.
MayLaunchTwice(i) == i \in present

\* The instance is there and has no child.
MayLaunch(i) == i \in present /\ child[i] = "none"

\* "Can't launch instance, already running", or "unknown id".
LaunchRefused ==
    /\ InPhase("prelaunch")
    /\ ~MayLaunch(inHand.of)
    /\ Fail
    /\ Completes
    /\ UNCHANGED gameVars

BeginLaunch ==
    /\ InPhase("prelaunch")
    /\ MayLaunch(inHand.of)
    /\ Tell(inHand.of, "Launching")
    /\ phase' = "launch"
    /\ UNCHANGED <<modal, inHand, present, child, strays, lost>>

\* std's Child::wait blocks the thread: nobody looks at the cancel request.
BeginProcessor ==
    /\ InPhase("launch")
    /\ phase' = "processor"
    /\ UNCHANGED <<modal, inHand, gameVars>>

ProcessorEnds ==
    /\ InPhase("processor")
    /\ phase' = "launch"
    /\ UNCHANGED <<modal, inHand, gameVars>>

\* Mutant: the frontend is not told that the launch was cancelled.
TellNothing == UNCHANGED shown

TellCancelled == Tell(inHand.of, Status(child[inHand.of]))

LaunchCancelled ==
    /\ InPhase("launch")
    /\ modal.cancel
    /\ modal' = End("closed")
    /\ TellCancelled
    /\ Completes
    /\ UNCHANGED <<present, child, strays, lost>>

\* An error may come first although the user has cancelled.
LaunchFails ==
    /\ InPhase("launch")
    /\ Fail
    /\ Tell(inHand.of, Status(child[inHand.of]))
    /\ Completes
    /\ UNCHANGED <<present, child, strays, lost>>

\* The last look at the cancel request is just before the process is spawned.
Spawn ==
    /\ InPhase("launch")
    /\ ~modal.cancel
    /\ modal' = End("finished")
    /\ strays' = IF child[inHand.of] = "running" THEN strays \cup {inHand.of} ELSE strays
    /\ child' = [child EXCEPT ![inHand.of] = "running"]
    /\ Tell(inHand.of, "Running")
    /\ Completes
    /\ UNCHANGED <<present, lost>>

\* Child::kill may fail, but the Child is gone by then.
KillInstance ==
    /\ Handles("kill")
    /\ LET i == Head(requests).of
       IN  IF i \in present /\ child[i] # "none"
           THEN /\ child' = [child EXCEPT ![i] = "none"]
                /\ \/ UNCHANGED <<strays, lost>>
                   \/ /\ child[i] = "running"
                      /\ strays' = strays \cup {i} /\ lost' = lost \cup {i}
                /\ Tell(i, "NotRunning")
           ELSE UNCHANGED <<child, strays, lost, shown>>
    /\ UNCHANGED <<storeVars, accountVars, loginVars, modal, handlerVars, present>>

SelectAccount ==
    /\ Handles("select")
    /\ LET a == Head(requests).of
       IN  selected' = IF known[a] # "absent" THEN a ELSE selected
    /\ UNCHANGED <<storeVars, known, loginVars, modal, handlerVars, gameVars>>

\* The stored credentials stay.
DeleteAccount ==
    /\ Handles("delete")
    /\ LET a == Head(requests).of
       IN  /\ known' = [known EXCEPT ![a] = "absent"]
           /\ selected' = IF selected = a THEN None ELSE selected
    /\ UNCHANGED <<storeVars, loginVars, modal, handlerVars, gameVars>>

\* The user types the uuid: it may be that of an account that is there.
AddOfflineAccount ==
    /\ Handles("offline")
    /\ LET a == Head(requests).of
       IN  known' = [known EXCEPT ![a] = "offline"] /\ selected' = a
    /\ UNCHANGED <<storeVars, loginVars, modal, handlerVars, gameVars>>

NotAlive(i) == child[i] = "exited"

\* handle_tick: children that are no longer alive.
Tick ==
    /\ phase = "idle"
    /\ LET over == {i \in present : NotAlive(i)}
       IN  /\ over # {}
           /\ child' = [i \in Instances |-> IF i \in over THEN "none" ELSE child[i]]
           /\ shown' = [i \in Instances |-> IF i \in over THEN "NotRunning" ELSE shown[i]]
    /\ UNCHANGED <<storeVars, accountVars, loginVars, modal, requestVars, handlerVars,
                   present, strays, lost>>

\* The login's own steps, taken within the request in hand.
InLogin(A) == A /\ UNCHANGED <<requestVars, handlerVars, gameVars>>

\* What is handled at once, or after an answer that has a time limit.
Prompt ==
    \/ AddNewAccount \/ StartOffline \/ StartWithLogin
    \/ InLogin(LoginStep) \/ LoginReturned
    \/ PrelaunchCancelled \/ LaunchCancelled
    \/ KillInstance \/ SelectAccount \/ DeleteAccount \/ AddOfflineAccount
    \/ Tick

\* What comes after downloads without a time limit, or after another program.
Unlimited ==
    \/ PrelaunchFailed \/ LaunchRefused \/ BeginLaunch
    \/ BeginProcessor \/ ProcessorEnds
    \/ LaunchFails \/ Spawn

MainLoop == Prompt \/ Unlimited

Next ==
    \/ SendRequest \/ RequestCancel \/ GameExits \/ RemoveInstance
    \/ InLogin(UserLogsIn \/ BrowserFails \/ Expire)
    \/ MainLoop

Spec == Init /\ [][Next]_vars

\* A login goes on: its requests go through http_client, whose connections and
\* reads have a time limit of 15 seconds.  A cancel request is heeded: prelaunch
\* and launch are awaited in a select! against it.  Nothing else is promised:
\* launches and modpacks are downloaded through redirecting_http_client, which
\* has no limit, processors run as long as they like, and the user need not come
\* back from the browser.
FairSpec == Spec /\ WF_vars(Prompt)

-----------------------------------------------------------------------------
(* Properties.                                                              *)

\* The type invariant.
TypeOK ==
    /\ LoginTypeOK
    /\ requests \in Seq(Requests)
    /\ sent \in Nat
    /\ phase \in {"idle", "login", "prelaunch", "launch", "processor"}
    /\ inHand \in [op : {"start"}, of : Instances] \cup {Request("add", None), NoRequest}
    /\ present \subseteq Instances
    /\ child \in [Instances -> {"none", "running", "exited"}]
    /\ strays \subseteq Instances
    /\ shown \in [Instances -> {"NotRunning", "Launching", "Running"}]
    /\ lost \subseteq Instances

\* The frontend shows "launching" only while the instance is being launched,
\* and "running" exactly as long as the backend has a Child: whichever way a
\* launch ends the buttons work again.
StatusMatchesChild ==
    \A i \in present :
        /\ shown[i] = "Launching" <=> phase \in {"launch", "processor"} /\ inHand.of = i
        /\ shown[i] = "Running" <=> child[i] # "none"

\* No process is left without a Child, so that it could neither be killed nor
\* keep the instance from being started twice, unless the instance was taken
\* away under it or the system refused to kill it.
NoStrayProcess == strays \subseteq lost

Busy == phase # "idle" \/ requests # <<>>

\* A dialog tells the truth, whichever early return ended it: it vanishes only
\* when the user cancelled it, an error left no process behind, and without an
\* error the game runs or the account is there and selected.
DialogTellsTheTruth ==
    [][modal.state = "running" /\ modal'.state # "running" =>
          CASE modal'.state = "closed" -> modal.cancel /\ child' = child
            [] modal'.state = "failed" -> child' = child
            [] OTHER -> IF inHand.op = "start"
                        THEN child[inHand.of] = "none" /\ child'[inHand.of] = "running"
                        ELSE selected # None /\ known[selected] # "absent"]_vars

\* Nothing but the outside world can end this: a processor, or the browser and
\* the servers of files while the user has not cancelled.
AwaitsTheWorld ==
    \/ phase = "processor"
    \/ ~modal.cancel /\ (step = "browser" \/ phase \in {"prelaunch", "launch"})

\* The main loop gets back to its other work, or waits for the outside world:
\* logins that walk down and up the stages end, and a cancel request is heeded
\* wherever they, or a launch, have got to.
MainLoopReturns == Busy ~> ~Busy \/ AwaitsTheWorld
=============================================================================
