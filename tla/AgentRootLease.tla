---------------------------- MODULE AgentRootLease ----------------------------
(****************************************************************************)
(* Who keeps one project root open (src-tauri/src/agent_root_lease.rs,      *)
(* lib_composition/agent_root_workspace_registration.rs, the lease commands *)
(* of lib_composition/agent_task_commands.rs, the close commands of         *)
(* lib_composition/workspace_facade, and workspace_registry).               *)
(*                                                                          *)
(* The root's workspace is registered once and held by its admissions: one  *)
(* for every editor tab that opened it, one for the agents' lease.  The     *)
(* last owner to leave takes the workspace down.  Every change of the       *)
(* admissions withdraws the authority of the trust operations under way,    *)
(* waits, with no lock held, for those that are committing, and publishes   *)
(* the newest admission again.  Commands of several windows run at once;    *)
(* each action below is what one command does under one lock.               *)
(*                                                                          *)
(* A workspace id is named by the registration token that created it, and   *)
(* a lease by the token of its registration: both are issued together, once.*)
(****************************************************************************)
EXTENDS Naturals, FiniteSetsExt, Functions

CONSTANTS
    Commands,       \* the commands that may run at the same time
    NoCommand,
    MaxTokens,      \* tokens the registry can issue; small here, 2^53 - 1 in the code
    MaxAdmissions   \* MAX_ACTIVE_REGISTRATION_ADMISSIONS

ASSUME RegistryAssumption ==
    /\ NoCommand \notin Commands
    /\ MaxTokens \in Nat
    /\ MaxAdmissions \in Nat \ {0}

VARIABLES
    identity,   \* the root's workspace id, 0 when it is not registered
    admissions, \* ManagedWorkspace.registration_admissions, by token
    latest,     \* ManagedWorkspace.latest_admission_token
    closing,    \* ManagedWorkspace.unregister_generation: the command it belongs to
    issued,     \* WorkspaceRegistry.next_registration_token
    current,    \* RegistrationOperationState.latest_admissions, 0 for none
    live,       \* RegistrationOperationState.leases: operations not revoked
    awaited,    \* the commit gates a RegistrationOperationTransition still waits for
    lease,      \* AgentRootLeaseState.leases of this root: the token, 0 for none
    releasing,  \* AgentRootLease.releasing
    job,        \* where each command is
    opened,     \* history: editor tokens the registry returned
    given,      \* history: editor tokens whose owner asked to give them up
    told        \* history: workspace ids that a window was told

registryVars == <<identity, admissions, latest, closing, issued>>
operationVars == <<current, live, awaited>>
leaseVars == <<lease, releasing>>
historyVars == <<opened, given, told>>
vars == <<registryVars, operationVars, leaseVars, job, historyVars>>

Retained == 0  \* RETAINED_REGISTRATION_ADMISSION
Tokens == 1..MaxTokens
Kinds == {"none", "acquire", "release", "open", "unregister", "withdraw", "dispose",
          "adopt", "operate", "start"}
Places == {"idle", "asked", "registering", "publishing", "taking", "rollback",
           "removing", "begun", "republishing", "cleanup", "failed", "restoring",
           "settled", "reserved", "committing", "starting"}
Idle == [kind |-> "none", at |-> "idle", token |-> 0, latest |-> 0]

TypeOK ==
    /\ identity \in 0..MaxTokens /\ latest \in 0..MaxTokens
    /\ issued \in 0..MaxTokens /\ current \in 0..MaxTokens
    /\ DOMAIN admissions \subseteq 0..issued
    /\ (identity = 0) = (DOMAIN admissions = {})
    /\ \A t \in DOMAIN admissions :
           admissions[t] \in [owner : {"editor", "agent"}, published : BOOLEAN]
    /\ closing \in Commands \cup {NoCommand}
    /\ live \subseteq {c \in Commands : job[c].kind = "operate"}
    /\ awaited \in [Commands -> SUBSET {c \in Commands : job[c].at = "committing"}]
    /\ lease \in 0..issued /\ releasing \in BOOLEAN
    /\ job \in [Commands -> [kind : Kinds, at : Places, token : 0..issued,
                             latest : 0..issued]]
    /\ given \subseteq opened /\ opened \subseteq 1..issued /\ told \subseteq 1..issued

Init ==
    /\ identity = 0 /\ admissions = <<>> /\ latest = 0 /\ closing = NoCommand
    /\ issued = 0 /\ current = 0 /\ live = {} /\ awaited = [c \in Commands |-> {}]
    /\ lease = 0 /\ releasing = FALSE
    /\ job = [c \in Commands |-> Idle] /\ opened = {} /\ given = {} /\ told = {}

----------------------------------------------------------------------------
(* Commands and the registry's helpers.                                     *)

At(c, place) == job[c].at = place
Begin(c, kind, place, t) ==
    job' = [job EXCEPT ![c] = [kind |-> kind, at |-> place, token |-> t, latest |-> 0]]
Go(c, place) == job' = [job EXCEPT ![c].at = place]
Finish(c) == job' = [job EXCEPT ![c] = Idle]

Holds(t) == t \in DOMAIN admissions
Open == identity # 0 /\ closing = NoCommand

(* RegistrationOperationRegistry::begin_transition: no admission is current *)
(* and no operation live; c will wait for those inside their commit.        *)
BeginTransition(c) ==
    /\ current' = 0
    /\ live' = {}
    /\ awaited' = [awaited EXCEPT ![c] = {d \in live : At(d, "committing")}]

(* remove_losing_registration_admission: the map is never left empty.       *)
Without(t) ==
    IF DOMAIN admissions = {t}
    THEN [u \in {Retained} |-> [owner |-> admissions[t].owner, published |-> TRUE]]
    ELSE Restrict(admissions, DOMAIN admissions \ {t})

LoseAdmission(t) ==
    /\ admissions' = Without(t)
    /\ latest' = IF Holds(t) THEN Max(DOMAIN Without(t)) ELSE latest
    /\ UNCHANGED <<identity, closing, issued>>

(* Mutant: the newest admission is read before the removal. *)
LeaveOthers_old_latest(c, t) ==
    /\ LoseAdmission(t)
    /\ BeginTransition(c)
    /\ job' = [job EXCEPT ![c].at = "republishing", ![c].latest = latest]

(* An owner that is not the last one leaves; c will publish who is newest.  *)
LeaveOthers(c, t) ==
    /\ LoseAdmission(t)
    /\ BeginTransition(c)
    /\ job' = [job EXCEPT ![c].at = "republishing", ![c].latest = latest']

(* The last owner leaves: nobody registers or reserves until c is through.  *)
CloseWorkspace(c, place) ==
    /\ closing' = c
    /\ BeginTransition(c)
    /\ Go(c, place)
    /\ UNCHANGED <<identity, admissions, latest, issued>>

RemoveWorkspace ==
    /\ identity' = 0 /\ admissions' = <<>> /\ latest' = 0 /\ closing' = NoCommand
    /\ UNCHANGED issued

IsLastOwner(t) == DOMAIN admissions = {t}

(* has_runtime_start.  A start is counted under the workspace id it saw.    *)
HasRuntimeStart == \E d \in Commands : At(d, "starting") /\ job[d].token = identity

----------------------------------------------------------------------------
(* Registration: WorkspaceRegistry::register_owner_with_receipt.            *)

(* The locked half: the admission is inserted, the authority withdrawn.     *)
Insert(c, kind, owner) ==
    LET t == issued + 1 IN
    /\ issued < MaxTokens
    /\ closing = NoCommand
    /\ Cardinality(DOMAIN admissions) < MaxAdmissions
    /\ identity' = IF identity = 0 THEN t ELSE identity
    /\ admissions' = [u \in DOMAIN admissions \cup {t} |->
                         IF u = t THEN [owner |-> owner, published |-> FALSE]
                         ELSE admissions[u]]
    /\ latest' = t
    /\ issued' = t
    /\ BeginTransition(c)
    /\ Begin(c, kind, "publishing", t)
    /\ UNCHANGED <<closing, leaseVars, historyVars>>

OpenEditor(c) == At(c, "idle") /\ Insert(c, "open", "editor")

RegisterAgent(c) == At(c, "registering") /\ Insert(c, "acquire", "agent")

(* The root is being unregistered, or a limit is reached: acquire fails.    *)
RegisterRefused(c) ==
    /\ At(c, "registering")
    /\ \/ issued = MaxTokens
       \/ closing # NoCommand
       \/ Cardinality(DOMAIN admissions) >= MaxAdmissions
    /\ Finish(c)
    /\ UNCHANGED <<registryVars, operationVars, leaseVars, historyVars>>

IsCurrent(t) == closing = NoCommand /\ latest = t /\ Holds(t)

(* Mutant: the registration does not wait for the commits it revoked. *)
Publish_before_commits(c) ==
    LET t == job[c].token IN
    /\ At(c, "publishing")
    /\ IsCurrent(t)
    /\ admissions' = [admissions EXCEPT ![t].published = TRUE]
    /\ current' = t
    /\ IF job[c].kind = "open"
       THEN Finish(c) /\ opened' = opened \cup {t} /\ told' = told \cup {identity}
       ELSE Go(c, "taking") /\ UNCHANGED <<opened, told>>
    /\ UNCHANGED <<identity, latest, closing, issued, live, awaited, leaseVars, given>>

(* The commits are over and the admission is still the newest one.          *)
Publish(c) ==
    LET t == job[c].token IN
    /\ At(c, "publishing") /\ awaited[c] = {}
    /\ IsCurrent(t)
    /\ admissions' = [admissions EXCEPT ![t].published = TRUE]
    /\ current' = t
    /\ IF job[c].kind = "open"
       THEN Finish(c) /\ opened' = opened \cup {t} /\ told' = told \cup {identity}
       ELSE Go(c, "taking") /\ UNCHANGED <<opened, told>>
    /\ UNCHANGED <<identity, latest, closing, issued, live, awaited, leaseVars, given>>

(* A newer registration came first: this one takes its admission back.      *)
LosePublication(c) ==
    /\ At(c, "publishing") /\ awaited[c] = {}
    /\ ~IsCurrent(job[c].token)
    /\ LoseAdmission(job[c].token)
    /\ Finish(c)
    /\ UNCHANGED <<operationVars, leaseVars, historyVars>>

(* Mutant: what was the newest admission is published unseen. *)
Republish_unchecked(c) ==
    /\ At(c, "republishing") /\ awaited[c] = {}
    /\ current' = job[c].latest
    /\ IF job[c].kind = "release" THEN Go(c, "settled") ELSE Finish(c)
    /\ UNCHANGED <<registryVars, live, awaited, leaseVars, historyVars>>

(* publish_registration_if_latest, after a change that left other owners.   *)
(* The release of a lease has its outcome; every other command ends here.   *)
Republish(c) ==
    LET t == job[c].latest IN
    /\ At(c, "republishing") /\ awaited[c] = {}
    /\ current' = IF IsCurrent(t) THEN t ELSE current
    /\ IF job[c].kind = "release" THEN Go(c, "settled") ELSE Finish(c)
    /\ UNCHANGED <<registryVars, live, awaited, leaseVars, historyVars>>

----------------------------------------------------------------------------
(* acquire_registered_workspace_lease                                       *)

(* The root is not being released: go on.  Otherwise the command fails.     *)
AskReleasing(c) ==
    /\ At(c, "idle")
    /\ ~releasing
    /\ Begin(c, "acquire", "asked", 0)
    /\ UNCHANGED <<registryVars, operationVars, leaseVars, historyVars>>

(* AgentRootLeaseRegistry::registered: an existing lease is handed out.     *)
LookUp(c) ==
    /\ At(c, "asked")
    /\ IF lease # 0 /\ ~releasing THEN Finish(c) ELSE Go(c, "registering")
    /\ UNCHANGED <<registryVars, operationVars, leaseVars, historyVars>>

(* acquire_registered: the first to get here keeps its registration.        *)
TakeLease(c) ==
    /\ At(c, "taking")
    /\ lease = 0
    /\ lease' = job[c].token
    /\ releasing' = FALSE
    /\ told' = told \cup {identity}
    /\ Finish(c)
    /\ UNCHANGED <<registryVars, operationVars, opened, given>>

(* Mutant: the registration is left behind when the lease is refused. *)
TakeRefused_kept(c) ==
    /\ At(c, "taking")
    /\ Finish(c)
    /\ UNCHANGED <<registryVars, operationVars, leaseVars, historyVars>>

(* A lease exists, is being released, or there are too many (the leases of  *)
(* other roots count): the registration just made is taken back.            *)
TakeRefused(c) ==
    /\ At(c, "taking")
    /\ Go(c, "rollback")
    /\ UNCHANGED <<registryVars, operationVars, leaseVars, historyVars>>

(* Mutant: the registration that created the workspace takes it along. *)
Rollback_created_identity(c) ==
    LET t == job[c].token IN
    /\ At(c, "rollback")
    /\ closing = NoCommand
    /\ Holds(t)
    /\ IF t = identity THEN CloseWorkspace(c, "removing") ELSE LeaveOthers(c, t)
    /\ UNCHANGED <<leaseVars, historyVars>>

(* rollback_registration.  Its returns for a workspace or an admission that *)
(* is gone, or is being unregistered, never happen here: nobody else knows  *)
(* the token (HalfwayHasACommand).                                          *)
Rollback(c) ==
    LET t == job[c].token IN
    /\ At(c, "rollback")
    /\ closing = NoCommand
    /\ Holds(t)
    /\ IF IsLastOwner(t) THEN CloseWorkspace(c, "removing") ELSE LeaveOthers(c, t)
    /\ UNCHANGED <<leaseVars, historyVars>>

(* finalize_registration_rollback                                           *)
FinishRollback(c) ==
    /\ At(c, "removing") /\ awaited[c] = {}
    /\ IF closing = c /\ IsLastOwner(job[c].token)
       THEN RemoveWorkspace ELSE UNCHANGED registryVars
    /\ Finish(c)
    /\ UNCHANGED <<operationVars, leaseVars, historyVars>>

----------------------------------------------------------------------------
(* Owners leave: release_agent_root_lease and the editor's close commands.  *)

(* begin_release_registered: only the lease's holder, and only once.        *)
BeginRelease(c) ==
    /\ At(c, "idle")
    /\ lease # 0
    /\ ~releasing
    /\ releasing' = TRUE
    /\ Begin(c, "release", "begun", lease)
    /\ UNCHANGED <<registryVars, operationVars, lease, historyVars>>

(* unregister_workspace, rollback_workspace_registration and                *)
(* dispose_registered_workspace, with a token the editor was given.         *)
BeginClose(c, kind, t) ==
    /\ At(c, "idle")
    /\ t \in opened
    /\ Begin(c, kind, "begun", t)
    /\ given' = given \cup {t}
    /\ UNCHANGED <<registryVars, operationVars, leaseVars, opened, told>>

(* has_newer_published_editor_admission                                     *)
Superseded(t) ==
    \E u \in DOMAIN admissions :
        u > t /\ admissions[u].published /\ admissions[u].owner = "editor"

(* released_admission_tokens: does this command's scope name an admission?  *)
InScope(c) ==
    LET t == job[c].token IN
    /\ Holds(t)
    /\ job[c].kind \in {"unregister", "dispose"} => ~Superseded(t)

(* The outcome of a close that changed nothing.                             *)
EndClose(c, outcome) ==
    /\ IF job[c].kind = "release" THEN Go(c, outcome) ELSE Finish(c)
    /\ UNCHANGED <<registryVars, operationVars>>

(* Mutant: the refusal is returned at once, with the release pending. *)
DisposalRefused_unsettled(c) ==
    /\ At(c, "begun")
    /\ Finish(c)
    /\ UNCHANGED <<registryVars, operationVars, leaseVars, historyVars>>

(* owner_disposal_ticket may refuse before the registry is asked.           *)
DisposalRefused(c) ==
    /\ At(c, "begun")
    /\ EndClose(c, "failed")
    /\ UNCHANGED <<leaseVars, historyVars>>

(* release_owner: unknown, stale, already releasing, or a start under way.  *)
ReleaseRefused(c) ==
    /\ At(c, "begun")
    /\ \/ ~InScope(c) /\ EndClose(c, "settled")
       \/ InScope(c) /\ closing # NoCommand /\ EndClose(c, "failed")
       \/ /\ InScope(c) /\ closing = NoCommand
          /\ IsLastOwner(job[c].token) /\ HasRuntimeStart
          /\ EndClose(c, "failed")
    /\ UNCHANGED <<leaseVars, historyVars>>

(* release_owner: the last owner takes the workspace down, another leaves.  *)
ReleaseOwner(c) ==
    LET t == job[c].token IN
    /\ At(c, "begun")
    /\ InScope(c)
    /\ closing = NoCommand
    /\ \/ IsLastOwner(t) /\ ~HasRuntimeStart /\ CloseWorkspace(c, "cleanup")
       \/ ~IsLastOwner(t) /\ LeaveOthers(c, t)
    /\ UNCHANGED <<leaseVars, historyVars>>

(* finalize_unregister, after the runtimes of the root were taken down.     *)
FinalizeUnregister(c) ==
    /\ At(c, "cleanup") /\ awaited[c] = {}
    /\ IF closing = c THEN RemoveWorkspace ELSE UNCHANGED registryVars
    /\ IF job[c].kind = "release" THEN Go(c, "settled") ELSE Finish(c)
    /\ UNCHANGED <<operationVars, leaseVars, historyVars>>

(* Mutant: the generation is left behind. *)
CancelUnregister_still_closing(c) ==
    /\ At(c, "cleanup") /\ awaited[c] = {}
    /\ job[c].kind = "dispose"
    /\ closing = c
    /\ current' = latest
    /\ Finish(c)
    /\ UNCHANGED <<registryVars, live, awaited, leaseVars, historyVars>>

(* teardown_exact_workspace: a cleanup with errors is called off, and       *)
(* cancel_unregister publishes the newest admission again.                  *)
CancelUnregister(c) ==
    /\ At(c, "cleanup") /\ awaited[c] = {}
    /\ job[c].kind = "dispose"
    /\ closing = c
    /\ closing' = NoCommand
    /\ current' = latest
    /\ Finish(c)
    /\ UNCHANGED <<identity, admissions, latest, issued, live, awaited, leaseVars,
                   historyVars>>

(* complete_agent_root_lease_release, after a close that failed: the lease  *)
(* is restored if the registry still holds its admission.                   *)
ReadHolds(c) ==
    /\ At(c, "failed")
    /\ Go(c, IF Holds(job[c].token) THEN "restoring" ELSE "settled")
    /\ UNCHANGED <<registryVars, operationVars, leaseVars, historyVars>>

(* finish_release and abort_release touch only the lease they were for.     *)
FinishRelease(c) ==
    /\ At(c, "settled")
    /\ IF lease = job[c].token /\ releasing
       THEN lease' = 0 /\ releasing' = FALSE ELSE UNCHANGED leaseVars
    /\ Finish(c)
    /\ UNCHANGED <<registryVars, operationVars, historyVars>>

AbortRelease(c) ==
    /\ At(c, "restoring")
    /\ releasing' = IF lease = job[c].token THEN FALSE ELSE releasing
    /\ Finish(c)
    /\ UNCHANGED <<registryVars, operationVars, lease, historyVars>>

(* adopt_admission: a tab that was opened again gives up its older token.   *)
Adopt(c, new, old) ==
    /\ At(c, "idle")
    /\ Open
    /\ {new, old} \subseteq opened /\ new # old
    /\ Holds(new) /\ admissions[new].published
    /\ Holds(old)
    /\ LoseAdmission(old)
    /\ BeginTransition(c)
    /\ job' = [job EXCEPT ![c] = [kind |-> "adopt", at |-> "republishing",
                                  token |-> new, latest |-> latest']]
    /\ given' = given \cup {old}
    /\ UNCHANGED <<leaseVars, opened, told>>

----------------------------------------------------------------------------
(* Trust operations and starts, which need the workspace to stay.           *)

(* reserve_latest_registration_operation (a grant of trust) wants the       *)
(* newest admission, reserve_held_registration_operation (a revocation) any.*)
ReserveOperation(c, t) ==
    /\ At(c, "idle")
    /\ Open
    /\ t \in opened
    /\ Holds(t)
    /\ current = latest
    /\ live' = live \cup {c}
    /\ Begin(c, "operate", "reserved", latest)
    /\ UNCHANGED <<registryVars, current, awaited, leaseVars, historyVars>>

(* with_current_commit: the authority is checked with the commit gate held. *)
BeginCommit(c) ==
    /\ At(c, "reserved")
    /\ c \in live
    /\ current = job[c].token
    /\ Go(c, "committing")
    /\ UNCHANGED <<registryVars, operationVars, leaseVars, historyVars>>

(* Mutant: the lease of an operation outlives it. *)
EndOperation_lease_leaks(c) ==
    /\ At(c, "reserved") \/ At(c, "committing")
    /\ awaited' = [d \in Commands |-> awaited[d] \ {c}]
    /\ Finish(c)
    /\ UNCHANGED <<registryVars, current, live, leaseVars, historyVars>>

(* The commit is over, or the operation was refused or given up before it:  *)
(* the gate opens, and the entry leaves the registry with its lease.        *)
EndOperation(c) ==
    /\ At(c, "reserved") \/ At(c, "committing")
    /\ live' = live \ {c}
    /\ awaited' = [d \in Commands |-> awaited[d] \ {c}]
    /\ Finish(c)
    /\ UNCHANGED <<registryVars, current, leaseVars, historyVars>>

(* Mutant: a workspace that is being taken down is found, too. *)
ReserveStart_while_closing(c) ==
    /\ At(c, "idle")
    /\ identity # 0
    /\ identity \in told
    /\ Begin(c, "start", "starting", identity)
    /\ UNCHANGED <<registryVars, operationVars, leaseVars, historyVars>>

(* reserve_runtime_start of start_agent_task, for a workspace that a window *)
(* knows, and the end of its lease.                                         *)
ReserveStart(c) ==
    /\ At(c, "idle")
    /\ Open
    /\ identity \in told
    /\ Begin(c, "start", "starting", identity)
    /\ UNCHANGED <<registryVars, operationVars, leaseVars, historyVars>>

ReleaseStart(c) ==
    /\ At(c, "starting")
    /\ Finish(c)
    /\ UNCHANGED <<registryVars, operationVars, leaseVars, historyVars>>

----------------------------------------------------------------------------
(* A command that a window sends.                                           *)
Request(c) ==
    \/ AskReleasing(c)
    \/ BeginRelease(c)
    \/ OpenEditor(c)
    \/ \E t \in opened, kind \in {"unregister", "withdraw", "dispose"} :
           BeginClose(c, kind, t)
    \/ \E new, old \in opened : Adopt(c, new, old)
    \/ \E t \in opened : ReserveOperation(c, t)
    \/ ReserveStart(c)

(* The next step of a command that was sent.                                *)
Advance(c) ==
    \/ LookUp(c) \/ RegisterAgent(c) \/ RegisterRefused(c)
    \/ Publish(c) \/ LosePublication(c) \/ Republish(c)
    \/ TakeLease(c) \/ TakeRefused(c)
    \/ Rollback(c) \/ FinishRollback(c)
    \/ DisposalRefused(c) \/ ReleaseRefused(c) \/ ReleaseOwner(c)
    \/ FinalizeUnregister(c) \/ CancelUnregister(c)
    \/ ReadHolds(c) \/ FinishRelease(c) \/ AbortRelease(c)
    \/ BeginCommit(c) \/ EndOperation(c) \/ ReleaseStart(c)

Next == \E c \in Commands : Request(c) \/ Advance(c)

Spec == Init /\ [][Next]_vars

----------------------------------------------------------------------------
(* Properties.                                                              *)

(* An owner the registry answered keeps the workspace until it asks to      *)
(* leave: whatever other tabs, windows and failed registrations do, its     *)
(* admission stays and nobody takes the workspace down.  The agents' lease  *)
(* is such an owner whenever it is not being released, a restored lease     *)
(* included (release_owner, rollback_registration, abort_release).          *)
OwnersKeepTheirWorkspace ==
    LET owners == (opened \ given) \cup (IF lease # 0 /\ ~releasing THEN {lease} ELSE {})
    IN  /\ owners \subseteq DOMAIN admissions
        /\ owners # {} => closing = NoCommand

(* A close does not take a workspace down in which an agent start is under  *)
(* way, neither one that was there when it began nor one that came later    *)
(* (release_owner, reserve_runtime_start).                                  *)
CloseWaitsForStarts ==
    \A c \in Commands : closing = c /\ At(c, "cleanup") => ~HasRuntimeStart

(* Whoever uses the workspace keeps it: its owners, and the starts.         *)
UsersKeepTheirWorkspace == OwnersKeepTheirWorkspace /\ CloseWaitsForStarts

(* Every admission can still be given up by somebody: a tab that was given  *)
(* the token, the lease, or the command that is making or undoing it.  One  *)
(* without an owner would keep the workspace open for the whole session     *)
(* (acquire_registered_workspace_lease, remove_losing_registration_admission). *)
AdmissionsHaveOwners ==
    \A t \in DOMAIN admissions :
        \/ t \in opened
        \/ t = lease /\ t # 0
        \/ \E c \in Commands :
               job[c].token = t /\ job[c].at \in {"publishing", "taking", "rollback", "removing"}

(* What is half done has a command that will finish it: the release of a    *)
(* lease is settled whatever became of its close, and the closing of a      *)
(* workspace is finalized or called off; the root would otherwise refuse    *)
(* its agents, or all its windows, for good.  A rollback finds its          *)
(* admission in a workspace that nobody closes                              *)
(* (PendingAgentRootLeaseReleaseGuard::settle, finalize_unregister,         *)
(* cancel_unregister, finalize_registration_rollback).                      *)
HalfwayHasACommand ==
    /\ releasing => \E c \in Commands : job[c].kind = "release" /\ job[c].token = lease
    /\ closing # NoCommand => job[closing].at \in {"removing", "cleanup"}
    /\ \A c \in Commands : At(c, "rollback") => closing = NoCommand /\ Holds(job[c].token)

(* No admission and no half finished change outlives whoever can end it.    *)
NothingIsLeftBehind == AdmissionsHaveOwners /\ HalfwayHasACommand

(* Authority to change trust belongs to the newest admission of an open     *)
(* workspace, also when the change of owners that publishes it raced with   *)
(* another change or with a close (publish_registration_if_latest).         *)
AuthorityIsNewest ==
    current # 0 => IsCurrent(current)

(* An open workspace whose trust nobody may change has a command on its way *)
(* that will publish its newest admission; otherwise every later grant and  *)
(* revocation would be refused as stale (register, release_owner,           *)
(* adopt_admission, rollback_registration).                                 *)
AuthorityComesBack ==
    Open /\ current = 0 =>
        \E c \in Commands :
            \/ At(c, "publishing") /\ job[c].token = latest
            \/ At(c, "republishing") /\ job[c].latest = latest

(* A commit of trust runs under the authority that is published, or the     *)
(* command that withdrew that authority still waits for it: that command    *)
(* does not return, and publishes nothing, before the commit is over        *)
(* (RegistrationOperationTransition::wait).                                 *)
CommitsAreAwaited ==
    \A d \in Commands : At(d, "committing") =>
        \/ d \in live /\ job[d].token = current
        \/ \E c \in Commands :
               /\ d \in awaited[c]
               /\ job[c].at \in {"publishing", "republishing", "removing", "cleanup"}

(* The authority over trust goes with the newest owner, comes back after    *)
(* every change of owners, and what was done under an older one is over by  *)
(* then (begin_transition, wait, publish_latest).                           *)
AuthorityFollowsOwners == AuthorityIsNewest /\ AuthorityComesBack /\ CommitsAreAwaited

(* A runtime start keeps its workspace registered, as the tests of          *)
(* runtime_start.rs and of the lease release say of it; the rollback of a   *)
(* registration does not ask.                                               *)
StartKeepsItsWorkspace ==
    HasRuntimeStart => closing = NoCommand
=============================================================================
