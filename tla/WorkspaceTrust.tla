---------------------------- MODULE WorkspaceTrust ----------------------------
(****************************************************************************)
(* Which projects are trusted, and what a change of trust does to the       *)
(* agents (src-tauri/src/trust.rs, trust/revoked_roots.rs,                  *)
(* trust/clone_roots.rs, agent_trust_revocation.rs, and the start command   *)
(* in lib_composition/agent_task_commands.rs).                              *)
(*                                                                          *)
(* The trust service is behind one mutex, so each of its operations is one  *)
(* action; the disk may refuse the save inside it, and the operation then   *)
(* undoes what it did.  A start command takes the mutex twice, to capture a *)
(* snapshot of the trust and later to exchange it for launch leases; a      *)
(* revocation command takes it once, lets it go, and only then stops the    *)
(* agents of the root.  How a task stops is in AgentTaskSupervisor.         *)
(****************************************************************************)
EXTENDS Naturals, FiniteSets, SequencesExt

CONSTANTS
    Roots,          \* normalised project roots
    Launches,       \* start commands
    MaxRevoked,     \* MAX_REVOKED_ROOTS
    GlobalLaunches, \* MAX_TRUST_LAUNCHES_GLOBAL
    RootLaunches,   \* MAX_TRUST_LAUNCHES_PER_ROOT
    SavesTear,      \* may a failed save leave a file that does not parse?
    MaxGeneration,  \* bound of the model: changes of trust in one session
    MaxEpoch        \* bound of the model: clones made in one session

ASSUME LimitsAssumption ==
    /\ MaxRevoked \in Nat \ {0}
    /\ GlobalLaunches \in Nat
    /\ RootLaunches \in Nat
    /\ SavesTear \in BOOLEAN
    /\ MaxGeneration \in Nat
    /\ MaxEpoch \in Nat

VARIABLES
    trusted,    \* WorkspaceTrustService.trusted_roots
    revoked,    \* WorkspaceTrustService.revoked_roots, oldest first
    clones,     \* WorkspaceTrustService.clone_roots.roots
    epoch,      \* WorkspaceTrustService.clone_roots.epoch
    generation, \* WorkspaceTrustService.generation
    rootGen,    \* WorkspaceTrustService.root_generations
    leases,     \* WorkspaceTrustLaunchRegistry: tokens by launch and root
    disk,       \* workspace-trust.json: what it parses to, if anything
    launch,     \* the start commands, and the agents they started
    sweeps,     \* revocation commands that have yet to stop their agents
    pruner,     \* the prune thread of this session
    folder,     \* roots whose folder exists
    cloning,    \* clones whose folder is made and not yet marked
    fresh,      \* history: folders a clone made and nobody has granted since
    withdrawn,  \* history: roots whose revocation has returned
    outdated    \* history: launches overtaken by a revocation before they start

serviceVars == <<trusted, revoked, clones, epoch, generation, rootGen>>
agentVars == <<leases, launch, sweeps>>
vars == <<serviceVars, disk, agentVars, pruner, folder, cloning, fresh, withdrawn,
          outdated>>

Torn == {}
Image(t, r, c) == [trusted |-> t, revoked |-> r, clones |-> c]
EmptyImage == Image({}, <<>>, {})
IdleLaunch(r) == [pc |-> "idle", root |-> r, cwd |-> r, gen |-> <<0, 0>>]

----------------------------------------------------------------------------
(* RevokedRoots: an ordered set that forgets its oldest member when full.   *)

PositionOf(order, r) == CHOOSE i \in 1..Len(order) : order[i] = r

(* RevokedRoots::remove, by its position.                                   *)
Without(order, r) ==
    IF Contains(order, r) THEN RemoveAt(order, PositionOf(order, r)) ELSE order

(* RevokedRoots::insert: a root that was there moves to the newest place.   *)
Inserted(order, r) ==
    LET longer == Append(Without(order, r), r)
    IN  IF Len(longer) > MaxRevoked THEN Tail(longer) ELSE longer

(* RevokedRoots::undo_insert, after the insertion made `order` from before. *)
UndoInsert(order, before, r) ==
    IF Contains(before, r) THEN InsertAt(Without(order, r), PositionOf(before, r), r)
    ELSE IF Len(before) = MaxRevoked THEN <<Head(before)>> \o Without(order, r)
    ELSE Without(order, r)

(* RevokedRoots::restore of a root that was removed from `before`.          *)
Restored(order, before, r) ==
    IF Contains(before, r) THEN InsertAt(order, PositionOf(before, r), r) ELSE order

----------------------------------------------------------------------------
(* A session starts from what an earlier one left on disk.                  *)
Init ==
    /\ trusted \in SUBSET Roots /\ revoked = <<>> /\ clones = {}
    /\ epoch = 0
    /\ generation = 0
    /\ rootGen = [r \in Roots |-> 0]
    /\ leases = {}
    /\ disk = {Image(trusted, revoked, clones)}
    /\ launch \in [Launches -> {IdleLaunch(r) : r \in Roots}]
    /\ sweeps = {}
    /\ pruner = [pc |-> "start", epoch |-> 0, missing |-> {}]
    /\ folder \in SUBSET Roots
    /\ cloning = {}
    /\ fresh = {} /\ withdrawn = {} /\ outdated = {}

(* save: the whole state is written, or the write fails.                    *)
Saved_without_clones(t, r, c) == disk' = {Image(t, r, EmptyImage.clones)}  \* mutant
Saved(t, r, c) == disk' = {Image(t, r, c)}
SaveFails == disk' \in IF SavesTear THEN {disk, Torn} ELSE {disk}

NextGeneration(r) ==
    /\ generation' = generation + 1
    /\ rootGen' = [rootGen EXCEPT ![r] = generation + 1]

(* grant_canonical: the user's own decision to trust the project.           *)
Grant(r) ==
    /\ generation < MaxGeneration
    /\ \/ /\ NextGeneration(r)
          /\ trusted' = trusted \cup {r}
          /\ revoked' = Without(revoked, r)
          /\ clones' = clones \ {r}
          /\ Saved(trusted', revoked', clones')
          /\ fresh' = fresh \ {r}
          /\ withdrawn' = withdrawn \ {r}
       \/ /\ SaveFails
          /\ revoked' = Restored(Without(revoked, r), revoked, r)
          /\ UNCHANGED <<trusted, clones, generation, rootGen, fresh, withdrawn>>
    /\ UNCHANGED <<epoch, agentVars, pruner, folder, cloning, outdated>>

(* grant_opened_canonical_root: the grant that comes with opening a project,*)
(* which a revoked or a cloned root refuses.                                *)
OpenedGrantAllowed_clones_only(r) == r \notin clones                      \* mutant
OpenedGrantAllowed(r) == ~Contains(revoked, r) /\ r \notin clones

GrantOpened(r) ==
    /\ generation < MaxGeneration
    /\ OpenedGrantAllowed(r)
    /\ r \in folder
    /\ r \notin trusted
    /\ \/ /\ NextGeneration(r)
          /\ trusted' = trusted \cup {r}
          /\ Saved(trusted', revoked, clones)
          /\ withdrawn' = withdrawn \ {r}
       \/ /\ SaveFails
          /\ UNCHANGED <<trusted, generation, rootGen, withdrawn>>
    /\ UNCHANGED <<revoked, clones, epoch, agentVars, pruner, folder, cloning,
                   fresh, outdated>>

HasActive(r) == \E l \in leases : l.root = r

(* revoke_canonical.  It is refused while a launch is under way.            *)
Revoke(r, marks, saves) ==
    /\ generation < MaxGeneration
    /\ ~HasActive(r)
    /\ epoch' = IF marks THEN epoch + 1 ELSE epoch
    /\ \/ /\ saves
          /\ NextGeneration(r)
          /\ trusted' = trusted \ {r}
          /\ revoked' = Inserted(revoked, r)
          /\ clones' = IF marks THEN clones \cup {r} ELSE clones
          /\ Saved(trusted', revoked', clones')
          /\ outdated' = outdated \cup
               {l \in Launches : /\ launch[l].pc \in {"captured", "reserved"}
                                 /\ r \in {launch[l].root, launch[l].cwd}}
       \/ /\ ~saves
          /\ SaveFails
          /\ revoked' = UndoInsert(Inserted(revoked, r), revoked, r)
          /\ UNCHANGED <<trusted, clones, generation, rootGen, outdated>>

(* revoke_path_trust_and_stop_agents: the trust goes first, its agents next.*)
RevokeTrust(r) ==
    /\ \E saves \in BOOLEAN :
         /\ Revoke(r, FALSE, saves)
         /\ sweeps' = IF saves THEN sweeps \cup {r} ELSE sweeps
    /\ UNCHANGED <<leases, launch, pruner, folder, cloning, fresh, withdrawn>>

(* stop_agents_of_revoked_trust: every registered task of the root.         *)
StopAgents_none(r) == launch                                             \* mutant
StopAgents(r) ==
    [l \in Launches |-> IF launch[l].root = r /\ launch[l].pc = "live"
                        THEN [launch[l] EXCEPT !.pc = "stopping"] ELSE launch[l]]

Sweep(r) ==
    /\ r \in sweeps
    /\ launch' = StopAgents(r)
    /\ sweeps' = sweeps \ {r}
    /\ withdrawn' = IF r \in trusted THEN withdrawn ELSE withdrawn \cup {r}
    /\ UNCHANGED <<serviceVars, disk, leases, pruner, folder, cloning, fresh, outdated>>

----------------------------------------------------------------------------
(* A local clone: the destination folder is made, then its root is revoked  *)
(* and marked; if that fails, or a launch stands in the way, the folder     *)
(* goes away again.                                                         *)

CloneProject(r) ==
    /\ epoch + Cardinality(cloning) < MaxEpoch
    /\ r \notin folder
    /\ folder' = folder \cup {r}
    /\ cloning' = cloning \cup {r}
    /\ UNCHANGED <<serviceVars, disk, agentVars, pruner, fresh, withdrawn, outdated>>

MarkClone(r) ==
    /\ r \in cloning
    /\ cloning' = cloning \ {r}
    /\ \/ \E saves \in BOOLEAN :
            /\ Revoke(r, TRUE, saves)
            /\ folder' = IF saves THEN folder ELSE folder \ {r}
            /\ fresh' = IF saves /\ r \in folder THEN fresh \cup {r} ELSE fresh
       \/ /\ HasActive(r)
          /\ folder' = folder \ {r}
          /\ UNCHANGED <<serviceVars, disk, fresh, outdated>>
    /\ UNCHANGED <<agentVars, pruner, withdrawn>>

DeleteFolder(r) ==
    /\ r \in folder
    /\ folder' = folder \ {r}
    /\ fresh' = fresh \ {r}
    /\ UNCHANGED <<serviceVars, disk, agentVars, pruner, cloning, withdrawn, outdated>>

(* prune_missing_clone_roots: a batch is copied out, the folders are looked *)
(* at without the mutex, and what is missing is forgotten if no clone was   *)
(* marked in the meantime.                                                  *)
PruneBatch ==
    /\ pruner.pc = "start"
    /\ pruner' = [pc |-> "look", epoch |-> epoch, missing |-> clones]
    /\ UNCHANGED <<serviceVars, disk, agentVars, folder, cloning, fresh, withdrawn, outdated>>

PruneLook ==
    /\ pruner.pc = "look"
    /\ pruner' = [pruner EXCEPT !.missing = @ \ folder,
                                !.pc = IF pruner.missing \subseteq folder THEN "done" ELSE "forget"]
    /\ UNCHANGED <<serviceVars, disk, agentVars, folder, cloning, fresh, withdrawn, outdated>>

PruneCurrent_always == TRUE                                              \* mutant
PruneCurrent == pruner.epoch = epoch

Forget ==
    /\ pruner.pc = "forget"
    /\ pruner' = [pruner EXCEPT !.pc = "done"]
    /\ LET forgotten == IF PruneCurrent THEN pruner.missing \cap clones ELSE {}
       IN  \/ /\ forgotten = {}
              /\ UNCHANGED <<clones, disk>>
           \/ /\ forgotten # {}
              /\ clones' = clones \ forgotten
              /\ Saved(trusted, revoked, clones')
           \/ /\ forgotten # {}
              /\ SaveFails
              /\ UNCHANGED clones
    /\ UNCHANGED <<trusted, revoked, epoch, generation, rootGen, agentVars,
                   folder, cloning, fresh, withdrawn, outdated>>

----------------------------------------------------------------------------
(* The start command.                                                       *)

(* capture_agent_task_project_authority: the trust of the project and of    *)
(* the working directory, which is another root in an isolated worktree.    *)
Capture(l, cwd) ==
    /\ launch[l].pc = "idle"
    /\ {launch[l].root, cwd} \subseteq trusted \cap folder
    /\ launch' = [launch EXCEPT ![l].pc = "captured", ![l].cwd = cwd,
                    ![l].gen = <<rootGen[launch[l].root], rootGen[cwd]>>]
    /\ UNCHANGED <<serviceVars, disk, leases, sweeps, pruner, folder, cloning,
                   fresh, withdrawn, outdated>>

LeasesFor(l) ==
    {[launch |-> l, root |-> launch[l].root, for |-> "project"]}
       \cup IF launch[l].cwd = launch[l].root THEN {}
            ELSE {[launch |-> l, root |-> launch[l].cwd, for |-> "cwd"]}

(* reserve_launch: the snapshot must still be the current one.              *)
SnapshotCurrent_trusted_only(l) ==                                       \* mutant
    {launch[l].root, launch[l].cwd} \subseteq trusted
SnapshotCurrent(l) ==
    /\ {launch[l].root, launch[l].cwd} \subseteq trusted
    /\ launch[l].gen = <<rootGen[launch[l].root], rootGen[launch[l].cwd]>>

Room(taken) ==
    /\ Cardinality(taken) <= GlobalLaunches
    /\ \A r \in Roots : Cardinality({k \in taken : k.root = r}) <= RootLaunches

(* reserve_agent_task_trust: all the leases, or none.                       *)
ReserveTrust(l) ==
    /\ launch[l].pc = "captured"
    /\ IF SnapshotCurrent(l) /\ Room(leases \cup LeasesFor(l))
       THEN /\ leases' = leases \cup LeasesFor(l)
            /\ launch' = [launch EXCEPT ![l].pc = "reserved"]
       ELSE /\ launch' = [launch EXCEPT ![l].pc = "ended"]
            /\ UNCHANGED leases
    /\ UNCHANGED <<serviceVars, disk, sweeps, pruner, folder, cloning, fresh, withdrawn, outdated>>

(* AgentTaskRegistry::start registers the task, or the start fails.         *)
StartTask(l) ==
    /\ launch[l].pc = "reserved"
    /\ \E pc \in {"live", "ended"} : launch' = [launch EXCEPT ![l].pc = pc]
    /\ UNCHANGED <<serviceVars, disk, leases, sweeps, pruner, folder, cloning,
                   fresh, withdrawn, outdated>>

(* The leases are dropped when the start has returned.                      *)
DropLeases(l) ==
    /\ launch[l].pc \in {"live", "stopping", "ended"}
    /\ \E k \in leases : k.launch = l
    /\ leases' = {k \in leases : k.launch # l}
    /\ UNCHANGED <<serviceVars, disk, launch, sweeps, pruner, folder, cloning,
                   fresh, withdrawn, outdated>>

TaskEnds(l) ==
    /\ launch[l].pc \in {"live", "stopping"}
    /\ launch' = [launch EXCEPT ![l].pc = "ended"]
    /\ UNCHANGED <<serviceVars, disk, leases, sweeps, pruner, folder, cloning,
                   fresh, withdrawn, outdated>>

(* The application ends, and with it every agent, and starts again from the *)
(* file: one that does not parse counts as empty.                           *)
Restart ==
    LET image == IF disk = Torn THEN EmptyImage ELSE CHOOSE i \in disk : TRUE
    IN  /\ trusted' = image.trusted
        /\ revoked' = image.revoked
        /\ clones' = image.clones
        /\ epoch' = 0
        /\ generation' = 0
        /\ rootGen' = [r \in Roots |-> 0]
        /\ leases' = {}
        /\ sweeps' = {}
        /\ launch' = [l \in Launches |-> IdleLaunch(launch[l].root)]
        /\ pruner' = [pc |-> "start", epoch |-> 0, missing |-> {}]
        /\ cloning' = {}
        /\ outdated' = {}
        /\ fresh' = IF disk = Torn THEN {} ELSE fresh
        /\ UNCHANGED <<disk, folder, withdrawn>>

----------------------------------------------------------------------------
Next ==
    \/ \E r \in Roots :
         \/ Grant(r) \/ GrantOpened(r) \/ RevokeTrust(r) \/ Sweep(r)
         \/ CloneProject(r) \/ MarkClone(r) \/ DeleteFolder(r)
    \/ PruneBatch \/ PruneLook \/ Forget
    \/ \E l \in Launches :
         \/ \E cwd \in Roots : Capture(l, cwd)
         \/ ReserveTrust(l) \/ StartTask(l) \/ DropLeases(l) \/ TaskEnds(l)
    \/ Restart

Spec == Init /\ [][Next]_vars

----------------------------------------------------------------------------
(* Properties.                                                              *)

Images ==
    [trusted : SUBSET Roots, revoked : UNION {[1..n -> Roots] : n \in 0..MaxRevoked},
     clones : SUBSET Roots]

(* The shape of the state.  The list of revoked roots has no duplicates and *)
(* is within its limit, and no root is both trusted and revoked.            *)
TypeOK ==
    /\ Image(trusted, revoked, clones) \in Images
    /\ \A i, j \in 1..Len(revoked) : revoked[i] = revoked[j] => i = j
    /\ \A i \in 1..Len(revoked) : revoked[i] \notin trusted
    /\ epoch \in 0..MaxEpoch
    /\ generation \in 0..MaxGeneration
    /\ rootGen \in [Roots -> 0..MaxGeneration]
    /\ leases \subseteq [launch : Launches, root : Roots, for : {"project", "cwd"}]
    /\ disk \subseteq Images /\ Cardinality(disk) <= 1
    /\ launch \in [Launches ->
                     [pc : {"idle", "captured", "reserved", "live", "stopping", "ended"},
                      root : Roots, cwd : Roots,
                      gen : (0..MaxGeneration) \X (0..MaxGeneration)]]
    /\ pruner \in [pc : {"start", "look", "forget", "done"}, epoch : 0..MaxEpoch,
                   missing : SUBSET Roots]
    /\ {sweeps, folder, cloning, fresh, withdrawn} \subseteq SUBSET Roots
    /\ outdated \subseteq Launches

(* "Revoking a project's trust stops its running agents" (docs/agent-mode): *)
(* once a revocation has returned, and until trust is granted again, no     *)
(* agent of the root runs on, however the revocation was interleaved with   *)
(* the captures, reservations and starts of launches.                       *)
RevocationStopsAgents ==
    \A l \in Launches : launch[l].root \in withdrawn => launch[l].pc # "live"

(* A launch that was overtaken by a revocation never starts, not even when  *)
(* the root is trusted again by the time it asks for its leases.            *)
OvertakenLaunchNeverStarts ==
    \A l \in outdated : launch[l].pc \notin {"reserved", "live"}

(* A folder that a clone made is not trusted by merely being opened, for as *)
(* long as it exists: neither the limit of the revoked list, nor the prune  *)
(* thread working from an old batch, nor a restart loses its mark.  Only a  *)
(* restart from a file that a failed save tore does, with all the rest.     *)
FreshCloneStaysUntrusted == fresh \cap trusted = {}

(* What is in memory is what is on disk, after failed saves too: an undone  *)
(* operation puts every list back, order included.  Only a save that tore   *)
(* the file leaves it behind.                                               *)
DiskMatchesMemory == disk \in {Torn, {Image(trusted, revoked, clones)}}

=============================================================================
