------------------------- MODULE AgentRootLeaseProofs -------------------------
(****************************************************************************)
(* Proofs about AgentRootLease for every set of commands and any limits.    *)
(* The inductive invariant is a conjunction of layers: what the registry    *)
(* holds, what each command is about, that every admission token has one    *)
(* holder, that a release and a close each belong to one command, and who   *)
(* may change trust.                                                        *)
(****************************************************************************)
EXTENDS AgentRootLease, WellFoundedInduction, TLAPS

(* The registry: the newest admission is the one that `latest` names.  The  *)
(* token 0 of a retained admission never gets there.                        *)
RegistryOK ==
    /\ issued \in 0..MaxTokens
    /\ identity \in 0..issued /\ latest \in 0..issued /\ current \in 0..issued
    /\ DOMAIN admissions \subseteq 1..issued
    /\ (identity = 0) = (DOMAIN admissions = {})
    /\ \A t \in DOMAIN admissions :
           admissions[t] \in [owner : {"editor", "agent"}, published : BOOLEAN]
    /\ \A t \in DOMAIN admissions : t <= latest /\ latest \in DOMAIN admissions

(* Owners that were answered, and the lease's release.                      *)
LedgerOK ==
    /\ lease \in 0..issued /\ releasing \in BOOLEAN
    /\ given \subseteq opened /\ opened \subseteq 1..issued /\ told \subseteq 1..issued

JobsOK == job \in [Commands -> [kind : Kinds, at : Places, token : 0..issued,
                                latest : 0..issued]]

(* The steps that each kind of command goes through.                        *)
Closes == {"release", "unregister", "withdraw", "dispose"}

Shape(c) ==
    /\ At(c, "idle") => job[c] = Idle
    /\ job[c].at \in {"asked", "registering", "taking", "rollback", "removing"} =>
           job[c].kind = "acquire"
    /\ At(c, "publishing") => job[c].kind \in {"acquire", "open"}
    /\ job[c].at \in {"begun", "cleanup"} => job[c].kind \in Closes
    /\ At(c, "republishing") => job[c].kind \in Closes \cup {"acquire", "adopt"}
    /\ job[c].at \in {"failed", "restoring", "settled"} => job[c].kind = "release"
    /\ job[c].at \in {"reserved", "committing"} => job[c].kind = "operate"
    /\ At(c, "starting") => job[c].kind = "start"
    /\ job[c].kind \in Closes \ {"release"} => job[c].token \in given
    /\ job[c].kind = "operate" => job[c].token # 0

(* Operations: a revoked one may still be inside its commit.                *)
OperationsOK ==
    /\ live \subseteq {c \in Commands : job[c].kind = "operate"}
    /\ awaited \in [Commands -> SUBSET {c \in Commands : At(c, "committing")}]

(* A command whose registration is not yet an owner's, or no longer.        *)
Makes(c) == job[c].at \in {"publishing", "taking", "rollback", "removing"}

(* An admission token has one holder: a tab, the lease, or the one command  *)
(* that is making or undoing the admission.                                 *)
TokensApart ==
    /\ lease \notin opened
    /\ \A c \in Commands : Makes(c) =>
           job[c].token # 0 /\ job[c].token # lease /\ job[c].token \notin opened
    /\ \A c, d \in Commands :
           Makes(c) /\ Makes(d) /\ job[c].token = job[d].token => c = d

(* A release in progress is one command's, which knows the lease's token.   *)
OneRelease ==
    /\ \A c \in Commands : job[c].kind = "release" =>
           releasing /\ lease # 0 /\ job[c].token = lease
    /\ releasing => \E c \in Commands : job[c].kind = "release"
    /\ \A c, d \in Commands : job[c].kind = "release" /\ job[d].kind = "release" => c = d

(* A close in progress is one command's, which holds the last admission.    *)
OneClose ==
    /\ closing \in Commands \cup {NoCommand}
    /\ \A c \in Commands : job[c].at \in {"removing", "cleanup"} <=> closing = c
    /\ \A c \in Commands : closing = c =>
           DOMAIN admissions = {job[c].token} /\ current = 0

(* Admissions that nobody but their holder may end are there, and the one   *)
(* that a release gave up is not.                                           *)
Keeps(c) ==
    \/ job[c].at \in {"publishing", "taking", "rollback"}
    \/ job[c].kind = "release" /\ job[c].at \in {"begun", "failed", "restoring"}

AdmissionsKept ==
    /\ opened \ given \subseteq DOMAIN admissions
    /\ lease # 0 /\ ~releasing => Holds(lease)
    /\ \A c \in Commands : Keeps(c) => Holds(job[c].token)
    /\ \A c \in Commands :
           job[c].kind = "release" /\ job[c].at \in {"republishing", "settled"} => ~Holds(lease)

(* The inductive invariant.                                                 *)
LeaseInvariant ==
    /\ RegistryOK
    /\ LedgerOK
    /\ JobsOK
    /\ \A c \in Commands : Shape(c)
    /\ OperationsOK
    /\ TokensApart
    /\ OneRelease
    /\ OneClose
    /\ AdmissionsKept
    /\ AdmissionsHaveOwners
    /\ CloseWaitsForStarts
    /\ AuthorityFollowsOwners
----------------------------------------------------------------------------
(* What the registry's helpers do.                                          *)

(* The largest of some positive numbers below a bound.                      *)
LEMMA MaxOfTokens ==
    ASSUME NEW n \in Nat, NEW S \in SUBSET (1..n), S # {}
    PROVE  Max(S) \in S /\ \A t \in S : t <= Max(S)
<1> DEFINE Bounds == {b \in Nat : \A t \in S : t <= b}
<1>1. n \in Bounds
  OBVIOUS
<1>2. \E b \in Bounds : \A y \in Bounds : ~ (<<y, b>> \in OpToRel(<, Nat))
  <2>1. Bounds \subseteq Nat /\ Bounds # {}
    BY <1>1
  <2> HIDE DEF Bounds
  <2> QED  BY <2>1, NatLessThanWellFounded, WFMin
<1>3. PICK b \in Bounds : \A y \in Bounds : ~(y < b)
  BY <1>2 DEF OpToRel
<1>4. b \in S
  <2>1. SUFFICES ASSUME b \notin S PROVE FALSE
    OBVIOUS
  <2>2. \A t \in S : t < b
    BY <2>1, <1>3
  <2>3. b \in Nat /\ S \subseteq Nat /\ \E t \in S : t < b
    <3>1. b \in Nat /\ \A t \in S : t \in Nat
      BY <1>3
    <3> QED  BY <3>1, <2>2
  <2>4. b - 1 \in Nat /\ \A t \in S : t <= b - 1
    BY <2>2, <2>3
  <2>5. b - 1 \in Bounds /\ b - 1 < b
    BY <2>4
  <2> QED  BY <2>5, <1>3
<1>5. \E x \in S : \A y \in S : x >= y
  BY <1>3, <1>4
<1> QED  BY <1>5 DEF Max

(* One of several owners leaves: the others stay, with what they had, and   *)
(* the newest of them is the latest.                                        *)
LEMMA Lost ==
    ASSUME RegistryOK, NEW t \in DOMAIN admissions, ~IsLastOwner(t), LoseAdmission(t)
    PROVE  /\ current' \in 0..issued => RegistryOK'
           /\ DOMAIN admissions' = DOMAIN admissions \ {t}
           /\ \A u \in DOMAIN admissions' : admissions'[u] = admissions[u]
           /\ t # latest => latest' = latest
           /\ UNCHANGED <<identity, closing, issued>>
<1>1. admissions' = Restrict(admissions, DOMAIN admissions \ {t})
  BY DEF LoseAdmission, Without, IsLastOwner
<1>2. /\ DOMAIN admissions' = DOMAIN admissions \ {t}
      /\ \A u \in DOMAIN admissions' : admissions'[u] = admissions[u]
  BY <1>1 DEF Restrict
<1>3. DOMAIN admissions' # {} /\ DOMAIN admissions' \in SUBSET (1..issued) /\ issued \in Nat
  <2>1. DOMAIN admissions \ {t} # {}
    BY DEF IsLastOwner
  <2>2. issued \in Nat
    BY RegistryAssumption DEF RegistryOK
  <2>3. DOMAIN admissions' \in SUBSET (1..issued)
    BY <1>2 DEF RegistryOK
  <2> QED  BY <1>2, <2>1, <2>2, <2>3
<1>4. /\ latest' = Max(DOMAIN admissions')
      /\ UNCHANGED <<identity, closing, issued>>
  BY <1>1 DEF LoseAdmission, Without, IsLastOwner, Holds
<1>5. latest' \in DOMAIN admissions' /\ \A u \in DOMAIN admissions' : u <= latest'
  BY <1>3, <1>4, MaxOfTokens
<1>6. t # latest => latest' = latest
  <2>1. latest \in DOMAIN admissions /\ latest \in Nat /\ latest' \in Nat
        /\ latest' \in DOMAIN admissions /\ latest' <= latest
    BY <1>2, <1>3, <1>5 DEF RegistryOK
  <2> QED  BY <2>1, <1>2, <1>5
<1>7. ASSUME current' \in 0..issued PROVE RegistryOK'
  <2>1. identity # 0 /\ (identity' = 0) = (DOMAIN admissions' = {})
    BY <1>3, <1>4 DEF RegistryOK
  <2>2. \A u \in DOMAIN admissions' :
           admissions'[u] \in [owner : {"editor", "agent"}, published : BOOLEAN]
    BY <1>2 DEF RegistryOK
  <2> QED  BY <1>3, <1>4, <1>5, <1>7, <2>1, <2>2 DEF RegistryOK
<1> QED  BY <1>2, <1>4, <1>6, <1>7

(* Whoever holds an admission that is its own keeps the root from closing,  *)
(* and a registration that lost the publication is not the only admission.  *)
LEMMA HoldersKeepItOpen ==
    ASSUME LeaseInvariant
    PROVE  /\ \A c \in Commands : Keeps(c) => closing = NoCommand /\ Holds(job[c].token)
           /\ opened \ given # {} => closing = NoCommand
           /\ lease # 0 /\ ~releasing => closing = NoCommand
           /\ \A c \in Commands :
                  At(c, "publishing") /\ ~IsCurrent(job[c].token) =>
                      job[c].token # latest /\ ~IsLastOwner(job[c].token)
<1> USE DEF LeaseInvariant
<1>1. ASSUME NEW d \in Commands, closing = d
      PROVE  /\ DOMAIN admissions = {job[d].token}
             /\ job[d].token \notin opened \ given
             /\ job[d].token = lease => releasing
             /\ \A c \in Commands : Keeps(c) => job[c].token # job[d].token
  <2>1. DOMAIN admissions = {job[d].token} /\ job[d].at \in {"removing", "cleanup"}
    BY <1>1 DEF OneClose
  <2>2. CASE job[d].at = "removing"
    BY <2>1, <2>2 DEF TokensApart, OneRelease, Makes, Keeps
  <2>3. CASE job[d].at = "cleanup" /\ job[d].kind = "release"
    BY <2>1, <2>3 DEF TokensApart, OneRelease, Makes, Keeps
  <2>4. CASE job[d].at = "cleanup" /\ job[d].kind # "release"
    <3>1. job[d].token \in given /\ given \subseteq opened
      BY <2>4 DEF Shape, At, Closes, LedgerOK
    <3> QED  BY <2>1, <3>1 DEF TokensApart, OneRelease, Makes, Keeps
  <2> QED  BY <2>1, <2>2, <2>3, <2>4 DEF Shape, At
<1>2. \A c \in Commands : Keeps(c) => Holds(job[c].token)
  BY DEF AdmissionsKept
<1>3. \A c \in Commands : Keeps(c) => closing = NoCommand
  BY <1>1, <1>2 DEF OneClose, Holds
<1>4. opened \ given # {} => closing = NoCommand
  BY <1>1 DEF OneClose, AdmissionsKept
<1>5. lease # 0 /\ ~releasing => closing = NoCommand
  BY <1>1 DEF OneClose, AdmissionsKept, Holds
<1>6. ASSUME NEW c \in Commands, At(c, "publishing"), ~IsCurrent(job[c].token)
      PROVE  job[c].token # latest /\ ~IsLastOwner(job[c].token)
  <2>1. Holds(job[c].token) /\ closing = NoCommand
    BY <1>2, <1>3, <1>6 DEF Keeps, At
  <2> QED  BY <1>6, <2>1 DEF IsCurrent, IsLastOwner, Holds, RegistryOK
<1> QED  BY <1>2, <1>3, <1>4, <1>5, <1>6

(* The actions that touch the admissions or the authority over trust.       *)
Touches(c) ==
    \/ OpenEditor(c) \/ RegisterAgent(c)
    \/ Publish(c) \/ LosePublication(c) \/ Republish(c)
    \/ Rollback(c) \/ FinishRollback(c) \/ ReleaseOwner(c)
    \/ FinalizeUnregister(c) \/ CancelUnregister(c)
    \/ \E new, old \in opened : Adopt(c, new, old)

LEMMA OthersTouchNothing ==
    ASSUME NEW c \in Commands, Request(c) \/ Advance(c), ~Touches(c)
    PROVE  UNCHANGED <<registryVars, current>>
BY DEF Touches, Request, Advance, AskReleasing, BeginRelease, BeginClose,
       ReserveOperation, ReserveStart, LookUp, RegisterRefused, TakeLease, TakeRefused,
       DisposalRefused, ReleaseRefused, EndClose, ReadHolds, FinishRelease, AbortRelease,
       BeginCommit, EndOperation, ReleaseStart, operationVars, registryVars

(* Every registration issues the next token.                                *)
LEMMA Inserted ==
    ASSUME LeaseInvariant, NEW c \in Commands, NEW kind, NEW owner \in {"editor", "agent"},
           Insert(c, kind, owner)
    PROVE  /\ RegistryOK'
           /\ closing = NoCommand
           /\ issued' = issued + 1 /\ issued \in Nat /\ issued + 1 \notin DOMAIN admissions
           /\ DOMAIN admissions' = DOMAIN admissions \cup {issued + 1}
           /\ latest' = issued + 1
           /\ current' = 0 /\ identity' # 0
           /\ job' = [job EXCEPT ![c] = [kind |-> kind, at |-> "publishing",
                                         token |-> issued + 1, latest |-> 0]]
           /\ UNCHANGED <<closing, leaseVars, historyVars>>
<1> DEFINE t == issued + 1
           entry == [owner |-> owner, published |-> FALSE]
<1>1. /\ issued < MaxTokens /\ closing = NoCommand
      /\ identity' = IF identity = 0 THEN t ELSE identity
      /\ admissions' = [u \in DOMAIN admissions \cup {t} |->
                           IF u = t THEN entry ELSE admissions[u]]
      /\ latest' = t /\ issued' = t /\ current' = 0
      /\ job' = [job EXCEPT ![c] = [kind |-> kind, at |-> "publishing",
                                    token |-> t, latest |-> 0]]
      /\ UNCHANGED <<closing, leaseVars, historyVars>>
  BY DEF Insert, BeginTransition, Begin
<1>2. /\ issued \in Nat /\ t \in Nat /\ identity \in 0..issued /\ t <= MaxTokens
      /\ DOMAIN admissions \subseteq 1..issued
  BY <1>1, RegistryAssumption DEF LeaseInvariant, RegistryOK
<1>3. DOMAIN admissions' = DOMAIN admissions \cup {t}
  BY <1>1
<1>4. \A u \in DOMAIN admissions' :
         admissions'[u] \in [owner : {"editor", "agent"}, published : BOOLEAN]
  <2>1. entry \in [owner : {"editor", "agent"}, published : BOOLEAN]
    OBVIOUS
  <2>2. \A u \in DOMAIN admissions :
           admissions[u] \in [owner : {"editor", "agent"}, published : BOOLEAN]
    BY DEF LeaseInvariant, RegistryOK
  <2> HIDE DEF entry
  <2>3. \A u \in DOMAIN admissions' : admissions'[u] = entry \/
            (u \in DOMAIN admissions /\ admissions'[u] = admissions[u])
    BY <1>1
  <2> QED  BY <2>1, <2>2, <2>3
<1>5. identity' \in 1..t
  BY <1>1, <1>2
<1>6. RegistryOK'
  <2>1. /\ issued' \in 0..MaxTokens /\ latest' \in 0..issued' /\ current' \in 0..issued'
        /\ identity' \in 0..issued' /\ identity' # 0
    BY <1>1, <1>2, <1>5, RegistryAssumption
  <2>2. DOMAIN admissions' \subseteq 1..issued'
    BY <1>1, <1>2, <1>3
  <2>3. /\ DOMAIN admissions' # {} /\ latest' \in DOMAIN admissions'
        /\ \A u \in DOMAIN admissions' : u <= latest'
    BY <1>1, <1>2, <1>3
  <2> QED  BY <1>4, <2>1, <2>2, <2>3 DEF RegistryOK
<1> QED  BY <1>1, <1>2, <1>3, <1>5, <1>6

----------------------------------------------------------------------------
(* Every layer is kept by every step of a command.                          *)

LEMMA RegistryStep ==
    ASSUME LeaseInvariant, NEW c \in Commands, Request(c) \/ Advance(c)
    PROVE  RegistryOK'
<1> RegistryOK /\ issued \in Nat /\ latest \in 0..issued /\ 0 \in 0..issued
  BY RegistryAssumption DEF LeaseInvariant, RegistryOK
<1>1. CASE UNCHANGED <<registryVars, current>>
  BY <1>1 DEF RegistryOK, registryVars
<1>2. CASE OpenEditor(c) \/ RegisterAgent(c)
  BY <1>2, Inserted DEF OpenEditor, RegisterAgent
<1>3. CASE Publish(c)
  <2> DEFINE t == job[c].token
  <2>1. /\ t \in DOMAIN admissions /\ t = latest
        /\ admissions' = [admissions EXCEPT ![t].published = TRUE] /\ current' = t
        /\ UNCHANGED <<identity, latest, issued>>
    BY <1>3 DEF Publish, IsCurrent, Holds
  <2>2. DOMAIN admissions' = DOMAIN admissions
    BY <2>1
  <2>3. \A u \in DOMAIN admissions' :
           admissions'[u] \in [owner : {"editor", "agent"}, published : BOOLEAN]
    BY <2>1, <2>2 DEF RegistryOK
  <2> QED  BY <2>1, <2>2, <2>3 DEF RegistryOK
<1>4. CASE LosePublication(c)
  <2> DEFINE t == job[c].token
  <2>1. t \in DOMAIN admissions /\ ~IsLastOwner(t)
    BY <1>4, HoldersKeepItOpen DEF LosePublication, Keeps, At, Holds
  <2>2. LoseAdmission(t) /\ current' = current
    BY <1>4 DEF LosePublication, operationVars
  <2>3. issued' = issued /\ current' \in 0..issued
    BY <2>1, <2>2 DEF LoseAdmission, RegistryOK
  <2> QED  BY <2>1, <2>2, <2>3, Lost
<1>5. CASE Republish(c)
  <2>1. current' \in {current, latest} /\ UNCHANGED registryVars
    BY <1>5 DEF Republish, IsCurrent
  <2> QED  BY <2>1 DEF RegistryOK, registryVars
<1>6. ASSUME NEW t \in DOMAIN admissions, ~IsLastOwner(t), LoseAdmission(t), BeginTransition(c)
      PROVE  RegistryOK'
  BY <1>6, Lost DEF BeginTransition
<1>7. ASSUME NEW place, CloseWorkspace(c, place) PROVE RegistryOK'
  BY <1>7 DEF CloseWorkspace, BeginTransition, RegistryOK
<1>8. CASE RemoveWorkspace /\ current' = current
  BY <1>8 DEF RemoveWorkspace, RegistryOK
<1>9. CASE Rollback(c)
  BY <1>9, <1>6, <1>7 DEF Rollback, LeaveOthers, Holds
<1>10. CASE FinishRollback(c)
  BY <1>10, <1>1, <1>8 DEF FinishRollback, operationVars
<1>11. CASE ReleaseOwner(c)
  BY <1>11, <1>6, <1>7 DEF ReleaseOwner, LeaveOthers, InScope, Holds
<1>12. CASE FinalizeUnregister(c)
  BY <1>12, <1>1, <1>8 DEF FinalizeUnregister, operationVars
<1>13. CASE CancelUnregister(c)
  BY <1>13 DEF CancelUnregister, RegistryOK
<1>14. CASE \E new, old \in opened : Adopt(c, new, old)
  BY <1>14, <1>6 DEF Adopt, Holds, IsLastOwner
<1> QED
  BY <1>1, <1>2, <1>3, <1>4, <1>5, <1>9, <1>10, <1>11, <1>12, <1>13, <1>14,
     OthersTouchNothing DEF Touches

(* The counter of tokens only grows.                                        *)
LEMMA IssuedGrows ==
    ASSUME LeaseInvariant, NEW c \in Commands, Request(c) \/ Advance(c)
    PROVE  issued \in Nat /\ issued' \in Nat /\ issued <= issued'
<1>1. issued \in Nat
  BY RegistryAssumption DEF LeaseInvariant, RegistryOK
<1>2. CASE issued' = issued
  BY <1>1, <1>2
<1>3. CASE OpenEditor(c) \/ RegisterAgent(c)
  BY <1>1, <1>3, Inserted DEF OpenEditor, RegisterAgent
<1>4. CASE Touches(c) /\ ~(OpenEditor(c) \/ RegisterAgent(c))
  <2>1. issued' = issued
    BY <1>4 DEF Touches, Publish, LosePublication, LoseAdmission, Republish, Rollback,
           FinishRollback, ReleaseOwner, FinalizeUnregister, CancelUnregister, Adopt,
           LeaveOthers, CloseWorkspace, RemoveWorkspace, registryVars
  <2> QED  BY <2>1, <1>2
<1> QED  BY <1>2, <1>3, <1>4, OthersTouchNothing DEF registryVars

LEMMA LedgerStep ==
    ASSUME LeaseInvariant, NEW c \in Commands, Request(c) \/ Advance(c)
    PROVE  LedgerOK'
<1> LedgerOK /\ issued \in Nat /\ issued' \in Nat /\ issued <= issued'
  BY IssuedGrows DEF LeaseInvariant
<1>1. CASE UNCHANGED <<leaseVars, historyVars>>
  BY <1>1 DEF LedgerOK, leaseVars, historyVars
<1>2. CASE OpenEditor(c) \/ RegisterAgent(c)
  BY <1>2, <1>1 DEF OpenEditor, RegisterAgent, Insert
<1>3. ASSUME Holds(job[c].token)
      PROVE  job[c].token \in 1..issued /\ identity \in 1..issued
  BY <1>3 DEF LeaseInvariant, RegistryOK, Holds
<1>4. CASE Publish(c)
  <2>1. job[c].token \in 1..issued /\ identity \in 1..issued
    BY <1>3, <1>4 DEF Publish, IsCurrent
  <2>2. /\ opened' \subseteq opened \cup {job[c].token} /\ opened \subseteq opened'
        /\ told' \subseteq told \cup {identity}
        /\ UNCHANGED <<lease, releasing, given>>
    BY <1>4 DEF Publish, leaseVars
  <2> QED  BY <2>1, <2>2 DEF LedgerOK
<1>5. CASE TakeLease(c)
  <2>1. job[c].token \in 1..issued /\ identity \in 1..issued
    BY <1>3, <1>5, HoldersKeepItOpen DEF TakeLease, Keeps, At
  <2>2. /\ lease' = job[c].token /\ releasing' \in BOOLEAN /\ told' = told \cup {identity}
        /\ UNCHANGED <<opened, given>>
    BY <1>5 DEF TakeLease
  <2> QED  BY <2>1, <2>2 DEF LedgerOK
<1>6. CASE BeginRelease(c)
  BY <1>6 DEF BeginRelease, LedgerOK, historyVars
<1>7. CASE \E t \in opened, kind \in {"unregister", "withdraw", "dispose"} : BeginClose(c, kind, t)
  BY <1>7 DEF BeginClose, LedgerOK, leaseVars
<1>8. CASE \E new, old \in opened : Adopt(c, new, old)
  BY <1>8 DEF Adopt, LedgerOK, leaseVars
<1>9. CASE FinishRelease(c) \/ AbortRelease(c)
  <2>1. /\ lease' \in {lease, 0} /\ releasing' \in BOOLEAN
        /\ UNCHANGED <<opened, given, told>>
    BY <1>9 DEF FinishRelease, AbortRelease, leaseVars, historyVars, LedgerOK
  <2> QED  BY <2>1 DEF LedgerOK
<1> QED
  BY <1>1, <1>2, <1>4, <1>5, <1>6, <1>7, <1>8, <1>9
     DEF Request, Advance, AskReleasing, ReserveOperation, ReserveStart, LookUp,
         RegisterRefused, LosePublication, Republish, TakeRefused, Rollback,
         FinishRollback, DisposalRefused, ReleaseRefused, ReleaseOwner,
         FinalizeUnregister, CancelUnregister, ReadHolds, BeginCommit, EndOperation,
         ReleaseStart

(* A step of a command moves no other one.                                  *)
LEMMA JobsStep ==
    ASSUME LeaseInvariant, NEW c \in Commands, Request(c) \/ Advance(c)
    PROVE  JobsOK' /\ \A d \in Commands \ {c} : job'[d] = job[d]
<1> DEFINE Entries == [kind : Kinds, at : Places, token : 0..issued', latest : 0..issued']
<1> issued \in Nat /\ issued' \in Nat /\ issued <= issued'
  BY IssuedGrows
<1>1. job \in [Commands -> Entries]
  BY DEF LeaseInvariant, JobsOK
<1>2. ASSUME NEW e \in Entries, job' = [job EXCEPT ![c] = e]
      PROVE  JobsOK' /\ \A d \in Commands \ {c} : job'[d] = job[d]
  BY <1>1, <1>2 DEF JobsOK
<1>3. ASSUME NEW k \in Kinds, NEW p \in Places, NEW t \in 0..issued', NEW l \in 0..issued',
             job' = [job EXCEPT ![c] = [kind |-> k, at |-> p, token |-> t, latest |-> l]]
      PROVE  JobsOK' /\ \A d \in Commands \ {c} : job'[d] = job[d]
  BY <1>2, <1>3
<1>4. ASSUME NEW p \in Places, Go(c, p)
      PROVE  JobsOK' /\ \A d \in Commands \ {c} : job'[d] = job[d]
  BY <1>1, <1>4 DEF Go, JobsOK
<1>5. ASSUME Finish(c)
      PROVE  JobsOK' /\ \A d \in Commands \ {c} : job'[d] = job[d]
  BY <1>1, <1>5 DEF Finish, Idle, Kinds, Places, JobsOK
<1>6. ASSUME LeaveOthers(c, job[c].token), latest' \in 0..issued'
      PROVE  JobsOK' /\ \A d \in Commands \ {c} : job'[d] = job[d]
  BY <1>1, <1>6 DEF LeaveOthers, JobsOK, Places
<1>7. latest' \in 0..issued' /\ lease \in 0..issued' /\ identity \in 0..issued'
      /\ latest \in 0..issued' /\ opened \subseteq 0..issued' /\ 0 \in 0..issued'
  BY RegistryStep DEF RegistryOK, LeaseInvariant, LedgerOK
<1>8. CASE OpenEditor(c) \/ RegisterAgent(c)
  <2>1. issued' = issued + 1
    BY <1>8, Inserted DEF OpenEditor, RegisterAgent
  <2>2. \E k \in {"open", "acquire"} : Begin(c, k, "publishing", issued + 1)
    BY <1>8 DEF OpenEditor, RegisterAgent, Insert
  <2>3. issued + 1 \in 0..issued' /\ "publishing" \in Places /\ {"open", "acquire"} \subseteq Kinds
    BY <2>1 DEF Kinds, Places
  <2> QED  BY <1>3, <1>7, <2>2, <2>3 DEF Begin
<1>9. CASE \E k \in Kinds, p \in Places, t \in 0..issued' : Begin(c, k, p, t)
  BY <1>3, <1>7, <1>9 DEF Begin
<1>10. CASE AskReleasing(c) \/ BeginRelease(c) \/ ReserveStart(c)
  BY <1>9, <1>7, <1>10 DEF AskReleasing, BeginRelease, ReserveStart, Kinds, Places
<1>11. CASE \E t \in opened, kind \in {"unregister", "withdraw", "dispose"} : BeginClose(c, kind, t)
  BY <1>9, <1>7, <1>11 DEF BeginClose, Kinds, Places
<1>12. CASE \E t \in opened : ReserveOperation(c, t)
  BY <1>9, <1>7, <1>12 DEF ReserveOperation, Kinds, Places
<1>13. CASE \E new, old \in opened : Adopt(c, new, old)
  BY <1>3, <1>7, <1>13 DEF Adopt, Kinds, Places
<1>14. CASE Rollback(c) \/ ReleaseOwner(c)
  BY <1>4, <1>6, <1>7, <1>14 DEF Rollback, ReleaseOwner, CloseWorkspace, Places
<1>15. CASE Advance(c) /\ ~(RegisterAgent(c) \/ Rollback(c) \/ ReleaseOwner(c))
  BY <1>4, <1>5, <1>15
     DEF Advance, LookUp, RegisterRefused, Publish, LosePublication, Republish, TakeLease,
         TakeRefused, FinishRollback, DisposalRefused, ReleaseRefused, EndClose,
         FinalizeUnregister, CancelUnregister, ReadHolds, FinishRelease, AbortRelease,
         BeginCommit, EndOperation, ReleaseStart, Places
<1> QED
  BY <1>8, <1>10, <1>11, <1>12, <1>13, <1>14, <1>15 DEF Request

LEMMA ShapeStep ==
    ASSUME LeaseInvariant, NEW c \in Commands, Request(c) \/ Advance(c)
    PROVE  \A d \in Commands : Shape(d)'
<1> USE DEF At
<1>1. JobsOK /\ (\A d \in Commands : Shape(d)) /\ OneClose
  BY DEF LeaseInvariant
<1>2. given \subseteq given'
  BY DEF Request, Advance, AskReleasing, BeginRelease, OpenEditor, Insert, BeginClose, Adopt,
         ReserveOperation, ReserveStart, LookUp, RegisterAgent, RegisterRefused, Publish,
         LosePublication, Republish, TakeLease, TakeRefused, Rollback, FinishRollback,
         DisposalRefused, ReleaseRefused, ReleaseOwner, FinalizeUnregister,
         CancelUnregister, ReadHolds, FinishRelease, AbortRelease, BeginCommit,
         EndOperation, ReleaseStart, historyVars
<1>3. ASSUME NEW d \in Commands \ {c} PROVE Shape(d)'
  <2>1. job'[d] = job[d] /\ Shape(d)
    BY <1>1, JobsStep
  <2> QED  BY <2>1, <1>2 DEF Shape
<1>4. ASSUME Finish(c) PROVE Shape(c)'
  BY <1>1, <1>4 DEF Finish, Shape, Idle, JobsOK, Closes
<1>5. ASSUME NEW k, NEW p, NEW t, NEW l,
             job' = [job EXCEPT ![c] = [kind |-> k, at |-> p, token |-> t, latest |-> l]],
             \/ k = "acquire" /\ p \in {"asked", "publishing"}
             \/ k = "open" /\ p = "publishing"
             \/ k = "release" /\ p = "begun"
             \/ k \in Closes /\ p = "begun" /\ t \in given'
             \/ k = "adopt" /\ p = "republishing"
             \/ k = "operate" /\ p = "reserved" /\ t # 0
             \/ k = "start" /\ p = "starting"
      PROVE  Shape(c)'
  <2>1. job'[c] = [kind |-> k, at |-> p, token |-> t, latest |-> l]
    BY <1>1, <1>5 DEF JobsOK
  <2> QED  BY <1>5, <2>1 DEF Shape, Closes
<1>6. ASSUME NEW p, job[c].at # "idle", job'[c].at = p, p # "idle",
             job'[c].kind = job[c].kind, job'[c].token = job[c].token,
             \/ p \in {"registering", "taking", "rollback", "removing"} /\ job[c].kind = "acquire"
             \/ p = "republishing" /\ job[c].kind \in Closes \cup {"acquire"}
             \/ p = "cleanup" /\ job[c].kind \in Closes
             \/ p \in {"failed", "restoring", "settled"} /\ job[c].kind = "release"
             \/ p = "committing" /\ job[c].kind = "operate"
      PROVE  Shape(c)'
  <2>1. Shape(c)
    BY <1>1
  <2> QED  BY <1>2, <1>6, <2>1 DEF Shape, Closes
<1>7. ASSUME NEW p, Go(c, p)
      PROVE  job'[c].at = p /\ job'[c].kind = job[c].kind /\ job'[c].token = job[c].token
  BY <1>1, <1>7 DEF Go, JobsOK
<1>8. ASSUME LeaveOthers(c, job[c].token)
      PROVE  /\ job'[c].at = "republishing"
             /\ job'[c].kind = job[c].kind /\ job'[c].token = job[c].token
  BY <1>1, <1>8 DEF LeaveOthers, JobsOK
<1>9. Shape(c)
  BY <1>1
<1> SUFFICES Shape(c)'
  BY <1>3
<1>10. CASE AskReleasing(c) \/ BeginRelease(c) \/ OpenEditor(c) \/ RegisterAgent(c) \/ ReserveStart(c)
  BY <1>5, <1>10 DEF AskReleasing, BeginRelease, OpenEditor, RegisterAgent, Insert,
                     ReserveStart, Begin
<1>11. CASE \E t \in opened, kind \in {"unregister", "withdraw", "dispose"} : BeginClose(c, kind, t)
  BY <1>5, <1>11 DEF BeginClose, Begin, Closes
<1>12. CASE \E new, old \in opened : Adopt(c, new, old)
  BY <1>5, <1>12 DEF Adopt
<1>13. CASE \E t \in opened : ReserveOperation(c, t)
  <2>1. Open /\ Begin(c, "operate", "reserved", latest)
    BY <1>13 DEF ReserveOperation
  <2>2. latest # 0
    BY <2>1, RegistryAssumption DEF LeaseInvariant, RegistryOK, Open
  <2> QED  BY <1>5, <2>1, <2>2 DEF Begin
<1>14. CASE Publish(c) \/ LookUp(c) \/ TakeRefused(c)
  BY <1>4, <1>6, <1>7, <1>9, <1>14 DEF Publish, LookUp, TakeRefused, Shape
<1>15. CASE Rollback(c)
  BY <1>6, <1>7, <1>8, <1>9, <1>15 DEF Rollback, CloseWorkspace, Shape
<1>16. CASE ReleaseOwner(c)
  BY <1>6, <1>7, <1>8, <1>9, <1>16 DEF ReleaseOwner, CloseWorkspace, Shape
<1>17. CASE Republish(c) \/ DisposalRefused(c) \/ ReleaseRefused(c) \/ FinalizeUnregister(c)
  BY <1>4, <1>6, <1>7, <1>9, <1>17
     DEF Republish, DisposalRefused, ReleaseRefused, EndClose, FinalizeUnregister
<1>18. CASE ReadHolds(c) \/ BeginCommit(c)
  BY <1>6, <1>7, <1>9, <1>18 DEF ReadHolds, BeginCommit, Shape
<1>19. CASE \/ RegisterRefused(c) \/ LosePublication(c) \/ TakeLease(c) \/ FinishRollback(c)
            \/ CancelUnregister(c) \/ FinishRelease(c) \/ AbortRelease(c)
            \/ EndOperation(c) \/ ReleaseStart(c)
  BY <1>4, <1>19 DEF RegisterRefused, LosePublication, TakeLease, FinishRollback,
                     CancelUnregister, FinishRelease, AbortRelease, EndOperation, ReleaseStart
<1> QED
  BY <1>10, <1>11, <1>12, <1>13, <1>14, <1>15, <1>16, <1>17, <1>18, <1>19 DEF Request, Advance

LEMMA OperationsStep ==
    ASSUME LeaseInvariant, NEW c \in Commands, Request(c) \/ Advance(c)
    PROVE  OperationsOK'
<1> DEFINE Operating == {d \in Commands : job[d].kind = "operate"}
           Committing == {d \in Commands : At(d, "committing")}
<1>1. OperationsOK /\ JobsOK /\ Shape(c)
  BY DEF LeaseInvariant
<1>2. \A d \in Commands \ {c} : job'[d] = job[d]
  BY JobsStep
<1>3. ASSUME job[c].kind # "operate", live' \subseteq live \/ live' \subseteq {}, NEW k \in Commands,
             \/ awaited' = awaited
             \/ awaited' = [awaited EXCEPT ![k] = {d \in live : At(d, "committing")}]
      PROVE  OperationsOK'
  <2>1. Operating \subseteq Operating' /\ Committing \subseteq Committing'
    BY <1>1, <1>2, <1>3 DEF Shape, At
  <2>2. live \subseteq Operating /\ awaited \in [Commands -> SUBSET Committing]
    BY <1>1 DEF OperationsOK
  <2>3. {d \in live : At(d, "committing")} \subseteq Committing
    BY <2>2
  <2> HIDE DEF Operating, Committing
  <2>4. live' \subseteq Operating' /\ awaited' \in [Commands -> SUBSET Committing']
    BY <1>3, <2>1, <2>2, <2>3
  <2> QED  BY <2>4 DEF OperationsOK, Operating, Committing
<1>4. CASE \E t \in opened : ReserveOperation(c, t)
  <2>1. /\ job'[c].kind = "operate" /\ live' = live \cup {c} /\ awaited' = awaited
        /\ ~At(c, "committing")
    BY <1>1, <1>4 DEF ReserveOperation, Begin, JobsOK, At
  <2>2. Operating' = Operating \cup {c} /\ Committing \subseteq Committing'
    BY <1>2, <2>1 DEF At
  <2> HIDE DEF Operating, Committing
  <2>3. live' \subseteq Operating' /\ awaited' \in [Commands -> SUBSET Committing']
    BY <1>1, <2>1, <2>2 DEF OperationsOK, Operating, Committing
  <2> QED  BY <2>3 DEF OperationsOK, Operating, Committing
<1>5. CASE BeginCommit(c)
  <2>1. /\ job'[c].kind = job[c].kind /\ live' = live /\ awaited' = awaited
        /\ ~At(c, "committing")
    BY <1>1, <1>5 DEF BeginCommit, Go, JobsOK, operationVars, At
  <2>2. Operating' = Operating /\ Committing \subseteq Committing'
    BY <1>2, <2>1 DEF At
  <2> HIDE DEF Operating, Committing
  <2>3. live' \subseteq Operating' /\ awaited' \in [Commands -> SUBSET Committing']
    BY <1>1, <2>1, <2>2 DEF OperationsOK, Operating, Committing
  <2> QED  BY <2>3 DEF OperationsOK, Operating, Committing
<1>6. CASE EndOperation(c)
  <2>1. /\ live' = live \ {c} /\ awaited' = [d \in Commands |-> awaited[d] \ {c}]
    BY <1>6 DEF EndOperation
  <2>2. Operating \ {c} \subseteq Operating' /\ Committing \ {c} \subseteq Committing'
    BY <1>2 DEF At
  <2> HIDE DEF Operating, Committing
  <2>3. live' \subseteq Operating' /\ awaited' \in [Commands -> SUBSET Committing']
    BY <1>1, <2>1, <2>2 DEF OperationsOK, Operating, Committing
  <2> QED  BY <2>3 DEF OperationsOK, Operating, Committing
<1>7. CASE Request(c) /\ ~(\E t \in opened : ReserveOperation(c, t))
  BY <1>1, <1>3, <1>7
     DEF Request, AskReleasing, BeginRelease, OpenEditor, Insert, BeginTransition,
         BeginClose, Adopt, ReserveStart, operationVars, Shape, Idle, At
<1>8. CASE Advance(c) /\ ~(BeginCommit(c) \/ EndOperation(c))
  <2>1. job[c].kind # "operate"
    BY <1>1, <1>8
       DEF Advance, LookUp, RegisterAgent, RegisterRefused, Publish, LosePublication,
           Republish, TakeLease, TakeRefused, Rollback, FinishRollback, DisposalRefused,
           ReleaseRefused, ReleaseOwner, FinalizeUnregister, CancelUnregister, ReadHolds,
           FinishRelease, AbortRelease, ReleaseStart, Shape, Closes, At
  <2>2. CASE BeginTransition(c)
    BY <1>3, <2>1, <2>2 DEF BeginTransition
  <2>3. CASE UNCHANGED <<live, awaited>>
    BY <1>3, <2>1, <2>3
  <2> QED
    BY <1>8, <2>2, <2>3
       DEF Advance, LookUp, RegisterAgent, Insert, RegisterRefused, Publish, LosePublication,
           Republish, TakeLease, TakeRefused, Rollback, CloseWorkspace, LeaveOthers,
           FinishRollback, DisposalRefused, ReleaseRefused, EndClose, ReleaseOwner,
           FinalizeUnregister, CancelUnregister, ReadHolds, FinishRelease, AbortRelease,
           ReleaseStart, operationVars
<1> QED  BY <1>4, <1>5, <1>6, <1>7, <1>8

LEMMA TokensStep ==
    ASSUME LeaseInvariant, NEW c \in Commands, Request(c) \/ Advance(c)
    PROVE  TokensApart'
<1> USE DEF At
<1>1. /\ TokensApart /\ JobsOK /\ LedgerOK /\ issued \in Nat
      /\ lease \in 0..issued /\ opened \subseteq 1..issued
      /\ \A d \in Commands : job[d].token \in 0..issued
  BY RegistryAssumption DEF LeaseInvariant, LedgerOK, JobsOK, RegistryOK
<1>2. \A d \in Commands \ {c} : job'[d] = job[d]
  BY JobsStep
<1>3. \A d \in Commands \ {c} : Makes(d)' = Makes(d)
  BY <1>2 DEF Makes
<1>4. ASSUME Makes(c)' => Makes(c) /\ job'[c].token = job[c].token,
             lease' = lease, opened' = opened
      PROVE  TokensApart'
  BY <1>1, <1>2, <1>3, <1>4 DEF TokensApart
<1>5. ASSUME NEW p, Go(c, p)
      PROVE  job'[c].at = p /\ job'[c].token = job[c].token
  BY <1>1, <1>5 DEF Go, JobsOK
<1>6. CASE OpenEditor(c) \/ RegisterAgent(c)
  <2>1. /\ job'[c].token = issued + 1 /\ lease' = lease /\ opened' = opened
    BY <1>1, <1>6, Inserted DEF OpenEditor, RegisterAgent, JobsOK, leaseVars, historyVars
  <2>2. issued + 1 # 0 /\ issued + 1 \notin 0..issued /\ issued + 1 \notin 1..issued
    BY <1>1
  <2> QED  BY <1>1, <1>2, <1>3, <2>1, <2>2 DEF TokensApart
<1>7. CASE Publish(c) /\ job[c].kind = "open"
  <2>1. /\ lease' = lease /\ opened' = opened \cup {job[c].token} /\ ~Makes(c)' /\ Makes(c)
    BY <1>1, <1>7 DEF Publish, Finish, JobsOK, Makes, Idle, leaseVars
  <2> QED  BY <1>1, <1>2, <1>3, <2>1 DEF TokensApart
<1>8. CASE TakeLease(c)
  <2>1. /\ lease' = job[c].token /\ opened' = opened /\ ~Makes(c)' /\ Makes(c)
    BY <1>1, <1>8 DEF TakeLease, Finish, JobsOK, Makes, Idle
  <2> QED  BY <1>1, <1>2, <1>3, <2>1 DEF TokensApart
<1>9. CASE FinishRelease(c)
  <2>1. /\ lease' \in {lease, 0} /\ opened' = opened /\ ~Makes(c)'
    BY <1>1, <1>9 DEF FinishRelease, Finish, JobsOK, Makes, Idle, historyVars, leaseVars
  <2> QED  BY <1>1, <1>2, <1>3, <2>1 DEF TokensApart
<1>10. CASE Rollback(c) \/ ReleaseOwner(c)
  <2>1. lease' = lease /\ opened' = opened
    BY <1>10 DEF Rollback, ReleaseOwner, leaseVars, historyVars
  <2>2. CASE LeaveOthers(c, job[c].token)
    <3>1. ~Makes(c)'
      BY <1>1, <2>2 DEF LeaveOthers, JobsOK, Makes
    <3> QED  BY <1>4, <2>1, <3>1
  <2> QED  BY <1>4, <1>5, <1>10, <2>1, <2>2 DEF Rollback, ReleaseOwner, CloseWorkspace, Makes
<1>11. CASE Request(c) /\ ~OpenEditor(c)
  <2>1. lease' = lease /\ opened' = opened
    BY <1>11 DEF Request, AskReleasing, BeginRelease, BeginClose, Adopt, ReserveOperation,
                 ReserveStart, leaseVars, historyVars
  <2>2. ~Makes(c)'
    BY <1>1, <1>11 DEF Request, AskReleasing, BeginRelease, BeginClose, Adopt,
                       ReserveOperation, ReserveStart, Begin, Makes, JobsOK
  <2> QED  BY <1>4, <2>1, <2>2
<1>12. CASE /\ Advance(c)
            /\ ~(RegisterAgent(c) \/ TakeLease(c) \/ FinishRelease(c)
                   \/ Rollback(c) \/ ReleaseOwner(c))
            /\ ~(Publish(c) /\ job[c].kind = "open")
  <2>1. lease' = lease /\ opened' = opened
    BY <1>12
       DEF Advance, LookUp, RegisterRefused, Publish, LosePublication, Republish,
           TakeRefused, FinishRollback, DisposalRefused, ReleaseRefused,
           FinalizeUnregister, CancelUnregister, ReadHolds, AbortRelease, BeginCommit,
           EndOperation, ReleaseStart, leaseVars, historyVars
  <2>2. CASE Finish(c)
    BY <1>1, <1>4, <2>1, <2>2 DEF Finish, Makes, Idle, JobsOK
  <2>3. CASE Publish(c) \/ TakeRefused(c)
    <3>1. Makes(c) /\ (Finish(c) \/ \E p : Go(c, p))
      BY <2>3 DEF Publish, TakeRefused, Makes
    <3> QED  BY <1>4, <1>5, <2>1, <2>2, <3>1
  <2>4. CASE ~Publish(c) /\ ~TakeRefused(c) /\ ~Finish(c)
    <3>1. \E p \in {"registering", "failed", "settled", "restoring", "committing"} : Go(c, p)
      BY <1>12, <2>4
         DEF Advance, LookUp, RegisterRefused, LosePublication, Republish, FinishRollback,
             DisposalRefused, ReleaseRefused, EndClose, FinalizeUnregister,
             CancelUnregister, ReadHolds, AbortRelease, BeginCommit, EndOperation,
             ReleaseStart
    <3> QED  BY <1>4, <1>5, <2>1, <3>1 DEF Makes
  <2> QED  BY <2>2, <2>3, <2>4
<1> QED  BY <1>6, <1>7, <1>8, <1>9, <1>10, <1>11, <1>12

LEMMA ReleaseStep ==
    ASSUME LeaseInvariant, NEW c \in Commands, Request(c) \/ Advance(c)
    PROVE  OneRelease'
<1> USE DEF At
<1>1. OneRelease /\ JobsOK /\ Shape(c)
  BY DEF LeaseInvariant
<1>2. \A d \in Commands \ {c} : job'[d] = job[d]
  BY JobsStep
<1>3. ASSUME job'[c].kind = "release" <=> job[c].kind = "release",
             job'[c].token = job[c].token \/ job[c].kind # "release", UNCHANGED leaseVars
      PROVE  OneRelease'
  BY <1>1, <1>2, <1>3 DEF OneRelease, leaseVars
<1>4. ASSUME NEW p, Go(c, p)
      PROVE  job'[c].kind = job[c].kind /\ job'[c].token = job[c].token
  BY <1>1, <1>4 DEF Go, JobsOK
<1>5. ASSUME Finish(c) PROVE job'[c].kind = "none"
  BY <1>1, <1>5 DEF Finish, JobsOK, Idle
<1>6. CASE BeginRelease(c)
  <2>1. /\ job'[c].kind = "release" /\ job'[c].token = lease /\ lease # 0 /\ ~releasing
        /\ releasing' /\ lease' = lease
    BY <1>1, <1>6 DEF BeginRelease, Begin, JobsOK
  <2> QED  BY <1>1, <1>2, <2>1 DEF OneRelease
<1>7. CASE FinishRelease(c) \/ AbortRelease(c)
  <2>1. job[c].kind = "release" /\ job'[c].kind = "none"
    BY <1>1, <1>5, <1>7 DEF FinishRelease, AbortRelease, Shape
  <2>2. ~releasing'
    BY <1>1, <1>7, <2>1 DEF FinishRelease, AbortRelease, OneRelease
  <2> QED  BY <1>1, <1>2, <2>1, <2>2 DEF OneRelease
<1>8. CASE TakeLease(c)
  <2>1. job[c].kind = "acquire" /\ job'[c].kind = "none" /\ lease = 0 /\ ~releasing'
    BY <1>1, <1>5, <1>8 DEF TakeLease, Shape
  <2> QED  BY <1>1, <1>2, <2>1 DEF OneRelease
<1>9. CASE Request(c) /\ ~BeginRelease(c)
  <2>1. job[c].kind # "release" /\ job'[c].kind # "release" /\ UNCHANGED leaseVars
    BY <1>1, <1>9
       DEF Request, AskReleasing, OpenEditor, Insert, BeginClose, Adopt, ReserveOperation,
           ReserveStart, Begin, JobsOK, Shape, Idle
  <2> QED  BY <1>3, <2>1
<1>10. CASE RegisterAgent(c)
  <2>1. job[c].kind # "release" /\ job'[c].kind # "release" /\ UNCHANGED leaseVars
    BY <1>1, <1>10 DEF RegisterAgent, Insert, Begin, JobsOK, Shape
  <2> QED  BY <1>3, <2>1
<1>11. CASE Rollback(c) \/ ReleaseOwner(c)
  <2>1. UNCHANGED leaseVars
    BY <1>11 DEF Rollback, ReleaseOwner
  <2>2. job'[c].kind = job[c].kind /\ job'[c].token = job[c].token
    BY <1>1, <1>4, <1>11 DEF Rollback, ReleaseOwner, LeaveOthers, CloseWorkspace, JobsOK
  <2> QED  BY <1>3, <2>1, <2>2
<1>12. CASE /\ Advance(c)
            /\ ~(RegisterAgent(c) \/ Rollback(c) \/ ReleaseOwner(c)
                    \/ FinishRelease(c) \/ AbortRelease(c) \/ TakeLease(c))
  <2>1. UNCHANGED leaseVars
    BY <1>12
       DEF Advance, LookUp, RegisterRefused, Publish, LosePublication, Republish,
           TakeRefused, FinishRollback, DisposalRefused, ReleaseRefused,
           FinalizeUnregister, CancelUnregister, ReadHolds, BeginCommit, EndOperation,
           ReleaseStart
  <2>2. (\E p : Go(c, p)) \/ (Finish(c) /\ job[c].kind # "release")
    BY <1>1, <1>12
       DEF Advance, LookUp, RegisterRefused, Publish, LosePublication, Republish,
           TakeRefused, FinishRollback, DisposalRefused, ReleaseRefused, EndClose,
           FinalizeUnregister, CancelUnregister, ReadHolds, BeginCommit, EndOperation,
           ReleaseStart, Shape
  <2> QED  BY <1>3, <1>4, <1>5, <2>1, <2>2
<1> QED  BY <1>6, <1>7, <1>8, <1>9, <1>10, <1>11, <1>12

LEMMA CloseStep ==
    ASSUME LeaseInvariant, NEW c \in Commands, Request(c) \/ Advance(c)
    PROVE  OneClose'
<1> USE DEF At
<1>1. OneClose /\ JobsOK /\ Shape(c) /\ NoCommand \notin Commands
  BY RegistryAssumption DEF LeaseInvariant
<1>2. \A d \in Commands \ {c} : job'[d] = job[d]
  BY JobsStep
<1>3. ASSUME NEW p, Go(c, p) PROVE job'[c].at = p /\ job'[c].token = job[c].token
  BY <1>1, <1>3 DEF Go, JobsOK
<1>4. ASSUME Finish(c) PROVE job'[c].at = "idle"
  BY <1>1, <1>4 DEF Finish, JobsOK, Idle
<1>5. ASSUME closing = NoCommand, closing' = NoCommand, job'[c].at \notin {"removing", "cleanup"}
      PROVE  OneClose'
  BY <1>1, <1>2, <1>5 DEF OneClose
<1>6. ASSUME UNCHANGED <<closing, admissions>>, current' = current,
             job[c].at \notin {"removing", "cleanup"}, job'[c].at \notin {"removing", "cleanup"}
      PROVE  OneClose'
  BY <1>1, <1>2, <1>6 DEF OneClose
<1>7. ASSUME NEW p \in {"removing", "cleanup"}, CloseWorkspace(c, p),
             IsLastOwner(job[c].token), closing = NoCommand
      PROVE  OneClose'
  <2>1. /\ closing' = c /\ current' = 0 /\ admissions' = admissions
        /\ job'[c].at = p /\ job'[c].token = job[c].token
    BY <1>3, <1>7 DEF CloseWorkspace, BeginTransition
  <2> QED  BY <1>1, <1>2, <1>7, <2>1 DEF OneClose, IsLastOwner
<1>8. ASSUME closing = c, closing' = NoCommand, job'[c].at \notin {"removing", "cleanup"}
      PROVE  OneClose'
  BY <1>1, <1>2, <1>8 DEF OneClose
<1>9. CASE OpenEditor(c) \/ RegisterAgent(c)
  <2>1. closing = NoCommand /\ closing' = closing /\ job'[c].at = "publishing"
    BY <1>1, <1>9, Inserted DEF OpenEditor, RegisterAgent, JobsOK
  <2> QED  BY <1>5, <2>1
<1>10. CASE Publish(c)
  <2>1. closing = NoCommand /\ closing' = closing /\ job'[c].at \in {"idle", "taking"}
    BY <1>3, <1>4, <1>10 DEF Publish, IsCurrent
  <2> QED  BY <1>5, <2>1
<1>11. CASE LosePublication(c)
  <2>1. closing = NoCommand /\ closing' = closing /\ job'[c].at = "idle"
    BY <1>4, <1>11, HoldersKeepItOpen DEF LosePublication, Keeps, LoseAdmission
  <2> QED  BY <1>5, <2>1
<1>12. CASE Republish(c)
  <2>1. closing' = closing /\ admissions' = admissions /\ job'[c].at \in {"idle", "settled"}
    BY <1>3, <1>4, <1>12 DEF Republish, registryVars
  <2>2. closing = NoCommand \/ current' = current
    BY <1>12 DEF Republish, IsCurrent
  <2> QED  BY <1>5, <1>6, <1>12, <2>1, <2>2 DEF Republish
<1>13. ASSUME LeaveOthers(c, job[c].token), closing = NoCommand PROVE OneClose'
  <2>1. closing' = closing /\ job'[c].at = "republishing"
    BY <1>1, <1>13 DEF LeaveOthers, LoseAdmission, JobsOK
  <2> QED  BY <1>5, <1>13, <2>1
<1>14. CASE Rollback(c)
  BY <1>7, <1>13, <1>14 DEF Rollback
<1>15. CASE ReleaseOwner(c)
  BY <1>7, <1>13, <1>15 DEF ReleaseOwner
<1>16. CASE FinishRollback(c) \/ FinalizeUnregister(c) \/ CancelUnregister(c)
  <2>1. closing = c /\ IsLastOwner(job[c].token)
    BY <1>1, <1>16 DEF FinishRollback, FinalizeUnregister, CancelUnregister, OneClose, IsLastOwner
  <2>2. closing' = NoCommand
    BY <1>16, <2>1 DEF FinishRollback, FinalizeUnregister, CancelUnregister, RemoveWorkspace
  <2>3. job'[c].at \in {"idle", "settled"}
    BY <1>3, <1>4, <1>16 DEF FinishRollback, FinalizeUnregister, CancelUnregister
  <2> QED  BY <1>8, <2>1, <2>2, <2>3
<1>17. CASE \E new, old \in opened : Adopt(c, new, old)
  <2>1. closing = NoCommand /\ closing' = closing /\ job'[c].at = "republishing"
    BY <1>1, <1>17 DEF Adopt, Open, LoseAdmission, JobsOK
  <2> QED  BY <1>5, <2>1
<1>18. CASE ~Touches(c)
  <2>1. UNCHANGED <<closing, admissions>> /\ current' = current
    BY <1>18, OthersTouchNothing DEF registryVars
  <2>2. job[c].at \notin {"removing", "cleanup"}
    BY <1>18
       DEF Touches, Request, Advance, AskReleasing, BeginRelease, BeginClose,
           ReserveOperation, ReserveStart, LookUp, RegisterRefused, TakeLease, TakeRefused,
           DisposalRefused, ReleaseRefused, ReadHolds, FinishRelease, AbortRelease,
           BeginCommit, EndOperation, ReleaseStart
  <2>3. CASE Request(c)
    <3>1. job'[c].at \in {"asked", "begun", "reserved", "starting"}
      BY <1>1, <1>18, <2>3
         DEF Touches, Request, AskReleasing, BeginRelease, BeginClose, ReserveOperation,
             ReserveStart, Begin, JobsOK
    <3> QED  BY <1>6, <2>1, <2>2, <3>1
  <2>4. CASE Advance(c)
    <3>1. \/ Finish(c)
          \/ \E p \in {"registering", "rollback", "failed", "settled", "restoring",
                       "committing"} : Go(c, p)
      BY <1>18, <2>4
         DEF Touches, Advance, LookUp, RegisterRefused, TakeLease, TakeRefused,
             DisposalRefused, ReleaseRefused, EndClose, ReadHolds, FinishRelease,
             AbortRelease, BeginCommit, EndOperation, ReleaseStart
    <3> QED  BY <1>3, <1>4, <1>6, <2>1, <2>2, <3>1
  <2> QED  BY <2>3, <2>4
<1> QED
  BY <1>9, <1>10, <1>11, <1>12, <1>14, <1>15, <1>16, <1>17, <1>18 DEF Touches

(* The admission that a leaving owner gives up is nobody else's: not a tab's*)
(* that did not ask to leave, nor the lease's, nor that of another command. *)
LEMMA GivesUpItsOwn ==
    ASSUME LeaseInvariant, NEW c \in Commands
    PROVE  /\ Makes(c) \/ job[c].at = "begun" =>
                  /\ job[c].token \notin opened \ given
                  /\ lease = job[c].token => job[c].kind = "release" /\ releasing
                  /\ \A d \in Commands \ {c} : Makes(d) \/ Keeps(d) => job[d].token # job[c].token
           /\ \A t \in opened :
                  /\ t # lease
                  /\ \A d \in Commands : Makes(d) \/ Keeps(d) => job[d].token # t
<1> USE DEF At
<1>1. TokensApart /\ OneRelease /\ Shape(c) /\ given \subseteq opened
  BY DEF LeaseInvariant, LedgerOK
<1>2. \A t \in opened : t # lease /\ \A d \in Commands : Makes(d) \/ Keeps(d) => job[d].token # t
  BY <1>1 DEF TokensApart, OneRelease, Makes, Keeps
<1>3. CASE Makes(c)
  <2>1. job[c].token \notin opened /\ lease # job[c].token
    BY <1>1, <1>3 DEF TokensApart
  <2>2. \A d \in Commands \ {c} : Makes(d) \/ Keeps(d) => job[d].token # job[c].token
    BY <1>1, <1>3, <2>1 DEF TokensApart, OneRelease, Makes, Keeps
  <2>3. job[c].at # "begun"
    BY <1>3 DEF Makes
  <2> QED  BY <1>2, <2>1, <2>2, <2>3
<1>4. CASE job[c].at = "begun" /\ job[c].kind = "release"
  BY <1>1, <1>2, <1>4 DEF TokensApart, OneRelease, Makes, Keeps
<1>5. CASE job[c].at = "begun" /\ job[c].kind # "release"
  <2>1. job[c].token \in given
    BY <1>1, <1>5 DEF Shape, Closes
  <2> QED  BY <1>1, <1>2, <1>5, <2>1 DEF Makes
<1> QED  BY <1>2, <1>3, <1>4, <1>5

LEMMA KeptStep ==
    ASSUME LeaseInvariant, NEW c \in Commands, Request(c) \/ Advance(c)
    PROVE  AdmissionsKept'
<1> USE DEF At
<1>1. AdmissionsKept /\ OneRelease /\ JobsOK /\ Shape(c) /\ LedgerOK /\ TokensApart
      /\ lease \in 0..issued /\ issued \in Nat
  BY RegistryAssumption DEF LeaseInvariant, LedgerOK, RegistryOK
<1>2. \A d \in Commands \ {c} : job'[d] = job[d]
  BY JobsStep
<1>3. ASSUME NEW p, Go(c, p)
      PROVE  job'[c].at = p /\ job'[c].token = job[c].token /\ job'[c].kind = job[c].kind
  BY <1>1, <1>3 DEF Go, JobsOK
<1>4. ASSUME Finish(c) PROVE job'[c].at = "idle" /\ job'[c].kind = "none"
  BY <1>1, <1>4 DEF Finish, JobsOK, Idle
<1>5. ASSUME DOMAIN admissions' = DOMAIN admissions, UNCHANGED leaseVars,
             opened' \ given' \subseteq (opened \ given) \cup DOMAIN admissions,
             \/ job'[c].at \in {"idle", "asked", "registering", "removing", "cleanup",
                                "reserved", "committing", "starting"}
             \/ /\ job'[c].at \in {"taking", "rollback"} /\ Keeps(c)
                /\ job'[c].token = job[c].token /\ job'[c].kind # "release"
             \/ job'[c].kind # "release" /\ job'[c].at \in {"begun", "republishing"}
      PROVE  AdmissionsKept'
  BY <1>1, <1>2, <1>5 DEF AdmissionsKept, Keeps, Holds, leaseVars
<1>6. CASE OpenEditor(c) \/ RegisterAgent(c)
  <2>1. /\ DOMAIN admissions' = DOMAIN admissions \cup {issued + 1}
        /\ UNCHANGED <<leaseVars, historyVars>>
        /\ job'[c].at = "publishing" /\ job'[c].token = issued + 1
        /\ job'[c].kind \in {"open", "acquire"}
    BY <1>1, <1>6, Inserted DEF OpenEditor, RegisterAgent, JobsOK
  <2>2. lease # issued + 1
    BY <1>1
  <2> QED  BY <1>1, <1>2, <2>1, <2>2 DEF AdmissionsKept, Keeps, Holds, leaseVars, historyVars
<1>7. CASE Publish(c)
  <2>1. /\ DOMAIN admissions' = DOMAIN admissions /\ UNCHANGED <<leaseVars, given>>
        /\ opened' \subseteq opened \cup {job[c].token} /\ job[c].token \in DOMAIN admissions
        /\ Keeps(c)
    BY <1>7 DEF Publish, IsCurrent, Holds, Keeps
  <2>2. \/ job'[c].at = "idle"
        \/ job'[c].at = "taking" /\ job'[c].token = job[c].token /\ job'[c].kind # "release"
    BY <1>1, <1>3, <1>4, <1>7 DEF Publish, Shape
  <2> QED  BY <1>5, <2>1, <2>2
<1>8. ASSUME NEW t \in DOMAIN admissions, DOMAIN admissions' = DOMAIN admissions \ {t},
             UNCHANGED <<leaseVars, opened>>, given \subseteq given', t \notin opened \ given',
             t = lease => releasing,
             \A d \in Commands \ {c} : Keeps(d) => job[d].token # t,
             \/ job'[c].at = "idle"
             \/ /\ job'[c].at = "republishing"
                /\ job'[c].kind = "release" => t = lease
      PROVE  AdmissionsKept'
  BY <1>1, <1>2, <1>8 DEF AdmissionsKept, Keeps, Holds, leaseVars
<1>9. CASE LosePublication(c)
  <2>1. Makes(c) /\ Keeps(c) /\ ~IsLastOwner(job[c].token) /\ Holds(job[c].token)
    BY <1>9, HoldersKeepItOpen DEF LosePublication, Makes, Keeps
  <2>2. DOMAIN admissions' = DOMAIN admissions \ {job[c].token}
    BY <1>9, <2>1, Lost DEF LosePublication, Holds, LeaseInvariant
  <2>3. UNCHANGED <<leaseVars, opened, given>> /\ job'[c].at = "idle"
    BY <1>4, <1>9 DEF LosePublication, historyVars
  <2> QED  BY <1>8, <2>1, <2>2, <2>3, GivesUpItsOwn DEF Holds
<1>10. ASSUME LeaveOthers(c, job[c].token), Holds(job[c].token), ~IsLastOwner(job[c].token),
              UNCHANGED <<leaseVars, historyVars>>, Makes(c) \/ job[c].at = "begun"
       PROVE  AdmissionsKept'
  <2>1. DOMAIN admissions' = DOMAIN admissions \ {job[c].token}
    BY <1>10, Lost DEF LeaveOthers, Holds, LeaseInvariant
  <2>2. job'[c].at = "republishing" /\ job'[c].kind = job[c].kind
    BY <1>1, <1>10 DEF LeaveOthers, JobsOK
  <2>3. job[c].kind = "release" => job[c].token = lease
    BY <1>1 DEF OneRelease
  <2> QED  BY <1>8, <1>10, <2>1, <2>2, <2>3, GivesUpItsOwn DEF Holds, historyVars
<1>11. ASSUME NEW p \in {"removing", "cleanup"}, CloseWorkspace(c, p),
              UNCHANGED <<leaseVars, historyVars>>
       PROVE  AdmissionsKept'
  <2>1. job'[c].at = p /\ DOMAIN admissions' = DOMAIN admissions
    BY <1>3, <1>11 DEF CloseWorkspace
  <2> QED  BY <1>5, <1>11, <2>1 DEF historyVars
<1>12. CASE Rollback(c)
  BY <1>10, <1>11, <1>12 DEF Rollback, Makes
<1>13. CASE ReleaseOwner(c)
  BY <1>10, <1>11, <1>13 DEF ReleaseOwner, InScope
<1>14. CASE \E new, old \in opened : Adopt(c, new, old)
  <2>1. PICK new, old \in opened : Adopt(c, new, old)
    BY <1>14
  <2>2. Holds(old) /\ ~IsLastOwner(old) /\ LoseAdmission(old)
    BY <2>1 DEF Adopt, Holds, IsLastOwner
  <2>3. DOMAIN admissions' = DOMAIN admissions \ {old}
    BY <2>2, Lost DEF Holds, LeaseInvariant
  <2>4. /\ UNCHANGED <<leaseVars, opened>> /\ given' = given \cup {old}
        /\ job'[c].at = "republishing" /\ job'[c].kind = "adopt"
    BY <1>1, <2>1 DEF Adopt, JobsOK
  <2> QED  BY <1>8, <2>2, <2>3, <2>4, GivesUpItsOwn DEF Holds
<1>15. CASE FinishRollback(c) \/ FinalizeUnregister(c)
  <2>1. closing = c
    BY <1>15 DEF FinishRollback, FinalizeUnregister, LeaseInvariant, OneClose
  <2>2. RemoveWorkspace
    BY <1>15, <2>1 DEF FinishRollback, FinalizeUnregister, LeaseInvariant, OneClose, IsLastOwner
  <2>3. /\ opened \ given = {} /\ ~(lease # 0 /\ ~releasing)
        /\ \A d \in Commands : ~Keeps(d)
    BY <2>1, HoldersKeepItOpen, RegistryAssumption
  <2>4. UNCHANGED <<leaseVars, historyVars>> /\ job'[c].at \in {"idle", "settled"}
    BY <1>3, <1>4, <1>15 DEF FinishRollback, FinalizeUnregister
  <2>5. DOMAIN admissions' = {}
    BY <2>2 DEF RemoveWorkspace
  <2> QED  BY <1>2, <2>3, <2>4, <2>5 DEF AdmissionsKept, Keeps, Holds, leaseVars, historyVars
<1>16. CASE TakeLease(c)
  <2>1. /\ lease = 0 /\ lease' = job[c].token /\ Holds(job[c].token)
        /\ UNCHANGED <<admissions, opened, given>> /\ job'[c].at = "idle" /\ job'[c].kind = "none"
    BY <1>4, <1>16, HoldersKeepItOpen DEF TakeLease, Keeps, registryVars
  <2> QED  BY <1>1, <1>2, <2>1 DEF AdmissionsKept, Keeps, Holds, OneRelease
<1>17. CASE BeginRelease(c)
  <2>1. /\ lease # 0 /\ ~releasing /\ UNCHANGED <<admissions, opened, given, lease>> /\ releasing'
        /\ job'[c].at = "begun" /\ job'[c].kind = "release" /\ job'[c].token = lease
    BY <1>1, <1>17 DEF BeginRelease, Begin, JobsOK, registryVars, historyVars
  <2> QED  BY <1>1, <1>2, <2>1 DEF AdmissionsKept, Keeps, Holds
<1>18. CASE ReadHolds(c) \/ DisposalRefused(c) \/ ReleaseRefused(c)
  <2>1. UNCHANGED <<admissions, opened, given, leaseVars>>
    BY <1>18 DEF ReadHolds, DisposalRefused, ReleaseRefused, EndClose, registryVars, historyVars
  <2>2. CASE job[c].kind = "release"
    <3>1. Keeps(c)
      BY <1>18, <2>2 DEF ReadHolds, DisposalRefused, ReleaseRefused, Keeps
    <3>2. job'[c].token = job[c].token /\ job'[c].kind = job[c].kind
      BY <1>3, <1>18, <2>2 DEF ReadHolds, DisposalRefused, ReleaseRefused, EndClose
    <3>3. job'[c].at \in {"failed", "restoring"}
      BY <1>1, <1>3, <1>18, <2>2, <3>1
         DEF ReadHolds, DisposalRefused, ReleaseRefused, EndClose, InScope, AdmissionsKept
    <3> QED  BY <1>1, <1>2, <2>1, <3>1, <3>2, <3>3 DEF AdmissionsKept, Keeps, Holds, leaseVars
  <2>3. CASE job[c].kind # "release"
    <3>1. job'[c].at = "idle"
      BY <1>1, <1>4, <1>18, <2>3 DEF ReadHolds, DisposalRefused, ReleaseRefused, EndClose, Shape
    <3> QED  BY <1>5, <2>1, <3>1
  <2> QED  BY <2>2, <2>3
<1>19. CASE FinishRelease(c) \/ AbortRelease(c)
  <2>1. /\ UNCHANGED <<admissions, opened, given>> /\ job'[c].at = "idle" /\ job'[c].kind = "none"
        /\ job[c].kind = "release"
    BY <1>1, <1>4, <1>19 DEF FinishRelease, AbortRelease, registryVars, historyVars, Shape
  <2>2. \A d \in Commands : job'[d].kind # "release"
    BY <1>1, <1>2, <2>1 DEF OneRelease
  <2>3. lease' = 0 \/ (lease' = lease /\ Holds(lease))
    BY <1>1, <1>19, <2>1 DEF FinishRelease, AbortRelease, OneRelease, AdmissionsKept, Keeps
  <2>4. \A d \in Commands : Keeps(d)' => Keeps(d) /\ job'[d].token = job[d].token
    BY <1>2, <2>1 DEF Keeps
  <2> QED  BY <1>1, <2>1, <2>2, <2>3, <2>4 DEF AdmissionsKept, Holds
<1>20. CASE Republish(c)
  <2>1. UNCHANGED <<admissions, opened, given, leaseVars>>
    BY <1>20 DEF Republish, registryVars, historyVars
  <2>2. CASE job[c].kind = "release"
    <3>1. job'[c].at = "settled" /\ job'[c].kind = "release"
      BY <1>3, <1>20, <2>2 DEF Republish
    <3>2. ~Holds(lease)
      BY <1>1, <1>20, <2>2 DEF AdmissionsKept, Republish
    <3> QED  BY <1>1, <1>2, <2>1, <3>1, <3>2 DEF AdmissionsKept, Keeps, Holds, leaseVars
  <2>3. CASE job[c].kind # "release"
    <3>1. job'[c].at = "idle"
      BY <1>4, <1>20, <2>3 DEF Republish
    <3> QED  BY <1>5, <2>1, <3>1
  <2> QED  BY <2>2, <2>3
<1>21. CASE \E t \in opened, kind \in {"unregister", "withdraw", "dispose"} : BeginClose(c, kind, t)
  <2>1. /\ UNCHANGED <<admissions, opened, leaseVars>> /\ given \subseteq given'
        /\ job'[c].at = "begun" /\ job'[c].kind # "release"
    BY <1>1, <1>21 DEF BeginClose, Begin, JobsOK, registryVars
  <2> QED  BY <1>5, <2>1
<1>22. CASE AskReleasing(c) \/ ReserveStart(c) \/ \E t \in opened : ReserveOperation(c, t)
  <2>1. UNCHANGED <<admissions, opened, given, leaseVars>>
        /\ job'[c].at \in {"asked", "starting", "reserved"}
    BY <1>1, <1>22 DEF AskReleasing, ReserveStart, ReserveOperation, Begin, JobsOK,
                       registryVars, historyVars
  <2> QED  BY <1>5, <2>1
<1>23. CASE TakeRefused(c)
  <2>1. /\ UNCHANGED <<admissions, opened, given, leaseVars>> /\ job'[c].at = "rollback"
        /\ job'[c].token = job[c].token /\ job'[c].kind # "release" /\ Keeps(c)
    BY <1>1, <1>3, <1>23 DEF TakeRefused, Shape, Keeps, registryVars, historyVars
  <2> QED  BY <1>5, <2>1
<1>24. CASE LookUp(c) \/ RegisterRefused(c) \/ CancelUnregister(c) \/ BeginCommit(c)
            \/ EndOperation(c) \/ ReleaseStart(c)
  <2>1. UNCHANGED <<admissions, opened, given, leaseVars>>
        /\ job'[c].at \in {"idle", "registering", "committing"}
    BY <1>3, <1>4, <1>24
       DEF LookUp, RegisterRefused, CancelUnregister, BeginCommit, EndOperation,
           ReleaseStart, registryVars, historyVars
  <2> QED  BY <1>5, <2>1
<1> QED
  BY <1>6, <1>7, <1>9, <1>12, <1>13, <1>14, <1>15, <1>16, <1>17, <1>18, <1>19, <1>20,
     <1>21, <1>22, <1>23, <1>24 DEF Request, Advance

LEMMA OwnersStep ==
    ASSUME LeaseInvariant, NEW c \in Commands, Request(c) \/ Advance(c)
    PROVE  AdmissionsHaveOwners'
<1> USE DEF At
<1>1. AdmissionsHaveOwners /\ AdmissionsKept /\ OneRelease /\ JobsOK /\ Shape(c)
      /\ DOMAIN admissions \subseteq 1..issued /\ issued \in Nat
  BY RegistryAssumption DEF LeaseInvariant, RegistryOK
<1>2. \A d \in Commands \ {c} : job'[d] = job[d]
  BY JobsStep
<1>3. ASSUME NEW p, Go(c, p) PROVE job'[c].at = p /\ job'[c].token = job[c].token
  BY <1>1, <1>3 DEF Go, JobsOK
<1>4. \A t \in DOMAIN admissions :
         t \in opened \/ t = lease \/ \E d \in Commands : Makes(d) /\ job[d].token = t
  BY <1>1 DEF AdmissionsHaveOwners, Makes
<1>5. 0 \notin DOMAIN admissions'
  BY RegistryStep DEF RegistryOK
<1>6. ASSUME \A t \in DOMAIN admissions' :
                \/ t \in opened' \/ t = lease'
                \/ \E d \in Commands : Makes(d)' /\ job'[d].token = t
      PROVE  AdmissionsHaveOwners'
  BY <1>5, <1>6 DEF AdmissionsHaveOwners, Makes
<1>7. ASSUME DOMAIN admissions' \subseteq DOMAIN admissions, opened \subseteq opened',
             Makes(c) => \/ Makes(c)' /\ job'[c].token = job[c].token
                         \/ job[c].token \in opened'
                         \/ job[c].token = lease'
                         \/ job[c].token \notin DOMAIN admissions',
             lease' = lease \/ lease \notin DOMAIN admissions'
      PROVE  AdmissionsHaveOwners'
  <2>1. \A d \in Commands \ {c} : Makes(d)' = Makes(d) /\ job'[d].token = job[d].token
    BY <1>2 DEF Makes
  <2> SUFFICES ASSUME NEW t \in DOMAIN admissions'
               PROVE  \/ t \in opened' \/ t = lease'
                      \/ \E d \in Commands : Makes(d)' /\ job'[d].token = t
    BY <1>6
  <2> QED  BY <1>4, <1>7, <2>1
<1>8. CASE OpenEditor(c) \/ RegisterAgent(c)
  <2>1. PICK k \in {"open", "acquire"}, o \in {"editor", "agent"} : Insert(c, k, o)
    BY <1>8 DEF OpenEditor, RegisterAgent
  <2>2. /\ DOMAIN admissions' = DOMAIN admissions \cup {issued + 1}
        /\ UNCHANGED <<lease, opened>>
        /\ job'[c].at = "publishing" /\ job'[c].token = issued + 1
    <3>1. /\ DOMAIN admissions' = DOMAIN admissions \cup {issued + 1}
          /\ job' = [job EXCEPT ![c] = [kind |-> k, at |-> "publishing",
                                        token |-> issued + 1, latest |-> 0]]
          /\ UNCHANGED <<leaseVars, historyVars>>
      BY <2>1, Inserted
    <3> QED  BY <1>1, <3>1 DEF JobsOK, leaseVars, historyVars
  <2>3. ~Makes(c)
    BY <1>8 DEF OpenEditor, RegisterAgent, Makes
  <2>4. \A d \in Commands \ {c} : Makes(d)' = Makes(d) /\ job'[d].token = job[d].token
    BY <1>2 DEF Makes
  <2>5. Makes(c)'
    BY <2>2 DEF Makes
  <2> SUFFICES ASSUME NEW t \in DOMAIN admissions'
               PROVE  \/ t \in opened' \/ t = lease'
                      \/ \E d \in Commands : Makes(d)' /\ job'[d].token = t
    BY <1>6
  <2> QED  BY <1>4, <2>2, <2>3, <2>4, <2>5
<1>9. CASE Publish(c)
  <2>1. DOMAIN admissions' = DOMAIN admissions /\ opened \subseteq opened' /\ lease' = lease
    BY <1>9 DEF Publish, leaseVars
  <2>2. job[c].token \in opened' \/ (Makes(c)' /\ job'[c].token = job[c].token)
    BY <1>3, <1>9 DEF Publish, Makes
  <2> QED  BY <1>7, <2>1, <2>2
<1>10. CASE TakeLease(c)
  <2>1. /\ admissions' = admissions /\ opened' = opened /\ lease = 0 /\ lease' = job[c].token
    BY <1>10 DEF TakeLease, registryVars
  <2> QED  BY <1>1, <1>5, <1>7, <2>1
<1>11. CASE LosePublication(c)
  <2>1. ~IsLastOwner(job[c].token) /\ Holds(job[c].token)
    BY <1>11, HoldersKeepItOpen DEF LosePublication, Keeps
  <2>2. DOMAIN admissions' = DOMAIN admissions \ {job[c].token}
    BY <1>11, <2>1, Lost DEF LosePublication, Holds, LeaseInvariant
  <2> QED  BY <1>7, <1>11, <2>2 DEF LosePublication, leaseVars, historyVars
<1>12. ASSUME LeaveOthers(c, job[c].token), Holds(job[c].token), ~IsLastOwner(job[c].token),
              UNCHANGED <<leaseVars, historyVars>>
       PROVE  AdmissionsHaveOwners'
  <2>1. DOMAIN admissions' = DOMAIN admissions \ {job[c].token}
    BY <1>12, Lost DEF LeaveOthers, Holds, LeaseInvariant
  <2> QED  BY <1>7, <1>12, <2>1 DEF leaseVars, historyVars
<1>13. ASSUME NEW p \in {"removing", "cleanup"}, CloseWorkspace(c, p), p = "removing" \/ ~Makes(c),
              UNCHANGED <<leaseVars, historyVars>>
       PROVE  AdmissionsHaveOwners'
  BY <1>3, <1>7, <1>13 DEF CloseWorkspace, Makes, leaseVars, historyVars
<1>14. CASE Rollback(c)
  BY <1>12, <1>13, <1>14 DEF Rollback
<1>15. CASE ReleaseOwner(c)
  BY <1>12, <1>13, <1>15 DEF ReleaseOwner, InScope, Makes
<1>16. CASE \E new, old \in opened : Adopt(c, new, old)
  <2>1. PICK new, old \in opened : Adopt(c, new, old)
    BY <1>16
  <2>2. Holds(old) /\ ~IsLastOwner(old) /\ LoseAdmission(old)
    BY <2>1 DEF Adopt, Holds, IsLastOwner
  <2>3. DOMAIN admissions' \subseteq DOMAIN admissions
    BY <2>2, Lost DEF Holds, LeaseInvariant
  <2> QED  BY <1>7, <2>1, <2>3 DEF Adopt, Makes, leaseVars
<1>17. CASE FinishRollback(c) \/ FinalizeUnregister(c)
  <2>1. closing = c /\ IsLastOwner(job[c].token)
    BY <1>17 DEF FinishRollback, FinalizeUnregister, LeaseInvariant, OneClose, IsLastOwner
  <2>2. DOMAIN admissions' = {}
    BY <1>17, <2>1 DEF FinishRollback, FinalizeUnregister, RemoveWorkspace
  <2> QED  BY <1>6, <2>2
<1>18. CASE FinishRelease(c)
  <2>1. job[c].kind = "release" /\ ~Holds(lease)
    BY <1>1, <1>18 DEF FinishRelease, Shape, AdmissionsKept
  <2> QED  BY <1>7, <1>18, <2>1 DEF FinishRelease, Makes, Holds, registryVars, historyVars
<1>19. CASE Request(c) /\ ~OpenEditor(c) /\ ~(\E new, old \in opened : Adopt(c, new, old))
  <2>1. UNCHANGED <<admissions, lease, opened>> /\ ~Makes(c)
    BY <1>19 DEF Request, AskReleasing, BeginRelease, BeginClose, ReserveOperation,
                 ReserveStart, Makes, registryVars, leaseVars, historyVars
  <2> QED  BY <1>7, <2>1
<1>20. CASE TakeRefused(c)
  <2>1. UNCHANGED <<admissions, lease, opened>> /\ Makes(c)' /\ job'[c].token = job[c].token
    BY <1>3, <1>20 DEF TakeRefused, Makes, registryVars, leaseVars, historyVars
  <2> QED  BY <1>7, <2>1
<1>21. CASE /\ Advance(c)
            /\ ~(RegisterAgent(c) \/ Publish(c) \/ TakeLease(c) \/ LosePublication(c)
                   \/ Rollback(c) \/ ReleaseOwner(c) \/ FinishRollback(c)
                   \/ FinalizeUnregister(c) \/ FinishRelease(c) \/ TakeRefused(c))
  <2>1. UNCHANGED <<admissions, lease, opened>> /\ ~Makes(c)
    BY <1>21 DEF Advance, LookUp, RegisterRefused, Republish, DisposalRefused,
                 ReleaseRefused, EndClose, CancelUnregister, ReadHolds, AbortRelease,
                 BeginCommit, EndOperation, ReleaseStart, Makes, registryVars, leaseVars,
                 historyVars
  <2> QED  BY <1>7, <2>1
<1> QED
  BY <1>8, <1>9, <1>10, <1>11, <1>14, <1>15, <1>16, <1>17, <1>18, <1>19, <1>20, <1>21
     DEF Request, Advance

LEMMA StartsStep ==
    ASSUME LeaseInvariant, NEW c \in Commands, Request(c) \/ Advance(c)
    PROVE  CloseWaitsForStarts'
<1> USE DEF At
<1>1. OneClose /\ OneClose' /\ CloseWaitsForStarts /\ JobsOK /\ NoCommand \notin Commands
  BY CloseStep, RegistryAssumption DEF LeaseInvariant
<1>2. \A d \in Commands \ {c} : job'[d] = job[d]
  BY JobsStep
<1>3. ASSUME closing' = NoCommand PROVE CloseWaitsForStarts'
  BY <1>1, <1>3 DEF CloseWaitsForStarts
<1>4. CASE Rollback(c) \/ ReleaseOwner(c)
  <2>1. CASE LeaveOthers(c, job[c].token)
    <3>1. closing' = NoCommand
      BY <1>4, <2>1 DEF Rollback, ReleaseOwner, LeaveOthers, LoseAdmission
    <3> QED  BY <1>3, <3>1
  <2>2. CASE CloseWorkspace(c, "removing")
    <3>1. closing' = c /\ job'[c].at = "removing"
      BY <1>1, <2>2 DEF CloseWorkspace, Go, JobsOK
    <3> QED  BY <3>1 DEF CloseWaitsForStarts
  <2>3. CASE CloseWorkspace(c, "cleanup") /\ ~HasRuntimeStart
    <3>1. closing' = c /\ job'[c].at = "cleanup" /\ identity' = identity
      BY <1>1, <2>3 DEF CloseWorkspace, Go, JobsOK
    <3>2. ~HasRuntimeStart'
      BY <1>2, <2>3, <3>1 DEF HasRuntimeStart
    <3> QED  BY <3>2 DEF CloseWaitsForStarts
  <2> QED  BY <1>4, <2>1, <2>2, <2>3 DEF Rollback, ReleaseOwner
<1>5. CASE FinishRollback(c) \/ FinalizeUnregister(c) \/ CancelUnregister(c)
  <2>1. closing = c /\ IsLastOwner(job[c].token)
    BY <1>1, <1>5 DEF FinishRollback, FinalizeUnregister, CancelUnregister, OneClose, IsLastOwner
  <2>2. closing' = NoCommand
    BY <1>5, <2>1 DEF FinishRollback, FinalizeUnregister, CancelUnregister, RemoveWorkspace
  <2> QED  BY <1>3, <2>2
<1>6. CASE OpenEditor(c) \/ RegisterAgent(c)
  <2>1. closing' = NoCommand
    BY <1>6 DEF OpenEditor, RegisterAgent, Insert
  <2> QED  BY <1>3, <2>1
<1>7. CASE ReserveStart(c)
  <2>1. closing' = NoCommand
    BY <1>7 DEF ReserveStart, Open, registryVars
  <2> QED  BY <1>3, <2>1
<1>8. ASSUME UNCHANGED <<identity, closing>>, job'[c].at # "starting",
             job'[c].at # "cleanup"
      PROVE  CloseWaitsForStarts'
  <2>1. HasRuntimeStart' => HasRuntimeStart
    BY <1>2, <1>8 DEF HasRuntimeStart
  <2> QED  BY <1>1, <1>2, <1>8, <2>1 DEF CloseWaitsForStarts
<1>9. CASE Request(c) /\ ~OpenEditor(c) /\ ~ReserveStart(c)
  <2>1. UNCHANGED <<identity, closing>> /\ job'[c].at \notin {"starting", "cleanup"}
    BY <1>1, <1>9 DEF Request, AskReleasing, BeginRelease, BeginClose, Adopt, LoseAdmission,
                      ReserveOperation, Begin, JobsOK, registryVars
  <2> QED  BY <1>8, <2>1
<1>10. CASE /\ Advance(c)
            /\ ~(RegisterAgent(c) \/ Rollback(c) \/ ReleaseOwner(c) \/ FinishRollback(c)
                    \/ FinalizeUnregister(c) \/ CancelUnregister(c))
  <2>1. UNCHANGED <<identity, closing>>
    BY <1>10 DEF Advance, LookUp, RegisterRefused, Publish, LosePublication, LoseAdmission,
                 Republish, TakeLease, TakeRefused, DisposalRefused, ReleaseRefused,
                 EndClose, ReadHolds, FinishRelease, AbortRelease, BeginCommit,
                 EndOperation, ReleaseStart, registryVars
  <2>2. \/ Finish(c)
        \/ \E p \in {"registering", "taking", "rollback", "failed", "settled", "restoring",
                     "committing"} : Go(c, p)
    BY <1>10 DEF Advance, LookUp, RegisterRefused, Publish, LosePublication, Republish,
                 TakeLease, TakeRefused, DisposalRefused, ReleaseRefused, EndClose,
                 ReadHolds, FinishRelease, AbortRelease, BeginCommit, EndOperation,
                 ReleaseStart
  <2>3. job'[c].at \notin {"starting", "cleanup"}
    BY <1>1, <2>2 DEF Finish, Go, Idle, JobsOK
  <2> QED  BY <1>8, <2>1, <2>3
<1> QED  BY <1>4, <1>5, <1>6, <1>7, <1>9, <1>10 DEF Request, Advance

(* The authority is withdrawn with every change of the newest admission.    *)
LEMMA AuthorityStep ==
    ASSUME LeaseInvariant, NEW c \in Commands, Request(c) \/ Advance(c)
    PROVE  AuthorityIsNewest'
<1> USE DEF At
<1>1. AuthorityIsNewest /\ OneClose /\ RegistryOK
  BY DEF LeaseInvariant, AuthorityFollowsOwners
<1>2. ASSUME current' = 0 PROVE AuthorityIsNewest'
  BY <1>2 DEF AuthorityIsNewest
<1>3. CASE ~Touches(c)
  BY <1>1, <1>3, OthersTouchNothing DEF AuthorityIsNewest, IsCurrent, Holds, registryVars
<1>4. CASE OpenEditor(c) \/ RegisterAgent(c)
  BY <1>2, <1>4 DEF OpenEditor, RegisterAgent, Insert, BeginTransition
<1>5. CASE Publish(c)
  <2>1. /\ current' = job[c].token /\ DOMAIN admissions' = DOMAIN admissions
        /\ closing' = closing /\ latest' = latest /\ IsCurrent(job[c].token)
    BY <1>5 DEF Publish
  <2> QED  BY <2>1 DEF AuthorityIsNewest, IsCurrent, Holds
<1>6. CASE LosePublication(c)
  <2>1. /\ job[c].token # latest /\ ~IsLastOwner(job[c].token)
        /\ job[c].token \in DOMAIN admissions
    BY <1>6, HoldersKeepItOpen DEF LosePublication, Keeps, Holds
  <2>2. /\ DOMAIN admissions' = DOMAIN admissions \ {job[c].token}
        /\ latest' = latest /\ closing' = closing /\ current' = current
    BY <1>1, <1>6, <2>1, Lost DEF LosePublication, operationVars
  <2> QED  BY <1>1, <2>1, <2>2 DEF AuthorityIsNewest, IsCurrent, Holds
<1>7. CASE Republish(c)
  <2>1. /\ UNCHANGED <<admissions, latest, closing>>
        /\ current' = current \/ (current' = job[c].latest /\ IsCurrent(job[c].latest))
    BY <1>7 DEF Republish, registryVars
  <2> QED  BY <1>1, <2>1 DEF AuthorityIsNewest, IsCurrent, Holds
<1>8. CASE Rollback(c) \/ ReleaseOwner(c) \/ \E new, old \in opened : Adopt(c, new, old)
  BY <1>2, <1>8 DEF Rollback, ReleaseOwner, Adopt, LeaveOthers, CloseWorkspace, BeginTransition
<1>9. CASE FinishRollback(c) \/ FinalizeUnregister(c)
  <2>1. closing = c /\ current' = current
    BY <1>1, <1>9 DEF FinishRollback, FinalizeUnregister, OneClose, operationVars
  <2> QED  BY <1>1, <1>2, <2>1 DEF OneClose
<1>10. CASE CancelUnregister(c)
  <2>1. /\ closing' = NoCommand /\ current' = latest /\ UNCHANGED <<admissions, latest>>
        /\ DOMAIN admissions # {}
    BY <1>1, <1>10 DEF CancelUnregister, OneClose
  <2> QED  BY <1>1, <2>1 DEF AuthorityIsNewest, IsCurrent, Holds, RegistryOK
<1> QED
  BY <1>3, <1>4, <1>5, <1>6, <1>7, <1>8, <1>9, <1>10 DEF Touches

LEMMA ComesBackStep ==
    ASSUME LeaseInvariant, NEW c \in Commands, Request(c) \/ Advance(c)
    PROVE  AuthorityComesBack'
<1> USE DEF At
<1>1. AuthorityComesBack /\ OneClose /\ RegistryOK /\ JobsOK /\ NoCommand \notin Commands
      /\ 0 \notin DOMAIN admissions
  BY RegistryAssumption DEF LeaseInvariant, AuthorityFollowsOwners, RegistryOK
<1>2. \A d \in Commands \ {c} : job'[d] = job[d]
  BY JobsStep
<1>3. ASSUME current' # 0 \/ identity' = 0 \/ closing' # NoCommand PROVE AuthorityComesBack'
  BY <1>3 DEF AuthorityComesBack, Open
<1>4. ASSUME \/ job'[c].at = "publishing" /\ job'[c].token = latest'
             \/ job'[c].at = "republishing" /\ job'[c].latest = latest'
      PROVE  AuthorityComesBack'
  BY <1>4 DEF AuthorityComesBack
<1>5. ASSUME UNCHANGED <<identity, closing, latest>>, current = current',
             job[c].at = "publishing" => job[c].token # latest,
             job[c].at = "republishing" => job[c].latest # latest
      PROVE  AuthorityComesBack'
  BY <1>1, <1>2, <1>5 DEF AuthorityComesBack, Open
<1>6. CASE OpenEditor(c) \/ RegisterAgent(c)
  <2>1. job'[c].at = "publishing" /\ job'[c].token = latest'
    BY <1>1, <1>6, Inserted DEF OpenEditor, RegisterAgent, JobsOK
  <2> QED  BY <1>4, <2>1
<1>7. CASE Publish(c)
  BY <1>1, <1>3, <1>7 DEF Publish, IsCurrent, Holds
<1>8. CASE LosePublication(c)
  <2>1. /\ job[c].token # latest /\ ~IsLastOwner(job[c].token)
        /\ job[c].token \in DOMAIN admissions
    BY <1>8, HoldersKeepItOpen DEF LosePublication, Keeps, Holds
  <2>2. UNCHANGED <<identity, closing, latest>> /\ current' = current
    BY <1>1, <1>8, <2>1, Lost DEF LosePublication, operationVars
  <2> QED  BY <1>5, <1>8, <2>1, <2>2 DEF LosePublication
<1>9. CASE Republish(c)
  <2>1. CASE IsCurrent(job[c].latest)
    BY <1>1, <1>3, <1>9, <2>1 DEF Republish, IsCurrent, Holds
  <2>2. CASE ~Open
    BY <1>3, <1>9, <2>2 DEF Republish, Open, registryVars
  <2>3. CASE Open /\ ~IsCurrent(job[c].latest)
    <3>1. job[c].latest # latest
      BY <1>1, <2>3 DEF Open, IsCurrent, Holds, RegistryOK
    <3> QED  BY <1>5, <1>9, <2>3, <3>1 DEF Republish, registryVars
  <2> QED  BY <2>1, <2>2, <2>3
<1>10. ASSUME LeaveOthers(c, job[c].token) PROVE AuthorityComesBack'
  BY <1>1, <1>4, <1>10 DEF LeaveOthers, JobsOK
<1>11. ASSUME NEW p, CloseWorkspace(c, p) PROVE AuthorityComesBack'
  BY <1>1, <1>3, <1>11 DEF CloseWorkspace
<1>12. CASE Rollback(c) \/ ReleaseOwner(c)
  BY <1>10, <1>11, <1>12 DEF Rollback, ReleaseOwner
<1>13. CASE FinishRollback(c) \/ FinalizeUnregister(c)
  <2>1. closing = c /\ IsLastOwner(job[c].token)
    BY <1>1, <1>13 DEF FinishRollback, FinalizeUnregister, OneClose, IsLastOwner
  <2>2. identity' = 0
    BY <1>13, <2>1 DEF FinishRollback, FinalizeUnregister, RemoveWorkspace
  <2> QED  BY <1>3, <2>2
<1>14. CASE CancelUnregister(c)
  <2>1. current' = latest /\ DOMAIN admissions # {}
    BY <1>1, <1>14 DEF CancelUnregister, OneClose
  <2> QED  BY <1>1, <1>3, <2>1 DEF RegistryOK
<1>15. CASE \E new, old \in opened : Adopt(c, new, old)
  BY <1>1, <1>4, <1>15 DEF Adopt, JobsOK
<1>16. CASE ~Touches(c)
  <2>1. job[c].at \notin {"publishing", "republishing"}
    BY <1>16 DEF Touches, Request, Advance, AskReleasing, BeginRelease, BeginClose,
                 ReserveOperation, ReserveStart, LookUp, RegisterRefused, TakeLease,
                 TakeRefused, DisposalRefused, ReleaseRefused, ReadHolds, FinishRelease,
                 AbortRelease, BeginCommit, EndOperation, ReleaseStart
  <2> QED  BY <1>5, <1>16, <2>1, OthersTouchNothing DEF registryVars
<1> QED
  BY <1>6, <1>7, <1>8, <1>9, <1>12, <1>13, <1>14, <1>15, <1>16 DEF Touches

(* Where a command waits for the commits it revoked.                        *)
Waits(c) == job[c].at \in {"publishing", "republishing", "removing", "cleanup"}

LEMMA CommitsStep ==
    ASSUME LeaseInvariant, NEW c \in Commands, Request(c) \/ Advance(c)
    PROVE  CommitsAreAwaited'
<1> USE DEF At
<1>1. /\ JobsOK /\ OneClose /\ AuthorityIsNewest
      /\ live \subseteq Commands /\ awaited \in [Commands -> SUBSET Commands]
      /\ \A d \in live : job[d].token # 0
  BY DEF LeaseInvariant, AuthorityFollowsOwners, OperationsOK, Shape
<1>2. \A d \in Commands : At(d, "committing") =>
         \/ d \in live /\ job[d].token = current
         \/ \E k \in Commands : d \in awaited[k] /\ Waits(k)
  BY DEF LeaseInvariant, AuthorityFollowsOwners, CommitsAreAwaited, Waits
<1>3. \A d \in Commands \ {c} : job'[d] = job[d] /\ Waits(d)' = Waits(d)
  BY JobsStep DEF Waits
<1>4. ASSUME \A d \in Commands : job'[d].at = "committing" =>
                \/ d \in live' /\ job'[d].token = current'
                \/ \E k \in Commands : d \in awaited'[k] /\ Waits(k)'
      PROVE  CommitsAreAwaited'
  BY <1>4 DEF CommitsAreAwaited, Waits
<1>5. ASSUME BeginTransition(c), ~Waits(c), job'[c].at \in {"publishing", "republishing", "removing", "cleanup"}
      PROVE  CommitsAreAwaited'
  <2>1. /\ awaited'[c] = {d \in live : At(d, "committing")} /\ Waits(c)'
        /\ \A k \in Commands \ {c} : awaited'[k] = awaited[k]
        /\ job'[c].at # "committing"
    BY <1>1, <1>5 DEF BeginTransition, Waits
  <2> QED  BY <1>2, <1>3, <1>4, <1>5, <2>1
<1>6. ASSUME awaited[c] = {}, live' = live, awaited' = awaited, job'[c].at # "committing",
             current' # current => current = 0
      PROVE  CommitsAreAwaited'
  BY <1>1, <1>2, <1>3, <1>4, <1>6
<1>7. ASSUME ~Waits(c), live \subseteq live', awaited' = awaited, current' = current,
             job'[c].at # "committing"
      PROVE  CommitsAreAwaited'
  BY <1>2, <1>3, <1>4, <1>7
<1>8. ASSUME NEW p, Go(c, p) PROVE job'[c].at = p /\ job'[c].token = job[c].token
  BY <1>1, <1>8 DEF Go, JobsOK
<1>9. ASSUME Finish(c) PROVE job'[c].at = "idle"
  BY <1>1, <1>9 DEF Finish, JobsOK, Idle
<1>10. CASE OpenEditor(c) \/ RegisterAgent(c)
  <2>1. BeginTransition(c) /\ ~Waits(c)
    BY <1>10 DEF OpenEditor, RegisterAgent, Insert, Waits
  <2>2. job'[c].at = "publishing"
    BY <1>1, <1>10, Inserted DEF OpenEditor, RegisterAgent, JobsOK
  <2> QED  BY <1>5, <2>1, <2>2
<1>11. CASE Rollback(c) \/ ReleaseOwner(c)
  <2>1. ~Waits(c)
    BY <1>11 DEF Rollback, ReleaseOwner, Waits
  <2>2. CASE LeaveOthers(c, job[c].token)
    <3>1. BeginTransition(c) /\ job'[c].at = "republishing"
      BY <1>1, <2>2 DEF LeaveOthers, JobsOK
    <3> QED  BY <1>5, <2>1, <3>1
  <2>3. ASSUME NEW p \in {"removing", "cleanup"}, CloseWorkspace(c, p) PROVE CommitsAreAwaited'
    <3>1. BeginTransition(c) /\ job'[c].at = p
      BY <1>8, <2>3 DEF CloseWorkspace
    <3> QED  BY <1>5, <2>1, <3>1
  <2> QED  BY <1>11, <2>2, <2>3 DEF Rollback, ReleaseOwner
<1>12. CASE \E new, old \in opened : Adopt(c, new, old)
  <2>1. BeginTransition(c) /\ job'[c].at = "republishing" /\ ~Waits(c)
    BY <1>1, <1>12 DEF Adopt, JobsOK, Waits
  <2> QED  BY <1>5, <2>1
<1>13. CASE Publish(c) \/ LosePublication(c) \/ Republish(c)
  <2>1. awaited[c] = {} /\ live' = live /\ awaited' = awaited
    BY <1>13 DEF Publish, LosePublication, Republish, operationVars
  <2>2. job'[c].at # "committing"
    BY <1>8, <1>9, <1>13 DEF Publish, LosePublication, Republish
  <2>3. current' # current => current = 0
    BY <1>1, <1>13 DEF Publish, LosePublication, Republish, AuthorityIsNewest, IsCurrent,
                       operationVars
  <2> QED  BY <1>6, <2>1, <2>2, <2>3
<1>14. CASE FinishRollback(c) \/ FinalizeUnregister(c) \/ CancelUnregister(c)
  <2>1. awaited[c] = {} /\ live' = live /\ awaited' = awaited /\ closing = c
    BY <1>1, <1>14 DEF FinishRollback, FinalizeUnregister, CancelUnregister, operationVars,
                       OneClose
  <2>2. job'[c].at # "committing"
    BY <1>8, <1>9, <1>14 DEF FinishRollback, FinalizeUnregister, CancelUnregister
  <2> QED  BY <1>1, <1>6, <2>1, <2>2 DEF OneClose
<1>15. CASE BeginCommit(c)
  <2>1. /\ c \in live /\ current = job[c].token /\ live' = live /\ awaited' = awaited
        /\ current' = current /\ job'[c].token = job[c].token /\ ~Waits(c)
    BY <1>8, <1>15 DEF BeginCommit, operationVars, Waits
  <2> QED  BY <1>2, <1>3, <1>4, <2>1
<1>16. CASE EndOperation(c)
  <2>1. /\ live' = live \ {c} /\ \A k \in Commands : awaited'[k] = awaited[k] \ {c}
        /\ current' = current /\ job'[c].at = "idle" /\ ~Waits(c)
    BY <1>9, <1>16 DEF EndOperation, Waits
  <2> QED  BY <1>2, <1>3, <1>4, <2>1
<1>17. CASE Request(c) /\ ~OpenEditor(c) /\ ~(\E new, old \in opened : Adopt(c, new, old))
  <2>1. live \subseteq live' /\ awaited' = awaited /\ current' = current /\ ~Waits(c)
    BY <1>17 DEF Request, AskReleasing, BeginRelease, BeginClose, ReserveOperation,
                 ReserveStart, operationVars, Waits
  <2>2. job'[c].at # "committing"
    BY <1>1, <1>17 DEF Request, AskReleasing, BeginRelease, BeginClose, ReserveOperation,
                       ReserveStart, Begin, JobsOK
  <2> QED  BY <1>7, <2>1, <2>2
<1>18. CASE \/ LookUp(c) \/ RegisterRefused(c) \/ TakeLease(c) \/ TakeRefused(c)
            \/ DisposalRefused(c) \/ ReleaseRefused(c) \/ ReadHolds(c) \/ FinishRelease(c)
            \/ AbortRelease(c) \/ ReleaseStart(c)
  <2>1. live' = live /\ awaited' = awaited /\ current' = current /\ ~Waits(c)
    BY <1>18 DEF LookUp, RegisterRefused, TakeLease, TakeRefused, DisposalRefused,
                 ReleaseRefused, EndClose, ReadHolds, FinishRelease, AbortRelease,
                 ReleaseStart, operationVars, Waits
  <2>2. \/ Finish(c)
        \/ \E p \in {"registering", "rollback", "failed", "settled", "restoring"} : Go(c, p)
    BY <1>18 DEF LookUp, RegisterRefused, TakeLease, TakeRefused, DisposalRefused,
                 ReleaseRefused, EndClose, ReadHolds, FinishRelease, AbortRelease,
                 ReleaseStart
  <2> QED  BY <1>7, <1>8, <1>9, <2>1, <2>2
<1> QED
  BY <1>10, <1>11, <1>12, <1>13, <1>14, <1>15, <1>16, <1>17, <1>18 DEF Request, Advance

----------------------------------------------------------------------------
(* The invariant, and what follows from it.                                 *)

LEMMA LeaseInit == Init => LeaseInvariant
<1> SUFFICES ASSUME Init PROVE LeaseInvariant
  OBVIOUS
<1>1. \A c \in Commands : job[c] = Idle
  BY DEF Init
<1>2. RegistryOK /\ LedgerOK
  <2>1. DOMAIN admissions = {}
    BY DEF Init
  <2>2. releasing \in BOOLEAN
    BY DEF Init
  <2>3. LedgerOK
    BY <2>2 DEF Init, LedgerOK
  <2> QED  BY <2>1, <2>3, RegistryAssumption DEF Init, RegistryOK
<1>3. JobsOK
  BY DEF Init, JobsOK, Idle, Kinds, Places
<1>4. \A c \in Commands : Shape(c)
  BY <1>1 DEF Shape, Idle, At, Closes
<1>5. OperationsOK /\ AdmissionsKept /\ OneClose
  BY <1>1, RegistryAssumption
     DEF Init, OperationsOK, AdmissionsKept, OneClose, Idle, Keeps
<1>6. TokensApart /\ OneRelease
  BY <1>1 DEF Init, TokensApart, OneRelease, Makes, Idle
<1>7. AdmissionsHaveOwners /\ CloseWaitsForStarts
  BY <1>1 DEF Init, AdmissionsHaveOwners, CloseWaitsForStarts, At, Idle
<1>8. AuthorityFollowsOwners
  BY <1>1 DEF Init, AuthorityFollowsOwners, AuthorityIsNewest, AuthorityComesBack,
              CommitsAreAwaited, Open, At, Idle
<1> QED  BY <1>2, <1>3, <1>4, <1>5, <1>6, <1>7, <1>8 DEF LeaseInvariant

LEMMA LeaseStep == LeaseInvariant /\ [Next]_vars => LeaseInvariant'
<1> SUFFICES ASSUME LeaseInvariant, [Next]_vars PROVE LeaseInvariant'
  OBVIOUS
<1>1. CASE Next
  <2>1. PICK c \in Commands : Request(c) \/ Advance(c)
    BY <1>1 DEF Next
  <2> QED
    BY <2>1, RegistryStep, LedgerStep, JobsStep, ShapeStep, OperationsStep, TokensStep,
       ReleaseStep, CloseStep, KeptStep, OwnersStep, StartsStep, AuthorityStep,
       ComesBackStep, CommitsStep
       DEF LeaseInvariant, AuthorityFollowsOwners
<1>2. CASE UNCHANGED vars
  <2> USE <1>2 DEF vars, registryVars, operationVars, leaseVars, historyVars
  <2>1. RegistryOK' /\ LedgerOK' /\ JobsOK'
    BY DEF LeaseInvariant, RegistryOK, LedgerOK, JobsOK
  <2>2. \A c \in Commands : Shape(c)'
    BY DEF LeaseInvariant, Shape, At
  <2>3. OperationsOK' /\ TokensApart' /\ OneRelease'
    BY DEF LeaseInvariant, OperationsOK, TokensApart, OneRelease, Makes, At
  <2>4. OneClose' /\ AdmissionsKept'
    BY DEF LeaseInvariant, OneClose, AdmissionsKept, Keeps, Holds
  <2>5. AdmissionsHaveOwners' /\ CloseWaitsForStarts'
    BY DEF LeaseInvariant, AdmissionsHaveOwners, CloseWaitsForStarts, HasRuntimeStart, At
  <2>6. AuthorityFollowsOwners'
    BY DEF LeaseInvariant, AuthorityFollowsOwners, AuthorityIsNewest, AuthorityComesBack,
           CommitsAreAwaited, IsCurrent, Holds, Open, At
  <2> QED  BY <2>1, <2>2, <2>3, <2>4, <2>5, <2>6 DEF LeaseInvariant
<1> QED  BY <1>1, <1>2

(* The layers hold in every reachable state, for any number of commands at  *)
(* once and any limits of the registry.                                     *)
THEOREM LeaseInvariance == Spec => []LeaseInvariant
<1> QED  BY LeaseInit, LeaseStep, PTL DEF Spec

(* Every token and every step of a command stays in its range; the retained *)
(* admission that remove_losing_registration_admission provides for is      *)
(* never made, as a registration that lost its publication is not alone.    *)
THEOREM LeaseTypes == Spec => []TypeOK
<1>1. LeaseInvariant => TypeOK
  <2> SUFFICES ASSUME LeaseInvariant PROVE TypeOK
    OBVIOUS
  <2>1. /\ identity \in 0..MaxTokens /\ latest \in 0..MaxTokens
        /\ issued \in 0..MaxTokens /\ current \in 0..MaxTokens
        /\ DOMAIN admissions \subseteq 0..issued
    BY RegistryAssumption DEF LeaseInvariant, RegistryOK
  <2>2. /\ live \subseteq {c \in Commands : job[c].kind = "operate"}
        /\ awaited \in [Commands -> SUBSET {c \in Commands : job[c].at = "committing"}]
    BY DEF LeaseInvariant, OperationsOK, At
  <2> QED
    BY <2>1, <2>2 DEF LeaseInvariant, RegistryOK, LedgerOK, JobsOK, OneClose, TypeOK
<1> QED  BY <1>1, LeaseInvariance, PTL

(* Whatever other tabs, failed registrations and racing closes do, an owner *)
(* that the registry answered keeps the workspace until it asks to leave,   *)
(* and a close never takes one down in which a start is under way           *)
(* (release_owner, rollback_registration, abort_release).                   *)
THEOREM UsersAreKept == Spec => []UsersKeepTheirWorkspace
<1>1. LeaseInvariant => UsersKeepTheirWorkspace
  BY HoldersKeepItOpen DEF LeaseInvariant, AdmissionsKept, Holds, UsersKeepTheirWorkspace,
                           OwnersKeepTheirWorkspace
<1> QED  BY <1>1, LeaseInvariance, PTL

(* No admission is left without somebody who can give it up, and no release *)
(* and no close without the command that will end it                        *)
(* (PendingAgentRootLeaseReleaseGuard::settle, finalize_unregister,         *)
(* finalize_registration_rollback).                                         *)
THEOREM EverythingHasAnOwner == Spec => []NothingIsLeftBehind
<1>1. LeaseInvariant => NothingIsLeftBehind
  BY HoldersKeepItOpen DEF LeaseInvariant, OneRelease, OneClose, Keeps, Shape, At, Closes,
                           NothingIsLeftBehind, HalfwayHasACommand
<1> QED  BY <1>1, LeaseInvariance, PTL

(* The authority over trust is the newest owner's, comes back after every   *)
(* change of owners, and never passes on while a commit under the older one *)
(* is not waited for (begin_transition, wait, publish_latest).              *)
THEOREM AuthorityIsPassedOn == Spec => []AuthorityFollowsOwners
<1>1. LeaseInvariant => AuthorityFollowsOwners
  BY DEF LeaseInvariant
<1> QED  BY <1>1, LeaseInvariance, PTL
=============================================================================
