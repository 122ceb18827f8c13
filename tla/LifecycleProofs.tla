---------------------------- MODULE LifecycleProofs ----------------------------
(* The correctness of Lifecycle for any number of callers, any manifests and any  *)
(* number of changes and upgrades.                                                *)
EXTENDS Lifecycle, TLAPS

-------------------------------------------------------------------------------
(* Types.                                                                         *)

LEMMA ManifestTypes ==
  /\ Manifests \subseteq Manifest
  /\ Ops \subseteq AllOps
  BY LifecycleAssumption

(* What prepareManifest leads to is a label, whatever the manifest.                *)
LEMMA LabelsReached ==
  ASSUME NEW r
  PROVE  Gate(r) \in {"stopped", "gated", "ready", "preview"}
         /\ Planning(r) \in {"stopped", "preview", "validate"}
  BY DEF Gate, Planning

(* An update of one field keeps the type of a local state.                    *)
LEMMA CallUpdates ==
  ASSUME NEW r \in CallState
  PROVE  /\ \A m \in Manifest : [r EXCEPT !.man = m] \in CallState
         /\ \A m \in Manifest : [r EXCEPT !.known = m] \in CallState
         /\ \A b \in BOOLEAN : [r EXCEPT !.preview = b] \in CallState
         /\ [r EXCEPT !.ok = TRUE] \in CallState
  BY DEF CallState

(* What a call learns keeps its type.                                         *)
LEMMA LearnType ==
  ASSUME call \in [Call -> CallState], NEW c \in Call, NEW r \in CallState, Learn(c, r)
  PROVE  call' \in [Call -> CallState]
  BY DEF Learn

(* Where a call goes is a label.                                              *)
LEMMA GoType ==
  ASSUME pc \in [Call -> Labels], NEW c \in Call, NEW label \in Labels, Go(c, label)
  PROVE  pc' \in [Call -> Labels]
  BY DEF Go

(* What a call aims at is a goal.                                             *)
LEMMA AimType ==
  ASSUME goal \in [Call -> Goals], NEW c \in Call, NEW g \in Goals, Aim(c, g)
  PROVE  goal' \in [Call -> Goals]
  BY DEF Aim

(* Resume keeps the types it touches.                                         *)
LEMMA ResumeType ==
  ASSUME TypeOK, NEW c \in Call, NEW g \in {"gate", "prepare"}, NEW r \in CallState, Resume(c, g, r)
  PROVE  pc' \in [Call -> Labels] /\ call' \in [Call -> CallState] /\ actions' \subseteq Call
  <1>1. Gate(r) \in Labels /\ Planning(r) \in Labels
    BY LabelsReached DEF Labels
  <1>2. call' \in [Call -> CallState]
    BY LearnType DEF Resume, TypeOK
  <1>3. pc' \in [Call -> Labels]
    BY <1>1, GoType DEF Resume, TypeOK
  <1>4. actions' \subseteq Call
    BY DEF Resume, TypeOK
  <1> QED BY <1>2, <1>3, <1>4

(* WithManifest keeps the types.                                              *)
LEMMA WithManifestType ==
  ASSUME TypeOK, NEW c \in Call, NEW g \in {"gate", "prepare"}, NEW r \in CallState, WithManifest(c, g, r)
  PROVE  TypeOK'
  <1>1. goal' \in [Call -> Goals]
    BY AimType DEF WithManifest, TypeOK, Goals
  <1>2. pc' \in [Call -> Labels] /\ call' \in [Call -> CallState] /\ actions' \subseteq Call
    <2>1. CASE stored = NoManifest
      <3>1. Learn(c, r) /\ Go(c, "discover") /\ actions' = actions
        BY <2>1 DEF WithManifest
      <3>2. "discover" \in Labels
        BY DEF Labels
      <3> QED BY <3>1, <3>2, LearnType, GoType DEF TypeOK
    <2>2. CASE stored # NoManifest
      <3>1. stored \in Manifest
        BY <2>2 DEF TypeOK
      <3>2. [r EXCEPT !.man = stored] \in CallState
        BY <3>1, CallUpdates
      <3>3. Resume(c, g, [r EXCEPT !.man = stored])
        BY <2>2 DEF WithManifest
      <3> QED BY <3>2, <3>3, ResumeType
    <2> QED BY <2>1, <2>2
  <1> QED BY <1>1, <1>2 DEF WithManifest, TypeOK, environment, snapshots

(* The initial states are well typed.                                         *)
LEMMA InitType == Init => TypeOK
  <1> SUFFICES ASSUME Init PROVE TypeOK
    OBVIOUS
  <1>1. Fresh \in CallState
    BY DEF Fresh, CallState, AllOps
  <1>2. Zero \in Reading
    BY DEF Zero, Reading
  <1> QED BY <1>1, <1>2, ManifestTypes DEF Init, TypeOK, Labels, Goals, ReadOrder

(* A step that changes nothing but where the call is.                             *)
LEMMA GoOnlyType ==
  ASSUME TypeOK, NEW c \in Call, NEW label \in Labels, Go(c, label),
         UNCHANGED <<environment, stored, actions, contexts, plans, approvals, runs, goal, call, snapshots>>
  PROVE  TypeOK'
  <1>1. pc' \in [Call -> Labels]
    BY GoType DEF TypeOK
  <1> QED BY <1>1 DEF TypeOK, environment, snapshots

(* The answer to agent.discover keeps the types.                              *)
LEMMA DiscoveredType ==
  ASSUME TypeOK, NEW c \in Call, Discovered(c)
  PROVE  TypeOK'
  <1> DEFINE r == [call[c] EXCEPT !.man = installed]
  <1>1. call[c] \in CallState /\ installed \in Manifest
    BY DEF TypeOK
  <1>2. r \in CallState
    BY <1>1, CallUpdates
  <1>3. HandsOn(r, installed) \in BOOLEAN
    BY <1>1, <1>2 DEF HandsOn, CallState, Manifest
  <1>4. [r EXCEPT !.known = installed] \in CallState /\ [r EXCEPT !.preview = HandsOn(r, installed)] \in CallState
    BY <1>1, <1>2, <1>3, CallUpdates
  <1>5. pc' \in [Call -> Labels] /\ call' \in [Call -> CallState] /\ actions' \subseteq Call
    <2> HIDE DEF r
    <2>1. CASE goal[c] \in {"gate", "prepare"} /\ Resume(c, goal[c], r)
      BY <2>1, <1>2, ResumeType
    <2>2. CASE Learn(c, r) /\ Go(c, "stopped") /\ UNCHANGED actions
      BY <2>2, <1>2, LearnType, GoType DEF TypeOK, Labels
    <2>3. CASE Learn(c, [r EXCEPT !.known = installed]) /\ Go(c, "form") /\ UNCHANGED actions
      <3>1. call' \in [Call -> CallState]
        BY <2>3, <1>4, LearnType DEF TypeOK
      <3>2. pc' \in [Call -> Labels]
        BY <2>3, GoType DEF TypeOK, Labels
      <3> QED BY <2>3, <3>1, <3>2 DEF TypeOK
    <2>4. CASE /\ Learn(c, [r EXCEPT !.preview = HandsOn(r, installed)])
               /\ Go(c, IF installed.kind = "absent" THEN "stopped" ELSE "ready") /\ UNCHANGED actions
      <3>1. call' \in [Call -> CallState]
        BY <2>4, <1>4, LearnType DEF TypeOK
      <3>2. pc' \in [Call -> Labels]
        <4>1. CASE installed.kind = "absent"
          BY <4>1, <2>4, GoType DEF TypeOK, Labels
        <4>2. CASE installed.kind # "absent"
          BY <4>2, <2>4, GoType DEF TypeOK, Labels
        <4> QED BY <4>1, <4>2
      <3> QED BY <2>4, <3>1, <3>2 DEF TypeOK
    <2> QED BY <2>1, <2>2, <2>3, <2>4 DEF Discovered, SaveManifest, r
  <1> QED BY <1>1, <1>5 DEF Discovered, SaveManifest, TypeOK, environment, snapshots

(* Reading a part keeps the types.                                            *)
LEMMA ReadPartType ==
  ASSUME TypeOK, NEW c \in Call, ReadPart(c)
  PROVE  TypeOK'
  <1> DEFINE p == ReadOrder[read[c] + 1]
  <1>1. read[c] \in 0..2 /\ read' \in [Call -> 0..Len(ReadOrder)]
    BY DEF ReadPart, TypeOK, ReadOrder
  <1>2. p \in Part
    BY <1>1 DEF ReadOrder, Part
  <1>3. world[p] \in Nat
    BY <1>2 DEF TypeOK, Reading
  <1>4. snap' \in [Call -> Reading] /\ now' \in [Call -> Reading]
    <2> HIDE DEF p
    <2>1. CASE snap' = [snap EXCEPT ![c][p] = world[p]] /\ UNCHANGED now
      BY <2>1, <1>3 DEF TypeOK, Reading
    <2>2. CASE now' = [now EXCEPT ![c][p] = world[p]] /\ UNCHANGED snap
      BY <2>2, <1>3 DEF TypeOK, Reading
    <2> QED BY <2>1, <2>2 DEF ReadPart, p
  <1> QED BY <1>1, <1>4 DEF ReadPart, TypeOK, environment

(* The entry points keep the types.                                           *)
LEMMA BeginType ==
  ASSUME TypeOK, NEW c \in Call
  PROVE  /\ \A op \in Ops : BeginDiscover(c, op) => TypeOK'
         /\ \A op \in Ops, ok \in BOOLEAN, approve \in BOOLEAN : Begin(c, op, ok, approve) => TypeOK'
  <1>1. \A op \in Ops, ok \in BOOLEAN, approve \in BOOLEAN : Given(c, op, ok, approve) \in CallState
    BY ManifestTypes DEF Given, CallState
  <1>2. ASSUME NEW op \in Ops, BeginDiscover(c, op)
        PROVE  TypeOK'
    <2>1. call' \in [Call -> CallState]
      BY <1>1, <1>2, LearnType DEF BeginDiscover, TypeOK
    <2>2. pc' \in [Call -> Labels]
      BY <1>2, GoType DEF BeginDiscover, TypeOK, Labels
    <2>3. goal' \in [Call -> Goals]
      BY <1>2, AimType DEF BeginDiscover, TypeOK, Goals
    <2> QED BY <1>2, <2>1, <2>2, <2>3 DEF BeginDiscover, TypeOK, environment, snapshots
  <1>3. ASSUME NEW op \in Ops, NEW ok \in BOOLEAN, NEW approve \in BOOLEAN, Begin(c, op, ok, approve)
        PROVE  TypeOK'
    <2>1. CASE op = "plan"
      BY <1>1, <1>3, <2>1, WithManifestType DEF Begin
    <2>2. CASE op # "plan"
      BY <1>1, <1>3, <2>2, WithManifestType DEF Begin
    <2> QED BY <2>1, <2>2
  <1> QED BY <1>2, <1>3

(* Every step of a call keeps the types.                                      *)
LEMMA StepType ==
  ASSUME TypeOK, NEW c \in Call, Step(c)
  PROVE  TypeOK'
  <1>1. call[c] \in CallState
    BY DEF TypeOK
  <1>2. {"ready", "validate", "plan", "snapshot", "context", "prepared", "verify", "approval", "stopped"} \subseteq Labels
    BY DEF Labels
  <1>3. CASE \E op \in Ops : BeginDiscover(c, op)
    BY <1>3, BeginType
  <1>4. CASE \E op \in Ops, ok, approve \in BOOLEAN : Begin(c, op, ok, approve)
    BY <1>4, BeginType
  <1>5. CASE Submit(c)
    BY <1>1, <1>2, <1>5, WithManifestType, GoOnlyType DEF Submit
  <1>6. CASE ApprovePreview(c)
    BY <1>1, <1>6, CallUpdates, WithManifestType DEF ApprovePreview
  <1>7. CASE CallPrepare(c)
    BY <1>1, <1>7, WithManifestType DEF CallPrepare
  <1>8. CASE Discovered(c)
    BY <1>8, DiscoveredType
  <1>9. CASE Previewed(c)
    BY <1>2, <1>9, GoOnlyType DEF Previewed
  <1>10. CASE EntryPreviewed(c)
    <2>1. call' \in [Call -> CallState]
      <3>1. Keeps(call[c]) \in BOOLEAN
        BY <1>1 DEF Keeps, CallState
      <3>2. [call[c] EXCEPT !.preview = Keeps(call[c])] \in CallState
        BY <1>1, <3>1, CallUpdates
      <3> QED BY <1>10, <3>2, LearnType DEF EntryPreviewed, TypeOK
    <2>2. goal' \in [Call -> Goals]
      BY <1>10, AimType DEF EntryPreviewed, TypeOK, Goals
    <2>3. pc' \in [Call -> Labels]
      <3>1. AfterPreview(call[c].op) \in Labels
        BY DEF AfterPreview, Labels
      <3> QED BY <1>10, <3>1, GoType DEF EntryPreviewed, TypeOK
    <2> QED BY <1>10, <2>1, <2>2, <2>3 DEF EntryPreviewed, TypeOK, environment, snapshots
  <1>11. CASE Validated(c)
    BY <1>2, <1>11, GoOnlyType DEF Validated
  <1>12. CASE Planned(c)
    <2>1. pc' \in [Call -> Labels]
      BY <1>2, <1>12, GoType DEF Planned, TypeOK
    <2>2. read' \in [Call -> 0..Len(ReadOrder)]
      BY <1>12 DEF Planned, TypeOK, ReadOrder
    <2> QED BY <1>12, <2>1, <2>2 DEF Planned, TypeOK, environment
  <1>13. CASE ReadPart(c)
    BY <1>13, ReadPartType
  <1>14. CASE SaveContext(c)
    <2>1. pc' \in [Call -> Labels]
      BY <1>2, <1>14, GoType DEF SaveContext, TypeOK
    <2> QED BY <1>14, <2>1 DEF SaveContext, TypeOK, environment, snapshots
  <1>15. CASE SavePlan(c)
    <2>1. pc' \in [Call -> Labels]
      BY <1>2, <1>15, GoType DEF SavePlan, BuildApprovalToken, TypeOK
    <2>2. minted' \in [Call -> Reading]
      BY <1>15 DEF SavePlan, BuildApprovalToken, TypeOK
    <2> QED BY <1>15, <2>1, <2>2 DEF SavePlan, BuildApprovalToken, TypeOK, environment
  <1>16. CASE Execute(c)
    <2>1. pc' \in [Call -> Labels]
      BY <1>2, <1>16, GoType DEF Execute, TypeOK
    <2>2. read' \in [Call -> 0..Len(ReadOrder)] /\ entered' \in [Call -> Reading]
      BY <1>16 DEF Execute, TypeOK, ReadOrder
    <2> QED BY <1>16, <2>1, <2>2 DEF Execute, TypeOK, environment
  <1>17. CASE Refuse(c)
    BY <1>2, <1>17, GoOnlyType DEF Refuse
  <1>18. CASE SaveApproval(c)
    <2>1. pc' \in [Call -> Labels]
      BY <1>2, <1>18, GoType DEF SaveApproval, TypeOK
    <2> QED BY <1>18, <2>1 DEF SaveApproval, TypeOK, environment, snapshots
  <1>19. CASE CreateRun(c)
    <2>1. pc' \in [Call -> Labels]
      BY <1>2, <1>19, GoType DEF CreateRun, TypeOK
    <2>2. runs' \in [Call -> Nat]
      BY <1>19 DEF CreateRun, TypeOK
    <2> QED BY <1>19, <2>1, <2>2 DEF CreateRun, TypeOK, environment, snapshots
  <1>20. CASE Fail(c)
    BY <1>2, <1>20, GoOnlyType DEF Fail
  <1> QED BY <1>3, <1>4, <1>5, <1>6, <1>7, <1>8, <1>9, <1>10, <1>11, <1>12, <1>13, <1>14, <1>15, <1>16,
             <1>17, <1>18, <1>19, <1>20 DEF Step

(* The world: the repository of the agent has two states, the rest only goes on.  *)
WorldOK == world \in Reading /\ world["git"] \in {0, 1}

(* A change of the world keeps its type and never takes a versioned part back.*)
LEMMA ChangeWorld ==
  ASSUME TypeOK, WorldOK, NEW p \in Part, Change(p)
  PROVE  /\ WorldOK'
         /\ \A q \in Versioned : world[q] \in Nat /\ world'[q] \in Nat /\ world[q] <= world'[q]
  <1>1. world' = [world EXCEPT ![p] = IF p \in Versioned THEN @ + 1 ELSE 1 - @]
    BY DEF Change
  <1>2. world \in [Part -> Nat] /\ world["git"] \in {0, 1}
    BY DEF WorldOK, Reading
  <1>3. CASE p \in Versioned
    <2>1. world' = [world EXCEPT ![p] = world[p] + 1] /\ p # "git"
      BY <1>1, <1>2, <1>3 DEF Versioned
    <2> QED BY <1>2, <2>1 DEF WorldOK, Reading, Versioned, Part
  <1>4. CASE p \notin Versioned
    <2>1. world' = [world EXCEPT !["git"] = 1 - world["git"]]
      BY <1>1, <1>2, <1>4 DEF Versioned, Part
    <2> QED BY <1>2, <2>1 DEF WorldOK, Reading, Versioned, Part
  <1> QED BY <1>3, <1>4

TypeInv == TypeOK /\ WorldOK

(* A call never changes the world or the agent.                               *)
LEMMA StepWorld ==
  ASSUME NEW c \in Call, Step(c)
  PROVE  UNCHANGED environment
  BY DEF Step, BeginDiscover, Begin, Submit, ApprovePreview, CallPrepare, WithManifest, Discovered,
         SaveManifest, Previewed, EntryPreviewed, Validated, Planned, ReadPart, SaveContext, SavePlan,
         BuildApprovalToken, Execute, Refuse, SaveApproval, CreateRun, Fail

(* The type invariant is inductive.                                           *)
LEMMA TypeInductive == TypeInv /\ [Next]_vars => TypeInv'
  <1> SUFFICES ASSUME TypeInv, [Next]_vars PROVE TypeInv'
    OBVIOUS
  <1>1. ASSUME NEW c \in Call, Step(c) PROVE TypeInv'
    BY <1>1, StepType, StepWorld DEF TypeInv, WorldOK, environment
  <1>2. ASSUME NEW p \in Part, Change(p) PROVE TypeInv'
    <2>1. WorldOK'
      BY <1>2, ChangeWorld DEF TypeInv
    <2>2. changes' \in Nat
      BY <1>2 DEF Change, TypeInv, TypeOK
    <2> QED BY <1>2, <2>1, <2>2 DEF Change, TypeInv, TypeOK, WorldOK, snapshots
  <1>3. ASSUME NEW m \in Manifests, Upgrade(m) PROVE TypeInv'
    <2>1. installed' \in Manifest /\ upgrades' \in Nat
      BY <1>3, ManifestTypes DEF Upgrade, TypeInv, TypeOK
    <2> QED BY <1>3, <2>1 DEF Upgrade, TypeInv, TypeOK, WorldOK, snapshots
  <1>4. CASE UNCHANGED vars
    BY <1>4 DEF vars, environment, snapshots, TypeInv, TypeOK, WorldOK
  <1> QED BY <1>1, <1>2, <1>3, <1>4 DEF Next

(* The type invariant holds at first.                                         *)
LEMMA InitTypeInv == Init => TypeInv
  BY InitType DEF Init, TypeInv, WorldOK, Zero, Reading, Part

(* Every variable of Lifecycle keeps its type, for every number of callers, every  *)
(* set of manifests and any bound on changes.                                      *)
THEOREM TypeCorrect == Spec => []TypeOK
  <1>1. TypeInv => TypeOK
    BY DEF TypeInv
  <1> QED BY <1>1, InitTypeInv, TypeInductive, PTL DEF Spec

-------------------------------------------------------------------------------
(* The steps before agent.validate, as far as the tables and the snapshots see    *)
(* them: a draft comes before the answers prepareAction waits for.                *)
Drafted(c) == pc[c] = "validate" \/ (pc[c] = "preview" /\ goal[c] = "prepare")

Early(c) ==
  /\ \A d \in Call \ {c} : pc'[d] = pc[d] /\ goal'[d] = goal[d]
  /\ pc'[c] \in {"discover", "stopped", "gated", "form", "ready", "preview", "validate"}
  /\ Drafted(c)' => c \in actions'
  /\ actions \subseteq actions'
  /\ UNCHANGED <<environment, contexts, plans, approvals, runs, snapshots>>

(* Resume leaves a draft behind when it goes on to planning.                  *)
LEMMA ResumeDrafts ==
  ASSUME TypeOK, NEW c \in Call, NEW g \in {"gate", "prepare"}, NEW r, Resume(c, g, r)
  PROVE  /\ \A d \in Call \ {c} : pc'[d] = pc[d]
         /\ pc'[c] \in {"stopped", "gated", "ready", "preview", "validate"}
         /\ pc'[c] = "validate" \/ (pc'[c] = "preview" /\ g = "prepare") => c \in actions'
         /\ actions \subseteq actions'
  <1>1. CASE g = "gate"
    <2>1. pc' = [pc EXCEPT ![c] = Gate(r)]
      BY <1>1 DEF Resume, Go
    <2> QED BY <1>1, <2>1, LabelsReached DEF TypeOK, Resume, Drafts
  <1>2. CASE g = "prepare"
    <2>1. pc' = [pc EXCEPT ![c] = Planning(r)]
      BY <1>2 DEF Resume, Go
    <2>2. r.man.kind = "absent" => Planning(r) = "stopped"
      BY DEF Planning
    <2> QED BY <1>2, <2>1, <2>2, LabelsReached DEF TypeOK, Resume, Drafts
  <1> QED BY <1>1, <1>2

(* WithManifest is an early step.                                             *)
LEMMA WithManifestEarly ==
  ASSUME TypeOK, NEW c \in Call, NEW g \in {"gate", "prepare"}, NEW r, WithManifest(c, g, r)
  PROVE  Early(c)
  <1>1. goal'[c] = g /\ \A d \in Call \ {c} : goal'[d] = goal[d]
    BY DEF WithManifest, Aim, TypeOK
  <1>2. CASE stored = NoManifest
    <2>1. pc' = [pc EXCEPT ![c] = "discover"] /\ actions' = actions
      BY <1>2 DEF WithManifest, Go
    <2> QED BY <1>1, <2>1 DEF WithManifest, Early, Drafted, TypeOK
  <1>3. CASE stored # NoManifest
    <2>1. Resume(c, g, [r EXCEPT !.man = stored])
      BY <1>3 DEF WithManifest
    <2> HIDE DEF Resume
    <2>2. /\ \A d \in Call \ {c} : pc'[d] = pc[d]
          /\ pc'[c] \in {"stopped", "gated", "ready", "preview", "validate"}
          /\ pc'[c] = "validate" \/ (pc'[c] = "preview" /\ g = "prepare") => c \in actions'
          /\ actions \subseteq actions'
      BY <2>1, ResumeDrafts
    <2> QED BY <1>1, <2>2 DEF WithManifest, Early, Drafted
  <1> QED BY <1>2, <1>3

(* The answer to agent.discover is an early step.                             *)
LEMMA DiscoveredEarly ==
  ASSUME TypeOK, NEW c \in Call, Discovered(c)
  PROVE  Early(c)
  <1> DEFINE r == [call[c] EXCEPT !.man = installed]
  <1>1. goal' = goal /\ UNCHANGED <<environment, contexts, plans, approvals, runs, snapshots>>
    BY DEF Discovered, SaveManifest
  <1>2. CASE goal[c] \in {"gate", "prepare"} /\ Resume(c, goal[c], r)
    <2> HIDE DEF r
    <2> QED BY <1>1, <1>2, ResumeDrafts DEF Early, Drafted
  <1>3. CASE /\ goal[c] \in {"done", "boot", "recheck"} /\ actions' = actions
             /\ Go(c, "stopped") \/ Go(c, "form") \/ Go(c, "ready")
    BY <1>1, <1>3 DEF Early, Drafted, Go, TypeOK
  <1>4. \/ goal[c] \in {"gate", "prepare"} /\ Resume(c, goal[c], r)
        \/ /\ goal[c] \in {"done", "boot", "recheck"} /\ actions' = actions
           /\ Go(c, "stopped") \/ Go(c, "form") \/ Go(c, "ready")
    <2> HIDE DEF r
    <2>1. Go(c, IF installed.kind = "absent" THEN "stopped" ELSE "ready") => Go(c, "stopped") \/ Go(c, "ready")
      BY DEF Go
    <2> QED BY <2>1 DEF Discovered, SaveManifest, r
  <1> QED BY <1>2, <1>3, <1>4

EarlyStep(c) ==
  \/ \E op \in Ops : BeginDiscover(c, op)
  \/ \E op \in Ops, ok, approve \in BOOLEAN : Begin(c, op, ok, approve)
  \/ Submit(c) \/ ApprovePreview(c) \/ CallPrepare(c) \/ Discovered(c) \/ EntryPreviewed(c)

(* Every step up to prepareAction is an early step.                           *)
LEMMA EarlySteps ==
  ASSUME TypeOK, NEW c \in Call, EarlyStep(c)
  PROVE  Early(c)
  <1>1. ASSUME NEW op \in Ops, BeginDiscover(c, op) PROVE Early(c)
    BY <1>1 DEF BeginDiscover, Early, Drafted, Go, Aim, TypeOK
  <1>2. ASSUME NEW op \in Ops, NEW ok \in BOOLEAN, NEW approve \in BOOLEAN, Begin(c, op, ok, approve)
        PROVE  Early(c)
    <2>1. CASE op = "plan"
      BY <1>2, <2>1, WithManifestEarly DEF Begin
    <2>2. CASE op # "plan"
      BY <1>2, <2>2, WithManifestEarly DEF Begin
    <2> QED BY <2>1, <2>2
  <1>3. CASE Submit(c)
    <2>1. CASE call[c].known.guarded
      BY <1>3, <2>1, WithManifestEarly DEF Submit
    <2>2. CASE ~call[c].known.guarded
      BY <1>3, <2>2 DEF Submit, Early, Drafted, Go, TypeOK
    <2> QED BY <2>1, <2>2
  <1>4. CASE ApprovePreview(c)
    BY <1>4, WithManifestEarly DEF ApprovePreview
  <1>5. CASE CallPrepare(c)
    BY <1>5, WithManifestEarly DEF CallPrepare
  <1>6. CASE Discovered(c)
    BY <1>6, DiscoveredEarly
  <1>7. CASE EntryPreviewed(c)
    <2>1. AfterPreview(call[c].op) \in {"stopped", "discover", "ready"}
      BY DEF AfterPreview
    <2> QED BY <1>7, <2>1 DEF EntryPreviewed, Early, Drafted, Go, Aim, TypeOK
  <1> QED BY <1>1, <1>2, <1>3, <1>4, <1>5, <1>6, <1>7 DEF EarlyStep

-------------------------------------------------------------------------------
(* The tables.                                                                    *)

(* What is in the tables when a call is where it is.                              *)
TrailOf(c) ==
  /\ Drafted(c) \/ pc[c] \in {"plan", "snapshot", "context", "prepared", "verify", "approval"} => c \in actions
  /\ pc[c] \in {"context", "prepared", "verify", "approval"} => c \in contexts
  /\ pc[c] \in {"prepared", "verify", "approval"} => c \in plans
  /\ pc[c] = "approval" => c \in approvals /\ runs[c] = 0
  /\ runs[c] \in {0, 1} /\ (runs[c] = 1 => c \in approvals)
Trail == /\ \A c \in Call : TrailOf(c)
         /\ approvals \subseteq plans /\ plans \subseteq contexts /\ contexts \subseteq actions

(* A step of c after the draft keeps what other calls have.                       *)
LEMMA TrailStep ==
  ASSUME TypeOK, Trail, NEW c \in Call, Step(c)
  PROVE  Trail'
  <1> USE DEF Trail, TrailOf, Drafted
  <1>1. CASE EarlyStep(c)
    <2>1. Early(c)
      BY <1>1, EarlySteps
    <2> QED BY <2>1 DEF Early, TypeOK
  <1>2. CASE Previewed(c) \/ Validated(c) \/ Planned(c) \/ Refuse(c) \/ Fail(c)
    <2>1. /\ \E label \in {"validate", "plan", "snapshot", "stopped"} :
               /\ pc' = [pc EXCEPT ![c] = label]
               /\ label # "stopped" => Drafted(c) \/ pc[c] = "plan"
          /\ UNCHANGED <<goal, actions, contexts, plans, approvals, runs>>
      BY <1>2 DEF Previewed, Validated, Planned, Refuse, Fail, Go
    <2> QED BY <2>1 DEF TypeOK
  <1>3. CASE ReadPart(c)
    BY <1>3 DEF ReadPart
  <1>4. CASE SaveContext(c)
    BY <1>4 DEF SaveContext, Go, TypeOK
  <1>5. CASE SavePlan(c)
    <2>1. \E label \in {"prepared", "stopped"} : pc' = [pc EXCEPT ![c] = label]
      BY <1>5 DEF SavePlan, BuildApprovalToken, Go
    <2> QED BY <1>5, <2>1 DEF SavePlan, BuildApprovalToken, TypeOK
  <1>6. CASE Execute(c)
    BY <1>6 DEF Execute, Go, TypeOK
  <1>7. CASE SaveApproval(c)
    BY <1>7 DEF SaveApproval, Checked, KeyFree, Go, TypeOK
  <1>8. CASE CreateRun(c)
    <2>1. \E label \in {"prepared", "stopped"} : pc' = [pc EXCEPT ![c] = label]
      BY <1>8 DEF CreateRun, Go
    <2>2. runs' = [runs EXCEPT ![c] = 1]
      <3>1. pc[c] = "approval" /\ runs[c] = 0
        BY <1>8 DEF CreateRun
      <3> QED BY <1>8, <3>1 DEF CreateRun
    <2>3. /\ \A d \in Call : pc'[d] = pc[d] \/ pc'[d] \in {"prepared", "stopped"}
          /\ \A d \in Call : d # c => pc'[d] = pc[d] /\ runs'[d] = runs[d]
          /\ runs'[c] = 1 /\ pc[c] = "approval" /\ pc'[c] # "approval"
          /\ UNCHANGED <<goal, actions, contexts, plans, approvals>>
      BY <1>8, <2>1, <2>2 DEF CreateRun, TypeOK
    <2>4. TrailOf(c)'
      BY <2>3
    <2>5. ASSUME NEW d \in Call, d # c PROVE TrailOf(d)'
      BY <2>3, <2>5
    <2> QED BY <2>3, <2>4, <2>5
  <1> QED BY <1>1, <1>2, <1>3, <1>4, <1>5, <1>6, <1>7, <1>8 DEF Step, EarlyStep

(* The trail is kept by every step of the system.                             *)
LEMMA TrailInductive == TypeInv /\ Trail /\ [Next]_vars => Trail'
  <1> SUFFICES ASSUME TypeInv, Trail, [Next]_vars PROVE Trail'
    OBVIOUS
  <1>1. ASSUME NEW c \in Call, Step(c) PROVE Trail'
    BY <1>1, TrailStep DEF TypeInv
  <1>2. CASE UNCHANGED <<pc, goal, actions, contexts, plans, approvals, runs>>
    BY <1>2 DEF Trail, TrailOf, Drafted
  <1>3. ASSUME NEW p \in Part, Change(p) PROVE Trail'
    BY <1>2, <1>3 DEF Change
  <1>4. ASSUME NEW m \in Manifests, Upgrade(m) PROVE Trail'
    BY <1>2, <1>4 DEF Upgrade
  <1>5. CASE UNCHANGED vars
    BY <1>2, <1>5 DEF vars
  <1> QED BY <1>1, <1>3, <1>4, <1>5 DEF Next

(* The trail holds of empty tables.                                           *)
LEMMA InitTrail == Init => Trail
  BY DEF Init, Trail, TrailOf, Drafted

(* However often the holder of a bundle executes it, and wherever processes end,   *)
(* its approval leads to one run: the insert of the approval, whose key is taken    *)
(* the second time, comes before the insert of the run.                             *)
THEOREM ApprovalSpentOnce == Spec => []OneRunPerApproval
  <1>1. Trail => OneRunPerApproval
    <2> SUFFICES ASSUME Trail, NEW c \in Call PROVE runs[c] <= 1
      BY DEF OneRunPerApproval
    <2>1. runs[c] = 0 \/ runs[c] = 1
      BY DEF Trail, TrailOf
    <2> QED BY <2>1
  <1> QED BY <1>1, InitTypeInv, TypeInductive, InitTrail, TrailInductive, PTL DEF Spec

(* A run has its approval, plan, context and action rows, wherever processes end.   *)
THEOREM TrailKept == Spec => []RunHasTrail
  <1>1. TypeInv /\ Trail => RunHasTrail
    BY DEF Trail, TrailOf, RunHasTrail, TypeInv, TypeOK
  <1> QED BY <1>1, InitTypeInv, TypeInductive, InitTrail, TrailInductive, PTL DEF Spec

-------------------------------------------------------------------------------
(* The context.  The parts are read one after the other, but what changes only     *)
(* goes on: a part that is found in the check as it was in the snapshot has not    *)
(* changed at any moment between the two readings.                                 *)
Approved == {"prepared", "verify", "approval"}

ContextOf(c, p) ==
  /\ snap[c][p] <= world[p]
  /\ pc[c] \in Approved => snap[c][p] <= minted[c][p] /\ minted[c][p] <= world[p]
  /\ pc[c] \in {"verify", "approval"} => minted[c][p] <= entered[c][p] /\ entered[c][p] <= world[p]
  /\ pc[c] = "verify" =>
       \A i \in 1..read[c] : ReadOrder[i] = p => entered[c][p] <= now[c][p] /\ now[c][p] <= world[p]
  /\ pc[c] = "approval" => snap[c][p] = minted[c][p] /\ minted[c][p] = entered[c][p]
Context == \A c \in Call, p \in Versioned : ContextOf(c, p)

(* What the reasoning about one part of one call needs to know of its type.         *)
LEMMA PartTypes ==
  ASSUME TypeInv, NEW c \in Call, NEW p \in Versioned
  PROVE  /\ world[p] \in Nat /\ snap[c][p] \in Nat /\ now[c][p] \in Nat
         /\ minted[c][p] \in Nat /\ entered[c][p] \in Nat /\ read[c] \in 0..3
  BY DEF TypeInv, TypeOK, Reading, Versioned, ReadOrder

(* A step of c keeps the order of readings and moments of every call d.       *)
LEMMA ContextStep ==
  ASSUME TypeInv, TypeInv', Context, NEW c \in Call, Step(c)
  PROVE  Context'
  <1> SUFFICES ASSUME NEW d \in Call, NEW p \in Versioned PROVE ContextOf(d, p)'
    BY DEF Context
  <1>1. ContextOf(d, p) /\ world' = world
    BY StepWorld DEF Context, environment
  <1>2. CASE UNCHANGED <<pc[d], read[d], snap[d], now[d], minted[d], entered[d]>>
    BY <1>1, <1>2 DEF ContextOf
  <1>3. CASE pc'[d] \notin Approved /\ UNCHANGED <<snap[d], minted[d], entered[d]>>
    BY <1>1, <1>3 DEF ContextOf, Approved
  <1>4. CASE EarlyStep(c)
    <2>1. Early(c)
      BY <1>4, EarlySteps DEF TypeInv
    <2> QED BY <1>2, <1>3, <2>1 DEF Early, snapshots, Approved
  <1>5. CASE Previewed(c) \/ Validated(c) \/ Planned(c) \/ SaveContext(c) \/ Refuse(c) \/ Fail(c)
    <2>1. /\ \E label \in {"validate", "plan", "snapshot", "context", "stopped"} : pc' = [pc EXCEPT ![c] = label]
          /\ UNCHANGED <<snap, now, minted, entered>>
          /\ \A e \in Call \ {c} : read'[e] = read[e]
      BY <1>5 DEF Previewed, Validated, Planned, SaveContext, Refuse, Fail, Go, snapshots, TypeInv, TypeOK
    <2>2. pc'[c] \notin Approved /\ \A e \in Call \ {c} : pc'[e] = pc[e]
      BY <2>1 DEF TypeInv, TypeOK, Approved
    <2> QED BY <1>2, <1>3, <2>1, <2>2
  <1>6. CASE ReadPart(c)
    <2>1. CASE d # c
      BY <1>2, <1>6, <2>1 DEF ReadPart, TypeInv, TypeOK
    <2>2. CASE d = c /\ pc[c] = "snapshot"
      <3>1. snap'[c][p] = snap[c][p] \/ snap'[c][p] = world[p]
        <4>1. PICK q : snap' = [snap EXCEPT ![c][q] = world[q]]
          BY <1>6, <2>2 DEF ReadPart
        <4>2. snap \in [Call -> [Part -> Nat]] /\ p \in Part
          BY DEF TypeInv, TypeOK, Reading, Versioned
        <4>3. CASE q = p
          BY <4>1, <4>2, <4>3
        <4>4. CASE q # p
          BY <4>1, <4>2, <4>4
        <4> QED BY <4>3, <4>4
      <3>2. pc' = pc /\ minted' = minted /\ entered' = entered
        BY <1>6 DEF ReadPart
      <3> QED BY <1>1, <2>2, <3>1, <3>2, PartTypes DEF ContextOf, Approved
    <2>3. CASE d = c /\ pc[c] = "verify"
      <3>1. /\ pc' = pc /\ minted' = minted /\ entered' = entered /\ snap' = snap
            /\ read'[c] = read[c] + 1 /\ read[c] \in 0..2
        BY <1>6, <2>3 DEF ReadPart, TypeInv, TypeOK, ReadOrder
      <3>2. CASE ReadOrder[read[c] + 1] = p
        <4>1. now'[c][p] = world[p]
          BY <1>6, <2>3, <3>2 DEF ReadPart, TypeInv, TypeOK, Reading, Versioned
        <4> QED BY <1>1, <2>3, <3>1, <4>1, PartTypes DEF ContextOf, Approved
      <3>3. CASE ReadOrder[read[c] + 1] # p
        <4>1. now'[c][p] = now[c][p]
          BY <1>6, <2>3, <3>3 DEF ReadPart, TypeInv, TypeOK, Reading, Versioned
        <4>2. \A i \in 1..read'[c] : ReadOrder[i] = p => i \in 1..read[c]
          BY <3>1, <3>3
        <4> QED BY <1>1, <2>3, <3>1, <4>1, <4>2 DEF ContextOf, Approved
      <3> QED BY <3>2, <3>3
    <2> QED BY <1>6, <2>1, <2>2, <2>3 DEF ReadPart
  <1>7. CASE SavePlan(c)
    <2>1. /\ pc'[c] \in {"prepared", "stopped"} /\ minted'[c] = world /\ snap' = snap
          /\ \A e \in Call \ {c} : pc'[e] = pc[e] /\ minted'[e] = minted[e]
          /\ UNCHANGED <<read, now, entered>>
      BY <1>7 DEF SavePlan, BuildApprovalToken, Go, TypeInv, TypeOK
    <2>2. CASE d = c
      BY <1>1, <2>1, <2>2, PartTypes DEF ContextOf, Approved
    <2>3. CASE d # c
      BY <1>2, <2>1, <2>3
    <2> QED BY <2>2, <2>3
  <1>8. CASE Execute(c)
    <2>1. /\ pc[c] = "prepared" /\ pc'[c] = "verify" /\ entered'[c] = world /\ read'[c] = 0
          /\ \A e \in Call \ {c} : pc'[e] = pc[e] /\ entered'[e] = entered[e] /\ read'[e] = read[e]
          /\ UNCHANGED <<snap, now, minted>>
      BY <1>8 DEF Execute, Go, TypeInv, TypeOK
    <2>2. CASE d = c
      BY <1>1, <2>1, <2>2, PartTypes DEF ContextOf, Approved
    <2>3. CASE d # c
      BY <1>2, <2>1, <2>3
    <2> QED BY <2>2, <2>3
  <1>9. CASE SaveApproval(c)
    <2>1. /\ pc[c] = "verify" /\ pc'[c] = "approval" /\ read[c] = 3 /\ now[c] = snap[c]
          /\ \A e \in Call \ {c} : pc'[e] = pc[e]
          /\ UNCHANGED <<snap, now, minted, entered, read>>
      BY <1>9 DEF SaveApproval, Checked, Valid, Go, TypeInv, TypeOK, snapshots, ReadOrder
    <2>2. CASE d = c
      <3>1. \E i \in 1..3 : ReadOrder[i] = p
        BY DEF ReadOrder, Versioned, Part
      <3>2. entered[c][p] <= now[c][p]
        BY <1>1, <2>1, <2>2, <3>1 DEF ContextOf
      <3> QED BY <1>1, <2>1, <2>2, <3>2, PartTypes DEF ContextOf, Approved
    <2>3. CASE d # c
      BY <1>2, <2>1, <2>3
    <2> QED BY <2>2, <2>3
  <1>10. CASE CreateRun(c)
    <2>1. /\ pc[c] = "approval" /\ pc'[c] \in {"prepared", "stopped"}
          /\ \A e \in Call \ {c} : pc'[e] = pc[e]
          /\ UNCHANGED <<snap, now, minted, entered, read>>
      BY <1>10 DEF CreateRun, Go, TypeInv, TypeOK, snapshots
    <2>2. CASE d = c
      BY <1>1, <2>1, <2>2 DEF ContextOf, Approved
    <2>3. CASE d # c
      BY <1>2, <2>1, <2>3
    <2> QED BY <2>2, <2>3
  <1> QED BY <1>4, <1>5, <1>6, <1>7, <1>8, <1>9, <1>10 DEF Step, EarlyStep

(* So does every step of the system.                                          *)
LEMMA ContextInductive == TypeInv /\ Context /\ [Next]_vars => Context'
  <1> SUFFICES ASSUME TypeInv, Context, [Next]_vars PROVE Context'
    OBVIOUS
  <1>1. TypeInv'
    BY TypeInductive
  <1>2. ASSUME NEW c \in Call, Step(c) PROVE Context'
    BY <1>1, <1>2, ContextStep
  <1>3. ASSUME NEW p \in Part, Change(p) PROVE Context'
    <2> SUFFICES ASSUME NEW d \in Call, NEW q \in Versioned PROVE ContextOf(d, q)'
      BY DEF Context
    <2>1. world[q] <= world'[q] /\ world[q] \in Nat /\ world'[q] \in Nat
      BY <1>3, ChangeWorld DEF TypeInv
    <2>2. ContextOf(d, q) /\ UNCHANGED <<pc, read, snap, now, minted, entered>>
      BY <1>3 DEF Change, Context, snapshots
    <2>3. read[d] \in 0..3
      BY PartTypes
    <2> QED BY <2>1, <2>2, <2>3, PartTypes DEF ContextOf
  <1>4. CASE UNCHANGED <<pc, world, snapshots>>
    BY <1>4 DEF Context, ContextOf, snapshots
  <1>5. ASSUME NEW m \in Manifests, Upgrade(m) PROVE Context'
    BY <1>4, <1>5 DEF Upgrade
  <1>6. CASE UNCHANGED vars
    BY <1>4, <1>6 DEF vars, environment
  <1> QED BY <1>2, <1>3, <1>5, <1>6 DEF Next

(* It holds at first.                                                         *)
LEMMA InitContext == Init => Context
  BY DEF Init, Context, ContextOf, Zero, Versioned, Part, Approved

(* Only CreateRun makes a run, where the approved context is known to have held.*)
LEMMA RunStep == TypeInv /\ Context /\ [Next]_vars => [\A c \in Call : runs'[c] # runs[c] => ApprovedContext(c)]_vars
  <1> SUFFICES ASSUME TypeInv, Context, Next, NEW c \in Call, runs'[c] # runs[c] PROVE ApprovedContext(c)
    BY DEF vars
  <1>1. PICK d \in Call : CreateRun(d)
    <2>1. ASSUME NEW e \in Call, EarlyStep(e) PROVE UNCHANGED runs
      BY <2>1, EarlySteps DEF Early, TypeInv
    <2>2. \A p \in Part : Change(p) => UNCHANGED runs
      BY DEF Change
    <2>3. \A m \in Manifests : Upgrade(m) => UNCHANGED runs
      BY DEF Upgrade
    <2>4. PICK e \in Call : Step(e)
      BY <2>2, <2>3 DEF Next
    <2>5. CreateRun(e)
      BY <2>1, <2>4 DEF Step, EarlyStep, Previewed, Validated, Planned, ReadPart, SaveContext,
                    SavePlan, BuildApprovalToken, Execute,
                        Refuse, SaveApproval, Fail
    <2> QED BY <2>5
  <1>2. c = d
    BY <1>1 DEF CreateRun, TypeInv, TypeOK
  <1>3. pc[c] = "approval"
    BY <1>1, <1>2 DEF CreateRun
  <1> QED BY <1>3 DEF Context, ContextOf, ApprovedContext

(* Whoever changes source file and vault, and whenever, also between the readings  *)
(* of a snapshot: a run starts only if both are as the approved snapshot has them   *)
(* from the making of the token to the call of executePreparedWithControl.          *)
THEOREM ContextHeld == Spec => RunsInApprovedContext
  <1> QED BY InitTypeInv, TypeInductive, InitContext, ContextInductive, RunStep, PTL
          DEF Spec, RunsInApprovedContext

-------------------------------------------------------------------------------
(* The approval of a preview.  While the agent keeps its manifest, every call     *)
(* that has a manifest in hand has that one.  If it guards a probe command, then   *)
(* the preview of an entry point is not asked for without the approval, no other   *)
(* is asked for, and prepareAction does not go on without one.                     *)
Guards == installed.guarded /\ installed.kind = "probe_readonly"

PreviewOf(c) ==
  /\ call[c].preview => call[c].ok
  /\ pc[c] = "preview" => goal[c] = "gate" /\ call[c].ok
  /\ pc[c] \in {"validate", "plan", "snapshot", "context", "prepared", "verify", "approval"} => call[c].ok

InHand(c) == call[c].man \in {installed, NoManifest} /\ (Guards => PreviewOf(c))

Previews == upgrades = 0 => stored \in {installed, NoManifest} /\ \A c \in Call : InHand(c)

(* What others have in hand is theirs.                                             *)
Others(c) == \A d \in Call \ {c} : call'[d] = call[d] /\ pc'[d] = pc[d] /\ goal'[d] = goal[d]

(* A caller that has the manifest, and a preview only with its approval, is sent   *)
(* on as far as that allows.                                                       *)
LEMMA ResumeInHand ==
  ASSUME TypeOK, NEW c \in Call, NEW g \in {"gate", "prepare"}, NEW r \in CallState,
         r.man = installed, Guards => (r.preview => r.ok),
         Resume(c, g, r), goal'[c] = g, installed' = installed
  PROVE  /\ InHand(c)'
         /\ \A d \in Call \ {c} : call'[d] = call[d] /\ pc'[d] = pc[d]
  <1> DEFINE label == IF g = "gate" THEN Gate(r) ELSE Planning(r)
  <1>1. call' = [call EXCEPT ![c] = r] /\ pc' = [pc EXCEPT ![c] = label]
    BY DEF Resume, Learn, Go
  <1>2. ASSUME Guards
        PROVE  /\ label = "preview" => g = "gate" /\ r.ok
               /\ label = "validate" => r.ok
               /\ label \in {"stopped", "gated", "preview", "validate"}
    BY <1>2 DEF Guards, Gate, Planning
  <1> HIDE DEF label
  <1>3. call'[c] = r /\ pc'[c] = label /\ \A d \in Call \ {c} : call'[d] = call[d] /\ pc'[d] = pc[d]
    BY <1>1 DEF TypeOK
  <1>4. Guards' <=> Guards
    BY DEF Guards
  <1>5. Guards => PreviewOf(c)'
    BY <1>2, <1>3 DEF PreviewOf
  <1> QED BY <1>3, <1>4, <1>5 DEF InHand

(* The row of the manifests table is what agent.discover would answer.             *)
LEMMA WithManifestInHand ==
  ASSUME TypeOK, stored \in {installed, NoManifest}, NEW c \in Call, NEW g \in {"gate", "prepare"},
         NEW r \in CallState, r.man \in {installed, NoManifest}, Guards => (r.preview => r.ok),
         WithManifest(c, g, r)
  PROVE  InHand(c)' /\ Others(c) /\ stored' = stored
  <1>1. goal'[c] = g /\ (\A d \in Call \ {c} : goal'[d] = goal[d])
        /\ installed' = installed /\ stored' = stored
    BY DEF WithManifest, Aim, TypeOK, environment
  <1>2. CASE stored = NoManifest
    <2>1. call' = [call EXCEPT ![c] = r] /\ pc' = [pc EXCEPT ![c] = "discover"]
      BY <1>2 DEF WithManifest, Learn, Go
    <2>2. /\ call'[c] = r /\ pc'[c] = "discover"
          /\ \A d \in Call \ {c} : call'[d] = call[d] /\ pc'[d] = pc[d]
      BY <2>1 DEF TypeOK
    <2> QED BY <1>1, <2>2 DEF InHand, Guards, PreviewOf, Others
  <1>3. CASE stored # NoManifest
    <2> DEFINE s == [r EXCEPT !.man = stored]
    <2>1. Resume(c, g, s)
      BY <1>3 DEF WithManifest
    <2>2. stored \in Manifest
      BY <1>3 DEF TypeOK
    <2>3. s \in CallState /\ s.man = stored /\ s.preview = r.preview /\ s.ok = r.ok
      BY <2>2, CallUpdates DEF CallState
    <2> HIDE DEF s
    <2>4. InHand(c)' /\ \A d \in Call \ {c} : call'[d] = call[d] /\ pc'[d] = pc[d]
      BY <1>1, <1>3, <2>1, <2>3, ResumeInHand
    <2> QED BY <1>1, <2>4 DEF Others
  <1> QED BY <1>2, <1>3

(* So is the answer of agent.discover, which a preview outlives only with its      *)
(* approval.                                                                       *)
LEMMA DiscoveredInHand ==
  ASSUME TypeOK, NEW c \in Call, InHand(c), Discovered(c)
  PROVE  InHand(c)' /\ Others(c) /\ stored' = installed
  <1> DEFINE r == [call[c] EXCEPT !.man = installed]
             k == [r EXCEPT !.known = installed]
             h == [r EXCEPT !.preview = HandsOn(r, installed)]
  <1>1. goal' = goal /\ installed' = installed /\ stored' = installed
    BY DEF Discovered, SaveManifest, environment
  <1>2. call[c] \in CallState /\ installed \in Manifest
    BY DEF TypeOK
  <1>3. r \in CallState /\ r.man = installed /\ r.preview = call[c].preview /\ r.ok = call[c].ok
    BY <1>2, CallUpdates DEF CallState
  <1>4. Guards => (r.preview => r.ok)
    BY <1>3 DEF InHand, PreviewOf
  <1>5. \/ goal[c] \in {"gate", "prepare"} /\ Resume(c, goal[c], r)
        \/ Learn(c, r) /\ Go(c, "stopped")
        \/ Learn(c, k) /\ Go(c, "form")
        \/ Learn(c, h) /\ Go(c, IF installed.kind = "absent" THEN "stopped" ELSE "ready")
    BY DEF Discovered
  <1> HIDE DEF r
  <1>6. k.man = installed /\ k.preview = r.preview /\ k.ok = r.ok
    BY <1>3 DEF CallState
  <1>7. h.man = installed /\ (h.preview => r.preview) /\ h.ok = r.ok
    BY <1>3 DEF CallState, HandsOn
  <1> HIDE DEF k, h
  <1>8. ASSUME NEW s, s.man = installed, s.preview => r.preview, s.ok = r.ok, Learn(c, s),
               NEW label \in {"stopped", "form", "ready"}, Go(c, label)
        PROVE  InHand(c)' /\ Others(c)
    <2>1. /\ call'[c] = s /\ pc'[c] = label
          /\ \A d \in Call \ {c} : call'[d] = call[d] /\ pc'[d] = pc[d]
      BY <1>8 DEF Learn, Go, TypeOK
    <2> QED BY <1>1, <1>4, <1>8, <2>1 DEF InHand, Guards, PreviewOf, Others
  <1>9. CASE goal[c] \in {"gate", "prepare"} /\ Resume(c, goal[c], r)
    BY <1>1, <1>3, <1>4, <1>9, ResumeInHand DEF Others
  <1>10. CASE Learn(c, h) /\ Go(c, IF installed.kind = "absent" THEN "stopped" ELSE "ready")
    <2>1. PICK label \in {"stopped", "form", "ready"} : Learn(c, h) /\ Go(c, label)
      BY <1>10
    <2> QED BY <1>1, <1>7, <1>8, <2>1
  <1> QED BY <1>1, <1>3, <1>5, <1>6, <1>8, <1>9, <1>10

(* A step that learns nothing and goes to a place no further than it was.          *)
LEMMA GoInHand ==
  ASSUME TypeOK, NEW c \in Call, InHand(c), NEW label, Go(c, label),
         UNCHANGED <<goal, call, installed, stored>>,
         Guards /\ label \in {"validate", "plan", "snapshot", "context", "prepared", "verify", "approval"}
            => call[c].ok,
         label # "preview"
  PROVE  InHand(c)' /\ Others(c) /\ stored' = stored
  <1>1. pc'[c] = label /\ \A d \in Call \ {c} : pc'[d] = pc[d]
    BY DEF Go, TypeOK
  <1> QED BY <1>1 DEF InHand, Guards, PreviewOf, Others

LEMMA StepInHand ==
  ASSUME TypeOK, stored \in {installed, NoManifest}, NEW c \in Call, InHand(c), Step(c)
  PROVE  InHand(c)' /\ Others(c) /\ stored' \in {installed, NoManifest}
  <1>0. call[c] \in CallState /\ call[c].man \in {installed, NoManifest}
        /\ (Guards => (call[c].preview => call[c].ok))
    BY DEF InHand, PreviewOf, TypeOK
  <1>1. \A op \in Ops, ok \in BOOLEAN, approve \in BOOLEAN :
            /\ Given(c, op, ok, approve) \in CallState
            /\ Given(c, op, ok, approve).man = NoManifest
            /\ Given(c, op, ok, approve).preview = FALSE
    BY ManifestTypes DEF Given, CallState
  <1>2. ASSUME NEW op \in Ops, BeginDiscover(c, op)
        PROVE  InHand(c)' /\ Others(c) /\ stored' \in {installed, NoManifest}
    <2> DEFINE r == Given(c, op, FALSE, FALSE)
    <2>1. r.man = NoManifest /\ r.preview = FALSE
      BY <1>1
    <2>2. /\ call' = [call EXCEPT ![c] = r] /\ pc' = [pc EXCEPT ![c] = "discover"]
          /\ (\E g \in Goals : goal' = [goal EXCEPT ![c] = g])
          /\ UNCHANGED <<installed, stored>>
      BY <1>2 DEF BeginDiscover, Learn, Go, Aim, environment, Goals
    <2> HIDE DEF r
    <2>3. /\ call'[c] = r /\ pc'[c] = "discover" /\ Others(c)
      BY <2>2 DEF TypeOK, Others
    <2> QED BY <2>1, <2>2, <2>3 DEF InHand, Guards, PreviewOf
  <1>3. ASSUME NEW op \in Ops, NEW ok \in BOOLEAN, NEW approve \in BOOLEAN, Begin(c, op, ok, approve)
        PROVE  InHand(c)' /\ Others(c) /\ stored' \in {installed, NoManifest}
    <2> DEFINE r == Given(c, op, ok, approve)
    <2>1. r \in CallState /\ r.man = NoManifest /\ r.preview = FALSE
      BY <1>1
    <2>2. WithManifest(c, "prepare", r) \/ WithManifest(c, "gate", r)
      BY <1>3 DEF Begin
    <2> HIDE DEF r
    <2> QED BY <2>1, <2>2, WithManifestInHand
  <1>4. CASE Submit(c)
    <2>1. \/ WithManifest(c, "gate", call[c])
          \/ Go(c, "ready") /\ UNCHANGED <<goal, call, installed, stored>>
      BY <1>4 DEF Submit, environment
    <2>2. CASE WithManifest(c, "gate", call[c])
      BY <1>0, <2>2, WithManifestInHand
    <2>3. CASE Go(c, "ready") /\ UNCHANGED <<goal, call, installed, stored>>
      BY <2>3, GoInHand
    <2> QED BY <2>1, <2>2, <2>3
  <1>5. CASE ApprovePreview(c)
    <2> DEFINE r == [call[c] EXCEPT !.ok = TRUE]
    <2>1. r \in CallState /\ r.man = call[c].man /\ r.ok = TRUE
      BY <1>0, CallUpdates DEF CallState
    <2>2. WithManifest(c, "gate", r)
      BY <1>5 DEF ApprovePreview
    <2> HIDE DEF r
    <2> QED BY <1>0, <2>1, <2>2, WithManifestInHand
  <1>6. CASE CallPrepare(c)
    BY <1>0, <1>6, WithManifestInHand DEF CallPrepare
  <1>7. CASE Discovered(c)
    BY <1>7, DiscoveredInHand
  <1>8. CASE EntryPreviewed(c)
    <2> DEFINE r == [call[c] EXCEPT !.preview = Keeps(call[c])]
    <2>1. r.man = call[c].man /\ r.ok = call[c].ok
      BY <1>0 DEF CallState
    <2>2. Guards => call[c].ok
      BY <1>8 DEF EntryPreviewed, InHand, PreviewOf
    <2>3. /\ call' = [call EXCEPT ![c] = r]
          /\ pc' = [pc EXCEPT ![c] = AfterPreview(call[c].op)]
          /\ (\E g \in Goals : goal' = [goal EXCEPT ![c] = g])
          /\ UNCHANGED <<installed, stored>>
      BY <1>8 DEF EntryPreviewed, Learn, Go, Aim, environment, Goals
    <2>4. AfterPreview(call[c].op) \in {"stopped", "discover", "ready"}
      BY DEF AfterPreview
    <2> HIDE DEF r
    <2>5. call'[c] = r /\ pc'[c] \in {"stopped", "discover", "ready"} /\ Others(c)
      BY <2>3, <2>4 DEF TypeOK, Others
    <2> QED BY <1>0, <2>1, <2>2, <2>3, <2>5 DEF InHand, Guards, PreviewOf
  <1>9. CASE Previewed(c)
    <2>1. ~Guards
      BY <1>9 DEF Previewed, InHand, PreviewOf
    <2>2. Go(c, "validate") /\ UNCHANGED <<goal, call, installed, stored>>
      BY <1>9 DEF Previewed, environment
    <2> QED BY <2>1, <2>2, GoInHand
  <1>10. CASE ReadPart(c)
    BY <1>10 DEF ReadPart, InHand, Guards, PreviewOf, Others, environment
  <1> DEFINE Late == {"validate", "plan", "snapshot", "context", "prepared", "verify", "approval"}
  <1>11. CASE Validated(c) \/ Planned(c) \/ SaveContext(c) \/ SavePlan(c) \/ Execute(c) \/ Refuse(c)
              \/ SaveApproval(c) \/ CreateRun(c) \/ Fail(c)
    <2>1. \E label \in Late \cup {"stopped"} :
             Go(c, label) /\ (label # "stopped" => pc[c] \in Late)
      BY <1>11 DEF Validated, Planned, SaveContext, SavePlan, Execute, Refuse, SaveApproval, CreateRun,
                   Fail, Checked
    <2>2. UNCHANGED <<goal, call, installed, stored>>
      BY <1>11 DEF Validated, Planned, SaveContext, SavePlan, Execute, Refuse, SaveApproval, CreateRun,
                   Fail, BuildApprovalToken, environment
    <2>3. Guards /\ pc[c] \in Late => call[c].ok
      BY DEF InHand, PreviewOf
    <2>4. PICK label \in Late \cup {"stopped"} : Go(c, label) /\ (label # "stopped" => pc[c] \in Late)
      BY <2>1
    <2>5. Guards /\ label \in Late => call[c].ok
      BY <2>3, <2>4
    <2> QED BY <2>2, <2>4, <2>5, GoInHand
  <1> QED BY <1>2, <1>3, <1>4, <1>5, <1>6, <1>7, <1>8, <1>9, <1>10, <1>11 DEF Step

(* Every step keeps what is in hand, up to the first upgrade of the agent.         *)
LEMMA PreviewsInductive == TypeInv /\ Previews /\ [Next]_vars => Previews'
  <1> SUFFICES ASSUME TypeInv, Previews, [Next]_vars, upgrades' = 0
               PROVE  stored' \in {installed', NoManifest} /\ \A c \in Call : InHand(c)'
    BY DEF Previews
  <1>1. ASSUME NEW c \in Call, Step(c)
        PROVE  stored' \in {installed', NoManifest} /\ \A d \in Call : InHand(d)'
    <2>1. UNCHANGED <<installed, upgrades>>
      BY <1>1, StepWorld DEF environment
    <2>2. stored \in {installed, NoManifest} /\ \A d \in Call : InHand(d)
      BY <2>1 DEF Previews
    <2>3. InHand(c)' /\ Others(c) /\ stored' \in {installed, NoManifest}
      BY <1>1, <2>2, StepInHand DEF TypeInv
    <2>4. ASSUME NEW d \in Call \ {c} PROVE InHand(d)'
      BY <2>1, <2>2, <2>3 DEF Others, InHand, Guards, PreviewOf
    <2> QED BY <2>1, <2>3, <2>4
  <1>2. CASE UNCHANGED <<installed, upgrades, stored, pc, goal, call>>
    <2>1. stored \in {installed, NoManifest} /\ \A d \in Call : InHand(d)
      BY <1>2 DEF Previews
    <2> QED BY <1>2, <2>1 DEF InHand, Guards, PreviewOf
  <1>3. ASSUME NEW p \in Part, Change(p)
        PROVE  UNCHANGED <<installed, upgrades, stored, pc, goal, call>>
    BY <1>3 DEF Change
  <1>4. ASSUME NEW m \in Manifests, Upgrade(m) PROVE FALSE
    <2>1. upgrades \in Nat /\ upgrades' = upgrades + 1
      BY <1>4 DEF Upgrade, TypeInv, TypeOK
    <2> QED BY <2>1
  <1>5. CASE UNCHANGED vars
    BY <1>2, <1>5 DEF vars, environment
  <1> QED BY <1>1, <1>2, <1>3, <1>4, <1>5 DEF Next

LEMMA InitPreviews == Init => Previews
  <1> SUFFICES ASSUME Init PROVE Previews
    OBVIOUS
  <1>1. ASSUME NEW c \in Call PROVE InHand(c)
    <2>1. call[c] = Fresh /\ pc[c] = "idle"
      BY DEF Init
    <2>2. Fresh.man = NoManifest /\ Fresh.preview = FALSE
      BY DEF Fresh
    <2> QED BY <2>1, <2>2 DEF InHand, PreviewOf
  <1> QED BY <1>1 DEF Init, Previews

(* Whichever entry point is used, with a manifest row that was read when: a guarded *)
(* probe command reaches agent.validate, agent.plan or a bundle only with the       *)
(* approval of its preview, as long as the agent keeps its manifest.                *)
THEOREM ProbesAreApproved == Spec => []ProbePlanningIsApproved
  <1>1. Previews => ProbePlanningIsApproved
    <2> SUFFICES ASSUME Previews, upgrades = 0, NEW c \in Call, Probe(call[c]),
                        pc[c] \in {"validate", "plan", "snapshot", "context", "prepared"}
                 PROVE  call[c].ok
      BY DEF ProbePlanningIsApproved
    <2>1. InHand(c)
      BY DEF Previews
    <2>2. call[c].man = installed /\ Guards
      BY <2>1 DEF InHand, Probe, NoManifest, Guards
    <2> QED BY <2>1, <2>2 DEF InHand, PreviewOf
  <1> QED BY <1>1, InitTypeInv, TypeInductive, InitPreviews, PreviewsInductive, PTL DEF Spec
===============================================================================
