------------------------------- MODULE Lifecycle -------------------------------
(* From a command to a run: discover, preview, prepareAction and the start of    *)
(* executePreparedWithControl, as several callers (agentctl commands, the TUI)   *)
(* carry them out at once on one database, while the world the approval speaks   *)
(* of changes under them.                                                        *)
(*                                                                               *)
(* A call is an async function: each await of a request to the agent is a state  *)
(* pc of it.  Synchronous code is cut where others can see or change something:  *)
(* the parts of a context snapshot are read one after the other, and every       *)
(* INSERT is committed on its own, so a process can end between two of them.     *)
(* Command arguments, plan steps, hashes and the text of a preview are left out: *)
(* a call binds them once and never changes them.                                *)
(* X_Something is a mutated form of X, which the checks must refuse.             *)
EXTENDS Naturals, Sequences

CONSTANTS
  Call,        \* the callers; one action, one plan and one approval token each
  Ops,         \* the entry points they use
  Manifests,   \* the manifests the agent may have, as far as they concern the command
  MaxChanges,  \* bound: changes of the world
  MaxUpgrades  \* bound: changes of the manifest of the agent

AllOps == {"discover", "preview", "plan", "run", "approved", "tui"}

(* What a manifest says of the command: it has none of that name, or a preview    *)
(* policy.  "dynamic" previews are treated as static ones by the code.            *)
Kind == {"absent", "static", "probe_readonly"}
Manifest == [kind : Kind, guarded : BOOLEAN]
NoManifest == [kind |-> "none", guarded |-> FALSE]

ASSUME LifecycleAssumption ==
  /\ Ops \subseteq AllOps
  /\ Manifests \subseteq Manifest
  /\ MaxChanges \in Nat /\ MaxUpgrades \in Nat

(* What a context snapshot reads, in this order.  It is assumed that source file  *)
(* and vault never return to an earlier state (content hash, modification times;  *)
(* one that is missing, appears and is missing again would); HEAD and the dirty   *)
(* flag of the repository of the agent may return to earlier values.              *)
ReadOrder == <<"git", "source", "vault">>
Part == {"git", "source", "vault"}
Versioned == Part \ {"git"}

VARIABLES
  world,      \* the state of each part
  changes,    \* how many changes it has seen
  installed,  \* the manifest the agent answers agent.discover with
  upgrades,   \* how often that has changed
  stored,     \* the row of the manifests table
  actions, contexts, plans, approvals,  \* the calls that have a row in each table
  runs,       \* how many rows of the runs table the approval of a call has led to
  pc,         \* where each call is: the answer it awaits, or the statement it is before
  goal,       \* what an answer to agent.discover or agent.preview is for
  call,       \* what each call has been given and has found
  read,       \* how many parts of a snapshot have been read
  snap, now,  \* the snapshot of the plan, and the one of the check before execution
  minted, entered  \* history: the world when the token was made, and when
                   \* executePreparedWithControl was last called

environment == <<world, changes, installed, upgrades>>
snapshots == <<read, snap, now, minted, entered>>
vars == <<environment, stored, actions, contexts, plans, approvals, runs, pc, goal, call, snapshots>>

Labels == {"idle", "discover", "gated", "form", "ready", "preview", "validate", "plan",
           "snapshot", "context", "prepared", "verify", "approval", "stopped"}
Goals == {"gate", "prepare", "recheck", "boot", "done"}

(* ok and approve are the user's --approve-preview and --approve; man is the       *)
(* manifest in hand, known the one the TUI found at its start; preview says        *)
(* whether there is a preview to give to prepareAction.                            *)
CallState ==
  [op : AllOps, ok : BOOLEAN, approve : BOOLEAN, man : Manifest \cup {NoManifest},
   known : Manifest \cup {NoManifest}, preview : BOOLEAN]
Reading == [Part -> Nat]

Zero == [p \in Part |-> 0]
Fresh == [op |-> "discover", ok |-> FALSE, approve |-> FALSE, man |-> NoManifest,
          known |-> NoManifest, preview |-> FALSE]

Init ==
  /\ world = Zero /\ changes = 0
  /\ installed \in Manifests /\ upgrades = 0
  /\ stored \in {installed, NoManifest}
  /\ actions = {} /\ contexts = {} /\ plans = {} /\ approvals = {}
  /\ runs = [c \in Call |-> 0]
  /\ pc = [c \in Call |-> "idle"] /\ goal = [c \in Call |-> "done"]
  /\ call = [c \in Call |-> Fresh]
  /\ read = [c \in Call |-> 0]
  /\ snap = [c \in Call |-> Zero] /\ now = [c \in Call |-> Zero]
  /\ minted = [c \in Call |-> Zero] /\ entered = [c \in Call |-> Zero]

Go(c, label) == pc' = [pc EXCEPT ![c] = label]
Aim(c, g) == goal' = [goal EXCEPT ![c] = g]
Learn(c, r) == call' = [call EXCEPT ![c] = r]

-------------------------------------------------------------------------------
(* prepareManifest and what follows it in the same task.                         *)

(* preview() and runWithEvents: without the approval it needs the preview is not  *)
(* asked for.  runWithEvents skips the preview of an unguarded command,           *)
(* prepareAction will ask for it.                                                 *)
Gate_PreviewOnly(r) ==
  IF r.man.kind = "absent" THEN "stopped"
  ELSE IF r.man.guarded /\ ~r.ok /\ r.op = "preview" THEN "gated"
  ELSE IF ~r.man.guarded /\ r.op = "run" THEN "ready"
  ELSE "preview"

Gate(r) ==
  IF r.man.kind = "absent" THEN "stopped"
  ELSE IF r.man.guarded /\ ~r.ok THEN "gated"
  ELSE IF ~r.man.guarded /\ r.op = "run" THEN "ready"
  ELSE "preview"

(* prepareAction: a probe preview comes from the caller, any other is asked for.  *)
Planning(r) ==
  IF r.man.kind = "absent" THEN "stopped"
  ELSE IF r.man.kind # "probe_readonly" THEN "preview"
  ELSE IF r.preview THEN "validate" ELSE "stopped"

(* createDraft comes before the missing probe preview is noticed.                 *)
Drafts_StaticOnly(r, g) == g = "prepare" /\ r.man.kind = "static"
Drafts(r, g) == g = "prepare" /\ r.man.kind # "absent"

Resume(c, g, r) ==
  /\ Learn(c, r)
  /\ Go(c, IF g = "gate" THEN Gate(r) ELSE Planning(r))
  /\ actions' = IF Drafts(r, g) THEN actions \cup {c} ELSE actions

(* The manifest in the database is used as it is, however old; discover only      *)
(* if there is none.                                                              *)
WithManifest(c, g, r) ==
  /\ Aim(c, g)
  /\ IF stored = NoManifest THEN Learn(c, r) /\ Go(c, "discover") /\ UNCHANGED actions
     ELSE Resume(c, g, [r EXCEPT !.man = stored])
  /\ UNCHANGED <<environment, stored, contexts, plans, approvals, runs, snapshots>>

-------------------------------------------------------------------------------
(* The entry points.                                                             *)

Given(c, op, ok, approve) ==
  [op |-> op, ok |-> ok, approve |-> approve, man |-> NoManifest, known |-> NoManifest, preview |-> FALSE]

(* discover, and the start of the TUI.                                            *)
BeginDiscover(c, op) ==
  /\ pc[c] = "idle" /\ op \in {"discover", "tui"}
  /\ Learn(c, Given(c, op, FALSE, FALSE))
  /\ Aim(c, IF op = "tui" THEN "boot" ELSE "done") /\ Go(c, "discover")
  /\ UNCHANGED <<environment, stored, actions, contexts, plans, approvals, runs, snapshots>>

Begin(c, op, ok, approve) ==
  /\ pc[c] = "idle" /\ op \in {"preview", "plan", "run", "approved"}
  /\ ok => op # "plan"
  /\ approve => op = "run"
  /\ WithManifest(c, IF op = "plan" THEN "prepare" ELSE "gate", Given(c, op, ok, approve))

(* The TUI decides with the manifest of its start whether to go through preview() *)
(* first.                                                                         *)
Submit(c) ==
  /\ pc[c] = "form" /\ call[c].known.kind # "absent"
  /\ IF call[c].known.guarded THEN WithManifest(c, "gate", call[c])
     ELSE /\ Go(c, "ready")
          /\ UNCHANGED <<environment, stored, actions, contexts, plans, approvals, runs, goal, call, snapshots>>

ApprovePreview(c) ==
  /\ pc[c] = "gated" /\ call[c].op = "tui"
  /\ WithManifest(c, "gate", [call[c] EXCEPT !.ok = TRUE])

CallPrepare(c) == pc[c] = "ready" /\ WithManifest(c, "prepare", call[c])

-------------------------------------------------------------------------------
(* Answers of the agent.                                                         *)

(* runApprovedWithInteractions hands the preview on only if the manifest it has   *)
(* just discovered asks for one from the caller.                                  *)
HandsOn(r, m) == r.preview /\ m.guarded /\ m.kind = "probe_readonly"

SaveManifest == stored' = installed

(* The answer is saved, and then used for what it was asked for.                  *)
Discovered(c) ==
  /\ pc[c] = "discover"
  /\ SaveManifest
  /\ LET r == [call[c] EXCEPT !.man = installed] IN
       \/ goal[c] \in {"gate", "prepare"} /\ Resume(c, goal[c], r)
       \/ goal[c] = "done" /\ Learn(c, r) /\ Go(c, "stopped") /\ UNCHANGED actions
       \/ /\ goal[c] = "boot" /\ Learn(c, [r EXCEPT !.known = installed]) /\ Go(c, "form")
          /\ UNCHANGED actions
       \/ /\ goal[c] = "recheck" /\ Learn(c, [r EXCEPT !.preview = HandsOn(r, installed)])
          /\ Go(c, IF installed.kind = "absent" THEN "stopped" ELSE "ready")
          /\ UNCHANGED actions
  /\ UNCHANGED <<environment, contexts, plans, approvals, runs, goal, snapshots>>

(* The preview prepareAction has asked for itself.                                *)
Previewed(c) ==
  /\ pc[c] = "preview" /\ goal[c] = "prepare"
  /\ Go(c, "validate")
  /\ UNCHANGED <<environment, stored, actions, contexts, plans, approvals, runs, goal, call, snapshots>>

(* The preview of the entry point, which some of them give to prepareAction.  In  *)
(* the TUI a preview that needed no approval after all is kept for the next       *)
(* submission, and prepareAction gets the older value.                            *)
AfterPreview(op) ==
  CASE op = "preview" -> "stopped" [] op = "approved" -> "discover" [] OTHER -> "ready"
Keeps(r) == r.op = "approved" \/ r.ok

EntryPreviewed(c) ==
  /\ pc[c] = "preview" /\ goal[c] = "gate"
  /\ Go(c, AfterPreview(call[c].op))
  /\ Aim(c, IF call[c].op = "approved" THEN "recheck" ELSE "gate")
  /\ Learn(c, [call[c] EXCEPT !.preview = Keeps(call[c])])
  /\ UNCHANGED <<environment, stored, actions, contexts, plans, approvals, runs, snapshots>>

Validated(c) ==
  /\ pc[c] = "validate" /\ Go(c, "plan")
  /\ UNCHANGED <<environment, stored, actions, contexts, plans, approvals, runs, goal, call, snapshots>>

Planned(c) ==
  /\ pc[c] = "plan" /\ Go(c, "snapshot")
  /\ read' = [read EXCEPT ![c] = 0]
  /\ UNCHANGED <<environment, stored, actions, contexts, plans, approvals, runs, goal, call, snap, now, minted, entered>>

-------------------------------------------------------------------------------
(* buildContextSnapshot, the rows of the bundle and the token.                   *)

ReadPart(c) ==
  /\ read[c] < Len(ReadOrder) /\ read' = [read EXCEPT ![c] = @ + 1]
  /\ LET p == ReadOrder[read[c] + 1] IN
       \/ pc[c] = "snapshot" /\ snap' = [snap EXCEPT ![c][p] = world[p]] /\ UNCHANGED now
       \/ pc[c] = "verify" /\ now' = [now EXCEPT ![c][p] = world[p]] /\ UNCHANGED snap
  /\ UNCHANGED <<environment, stored, actions, contexts, plans, approvals, runs, pc, goal, call, minted, entered>>

SaveContext(c) ==
  /\ pc[c] = "snapshot" /\ read[c] = Len(ReadOrder)
  /\ contexts' = contexts \cup {c} /\ Go(c, "context")
  /\ UNCHANGED <<environment, stored, actions, plans, approvals, runs, goal, call, snapshots>>

GoesOn(r) == r.op \in {"tui", "approved"} \/ (r.op = "run" /\ r.approve)

(* The token binds the snapshot of the plan; minted is the world at that moment.   *)
BuildApprovalToken(c) == minted' = [minted EXCEPT ![c] = world]

SavePlan(c) ==
  /\ pc[c] = "context"
  /\ plans' = plans \cup {c} /\ Go(c, IF GoesOn(call[c]) THEN "prepared" ELSE "stopped")
  /\ BuildApprovalToken(c)
  /\ UNCHANGED <<environment, stored, actions, contexts, approvals, runs, goal, call, read, snap, now, entered>>

-------------------------------------------------------------------------------
(* executePreparedWithControl up to the start of the agent.                      *)

Execute(c) ==
  /\ pc[c] = "prepared" /\ Go(c, "verify")
  /\ read' = [read EXCEPT ![c] = 0] /\ entered' = [entered EXCEPT ![c] = world]
  /\ UNCHANGED <<environment, stored, actions, contexts, plans, approvals, runs, goal, call, snap, now, minted>>

(* Details of source file and vault, one by one; not those of the repository.      *)
ContextDrift(c) == \E p \in Versioned : now[c][p] # snap[c][p]

(* The hash of the whole snapshot, and its details.  The other comparisons of     *)
(* verifyApprovalStillValid compare the bundle with itself, the manifest in the   *)
(* hash included.                                                                 *)
Valid_VaultOnly(c) == now[c]["vault"] = snap[c]["vault"]
Valid(c) == now[c] = snap[c] /\ ~ContextDrift(c)

Checked(c) == pc[c] = "verify" /\ read[c] = Len(ReadOrder)

(* approval_id is the primary key: a second execution of a bundle ends there.     *)
KeyFree_Upsert(c) == TRUE
KeyFree(c) == c \notin approvals

Refuse(c) ==
  /\ Checked(c) /\ ~(Valid(c) /\ KeyFree(c)) /\ Go(c, "stopped")
  /\ UNCHANGED <<environment, stored, actions, contexts, plans, approvals, runs, goal, call, snapshots>>

SaveApproval(c) ==
  /\ Checked(c) /\ Valid(c) /\ KeyFree(c)
  /\ approvals' = approvals \cup {c} /\ Go(c, "approval")
  /\ UNCHANGED <<environment, stored, actions, contexts, plans, runs, goal, call, snapshots>>

(* When the run fails the TUI returns to the bundle, which the user can execute   *)
(* again.                                                                         *)
CreateRun(c) ==
  /\ pc[c] = "approval"
  /\ runs' = [runs EXCEPT ![c] = @ + 1]
  /\ Go(c, IF call[c].op = "tui" THEN "prepared" ELSE "stopped")
  /\ UNCHANGED <<environment, stored, actions, contexts, plans, approvals, goal, call, snapshots>>

-------------------------------------------------------------------------------
(* A request the agent refuses or dies on, and the end of the process, lose the   *)
(* call and leave the tables.                                                     *)
Fail(c) ==
  /\ pc[c] \notin {"idle", "stopped"} /\ Go(c, "stopped")
  /\ UNCHANGED <<environment, stored, actions, contexts, plans, approvals, runs, goal, call, snapshots>>

Change(p) ==
  /\ changes < MaxChanges /\ changes' = changes + 1
  /\ world' = [world EXCEPT ![p] = IF p \in Versioned THEN @ + 1 ELSE 1 - @]
  /\ UNCHANGED <<installed, upgrades, stored, actions, contexts, plans, approvals, runs, pc, goal, call, snapshots>>

Upgrade(m) ==
  /\ upgrades < MaxUpgrades /\ upgrades' = upgrades + 1
  /\ m # installed /\ installed' = m
  /\ UNCHANGED <<world, changes, stored, actions, contexts, plans, approvals, runs, pc, goal, call, snapshots>>

Step(c) ==
  \/ \E op \in Ops : BeginDiscover(c, op)
  \/ \E op \in Ops, ok, approve \in BOOLEAN : Begin(c, op, ok, approve)
  \/ Submit(c) \/ ApprovePreview(c) \/ CallPrepare(c)
  \/ Discovered(c) \/ Previewed(c) \/ EntryPreviewed(c) \/ Validated(c) \/ Planned(c)
  \/ ReadPart(c) \/ SaveContext(c) \/ SavePlan(c)
  \/ Execute(c) \/ Refuse(c) \/ SaveApproval(c) \/ CreateRun(c)
  \/ Fail(c)

Next ==
  \/ \E c \in Call : Step(c)
  \/ \E p \in Part : Change(p)
  \/ \E m \in Manifests : Upgrade(m)

Spec == Init /\ [][Next]_vars

-------------------------------------------------------------------------------
(* Correctness.                                                                  *)

(* Every variable holds a value of its type.                                      *)
TypeOK ==
  /\ world \in Reading /\ changes \in Nat /\ upgrades \in Nat
  /\ installed \in Manifest /\ stored \in Manifest \cup {NoManifest}
  /\ actions \subseteq Call /\ contexts \subseteq Call /\ plans \subseteq Call /\ approvals \subseteq Call
  /\ runs \in [Call -> Nat]
  /\ pc \in [Call -> Labels] /\ goal \in [Call -> Goals] /\ call \in [Call -> CallState]
  /\ read \in [Call -> 0..Len(ReadOrder)]
  /\ snap \in [Call -> Reading] /\ now \in [Call -> Reading]
  /\ minted \in [Call -> Reading] /\ entered \in [Call -> Reading]

(* A run starts in the context that was approved: although the parts of a          *)
(* snapshot are read one after the other while the world changes, the snapshot in  *)
(* the token was the state of source file and vault when the token was made, and   *)
(* still was when executePreparedWithControl was called.  (The repository of the   *)
(* agent can leave its state and come back between the readings.)                  *)
ApprovedContext(c) == \A p \in Versioned : snap[c][p] = minted[c][p] /\ minted[c][p] = entered[c][p]
RunsInApprovedContext == [][\A c \in Call : runs'[c] # runs[c] => ApprovedContext(c)]_vars

(* An approval is spent by one run, however often its holder executes the bundle   *)
(* and wherever a process ends.                                                    *)
OneRunPerApproval == \A c \in Call : runs[c] <= 1

(* What trace and history join on is there: a run has its approval, an approval    *)
(* its plan, a plan its context and a context its action, even if a process ended  *)
(* between two inserts.                                                            *)
RunHasTrail ==
  /\ \A c \in Call : runs[c] > 0 => c \in approvals
  /\ approvals \subseteq plans /\ plans \subseteq contexts /\ contexts \subseteq actions

(* As long as the manifest of the agent stays as it is, no entry point brings a     *)
(* guarded probe command to agent.validate, agent.plan or a bundle without the      *)
(* preview approval, whichever manifest row it has read when.                       *)
Probe(r) == r.man.guarded /\ r.man.kind = "probe_readonly"
ProbePlanningIsApproved ==
  upgrades = 0 =>
    \A c \in Call : pc[c] \in {"validate", "plan", "snapshot", "context", "prepared"} /\ Probe(call[c])
                       => call[c].ok
=============================================================================
