--------------------------- MODULE TemplateUpdater ---------------------------
(***************************************************************************)
(* The template updater: it stages what it is going to write, copies what  *)
(* it is going to overwrite, and then removes and replaces paths of the    *)
(* project one after the other.  An attempt may fail, be interrupted or be *)
(* killed anywhere, also in the middle of a path; the user may put copies  *)
(* back and try again.                                                     *)
(*                                                                         *)
(* A path of each kind stands for all of its kind: "legacy" the removed    *)
(* paths, "tree" a replaced directory, "thresholds" the file that is       *)
(* replaced and put back, "contract" one of CLAUDE.md and AGENTS.md,       *)
(* "codex" a file that is replaced (those of .codex, settings.json, the    *)
(* task contract), "updater" update.py itself.  Paths no step names are    *)
(* left out.                                                               *)
(***************************************************************************)
EXTENDS Integers, Sequences

CONSTANTS MaxFaults   \* bound: attempts that do not finish

ASSUME UpdaterAssumption == MaxFaults \in Nat

VARIABLES
  project,     \* what is at each path
  template,    \* external: the optional paths the template has
  run,         \* the attempt under way
  recoveries,  \* recovery copies left behind by earlier attempts
  faults,      \* attempts that did not finish
  mine,        \* history: paths at which the user has had a file of their own
  updated      \* history: an attempt has finished

vars == <<project, template, run, recoveries, faults, mine, updated>>

Paths == {"legacy", "tree", "thresholds", "design", "contract", "codex", "updater"}
Optional == {"tree", "thresholds", "design", "codex"}

\* "partial": a tree half removed or half copied, a file half written.
Content == {"absent", "local", "template", "partial"}

\* A contract has the template's or the local head, and the local sections; "cut":
\* the end of those is missing; "broken": so are markers.
Contract == {"local", "composed", "cut", "broken"}
Contents(x) == IF x = "contract" THEN Contract ELSE Content

Copies == [Paths -> Content \cup Contract \cup {"uncopied"}]
NoCopies == [x \in Paths |-> "uncopied"]

\* staged: what will be written to the contract and the thresholds, "absent" for
\* no thresholds; design: a first DESIGN.md is staged; todo: the steps left.
Idle ==
  [pc |-> "idle", contract |-> "local", thresholds |-> "absent", design |-> FALSE,
   copies |-> NoCopies, todo |-> <<>>]

Ops == {"remove", "copy", "replace", "create", "compose", "restore"}

TypeOK ==
  /\ \A x \in Paths : project[x] \in Contents(x)
  /\ template \subseteq Optional /\ mine \subseteq Paths /\ updated \in BOOLEAN
  /\ faults \in 0..MaxFaults /\ recoveries \subseteq Copies
  /\ run.pc \in {"idle", "staged", "apply", "clean"} /\ run.copies \in Copies
  /\ run.contract \in Contract \ {"broken"} /\ run.thresholds \in Content
  /\ run.design \in BOOLEAN /\ run.todo \in Seq(Ops \X Paths)

Init ==
  /\ \E there \in SUBSET Optional :
       /\ mine = there \cup {"legacy", "contract", "updater"}
       /\ project = [x \in Paths |-> IF x \in mine THEN "local" ELSE "absent"]
  /\ template \in SUBSET Optional
  /\ run = Idle /\ recoveries = {} /\ faults = 0 /\ updated = FALSE

----------------------------------------------------------------------------
(* Preparation *)

\* _compose_contract
Composed(c) == IF c = "cut" THEN "cut" ELSE "composed"

\* A contract without its markers is refused, and a damaged updater does not start.
CanStart == project["updater"] # "partial" /\ project["contract"] # "broken"

Prepare ==
  /\ run.pc = "idle" /\ CanStart
  /\ run' = [Idle EXCEPT
       !.pc = "staged", !.contract = Composed(project["contract"]),
       !.thresholds = project["thresholds"],
       !.design = "design" \in template /\ project["design"] = "absent"]
  /\ UNCHANGED <<project, template, recoveries, faults, mine, updated>>

Refuse == run.pc = "idle" /\ ~CanStart /\ UNCHANGED vars

\* Mutant of Recovered: the contracts are staged, not copied.
RecoveredWithoutContracts ==
  {"legacy", "tree", "thresholds", "updater"}
    \cup (IF run.design THEN {"design"} ELSE {}) \cup (template \cap {"codex"})

\* RECOVERY_PATHS, and those the plan adds
Recovered ==
  {"legacy", "tree", "thresholds", "contract", "updater"}
    \cup (IF run.design THEN {"design"} ELSE {}) \cup (template \cap {"codex"})

\* Mutant of Plan: staged thresholds are put back before the template's files.
PlanRestoreFirst ==
  LET Has(x, steps) == IF x \in template THEN steps ELSE <<>>
  IN  (IF run.thresholds # "absent" THEN <<<<"restore", "thresholds">>>> ELSE <<>>)
      \o <<<<"remove", "legacy">>>>
      \o Has("tree", <<<<"remove", "tree">>, <<"copy", "tree">>>>)
      \o Has("thresholds", <<<<"replace", "thresholds">>>>)
      \o (IF run.design THEN <<<<"create", "design">>>> ELSE <<>>)
      \o <<<<"compose", "contract">>>>
      \o Has("codex", <<<<"replace", "codex">>>>)
      \o <<<<"replace", "updater">>>>

\* The steps of _apply_update, in their order.
Plan ==
  LET Has(x, steps) == IF x \in template THEN steps ELSE <<>>
  IN  <<<<"remove", "legacy">>>>
      \o Has("tree", <<<<"remove", "tree">>, <<"copy", "tree">>>>)
      \o Has("thresholds", <<<<"replace", "thresholds">>>>)
      \o (IF run.design THEN <<<<"create", "design">>>> ELSE <<>>)
      \o <<<<"compose", "contract">>>>
      \o Has("codex", <<<<"replace", "codex">>>>)
      \o (IF run.thresholds # "absent" THEN <<<<"restore", "thresholds">>>> ELSE <<>>)
      \o <<<<"replace", "updater">>>>

\* _create_recovery
CreateRecovery ==
  /\ run.pc = "staged"
  /\ run' = [run EXCEPT
       !.pc = "apply", !.todo = Plan,
       !.copies = [x \in Paths |-> IF x \in Recovered THEN project[x] ELSE "uncopied"]]
  /\ UNCHANGED <<project, template, recoveries, faults, mine, updated>>

\* Nothing has been replaced yet: the work directory is removed, or means nothing.
PrepareFails ==
  /\ run.pc = "staged" /\ faults < MaxFaults
  /\ run' = Idle /\ faults' = faults + 1
  /\ UNCHANGED <<project, template, recoveries, mine, updated>>

----------------------------------------------------------------------------
(* Replacement *)

Op == Head(run.todo)[1]
Path == Head(run.todo)[2]

\* Mutant of Created: an existing DESIGN.md is overwritten.
CreatedAnyway == "template"

\* _copy_file_if_absent
Created == IF project["design"] = "absent" THEN "template" ELSE project["design"]

Result ==
  CASE Op = "remove" -> "absent"
    [] Op = "create" -> Created
    [] Op = "compose" -> run.contract
    [] Op = "restore" -> run.thresholds
    [] OTHER -> "template"

Apply ==
  /\ run.pc = "apply" /\ run.todo # <<>>
  /\ project' = [project EXCEPT ![Path] = Result]
  /\ run' = [run EXCEPT !.todo = Tail(@)]
  /\ UNCHANGED <<template, recoveries, faults, mine, updated>>

Damage(x) == IF x = "contract" THEN {"cut", "broken"} ELSE {"partial"}

\* A step that does not finish leaves the path as it was, damaged, or, when only
\* its mode or times could not be set, as it should be.
Interrupted ==
  IF \/ Op = "remove" /\ project[Path] = "absent"
     \/ Op = "create" /\ project[Path] # "absent" THEN {project[Path]}
  ELSE {project[Path], Result} \cup Damage(Path)

\* Mutant of Retain: the work directory is always removed.
RetainNothing == {}

\* main: after the first replacement the recovery copies stay.
Retain == {run.copies}

\* The step raises, or Ctrl-C, or the process is killed.
ApplyFails ==
  /\ run.pc = "apply" /\ run.todo # <<>> /\ faults < MaxFaults
  /\ \E c \in Interrupted : project' = [project EXCEPT ![Path] = c]
  /\ recoveries' = recoveries \cup Retain /\ run' = Idle /\ faults' = faults + 1
  /\ UNCHANGED <<template, mine, updated>>

Succeed ==
  /\ run.pc = "apply" /\ run.todo = <<>>
  /\ run' = [run EXCEPT !.pc = "clean"] /\ updated' = TRUE
  /\ UNCHANGED <<project, template, recoveries, faults, mine>>

\* The work directory goes, and its recovery copies with it.
CleanUp ==
  /\ run.pc = "clean"
  /\ run' = Idle
  /\ UNCHANGED <<project, template, recoveries, faults, mine, updated>>

CleanUpFails ==
  /\ run.pc = "clean" /\ faults < MaxFaults
  /\ recoveries' = recoveries \cup Retain /\ run' = Idle /\ faults' = faults + 1
  /\ UNCHANGED <<project, template, mine, updated>>

----------------------------------------------------------------------------
(* The user *)

\* A DESIGN.md is written, also while an attempt is under way.
WriteDesign ==
  /\ project["design"] = "absent"
  /\ project' = [project EXCEPT !["design"] = "local"] /\ mine' = mine \cup {"design"}
  /\ UNCHANGED <<template, run, recoveries, faults, updated>>

Damaged == {"partial", "cut", "broken"}

\* A path that was found damaged is copied back "after inspection".
Restore ==
  /\ run.pc = "idle"
  /\ \E copies \in recoveries, x \in Paths :
       /\ project[x] \in Damaged /\ copies[x] \notin Damaged \cup {"uncopied"}
       /\ project' = [project EXCEPT ![x] = copies[x]]
  /\ UNCHANGED <<template, run, recoveries, faults, mine, updated>>

Attempt ==
  \/ Prepare \/ CreateRecovery \/ Apply \/ Succeed \/ CleanUp

Next ==
  \/ Attempt \/ Refuse \/ PrepareFails \/ ApplyFails \/ CleanUpFails \/ WriteDesign \/ Restore

\* A user who restores what is damaged and tries again.
Spec == Init /\ [][Next]_vars /\ WF_vars(Attempt) /\ WF_vars(Restore)

----------------------------------------------------------------------------
(* Properties *)

HasLocal(c) == c \in {"local", "composed"}

\* What has no other source: the local sections of the contracts, the thresholds
\* and DESIGN.md.
Preserved == {"contract", "thresholds", "design"}

\* Until an update has gone through, everything the user had at a path is there or
\* in recovery copies; what an update preserves is so for ever, through attempts
\* that failed, damaged it, and were repeated on the damaged project.
NothingLost ==
  \A x \in mine : x \in Preserved \/ ~updated =>
    \E c \in recoveries \cup {run.copies, project} : HasLocal(c[x])

\* A DESIGN.md of the user's is never replaced, not even one written after the
\* scaffold was staged for want of one.
DesignPreserved == [][project["design"] = "local" => project'["design"] = "local"]_vars

\* What an attempt that went through makes of what it found.
Target(x, before) ==
  CASE x = "legacy" -> {"absent"}
    [] x = "contract" -> {Composed(before)}
    [] x = "design" -> IF run.design THEN {"template", "local"} ELSE {project[x]}
    [] x = "thresholds" ->
         {IF before = "absent" /\ x \in template THEN "template" ELSE before}
    [] x \in {"tree", "codex"} \ template -> {project[x]}
    [] OTHER -> {"template"}

\* An attempt that went through leaves no mixture: every path is the template's, or
\* what it was before where that is preserved, whatever earlier attempts left.
SuccessIsComplete ==
  run.pc = "clean" => \A x \in Paths : project[x] \in Target(x, run.copies[x])

\* No state that failed attempts leave behind keeps the updater from going through
\* once the user has put damaged copies back and tries again.
RetryCompletes == faults = MaxFaults ~> run.pc = "clean"
=============================================================================
