----------------------- MODULE TemplateUpdaterProofs -----------------------
(***************************************************************************)
(* For any number of attempts that stop anywhere: nothing the user had is  *)
(* lost, a DESIGN.md of the user's is never replaced, and an attempt that  *)
(* goes through leaves no mixture.                                         *)
(***************************************************************************)
EXTENDS TemplateUpdater, TLAPS

-----------------------------------------------------------------------------
(* The steps of an attempt *)

\* The steps a plan may have, given what is staged.
Steps ==
  {<<"remove", "legacy">>, <<"compose", "contract">>, <<"replace", "updater">>}
    \cup (IF "tree" \in template THEN {<<"remove", "tree">>, <<"copy", "tree">>} ELSE {})
    \cup (IF "thresholds" \in template THEN {<<"replace", "thresholds">>} ELSE {})
    \cup (IF run.design THEN {<<"create", "design">>} ELSE {})
    \cup (IF "codex" \in template THEN {<<"replace", "codex">>} ELSE {})
    \cup (IF run.thresholds # "absent" THEN {<<"restore", "thresholds">>} ELSE {})

\* A step after which its path is as an attempt should leave it.
Settling(step) ==
  /\ step # <<"remove", "tree">>
  /\ step = <<"replace", "thresholds">> => run.thresholds = "absent"

Touches(s, x) == \E i \in 1..Len(s) : s[i][2] = x

\* Every step settles its path, or another one on that path follows: in the
\* sequence, or later, if the path is one of those that are still to come.
Settles(s, later) ==
  \A i \in 1..Len(s) :
    \/ Settling(s[i])
    \/ s[i][2] \in later
    \/ \E j \in (i + 1)..Len(s) : s[j][2] = s[i][2]

-----------------------------------------------------------------------------
(* The invariant *)

Run ==
  [pc : {"idle", "staged", "apply", "clean"}, contract : Contract \ {"broken"},
   thresholds : Content, design : BOOLEAN, copies : Copies, todo : Seq(Ops \X Paths)]

\* A copy is of the kind of its path, so that it can be put back.
Sound(copies) == \A x \in Paths : copies[x] \in Contents(x) \cup {"uncopied"}

Types ==
  /\ project \in [Paths -> Content \cup Contract] /\ run \in Run
  /\ Sound(run.copies) /\ \A copies \in recoveries : Sound(copies)

\* What is staged is composed from what is at the paths, and before the recovery
\* copies are made nothing of it changes.
StagedInv ==
  /\ run.pc \in {"idle", "staged"} => run.copies = NoCopies
  /\ run.pc = "staged" => /\ run.contract = Composed(project["contract"])
                          /\ run.thresholds = project["thresholds"]
  /\ run.pc # "idle" /\ run.design => project["design"] \in {"absent", "template", "local"}

\* What has no step left is as it should be, and the steps left make it so.
ApplyInv ==
  run.pc \in {"apply", "clean"} =>
    /\ run.contract = Composed(run.copies["contract"])
    /\ run.thresholds = run.copies["thresholds"]
    /\ \A i \in 1..Len(run.todo) : run.todo[i] \in Steps
    /\ Settles(run.todo, {})
    /\ \A x \in Paths : ~Touches(run.todo, x) => project[x] \in Target(x, run.copies[x])
    /\ run.pc = "clean" => run.todo = <<>>

\* What is at stake is in a recovery copy, or at a path that is not replaced.
\* Between attempts, and as long as nothing has been replaced, all paths are such.
Spared(x) == run.pc \in {"idle", "staged"} \/ x \notin Recovered
CopiesInv ==
  /\ "design" \in mine => project["design"] = "local"
  /\ \A x \in mine \ {"design"} : x \in Preserved \/ ~updated =>
       \/ \E copies \in recoveries \cup {run.copies} : HasLocal(copies[x])
       \/ Spared(x) /\ HasLocal(project[x])
  /\ run.pc = "clean" => updated

UpdaterInv == TypeOK /\ Types /\ StagedInv /\ ApplyInv /\ CopiesInv

-----------------------------------------------------------------------------
(* The plan *)

Planned(s) == s \in Seq(Ops \X Paths) /\ \A i \in 1..Len(s) : s[i] \in Steps

LEMMA StepsTyped == Steps \subseteq Ops \X Paths
BY DEF Steps, Ops, Paths

LEMMA NoSteps == Planned(<<>>) /\ \A later : Settles(<<>>, later)
BY DEF Planned, Settles

LEMMA OneStep ==
  ASSUME NEW step \in Steps
  PROVE  /\ Planned(<<step>>) /\ Touches(<<step>>, step[2])
         /\ \A later : Settling(step) \/ step[2] \in later => Settles(<<step>>, later)
<1>1. <<step>> \in Seq(Ops \X Paths) /\ Len(<<step>>) = 1 /\ <<step>>[1] = step
  BY StepsTyped
<1>2. QED
  BY <1>1 DEF Planned, Settles, Touches

\* What one part leaves unsettled, the next may settle.
LEMMA Joined ==
  ASSUME NEW s, NEW t, Planned(s), Planned(t), NEW before, NEW later,
         Settles(s, before), Settles(t, later),
         \A x \in before : x \in later \/ Touches(t, x)
  PROVE  /\ Planned(s \o t) /\ Settles(s \o t, later)
         /\ \A x : Touches(s, x) \/ Touches(t, x) => Touches(s \o t, x)
<1>1. /\ s \in Seq(Ops \X Paths) /\ t \in Seq(Ops \X Paths)
      /\ s \o t \in Seq(Ops \X Paths) /\ Len(s \o t) = Len(s) + Len(t)
      /\ Len(s) \in Nat /\ Len(t) \in Nat
  BY DEF Planned
<1>2. /\ \A i \in 1..Len(s) : (s \o t)[i] = s[i]
      /\ \A i \in 1..Len(t) : (s \o t)[Len(s) + i] = t[i]
  BY <1>1
<1>3. DEFINE j == s \o t
<1>4. \A i \in 1..Len(j) : i \in 1..Len(s) \/ i - Len(s) \in 1..Len(t)
  BY <1>1
<1>5. \A i \in 1..Len(j) : i \in 1..Len(s) \/ (i - Len(s) \in 1..Len(t) /\ j[i] = t[i - Len(s)])
  <2> SUFFICES ASSUME NEW i \in 1..Len(j), i \notin 1..Len(s)
               PROVE  i - Len(s) \in 1..Len(t) /\ j[i] = t[i - Len(s)]
    OBVIOUS
  <2>1. i - Len(s) \in 1..Len(t) /\ Len(s) + (i - Len(s)) = i
    BY <1>1, <1>4
  <2>2. QED
    BY <1>2, <2>1
<1>6. \A i \in 1..Len(t) : Len(s) + i \in 1..Len(j) /\ j[Len(s) + i] = t[i]
  BY <1>1, <1>2
<1>7. \A i \in 1..Len(s) : i \in 1..Len(j) /\ j[i] = s[i]
  BY <1>1, <1>2
<1>8. Planned(j)
  <2>1. \A i \in 1..Len(j) : j[i] \in Steps
    BY <1>5, <1>7 DEF Planned
  <2>2. QED
    BY <1>1, <2>1 DEF Planned
<1>9. \A x : Touches(s, x) \/ Touches(t, x) => Touches(j, x)
  <2> HIDE DEF j
  <2>1. QED
    BY <1>6, <1>7 DEF Touches
<1>10. Settles(j, later)
  <2> SUFFICES ASSUME NEW i \in 1..Len(j)
               PROVE  \/ Settling(j[i]) \/ j[i][2] \in later
                      \/ \E k \in (i + 1)..Len(j) : j[k][2] = j[i][2]
    BY DEF Settles
  <2>1. CASE i \in 1..Len(s)
    <3>1. \/ Settling(s[i]) \/ s[i][2] \in before
          \/ \E k \in (i + 1)..Len(s) : s[k][2] = s[i][2]
      BY <2>1 DEF Settles
    <3>2. j[i] = s[i]
      BY <1>7, <2>1
    <3>3. CASE s[i][2] \in before
      <4>1. CASE Touches(t, s[i][2])
        <5>1. PICK k \in 1..Len(t) : t[k][2] = s[i][2]
          BY <4>1 DEF Touches
        <5>2. Len(s) + k \in (i + 1)..Len(j) /\ j[Len(s) + k] = t[k]
          BY <1>1, <1>6, <2>1
        <5>3. QED
          BY <3>2, <5>1, <5>2
      <4>2. QED
        BY <3>2, <3>3, <4>1
    <3>4. CASE \E k \in (i + 1)..Len(s) : s[k][2] = s[i][2]
      <4>1. PICK k \in (i + 1)..Len(s) : s[k][2] = s[i][2]
        BY <3>4
      <4>2. k \in 1..Len(s) /\ k \in (i + 1)..Len(j)
        BY <1>1, <2>1, <4>1
      <4>3. j[k] = s[k]
        BY <1>7, <4>2
      <4>4. QED
        BY <3>2, <4>1, <4>2, <4>3
    <3>5. QED
      BY <3>1, <3>2, <3>3, <3>4
  <2>2. CASE i \notin 1..Len(s)
    <3>1. DEFINE n == i - Len(s)
    <3>2. n \in 1..Len(t) /\ j[i] = t[n] /\ n \in Int /\ i = Len(s) + n
      BY <1>1, <1>5, <2>2
    <3>3. \/ Settling(t[n]) \/ t[n][2] \in later
          \/ \E k \in (n + 1)..Len(t) : t[k][2] = t[n][2]
      BY <3>2 DEF Settles
    <3>4. CASE \E k \in (n + 1)..Len(t) : t[k][2] = t[n][2]
      <4>1. PICK k \in (n + 1)..Len(t) : t[k][2] = t[n][2]
        BY <3>4
      <4>2. k \in 1..Len(t) /\ Len(s) + k \in (i + 1)..Len(j)
        BY <1>1, <3>2, <4>1
      <4>3. j[Len(s) + k] = t[k]
        BY <1>6, <4>2
      <4>4. QED
        BY <3>2, <4>1, <4>2, <4>3
    <3>5. QED
      BY <3>2, <3>3, <3>4
  <2>3. QED
    BY <2>1, <2>2
<1>11. QED
  BY <1>8, <1>9, <1>10

\* _apply_update in its order: only what is due is touched, all that is due is,
\* a directory is removed before it is copied, and staged thresholds are put back
\* after the template's.
LEMMA PlanSettles ==
  /\ Planned(Plan) /\ Settles(Plan, {})
  /\ \A x \in {"legacy", "contract", "updater"} : Touches(Plan, x)
  /\ \A x \in template \cap {"tree", "thresholds", "codex"} : Touches(Plan, x)
  /\ run.design => Touches(Plan, "design")
  /\ run.thresholds # "absent" => Touches(Plan, "thresholds")
<1>1. DEFINE a1 == <<<<"remove", "legacy">>>>
             a2 == IF "tree" \in template THEN <<<<"remove", "tree">>, <<"copy", "tree">>>> ELSE <<>>
             a3 == IF "thresholds" \in template THEN <<<<"replace", "thresholds">>>> ELSE <<>>
             a4 == IF run.design THEN <<<<"create", "design">>>> ELSE <<>>
             a5 == <<<<"compose", "contract">>>>
             a6 == IF "codex" \in template THEN <<<<"replace", "codex">>>> ELSE <<>>
             a7 == IF run.thresholds # "absent" THEN <<<<"restore", "thresholds">>>> ELSE <<>>
             a8 == <<<<"replace", "updater">>>>
             later == IF run.thresholds # "absent" THEN {"thresholds"} ELSE {}
             b2 == a1 \o a2
             b3 == b2 \o a3
             b4 == b3 \o a4
             b5 == b4 \o a5
             b6 == b5 \o a6
             b7 == b6 \o a7
             b8 == b7 \o a8
<1>2. Plan = b8
  BY DEF Plan
<1>3. Planned(a1) /\ (\A l : Settles(a1, l)) /\ Touches(a1, "legacy")
  <2>1. <<"remove", "legacy">> \in Steps /\ Settling(<<"remove", "legacy">>)
    BY DEF Steps, Settling
  <2>2. QED
    BY <2>1, OneStep
<1>4. Planned(a2) /\ (\A l : Settles(a2, l)) /\ ("tree" \in template => Touches(a2, "tree"))
  <2>1. CASE "tree" \in template
    <3>1. <<"remove", "tree">> \in Steps /\ <<"copy", "tree">> \in Steps
      BY <2>1 DEF Steps
    <3>2. Settling(<<"copy", "tree">>)
      BY DEF Settling
    <3>3. /\ a2 = <<<<"remove", "tree">>, <<"copy", "tree">>>> /\ Len(a2) = 2
          /\ a2[1] = <<"remove", "tree">> /\ a2[2] = <<"copy", "tree">>
          /\ a2 \in Seq(Ops \X Paths)
      BY <2>1, <3>1, StepsTyped
    <3>4. a2[1][2] = "tree" /\ a2[2][2] = "tree"
      BY <3>3
    <3> HIDE DEF a2
    <3>5. QED
      BY <3>1, <3>2, <3>3, <3>4 DEF Planned, Settles, Touches
  <2>2. CASE "tree" \notin template
    BY <2>2, NoSteps
  <2>3. QED
    BY <2>1, <2>2
<1>5. /\ Planned(a3) /\ Settles(a3, later)
      /\ "thresholds" \in template => Touches(a3, "thresholds")
  <2>1. CASE "thresholds" \in template
    <3>1. /\ <<"replace", "thresholds">> \in Steps
          /\ Settling(<<"replace", "thresholds">>) \/ "thresholds" \in later
      BY <2>1 DEF Steps, Settling
    <3>2. QED
      BY <2>1, <3>1, OneStep
  <2>2. CASE "thresholds" \notin template
    BY <2>2, NoSteps
  <2>3. QED
    BY <2>1, <2>2
<1>6. Planned(a4) /\ (\A l : Settles(a4, l)) /\ (run.design => Touches(a4, "design"))
  <2>1. CASE run.design
    <3>1. <<"create", "design">> \in Steps /\ Settling(<<"create", "design">>)
      BY <2>1 DEF Steps, Settling
    <3>2. QED
      BY <2>1, <3>1, OneStep
  <2>2. CASE ~run.design
    BY <2>2, NoSteps
  <2>3. QED
    BY <2>1, <2>2
<1>7. Planned(a5) /\ (\A l : Settles(a5, l)) /\ Touches(a5, "contract")
  <2>1. <<"compose", "contract">> \in Steps /\ Settling(<<"compose", "contract">>)
    BY DEF Steps, Settling
  <2>2. QED
    BY <2>1, OneStep
<1>8. Planned(a6) /\ (\A l : Settles(a6, l)) /\ ("codex" \in template => Touches(a6, "codex"))
  <2>1. CASE "codex" \in template
    <3>1. <<"replace", "codex">> \in Steps /\ Settling(<<"replace", "codex">>)
      BY <2>1 DEF Steps, Settling
    <3>2. QED
      BY <2>1, <3>1, OneStep
  <2>2. CASE "codex" \notin template
    BY <2>2, NoSteps
  <2>3. QED
    BY <2>1, <2>2
<1>9. /\ Planned(a7) /\ Settles(a7, {}) /\ (\A x \in later : Touches(a7, x))
      /\ run.thresholds # "absent" => Touches(a7, "thresholds")
  <2>1. CASE run.thresholds # "absent"
    <3>1. /\ <<"restore", "thresholds">> \in Steps /\ Settling(<<"restore", "thresholds">>)
      BY <2>1 DEF Steps, Settling
    <3>2. QED
      BY <2>1, <3>1, OneStep
  <2>2. CASE run.thresholds = "absent"
    BY <2>2, NoSteps
  <2>3. QED
    BY <2>1, <2>2
<1>10. Planned(a8) /\ (\A l : Settles(a8, l)) /\ Touches(a8, "updater")
  <2>1. <<"replace", "updater">> \in Steps /\ Settling(<<"replace", "updater">>)
    BY DEF Steps, Settling
  <2>2. QED
    BY <2>1, OneStep
<1> HIDE DEF a1, a2, a3, a4, a5, a6, a7, a8, later
<1>11. /\ Planned(b2) /\ Settles(b2, {})
       /\ \A x : Touches(a1, x) \/ Touches(a2, x) => Touches(b2, x)
  BY <1>3, <1>4, Joined
<1> HIDE DEF b2
<1>12. /\ Planned(b3) /\ Settles(b3, later)
       /\ \A x : Touches(b2, x) \/ Touches(a3, x) => Touches(b3, x)
  BY <1>5, <1>11, Joined
<1> HIDE DEF b3
<1>13. /\ Planned(b4) /\ Settles(b4, later)
       /\ \A x : Touches(b3, x) \/ Touches(a4, x) => Touches(b4, x)
  BY <1>6, <1>12, Joined
<1> HIDE DEF b4
<1>14. /\ Planned(b5) /\ Settles(b5, later)
       /\ \A x : Touches(b4, x) \/ Touches(a5, x) => Touches(b5, x)
  BY <1>7, <1>13, Joined
<1> HIDE DEF b5
<1>15. /\ Planned(b6) /\ Settles(b6, later)
       /\ \A x : Touches(b5, x) \/ Touches(a6, x) => Touches(b6, x)
  BY <1>8, <1>14, Joined
<1> HIDE DEF b6
<1>16. /\ Planned(b7) /\ Settles(b7, {})
       /\ \A x : Touches(b6, x) \/ Touches(a7, x) => Touches(b7, x)
  BY <1>9, <1>15, Joined
<1> HIDE DEF b7
<1>17. /\ Planned(b8) /\ Settles(b8, {})
       /\ \A x : Touches(b7, x) \/ Touches(a8, x) => Touches(b8, x)
  BY <1>10, <1>16, Joined
<1> HIDE DEF b8
<1>18. \A x : (\/ Touches(a1, x) \/ Touches(a2, x) \/ Touches(a3, x) \/ Touches(a4, x)
               \/ Touches(a5, x) \/ Touches(a6, x) \/ Touches(a7, x) \/ Touches(a8, x))
              => Touches(Plan, x)
  BY <1>2, <1>11, <1>12, <1>13, <1>14, <1>15, <1>16, <1>17
<1>19. \A x \in {"legacy", "contract", "updater"} : Touches(Plan, x)
  <2>1. Touches(Plan, "legacy") /\ Touches(Plan, "contract") /\ Touches(Plan, "updater")
    BY <1>3, <1>7, <1>10, <1>18, Zenon
  <2>2. QED
    BY <2>1
<1>20. \A x \in template \cap {"tree", "thresholds", "codex"} : Touches(Plan, x)
  <2>1. /\ "tree" \in template => Touches(Plan, "tree")
        /\ "thresholds" \in template => Touches(Plan, "thresholds")
        /\ "codex" \in template => Touches(Plan, "codex")
    BY <1>4, <1>5, <1>8, <1>18, Zenon
  <2>2. QED
    BY <2>1
<1>21. /\ run.design => Touches(Plan, "design")
       /\ run.thresholds # "absent" => Touches(Plan, "thresholds")
  BY <1>6, <1>9, <1>18, Zenon
<1>22. Planned(Plan) /\ Settles(Plan, {})
  BY <1>2, <1>17
<1>23. QED
  BY <1>19, <1>20, <1>21, <1>22

-----------------------------------------------------------------------------
(* Types, and the attempt before it replaces anything *)

LEMMA Kinds ==
  /\ Contents("contract") = Contract
  /\ \A x \in Paths \ {"contract"} : Contents(x) = Content
  /\ \A x \in Paths : Contents(x) \subseteq Content \cup Contract
  /\ "contract" \in Paths /\ "thresholds" \in Paths /\ "design" \in Paths
BY DEF Contents, Paths

LEMMA NothingCopied ==
  /\ NoCopies \in Copies /\ Sound(NoCopies)
  /\ \A x \in Paths : ~HasLocal(NoCopies[x])
BY DEF NoCopies, Copies, Sound, HasLocal

LEMMA IdleRun ==
  /\ Idle \in Run
  /\ Idle.pc = "idle" /\ Idle.copies = NoCopies
<1>1. <<>> \in Seq(Ops \X Paths)
  OBVIOUS
<1>2. QED
  BY <1>1, NothingCopied DEF Idle, Run, Contract, Content

LEMMA RunTyped ==
  ASSUME NEW r \in Run
  PROVE  /\ r.pc \in {"idle", "staged", "apply", "clean"} /\ r.copies \in Copies
         /\ r.contract \in Contract \ {"broken"} /\ r.thresholds \in Content
         /\ r.design \in BOOLEAN /\ r.todo \in Seq(Ops \X Paths)
BY DEF Run

LEMMA FaultCounted ==
  ASSUME TypeOK, faults < MaxFaults, faults' = faults + 1
  PROVE  faults' \in 0..MaxFaults
BY UpdaterAssumption DEF TypeOK

\* An attempt that is over, with all that is at stake safe where it is.
LEMMA Over ==
  ASSUME TypeOK, Types, run' = Idle, UNCHANGED <<template, mine, updated>>,
         faults' \in 0..MaxFaults, recoveries' \subseteq Copies,
         \A copies \in recoveries' : Sound(copies),
         project' \in [Paths -> Content \cup Contract],
         \A x \in Paths : project'[x] \in Contents(x),
         "design" \in mine => project'["design"] = "local",
         \A x \in mine \ {"design"} : x \in Preserved \/ ~updated =>
           \/ \E copies \in recoveries' : HasLocal(copies[x])
           \/ HasLocal(project'[x])
  PROVE  UpdaterInv'
<1>1. run' \in Run /\ run'.pc = "idle" /\ run'.copies = NoCopies
  BY IdleRun
<1>2. Sound(NoCopies)
  BY NothingCopied
<1>3. Types'
  BY <1>1, <1>2 DEF Types
<1>4. StagedInv' /\ ApplyInv'
  BY <1>1 DEF StagedInv, ApplyInv
<1>5. CopiesInv'
  BY <1>1 DEF CopiesInv, Spared
<1>6. TypeOK'
  BY <1>1, RunTyped DEF TypeOK
<1>7. QED
  BY <1>3, <1>4, <1>5, <1>6 DEF UpdaterInv

LEMMA PrepareStep ==
  ASSUME UpdaterInv, Prepare
  PROVE  UpdaterInv'
<1>1. /\ TypeOK /\ Types /\ StagedInv /\ CopiesInv
      /\ run.pc = "idle" /\ CanStart
      /\ UNCHANGED <<project, template, recoveries, faults, mine, updated>>
  BY DEF UpdaterInv, Prepare
<1>2. /\ project["contract"] \in Contract \ {"broken"} /\ project["thresholds"] \in Content
      /\ project["contract"] # "broken"
  BY <1>1, Kinds DEF TypeOK, CanStart
<1>3. Composed(project["contract"]) \in Contract \ {"broken"}
  BY DEF Composed, Contract
<1>4. DEFINE design == "design" \in template /\ project["design"] = "absent"
<1>5. design \in BOOLEAN
  OBVIOUS
<1>6. run' = [pc |-> "staged", contract |-> Composed(project["contract"]),
              thresholds |-> project["thresholds"], design |-> design,
              copies |-> NoCopies, todo |-> <<>>]
  BY Zenon DEF Prepare, Idle
<1>7. run' \in Run
  <2> HIDE DEF design
  <2>1. <<>> \in Seq(Ops \X Paths)
    OBVIOUS
  <2>2. QED
    BY <1>2, <1>3, <1>5, <1>6, <2>1, NothingCopied DEF Run
<1>8. /\ run'.pc = "staged" /\ run'.contract = Composed(project["contract"])
      /\ run'.thresholds = project["thresholds"] /\ run'.copies = NoCopies
      /\ run'.design => project["design"] = "absent"
  BY <1>6
<1>9. Types'
  BY <1>1, <1>7, <1>8, NothingCopied DEF Types
<1>10. StagedInv'
  BY <1>1, <1>8 DEF StagedInv
<1>11. ApplyInv'
  BY <1>8 DEF ApplyInv
<1>12. CopiesInv'
  BY <1>1, <1>8 DEF CopiesInv, Spared, StagedInv
<1>13. TypeOK'
  BY <1>1, <1>7, RunTyped DEF TypeOK
<1>14. QED
  BY <1>9, <1>10, <1>11, <1>12, <1>13 DEF UpdaterInv

LEMMA CreateRecoveryStep ==
  ASSUME UpdaterInv, CreateRecovery
  PROVE  UpdaterInv'
<1>1. /\ TypeOK /\ Types /\ StagedInv /\ CopiesInv
      /\ run.pc = "staged" /\ run \in Run
      /\ UNCHANGED <<project, template, recoveries, faults, mine, updated>>
  BY DEF UpdaterInv, CreateRecovery, Types
<1>2. DEFINE copies == [x \in Paths |-> IF x \in Recovered THEN project[x] ELSE "uncopied"]
<1>3. run' = [pc |-> "apply", contract |-> run.contract, thresholds |-> run.thresholds,
              design |-> run.design, copies |-> copies, todo |-> Plan]
  <2>1. run' = [run EXCEPT !.pc = "apply", !.todo = Plan, !.copies = copies]
    BY DEF CreateRecovery
  <2> HIDE DEF copies
  <2>2. QED
    BY <1>1, <2>1, Zenon DEF Run
<1>4. copies \in Copies /\ Sound(copies)
  <2>1. \A x \in Paths : project[x] \in Contents(x) /\ project[x] \in Content \cup Contract
    BY <1>1, Kinds DEF TypeOK
  <2>2. QED
    BY <2>1 DEF Copies, Sound
<1>5. Plan \in Seq(Ops \X Paths)
  BY PlanSettles DEF Planned
<1>6. \A x \in Paths : copies[x] = IF x \in Recovered THEN project[x] ELSE "uncopied"
  OBVIOUS
<1> HIDE DEF copies
<1>7. run' \in Run
  BY <1>1, <1>3, <1>4, <1>5, RunTyped DEF Run
<1>8. /\ run'.pc = "apply" /\ run'.contract = run.contract
      /\ run'.thresholds = run.thresholds /\ run'.design = run.design
      /\ run'.copies = copies /\ run'.todo = Plan
  BY <1>3
<1>9. Types'
  BY <1>1, <1>4, <1>7, <1>8 DEF Types
<1>10. StagedInv'
  BY <1>1, <1>8 DEF StagedInv
<1>11. copies["contract"] = project["contract"] /\ copies["thresholds"] = project["thresholds"]
  BY <1>6, Kinds DEF Recovered
<1>12. ApplyInv'
  <2>1. run'.contract = Composed(run'.copies["contract"])
        /\ run'.thresholds = run'.copies["thresholds"]
    BY <1>1, <1>8, <1>11 DEF StagedInv
  <2>2. \A i \in 1..Len(run'.todo) : run'.todo[i] \in Steps'
    BY <1>1, <1>8, PlanSettles DEF Planned, Steps
  <2>3. Settles(run.todo, {})'
    <3>1. \A step : Settling(step)' <=> Settling(step)
      BY <1>8 DEF Settling
    <3>2. Settles(Plan, {})
      BY PlanSettles
    <3>3. QED
      BY <1>8, <3>1, <3>2 DEF Settles
  <2>4. ASSUME NEW x \in Paths, ~Touches(run.todo, x)'
        PROVE  project'[x] \in Target(x, run.copies[x])'
    <3>1. ~Touches(Plan, x)
      BY <1>8, <2>4 DEF Touches
    <3>2. /\ x \notin {"legacy", "contract", "updater"}
          /\ x \in {"tree", "thresholds", "codex"} => x \notin template
          /\ x = "design" => ~run.design
          /\ x = "thresholds" => run.thresholds = "absent"
      BY <3>1, PlanSettles
    <3>3. CASE x = "design"
      BY <1>1, <1>8, <3>2, <3>3 DEF Target
    <3>4. CASE x = "thresholds"
      BY <1>1, <1>8, <1>11, <3>2, <3>4 DEF Target, StagedInv
    <3>5. CASE x \in {"tree", "codex"}
      BY <1>1, <1>8, <3>2, <3>5 DEF Target
    <3>6. QED
      BY <3>2, <3>3, <3>4, <3>5 DEF Paths
  <2>5. QED
    BY <1>8, <2>1, <2>2, <2>3, <2>4 DEF ApplyInv
<1>13. CopiesInv'
  <2>1. Recovered' = Recovered
    BY <1>1, <1>8 DEF Recovered
  <2>2. ASSUME NEW x \in mine \ {"design"}, x \in Preserved \/ ~updated
        PROVE  \/ \E c \in recoveries' \cup {run'.copies} : HasLocal(c[x])
               \/ x \notin Recovered' /\ HasLocal(project'[x])
    <3>1. x \in Paths
      BY <1>1 DEF TypeOK
    <3>2. \/ \E c \in recoveries \cup {NoCopies} : HasLocal(c[x])
          \/ HasLocal(project[x])
      BY <1>1, <2>2 DEF CopiesInv, StagedInv
    <3>3. QED
      BY <1>1, <1>6, <1>8, <2>1, <3>1, <3>2, NothingCopied
  <2>3. QED
    BY <1>1, <1>8, <2>2 DEF CopiesInv, Spared
<1>14. TypeOK'
  BY <1>1, <1>7, RunTyped DEF TypeOK
<1>15. QED
  BY <1>9, <1>10, <1>12, <1>13, <1>14 DEF UpdaterInv

-----------------------------------------------------------------------------
(* The steps that replace *)

\* What the next step is, and what it makes of its path.
LEMMA NextStep ==
  ASSUME UpdaterInv, run.pc = "apply", run.todo # <<>>
  PROVE  /\ Len(run.todo) \in Nat \ {0} /\ Head(run.todo) = run.todo[1]
         /\ Path \in Recovered /\ Path \in Paths
         /\ Op = "create" <=> Path = "design"
         /\ Path = "design" => run.design
         /\ Result \in Contents(Path)
         /\ Path = "design" => /\ Result \in {"template", "local"}
                               /\ project["design"] = "local" => Result = "local"
         /\ Settling(Head(run.todo)) => Result \in Target(Path, run.copies[Path])
         /\ Path \in {"tree", "codex"} => Path \in template
<1>1. /\ TypeOK /\ Types /\ StagedInv /\ ApplyInv /\ run \in Run
  BY DEF UpdaterInv, Types
<1>2. run.todo \in Seq(Ops \X Paths)
  BY <1>1 DEF Run
<1>3. Len(run.todo) \in Nat \ {0} /\ Head(run.todo) = run.todo[1]
  BY <1>2
<1>4. Head(run.todo) \in Steps
  BY <1>1, <1>3 DEF ApplyInv
<1>5. DEFINE step == Head(run.todo)
<1>6. Op = step[1] /\ Path = step[2]
  BY DEF Op, Path
<1>7. /\ run.contract \in Contract \ {"broken"} /\ run.thresholds \in Content
      /\ run.contract = Composed(run.copies["contract"])
      /\ run.thresholds = run.copies["thresholds"]
      /\ run.design => project["design"] \in {"absent", "template", "local"}
  BY <1>1, RunTyped DEF ApplyInv, StagedInv
<1> HIDE DEF step
<1>8. \/ step = <<"remove", "legacy">> \/ step = <<"compose", "contract">>
      \/ step = <<"replace", "updater">>
      \/ "tree" \in template /\ (step = <<"remove", "tree">> \/ step = <<"copy", "tree">>)
      \/ "thresholds" \in template /\ step = <<"replace", "thresholds">>
      \/ run.design /\ step = <<"create", "design">>
      \/ "codex" \in template /\ step = <<"replace", "codex">>
      \/ run.thresholds # "absent" /\ step = <<"restore", "thresholds">>
  BY <1>4 DEF Steps, step
<1>9. /\ Path \in Recovered /\ Path \in Paths
      /\ Op = "create" <=> Path = "design"
      /\ Path = "design" => run.design
      /\ Path \in {"tree", "codex"} => Path \in template
  BY <1>6, <1>8 DEF Recovered, Paths
<1>10. /\ Result \in Contents(Path)
       /\ Path = "design" => /\ Result \in {"template", "local"}
                             /\ project["design"] = "local" => Result = "local"
       /\ Settling(step) => Result \in Target(Path, run.copies[Path])
  <2>1. CASE step = <<"remove", "legacy">>
    BY <1>6, <2>1 DEF Result, Contents, Content, Target
  <2>2. CASE step = <<"compose", "contract">>
    BY <1>6, <1>7, <2>2 DEF Result, Contents, Contract, Target
  <2>3. CASE step = <<"replace", "updater">>
    BY <1>6, <2>3 DEF Result, Contents, Content, Target
  <2>4. CASE "tree" \in template /\ (step = <<"remove", "tree">> \/ step = <<"copy", "tree">>)
    BY <1>6, <2>4 DEF Result, Contents, Content, Target, Settling
  <2>5. CASE "thresholds" \in template /\ step = <<"replace", "thresholds">>
    BY <1>6, <1>7, <2>5 DEF Result, Contents, Content, Target, Settling
  <2>6. CASE run.design /\ step = <<"create", "design">>
    BY <1>6, <1>7, <2>6 DEF Result, Created, Contents, Content, Target
  <2>7. CASE "codex" \in template /\ step = <<"replace", "codex">>
    BY <1>6, <2>7 DEF Result, Contents, Content, Target
  <2>8. CASE run.thresholds # "absent" /\ step = <<"restore", "thresholds">>
    BY <1>6, <1>7, <2>8 DEF Result, Contents, Content, Target
  <2>9. QED
    BY <1>8, <2>1, <2>2, <2>3, <2>4, <2>5, <2>6, <2>7, <2>8
<1>11. QED
  BY <1>3, <1>9, <1>10 DEF step

LEMMA ApplyStep ==
  ASSUME UpdaterInv, Apply
  PROVE  UpdaterInv'
<1>1. /\ TypeOK /\ Types /\ StagedInv /\ ApplyInv /\ CopiesInv /\ run \in Run
      /\ run.pc = "apply" /\ run.todo # <<>>
      /\ project' = [project EXCEPT ![Path] = Result]
      /\ UNCHANGED <<template, recoveries, faults, mine, updated>>
  BY DEF UpdaterInv, Apply, Types
<1>2. /\ Len(run.todo) \in Nat \ {0} /\ Head(run.todo) = run.todo[1]
      /\ Path \in Recovered /\ Path \in Paths /\ Result \in Contents(Path)
      /\ Path = "design" => run.design
      /\ Path = "design" => /\ Result \in {"template", "local"}
                            /\ project["design"] = "local" => Result = "local"
      /\ Settling(Head(run.todo)) => Result \in Target(Path, run.copies[Path])
      /\ Path \in {"tree", "codex"} => Path \in template
  BY <1>1, NextStep
<1>3. run' = [pc |-> run.pc, contract |-> run.contract, thresholds |-> run.thresholds,
              design |-> run.design, copies |-> run.copies, todo |-> Tail(run.todo)]
  <2>1. run' = [run EXCEPT !.todo = Tail(run.todo)]
    BY DEF Apply
  <2>2. QED
    BY <1>1, <2>1, Zenon DEF Run
<1>4. run.todo \in Seq(Ops \X Paths)
  BY <1>1 DEF Run
<1>5. /\ Tail(run.todo) \in Seq(Ops \X Paths) /\ Len(Tail(run.todo)) = Len(run.todo) - 1
      /\ \A i \in 1..(Len(run.todo) - 1) : Tail(run.todo)[i] = run.todo[i + 1]
  BY <1>1, <1>2, <1>4
<1>6. run' \in Run
  BY <1>1, <1>3, <1>5, RunTyped DEF Run
<1>7. /\ run'.pc = "apply" /\ run'.contract = run.contract
      /\ run'.thresholds = run.thresholds /\ run'.design = run.design
      /\ run'.copies = run.copies /\ run'.todo = Tail(run.todo)
  BY <1>1, <1>3
<1>8. /\ project' \in [Paths -> Content \cup Contract]
      /\ project'[Path] = Result /\ \A x \in Paths : x # Path => project'[x] = project[x]
  BY <1>1, <1>2, Kinds DEF Types
<1>9. Types'
  BY <1>1, <1>6, <1>7, <1>8 DEF Types
<1>10. StagedInv'
  BY <1>1, <1>2, <1>7, <1>8, Kinds DEF StagedInv
<1>11. ApplyInv'
  <2>1. \A i \in 1..Len(run'.todo) : run'.todo[i] \in Steps'
    <3>1. Steps' = Steps
      BY <1>1, <1>7 DEF Steps
    <3>2. \A i \in 1..Len(run'.todo) : i + 1 \in 1..Len(run.todo) /\ run'.todo[i] = run.todo[i + 1]
      BY <1>2, <1>5, <1>7
    <3>3. QED
      BY <1>1, <3>1, <3>2 DEF ApplyInv
  <2>2. Settles(run.todo, {})'
    <3>1. \A step : Settling(step)' <=> Settling(step)
      BY <1>7 DEF Settling
    <3>2. SUFFICES ASSUME NEW i \in 1..Len(run'.todo)
                   PROVE  \/ Settling(run'.todo[i])
                          \/ \E j \in (i + 1)..Len(run'.todo) : run'.todo[j][2] = run'.todo[i][2]
      BY <3>1 DEF Settles
    <3>3. i + 1 \in 1..Len(run.todo) /\ run'.todo[i] = run.todo[i + 1]
      BY <1>2, <1>5, <1>7
    <3>4. \/ Settling(run.todo[i + 1])
          \/ \E j \in ((i + 1) + 1)..Len(run.todo) : run.todo[j][2] = run.todo[i + 1][2]
      BY <1>1, <3>3 DEF ApplyInv, Settles
    <3>5. CASE \E j \in ((i + 1) + 1)..Len(run.todo) : run.todo[j][2] = run.todo[i + 1][2]
      <4>1. PICK j \in ((i + 1) + 1)..Len(run.todo) : run.todo[j][2] = run.todo[i + 1][2]
        BY <3>5
      <4>2. j - 1 \in (i + 1)..Len(run'.todo) /\ run'.todo[j - 1] = run.todo[j]
        BY <1>2, <1>5, <1>7, <4>1
      <4>3. QED
        BY <3>3, <4>1, <4>2
    <3>6. QED
      BY <3>3, <3>4, <3>5
  <2>3. ASSUME NEW x \in Paths, ~Touches(run.todo, x)'
        PROVE  project'[x] \in Target(x, run.copies[x])'
    <3>1. \A j \in 2..Len(run.todo) : run.todo[j][2] # x
      <4>1. SUFFICES ASSUME NEW j \in 2..Len(run.todo) PROVE run.todo[j][2] # x
        OBVIOUS
      <4>2. j - 1 \in 1..Len(run'.todo) /\ run'.todo[j - 1] = run.todo[j]
        BY <1>2, <1>5, <1>7
      <4>3. QED
        BY <2>3, <4>2 DEF Touches
    <3>2. Path = run.todo[1][2]
      BY <1>2 DEF Path
    <3>3. CASE x = Path
      <4>1. Settling(run.todo[1])
        BY <1>1, <1>2, <3>1, <3>2, <3>3 DEF ApplyInv, Settles
      <4>2. Result \in Target(x, run.copies[x])
        BY <1>2, <3>3, <4>1
      <4>3. Target(x, run.copies[x])' = Target(x, run.copies[x])
        <5>1. x \in {"tree", "codex"} => x \in template
          BY <1>2, <3>3
        <5>2. x = "design" => run.design
          BY <1>2, <3>3
        <5>3. QED
          BY <1>1, <1>7, <5>1, <5>2 DEF Target
      <4>4. QED
        BY <1>8, <3>3, <4>2, <4>3
    <3>4. CASE x # Path
      <4>1. ~Touches(run.todo, x)
        BY <1>2, <3>1, <3>2, <3>4 DEF Touches
      <4>2. project[x] \in Target(x, run.copies[x]) /\ project'[x] = project[x]
        BY <1>1, <1>8, <3>4, <4>1 DEF ApplyInv
      <4>3. Target(x, run.copies[x])' = Target(x, run.copies[x])
        BY <1>1, <1>7, <4>2 DEF Target
      <4>4. QED
        BY <4>2, <4>3
    <3>5. QED
      BY <3>3, <3>4
  <2>4. /\ run'.contract = Composed(run'.copies["contract"])
        /\ run'.thresholds = run'.copies["thresholds"]
    BY <1>1, <1>7 DEF ApplyInv
  <2>5. QED
    BY <1>7, <2>1, <2>2, <2>3, <2>4 DEF ApplyInv
<1>12. CopiesInv'
  <2>1. Recovered' = Recovered
    BY <1>1, <1>7 DEF Recovered
  <2>2. "design" \in mine => project'["design"] = "local"
    BY <1>1, <1>2, <1>8, Kinds DEF CopiesInv
  <2>3. ASSUME NEW x \in mine \ {"design"}, x \in Preserved \/ ~updated
        PROVE  \/ \E c \in recoveries' \cup {run'.copies} : HasLocal(c[x])
               \/ x \notin Recovered' /\ HasLocal(project'[x])
    <3>1. x \in Paths
      BY <1>1 DEF TypeOK
    <3>2. \/ \E c \in recoveries \cup {run.copies} : HasLocal(c[x])
          \/ x \notin Recovered /\ HasLocal(project[x])
      BY <1>1, <2>3 DEF CopiesInv, Spared
    <3>3. QED
      BY <1>1, <1>2, <1>7, <1>8, <2>1, <3>1, <3>2
  <2>4. QED
    BY <1>1, <1>7, <2>2, <2>3 DEF CopiesInv, Spared
<1>13. TypeOK'
  <2>1. \A x \in Paths : project'[x] \in Contents(x)
    BY <1>1, <1>2, <1>8 DEF TypeOK
  <2>2. QED
    BY <1>1, <1>6, <2>1, RunTyped DEF TypeOK
<1>14. QED
  BY <1>9, <1>10, <1>11, <1>12, <1>13 DEF UpdaterInv

\* A step that stops halfway damages a path of which there is a copy.
LEMMA ApplyFailsStep ==
  ASSUME UpdaterInv, ApplyFails
  PROVE  UpdaterInv'
<1>1. /\ TypeOK /\ Types /\ StagedInv /\ CopiesInv /\ run \in Run
      /\ run.pc = "apply" /\ run.todo # <<>> /\ faults < MaxFaults
      /\ recoveries' = recoveries \cup {run.copies} /\ run' = Idle /\ faults' = faults + 1
      /\ UNCHANGED <<template, mine, updated>>
  BY DEF UpdaterInv, ApplyFails, Retain, Types
<1>2. PICK c \in Interrupted : project' = [project EXCEPT ![Path] = c]
  BY DEF ApplyFails
<1>3. /\ Path \in Recovered /\ Path \in Paths /\ Result \in Contents(Path)
      /\ Op = "create" <=> Path = "design"
      /\ Path = "design" /\ project["design"] = "local" => Result = "local"
  BY <1>1, NextStep
<1>4. c \in Contents(Path)
  <2>1. Damage(Path) \subseteq Contents(Path) /\ project[Path] \in Contents(Path)
    BY <1>1, <1>3 DEF Damage, Contents, Contract, Content, TypeOK
  <2>2. QED
    BY <1>2, <1>3, <2>1 DEF Interrupted
<1>5. Path = "design" /\ project["design"] = "local" => c = "local"
  BY <1>2, <1>3 DEF Interrupted
<1>6. /\ project' \in [Paths -> Content \cup Contract]
      /\ project'[Path] = c /\ \A x \in Paths : x # Path => project'[x] = project[x]
  BY <1>1, <1>2, <1>3, <1>4, Kinds DEF Types
<1>7. \A x \in Paths : project'[x] \in Contents(x)
  BY <1>1, <1>4, <1>6 DEF TypeOK
<1>8. "design" \in mine => project'["design"] = "local"
  BY <1>1, <1>5, <1>6, Kinds DEF CopiesInv
<1>9. ASSUME NEW x \in mine \ {"design"}, x \in Preserved \/ ~updated
      PROVE  \/ \E copies \in recoveries' : HasLocal(copies[x])
             \/ HasLocal(project'[x])
  <2>1. x \in Paths
    BY <1>1 DEF TypeOK
  <2>2. \/ \E copies \in recoveries \cup {run.copies} : HasLocal(copies[x])
        \/ x \notin Recovered /\ HasLocal(project[x])
    BY <1>1, <1>9 DEF CopiesInv, Spared
  <2>3. QED
    BY <1>1, <1>3, <1>6, <2>1, <2>2
<1>10. faults' \in 0..MaxFaults
  BY <1>1, FaultCounted
<1>11. recoveries' \subseteq Copies /\ \A copies \in recoveries' : Sound(copies)
  BY <1>1, RunTyped DEF TypeOK, Types
<1>12. QED
  BY <1>1, <1>6, <1>7, <1>8, <1>9, <1>10, <1>11, Over

-----------------------------------------------------------------------------
(* The end of an attempt, and what is done between attempts *)

LEMMA SucceedStep ==
  ASSUME UpdaterInv, Succeed
  PROVE  UpdaterInv'
<1>1. /\ TypeOK /\ Types /\ StagedInv /\ ApplyInv /\ CopiesInv /\ run \in Run
      /\ run.pc = "apply" /\ run.todo = <<>> /\ updated' = TRUE
      /\ UNCHANGED <<project, template, recoveries, faults, mine>>
  BY DEF UpdaterInv, Succeed, Types
<1>2. run' = [pc |-> "clean", contract |-> run.contract, thresholds |-> run.thresholds,
              design |-> run.design, copies |-> run.copies, todo |-> run.todo]
  <2>1. run' = [run EXCEPT !.pc = "clean"]
    BY DEF Succeed
  <2>2. QED
    BY <1>1, <2>1, Zenon DEF Run
<1>3. run' \in Run
  BY <1>1, <1>2, RunTyped DEF Run
<1>4. /\ run'.pc = "clean" /\ run'.contract = run.contract
      /\ run'.thresholds = run.thresholds /\ run'.design = run.design
      /\ run'.copies = run.copies /\ run'.todo = run.todo
  BY <1>2
<1>5. Types'
  BY <1>1, <1>3, <1>4 DEF Types
<1>6. StagedInv'
  BY <1>1, <1>4 DEF StagedInv
<1>7. ApplyInv'
  <2>1. /\ run'.contract = Composed(run'.copies["contract"])
        /\ run'.thresholds = run'.copies["thresholds"]
    BY <1>1, <1>4 DEF ApplyInv
  <2>2. Len(run'.todo) = 0 /\ run'.todo = <<>>
    BY <1>1, <1>4
  <2>3. \A x \in Paths : project'[x] \in Target(x, run.copies[x])'
    <3>1. SUFFICES ASSUME NEW x \in Paths PROVE project'[x] \in Target(x, run.copies[x])'
      OBVIOUS
    <3>2. project[x] \in Target(x, run.copies[x])
      BY <1>1 DEF ApplyInv, Touches
    <3>3. Target(x, run.copies[x])' = Target(x, run.copies[x])
      BY <1>1, <1>4 DEF Target
    <3>4. QED
      BY <1>1, <3>2, <3>3
  <2>4. Settles(run.todo, {})'
    BY <2>2 DEF Settles
  <2>5. QED
    BY <2>1, <2>2, <2>3, <2>4 DEF ApplyInv
<1>8. CopiesInv'
  <2>1. Recovered' = Recovered
    BY <1>1, <1>4 DEF Recovered
  <2>2. QED
    BY <1>1, <1>4, <2>1 DEF CopiesInv, Spared
<1>9. TypeOK'
  BY <1>1, <1>3, RunTyped DEF TypeOK
<1>10. QED
  BY <1>5, <1>6, <1>7, <1>8, <1>9 DEF UpdaterInv

\* The recovery copies may go: what was to be preserved is at its path again.
LEMMA CleanUpStep ==
  ASSUME UpdaterInv, CleanUp \/ CleanUpFails
  PROVE  UpdaterInv'
<1>1. /\ TypeOK /\ Types /\ ApplyInv /\ CopiesInv /\ run \in Run
      /\ run.pc = "clean" /\ run' = Idle
      /\ recoveries \subseteq recoveries' /\ recoveries' \subseteq recoveries \cup {run.copies}
      /\ UNCHANGED <<project, template, mine, updated>>
  BY DEF UpdaterInv, CleanUp, CleanUpFails, Retain, Types
<1>2. faults' \in 0..MaxFaults
  BY <1>1, FaultCounted DEF CleanUp, CleanUpFails, TypeOK
<1>3. recoveries' \subseteq Copies /\ \A copies \in recoveries' : Sound(copies)
  BY <1>1, RunTyped DEF TypeOK, Types
<1>4. ASSUME NEW x \in mine \ {"design"}, x \in Preserved \/ ~updated
      PROVE  (\E copies \in recoveries' : HasLocal(copies[x])) \/ HasLocal(project'[x])
  <2>1. x \in {"contract", "thresholds"} /\ x \in Paths
    BY <1>1, <1>4 DEF CopiesInv, Preserved, TypeOK
  <2>2. \E copies \in recoveries \cup {run.copies} : HasLocal(copies[x])
    BY <1>1, <1>4, <2>1 DEF CopiesInv, Spared, Recovered
  <2>3. CASE HasLocal(run.copies[x])
    <3>1. project[x] \in Target(x, run.copies[x])
      BY <1>1, <2>1 DEF ApplyInv, Touches
    <3>2. HasLocal(project[x])
      BY <2>1, <2>3, <3>1 DEF Target, Composed, HasLocal
    <3>3. QED
      BY <1>1, <3>2
  <2>4. QED
    BY <1>1, <2>2, <2>3
<1>5. /\ project' \in [Paths -> Content \cup Contract]
      /\ \A x \in Paths : project'[x] \in Contents(x)
      /\ "design" \in mine => project'["design"] = "local"
  BY <1>1 DEF TypeOK, Types, CopiesInv
<1>6. QED
  BY <1>1, <1>2, <1>3, <1>4, <1>5, Over

LEMMA PrepareFailsStep ==
  ASSUME UpdaterInv, PrepareFails
  PROVE  UpdaterInv'
<1>1. /\ TypeOK /\ Types /\ StagedInv /\ CopiesInv
      /\ run.pc = "staged" /\ faults < MaxFaults /\ run' = Idle /\ faults' = faults + 1
      /\ UNCHANGED <<project, template, recoveries, mine, updated>>
  BY DEF UpdaterInv, PrepareFails
<1>2. faults' \in 0..MaxFaults
  BY <1>1, FaultCounted
<1>3. ASSUME NEW x \in mine \ {"design"}, x \in Preserved \/ ~updated
      PROVE  (\E copies \in recoveries' : HasLocal(copies[x])) \/ HasLocal(project'[x])
  <2>1. x \in Paths
    BY <1>1 DEF TypeOK
  <2>2. QED
    BY <1>1, <1>3, <2>1, NothingCopied DEF CopiesInv, StagedInv
<1>4. /\ recoveries' \subseteq Copies /\ \A copies \in recoveries' : Sound(copies)
      /\ project' \in [Paths -> Content \cup Contract]
      /\ \A x \in Paths : project'[x] \in Contents(x)
      /\ "design" \in mine => project'["design"] = "local"
  BY <1>1 DEF TypeOK, Types, CopiesInv
<1>5. QED
  BY <1>1, <1>2, <1>3, <1>4, Over

\* A DESIGN.md that appears while one is staged stays what the attempt leaves.
LEMMA WriteDesignStep ==
  ASSUME UpdaterInv, WriteDesign
  PROVE  UpdaterInv'
<1>1. /\ TypeOK /\ Types /\ StagedInv /\ ApplyInv /\ CopiesInv
      /\ project["design"] = "absent"
      /\ project' = [project EXCEPT !["design"] = "local"] /\ mine' = mine \cup {"design"}
      /\ UNCHANGED <<template, run, recoveries, faults, updated>>
  BY DEF UpdaterInv, WriteDesign
<1>2. /\ project' \in [Paths -> Content \cup Contract] /\ project'["design"] = "local"
      /\ \A x \in Paths : x # "design" => project'[x] = project[x]
  BY <1>1, Kinds DEF Types, Content
<1>3. Types'
  BY <1>1, <1>2 DEF Types
<1>4. StagedInv'
  BY <1>1, <1>2, Kinds DEF StagedInv
<1>5. ApplyInv'
  <2>1. CASE run.pc \in {"apply", "clean"}
    <3>1. ASSUME NEW x \in Paths, ~Touches(run.todo, x)
          PROVE  project'[x] \in Target(x, run.copies[x])'
      <4>1. project[x] \in Target(x, run.copies[x])
        BY <1>1, <2>1, <3>1 DEF ApplyInv
      <4>2. CASE x = "design"
        BY <1>1, <1>2, <4>1, <4>2 DEF Target
      <4>3. CASE x # "design"
        <5>1. Target(x, run.copies[x])' = Target(x, run.copies[x])
          BY <1>1, <1>2, <4>3 DEF Target
        <5>2. QED
          BY <1>2, <4>1, <4>3, <5>1
      <4>4. QED
        BY <4>2, <4>3
    <3>2. \A step : Settling(step)' <=> Settling(step)
      BY <1>1 DEF Settling
    <3>3. Settles(run.todo, {})'
      BY <1>1, <2>1, <3>2 DEF ApplyInv, Settles
    <3>4. \A i \in 1..Len(run.todo) : run.todo[i] \in Steps'
      BY <1>1, <2>1 DEF ApplyInv, Steps
    <3>5. \A x \in Paths : ~Touches(run.todo, x)' => project'[x] \in Target(x, run.copies[x])'
      BY <1>1, <3>1 DEF Touches
    <3>6. QED
      BY <1>1, <2>1, <3>3, <3>4, <3>5 DEF ApplyInv
  <2>2. CASE run.pc \notin {"apply", "clean"}
    BY <1>1, <2>2 DEF ApplyInv
  <2>3. QED
    BY <2>1, <2>2
<1>6. CopiesInv'
  <2>1. ASSUME NEW x \in mine' \ {"design"}, x \in Preserved \/ ~updated
        PROVE  \/ \E copies \in recoveries' \cup {run'.copies} : HasLocal(copies[x])
               \/ Spared(x)' /\ HasLocal(project'[x])
    <3>1. x \in mine \ {"design"} /\ x \in Paths
      BY <1>1, <2>1 DEF TypeOK
    <3>2. project'[x] = project[x] /\ (Spared(x)' <=> Spared(x))
      BY <1>1, <1>2, <3>1 DEF Spared, Recovered
    <3>3. QED
      BY <1>1, <2>1, <3>1, <3>2 DEF CopiesInv
  <2>2. QED
    BY <1>1, <1>2, <2>1 DEF CopiesInv
<1>7. TypeOK'
  <2>1. \A x \in Paths : project'[x] \in Contents(x)
    BY <1>1, <1>2, Kinds DEF TypeOK, Content
  <2>2. mine' \subseteq Paths
    BY <1>1, Kinds DEF TypeOK
  <2>3. QED
    BY <1>1, <2>1, <2>2 DEF TypeOK
<1>8. QED
  BY <1>3, <1>4, <1>5, <1>6, <1>7 DEF UpdaterInv

LEMMA RestoreStep ==
  ASSUME UpdaterInv, Restore
  PROVE  UpdaterInv'
<1>1. /\ TypeOK /\ Types /\ StagedInv /\ CopiesInv /\ run.pc = "idle"
      /\ UNCHANGED <<template, run, recoveries, faults, mine, updated>>
  BY DEF UpdaterInv, Restore
<1>2. PICK copies \in recoveries, y \in Paths :
        /\ project[y] \in Damaged /\ copies[y] \notin Damaged \cup {"uncopied"}
        /\ project' = [project EXCEPT ![y] = copies[y]]
  BY DEF Restore
<1>3. copies[y] \in Contents(y)
  BY <1>1, <1>2 DEF Types, Sound
<1>4. /\ project' \in [Paths -> Content \cup Contract] /\ project'[y] = copies[y]
      /\ \A x \in Paths : x # y => project'[x] = project[x]
  BY <1>1, <1>2, <1>3, Kinds DEF Types
<1>5. \A x \in Paths : project'[x] \in Contents(x)
  BY <1>1, <1>3, <1>4 DEF TypeOK
<1>6. ~HasLocal(project[y])
  BY <1>2 DEF Damaged, HasLocal
<1>7. Types' /\ StagedInv' /\ ApplyInv'
  BY <1>1, <1>4 DEF Types, StagedInv, ApplyInv
<1>8. CopiesInv'
  <2>1. "design" \in mine => project'["design"] = "local"
    BY <1>1, <1>4, <1>6, Kinds DEF CopiesInv, HasLocal
  <2>2. ASSUME NEW x \in mine \ {"design"}, x \in Preserved \/ ~updated
        PROVE  \/ \E c \in recoveries' \cup {run'.copies} : HasLocal(c[x])
               \/ HasLocal(project'[x])
    <3>1. x \in Paths
      BY <1>1 DEF TypeOK
    <3>2. QED
      BY <1>1, <1>4, <1>6, <2>2, <3>1 DEF CopiesInv
  <2>3. QED
    BY <1>1, <2>1, <2>2 DEF CopiesInv, Spared
<1>9. TypeOK'
  BY <1>1, <1>5 DEF TypeOK
<1>10. QED
  BY <1>7, <1>8, <1>9 DEF UpdaterInv

LEMMA UpdaterInit == Init => UpdaterInv
<1> SUFFICES ASSUME Init PROVE UpdaterInv
  OBVIOUS
<1>1. PICK there \in SUBSET Optional :
        /\ mine = there \cup {"legacy", "contract", "updater"}
        /\ project = [x \in Paths |-> IF x \in mine THEN "local" ELSE "absent"]
  BY DEF Init
<1>2. /\ template \subseteq Optional /\ run = Idle /\ recoveries = {} /\ faults = 0
      /\ updated = FALSE
  BY DEF Init
<1>3. mine \subseteq Paths /\ "contract" \in mine
  BY <1>1 DEF Optional, Paths
<1>4. /\ project \in [Paths -> Content \cup Contract]
      /\ \A x \in Paths : project[x] \in Contents(x)
      /\ \A x \in mine : project[x] = "local"
  BY <1>1, <1>3 DEF Contents, Content, Contract
<1>5. run \in Run /\ run.pc = "idle" /\ run.copies = NoCopies
  BY <1>2, IdleRun
<1>6. Types
  BY <1>2, <1>4, <1>5, NothingCopied DEF Types
<1>7. StagedInv /\ ApplyInv
  BY <1>5 DEF StagedInv, ApplyInv
<1>8. CopiesInv
  BY <1>4, <1>5 DEF CopiesInv, Spared, HasLocal
<1>9. TypeOK
  <2>1. faults \in 0..MaxFaults
    BY <1>2, UpdaterAssumption
  <2>2. updated \in BOOLEAN
    BY <1>2, Zenon
  <2>3. QED
    BY <1>2, <1>3, <1>4, <1>5, <2>1, <2>2, RunTyped DEF TypeOK
<1>10. QED
  BY <1>6, <1>7, <1>8, <1>9 DEF UpdaterInv

LEMMA UpdaterSame == UpdaterInv /\ UNCHANGED vars => UpdaterInv'
<1> SUFFICES ASSUME UpdaterInv, UNCHANGED vars PROVE UpdaterInv'
  OBVIOUS
<1>1. UNCHANGED <<project, template, run, recoveries, faults, mine, updated>>
  BY DEF vars
<1>2. TypeOK' /\ Types' /\ StagedInv'
  BY <1>1 DEF UpdaterInv, TypeOK, Types, StagedInv
<1>3. ApplyInv'
  <2>1. /\ Steps' = Steps /\ (Settles(run.todo, {})' <=> Settles(run.todo, {}))
        /\ \A x : Touches(run.todo, x)' <=> Touches(run.todo, x)
        /\ \A x : Target(x, run.copies[x])' = Target(x, run.copies[x])
    BY <1>1 DEF Steps, Settles, Settling, Touches, Target
  <2>2. QED
    BY <1>1, <2>1 DEF UpdaterInv, ApplyInv
<1>4. CopiesInv'
  BY <1>1 DEF UpdaterInv, CopiesInv, Spared, Recovered
<1>5. QED
  BY <1>2, <1>3, <1>4 DEF UpdaterInv

LEMMA UpdaterStep == UpdaterInv /\ [Next]_vars => UpdaterInv'
<1> SUFFICES ASSUME UpdaterInv, [Next]_vars PROVE UpdaterInv'
  OBVIOUS
<1>1. CASE Prepare
  BY <1>1, PrepareStep
<1>2. CASE CreateRecovery
  BY <1>2, CreateRecoveryStep
<1>3. CASE Apply
  BY <1>3, ApplyStep
<1>4. CASE Succeed
  BY <1>4, SucceedStep
<1>5. CASE CleanUp \/ CleanUpFails
  BY <1>5, CleanUpStep
<1>6. CASE PrepareFails
  BY <1>6, PrepareFailsStep
<1>7. CASE ApplyFails
  BY <1>7, ApplyFailsStep
<1>8. CASE WriteDesign
  BY <1>8, WriteDesignStep
<1>9. CASE Restore
  BY <1>9, RestoreStep
<1>10. CASE Refuse \/ UNCHANGED vars
  BY <1>10, UpdaterSame DEF Refuse
<1>11. QED
  BY <1>1, <1>2, <1>3, <1>4, <1>5, <1>6, <1>7, <1>8, <1>9, <1>10 DEF Next, Attempt

\* What holds whatever attempts have stopped where: what is staged is composed
\* from what was found, every step left settles its path or is followed by one
\* that does, and what is at stake is at a path that is spared or in a copy.
THEOREM UpdaterInvariant == Spec => []UpdaterInv
BY UpdaterInit, UpdaterStep, PTL DEF Spec

-----------------------------------------------------------------------------
(* What the updater promises *)

\* Nothing the user had is lost, through any number of attempts that stop
\* anywhere, damage what they replace and are repeated on what they left.
THEOREM NothingLostHolds == Spec => []NothingLost
<1>1. UpdaterInv => NothingLost
  <2> SUFFICES ASSUME UpdaterInv, NEW x \in mine, x \in Preserved \/ ~updated
               PROVE  \E c \in recoveries \cup {run.copies, project} : HasLocal(c[x])
    BY DEF NothingLost
  <2>1. CASE x = "design"
    BY <2>1 DEF UpdaterInv, CopiesInv, HasLocal
  <2>2. CASE x # "design"
    BY <2>2 DEF UpdaterInv, CopiesInv
  <2>3. QED
    BY <2>1, <2>2
<1>2. QED
  BY <1>1, UpdaterInvariant, PTL

\* An attempt that went through leaves no mixture, whatever it found: the order
\* of the steps puts back what replacing a file has overwritten.
THEOREM SuccessIsCompleteHolds == Spec => []SuccessIsComplete
<1>1. UpdaterInv => SuccessIsComplete
  BY DEF UpdaterInv, ApplyInv, Touches, SuccessIsComplete
<1>2. QED
  BY <1>1, UpdaterInvariant, PTL

\* No step takes a DESIGN.md away from the user, whenever it was written.
THEOREM DesignPreservedHolds == Spec => DesignPreserved
<1>1. UpdaterInv /\ [Next]_vars => (project["design"] = "local" => project'["design"] = "local")
  <2> SUFFICES ASSUME UpdaterInv, [Next]_vars, project["design"] = "local"
               PROVE  project'["design"] = "local"
    OBVIOUS
  <2>1. project \in [Paths -> Content \cup Contract] /\ "design" \in Paths
    BY Kinds DEF UpdaterInv, Types
  <2>2. CASE Apply
    <3>1. Path \in Paths /\ (Path = "design" => Result = "local")
      BY <2>2, NextStep DEF Apply
    <3>2. QED
      BY <2>1, <2>2, <3>1 DEF Apply
  <2>3. CASE ApplyFails
    <3>1. Path \in Paths /\ (Op = "create" <=> Path = "design")
      BY <2>3, NextStep DEF ApplyFails
    <3>2. PICK c \in Interrupted : project' = [project EXCEPT ![Path] = c]
      BY <2>3 DEF ApplyFails
    <3>3. Path = "design" => c = "local"
      BY <3>1, <3>2 DEF Interrupted
    <3>4. QED
      BY <2>1, <3>1, <3>2, <3>3
  <2>4. CASE Restore
    <3>1. PICK copies \in recoveries, y \in Paths :
            project[y] \in Damaged /\ project' = [project EXCEPT ![y] = copies[y]]
      BY <2>4 DEF Restore
    <3>2. y # "design"
      BY <3>1 DEF Damaged
    <3>3. QED
      BY <2>1, <3>1, <3>2
  <2>5. CASE UNCHANGED project
    BY <2>5
  <2>6. CASE WriteDesign
    BY <2>6 DEF WriteDesign
  <2>7. QED
    BY <2>2, <2>3, <2>4, <2>5, <2>6
    DEF Next, Attempt, Prepare, CreateRecovery, Succeed, CleanUp, Refuse, PrepareFails,
        CleanUpFails, vars
<1>2. QED
  BY <1>1, UpdaterInvariant, PTL DEF Spec, DesignPreserved
=============================================================================
