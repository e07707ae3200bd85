----------------------------- MODULE HandoffProofs ---------------------------
(***************************************************************************)
(* Proofs about what a plan of engorda hands to its materialization, three  *)
(* programs of BatchJobs: the rest of its artifacts (PlanHandoff), what the *)
(* two commands ask for (EngordaCommands) and the generated texts           *)
(* (GenAiRewrite). They hold for every schema, RAW and policy, any number   *)
(* of attempts, commands, reservations, instruments, copies and calls, and  *)
(* whatever dies or changes in between.                                     *)
(*                                                                         *)
(* What a materialization takes is true because an attempt at a plan holds  *)
(* what it has read or put so far at each of its steps (FrozenHeld and,     *)
(* while it is alone, TextsHeld); what is published is what was asked for   *)
(* because a plan is what its command asks for, to the copy (PlanMade), and *)
(* the reservations of plans lie one after the other (Precedes); and a text *)
(* reaches its clone because the rows of an instrument account for every    *)
(* target of every copy up to the batch at hand (Accounts).                 *)
(***************************************************************************)
EXTENDS BatchProofs

-----------------------------------------------------------------------------
(* What a plan hands over (PlanHandoff).                                    *)

\* The steps of an attempt at a plan, from its texts to its last object.
Asking == {"select", "generate", "write texts", "set up"}
Texting == {"read back", "policy", "put policy", "manifest", "put manifest"}
Selected == {"plan", "put plan", "done"}
Writing == {"snapshot", "verify"} \cup Selected
Attempting == Asking \cup Texting \cup Writing \cup {"commit", "classify"}
Versions == Nat \cup {Unused}

\* What the state of a hand-off is made of.
HandoffTyped ==
    /\ raw \in Nat /\ overlapped \in BOOLEAN /\ touched \in BOOLEAN
    /\ job \in HandoffJobs
    /\ at \in [PlanAttempts -> Attempting \cup {"new", "failed", "dead"}]
    /\ seen \in [PlanAttempts -> Versions] /\ classified \in [PlanAttempts -> Versions]
    /\ snapshot \in [PlanAttempts -> Seq(Versions)]
    /\ docs \in [Handoff!Documents -> PlanAttempts \cup {Unused}]
    /\ replacements \in SUBSET PlanAttempts

\* Texts are asked for, and what an attempt has frozen of RAW for itself.
FrozenHeld(a) ==
    /\ at[a] \in (Asking \ {"select"}) \cup Texting \cup {"commit"} => job.genai
    /\ at[a] \in Writing /\ job.ccb =>
          Handoff!Classifies(classified[a], raws[seen[a]].roots)
    /\ at[a] \in {"verify"} \cup Selected => Len(snapshot[a]) = 3
    /\ at[a] \in Selected => Handoff!SnapshotHolds(a)

\* The plan that was put is that of an attempt that ended well.
PlanHeldBy == docs["plan"] # Unused => at[docs["plan"]] = "done"

\* What a materialization took is of an attempt that ended well.
HandedHeld ==
    handed # Unused /\ handed # Handoff!Refused =>
        /\ handed.accepted => handed.plan \in PlanAttempts /\ at[handed.plan] = "done"
        /\ Handoff!HandoffIsSealed

\* Where the texts are while attempts do not overlap.
TextsHeld(a) ==
    /\ at[a] \in Asking => ~touched
    /\ at[a] = "commit" => touched /\ replacements = {}
    /\ at[a] \in Texting => touched /\ replacements = {a}
    /\ at[a] \in Writing \cup {"classify"} =>
          touched /\ replacements = {a} /\ docs["manifest"] = a

AloneHeld ==
    /\ ~touched => replacements = {}
    /\ \A a, b \in PlanAttempts : at[a] \in Attempting \ {"done"} /\ at[b] \in Attempting \ {"done"} => a = b
    /\ \A a \in PlanAttempts : at[a] = "put plan" => docs["plan"] = Unused
    /\ reserved # Unused => reserved = docs["plan"]
    /\ job.genai => \A a \in PlanAttempts : TextsHeld(a)

\* The inductive invariant of a hand-off. What is said of the texts holds while
\* no two attempts have been at work at once (overlapped).
HandoffInv ==
    /\ HandoffTyped /\ \A a \in PlanAttempts : FrozenHeld(a)
    /\ PlanHeldBy /\ HandedHeld
    /\ handed = Handoff!Refused => overlapped
    /\ ~overlapped => AloneHeld

\* It holds before anything is planned.
LEMMA HandoffBegins ==
    ASSUME Handoff!AttemptsAreTold, Handoff!Init
    PROVE  HandoffInv
<1>1. HandoffTyped
  <2>1. snapshot \in [PlanAttempts -> Seq(Versions)] /\ raw \in Nat
    BY DEF Handoff!Init
  <2>2. at \in [PlanAttempts -> Attempting \cup {"new", "failed", "dead"}]
    BY DEF Handoff!Init
  <2>3. seen \in [PlanAttempts -> Versions] /\ classified \in [PlanAttempts -> Versions]
    BY DEF Handoff!Init, Versions
  <2> QED
    BY <2>1, <2>2, <2>3 DEF Handoff!Init, HandoffTyped
<1>2. \A a \in PlanAttempts : at[a] = "new"
  BY DEF Handoff!Init
<1>3. \A a \in PlanAttempts : FrozenHeld(a)
  BY <1>2 DEF FrozenHeld, Asking, Texting, Writing, Selected
<1>4. PlanHeldBy /\ HandedHeld /\ handed # Handoff!Refused
  BY DEF Handoff!Init, PlanHeldBy, HandedHeld, Handoff!Documents, Handoff!AttemptsAreTold,
      Handoff!Refused
<1>5. AloneHeld
  BY <1>2 DEF Handoff!Init, AloneHeld, TextsHeld, Attempting, Asking, Texting, Writing, Selected
<1> QED
  BY <1>1, <1>3, <1>4, <1>5 DEF HandoffInv

\* What an attempt has frozen stays as it is while nothing of it changes.
LEMMA FrozenStays ==
    ASSUME NEW a, FrozenHeld(a), UNCHANGED <<at[a], seen[a], classified[a], snapshot[a], job, raws>>
    PROVE  FrozenHeld(a)'
<1>1. Handoff!MissingHold(a)' = Handoff!MissingHold(a)
  BY DEF Handoff!MissingHold, Handoff!Missing
<1>2. Handoff!SnapshotHolds(a) => Handoff!SnapshotHolds(a)'
  BY <1>1 DEF Handoff!SnapshotHolds, Handoff!SnapshotHoldsCounts
<1> QED
  BY <1>2 DEF FrozenHeld, Handoff!Classifies

\* So does what was handed over, once its attempt has ended.
LEMMA HandedStays ==
    ASSUME HandedHeld, UNCHANGED <<handed, job, raws>>,
           reserved # Unused => reserved' = reserved, Unused \notin PlanAttempts,
           \A a \in PlanAttempts : at[a] = "done" => at'[a] = "done" /\ seen'[a] = seen[a]
    PROVE  HandedHeld'
<1> SUFFICES ASSUME handed # Unused, handed # Handoff!Refused, handed.accepted
             PROVE  Handoff!HandoffIsSealed'
                        /\ handed.plan \in PlanAttempts /\ at'[handed.plan] = "done"
  BY DEF HandedHeld, Handoff!Refused, Handoff!HandoffIsSealed
<1>1. Handoff!HandoffIsSealed /\ handed.plan \in PlanAttempts /\ at[handed.plan] = "done"
  BY DEF HandedHeld
<1>2. reserved = handed.plan /\ reserved' = reserved
  BY <1>1 DEF Handoff!HandoffIsSealed
<1>3. seen'[handed.plan] = seen[handed.plan] /\ at'[handed.plan] = "done"
  BY <1>1
<1> QED
  BY <1>1, <1>2, <1>3 DEF Handoff!HandoffIsSealed

\* An attempt goes on, and nothing changes that is not its own, but for files.
Own(a) ==
    /\ a \in PlanAttempts /\ at[a] # "done"
    /\ \A b \in PlanAttempts \ {a} :
          UNCHANGED <<at[b], seen[b], classified[b], snapshot[b]>>
    /\ UNCHANGED <<job, raws, raw, reserved, handed>>

\* A step of one attempt keeps the invariant if what that attempt holds does.
LEMMA AttemptGoes ==
    ASSUME HandoffInv, Handoff!AttemptsAreTold, NEW a, Own(a), HandoffTyped', FrozenHeld(a)',
           overlapped => overlapped', docs'["plan"] = docs["plan"] \/ at'[docs'["plan"]] = "done",
           ~overlapped' => AloneHeld'
    PROVE  HandoffInv'
<1>1. \A b \in PlanAttempts : FrozenHeld(b)'
  BY FrozenStays DEF HandoffInv, Own
<1>2. PlanHeldBy'
  <2> SUFFICES ASSUME docs'["plan"] # Unused, docs'["plan"] = docs["plan"]
               PROVE  at'[docs["plan"]] = "done"
    BY DEF PlanHeldBy
  <2>1. docs["plan"] \in PlanAttempts /\ at[docs["plan"]] = "done"
    BY DEF HandoffInv, HandoffTyped, PlanHeldBy, Handoff!Documents
  <2> QED
    BY <2>1 DEF Own
<1>3. HandedHeld'
  BY HandedStays DEF HandoffInv, Own, Handoff!AttemptsAreTold
<1>4. handed' = Handoff!Refused' => overlapped'
  BY DEF HandoffInv, Own, Handoff!Refused
<1> QED
  BY <1>1, <1>2, <1>3, <1>4 DEF HandoffInv

\* An attempt begins, over what another left if need be.
LEMMA HandoffStart ==
    ASSUME HandoffInv, Handoff!AttemptsAreTold, NEW a \in PlanAttempts, Handoff!Start(a)
    PROVE  HandoffInv'
<1>0. UNCHANGED <<job, raws, raw, seen, touched, replacements, docs, classified, snapshot, reserved, handed>>
  BY DEF Handoff!Start, Handoff!inputs, Handoff!files, Handoff!later
<1>1. PICK s \in {"select", "failed"} :
         /\ at' = [at EXCEPT ![a] = s] /\ at[a] = "new"
         /\ s = "select" /\ job.genai => ~touched
  BY DEF Handoff!Start, Handoff!GoOrFail, Handoff!Go, Handoff!ArtifactRootAbsent
<1>2. HandoffTyped' /\ Own(a)
  BY <1>0, <1>1 DEF HandoffInv, HandoffTyped, Own, Handoff!Start, Attempting, Asking
<1>3. FrozenHeld(a)'
  BY <1>1, <1>2 DEF FrozenHeld, Asking, Texting, Writing, Selected, HandoffTyped, HandoffInv
<1>4. ASSUME ~overlapped'
      PROVE  AloneHeld'
  <2>1. ~overlapped /\ \A b \in PlanAttempts : at[b] \notin Attempting \ {"done"}
    BY <1>4, HandoffInv DEF Handoff!Start, Handoff!Running, Handoff!Ended, Attempting, Asking, Texting,
        Writing, Selected
  <2>2. \A b \in PlanAttempts : at'[b] = IF b = a THEN s ELSE at[b]
    BY <1>1 DEF HandoffInv, HandoffTyped
  <2>3. AloneHeld
    BY <2>1 DEF HandoffInv
  <2>4. job.genai => \A b \in PlanAttempts : TextsHeld(b)'
    <3> SUFFICES ASSUME job.genai, NEW b \in PlanAttempts
                 PROVE  TextsHeld(b)'
      BY <1>0
    <3>1. CASE b = a
      BY <1>0, <1>1, <2>2, <3>1 DEF TextsHeld, Asking, Texting, Writing, Selected
    <3>2. CASE b # a
      BY <1>0, <2>2, <2>3, <3>2 DEF AloneHeld, TextsHeld
    <3> QED
      BY <3>1, <3>2
  <2> QED
    BY <1>0, <2>1, <2>2, <2>3, <2>4 DEF AloneHeld
<1> QED
  BY <1>0, <1>1, <1>2, <1>3, <1>4, AttemptGoes DEF Handoff!Start

\* An attempt that is alone moves on to step s. Attempts that ended without
\* a plan have no claim on the files.
LEMMA AloneStays ==
    ASSUME HandoffTyped, AloneHeld, NEW a \in PlanAttempts, at[a] \in Attempting \ {"done"}, NEW s,
           at' = [at EXCEPT ![a] = s], UNCHANGED <<job, reserved, docs["plan"]>>,
           s = "put plan" => docs["plan"] = Unused,
           ~touched' => replacements' = {},
           job.genai => TextsHeld(a)',
           job.genai => \A b \in PlanAttempts : at[b] = "done" => TextsHeld(b)'
    PROVE  AloneHeld'
<1>1. \A b \in PlanAttempts : at'[b] = IF b = a THEN s ELSE at[b]
  BY DEF HandoffTyped
<1>2. \A b \in PlanAttempts \ {a} : at[b] \notin Attempting \ {"done"}
  BY DEF AloneHeld
<1>3. \A b \in PlanAttempts \ {a} :
         at[b] # "done" => at'[b] \notin Asking \cup Texting \cup Writing \cup {"commit", "classify"}
  BY <1>1, <1>2 DEF Attempting
<1>4. job.genai => \A b \in PlanAttempts : TextsHeld(b)'
  BY <1>3 DEF TextsHeld
<1>5. \A b, c \in PlanAttempts : at'[b] \in Attempting \ {"done"} /\ at'[c] \in Attempting \ {"done"} => b = c
  BY <1>1, <1>2
<1>6. \A b \in PlanAttempts : at'[b] = "put plan" => docs'["plan"] = Unused
  BY <1>1 DEF AloneHeld
<1> QED
  BY <1>4, <1>5, <1>6 DEF AloneHeld

\* The attempts that ended keep what they wrote as long as nobody writes.
LEMMA DoneStays ==
    ASSUME AloneHeld, job.genai, NEW b \in PlanAttempts, at[b] = "done", at'[b] = at[b],
           UNCHANGED <<touched, replacements, docs>>
    PROVE  TextsHeld(b)'
BY DEF AloneHeld, TextsHeld

\* An attempt goes through the steps of its texts.
LEMMA HandoffTexts ==
    ASSUME HandoffInv, Handoff!AttemptsAreTold, NEW a \in PlanAttempts,
           \/ Handoff!Select(a) \/ Handoff!Generate(a) \/ Handoff!WriteTexts(a) \/ Handoff!ReadBack(a)
    PROVE  HandoffInv'
<1>0. UNCHANGED <<job, raws, raw, touched, replacements, docs, classified, snapshot, reserved, handed, overlapped>>
  BY DEF Handoff!Select, Handoff!Generate, Handoff!WriteTexts, Handoff!ReadBack, Handoff!inputs, Handoff!files, Handoff!later
<1>1. PICK s :
         /\ at' = [at EXCEPT ![a] = s]
         /\ \/ at[a] = "select" /\ s = IF job.genai THEN "generate" ELSE "classify"
            \/ at[a] = "generate" /\ s \in {"write texts", "failed"}
            \/ at[a] = "write texts" /\ s \in {"set up", "failed"}
            \/ at[a] = "read back" /\ s \in {"policy", "failed"} /\ (s = "policy" => replacements = {a})
  BY DEF Handoff!Select, Handoff!Generate, Handoff!WriteTexts, Handoff!ReadBack, Handoff!GoOrFail, Handoff!Go
<1>2. \A b \in PlanAttempts : at'[b] = IF b = a THEN s ELSE at[b]
  BY <1>1 DEF HandoffInv, HandoffTyped
<1>3. seen' \in [PlanAttempts -> Versions] /\ \A b \in PlanAttempts \ {a} : seen'[b] = seen[b]
  BY DEF HandoffInv, HandoffTyped, Handoff!Select, Handoff!Generate, Handoff!WriteTexts, Handoff!ReadBack, Versions
<1>4. HandoffTyped' /\ Own(a)
  BY <1>0, <1>1, <1>2, <1>3 DEF HandoffInv, HandoffTyped, Own, Attempting, Asking, Texting
<1>5. FrozenHeld(a)'
  BY <1>0, <1>1, <1>2 DEF HandoffInv, FrozenHeld, Asking, Texting, Writing, Selected
<1>6. ASSUME ~overlapped'
      PROVE  AloneHeld'
  <2>1. AloneHeld /\ HandoffTyped
    BY <1>0, <1>6 DEF HandoffInv
  <2>2. job.genai => TextsHeld(a)'
    BY <1>0, <1>1, <1>2, <2>1 DEF AloneHeld, TextsHeld, Asking, Texting, Writing, Selected
  <2>3. at[a] \in Attempting \ {"done"}
    BY <1>1 DEF Attempting, Asking, Texting
  <2>4. job.genai => \A b \in PlanAttempts : at[b] = "done" => TextsHeld(b)'
    BY <1>0, <1>2, <2>1, <2>3, DoneStays
  <2> QED
    BY <1>0, <1>1, <2>1, <2>2, <2>3, <2>4, AloneStays DEF AloneHeld
<1> QED
  BY <1>0, <1>4, <1>5, <1>6, AttemptGoes

\* Its replacements become those there are.
LEMMA HandoffCommits ==
    ASSUME HandoffInv, Handoff!AttemptsAreTold, NEW a \in PlanAttempts,
           Handoff!SetUp(a) \/ Handoff!Commit(a)
    PROVE  HandoffInv'
<1>0. UNCHANGED <<job, raws, raw, seen, docs, classified, snapshot, reserved, handed, overlapped>>
  BY DEF Handoff!SetUp, Handoff!Commit, Handoff!inputs, Handoff!later
<1>1. PICK s :
         /\ at' = [at EXCEPT ![a] = s]
         /\ \/ at[a] = "set up" /\ s = "commit" /\ touched' = TRUE /\ replacements' = replacements
            \/ at[a] = "commit" /\ s = "read back" /\ replacements' = replacements \cup {a} /\ touched' = touched
  BY DEF Handoff!SetUp, Handoff!Commit, Handoff!Go
<1>2. \A b \in PlanAttempts : at'[b] = IF b = a THEN s ELSE at[b]
  BY <1>1 DEF HandoffInv, HandoffTyped
<1>4. HandoffTyped' /\ Own(a)
  BY <1>0, <1>1, <1>2 DEF HandoffInv, HandoffTyped, Own, Attempting, Asking, Texting
<1>5. FrozenHeld(a)'
  BY <1>0, <1>1, <1>2 DEF HandoffInv, FrozenHeld, Asking, Texting, Writing, Selected
<1>6. ASSUME ~overlapped'
      PROVE  AloneHeld'
  <2>1. AloneHeld /\ HandoffTyped
    BY <1>0, <1>6 DEF HandoffInv
  <2>6. job.genai /\ TextsHeld(a)
    BY <1>1, <2>1 DEF HandoffInv, FrozenHeld, AloneHeld, Asking
  <2>2. TextsHeld(a)'
    <3>1. CASE at[a] = "set up"
      BY <1>0, <1>1, <1>2, <2>1, <2>6, <3>1 DEF AloneHeld, TextsHeld, Asking, Texting, Writing, Selected
    <3>2. CASE at[a] = "commit"
      <4>1. at'[a] = "read back" /\ replacements' = {a} /\ touched'
        BY <1>1, <1>2, <2>6, <3>2 DEF TextsHeld
      <4> QED
        BY <4>1 DEF TextsHeld, Asking, Texting, Writing, Selected
    <3> QED
      BY <1>1, <3>1, <3>2
  <2>3. at[a] \in Attempting \ {"done"}
    BY <1>1 DEF Attempting, Asking, Texting
  <2>4. job.genai => \A b \in PlanAttempts : at[b] # "done"
    BY <1>1, <2>1 DEF AloneHeld, TextsHeld, Asking, Writing, Selected
  <2>5. ~touched' => replacements' = {}
    BY <1>1, <2>1, <2>6 DEF AloneHeld, TextsHeld, HandoffTyped
  <2> QED
    BY <1>0, <1>1, <2>1, <2>2, <2>3, <2>4, <2>5, AloneStays
<1> QED
  BY <1>0, <1>4, <1>5, <1>6, AttemptGoes

\* It decides whether the policy and the manifest that are there are its own.
LEMMA HandoffLook ==
    ASSUME HandoffInv, Handoff!AttemptsAreTold, NEW a \in PlanAttempts, Handoff!Look(a)
    PROVE  HandoffInv'
<1>0. UNCHANGED <<job, raws, raw, seen, touched, replacements, docs, classified, snapshot, reserved, handed, overlapped>>
  BY DEF Handoff!Look, Handoff!inputs, Handoff!files, Handoff!later
<1>1. PICK s :
         /\ at' = [at EXCEPT ![a] = s]
         /\ \/ at[a] = "policy" /\ s \in {"put policy", "failed"}
            \/ at[a] = "manifest" /\ s \in {"put manifest", "failed"}
            \/ at[a] = "plan" /\ s \in {"put plan", "failed"}
                  /\ (s = "put plan" => docs["plan"] = Unused)
  <2>1. /\ at[a] \in {"policy", "manifest", "plan"}
        /\ at' = [at EXCEPT ![a] = IF docs[at[a]] = Unused THEN Handoff!PutOf[at[a]] ELSE "failed"]
    BY DEF Handoff!Look, Handoff!GoOrFail, Handoff!Go, Handoff!Documents
  <2>2. /\ Handoff!PutOf["policy"] = "put policy" /\ Handoff!PutOf["manifest"] = "put manifest"
        /\ Handoff!PutOf["plan"] = "put plan"
    BY DEF Handoff!PutOf
  <2>3. CASE docs[at[a]] = Unused
    BY <2>1, <2>2, <2>3
  <2>4. CASE docs[at[a]] # Unused
    BY <2>1, <2>4
  <2> QED
    BY <2>3, <2>4
<1>2. \A b \in PlanAttempts : at'[b] = IF b = a THEN s ELSE at[b]
  BY <1>1 DEF HandoffInv, HandoffTyped
<1>4. HandoffTyped' /\ Own(a)
  BY <1>0, <1>1, <1>2 DEF HandoffInv, HandoffTyped, Own, Attempting, Texting, Writing, Selected
<1>5. FrozenHeld(a)'
  <2>1. /\ Handoff!SnapshotHolds(a) => Handoff!SnapshotHolds(a)'
        /\ Handoff!Classifies(classified[a], raws[seen[a]].roots) =>
              Handoff!Classifies(classified[a], raws[seen[a]].roots)'
    BY <1>0 DEF Handoff!SnapshotHolds, Handoff!SnapshotHoldsCounts, Handoff!MissingHold,
        Handoff!Missing, Handoff!Classifies
  <2> QED
    BY <1>0, <1>1, <1>2, <2>1 DEF HandoffInv, FrozenHeld, Asking, Texting, Writing, Selected
<1>6. ASSUME ~overlapped'
      PROVE  AloneHeld'
  <2>1. AloneHeld /\ HandoffTyped
    BY <1>0, <1>6 DEF HandoffInv
  <2>2. job.genai => TextsHeld(a)'
    BY <1>0, <1>1, <1>2, <2>1 DEF AloneHeld, TextsHeld, Asking, Texting, Writing, Selected
  <2>3. at[a] \in Attempting \ {"done"}
    BY <1>1 DEF Attempting, Texting, Writing, Selected
  <2>4. job.genai => \A b \in PlanAttempts : at[b] = "done" => TextsHeld(b)'
    BY <1>0, <1>2, <2>1, <2>3, DoneStays
  <2> QED
    BY <1>0, <1>1, <2>1, <2>2, <2>3, <2>4, AloneStays DEF AloneHeld
<1> QED
  BY <1>0, <1>4, <1>5, <1>6, AttemptGoes

\* It puts its policy, its manifest or its plan.
LEMMA HandoffPut ==
    ASSUME HandoffInv, Handoff!AttemptsAreTold, NEW a \in PlanAttempts, Handoff!Put(a)
    PROVE  HandoffInv'
<1>0. UNCHANGED <<job, raws, raw, seen, touched, replacements, classified, snapshot, reserved, handed, overlapped>>
  BY DEF Handoff!Put, Handoff!inputs, Handoff!later
<1>1. PICK d \in Handoff!Documents :
         /\ docs' = [docs EXCEPT ![d] = a]
         /\ at[a] = Handoff!PutOf[d] /\ at' = [at EXCEPT ![a] = Handoff!After[d]]
  BY DEF Handoff!Put, Handoff!Go
<1>2. PICK s :
         /\ at' = [at EXCEPT ![a] = s]
         /\ \/ at[a] = "put policy" /\ s = "manifest" /\ d = "policy"
            \/ at[a] = "put manifest" /\ s = "classify" /\ d = "manifest"
            \/ at[a] = "put plan" /\ s = "done" /\ d = "plan"
  <2>1. /\ Handoff!PutOf["policy"] = "put policy" /\ Handoff!PutOf["manifest"] = "put manifest"
        /\ Handoff!PutOf["plan"] = "put plan"
    BY DEF Handoff!PutOf
  <2>2. /\ Handoff!After["policy"] = "manifest" /\ Handoff!After["manifest"] = "classify"
        /\ Handoff!After["plan"] = "done"
    BY DEF Handoff!After
  <2> QED
    BY <1>1, <2>1, <2>2 DEF Handoff!Documents
<1>3. /\ \A b \in PlanAttempts : at'[b] = IF b = a THEN s ELSE at[b]
      /\ \A e \in Handoff!Documents : docs'[e] = IF e = d THEN a ELSE docs[e]
      /\ {"policy", "manifest", "plan"} = Handoff!Documents
  BY <1>1, <1>2 DEF HandoffInv, HandoffTyped, Handoff!Documents
<1>4. HandoffTyped' /\ Own(a)
  BY <1>0, <1>1, <1>2, <1>3 DEF HandoffInv, HandoffTyped, Own, Attempting, Texting, Writing, Selected
<1>5. FrozenHeld(a)'
  <2>1. /\ Handoff!SnapshotHolds(a) => Handoff!SnapshotHolds(a)'
        /\ Handoff!Classifies(classified[a], raws[seen[a]].roots) =>
              Handoff!Classifies(classified[a], raws[seen[a]].roots)'
    BY <1>0 DEF Handoff!SnapshotHolds, Handoff!SnapshotHoldsCounts, Handoff!MissingHold,
        Handoff!Missing, Handoff!Classifies
  <2> QED
    BY <1>0, <1>2, <1>3, <2>1 DEF HandoffInv, FrozenHeld, Asking, Texting, Writing, Selected
<1>6. ASSUME ~overlapped'
      PROVE  AloneHeld'
  <2>1. AloneHeld /\ HandoffTyped
    BY <1>0, <1>6 DEF HandoffInv
  <2>2. at[a] \in Attempting \ {"done"}
    BY <1>2 DEF Attempting, Texting, Writing, Selected
  <2>3. job.genai => replacements = {a} /\ touched
    BY <1>2, <2>1 DEF AloneHeld, TextsHeld, Texting, Writing, Selected
  <2>4. job.genai => TextsHeld(a)'
    <3> SUFFICES ASSUME job.genai
                 PROVE  TextsHeld(a)'
      BY <1>0
    <3>1. at'[a] = s /\ touched' /\ replacements' = {a} /\ TextsHeld(a)
      BY <1>0, <1>3, <2>1, <2>3 DEF AloneHeld
    <3>2. s = "manifest" \/ docs'["manifest"] = a
      <4>1. CASE s = "classify"
        BY <1>2, <1>3, <4>1
      <4>2. CASE s = "done"
        <5>1. docs["manifest"] = a
          BY <1>2, <3>1, <4>2 DEF TextsHeld, Writing, Selected
        <5> QED
          BY <1>3, <5>1
      <4> QED
        BY <1>2, <4>1, <4>2
    <3>3. s \in {"manifest", "classify", "done"}
      BY <1>2
    <3> QED
      BY <3>1, <3>2, <3>3 DEF TextsHeld, Asking, Texting, Writing, Selected
  <2>5. job.genai => \A b \in PlanAttempts : at[b] = "done" => b = a
    BY <2>1, <2>3 DEF AloneHeld, TextsHeld, Writing, Selected
  <2>6. CASE d # "plan"
    <3>1. docs'["plan"] = docs["plan"] /\ s # "put plan"
      BY <1>2, <1>3, <2>6 DEF Handoff!Documents
    <3> QED
      BY <1>0, <1>2, <2>1, <2>2, <2>4, <2>5, <3>1, AloneStays DEF AloneHeld
  <2>7. CASE d = "plan"
    <3>1. docs["plan"] = Unused /\ reserved = Unused
      BY <1>2, <2>1, <2>7 DEF AloneHeld
    <3>2. \A b \in PlanAttempts : at'[b] \notin Attempting \ {"done"}
      BY <1>2, <1>3, <2>1, <2>2, <2>7 DEF AloneHeld
    <3>3. ASSUME job.genai, NEW b \in PlanAttempts
          PROVE  TextsHeld(b)'
      <4>1. b = a \/ at'[b] # "done"
        BY <1>3, <2>5, <3>3
      <4>2. b = a \/ at'[b] \notin Asking \cup Texting \cup Writing \cup {"commit", "classify"}
        BY <3>2, <4>1 DEF Attempting
      <4> QED
        BY <2>4, <3>3, <4>2 DEF TextsHeld
    <3>4. \A b \in PlanAttempts : at'[b] # "put plan"
      BY <3>2 DEF Attempting, Writing, Selected
    <3> QED
      BY <1>0, <2>1, <3>1, <3>2, <3>3, <3>4 DEF AloneHeld
  <2> QED
    BY <2>6, <2>7
<1>7. docs'["plan"] = docs["plan"] \/ at'[docs'["plan"]] = "done"
  BY <1>2, <1>3
<1> QED
  BY <1>0, <1>4, <1>5, <1>6, <1>7, AttemptGoes

\* It classifies the roots and takes the snapshot it verifies afterwards.
LEMMA HandoffFreezes ==
    ASSUME HandoffInv, Handoff!AttemptsAreTold, NEW a \in PlanAttempts,
           Handoff!Classify(a) \/ Handoff!WriteDataset(a) \/ Handoff!Verify(a)
    PROVE  HandoffInv'
<1>0. UNCHANGED <<job, raws, raw, seen, touched, replacements, docs, reserved, handed, overlapped>>
  BY DEF Handoff!Classify, Handoff!WriteDataset, Handoff!Verify, Handoff!inputs, Handoff!files, Handoff!later
<1>T. HandoffTyped
  BY DEF HandoffInv
<1>1. PICK s :
         /\ at' = [at EXCEPT ![a] = s]
         /\ \/ /\ at[a] = "classify" /\ s \in {"snapshot", "failed"} /\ UNCHANGED snapshot
               /\ s = "snapshot" /\ job.ccb =>
                     Handoff!Classifies(raw, raws[seen[a]].roots) /\ classified' = [classified EXCEPT ![a] = raw]
               /\ classified' \in [PlanAttempts -> Versions]
               /\ \A b \in PlanAttempts \ {a} : classified'[b] = classified[b]
            \/ /\ at[a] = "snapshot" /\ s \in {"snapshot", "verify"} /\ UNCHANGED classified
               /\ s = "verify" => Len(snapshot'[a]) = 3
               /\ snapshot' \in [PlanAttempts -> Seq(Versions)]
               /\ \A b \in PlanAttempts \ {a} : snapshot'[b] = snapshot[b]
            \/ /\ at[a] = "verify" /\ s \in {"plan", "failed"} /\ UNCHANGED <<classified, snapshot>>
               /\ s = "plan" => Handoff!SnapshotHolds(a)
  <2>1. CASE Handoff!Classify(a)
    <3>1. CASE job.ccb
      <4> PICK v : v = IF Handoff!Classifies(raw, raws[seen[a]].roots) THEN raw ELSE Unused
        OBVIOUS
      <4>1. classified' = [classified EXCEPT ![a] = v] /\ v \in Versions
        BY <2>1, <3>1, <1>T DEF Handoff!Classify, HandoffTyped, Versions
      <4>2. /\ classified' \in [PlanAttempts -> Versions]
            /\ \A b \in PlanAttempts \ {a} : classified'[b] = classified[b]
        BY <4>1, <1>T DEF HandoffTyped
      <4>3. CASE Handoff!Classifies(raw, raws[seen[a]].roots)
        BY <2>1, <3>1, <4>1, <4>2, <4>3 DEF Handoff!Classify, Handoff!GoOrFail, Handoff!Go
      <4>4. CASE ~Handoff!Classifies(raw, raws[seen[a]].roots)
        BY <2>1, <3>1, <4>1, <4>2, <4>4 DEF Handoff!Classify, Handoff!GoOrFail, Handoff!Go
      <4> QED
        BY <4>3, <4>4
    <3>2. CASE ~job.ccb
      BY <2>1, <3>2, <1>T DEF Handoff!Classify, Handoff!Go, HandoffTyped
    <3> QED
      BY <3>1, <3>2
  <2>2. CASE Handoff!WriteDataset(a)
    <3>1. PICK version \in Versions : snapshot' = [snapshot EXCEPT ![a] = Append(@, version)]
      BY <2>2, <1>T DEF Handoff!WriteDataset, HandoffTyped, Versions
    <3>2. /\ snapshot' \in [PlanAttempts -> Seq(Versions)]
          /\ \A b \in PlanAttempts \ {a} : snapshot'[b] = snapshot[b]
      BY <3>1, <1>T DEF HandoffTyped
    <3>3. Len(Handoff!Tables) + 1 = 3
      BY DEF Handoff!Tables
    <3> QED
      BY <2>2, <3>2, <3>3 DEF Handoff!WriteDataset, Handoff!Go
  <2>3. CASE Handoff!Verify(a)
    BY <2>3 DEF Handoff!Verify, Handoff!GoOrFail, Handoff!Go, Handoff!files
  <2> QED
    BY <2>1, <2>2, <2>3
<1>2. \A b \in PlanAttempts : at'[b] = IF b = a THEN s ELSE at[b]
  BY <1>1, <1>T DEF HandoffTyped
<1>3. /\ \A b \in PlanAttempts \ {a} : classified'[b] = classified[b] /\ snapshot'[b] = snapshot[b]
      /\ classified' \in [PlanAttempts -> Versions] /\ snapshot' \in [PlanAttempts -> Seq(Versions)]
  BY <1>1, <1>T DEF HandoffTyped
<1>4. HandoffTyped' /\ Own(a)
  BY <1>0, <1>1, <1>2, <1>3, <1>T DEF HandoffTyped, Own, Attempting, Writing, Selected
<1>5. FrozenHeld(a)'
  <2>1. FrozenHeld(a)
    BY DEF HandoffInv
  <2>2. CASE at[a] = "classify" /\ s = "snapshot"
    <3>1. job.ccb => Handoff!Classifies(classified[a], raws[seen[a]].roots)'
      <4> SUFFICES ASSUME job.ccb
                   PROVE  Handoff!Classifies(classified[a], raws[seen[a]].roots)'
        BY <1>0
      <4>1. Handoff!Classifies(raw, raws[seen[a]].roots) /\ classified'[a] = raw
        BY <1>1, <1>T, <2>2 DEF HandoffTyped
      <4> QED
        BY <1>0, <4>1 DEF Handoff!Classifies
    <3> QED
      BY <1>0, <1>2, <2>2, <3>1 DEF FrozenHeld, Asking, Texting, Writing, Selected
  <2>3. CASE at[a] \in {"snapshot", "verify"}
    <3>1. job.ccb => Handoff!Classifies(classified[a], raws[seen[a]].roots)'
      BY <1>0, <1>1, <2>1, <2>3 DEF FrozenHeld, Writing, Handoff!Classifies
    <3>2. s = "plan" => Handoff!SnapshotHolds(a)' /\ Len(snapshot'[a]) = 3
      <4> SUFFICES ASSUME s = "plan"
                   PROVE  Handoff!SnapshotHolds(a)' /\ Len(snapshot'[a]) = 3
        BY <1>0
      <4>1. at[a] = "verify" /\ UNCHANGED snapshot /\ Handoff!SnapshotHolds(a)
        BY <1>1
      <4>2. Handoff!MissingHold(a)' = Handoff!MissingHold(a)
        BY <1>0, <4>1 DEF Handoff!MissingHold, Handoff!Missing
      <4>3. Handoff!SnapshotHolds(a)'
        BY <1>0, <4>1, <4>2 DEF Handoff!SnapshotHolds, Handoff!SnapshotHoldsCounts
      <4> QED
        BY <2>1, <4>1, <4>3 DEF FrozenHeld
    <3>3. s = "verify" => Len(snapshot'[a]) = 3
      BY <1>1
    <3>4. s \in {"snapshot", "verify", "plan", "failed"}
      BY <1>1
    <3> QED
      BY <1>0, <1>2, <3>1, <3>2, <3>3, <3>4 DEF FrozenHeld, Asking, Texting, Writing, Selected
  <2>4. CASE s = "failed"
    BY <1>2, <2>4 DEF FrozenHeld, Asking, Texting, Writing, Selected
  <2> QED
    BY <1>1, <2>2, <2>3, <2>4
<1>6. ASSUME ~overlapped'
      PROVE  AloneHeld'
  <2>1. AloneHeld
    BY <1>0, <1>6 DEF HandoffInv
  <2>5. at[a] \in Writing \cup {"classify"} /\ s \in {"snapshot", "verify", "plan", "failed"}
    BY <1>1 DEF Writing, Selected
  <2>2. job.genai => TextsHeld(a)'
    <3>1. job.genai => touched /\ replacements = {a} /\ docs["manifest"] = a
      BY <2>1, <2>5 DEF AloneHeld, TextsHeld
    <3>2. s \notin Asking \cup Texting \cup {"commit"}
      BY <2>5 DEF Asking, Texting
    <3> QED
      BY <1>0, <1>2, <3>1, <3>2 DEF TextsHeld
  <2>3. at[a] \in Attempting \ {"done"} /\ s # "put plan"
    BY <1>1 DEF Attempting, Writing, Selected
  <2>4. job.genai => \A b \in PlanAttempts : at[b] = "done" => TextsHeld(b)'
    BY <1>0, <1>2, <2>1, <2>3, DoneStays
  <2> QED
    BY <1>0, <1>1, <1>T, <2>1, <2>2, <2>3, <2>4, AloneStays DEF AloneHeld
<1> QED
  BY <1>0, <1>4, <1>5, <1>6, AttemptGoes

\* An attempt fails or dies.
LEMMA HandoffDie ==
    ASSUME HandoffInv, Handoff!AttemptsAreTold, NEW a \in PlanAttempts, Handoff!Die(a)
    PROVE  HandoffInv'
<1>0. UNCHANGED <<job, raws, raw, seen, touched, replacements, docs, classified, snapshot, reserved, handed, overlapped>>
  BY DEF Handoff!Die, Handoff!inputs, Handoff!files, Handoff!later
<1>T. HandoffTyped
  BY DEF HandoffInv
<1>1. at' = [at EXCEPT ![a] = "dead"] /\ at[a] \in Attempting \ {"done"}
  BY <1>T DEF Handoff!Die, Handoff!Go, Handoff!Running, Handoff!Ended, HandoffTyped
<1>2. \A b \in PlanAttempts : at'[b] = IF b = a THEN "dead" ELSE at[b]
  BY <1>1, <1>T DEF HandoffTyped
<1>4. HandoffTyped' /\ Own(a)
  BY <1>0, <1>1, <1>2, <1>T DEF HandoffTyped, Own
<1>5. FrozenHeld(a)'
  BY <1>2 DEF FrozenHeld, Asking, Texting, Writing, Selected
<1>6. ASSUME ~overlapped'
      PROVE  AloneHeld'
  <2>1. AloneHeld
    BY <1>0, <1>6 DEF HandoffInv
  <2>2. TextsHeld(a)'
    BY <1>2 DEF TextsHeld, Asking, Texting, Writing, Selected
  <2>4. job.genai => \A b \in PlanAttempts : at[b] = "done" => TextsHeld(b)'
    BY <1>0, <1>1, <1>2, <2>1, DoneStays
  <2> QED
    BY <1>0, <1>1, <1>T, <2>1, <2>2, <2>4, AloneStays DEF AloneHeld
<1> QED
  BY <1>0, <1>4, <1>5, <1>6, AttemptGoes

\* RAW is replaced, or the reservation is made.
LEMMA HandoffAround ==
    ASSUME HandoffInv, Handoff!AttemptsAreTold, Handoff!ReplaceRaw \/ Handoff!Reserve
    PROVE  HandoffInv'
<1>0. /\ UNCHANGED <<job, raws, at, seen, touched, replacements, docs, classified, snapshot, handed, overlapped>>
      /\ reserved # Unused => reserved' = reserved
      /\ reserved' # Unused => reserved' \in {reserved, docs["plan"]}
      /\ raw \in Nat => raw' \in Nat
  BY DEF Handoff!ReplaceRaw, Handoff!Reserve, Handoff!inputs, Handoff!files, Handoff!later
<1>1. HandoffTyped'
  BY <1>0 DEF HandoffInv, HandoffTyped
<1>2. \A a \in PlanAttempts : FrozenHeld(a)'
  BY <1>0, FrozenStays DEF HandoffInv
<1>3. PlanHeldBy' /\ HandedHeld'
  BY <1>0, HandedStays DEF HandoffInv, PlanHeldBy, Handoff!AttemptsAreTold
<1>4. ~overlapped' => AloneHeld'
  BY <1>0 DEF HandoffInv, AloneHeld, TextsHeld
<1> QED
  BY <1>0, <1>1, <1>2, <1>3, <1>4 DEF HandoffInv, Handoff!Refused

\* What is taken is the snapshot that was verified, and what RAW was
\* classified from.
LEMMA HandoffMaterialize ==
    ASSUME HandoffInv, Handoff!AttemptsAreTold, Handoff!Materialize
    PROVE  HandoffInv'
<1>0. UNCHANGED <<job, raws, raw, at, seen, touched, replacements, docs, classified, snapshot, reserved, overlapped>>
  BY DEF Handoff!Materialize, Handoff!inputs, Handoff!files
<1> PICK p : p = docs["plan"]
  OBVIOUS
<1>1. p \in PlanAttempts /\ at[p] = "done" /\ reserved # Unused
  BY DEF Handoff!Materialize, HandoffInv, PlanHeldBy, HandoffTyped, Handoff!Documents
<1>2. Handoff!SnapshotHolds(p) /\ Len(snapshot[p]) = 3
  BY <1>1 DEF HandoffInv, FrozenHeld, Selected
<1>3. job.ccb => Handoff!Classifies(classified[p], raws[seen[p]].roots)
  BY <1>1 DEF HandoffInv, FrozenHeld, Writing, Selected
<1>4. HandoffTyped' /\ PlanHeldBy' /\ (\A a \in PlanAttempts : FrozenHeld(a)') /\ (~overlapped' => AloneHeld')
  <2>1. \A a \in PlanAttempts : FrozenHeld(a)'
    BY <1>0, FrozenStays DEF HandoffInv
  <2> QED
    BY <1>0, <2>1 DEF HandoffInv, HandoffTyped, PlanHeldBy, AloneHeld, TextsHeld
<1>5. CASE reserved = p /\ (job.genai => Handoff!LoadReplacements(p))
  <2> PICK e : e = IF job.ccb THEN Handoff!Evidence(p) ELSE <<>>
    OBVIOUS
  <2> PICK t : t = IF job.genai THEN replacements ELSE {}
    OBVIOUS
  <2>1. handed' = [accepted |-> TRUE, plan |-> p, texts |-> t, datasets |-> snapshot[p], evidence |-> e]
    BY <1>2, <1>5 DEF Handoff!Materialize
  <2>2. handed'.accepted /\ handed'.plan = p /\ handed'.texts = t /\ handed'.datasets = snapshot[p]
            /\ handed'.evidence = e
    BY <2>1
  <2>3. handed' # Handoff!Refused
    BY <2>2 DEF Handoff!Refused
  <2>4. t = IF job.genai THEN {p} ELSE {}
    BY <1>5 DEF Handoff!LoadReplacements
  <2>5. snapshot[p] \in Seq(Versions) /\ DOMAIN snapshot[p] = 1 .. 3
    BY <1>1, <1>2 DEF HandoffInv, HandoffTyped
  <2>6. raws[snapshot[p][1]].roots = raws[seen[p]].roots
    BY <1>2 DEF Handoff!SnapshotHolds
  <2>7. \A i \in DOMAIN Handoff!Tables :
           raws[snapshot[p][i]].counts[Handoff!Tables[i]] = raws[seen[p]].counts[Handoff!Tables[i]]
    BY <1>2 DEF Handoff!SnapshotHolds, Handoff!SnapshotHoldsCounts
  <2>8. job.ccb => /\ {c[1] : c \in DOMAIN e} = raws[seen[p]].roots
                   /\ \A c \in DOMAIN e : e[c] # Unused
    <3> SUFFICES ASSUME job.ccb
                 PROVE  /\ {c[1] : c \in DOMAIN e} = raws[seen[p]].roots
                        /\ \A c \in DOMAIN e : e[c] # Unused
      OBVIOUS
    <3>1. job.K \in Nat \ {0}
      BY DEF HandoffInv, HandoffTyped, Handoff!AttemptsAreTold
    <3>2. 1 \in 1 .. job.K
      BY <3>1
    <3>3. e = Handoff!Evidence(p)
      OBVIOUS
    <3>4. DOMAIN e = raws[seen[p]].roots \X (1 .. job.K)
      BY <3>3 DEF Handoff!Evidence
    <3>5. {c[1] : c \in DOMAIN e} = raws[seen[p]].roots
      <4>1. ASSUME NEW r \in raws[seen[p]].roots
            PROVE  r \in {c[1] : c \in DOMAIN e}
        <5>1. <<r, 1>> \in DOMAIN e /\ r = <<r, 1>>[1]
          BY <3>2, <3>4
        <5> QED
          BY <5>1, Zenon
      <4>2. ASSUME NEW c \in DOMAIN e
            PROVE  c[1] \in raws[seen[p]].roots
        BY <3>4
      <4> QED
        BY <4>1, <4>2, Zenon
    <3>6. ASSUME NEW c \in DOMAIN e
          PROVE  e[c] # Unused
      <4>1. c[1] \in raws[seen[p]].roots /\ e[c] = raws[classified[p]].classes[c[1]]
        BY <3>3, <3>4, <3>6 DEF Handoff!Evidence
      <4> QED
        BY <1>3, <4>1 DEF Handoff!Classifies
    <3> QED
      BY <3>5, <3>6
  <2>9. 1 \in DOMAIN snapshot[p] /\ DOMAIN Handoff!Tables \subseteq DOMAIN snapshot[p]
    BY <2>5 DEF Handoff!Tables
  <2>10. Handoff!HandoffIsSealed'
    BY <1>0, <1>5, <2>2, <2>4, <2>6, <2>7, <2>8, <2>9 DEF Handoff!HandoffIsSealed
  <2>11. HandedHeld'
    BY <1>0, <1>1, <2>2, <2>10 DEF HandedHeld
  <2> QED
    BY <1>4, <2>3, <2>11 DEF HandoffInv, Handoff!Refused
<1>6. CASE ~(reserved = p /\ (job.genai => Handoff!LoadReplacements(p)))
  <2>1. handed' = Handoff!Refused
    BY <1>6 DEF Handoff!Materialize
  <2>2. overlapped
    <3> SUFFICES ASSUME AloneHeld
                 PROVE  FALSE
      BY DEF HandoffInv
    <3>1. reserved = p
      BY <1>1 DEF AloneHeld
    <3>2. job.genai => Handoff!LoadReplacements(p)
      BY <1>1 DEF AloneHeld, TextsHeld, Writing, Selected, Handoff!LoadReplacements
    <3> QED
      BY <1>6, <3>1, <3>2
  <2>3. HandedHeld'
    BY <2>1 DEF HandedHeld, Handoff!Refused
  <2> QED
    BY <1>0, <1>4, <2>2, <2>3 DEF HandoffInv
<1> QED
  BY <1>5, <1>6

\* Every step keeps the invariant.
LEMMA HandoffKeeps ==
    ASSUME Handoff!AttemptsAreTold, HandoffInv, [Handoff!Next]_(Handoff!vars)
    PROVE  HandoffInv'
<1>1. CASE UNCHANGED Handoff!vars
  <2>1. UNCHANGED <<job, raws, raw, at, seen, touched, replacements, docs, classified, snapshot,
                    reserved, handed, overlapped>>
    BY <1>1 DEF Handoff!vars
  <2>2. \A a \in PlanAttempts : FrozenHeld(a)'
    BY <2>1, FrozenStays DEF HandoffInv
  <2>3. HandedHeld'
    BY <2>1, HandedStays DEF HandoffInv, Handoff!AttemptsAreTold
  <2> QED
    BY <2>1, <2>2, <2>3 DEF HandoffInv, HandoffTyped, PlanHeldBy, AloneHeld, TextsHeld,
        Handoff!Refused
<1>2. ASSUME NEW a \in PlanAttempts, Handoff!Attempt(a)
      PROVE  HandoffInv'
  BY <1>2, HandoffStart, HandoffTexts, HandoffCommits, HandoffLook, HandoffPut, HandoffFreezes,
      HandoffDie DEF Handoff!Attempt
<1>3. CASE Handoff!Next
  BY <1>1, <1>2, <1>3, HandoffAround, HandoffMaterialize DEF Handoff!Next, Handoff!Over
<1> QED
  BY <1>1, <1>3

\* What is checked of a hand-off follows.
LEMMA HandoffHolds ==
    ASSUME HandoffInv
    PROVE  Handoff!HandoffIsSealed /\ Handoff!RefusedForAReason
<1>1. handed # Unused /\ handed.accepted => handed # Handoff!Refused
  BY DEF Handoff!Refused
<1>2. Handoff!HandoffIsSealed
  <2>1. CASE handed # Unused /\ handed # Handoff!Refused
    BY <2>1 DEF HandoffInv, HandedHeld
  <2>2. CASE ~(handed # Unused /\ handed.accepted)
    BY <2>2, Zenon DEF Handoff!HandoffIsSealed
  <2> QED
    BY <1>1, <2>1, <2>2
<1> QED
  BY <1>2 DEF HandoffInv, Handoff!RefusedForAReason

\* The invariant of a hand-off, of which the theorem at the end is a consequence.
THEOREM HandoffInvariant == Spec => [](program = "handoff" => HandoffInv)
<1> DEFINE Inv == program = "handoff" => HandoffInv
<1>1. Init => Inv
  BY HandoffBegins, ConstantsArePossible DEF Init
<1>2. Inv /\ [Next]_vars => Inv'
  BY StepsAreApart, HandoffKeeps, ConstantsArePossible
<1> QED
  BY <1>1, <1>2, PTL DEF Spec

-----------------------------------------------------------------------------
(* The commands of a plan and of its materialization (EngordaCommands).     *)

\* The commands there are, and the tables whose keys are known.
Given == Engorda!Issued
Known == DOMAIN RawMax

\* What the state is made of.
Typing ==
    /\ DOMAIN planned = Uris /\ DOMAIN commanded = Uris /\ DOMAIN reservations = Uris
    /\ DOMAIN free = {"keys", "code", "ordinal"}
    /\ free.keys \in [Known -> Nat] /\ free.code \in Nat /\ free.ordinal \in Nat \ {0}
    /\ DOMAIN world = {"day", "spec", "top", "code", "moves"}
    /\ world.top \in [Known -> Nat] /\ world.code \in Nat /\ world.spec \in DOMAIN EngordaSpecs

\* The plan p is what command c asks for when the world is as in met.
TablesAsked(c, spec) ==
    (EngordaProducts[c.product].tables \cup {t \in DOMAIN EngordaSpecs[spec] : ~EngordaSpecs[spec][t]})
        \ (EngordaProducts[c.product].static \cup c.static)

DateAsked(c, met) ==
    IF Engorda!Live(c) THEN met.day
    ELSE IF c.date # Unused THEN c.date ELSE IF c.ts # Unused THEN c.ts ELSE met.day

VolumeAsked(p, c) ==
    /\ Engorda!Cardinality(p.roots) \in Nat /\ p.k \in Nat
    /\ IF c.num_ifs # Unused THEN p.roots = c.num_ifs /\ p.k = c.k
       ELSE Engorda!Cardinality(p.roots) * p.k >= c.n * c.k

KeysAsked(p, c, met) ==
    /\ DOMAIN p.tables = TablesAsked(c, met.spec)
    /\ \A t \in DOMAIN p.tables :
          /\ p.tables[t].step = c.step
          /\ p.tables[t].count = Engorda!Cardinality(p.roots) * RawRows[t] * p.k
          /\ p.tables[t].minimum \in Nat /\ p.tables[t].minimum > RawMax[t]
          /\ p.tables[t].count \in Nat

CodesAsked(p, c) ==
    /\ p.cod_if.strategy = Engorda!Allocator(c)
    /\ p.cod_if.strategy = "synthetic_cdb" => p.cod_if.type = 49
    /\ p.cod_if.count = Engorda!Cardinality(p.roots) * p.k /\ p.cod_if.minimum \in Nat
    /\ p.cod_if.count \in Nat

OthersAsked(p, c, met) ==
    /\ p.product = c.product /\ p.date = DateAsked(c, met)
    /\ p.raw = c.raw /\ p.output = c.output /\ p.specs = c.specs /\ p.spec = met.spec
    /\ p.faltantes = c.faltantes /\ p.query = c.query /\ p.term = c.term
    /\ p.nullified = EngordaProducts[c.product].nullified \cup c.nullified
    /\ p.meu.requested = c.prefix /\ p.meu.date = p.date /\ p.meu.count \in Nat
    /\ p.oracle_access = IF c.no_oracle THEN "disabled" ELSE "live"

\* A plan is a record with the fields a materialization compares.
Shaped(p) ==
    /\ p = [x \in DOMAIN p |-> p[x]]
    /\ {"product", "raw", "output", "specs", "spec", "faltantes", "query", "nullified",
        "oracle_access"} \subseteq DOMAIN p

PlanMade(p, c, met) ==
    /\ c \in Given /\ c.phase = "plan" /\ ~c.dry_run /\ Engorda!Valid(c)
    /\ met.spec \in DOMAIN EngordaSpecs
    /\ EngordaProducts[c.product].tables \subseteq DOMAIN EngordaSpecs[met.spec]
    /\ Shaped(p) /\ VolumeAsked(p, c) /\ KeysAsked(p, c, met) /\ CodesAsked(p, c)
    /\ OthersAsked(p, c, met)

\* A reservation r lies below what is free in f.
Below(r, f) ==
    /\ \A t \in DOMAIN r.tables :
          /\ t \in Known
          /\ r.tables[t].start \in Nat /\ r.tables[t].step \in Nat \ {0} /\ r.tables[t].count \in Nat
          /\ r.tables[t].start + r.tables[t].count * r.tables[t].step <= f.keys[t]
    /\ r.meu.start \in Nat /\ r.meu.count \in Nat /\ r.meu.end = r.meu.start + r.meu.count - 1
    /\ r.meu.start + r.meu.count <= f.ordinal

\* r was reserved before s.
Precedes(r, s) ==
    /\ \A t \in DOMAIN r.tables \cap DOMAIN s.tables :
          r.tables[t].start + r.tables[t].count * r.tables[t].step <= s.tables[t].start
    /\ r.meu.start + r.meu.count <= s.meu.start

\* A reservation is that of its plan, with the prefix that was asked for.
ReservedHeld(u) ==
    reservations[u] # Unused =>
        /\ planned[u] # Unused
        /\ Engorda!Fits(reservations[u], planned[u])
        /\ reservations[u].meu.prefix =
              IF planned[u].meu.requested = Unused THEN DefaultPrefix ELSE planned[u].meu.requested
        /\ Below(reservations[u], free)

\* The output o at a path is made of a plan and of a reservation for it.
MadeOf(path, o) ==
    /\ o.plan \in Uris /\ planned[o.plan] # Unused /\ path = planned[o.plan].output
    /\ \E v \in Uris :
          /\ reservations[v] # Unused /\ reservations[v].plan = planned[o.plan]
          /\ DOMAIN o.tables = DOMAIN reservations[v].tables
          /\ \A t \in DOMAIN o.tables :
                /\ o.tables[t].start = reservations[v].tables[t].start
                /\ o.tables[t].step = reservations[v].tables[t].step
                /\ o.tables[t].count = reservations[v].tables[t].count
          /\ o.ordinals = reservations[v].meu.start .. reservations[v].meu.end

\* An output is made of a plan, or is not for Oracle.
Made(path) ==
    LET o == published[path]
    IN  IF o.plan # Unused THEN MadeOf(path, o) ELSE ~o.live

\* The inductive invariant of the commands: each plan is what its command asks
\* for, each reservation fits its plan and lies before or after any other, and
\* each output is made of the two.
CommandsInv ==
    /\ Typing
    /\ \A u \in Uris : planned[u] # Unused =>
          PlanMade(planned[u], commanded[u].command, commanded[u].world)
    /\ \A u \in Uris : ReservedHeld(u)
    /\ \A u, v \in Uris : u # v /\ reservations[u] # Unused /\ reservations[v] # Unused =>
          Precedes(reservations[u], reservations[v]) \/ Precedes(reservations[v], reservations[u])
    /\ \A path \in DOMAIN published : Made(path)
    /\ Engorda!MadeAsPlanned

\* It holds before the first command.
LEMMA CommandsBegin ==
    ASSUME Engorda!CommandsArePossible, Engorda!Init
    PROVE  CommandsInv
<1>1. Typing
  <2>1. RawMax \in [Known -> Nat] /\ 1 \in DOMAIN EngordaSpecs
    BY DEF Engorda!CommandsArePossible, Known
  <2>2. world = [day |-> 1, spec |-> 1, top |-> RawMax, code |-> 3, moves |-> 0]
    BY DEF Engorda!Init
  <2>3. free = [keys |-> [t \in Known |-> 1], code |-> 1, ordinal |-> 1]
    BY DEF Engorda!Init, Known
  <2>4. DOMAIN planned = Uris /\ DOMAIN commanded = Uris /\ DOMAIN reservations = Uris
    BY DEF Engorda!Init
  <2>5. DOMAIN free = {"keys", "code", "ordinal"} /\ DOMAIN world = {"day", "spec", "top", "code", "moves"}
    BY <2>2, <2>3
  <2>6. world.top = RawMax /\ world.code = 3 /\ world.spec = 1
    BY <2>2
  <2>7. free.keys = [t \in Known |-> 1] /\ free.code = 1 /\ free.ordinal = 1
    BY <2>3
  <2> QED
    BY <2>1, <2>4, <2>5, <2>6, <2>7 DEF Typing
<1>2. \A u \in Uris : planned[u] = Unused /\ reservations[u] = Unused
  BY DEF Engorda!Init
<1>3. DOMAIN published = {}
  BY DEF Engorda!Init
<1> QED
  BY <1>1, <1>2, <1>3 DEF CommandsInv, ReservedHeld, Engorda!MadeAsPlanned

\* A quotient that is rounded up.
LEMMA RoundedUp ==
    ASSUME NEW a \in Nat, NEW b \in Nat \ {0}
    PROVE  /\ (a + b - 1) \div b \in Nat
           /\ b * ((a + b - 1) \div b) >= a
<1> PICK q : q = (a + b - 1) \div b
  OBVIOUS
<1>1. a + b - 1 \in Nat
  OBVIOUS
<1>2. q \in Nat /\ a + b - 1 < q * b + b
  BY <1>1, Division
<1>3. q * b \in Nat /\ b * q = q * b
  BY <1>2
<1> QED
  BY <1>2, <1>3

\* The counts of the instance are those of this module.
LEMMA EngordaCounts ==
    ASSUME NEW S
    PROVE  /\ Engorda!Cardinality(S) = Cardinality(S)
           /\ Engorda!IsFiniteSet(S) <=> IsFiniteSet(S)
BY DEF Engorda!Cardinality, Cardinality, Engorda!IsFiniteSet, IsFiniteSet

\* The volume of a plan: the roots that were named, or as many copies of as
\* many as were asked for, rounded up when the sample is smaller.
LEMMA VolumeIsAsked ==
    ASSUME Engorda!CommandsArePossible, NEW c \in Given, Engorda!NamesItsInputs(c), c.phase = "plan",
           NEW S \in Engorda!Selections(c)
    PROVE  /\ Engorda!Cardinality(S) \in Nat /\ Engorda!Factor(c, S) \in Nat
           /\ IF c.num_ifs # Unused THEN S = c.num_ifs /\ Engorda!Factor(c, S) = c.k
              ELSE Engorda!Cardinality(S) * Engorda!Factor(c, S) >= c.n * c.k
<1>1. c.k \in Nat \ {0} /\ (c.n = Unused \/ c.n \in Nat \ {0})
  BY DEF Engorda!CommandsArePossible, Given
<1>2. IsFiniteSet(S)
  <2>1. IsFiniteSet(DOMAIN RootTypes)
    BY EngordaCounts DEF Engorda!CommandsArePossible
  <2>2. S \in SUBSET DOMAIN RootTypes
    BY DEF Engorda!Selections, Engorda!Pool
  <2> QED
    BY <2>1, <2>2, FS_Subset
<1>3. Engorda!Cardinality(S) \in Nat
  BY <1>2, EngordaCounts, FS_CardinalityType
<1>4. IF c.num_ifs # Unused THEN c.n = Unused ELSE c.n # Unused
  <2> PICK F : F = {f \in {"num_ifs", "n"} : c[f] # Unused}
    OBVIOUS
  <2>1. Cardinality(F) = 1
    <3>1. Engorda!Cardinality(F) = 1
      BY DEF Engorda!NamesItsInputs
    <3> QED
      BY <3>1, EngordaCounts
  <2>2. CASE c.num_ifs # Unused /\ c.n # Unused
    <3>1. F = {"num_ifs"} \cup {"n"}
      BY <2>2
    <3>2. IsFiniteSet({"num_ifs"}) /\ Cardinality({"num_ifs"}) = 1
      BY FS_Singleton
    <3>3. Cardinality({"num_ifs"} \cup {"n"}) = 2
      <4>1. "n" \notin {"num_ifs"}
        OBVIOUS
      <4>2. Cardinality({"num_ifs"} \cup {"n"}) = Cardinality({"num_ifs"}) + 1
        BY <3>2, <4>1, FS_AddElement
      <4> QED
        BY <3>2, <4>2
    <3> QED
      BY <2>1, <3>1, <3>3
  <2>3. CASE c.num_ifs = Unused /\ c.n = Unused
    <3>1. F = {}
      BY <2>3
    <3> QED
      BY <2>1, <3>1, FS_EmptySet
  <2> QED
    BY <2>2, <2>3
<1>5. CASE c.num_ifs # Unused
  BY <1>1, <1>3, <1>4, <1>5 DEF Engorda!Selections, Engorda!Factor
<1>6. CASE c.num_ifs = Unused
  <2>1. c.n \in Nat \ {0}
    BY <1>1, <1>4, <1>6
  <2>2. Engorda!Cardinality(S) = c.n \/ (S # {} /\ c.adjust)
    BY <1>6 DEF Engorda!Selections
  <2>3. CASE c.adjust /\ Engorda!Cardinality(S) < c.n
    <3> PICK b : b = Engorda!Cardinality(S)
      OBVIOUS
    <3> PICK a : a = c.n * c.k
      OBVIOUS
    <3>1. b \in Nat \ {0}
      <4>1. S # {}
        BY <2>1, <2>2, <2>3, <1>3
      <4> QED
        BY <1>2, <1>3, <4>1, EngordaCounts, FS_EmptySet
    <3>2. a \in Nat
      BY <1>1, <2>1
    <3>3. Engorda!Factor(c, S) = (a + b - 1) \div b
      BY <1>4, <1>6, <2>3 DEF Engorda!Factor
    <3> QED
      BY <1>3, <1>6, <3>1, <3>2, <3>3, RoundedUp
  <2>4. CASE ~(c.adjust /\ Engorda!Cardinality(S) < c.n)
    <3>1. Engorda!Factor(c, S) = c.k
      BY <2>4 DEF Engorda!Factor
    <3>2. Engorda!Cardinality(S) = c.n
      <4>1. Engorda!Pool(c) \in SUBSET DOMAIN RootTypes
        BY DEF Engorda!Pool
      <4>2. Engorda!Cardinality(Engorda!Pool(c)) \in Nat
        <5>1. IsFiniteSet(DOMAIN RootTypes)
          BY EngordaCounts DEF Engorda!CommandsArePossible
        <5> QED
          BY <4>1, <5>1, EngordaCounts, FS_Subset, FS_CardinalityType
      <4> QED
        BY <1>3, <1>6, <2>1, <2>4, <4>2 DEF Engorda!Selections
    <3> QED
      BY <1>1, <1>3, <1>6, <2>1, <3>1, <3>2
  <2> QED
    BY <2>3, <2>4
<1> QED
  BY <1>3, <1>5, <1>6

\* What is frozen is what is asked for.
LEMMA FrozenAsAsked ==
    ASSUME Engorda!CommandsArePossible, Typing, NEW c \in Given, Engorda!Plan(c),
           NEW S \in Engorda!Selections(c), NEW type \in Engorda!TypesFor(c, S)
    PROVE  PlanMade(Engorda!Frozen(c, S, type), c, world)
<1> PICK p : p = Engorda!Frozen(c, S, type)
  OBVIOUS
<1> PICK k : k = Engorda!Factor(c, S)
  OBVIOUS
<1>1. /\ c.phase = "plan" /\ ~c.dry_run /\ Engorda!Valid(c) /\ Engorda!NamesItsInputs(c)
      /\ Engorda!TablesKnown(c) /\ Engorda!OffsetOK(c)
  BY DEF Engorda!Plan, Engorda!Valid
<1>2. /\ Engorda!Cardinality(S) \in Nat /\ k \in Nat
      /\ IF c.num_ifs # Unused THEN S = c.num_ifs /\ k = c.k
         ELSE Engorda!Cardinality(S) * k >= c.n * c.k
  BY <1>1, VolumeIsAsked
<1>3. c.raw # Unused /\ c.output # Unused
  BY <1>1 DEF Engorda!NamesItsInputs
<1>4. /\ p.product = c.product /\ p.roots = S /\ p.k = k /\ p.date = Engorda!DateOf(c)
      /\ p.raw = Engorda!Raw(c) /\ p.output = Engorda!Output(c) /\ p.specs = c.specs
      /\ p.spec = world.spec /\ p.faltantes = c.faltantes /\ p.query = c.query /\ p.term = c.term
      /\ p.nullified = EngordaProducts[c.product].nullified \cup c.nullified
      /\ p.tables = [t \in Engorda!TablesOf(c) |->
                        [count |-> Engorda!Cardinality(S) * RawRows[t] * k, step |-> c.step,
                         minimum |-> Engorda!FirstKey(c, t)]]
      /\ p.cod_if = [strategy |-> Engorda!Allocator(c), type |-> type, count |-> Engorda!Cardinality(S) * k,
                     minimum |-> IF Engorda!Allocator(c) = "synthetic_cdb" THEN world.code + 1 ELSE 0]
      /\ p.meu = [requested |-> c.prefix, date |-> Engorda!DateOf(c),
                  count |-> Engorda!Cardinality(S) * RawRows[Engorda!Operation] * k]
      /\ p.oracle_access = IF c.no_oracle THEN "disabled" ELSE "live"
  BY DEF Engorda!Frozen
<1>5. Shaped(p)
  BY DEF Engorda!Frozen, Shaped
<1>6. VolumeAsked(p, c)
  BY <1>2, <1>4 DEF VolumeAsked
<1>7. KeysAsked(p, c, world)
  <2>1. DOMAIN p.tables = TablesAsked(c, world.spec)
    BY <1>4 DEF Engorda!TablesOf, TablesAsked
  <2>2. ASSUME NEW t \in DOMAIN p.tables
        PROVE  /\ p.tables[t].step = c.step
               /\ p.tables[t].count = Engorda!Cardinality(p.roots) * RawRows[t] * p.k
               /\ p.tables[t].minimum \in Nat /\ p.tables[t].minimum > RawMax[t]
               /\ p.tables[t].count \in Nat
    <3>1. /\ p.tables[t].step = c.step /\ p.tables[t].minimum = Engorda!FirstKey(c, t)
          /\ p.tables[t].count = Engorda!Cardinality(S) * RawRows[t] * k
      BY <1>4
    <3>2. t \in Known
      BY <2>1 DEF TablesAsked, Engorda!CommandsArePossible, Known, Given, Typing
    <3>3. RawMax[t] \in Nat /\ RawRows[t] \in Nat /\ world.top[t] \in Nat
      BY <3>2 DEF Engorda!CommandsArePossible, Known, Typing
    <3>4. c.offset \in Nat \/ c.offset = Unused
      BY DEF Engorda!CommandsArePossible, Given
    <3>5. Engorda!FirstKey(c, t) \in Nat /\ Engorda!FirstKey(c, t) > RawMax[t]
      BY <1>1, <3>3, <3>4 DEF Engorda!FirstKey, Engorda!OffsetOK, Engorda!Greater
    <3> QED
      BY <1>2, <1>4, <3>1, <3>3, <3>5
  <2> QED
    BY <2>1, <2>2 DEF KeysAsked
<1>8. CodesAsked(p, c)
  <2>1. Engorda!Allocator(c) = "synthetic_cdb" => type = 49
    BY DEF Engorda!TypesFor
  <2>2. p.cod_if.minimum \in Nat
    BY <1>4 DEF Typing
  <2> QED
    BY <1>2, <1>4, <2>1, <2>2 DEF CodesAsked
<1>9. OthersAsked(p, c, world)
  <2>1. RawRows[Engorda!Operation] \in Nat
    BY DEF Engorda!CommandsArePossible
  <2>2. p.meu.count \in Nat /\ p.meu.requested = c.prefix /\ p.meu.date = p.date
    BY <1>2, <1>4, <2>1
  <2>3. p.date = DateAsked(c, world)
    <3>1. Engorda!DateOf(c) = DateAsked(c, world)
      BY DEF Engorda!DateOf, DateAsked
    <3> QED
      BY <1>4, <3>1
  <2>4. p.raw = c.raw /\ p.output = c.output
    <3>1. Engorda!Raw(c) = c.raw
      BY <1>3 DEF Engorda!Raw
    <3>2. Engorda!Output(c) = c.output
      BY <1>3 DEF Engorda!Output
    <3> QED
      BY <1>4, <3>1, <3>2
  <2> QED
    BY <1>4, <2>2, <2>3, <2>4 DEF OthersAsked
<1>10. /\ world.spec \in DOMAIN EngordaSpecs
       /\ EngordaProducts[c.product].tables \subseteq DOMAIN EngordaSpecs[world.spec]
  BY <1>1 DEF Typing, Engorda!TablesKnown
<1> QED
  BY <1>1, <1>5, <1>6, <1>7, <1>8, <1>9, <1>10 DEF PlanMade

\* What is held of an output rests on its plan, its command and a reservation.
LEMMA MadeStays ==
    ASSUME CommandsInv, NEW path \in DOMAIN published, published'[path] = published[path],
           \A u \in Uris : planned[u] # Unused =>
               planned'[u] = planned[u] /\ commanded'[u] = commanded[u],
           \A u \in Uris : reservations[u] # Unused => reservations'[u] = reservations[u]
    PROVE  /\ Made(path)'
           /\ published'[path].plan # Unused =>
                 commanded'[published'[path].plan] = commanded[published[path].plan]
<1>1. Made(path)
  BY DEF CommandsInv
<1>2. CASE published[path].plan = Unused
  BY <1>1, <1>2 DEF Made
<1>3. CASE published[path].plan # Unused
  <2>1. MadeOf(path, published[path])
    BY <1>1, <1>3 DEF Made
  <2>2. MadeOf(path, published[path])'
    BY <2>1 DEF MadeOf
  <2> QED
    BY <1>3, <2>1, <2>2 DEF Made, MadeOf
<1> QED
  BY <1>2, <1>3

\* A command that plans keeps the invariant.
LEMMA CommandsPlan ==
    ASSUME Engorda!CommandsArePossible, CommandsInv, NEW c \in Given, Engorda!Plan(c)
    PROVE  CommandsInv'
<1>0. PICK S \in Engorda!Selections(c) : \E type \in Engorda!TypesFor(c, S) :
         planned' = [planned EXCEPT ![c.plan_uri] = Engorda!Frozen(c, S, type)]
  BY DEF Engorda!Plan
<1>1. PICK type \in Engorda!TypesFor(c, S) :
         planned' = [planned EXCEPT ![c.plan_uri] = Engorda!Frozen(c, S, type)]
  BY <1>0
<1> PICK u : u = c.plan_uri
  OBVIOUS
<1> PICK p : p = Engorda!Frozen(c, S, type)
  OBVIOUS
<1> PICK w : w = world
  OBVIOUS
<1>2. u \in Uris /\ planned[u] = Unused
  <2>1. c.phase = "plan" /\ Engorda!NamesItsInputs(c) /\ planned[u] = Unused
    BY DEF Engorda!Plan, Engorda!Valid
  <2>2. c.plan_uri # Unused
    BY <2>1 DEF Engorda!NamesItsInputs
  <2> QED
    BY <2>1, <2>2 DEF Engorda!CommandsArePossible, Given
<1>3. PlanMade(p, c, w)
  BY FrozenAsAsked DEF CommandsInv
<1>4. /\ UNCHANGED <<reservations, free, published, world>>
      /\ commanded' = [commanded EXCEPT ![u] = [command |-> c, world |-> w]]
      /\ planned' = [planned EXCEPT ![u] = p]
  BY <1>1 DEF Engorda!Plan
<1>5. /\ \A v \in Uris : planned'[v] = IF v = u THEN p ELSE planned[v]
      /\ \A v \in Uris \ {u} : commanded'[v] = commanded[v]
      /\ commanded'[u].command = c /\ commanded'[u].world = w
      /\ DOMAIN planned' = Uris /\ DOMAIN commanded' = Uris
  BY <1>2, <1>4 DEF CommandsInv, Typing
<1>6. Typing'
  BY <1>4, <1>5 DEF CommandsInv, Typing
<1>7. ASSUME NEW v \in Uris, planned'[v] # Unused
      PROVE  PlanMade(planned'[v], commanded'[v].command, commanded'[v].world)
  BY <1>3, <1>5, <1>7 DEF CommandsInv
<1>8. ASSUME NEW v \in Uris
      PROVE  ReservedHeld(v)'
  <2>1. ReservedHeld(v)
    BY DEF CommandsInv
  <2> QED
    BY <1>2, <1>4, <1>5, <2>1 DEF ReservedHeld
<1>9. \A v \in Uris : planned[v] # Unused => planned'[v] = planned[v] /\ commanded'[v] = commanded[v]
  BY <1>2, <1>5
<1>10. \A path \in DOMAIN published' : Made(path)'
  BY <1>4, <1>9, MadeStays
<1>11. Engorda!MadeAsPlanned'
  <2>1. \A path \in DOMAIN published : published[path].plan # Unused =>
           commanded'[published[path].plan] = commanded[published[path].plan]
    BY <1>4, <1>9, MadeStays
  <2> QED
    BY <1>4, <2>1 DEF CommandsInv, Engorda!MadeAsPlanned
<1>12. \A a, b \in Uris : a # b /\ reservations'[a] # Unused /\ reservations'[b] # Unused =>
          Precedes(reservations'[a], reservations'[b]) \/ Precedes(reservations'[b], reservations'[a])
  BY <1>4 DEF CommandsInv
<1> QED
  BY <1>6, <1>7, <1>8, <1>10, <1>11, <1>12 DEF CommandsInv

\* Where a plan lies, and that its codes are as they must be.
LEMMA PlanIsReservable ==
    ASSUME Engorda!CommandsArePossible, NEW p, NEW c, NEW met, PlanMade(p, c, met)
    PROVE  /\ DOMAIN p.tables \subseteq Known
           /\ \A t \in DOMAIN p.tables :
                 p.tables[t].step \in Nat \ {0} /\ p.tables[t].count \in Nat /\ p.tables[t].minimum \in Nat
           /\ p.meu.count \in Nat /\ p.cod_if.count \in Nat /\ p.cod_if.minimum \in Nat
           /\ Engorda!CodesOK(p)
<1>1. /\ c \in Given /\ c.phase = "plan" /\ Engorda!Valid(c) /\ met.spec \in DOMAIN EngordaSpecs
      /\ KeysAsked(p, c, met) /\ CodesAsked(p, c) /\ OthersAsked(p, c, met) /\ VolumeAsked(p, c)
  BY DEF PlanMade
<1>2. c.product \in DOMAIN EngordaProducts /\ c.step \in Nat \ {0} /\ c.no_oracle \in BOOLEAN
  BY <1>1 DEF Engorda!CommandsArePossible, Given
<1>3. /\ DOMAIN p.tables = TablesAsked(c, met.spec)
      /\ \A t \in DOMAIN p.tables :
            /\ p.tables[t].step = c.step /\ p.tables[t].count \in Nat /\ p.tables[t].minimum \in Nat
            /\ p.tables[t].count = Engorda!Cardinality(p.roots) * RawRows[t] * p.k
  BY <1>1 DEF KeysAsked
<1>4. DOMAIN p.tables \subseteq Known
  BY <1>1, <1>2, <1>3 DEF TablesAsked, Engorda!CommandsArePossible, Known
<1>5. ASSUME p.cod_if.strategy = "synthetic_cdb"
      PROVE  /\ EngordaProducts[p.product].cdb /\ p.oracle_access = "live" /\ p.cod_if.type = 49
             /\ p.cod_if.count = p.tables[Engorda!Root].count
  <2>1. c.allocator = "synthetic_cdb"
    BY <1>1, <1>5 DEF CodesAsked, Engorda!Allocator
  <2>2. EngordaProducts[c.product].cdb /\ ~c.no_oracle
    BY <1>1, <2>1 DEF Engorda!Valid, Engorda!Live
  <2>3. Engorda!Root \in DOMAIN p.tables
    <3>1. Engorda!Root \in EngordaProducts[c.product].tables \ EngordaProducts[c.product].static
      BY <1>2 DEF Engorda!CommandsArePossible
    <3>2. Engorda!Root \notin c.static
      BY <1>1 DEF Engorda!Valid
    <3> QED
      BY <1>3, <3>1, <3>2 DEF TablesAsked
  <2>4. p.tables[Engorda!Root].count = p.cod_if.count
    <3>1. RawRows[Engorda!Root] = 1
      BY DEF Engorda!CommandsArePossible
    <3>2. Engorda!Cardinality(p.roots) \in Nat /\ p.k \in Nat
      BY <1>1 DEF VolumeAsked
    <3>3. p.tables[Engorda!Root].count = Engorda!Cardinality(p.roots) * 1 * p.k
      BY <1>3, <2>3, <3>1
    <3>4. p.cod_if.count = Engorda!Cardinality(p.roots) * p.k
      BY <1>1 DEF CodesAsked
    <3> QED
      BY <3>2, <3>3, <3>4
  <2> QED
    BY <1>1, <1>5, <2>2, <2>4 DEF OthersAsked, CodesAsked
<1>6. p.meu.count \in Nat /\ p.cod_if.count \in Nat /\ p.cod_if.minimum \in Nat
  BY <1>1 DEF OthersAsked, CodesAsked
<1> QED
  BY <1>2, <1>3, <1>4, <1>5, <1>6 DEF Engorda!CodesOK

\* A reservation fits its plan, starts where all was free, and what was free
\* only moves up.
LEMMA ReservationMade ==
    ASSUME Engorda!CommandsArePossible, CommandsInv, NEW u \in Uris, Engorda!Reserve(u)
    PROVE  /\ reservations[u] = Unused /\ planned[u] # Unused
           /\ \A v \in Uris \ {u} : reservations'[v] = reservations[v]
           /\ DOMAIN reservations' = Uris
           /\ Engorda!Fits(reservations'[u], planned[u])
           /\ reservations'[u].meu.prefix =
                 IF planned[u].meu.requested = Unused THEN DefaultPrefix ELSE planned[u].meu.requested
           /\ Below(reservations'[u], free')
           /\ \A t \in DOMAIN reservations'[u].tables : reservations'[u].tables[t].start >= free.keys[t]
           /\ reservations'[u].meu.start = free.ordinal
           /\ DOMAIN free' = {"keys", "code", "ordinal"}
           /\ free'.keys \in [Known -> Nat] /\ free'.code \in Nat /\ free'.ordinal \in Nat \ {0}
           /\ \A t \in Known : free.keys[t] <= free'.keys[t]
           /\ free.ordinal <= free'.ordinal
<1> PICK p : p = planned[u]
  OBVIOUS
<1> PICK f : f = free
  OBVIOUS
<1>1. /\ p # Unused /\ reservations[u] = Unused /\ PlanMade(p, commanded[u].command, commanded[u].world)
      /\ UNCHANGED <<planned, commanded, published, world>>
  BY DEF Engorda!Reserve, CommandsInv
<1>2. /\ DOMAIN p.tables \subseteq Known
      /\ \A t \in DOMAIN p.tables :
            p.tables[t].step \in Nat \ {0} /\ p.tables[t].count \in Nat /\ p.tables[t].minimum \in Nat
      /\ p.meu.count \in Nat /\ p.cod_if.count \in Nat /\ p.cod_if.minimum \in Nat
      /\ Engorda!CodesOK(p)
  BY <1>1, PlanIsReservable
<1>3. /\ DOMAIN reservations = Uris
      /\ f.keys \in [Known -> Nat] /\ f.code \in Nat /\ f.ordinal \in Nat \ {0}
  BY DEF CommandsInv, Typing
<1> PICK code : code = Engorda!Greater(f.code, p.cod_if.minimum)
  OBVIOUS
<1> PICK start : start = [t \in DOMAIN p.tables |-> Engorda!Greater(f.keys[t], p.tables[t].minimum)]
  OBVIOUS
<1> PICK r : r = reservations'[u]
  OBVIOUS
<1>4. r = [ plan |-> p, product |-> p.product,
            tables |-> [t \in DOMAIN p.tables |->
                          [start |-> start[t],
                           end |-> start[t] + (p.tables[t].count - 1) * p.tables[t].step,
                           step |-> p.tables[t].step, count |-> p.tables[t].count]],
            cod_if |-> IF p.cod_if.strategy = "synthetic_cdb"
                       THEN [start |-> code, count |-> p.cod_if.count] ELSE Unused,
            meu |-> [prefix |-> IF p.meu.requested = Unused THEN DefaultPrefix ELSE p.meu.requested,
                     date |-> p.meu.date, count |-> p.meu.count,
                     start |-> f.ordinal, end |-> f.ordinal + p.meu.count - 1] ]
  BY <1>3 DEF Engorda!Reserve
<1>5. free' = [ keys |-> [t \in Known |->
                            IF t \in DOMAIN p.tables
                            THEN start[t] + (p.tables[t].count - 1) * p.tables[t].step + p.tables[t].step
                            ELSE f.keys[t]],
                code |-> IF p.cod_if.strategy = "synthetic_cdb" THEN code + p.cod_if.count ELSE f.code,
                ordinal |-> f.ordinal + p.meu.count ]
  BY <1>3 DEF Engorda!Reserve
<1>6. /\ \A v \in Uris \ {u} : reservations'[v] = reservations[v]
      /\ DOMAIN reservations' = Uris
  BY <1>3 DEF Engorda!Reserve
<1>7. /\ r.plan = p /\ r.product = p.product /\ DOMAIN r.tables = DOMAIN p.tables
      /\ \A t \in DOMAIN p.tables :
            /\ r.tables[t].start = start[t] /\ r.tables[t].step = p.tables[t].step
            /\ r.tables[t].count = p.tables[t].count
            /\ r.tables[t].end = start[t] + (p.tables[t].count - 1) * p.tables[t].step
      /\ r.meu.prefix = IF p.meu.requested = Unused THEN DefaultPrefix ELSE p.meu.requested
      /\ r.meu.date = p.meu.date /\ r.meu.count = p.meu.count /\ r.meu.start = f.ordinal
      /\ r.meu.end = f.ordinal + p.meu.count - 1
  <2>1. /\ r.plan = p /\ r.product = p.product
        /\ r.tables = [t \in DOMAIN p.tables |->
                         [start |-> start[t],
                          end |-> start[t] + (p.tables[t].count - 1) * p.tables[t].step,
                          step |-> p.tables[t].step, count |-> p.tables[t].count]]
        /\ r.meu = [prefix |-> IF p.meu.requested = Unused THEN DefaultPrefix ELSE p.meu.requested,
                    date |-> p.meu.date, count |-> p.meu.count,
                    start |-> f.ordinal, end |-> f.ordinal + p.meu.count - 1]
    BY <1>4
  <2>2. DOMAIN r.tables = DOMAIN p.tables
    BY <2>1
  <2>4. ASSUME NEW t \in DOMAIN p.tables
        PROVE  /\ r.tables[t].start = start[t] /\ r.tables[t].step = p.tables[t].step
               /\ r.tables[t].count = p.tables[t].count
               /\ r.tables[t].end = start[t] + (p.tables[t].count - 1) * p.tables[t].step
    <3>1. r.tables[t] = [start |-> start[t],
                         end |-> start[t] + (p.tables[t].count - 1) * p.tables[t].step,
                         step |-> p.tables[t].step, count |-> p.tables[t].count]
      BY <2>1
    <3> QED
      BY <3>1
  <2>3. /\ r.meu.prefix = IF p.meu.requested = Unused THEN DefaultPrefix ELSE p.meu.requested
        /\ r.meu.date = p.meu.date /\ r.meu.count = p.meu.count /\ r.meu.start = f.ordinal
        /\ r.meu.end = f.ordinal + p.meu.count - 1
    BY <2>1
  <2> QED
    BY <2>1, <2>2, <2>3, <2>4
<1>8. code \in Nat /\ code >= p.cod_if.minimum
  BY <1>2, <1>3 DEF Engorda!Greater
<1>9. IF p.cod_if.strategy = "synthetic_cdb"
      THEN r.cod_if # Unused /\ r.cod_if.count = p.cod_if.count /\ r.cod_if.start = code
      ELSE r.cod_if = Unused
  <2>1. CASE p.cod_if.strategy = "synthetic_cdb"
    <3>1. r.cod_if = [start |-> code, count |-> p.cod_if.count]
      BY <1>4, <2>1
    <3>2. r.cod_if \in [start : Nat, count : Nat]
      BY <1>2, <1>8, <3>1
    <3> QED
      BY <2>1, <3>1, <3>2 DEF Engorda!CommandsArePossible
  <2>2. CASE p.cod_if.strategy # "synthetic_cdb"
    BY <1>4, <2>2
  <2> QED
    BY <2>1, <2>2
<1>10. ASSUME NEW t \in DOMAIN p.tables
       PROVE  /\ start[t] \in Nat /\ start[t] >= p.tables[t].minimum /\ start[t] >= f.keys[t]
              /\ f.keys[t] \in Nat /\ t \in Known
              /\ start[t] + (p.tables[t].count - 1) * p.tables[t].step + p.tables[t].step
                    = start[t] + p.tables[t].count * p.tables[t].step
              /\ p.tables[t].count * p.tables[t].step \in Nat
  <2>1. start[t] = Engorda!Greater(f.keys[t], p.tables[t].minimum) /\ f.keys[t] \in Nat /\ t \in Known
    BY <1>2, <1>3
  <2>2. p.tables[t].minimum \in Nat
    BY <1>2
  <2>3. start[t] \in Nat /\ start[t] >= p.tables[t].minimum /\ start[t] >= f.keys[t]
    BY <2>1, <2>2 DEF Engorda!Greater
  <2>4. PICK n \in Nat, s \in Nat : n = p.tables[t].count /\ s = p.tables[t].step
    BY <1>2
  <2>5. (n - 1) * s + s = n * s /\ n * s \in Nat /\ (n - 1) * s \in Int
    BY <2>4
  <2> QED
    BY <2>1, <2>3, <2>4, <2>5
<1>11. Engorda!Fits(r, p)
  <2>1. IF p.cod_if.strategy = "synthetic_cdb"
        THEN r.cod_if # Unused /\ r.cod_if.count = p.cod_if.count /\ r.cod_if.start >= p.cod_if.minimum
        ELSE r.cod_if = Unused
    BY <1>8, <1>9
  <2>2. \A t \in DOMAIN p.tables :
           /\ r.tables[t].step = p.tables[t].step /\ r.tables[t].count = p.tables[t].count
           /\ r.tables[t].start >= p.tables[t].minimum
           /\ r.tables[t].end = r.tables[t].start + (r.tables[t].count - 1) * r.tables[t].step
    BY <1>7, <1>10
  <2>3. p.meu.requested \in {Unused, r.meu.prefix}
    BY <1>7
  <2>4. r.meu.start >= 1 /\ r.meu.end = r.meu.start + r.meu.count - 1
    BY <1>3, <1>7
  <2> QED
    BY <1>2, <1>7, <2>1, <2>2, <2>3, <2>4 DEF Engorda!Fits
<1>12. ASSUME NEW t \in Known
       PROVE  free'.keys[t] = IF t \in DOMAIN p.tables THEN start[t] + p.tables[t].count * p.tables[t].step
                              ELSE f.keys[t]
  BY <1>5, <1>10
<1>13. /\ free'.keys \in [Known -> Nat] /\ \A t \in Known : f.keys[t] <= free'.keys[t]
  <2>1. \A t \in Known : free'.keys[t] \in Nat /\ f.keys[t] <= free'.keys[t]
    <3>1. SUFFICES ASSUME NEW t \in Known PROVE free'.keys[t] \in Nat /\ f.keys[t] <= free'.keys[t]
      OBVIOUS
    <3>2. CASE t \in DOMAIN p.tables
      BY <1>10, <1>12, <3>2
    <3>3. CASE t \notin DOMAIN p.tables
      BY <1>3, <1>12, <3>3
    <3> QED
      BY <3>2, <3>3
  <2>2. DOMAIN free'.keys = Known /\ free'.keys = [t \in Known |-> free'.keys[t]]
    BY <1>5
  <2> QED
    BY <2>1, <2>2
<1>14. free'.ordinal = f.ordinal + p.meu.count /\ DOMAIN free' = {"keys", "code", "ordinal"}
  BY <1>5
<1>15. free'.code \in Nat
  BY <1>2, <1>3, <1>5, <1>8
<1>16. Below(r, free')
  <2>1. ASSUME NEW t \in DOMAIN r.tables
        PROVE  /\ t \in Known
               /\ r.tables[t].start \in Nat /\ r.tables[t].step \in Nat \ {0} /\ r.tables[t].count \in Nat
               /\ r.tables[t].start + r.tables[t].count * r.tables[t].step <= free'.keys[t]
    <3>1. t \in DOMAIN p.tables
      BY <1>7
    <3>2. /\ start[t] \in Nat /\ t \in Known /\ p.tables[t].count * p.tables[t].step \in Nat
          /\ free'.keys[t] = start[t] + p.tables[t].count * p.tables[t].step
      BY <1>10, <1>12, <3>1
    <3>3. p.tables[t].step \in Nat \ {0} /\ p.tables[t].count \in Nat
      BY <1>2, <3>1
    <3>4. /\ r.tables[t].start = start[t] /\ r.tables[t].step = p.tables[t].step
          /\ r.tables[t].count = p.tables[t].count
      BY <1>7, <3>1
    <3> QED
      BY <3>2, <3>3, <3>4
  <2>2. /\ r.meu.start \in Nat /\ r.meu.count \in Nat /\ r.meu.end = r.meu.start + r.meu.count - 1
        /\ r.meu.start + r.meu.count <= free'.ordinal
    BY <1>2, <1>3, <1>7, <1>14
  <2> QED
    BY <2>1, <2>2 DEF Below
<1>17. ASSUME NEW t \in DOMAIN r.tables
       PROVE  r.tables[t].start >= f.keys[t]
  <2>1. t \in DOMAIN p.tables /\ r.tables[t].start = start[t]
    BY <1>7
  <2> QED
    BY <1>10, <2>1
<1> QED
  BY <1>1, <1>2, <1>3, <1>6, <1>7, <1>11, <1>13, <1>14, <1>15, <1>16, <1>17

\* So does a reservation.
LEMMA CommandsReserve ==
    ASSUME Engorda!CommandsArePossible, CommandsInv, NEW u \in Uris, Engorda!Reserve(u)
    PROVE  CommandsInv'
<1>1. /\ reservations[u] = Unused /\ planned[u] # Unused
      /\ \A v \in Uris \ {u} : reservations'[v] = reservations[v]
      /\ DOMAIN reservations' = Uris
      /\ Engorda!Fits(reservations'[u], planned[u])
      /\ reservations'[u].meu.prefix =
            IF planned[u].meu.requested = Unused THEN DefaultPrefix ELSE planned[u].meu.requested
      /\ Below(reservations'[u], free')
      /\ \A t \in DOMAIN reservations'[u].tables : reservations'[u].tables[t].start >= free.keys[t]
      /\ reservations'[u].meu.start = free.ordinal
      /\ DOMAIN free' = {"keys", "code", "ordinal"}
      /\ free'.keys \in [Known -> Nat] /\ free'.code \in Nat /\ free'.ordinal \in Nat \ {0}
      /\ \A t \in Known : free.keys[t] <= free'.keys[t]
      /\ free.ordinal <= free'.ordinal
  BY ReservationMade
<1>2. planned' = planned /\ commanded' = commanded /\ published' = published /\ world' = world
  BY DEF Engorda!Reserve
<1>3. Typing'
  BY <1>1, <1>2 DEF CommandsInv, Typing
<1>4. free.keys \in [Known -> Nat] /\ free.ordinal \in Nat
  BY DEF CommandsInv, Typing
<1>5. ASSUME NEW v \in Uris \ {u}, reservations[v] # Unused
      PROVE  /\ Below(reservations[v], free)
             /\ Below(reservations[v], free')
             /\ Precedes(reservations[v], reservations'[u])
  <2>1. Below(reservations[v], free)
    BY <1>5 DEF CommandsInv, ReservedHeld
  <2> PICK r : r = reservations[v]
    OBVIOUS
  <2> PICK s : s = reservations'[u]
    OBVIOUS
  <2>2. ASSUME NEW t \in DOMAIN r.tables
        PROVE  /\ t \in Known
               /\ r.tables[t].start \in Nat /\ r.tables[t].step \in Nat \ {0} /\ r.tables[t].count \in Nat
               /\ r.tables[t].start + r.tables[t].count * r.tables[t].step <= free.keys[t]
               /\ r.tables[t].start + r.tables[t].count * r.tables[t].step \in Nat
               /\ free.keys[t] \in Nat /\ free'.keys[t] \in Nat /\ free.keys[t] <= free'.keys[t]
    BY <1>1, <1>4, <2>1 DEF Below
  <2>3. Below(r, free')
    <3>1. \A t \in DOMAIN r.tables :
             r.tables[t].start + r.tables[t].count * r.tables[t].step <= free'.keys[t]
      BY <2>2
    <3>2. r.meu.start \in Nat /\ r.meu.count \in Nat /\ r.meu.start + r.meu.count <= free.ordinal
      BY <2>1 DEF Below
    <3>3. r.meu.start + r.meu.count <= free'.ordinal
      BY <1>1, <1>4, <3>2
    <3> QED
      BY <2>1, <3>1, <3>3 DEF Below
  <2>4. Precedes(r, s)
    <3>1. ASSUME NEW t \in DOMAIN r.tables \cap DOMAIN s.tables
          PROVE  r.tables[t].start + r.tables[t].count * r.tables[t].step <= s.tables[t].start
      <4>1. s.tables[t].start >= free.keys[t] /\ s.tables[t].start \in Nat
        BY <1>1 DEF Below
      <4> QED
        BY <2>2, <4>1
    <3>2. r.meu.start + r.meu.count <= s.meu.start
      BY <1>1, <2>1 DEF Below
    <3> QED
      BY <3>1, <3>2 DEF Precedes
  <2> QED
    BY <2>1, <2>3, <2>4
<1>6. ASSUME NEW v \in Uris
      PROVE  ReservedHeld(v)'
  <2>1. CASE v = u
    BY <1>1, <1>2, <2>1 DEF ReservedHeld
  <2>2. CASE v # u
    <3>1. reservations'[v] = reservations[v] /\ planned'[v] = planned[v] /\ ReservedHeld(v)
      BY <1>1, <1>2, <2>2 DEF CommandsInv
    <3>2. reservations[v] # Unused => Below(reservations[v], free')
      BY <1>5, <2>2
    <3> QED
      BY <3>1, <3>2 DEF ReservedHeld
  <2> QED
    BY <2>1, <2>2
<1>7. ASSUME NEW a \in Uris, NEW b \in Uris, a # b, reservations'[a] # Unused, reservations'[b] # Unused
      PROVE  Precedes(reservations'[a], reservations'[b]) \/ Precedes(reservations'[b], reservations'[a])
  <2>1. CASE a = u
    BY <1>1, <1>5, <1>7, <2>1
  <2>2. CASE b = u
    BY <1>1, <1>5, <1>7, <2>2
  <2>3. CASE a # u /\ b # u
    BY <1>1, <1>7, <2>3 DEF CommandsInv
  <2> QED
    BY <2>1, <2>2, <2>3
<1>8. \A v \in Uris : reservations[v] # Unused => reservations'[v] = reservations[v]
  BY <1>1
<1>9. \A path \in DOMAIN published' : Made(path)'
  BY <1>2, <1>8, MadeStays
<1>10. Engorda!MadeAsPlanned'
  BY <1>2 DEF CommandsInv, Engorda!MadeAsPlanned
<1>11. \A v \in Uris : planned'[v] # Unused =>
          PlanMade(planned'[v], commanded'[v].command, commanded'[v].world)
  BY <1>2 DEF CommandsInv
<1> QED
  BY <1>3, <1>6, <1>7, <1>9, <1>10, <1>11 DEF CommandsInv

\* What a job agrees on with its plan.
LEMMA PlanIsRepeated ==
    ASSUME NEW c, NEW p, Shaped(p), Engorda!Rebuilt(c, p) = p
    PROVE  /\ p.product = c.product /\ p.output = Engorda!Output(c)
           /\ p.oracle_access = IF c.no_oracle THEN "disabled" ELSE "live"
<1> PICK q : q = Engorda!Rebuilt(c, p)
  OBVIOUS
<1>1. q.product = c.product
  BY DEF Engorda!Rebuilt, Shaped
<1>2. q.output = Engorda!Output(c)
  BY DEF Engorda!Rebuilt, Shaped
<1>3. q.oracle_access = IF c.no_oracle THEN "disabled" ELSE "live"
  BY DEF Engorda!Rebuilt, Shaped
<1> QED
  BY <1>1, <1>2, <1>3

\* What is published of the plan of command made, met by the world met, through
\* command c and reservation r.
Clones(c, p, r) ==
    [ plan |-> c.plan_uri, live |-> Engorda!Live(c), roots |-> p.roots, k |-> p.k,
      date |-> p.date, term |-> p.term, nullified |-> p.nullified,
      tables |-> [t \in Engorda!TablesOf(c) |-> [start |-> r.tables[t].start,
                                                 step |-> p.tables[t].step,
                                                 count |-> p.tables[t].count]],
      prefix |-> r.meu.prefix, ordinals |-> r.meu.start .. r.meu.end, top |-> world.top ]

\* MadeAsPlanned of one output.
AsPlanned(path, o, made, met) ==
    /\ o.live = Engorda!Live(made)
    /\ path = made.output
    /\ IF made.num_ifs # Unused THEN o.roots = made.num_ifs /\ o.k = made.k
       ELSE Engorda!Cardinality(o.roots) * o.k >= made.n * made.k
    /\ o.date = DateAsked(made, met)
    /\ o.term = made.term /\ made.nullified \subseteq o.nullified
    /\ o.prefix = IF made.prefix # Unused THEN made.prefix ELSE DefaultPrefix
    /\ made.static \cap DOMAIN o.tables = {}
    /\ \A t \in DOMAIN o.tables :
          /\ ~EngordaSpecs[met.spec][t] \/ t \in EngordaProducts[made.product].tables
          /\ o.tables[t].step = made.step
          /\ o.tables[t].count = Engorda!Cardinality(o.roots) * RawRows[t] * o.k
          /\ o.tables[t].start > RawMax[t]
          /\ o.live => o.tables[t].start > o.top[t]

\* What is published is what the command of its plan asked for.
LEMMA ClonesAsPlanned ==
    ASSUME Engorda!CommandsArePossible, Typing,
           NEW c \in Given, ~c.dry_run,
           NEW p, NEW made, NEW met, PlanMade(p, made, met),
           NEW r, Engorda!Accepts(c, p, r), Below(r, free),
           r.meu.prefix = IF p.meu.requested = Unused THEN DefaultPrefix ELSE p.meu.requested
    PROVE  AsPlanned(Engorda!Output(c), Clones(c, p, r), made, met)
<1> PICK o : o = Clones(c, p, r)
  OBVIOUS
<1>1. /\ made \in Given /\ ~made.dry_run /\ Engorda!Valid(made) /\ Shaped(p) /\ VolumeAsked(p, made)
      /\ KeysAsked(p, made, met) /\ OthersAsked(p, made, met)
  BY DEF PlanMade
<1>2. /\ Engorda!Rebuilt(c, p) = p /\ Engorda!TablesOf(c) = DOMAIN p.tables
      /\ Engorda!Fits(r, p) /\ (Engorda!Live(c) => Engorda!StillFree(r))
  BY DEF Engorda!Accepts, Engorda!AgreesWithPlan
<1>3. /\ p.output = Engorda!Output(c)
      /\ p.oracle_access = IF c.no_oracle THEN "disabled" ELSE "live"
  BY <1>1, <1>2, PlanIsRepeated
<1>4. /\ o.live = Engorda!Live(c) /\ o.roots = p.roots /\ o.k = p.k
      /\ o.date = p.date /\ o.term = p.term /\ o.nullified = p.nullified
      /\ o.tables = [t \in DOMAIN p.tables |-> [start |-> r.tables[t].start,
                                                 step |-> p.tables[t].step,
                                                 count |-> p.tables[t].count]]
      /\ o.prefix = r.meu.prefix /\ o.top = world.top
  BY <1>2, Zenon DEF Clones
<1>5. o.live = Engorda!Live(made)
  <2>1. c.no_oracle \in BOOLEAN /\ made.no_oracle \in BOOLEAN
    BY <1>1 DEF Engorda!CommandsArePossible, Given
  <2>2. p.oracle_access = IF made.no_oracle THEN "disabled" ELSE "live"
    BY <1>1 DEF OthersAsked
  <2>3. c.no_oracle <=> made.no_oracle
    BY <1>3, <2>1, <2>2
  <2>4. Engorda!Live(c) <=> Engorda!Live(made)
    BY <1>1, <2>1, <2>3 DEF Engorda!Live
  <2> QED
    BY <1>4, <2>4 DEF Engorda!Live
<1>6. Engorda!Output(c) = made.output
  BY <1>1, <1>3 DEF OthersAsked
<1>7. IF made.num_ifs # Unused THEN o.roots = made.num_ifs /\ o.k = made.k
      ELSE Engorda!Cardinality(o.roots) * o.k >= made.n * made.k
  BY <1>1, <1>4 DEF VolumeAsked
<1>8. /\ o.date = DateAsked(made, met) /\ o.term = made.term /\ made.nullified \subseteq o.nullified
      /\ o.prefix = IF made.prefix # Unused THEN made.prefix ELSE DefaultPrefix
  BY <1>1, <1>4 DEF OthersAsked
<1>9. DOMAIN o.tables = TablesAsked(made, met.spec) /\ DOMAIN o.tables = DOMAIN p.tables
  BY <1>1, <1>4 DEF KeysAsked
<1>10. made.static \cap DOMAIN o.tables = {}
  BY <1>9 DEF TablesAsked
<1>11. ASSUME NEW t \in DOMAIN o.tables
       PROVE  /\ ~EngordaSpecs[met.spec][t] \/ t \in EngordaProducts[made.product].tables
              /\ o.tables[t].step = made.step
              /\ o.tables[t].count = Engorda!Cardinality(o.roots) * RawRows[t] * o.k
              /\ o.tables[t].start > RawMax[t]
              /\ o.live => o.tables[t].start > o.top[t]
  <2>1. ~EngordaSpecs[met.spec][t] \/ t \in EngordaProducts[made.product].tables
    BY <1>9 DEF TablesAsked
  <2>2. t \in DOMAIN p.tables
    BY <1>9
  <2>3. o.tables[t] = [start |-> r.tables[t].start, step |-> p.tables[t].step,
                       count |-> p.tables[t].count]
    BY <1>4, <2>2
  <2>4. /\ o.tables[t].start = r.tables[t].start /\ o.tables[t].step = p.tables[t].step
        /\ o.tables[t].count = p.tables[t].count
    BY <2>3
  <2>5. /\ p.tables[t].step = made.step
        /\ p.tables[t].count = Engorda!Cardinality(p.roots) * RawRows[t] * p.k
        /\ p.tables[t].minimum \in Nat /\ p.tables[t].minimum > RawMax[t]
    BY <1>1, <2>2 DEF KeysAsked
  <2>6. DOMAIN r.tables = DOMAIN p.tables /\ r.tables[t].start >= p.tables[t].minimum
    <3>1. DOMAIN r.tables = DOMAIN p.tables
      BY <1>2 DEF Engorda!Fits
    <3>2. r.tables[t].start >= p.tables[t].minimum
      BY <1>2, <2>2 DEF Engorda!Fits
    <3> QED
      BY <3>1, <3>2
  <2>7. t \in Known /\ r.tables[t].start \in Nat
    BY <2>2, <2>6 DEF Below
  <2>8. RawMax[t] \in Nat
    BY <2>7 DEF Engorda!CommandsArePossible, Known
  <2>9. o.tables[t].start > RawMax[t]
    BY <2>4, <2>5, <2>6, <2>7, <2>8
  <2>10. o.live => o.tables[t].start > o.top[t]
    <3>1. SUFFICES ASSUME o.live PROVE o.tables[t].start > o.top[t]
      OBVIOUS
    <3>2. Engorda!Live(c)
      BY <1>4, <3>1
    <3>3. Engorda!StillFree(r)
      BY <1>2, <3>2
    <3>4. t \in DOMAIN r.tables
      BY <2>2, <2>6
    <3>5. r.tables[t].start > world.top[t]
      BY <3>3, <3>4 DEF Engorda!StillFree
    <3> QED
      BY <1>4, <2>4, <3>5
  <2> QED
    BY <1>4, <2>1, <2>4, <2>5, <2>9, <2>10
<1> QED
  BY <1>5, <1>6, <1>7, <1>8, <1>10, <1>11 DEF AsPlanned

\* What is published is made of its plan and of a reservation for it.
LEMMA ClonesAreMadeOf ==
    ASSUME Engorda!CommandsArePossible, CommandsInv,
           NEW c \in Given, Engorda!Materialize(c)
    PROVE  /\ c.plan_uri \in Uris /\ c.reservation_uri \in Uris /\ c.plan_uri # Unused
           /\ planned[c.plan_uri] # Unused /\ reservations[c.reservation_uri] # Unused
           /\ Engorda!Accepts(c, planned[c.plan_uri], reservations[c.reservation_uri])
           /\ Engorda!Publish(Engorda!Output(c),
                 Clones(c, planned[c.plan_uri], reservations[c.reservation_uri]))
           /\ MadeOf(Engorda!Output(c), Clones(c, planned[c.plan_uri], reservations[c.reservation_uri]))
           /\ AsPlanned(Engorda!Output(c), Clones(c, planned[c.plan_uri], reservations[c.reservation_uri]),
                        commanded[c.plan_uri].command, commanded[c.plan_uri].world)
<1> PICK p : p = planned[c.plan_uri]
  OBVIOUS
<1> PICK r : r = reservations[c.reservation_uri]
  OBVIOUS
<1> PICK o : o = Clones(c, p, r)
  OBVIOUS
<1>1. /\ c.phase = "materialize" /\ ~c.dry_run /\ p # Unused /\ r # Unused
      /\ Engorda!Accepts(c, p, r) /\ Engorda!Publish(Engorda!Output(c), Clones(c, p, r))
  BY DEF Engorda!Materialize, Clones
<1>2. c.plan_uri \in Uris /\ c.reservation_uri \in Uris /\ c.plan_uri # Unused
  <2>1. Engorda!NamesItsInputs(c)
    BY <1>1 DEF Engorda!Accepts, Engorda!Valid
  <2>2. c.plan_uri # Unused /\ c.reservation_uri # Unused
    BY <1>1, <2>1 DEF Engorda!NamesItsInputs
  <2> QED
    BY <2>2 DEF Engorda!CommandsArePossible, Given
<1>3. PlanMade(p, commanded[c.plan_uri].command, commanded[c.plan_uri].world)
  BY <1>1, <1>2 DEF CommandsInv
<1>4. Engorda!Fits(r, p) /\ Engorda!TablesOf(c) = DOMAIN p.tables /\ Engorda!Rebuilt(c, p) = p
  BY <1>1 DEF Engorda!Accepts, Engorda!AgreesWithPlan
<1>5. /\ Below(r, free)
      /\ r.meu.prefix = IF p.meu.requested = Unused THEN DefaultPrefix ELSE p.meu.requested
  <2>1. ReservedHeld(c.reservation_uri)
    BY <1>2 DEF CommandsInv
  <2>2. r.plan = planned[c.reservation_uri]
    BY <1>1, <2>1 DEF ReservedHeld, Engorda!Fits
  <2>3. r.plan = p
    BY <1>4 DEF Engorda!Fits
  <2> QED
    BY <1>1, <2>1, <2>2, <2>3 DEF ReservedHeld
<1>6. Typing
  BY DEF CommandsInv
<1>7. AsPlanned(Engorda!Output(c), o, commanded[c.plan_uri].command, commanded[c.plan_uri].world)
  BY <1>1, <1>3, <1>5, <1>6, ClonesAsPlanned
<1>8. MadeOf(Engorda!Output(c), o)
  <2>1. /\ o.plan = c.plan_uri /\ o.ordinals = r.meu.start .. r.meu.end
        /\ o.tables = [t \in DOMAIN p.tables |-> [start |-> r.tables[t].start,
                                                   step |-> p.tables[t].step,
                                                   count |-> p.tables[t].count]]
    BY <1>4 DEF Clones
  <2>2. p.output = Engorda!Output(c)
    BY <1>3, <1>4, PlanIsRepeated DEF PlanMade
  <2>3. DOMAIN o.tables = DOMAIN r.tables /\ DOMAIN o.tables = DOMAIN p.tables /\ r.plan = p
    BY <1>4, <2>1 DEF Engorda!Fits
  <2>4. ASSUME NEW t \in DOMAIN o.tables
        PROVE  /\ o.tables[t].start = r.tables[t].start /\ o.tables[t].step = r.tables[t].step
               /\ o.tables[t].count = r.tables[t].count
    <3>1. t \in DOMAIN p.tables
      BY <2>3
    <3>2. o.tables[t] = [start |-> r.tables[t].start, step |-> p.tables[t].step,
                         count |-> p.tables[t].count]
      BY <2>1, <3>1
    <3>3. r.tables[t].step = p.tables[t].step /\ r.tables[t].count = p.tables[t].count
      BY <1>4, <3>1 DEF Engorda!Fits
    <3> QED
      BY <3>2, <3>3
  <2> QED
    BY <1>1, <1>2, <2>1, <2>2, <2>3, <2>4 DEF MadeOf
<1> QED
  BY <1>1, <1>2, <1>7, <1>8

\* What is published is made as it should be, and what was there before stays.
LEMMA CommandsPublish ==
    ASSUME CommandsInv, NEW path, NEW o, Engorda!Publish(path, o),
           UNCHANGED <<planned, commanded, reservations, free, world>>,
           IF o.plan # Unused
           THEN /\ MadeOf(path, o)
                /\ AsPlanned(path, o, commanded[o.plan].command, commanded[o.plan].world)
           ELSE ~o.live
    PROVE  CommandsInv'
<1>1. /\ DOMAIN published' = DOMAIN published \cup {path} /\ published'[path] = o
      /\ \A other \in DOMAIN published \ {path} : published'[other] = published[other]
  BY DEF Engorda!Publish
<1>2. Typing'
  BY DEF CommandsInv, Typing
<1>3. ASSUME NEW other \in DOMAIN published'
      PROVE  Made(other)'
  <2>1. CASE other = path
    <3>1. CASE o.plan # Unused
      <4>1. MadeOf(path, o)'
        BY <3>1 DEF MadeOf
      <4> QED
        BY <1>1, <2>1, <3>1, <4>1 DEF Made
    <3>2. CASE o.plan = Unused
      BY <1>1, <2>1, <3>2 DEF Made
    <3> QED
      BY <3>1, <3>2
  <2>2. CASE other # path
    BY <1>1, <2>2, MadeStays
  <2> QED
    BY <2>1, <2>2
<1>4. ASSUME NEW other \in DOMAIN published', published'[other].plan # Unused
      PROVE  AsPlanned(other, published'[other], commanded'[published'[other].plan].command,
                       commanded'[published'[other].plan].world)
  <2>1. CASE other = path
    BY <1>1, <1>4, <2>1
  <2>2. CASE other # path
    BY <1>1, <1>4, <2>2 DEF CommandsInv, Engorda!MadeAsPlanned, AsPlanned, DateAsked
  <2> QED
    BY <2>1, <2>2
<1>5. Engorda!MadeAsPlanned'
  BY <1>4 DEF Engorda!MadeAsPlanned, AsPlanned, DateAsked
<1>6. \A u \in Uris : ReservedHeld(u)'
  BY DEF CommandsInv, ReservedHeld
<1>7. \A u \in Uris : planned'[u] # Unused =>
          PlanMade(planned'[u], commanded'[u].command, commanded'[u].world)
  BY DEF CommandsInv
<1>8. \A u, v \in Uris : u # v /\ reservations'[u] # Unused /\ reservations'[v] # Unused =>
          Precedes(reservations'[u], reservations'[v]) \/ Precedes(reservations'[v], reservations'[u])
  BY DEF CommandsInv
<1> QED
  BY <1>2, <1>3, <1>5, <1>6, <1>7, <1>8 DEF CommandsInv

\* A command that materializes keeps the invariant,
LEMMA CommandsMaterialize ==
    ASSUME Engorda!CommandsArePossible, CommandsInv, NEW c \in Given, Engorda!Materialize(c)
    PROVE  CommandsInv'
<1> PICK o : o = Clones(c, planned[c.plan_uri], reservations[c.reservation_uri])
  OBVIOUS
<1>1. /\ c.plan_uri # Unused
      /\ Engorda!Publish(Engorda!Output(c), o)
      /\ MadeOf(Engorda!Output(c), o)
      /\ AsPlanned(Engorda!Output(c), o, commanded[c.plan_uri].command, commanded[c.plan_uri].world)
  BY ClonesAreMadeOf
<1>2. o.plan = c.plan_uri
  BY DEF Clones
<1>3. UNCHANGED <<planned, commanded, reservations, free, world>>
  BY DEF Engorda!Materialize
<1> QED
  BY <1>1, <1>2, <1>3, CommandsPublish

\* one that does everything at once,
LEMMA CommandsAll ==
    ASSUME CommandsInv, NEW c \in Given, Engorda!All(c)
    PROVE  CommandsInv'
<1>1. UNCHANGED <<planned, commanded, reservations, free, world>>
  BY DEF Engorda!All
<1>2. PICK S \in Engorda!Selections(c) : \E type \in Engorda!TypesFor(c, S) :
         LET p == Engorda!Frozen(c, S, type)
         IN  Engorda!Publish(Engorda!Output(c),
                [ plan |-> Unused, live |-> FALSE, roots |-> S, k |-> p.k, date |-> p.date,
                  term |-> p.term, nullified |-> p.nullified,
                  tables |-> [t \in DOMAIN p.tables |->
                                [start |-> p.tables[t].minimum, step |-> c.step,
                                 count |-> p.tables[t].count]],
                  prefix |-> c.prefix, ordinals |-> 1 .. p.meu.count, top |-> world.top ])
  BY Zenon DEF Engorda!All
<1>3. PICK o : o.plan = Unused /\ ~o.live /\ Engorda!Publish(Engorda!Output(c), o)
  BY <1>2
<1> QED
  BY <1>1, <1>3, CommandsPublish

\* what happens around the commands,
LEMMA CommandsMove ==
    ASSUME Engorda!CommandsArePossible, CommandsInv, Engorda!Move
    PROVE  CommandsInv'
<1>1. UNCHANGED <<planned, commanded, reservations, free, published>>
  BY DEF Engorda!Move
<1>2. /\ DOMAIN world' = DOMAIN world /\ world'.top \in [Known -> Nat] /\ world'.code \in Nat
      /\ world'.spec \in DOMAIN EngordaSpecs
  <2>1. /\ DOMAIN world = {"day", "spec", "top", "code", "moves"}
        /\ world.top \in [Known -> Nat] /\ world.code \in Nat /\ world.spec \in DOMAIN EngordaSpecs
    BY DEF CommandsInv, Typing
  <2>2. CASE Engorda!NextDay
    BY <2>1, <2>2 DEF Engorda!NextDay
  <2>3. CASE Engorda!Insert
    <3>1. /\ world'.top = [t \in Known |-> world.top[t] + 5] /\ world'.code = world.code + 5
          /\ world'.spec = world.spec /\ DOMAIN world' = DOMAIN world
      BY <2>1, <2>3 DEF Engorda!Insert
    <3> QED
      BY <2>1, <3>1
  <2>4. CASE Engorda!EditSpecs
    <3>1. PICK v \in DOMAIN EngordaSpecs :
            world' = [world EXCEPT !.spec = v, !.moves = @ + 1]
      BY <2>4 DEF Engorda!EditSpecs
    <3> QED
      BY <2>1, <3>1
  <2> QED
    BY <2>2, <2>3, <2>4 DEF Engorda!Move
<1>3. Typing'
  BY <1>1, <1>2 DEF CommandsInv, Typing
<1>4. \A path \in DOMAIN published' : Made(path)'
  BY <1>1 DEF CommandsInv, Made, MadeOf
<1>5. Engorda!MadeAsPlanned'
  BY <1>1 DEF CommandsInv, Engorda!MadeAsPlanned
<1>6. \A u \in Uris : ReservedHeld(u)'
  BY <1>1 DEF CommandsInv, ReservedHeld
<1>7. \A u \in Uris : planned'[u] # Unused =>
          PlanMade(planned'[u], commanded'[u].command, commanded'[u].world)
  BY <1>1 DEF CommandsInv
<1>8. \A u, v \in Uris : u # v /\ reservations'[u] # Unused /\ reservations'[v] # Unused =>
          Precedes(reservations'[u], reservations'[v]) \/ Precedes(reservations'[v], reservations'[u])
  BY <1>1 DEF CommandsInv
<1> QED
  BY <1>3, <1>4, <1>5, <1>6, <1>7, <1>8 DEF CommandsInv

\* what leaves their state alone,
LEMMA CommandsStutter ==
    ASSUME CommandsInv, UNCHANGED Engorda!vars
    PROVE  CommandsInv'
<1>1. UNCHANGED <<planned, commanded, reservations, free, published, world>>
  BY DEF Engorda!vars
<1>2. Typing'
  BY <1>1 DEF CommandsInv, Typing
<1>3. \A path \in DOMAIN published' : Made(path)'
  BY <1>1 DEF CommandsInv, Made, MadeOf
<1>4. Engorda!MadeAsPlanned'
  BY <1>1 DEF CommandsInv, Engorda!MadeAsPlanned
<1>5. \A u \in Uris : ReservedHeld(u)'
  BY <1>1 DEF CommandsInv, ReservedHeld
<1>6. \A u \in Uris : planned'[u] # Unused =>
          PlanMade(planned'[u], commanded'[u].command, commanded'[u].world)
  BY <1>1 DEF CommandsInv
<1>7. \A u, v \in Uris : u # v /\ reservations'[u] # Unused /\ reservations'[v] # Unused =>
          Precedes(reservations'[u], reservations'[v]) \/ Precedes(reservations'[v], reservations'[u])
  BY <1>1 DEF CommandsInv
<1> QED
  BY <1>2, <1>3, <1>4, <1>5, <1>6, <1>7 DEF CommandsInv

\* and so every step.
LEMMA CommandsKeep ==
    ASSUME Engorda!CommandsArePossible, CommandsInv, Engorda!Next
    PROVE  CommandsInv'
<1>1. CASE \E c \in Given : Engorda!Plan(c)
  BY <1>1, CommandsPlan
<1>2. CASE \E c \in Given : Engorda!Materialize(c)
  BY <1>2, CommandsMaterialize
<1>3. CASE \E c \in Given : Engorda!All(c)
  BY <1>3, CommandsAll
<1>4. CASE \E u \in Uris : Engorda!Reserve(u)
  BY <1>4, CommandsReserve
<1>5. CASE Engorda!Move
  BY <1>5, CommandsMove
<1>6. CASE Engorda!Rest
  BY <1>6, CommandsStutter DEF Engorda!Rest
<1> QED
  BY <1>1, <1>2, <1>3, <1>4, <1>5, <1>6 DEF Engorda!Next, Given

\* Keys and ordinals of one reservation are below those of a later one.
LEMMA PrecedingIsApart ==
    ASSUME NEW x, NEW y, NEW r, NEW s, Precedes(r, s), Below(r, free), Below(s, free),
           DOMAIN x.tables = DOMAIN r.tables, DOMAIN y.tables = DOMAIN s.tables,
           \A t \in DOMAIN x.tables :
              /\ x.tables[t].start = r.tables[t].start /\ x.tables[t].step = r.tables[t].step
              /\ x.tables[t].count = r.tables[t].count,
           \A t \in DOMAIN y.tables :
              /\ y.tables[t].start = s.tables[t].start /\ y.tables[t].step = s.tables[t].step
              /\ y.tables[t].count = s.tables[t].count,
           x.ordinals = r.meu.start .. r.meu.end, y.ordinals = s.meu.start .. s.meu.end
    PROVE  /\ \A t \in DOMAIN x.tables \cap DOMAIN y.tables :
                 Engorda!KeysOf(x.tables[t]) \cap Engorda!KeysOf(y.tables[t]) = {}
           /\ x.ordinals \cap y.ordinals = {}
<1>1. ASSUME NEW t \in DOMAIN x.tables \cap DOMAIN y.tables
      PROVE  Engorda!KeysOf(x.tables[t]) \cap Engorda!KeysOf(y.tables[t]) = {}
  <2>1. PICK a \in Nat, d \in Nat, n \in Nat :
           r.tables[t].start = a /\ r.tables[t].step = d /\ r.tables[t].count = n
    BY DEF Below
  <2>2. PICK b \in Nat, e \in Nat, m \in Nat :
           s.tables[t].start = b /\ s.tables[t].step = e /\ s.tables[t].count = m
    BY DEF Below
  <2>3. a + n * d <= b
    BY <2>1, <2>2 DEF Precedes
  <2>4. ASSUME NEW i \in 0 .. n - 1
        PROVE  (a + i * d \in Nat /\ a + i * d < b) \/ d = 0
    <3>1. CASE d = 0
      BY <3>1
    <3>2. CASE d # 0
      <4>1. PICK j \in Nat : n = i + 1 + j
        <5>1. n - i - 1 \in Nat /\ n = i + 1 + (n - i - 1)
          OBVIOUS
        <5> QED
          BY <5>1
      <4>2. n * d = i * d + d + j * d /\ i * d \in Nat /\ j * d \in Nat
        BY <4>1
      <4> QED
        BY <2>3, <3>2, <4>2
    <3> QED
      BY <3>1, <3>2
  <2>5. d # 0
    BY <2>1 DEF Below
  <2>6. ASSUME NEW i \in 0 .. n - 1, NEW j \in 0 .. m - 1
        PROVE  a + i * d # b + j * e
    <3>1. a + i * d \in Nat /\ a + i * d < b
      BY <2>4, <2>5
    <3>2. j * e \in Nat
      OBVIOUS
    <3> QED
      BY <3>1, <3>2
  <2>7. /\ Engorda!KeysOf(x.tables[t]) = {a + i * d : i \in 0 .. n - 1}
        /\ Engorda!KeysOf(y.tables[t]) = {b + j * e : j \in 0 .. m - 1}
    BY <2>1, <2>2 DEF Engorda!KeysOf
  <2> QED
    BY <2>6, <2>7
<1>2. x.ordinals \cap y.ordinals = {}
  BY DEF Precedes, Below
<1> QED
  BY <1>1, <1>2

\* No two outputs for Oracle share a key or an ordinal.
LEMMA CommandsApart ==
    ASSUME CommandsInv
    PROVE  Engorda!OutputsApart
<1>1. ASSUME NEW a \in DOMAIN published, NEW b \in DOMAIN published, a # b,
             NEW x, x = published[a], NEW y, y = published[b], x.live, y.live
      PROVE  /\ \A t \in DOMAIN x.tables \cap DOMAIN y.tables :
                   Engorda!KeysOf(x.tables[t]) \cap Engorda!KeysOf(y.tables[t]) = {}
             /\ x.ordinals \cap y.ordinals = {}
  <2>1. MadeOf(a, x) /\ MadeOf(b, y)
    <3>1. Made(a) /\ Made(b)
      BY DEF CommandsInv
    <3> QED
      BY <1>1, <3>1 DEF Made
  <2>3. PICK u \in Uris :
           /\ reservations[u] # Unused /\ reservations[u].plan.output = a
           /\ DOMAIN x.tables = DOMAIN reservations[u].tables
           /\ \A t \in DOMAIN x.tables :
                 /\ x.tables[t].start = reservations[u].tables[t].start
                 /\ x.tables[t].step = reservations[u].tables[t].step
                 /\ x.tables[t].count = reservations[u].tables[t].count
           /\ x.ordinals = reservations[u].meu.start .. reservations[u].meu.end
    BY <2>1 DEF MadeOf
  <2>4. PICK v \in Uris :
           /\ reservations[v] # Unused /\ reservations[v].plan.output = b
           /\ DOMAIN y.tables = DOMAIN reservations[v].tables
           /\ \A t \in DOMAIN y.tables :
                 /\ y.tables[t].start = reservations[v].tables[t].start
                 /\ y.tables[t].step = reservations[v].tables[t].step
                 /\ y.tables[t].count = reservations[v].tables[t].count
           /\ y.ordinals = reservations[v].meu.start .. reservations[v].meu.end
    BY <2>1 DEF MadeOf
  <2> PICK r : r = reservations[u]
    OBVIOUS
  <2> PICK s : s = reservations[v]
    OBVIOUS
  <2>5. u # v
    BY <1>1, <2>3, <2>4
  <2>6. Below(r, free) /\ Below(s, free)
    BY <2>3, <2>4 DEF CommandsInv, ReservedHeld
  <2>7. CASE Precedes(r, s)
    BY <2>3, <2>4, <2>6, <2>7, PrecedingIsApart
  <2>8. CASE Precedes(s, r)
    <3>1. /\ \A t \in DOMAIN y.tables \cap DOMAIN x.tables :
                Engorda!KeysOf(y.tables[t]) \cap Engorda!KeysOf(x.tables[t]) = {}
          /\ y.ordinals \cap x.ordinals = {}
      BY <2>3, <2>4, <2>6, <2>8, PrecedingIsApart
    <3> QED
      BY <3>1
  <2> QED
    BY <2>3, <2>4, <2>5, <2>7, <2>8 DEF CommandsInv
<1> QED
  BY <1>1, Zenon DEF Engorda!OutputsApart

\* What the runner's two commands take from its order o, and what they leave.
PlansOrder(first, o) ==
    /\ first.product = o.product /\ first.raw = o.raw /\ first.output = o.output
    /\ first.faltantes = o.faltantes /\ first.plan_uri = o.uri /\ first.specs = o.specs
    /\ first.query = o.query /\ first.allocator = o.allocator
    /\ first.no_oracle = o.no_oracle /\ first.dry_run = FALSE
    /\ first.static = {} /\ first.nullified = {} /\ first.phase = "plan"

MaterializesOrder(second, o) ==
    /\ second.product = o.product /\ second.raw = o.raw /\ second.output = o.output
    /\ second.faltantes = o.faltantes /\ second.plan_uri = o.uri
    /\ second.reservation_uri = o.uri /\ second.specs = o.specs
    /\ second.query = o.query /\ second.allocator = o.allocator
    /\ second.no_oracle = o.no_oracle /\ second.dry_run = FALSE
    /\ second.static = {} /\ second.date = Unused /\ second.tipo = Unused
    /\ second.num_ifs = Unused /\ second.n = Unused /\ second.phase = "materialize"

\* The options of the runner's two commands.
LEMMA RunnersOptions ==
    ASSUME NEW o \in Orders
    PROVE  PlansOrder(Engorda!PlanArgv(o), o) /\ MaterializesOrder(Engorda!MaterializeArgv(o), o)
<1> PICK first : first = Engorda!PlanArgv(o)
  OBVIOUS
<1> PICK second : second = Engorda!MaterializeArgv(o)
  OBVIOUS
<1> PICK g : g = [phase |-> "plan", product |-> o.product, raw |-> o.raw, output |-> o.output,
                  faltantes |-> o.faltantes, plan_uri |-> o.uri, specs |-> o.specs, query |-> o.query,
                  allocator |-> o.allocator, no_oracle |-> o.no_oracle,
                  n |-> o.n, k |-> o.k, prefix |-> o.prefix, date |-> o.date]
  OBVIOUS
<1> PICK h : h = [phase |-> "materialize", product |-> o.product, raw |-> o.raw, output |-> o.output,
                  faltantes |-> o.faltantes, plan_uri |-> o.uri, specs |-> o.specs, query |-> o.query,
                  allocator |-> o.allocator, no_oracle |-> o.no_oracle, reservation_uri |-> o.uri]
  OBVIOUS
<1>1. first = Engorda!Parsed(g) /\ second = Engorda!Parsed(h)
  BY DEF Engorda!PlanArgv, Engorda!MaterializeArgv
<1>2. /\ \A x \in DOMAIN g : Engorda!Parsed(g)[x] = g[x]
      /\ \A x \in DOMAIN Engorda!Defaults \ DOMAIN g : Engorda!Parsed(g)[x] = Engorda!Defaults[x]
      /\ \A x \in DOMAIN h : Engorda!Parsed(h)[x] = h[x]
      /\ \A x \in DOMAIN Engorda!Defaults \ DOMAIN h : Engorda!Parsed(h)[x] = Engorda!Defaults[x]
  BY DEF Engorda!Parsed
<1>3. /\ DOMAIN Engorda!Defaults =
           {"num_ifs", "n", "k", "prefix", "step", "offset", "static", "date", "ts", "term",
            "nullified", "tipo", "allocator", "query", "adjust", "dry_run", "no_oracle", "specs",
            "clone_prefix", "faltantes", "plan_uri", "reservation_uri", "raw", "output"}
      /\ Engorda!Defaults.num_ifs = Unused /\ Engorda!Defaults.n = Unused
      /\ Engorda!Defaults.static = {} /\ Engorda!Defaults.date = Unused
      /\ Engorda!Defaults.nullified = {} /\ Engorda!Defaults.tipo = Unused
      /\ Engorda!Defaults.dry_run = FALSE
  BY DEF Engorda!Defaults
<1>4. /\ DOMAIN g = {"phase", "product", "raw", "output", "faltantes", "plan_uri", "specs", "query",
                     "allocator", "no_oracle", "n", "k", "prefix", "date"}
      /\ DOMAIN h = {"phase", "product", "raw", "output", "faltantes", "plan_uri", "specs", "query",
                     "allocator", "no_oracle", "reservation_uri"}
  OBVIOUS
<1>5. /\ first.product = o.product /\ first.raw = o.raw /\ first.output = o.output
      /\ first.faltantes = o.faltantes /\ first.plan_uri = o.uri /\ first.specs = o.specs
      /\ first.query = o.query /\ first.allocator = o.allocator
      /\ first.no_oracle = o.no_oracle /\ first.phase = "plan"
  BY <1>1, <1>2, <1>4
<1>6. first.dry_run = FALSE /\ first.static = {} /\ first.nullified = {}
  BY <1>1, <1>2, <1>3, <1>4
<1>7. /\ second.product = o.product /\ second.raw = o.raw /\ second.output = o.output
      /\ second.faltantes = o.faltantes /\ second.plan_uri = o.uri
      /\ second.reservation_uri = o.uri /\ second.specs = o.specs
      /\ second.query = o.query /\ second.allocator = o.allocator
      /\ second.no_oracle = o.no_oracle /\ second.phase = "materialize"
  BY <1>1, <1>2, <1>4
<1>8. /\ second.dry_run = FALSE /\ second.static = {} /\ second.date = Unused
      /\ second.tipo = Unused /\ second.num_ifs = Unused /\ second.n = Unused
  BY <1>1, <1>2, <1>3, <1>4
<1>9. PlansOrder(first, o)
  BY <1>5, <1>6 DEF PlansOrder
<1>10. MaterializesOrder(second, o)
  BY <1>7, <1>8 DEF MaterializesOrder
<1> QED
  BY <1>9, <1>10

\* A record is what its fields are.
LEMMA RebuiltAsItWas ==
    ASSUME NEW c, NEW p, Shaped(p),
           p.product = c.product, p.raw = Engorda!Raw(c), p.output = Engorda!Output(c),
           p.specs = c.specs, p.spec = world.spec, p.faltantes = c.faltantes, p.query = c.query,
           p.nullified = EngordaProducts[c.product].nullified \cup p.nullified,
           p.oracle_access = IF c.no_oracle THEN "disabled" ELSE "live"
    PROVE  Engorda!Rebuilt(c, p) = p
<1> PICK q : q = Engorda!Rebuilt(c, p)
  OBVIOUS
<1>1. DOMAIN q = DOMAIN p /\ q = [x \in DOMAIN p |-> q[x]]
  BY DEF Engorda!Rebuilt
<1>2. \A x \in DOMAIN p : q[x] = p[x]
  BY DEF Engorda!Rebuilt
<1>3. [x \in DOMAIN p |-> q[x]] = [x \in DOMAIN p |-> p[x]]
  BY <1>2
<1> QED
  BY <1>1, <1>3 DEF Shaped

\* The runner's second command accepts what its first one planned and was
\* reserved, as long as the world has not moved under it.
LEMMA PairsGoThrough ==
    ASSUME Engorda!CommandsArePossible, CommandsInv
    PROVE  Engorda!PairGoesThrough
<1> SUFFICES ASSUME NEW o \in Orders, reservations[o.uri] # Unused,
                    commanded[o.uri].command = Engorda!PlanArgv(o),
                    planned[o.uri].spec = world.spec,
                    planned[o.uri].oracle_access = "live" => Engorda!StillFree(reservations[o.uri]),
                    Engorda!DestinationOK(Engorda!MaterializeArgv(o))
             PROVE  Engorda!Accepts(Engorda!MaterializeArgv(o), planned[o.uri], reservations[o.uri])
  BY DEF Engorda!PairGoesThrough
<1> PICK first : first = Engorda!PlanArgv(o)
  OBVIOUS
<1> PICK c : c = Engorda!MaterializeArgv(o)
  OBVIOUS
<1> PICK p : p = planned[o.uri]
  OBVIOUS
<1> PICK met : met = commanded[o.uri].world
  OBVIOUS
<1>1. /\ first.product = c.product /\ first.raw = c.raw /\ first.output = c.output
      /\ first.faltantes = c.faltantes /\ first.plan_uri = c.plan_uri /\ first.specs = c.specs
      /\ first.query = c.query /\ first.allocator = c.allocator
      /\ first.no_oracle = c.no_oracle /\ first.dry_run = FALSE
      /\ first.static = {} /\ first.nullified = {} /\ first.phase = "plan"
      /\ c.plan_uri = o.uri /\ c.reservation_uri = o.uri
      /\ c.dry_run = FALSE
      /\ c.static = {} /\ c.date = Unused /\ c.tipo = Unused
      /\ c.num_ifs = Unused /\ c.n = Unused /\ c.phase = "materialize"
  <2>1. PlansOrder(first, o) /\ MaterializesOrder(c, o)
    BY RunnersOptions
  <2> QED
    BY <2>1 DEF PlansOrder, MaterializesOrder
<1>2. o.uri \in Uris
  BY DEF Engorda!CommandsArePossible
<1>3. p # Unused /\ Engorda!Fits(reservations[o.uri], p)
  BY <1>2 DEF CommandsInv, ReservedHeld
<1>4. PlanMade(p, first, met)
  BY <1>2, <1>3 DEF CommandsInv
<1>5. /\ Engorda!Valid(first) /\ Engorda!NamesItsInputs(first)
      /\ EngordaProducts[c.product].tables \subseteq DOMAIN EngordaSpecs[met.spec]
      /\ Shaped(p) /\ KeysAsked(p, first, met) /\ CodesAsked(p, first) /\ OthersAsked(p, first, met)
  BY <1>1, <1>4 DEF PlanMade, Engorda!Valid
<1>6. Unused \notin {c.plan_uri, c.raw, c.output} /\ c.reservation_uri # Unused
  BY <1>1, <1>5 DEF Engorda!NamesItsInputs
<1>7. Engorda!NamesItsInputs(c)
  <2>1. {f \in {"num_ifs", "n"} : c[f] # Unused} = {}
    BY <1>1
  <2>2. Engorda!Cardinality({}) = 0
    BY EngordaCounts, FS_EmptySet
  <2>3. Engorda!Cardinality({f \in {"num_ifs", "n"} : c[f] # Unused}) = 0
    BY <2>1, <2>2
  <2> QED
    BY <1>1, <1>6, <2>3 DEF Engorda!NamesItsInputs
<1>8. Engorda!Valid(c)
  <2>1. c.allocator = "synthetic_cdb" => EngordaProducts[c.product].cdb /\ Engorda!Live(c)
    BY <1>1, <1>5 DEF Engorda!Valid, Engorda!Live
  <2> QED
    BY <1>1, <1>7, <2>1 DEF Engorda!Valid
<1>9. met.spec = world.spec
  BY <1>5 DEF OthersAsked
<1>10. Engorda!TablesKnown(c)
  BY <1>5, <1>9 DEF Engorda!TablesKnown
<1>11. Engorda!AgreesWithPlan(c, p)
  <2>1. /\ Engorda!Raw(c) = c.raw /\ Engorda!Output(c) = c.output
    BY <1>6 DEF Engorda!Raw, Engorda!Output
  <2>2. /\ p.product = c.product /\ p.raw = c.raw /\ p.output = c.output /\ p.specs = c.specs
        /\ p.faltantes = c.faltantes /\ p.query = c.query
        /\ p.nullified = EngordaProducts[c.product].nullified
        /\ p.oracle_access = IF c.no_oracle THEN "disabled" ELSE "live"
    BY <1>1, <1>5 DEF OthersAsked
  <2>3. Engorda!Rebuilt(c, p) = p
    BY <1>5, <2>1, <2>2, RebuiltAsItWas
  <2>4. c.allocator \in {Unused, p.cod_if.strategy}
    BY <1>1, <1>5 DEF CodesAsked, Engorda!Allocator
  <2>5. Engorda!TablesOf(c) = DOMAIN p.tables
    <3>1. Engorda!TablesOf(c) = TablesAsked(first, met.spec)
      BY <1>1, <1>9 DEF Engorda!TablesOf, TablesAsked
    <3> QED
      BY <1>5, <3>1 DEF KeysAsked
  <2> QED
    BY <1>1, <2>3, <2>4, <2>5 DEF Engorda!AgreesWithPlan
<1>12. Engorda!Live(c) => Engorda!StillFree(reservations[o.uri])
  BY <1>1, <1>5 DEF OthersAsked, Engorda!Live
<1> QED
  BY <1>3, <1>8, <1>10, <1>11, <1>12 DEF Engorda!Accepts

\* Commands that are held are kept.
LEMMA CommandsHold ==
    ASSUME Engorda!CommandsArePossible, CommandsInv
    PROVE  Engorda!CommandsAreKept
BY CommandsApart, PairsGoThrough DEF CommandsInv, Engorda!CommandsAreKept

\* The invariant of the commands, of which the theorem at the end is a consequence.
THEOREM CommandsInvariant == Spec => [](program = "commands" => CommandsInv)
<1> DEFINE Inv == program = "commands" => CommandsInv
<1>1. Init => Inv
  BY CommandsBegin, ConstantsArePossible DEF Init
<1>2. Inv /\ [Next]_vars => Inv'
  BY StepsAreApart, CommandsKeep, CommandsStutter, ConstantsArePossible
<1> QED
  BY <1>1, <1>2, PTL DEF Spec

-----------------------------------------------------------------------------
(* The generated texts (GenAiRewrite). What one instrument is asked for.    *)

\* The counts of the instance are those of this module.
LEMMA RewriteCounts ==
    ASSUME NEW S
    PROVE  /\ Rewrite!Cardinality(S) = Cardinality(S)
           /\ Rewrite!IsFiniteSet(S) <=> IsFiniteSet(S)
BY DEF Rewrite!Cardinality, Cardinality, Rewrite!IsFiniteSet, IsFiniteSet

\* The job of the texts, whose policy was resolved.
PolicyHeld ==
    job \in TextJobs /\ Rewrite!ResolvePolicy(job.policy, job.product)

\* The cells of an instrument, in their order.
LEMMA CellsAreFound ==
    ASSUME Rewrite!JobsArePossible, PolicyHeld, NEW root
    PROVE  /\ IsFiniteSet(Rewrite!Found(root))
           /\ DOMAIN Rewrite!Cells(root) = 1 .. Cardinality(Rewrite!Found(root))
           /\ Cardinality(Rewrite!Found(root)) \in Nat
           /\ Rewrite!Cells(root) \in Seq(Rewrite!Found(root))
           /\ \A id \in DOMAIN Rewrite!Cells(root) : Rewrite!Cells(root)[id] \in Rewrite!Found(root)
<1> PICK those : those = Rewrite!Found(root)
  OBVIOUS
<1> PICK near : near = Rewrite!Aggregate(root)
  OBVIOUS
<1>1. IsFiniteSet(near) /\ near \in SUBSET job.rows
  <2>1. near \in SUBSET job.rows
    BY DEF Rewrite!Aggregate
  <2>2. IsFiniteSet(job.rows)
    BY RewriteCounts DEF Rewrite!JobsArePossible, PolicyHeld
  <2> QED
    BY <2>1, <2>2, FS_Subset
<1>2. /\ Rewrite!Targets \in Seq([table : STRING, column : STRING, max : Nat])
      /\ {Rewrite!Targets[i] : i \in DOMAIN Rewrite!Targets} = Rewrite!ReviewedTargets
  BY DEF Rewrite!JobsArePossible, PolicyHeld, Rewrite!ResolvePolicy, Rewrite!Targets
<1> PICK n \in Nat : DOMAIN Rewrite!Targets = 1 .. n
  BY <1>2
<1>3. IsFiniteSet(those)
  <2> DEFINE pair == [p \in near \X (1 .. n) |-> [row |-> p[1], nth |-> p[2]]]
  <2>0. IsFiniteSet(1 .. n)
    BY FS_Interval
  <2>1. IsFiniteSet(near \X (1 .. n))
    BY <1>1, <2>0, FS_Product
  <2>2. IsFiniteSet({pair[p] : p \in near \X (1 .. n)})
    <3>1. DOMAIN pair = near \X (1 .. n)
      OBVIOUS
    <3> HIDE DEF pair
    <3> QED
      BY <2>1, <3>1, FiniteImage
  <2>3. those \in SUBSET {pair[p] : p \in near \X (1 .. n)}
    <3>1. ASSUME NEW c \in those
          PROVE  c \in {pair[p] : p \in near \X (1 .. n)}
      <4>1. c \in [row : near, nth : 1 .. n]
        BY DEF Rewrite!Found
      <4>2. <<c.row, c.nth>> \in near \X (1 .. n) /\ c = [row |-> c.row, nth |-> c.nth]
        BY <4>1
      <4>3. c = pair[<<c.row, c.nth>>]
        BY <4>2
      <4> QED
        BY <4>2, <4>3
    <3> QED
      BY <3>1
  <2> HIDE DEF pair
  <2> QED
    BY <2>2, <2>3, FS_Subset
<1>4. ASSUME NEW c \in those
      PROVE  /\ c.row \in job.rows /\ c.nth \in Nat /\ c.row.key \in Nat
             /\ c = [row |-> c.row, nth |-> c.nth]
             /\ Rewrite!Rank[c.row.table] \in 1 .. 4
             /\ c.row.table \in {"EVENTO", "INSTRUMENTO_FINANCEIRO", "OPERACAO"}
  <2>1. /\ c \in [row : near, nth : 1 .. n] /\ Rewrite!Targets[c.nth].table = c.row.table
    BY DEF Rewrite!Found
  <2>2. c.row \in job.rows /\ c.nth \in Nat /\ c = [row |-> c.row, nth |-> c.nth] /\ c.nth \in 1 .. n
    BY <1>1, <2>1
  <2>3. c.row.key \in Nat
    BY <2>2 DEF Rewrite!JobsArePossible, PolicyHeld
  <2>4. Rewrite!Targets[c.nth] \in Rewrite!ReviewedTargets
    BY <1>2, <2>2
  <2>5. c.row.table \in {"EVENTO", "INSTRUMENTO_FINANCEIRO", "OPERACAO"}
    BY <2>1, <2>4 DEF Rewrite!ReviewedTargets
  <2>6. Rewrite!Rank[c.row.table] \in 1 .. 4
    BY <2>5 DEF Rewrite!Rank
  <2> QED
    BY <2>2, <2>3, <2>5, <2>6
<1> DEFINE rank(c) == Rewrite!Rank[c.row.table]
           below == [c \in those |-> {d \in those : Rewrite!Before(d, c)}]
<1>5. ASSUME NEW a \in those, NEW b \in those
      PROVE  Rewrite!Before(a, b) <=>
                \/ rank(a) < rank(b)
                \/ rank(a) = rank(b) /\ a.row.key < b.row.key
                \/ rank(a) = rank(b) /\ a.row.key = b.row.key /\ a.nth < b.nth
  <2> PICK x : x = Rewrite!Key(a)
    OBVIOUS
  <2> PICK y : y = Rewrite!Key(b)
    OBVIOUS
  <2>1. /\ x[1] = rank(a) /\ x[2] = a.row.key /\ x[3] = a.nth
        /\ y[1] = rank(b) /\ y[2] = b.row.key /\ y[3] = b.nth
    BY DEF Rewrite!Key
  <2>2. Rewrite!Before(a, b) <=> \E i \in 1 .. 3 : x[i] < y[i] /\ \A j \in 1 .. i - 1 : x[j] = y[j]
    BY DEF Rewrite!Before
  <2>3. (\E i \in 1 .. 3 : x[i] < y[i] /\ \A j \in 1 .. i - 1 : x[j] = y[j])
           <=> \/ x[1] < y[1]
               \/ x[1] = y[1] /\ x[2] < y[2]
               \/ x[1] = y[1] /\ x[2] = y[2] /\ x[3] < y[3]
    <3>1. 1 .. 3 = {1, 2, 3} /\ 1 .. 1 - 1 = {} /\ 1 .. 2 - 1 = {1} /\ 1 .. 3 - 1 = {1, 2}
      OBVIOUS
    <3> QED
      BY <3>1
  <2> QED
    BY <2>1, <2>2, <2>3
<1>6. \A c \in those : rank(c) \in Nat /\ c.row.key \in Nat /\ c.nth \in Nat
  BY <1>4
<1>7. ASSUME NEW a \in those, NEW b \in those, rank(a) = rank(b), a.row.key = b.row.key, a.nth = b.nth
      PROVE  a = b
  <2>1. a.row.table = b.row.table
    BY <1>4, <1>7 DEF Rewrite!Rank
  <2>2. a.row = b.row
    BY <1>4, <1>7, <2>1 DEF Rewrite!JobsArePossible, PolicyHeld
  <2> QED
    BY <1>4, <1>7, <2>2
<1> HIDE DEF rank
<1>8. /\ below \in [those -> SUBSET those]
      /\ \A a, b \in those : a \in below[b] <=> Rewrite!Before(a, b)
  OBVIOUS
<1> HIDE DEF below
<1>9. \A a, b \in those : a # b => a \in below[b] \/ b \in below[a]
  BY <1>5, <1>6, <1>7, <1>8
<1>10. \A a \in those : a \notin below[a]
  BY <1>5, <1>6, <1>8
<1>11. \A a, b \in those : a \in below[b] => below[a] \subseteq below[b]
  <2>1. ASSUME NEW a \in those, NEW b \in those, NEW c \in those, a \in below[b], c \in below[a]
        PROVE  c \in below[b]
    BY <1>5, <1>6, <1>8, <2>1
  <2> QED
    BY <1>8, <2>1
<1>12. /\ \A c \in those : Cardinality(below[c]) \in 0 .. Cardinality(those) - 1
       /\ \A m \in 0 .. Cardinality(those) - 1 : \E c \in those : Cardinality(below[c]) = m
       /\ Cardinality(those) \in Nat
  BY <1>3, <1>8, <1>9, <1>10, <1>11, RanksAreABijection
<1> PICK place : place = [c \in those |-> 1 + Rewrite!Cardinality({d \in those : Rewrite!Before(d, c)})]
  OBVIOUS
<1>13. Rewrite!Cells(root) = [id \in 1 .. Cardinality(those) |-> CHOOSE c \in those : place[c] = id]
  <2>1. Rewrite!Cells(root) =
           [id \in 1 .. Rewrite!Cardinality(those) |-> CHOOSE c \in those : place[c] = id]
    BY DEF Rewrite!Cells
  <2> QED
    BY <2>1, RewriteCounts
<1>14. ASSUME NEW id \in 1 .. Cardinality(those)
       PROVE  Rewrite!Cells(root)[id] \in those
  <2>1. id - 1 \in 0 .. Cardinality(those) - 1
    BY <1>12
  <2>2. PICK c \in those : Cardinality(below[c]) = id - 1
    BY <1>12, <2>1
  <2>3. place[c] = id
    <3>1. below[c] = {d \in those : Rewrite!Before(d, c)}
      BY DEF below
    <3>2. place[c] = 1 + Cardinality(below[c])
      BY <3>1, RewriteCounts
    <3> QED
      BY <2>2, <3>2
  <2>4. (CHOOSE d \in those : place[d] = id) \in those
    BY <2>3
  <2> QED
    BY <1>13, <2>4
<1>15. Rewrite!Cells(root) \in Seq(those)
  <2>1. Rewrite!Cells(root) \in [1 .. Cardinality(those) -> those]
    BY <1>13, <1>14
  <2> QED
    BY <1>12, <2>1
<1> QED
  BY <1>3, <1>12, <1>13, <1>14, <1>15

\* The width of a request is a number,
LEMMA WidthIsANumber ==
    ASSUME Rewrite!JobsArePossible, PolicyHeld, NEW root
    PROVE  Rewrite!Width(root) \in Nat
<1> DEFINE cells == Rewrite!Cells(root)
           N == Len(cells)
           wide(id) == Rewrite!Targets[cells[id].nth].max
           step == [id \in 1 .. N |-> [v \in Nat |-> v + wide(id)]]
           Is(f) == f = [id \in 0 .. N |-> IF id = 0 THEN 0 ELSE f[id - 1] + wide(id)]
<1>1. /\ cells \in Seq(Rewrite!Found(root))
      /\ \A id \in DOMAIN cells : cells[id] \in Rewrite!Found(root)
  BY CellsAreFound
<1>2. N \in Nat /\ DOMAIN cells = 1 .. N
  <2>2. cells \in Seq(Rewrite!Found(root))
    BY <1>1
  <2> HIDE DEF cells
  <2> QED
    BY <2>2
<1>3. ASSUME NEW id \in 1 .. N
      PROVE  wide(id) \in Nat
  <2>1. Rewrite!Targets \in Seq([table : STRING, column : STRING, max : Nat])
    BY DEF Rewrite!JobsArePossible, PolicyHeld, Rewrite!ResolvePolicy, Rewrite!Targets
  <2>2. cells[id] \in Rewrite!Found(root)
    BY <1>1, <1>2
  <2>3. cells[id].nth \in DOMAIN Rewrite!Targets
    BY <2>2 DEF Rewrite!Found
  <2> PICK target : target = Rewrite!Targets[cells[id].nth]
    OBVIOUS
  <2>4. target \in [table : STRING, column : STRING, max : Nat]
    <3>1. ASSUME NEW T, NEW s \in Seq(T), NEW i \in DOMAIN s
          PROVE  s[i] \in T
      OBVIOUS
    <3> QED
      BY <2>1, <2>3, <3>1, Zenon
  <2> QED
    BY <2>4
<1> HIDE DEF cells, N, wide
<1>4. step \in [1 .. N -> [Nat -> Nat]] /\ 0 \in Nat
  BY <1>3
<1>5. \A id \in 1 .. N, v \in Nat : step[id][v] = v + wide(id)
  OBVIOUS
<1> HIDE DEF step
<1>6. PICK f \in [0 .. N -> Nat] : f[0] = 0 /\ \A id \in 1 .. N : f[id] = step[id][f[id - 1]]
  <2>1. \E f : Iterates(f, N, Nat, 0, step)
    BY <1>2, <1>4, IterationExists
  <2> QED
    BY <2>1 DEF Iterates
<1>7. Is(f)
  <2>1. ASSUME NEW id \in 0 .. N
        PROVE  f[id] = IF id = 0 THEN 0 ELSE f[id - 1] + wide(id)
    <3>1. CASE id = 0
      BY <1>6, <3>1
    <3>2. CASE id # 0
      <4>1. id \in 1 .. N /\ id - 1 \in 0 .. N /\ f[id - 1] \in Nat
        BY <1>2, <3>2
      <4>2. f[id] = step[id][f[id - 1]]
        BY <1>6, <3>2
      <4> QED
        BY <1>5, <4>1, <4>2, <3>2
    <3> QED
      BY <3>1, <3>2
  <2> QED
    BY <2>1
<1> DEFINE upTo == CHOOSE g : Is(g)
<1>8. Rewrite!Width(root) = upTo[N]
  BY DEF Rewrite!Width, N, wide, cells
<1>9. Is(upTo)
  BY <1>7
<1> HIDE DEF upTo
<1> PICK g : g = upTo
  OBVIOUS
<1>10. /\ DOMAIN g = 0 .. N
       /\ \A id \in 0 .. N : g[id] = IF id = 0 THEN 0 ELSE g[id - 1] + wide(id)
  BY <1>9
<1>11. {id \in 0 .. N : g[id] \in Nat} = 0 .. N
  <2> DEFINE P == {id \in 0 .. N : g[id] \in Nat}
  <2>1. 0 \in P
    BY <1>2, <1>10
  <2>2. ASSUME NEW id \in 1 .. N, id - 1 \in P
        PROVE  id \in P
    <3>1. id \in 0 .. N /\ id # 0 /\ g[id - 1] \in Nat /\ wide(id) \in Nat
      BY <1>2, <1>3, <2>2
    <3>2. g[id] = g[id - 1] + wide(id)
      BY <1>10, <3>1
    <3> QED
      BY <3>1, <3>2
  <2> HIDE DEF P
  <2>3. 0 .. N \subseteq P
    BY <1>2, <2>1, <2>2, CountingUp
  <2> QED
    BY <2>3 DEF P
<1> QED
  BY <1>2, <1>8, <1>11

\* and so is the number of copies of a batch.
LEMMA BatchIsANumber ==
    ASSUME Rewrite!JobsArePossible, PolicyHeld, NEW root
    PROVE  Rewrite!BatchSize(root) \in Nat
<1> PICK w : w = Rewrite!Width(root)
  OBVIOUS
<1>1. w + 1 \in Nat \ {0}
  BY WidthIsANumber
<1>2. 2 * job.policy.maxTokens + 1 \in Nat
  BY DEF Rewrite!JobsArePossible, PolicyHeld
<1>3. (2 * job.policy.maxTokens + 1) \div (w + 1) \in Nat
  BY <1>1, <1>2, Division
<1> QED
  BY <1>3 DEF Rewrite!BatchSize

\* The request of one instrument, as far as its rows are about it.
Request(root) ==
    [cells |-> Rewrite!Cells(root), size |-> Rewrite!BatchSize(root), copies |-> job.factor,
     columns |-> [id \in DOMAIN Rewrite!Cells(root) |-> Rewrite!ColumnOf(Rewrite!Cells(root)[id])]]

\* A row is about the cell it names, and has the text that was given for it
\* or none.
AboutItsCell(root, q, f) ==
    /\ f.table = q.cells[f.target].row.table /\ f.key = q.cells[f.target].row.key
    /\ f.column = q.columns[f.target]
    /\ f.action = "REPLACE" => f.value = <<root, f.copy, f.target>>

\* The rows account for the copies up to one, each target of each once.
Accounts(root, q, rows, upto) ==
    /\ \A f \in rows :
          /\ f.root = root /\ f.copy \in 1 .. upto /\ f.target \in DOMAIN q.cells
          /\ AboutItsCell(root, q, f)
    /\ \A k \in 1 .. upto, id \in DOMAIN q.cells : \E f \in rows : f.copy = k /\ f.target = id
    /\ \A f, g \in rows : f.copy = g.copy /\ f.target = g.target => f = g

\* What has no text and what has one, once, are the places of a batch.
DividedUp(places, left, generated) ==
    /\ left \subseteq places
    /\ \A g \in generated : g.at \in places \ left
    /\ \A i \in places : i \in left \/ \E g \in generated : g.at = i
    /\ \A g, h \in generated : g.at = h.at => g = h

\* The copies of the batch that starts at one.
BatchOf(q, start) == start .. Rewrite!Min2(start + q.size - 1, q.copies)

\* How far a batch is: what is asked for is resolved or not, and the calls are
\* those of the batches and attempts before this one.
UnderWay(root, q, w) ==
    /\ q.size \in Nat \ {0}
    /\ {"start", "attempt", "tries", "over", "unresolved", "generated", "successes", "calls"} \subseteq DOMAIN w
    /\ w = [x \in DOMAIN w |-> w[x]]
    /\ w.start \in 1 .. q.copies /\ w.attempt \in 1 .. LogicalAttempts
    /\ w.tries \in 0 .. TransportAttempts - 1 /\ w.calls \in Nat
    /\ w.calls <= ((w.start - 1) * LogicalAttempts + (w.attempt - 1)) * TransportAttempts + w.tries
    /\ Accounts(root, q, w.rows, w.start - 1)
    /\ DividedUp(BatchOf(q, w.start) \X DOMAIN q.cells, w.unresolved, w.generated)

\* The work on one instrument: all accounted for when it is over.
WorkHeld(root, q, w) ==
    /\ w.over \in BOOLEAN
    /\ IF w.over
       THEN /\ Accounts(root, q, w.rows, q.copies)
            /\ w.calls \in Nat /\ w.calls <= q.copies * LogicalAttempts * TransportAttempts
       ELSE UnderWay(root, q, w)

\* The fields of a request.
LEMMA RequestFields ==
    ASSUME Rewrite!JobsArePossible, PolicyHeld, NEW root, NEW q, q = Request(root)
    PROVE  /\ q.cells = Rewrite!Cells(root) /\ q.size = Rewrite!BatchSize(root) /\ q.copies = job.factor
           /\ \A id \in DOMAIN q.cells : q.columns[id] = Rewrite!ColumnOf(q.cells[id])
           /\ q.size \in Nat /\ q.copies \in Nat \ {0}
<1>1. /\ q.cells = Rewrite!Cells(root) /\ q.size = Rewrite!BatchSize(root) /\ q.copies = job.factor
      /\ q.columns = [id \in DOMAIN Rewrite!Cells(root) |-> Rewrite!ColumnOf(Rewrite!Cells(root)[id])]
  BY DEF Request
<1>2. Rewrite!BatchSize(root) \in Nat
  BY BatchIsANumber
<1>3. job.factor \in Nat \ {0}
  BY DEF Rewrite!JobsArePossible, PolicyHeld
<1> QED
  BY <1>1, <1>2, <1>3

\* A replacement is about the cell it was made for.
LEMMA ReplacementMade ==
    ASSUME Rewrite!JobsArePossible, PolicyHeld, NEW root, NEW q, q = Request(root),
           NEW k, NEW id \in DOMAIN q.cells, NEW value, NEW attempts,
           value = Unused \/ value = <<root, k, id>>,
           NEW f, f = Rewrite!Replacement(root, k, id, value, attempts)
    PROVE  f.root = root /\ f.copy = k /\ f.target = id /\ AboutItsCell(root, q, f)
<1>1. /\ f.root = root /\ f.copy = k /\ f.target = id /\ f.value = value
      /\ f.table = q.cells[id].row.table /\ f.key = q.cells[id].row.key
      /\ f.column = Rewrite!ColumnOf(q.cells[id])
      /\ f.action = IF value = Unused THEN "KEEP_SOURCE" ELSE "REPLACE"
  <2>1. q.cells = Rewrite!Cells(root)
    BY RequestFields
  <2> QED
    BY <2>1 DEF Rewrite!Replacement
<1>2. f.column = q.columns[id]
  BY <1>1, RequestFields
<1>3. f.action = "REPLACE" => f.value = <<root, f.copy, f.target>>
  BY <1>1
<1> QED
  BY <1>1, <1>2, <1>3 DEF AboutItsCell

\* The replacements of an instrument without a batch account for all copies.
LEMMA FallbackAccounts ==
    ASSUME Rewrite!JobsArePossible, PolicyHeld, NEW root, NEW q, q = Request(root)
    PROVE  Accounts(root, q, Rewrite!Fallback(root), q.copies)
<1>1. q.cells = Rewrite!Cells(root) /\ q.copies = job.factor
  BY RequestFields
<1>2. \A f : f \in Rewrite!Fallback(root) <=>
         \E k \in 1 .. q.copies, id \in DOMAIN q.cells : f = Rewrite!Replacement(root, k, id, Unused, 0)
  BY <1>1 DEF Rewrite!Fallback
<1>3. ASSUME NEW f \in Rewrite!Fallback(root)
      PROVE  /\ f.root = root /\ f.copy \in 1 .. q.copies /\ f.target \in DOMAIN q.cells
             /\ AboutItsCell(root, q, f)
             /\ f = Rewrite!Replacement(root, f.copy, f.target, Unused, 0)
  <2>1. PICK k \in 1 .. q.copies, id \in DOMAIN q.cells : f = Rewrite!Replacement(root, k, id, Unused, 0)
    BY <1>2
  <2>2. f.root = root /\ f.copy = k /\ f.target = id /\ AboutItsCell(root, q, f)
    BY <2>1, ReplacementMade
  <2> QED
    BY <2>1, <2>2
<1>4. ASSUME NEW k \in 1 .. q.copies, NEW id \in DOMAIN q.cells
      PROVE  \E f \in Rewrite!Fallback(root) : f.copy = k /\ f.target = id
  <2>1. PICK f : f = Rewrite!Replacement(root, k, id, Unused, 0)
    OBVIOUS
  <2>2. f.copy = k /\ f.target = id
    BY <2>1, ReplacementMade
  <2> QED
    BY <1>2, <2>1, <2>2
<1>5. \A f, g \in Rewrite!Fallback(root) : f.copy = g.copy /\ f.target = g.target => f = g
  BY <1>3
<1> QED
  BY <1>3, <1>4, <1>5 DEF Accounts

\* A new batch accounts for what the ones before it do.
LEMMA OpenedHeld ==
    ASSUME Rewrite!JobsArePossible, PolicyHeld, NEW root, NEW q, q = Request(root),
           q.size # 0, NEW start \in 1 .. q.copies, NEW rows, NEW successes, NEW calls \in Nat,
           Accounts(root, q, rows, start - 1),
           calls <= (start - 1) * LogicalAttempts * TransportAttempts
    PROVE  WorkHeld(root, q, Rewrite!Open(root, start, rows, successes, calls))
<1> PICK w : w = Rewrite!Open(root, start, rows, successes, calls)
  OBVIOUS
<1>1. /\ q.cells = Rewrite!Cells(root) /\ q.size = Rewrite!BatchSize(root) /\ q.copies = job.factor
      /\ q.size \in Nat \ {0} /\ q.copies \in Nat \ {0}
  BY RequestFields
<1>2. /\ w.start = start /\ w.attempt = 1 /\ w.tries = 0 /\ w.over = FALSE /\ w.generated = {}
      /\ w.unresolved = Rewrite!Batch(root, start) \X DOMAIN Rewrite!Cells(root)
      /\ w.rows = rows /\ w.calls = calls
      /\ {"start", "attempt", "tries", "over", "unresolved", "generated", "successes", "calls"} \subseteq DOMAIN w
      /\ w = [x \in DOMAIN w |-> w[x]]
  BY DEF Rewrite!Open
<1>3. w.unresolved = BatchOf(q, start) \X DOMAIN q.cells
  BY <1>1, <1>2 DEF Rewrite!Batch, BatchOf
<1>4. LogicalAttempts \in Nat \ {0} /\ TransportAttempts \in Nat \ {0}
  BY DEF Rewrite!JobsArePossible
<1>5. w.calls <= ((w.start - 1) * LogicalAttempts + (w.attempt - 1)) * TransportAttempts + w.tries
  <2>1. (start - 1) * LogicalAttempts \in Nat
    BY <1>1, <1>4
  <2>2. ((start - 1) * LogicalAttempts + (1 - 1)) * TransportAttempts + 0
           = (start - 1) * LogicalAttempts * TransportAttempts
    BY <1>4, <2>1
  <2> QED
    BY <1>2, <2>2
<1>6. UnderWay(root, q, w)
  <2>2. DividedUp(BatchOf(q, w.start) \X DOMAIN q.cells, w.unresolved, w.generated)
    BY <1>2, <1>3 DEF DividedUp
  <2>1. w.attempt \in 1 .. LogicalAttempts /\ w.tries \in 0 .. TransportAttempts - 1
    BY <1>2, <1>4
  <2> QED
    BY <1>1, <1>2, <1>5, <2>1, <2>2 DEF UnderWay
<1> QED
  BY <1>2, <1>6 DEF WorkHeld

\* The work on an instrument begins with its first batch, or is over.
LEMMA BegunHeld ==
    ASSUME Rewrite!JobsArePossible, PolicyHeld, NEW root, NEW q, q = Request(root)
    PROVE  WorkHeld(root, q, Rewrite!Begun(root))
<1>1. /\ q.cells = Rewrite!Cells(root) /\ q.size = Rewrite!BatchSize(root) /\ q.size \in Nat
      /\ q.copies \in Nat \ {0}
  BY RequestFields
<1>2. LogicalAttempts \in Nat \ {0} /\ TransportAttempts \in Nat \ {0}
  BY DEF Rewrite!JobsArePossible
<1>3. ASSUME NEW rows, Accounts(root, q, rows, q.copies)
      PROVE  WorkHeld(root, q, Rewrite!Closed(rows, 0, 0))
  <2>1. 0 <= q.copies * LogicalAttempts * TransportAttempts
    BY <1>1, <1>2
  <2> QED
    BY <1>3, <2>1 DEF WorkHeld, Rewrite!Closed
<1>4. CASE root \in job.bulky
  BY <1>3, <1>4, FallbackAccounts DEF Rewrite!Begun
<1>5. CASE root \notin job.bulky /\ Rewrite!Cells(root) = <<>>
  <2>1. DOMAIN q.cells = {}
    BY <1>1, <1>5
  <2>2. Accounts(root, q, {}, q.copies)
    BY <2>1 DEF Accounts
  <2> QED
    BY <1>3, <1>5, <2>2 DEF Rewrite!Begun
<1>6. CASE root \notin job.bulky /\ Rewrite!Cells(root) # <<>> /\ q.size < 1
  BY <1>1, <1>3, <1>6, FallbackAccounts DEF Rewrite!Begun
<1>7. CASE root \notin job.bulky /\ Rewrite!Cells(root) # <<>> /\ ~(q.size < 1)
  <2>1. Rewrite!Begun(root) = Rewrite!Open(root, 1, {}, 0, 0)
    BY <1>1, <1>7 DEF Rewrite!Begun
  <2>2. Accounts(root, q, {}, 1 - 1)
    BY DEF Accounts
  <2>3. 0 <= (1 - 1) * LogicalAttempts * TransportAttempts
    BY <1>2
  <2>4. q.size # 0 /\ 1 \in 1 .. q.copies
    BY <1>1, <1>7
  <2> QED
    BY <2>1, <2>2, <2>3, <2>4, OpenedHeld
<1> QED
  BY <1>4, <1>5, <1>6, <1>7

\* The rows of a batch that is closed, with those before it.
RowsAfter(root, rows, generated, left, nth) ==
    rows
        \cup {Rewrite!Replacement(root, g.at[1], g.at[2], <<root, g.at[1], g.at[2]>>, g.attempt) : g \in generated}
        \cup {Rewrite!Replacement(root, i[1], i[2], Unused, nth) : i \in left}

\* The rows of a batch account for its copies.
LEMMA BatchAccounts ==
    ASSUME Rewrite!JobsArePossible, PolicyHeld, NEW root, NEW q, q = Request(root),
           NEW start \in 1 .. q.copies, NEW end \in Nat, start - 1 <= end,
           NEW rows, Accounts(root, q, rows, start - 1),
           NEW places, places = (start .. end) \X DOMAIN q.cells,
           NEW left, NEW generated, NEW nth, DividedUp(places, left, generated)
    PROVE  Accounts(root, q, RowsAfter(root, rows, generated, left, nth), end)
<1>0. /\ start \in Nat /\ start - 1 \in Nat
      /\ \A i \in places : i = <<i[1], i[2]>> /\ i[1] \in start .. end /\ i[2] \in DOMAIN q.cells
  <2>1. q.copies \in Nat
    BY RequestFields
  <2> QED
    BY <2>1
<1>8. /\ left \subseteq places
      /\ \A g \in generated : g.at \in places \ left
      /\ \A i \in places : i \in left \/ \E g \in generated : g.at = i
      /\ \A g, h \in generated : g.at = h.at => g = h
  BY DEF DividedUp
<1> DEFINE Of(g) == Rewrite!Replacement(root, g.at[1], g.at[2], <<root, g.at[1], g.at[2]>>, g.attempt)
           Kept(i) == Rewrite!Replacement(root, i[1], i[2], Unused, nth)
           all == RowsAfter(root, rows, generated, left, nth)
<1>1. \A f : f \in all <=> f \in rows \/ (\E g \in generated : f = Of(g)) \/ (\E i \in left : f = Kept(i))
  BY DEF RowsAfter
<1>2. ASSUME NEW g \in generated
      PROVE  /\ Of(g).root = root /\ <<Of(g).copy, Of(g).target>> = g.at
             /\ Of(g).copy \in start .. end /\ Of(g).target \in DOMAIN q.cells
             /\ AboutItsCell(root, q, Of(g))
  <2> PICK k : k = g.at[1]
    OBVIOUS
  <2> PICK id : id = g.at[2]
    OBVIOUS
  <2>1. g.at = <<k, id>> /\ k \in start .. end /\ id \in DOMAIN q.cells
    BY <1>0, <1>8
  <2> PICK f : f = Of(g)
    OBVIOUS
  <2>2. f = Rewrite!Replacement(root, k, id, <<root, k, id>>, g.attempt)
    OBVIOUS
  <2>3. f.root = root /\ f.copy = k /\ f.target = id /\ AboutItsCell(root, q, f)
    BY <2>1, <2>2, ReplacementMade
  <2> QED
    BY <2>1, <2>3
<1>3. ASSUME NEW i \in left
      PROVE  /\ Kept(i).root = root /\ <<Kept(i).copy, Kept(i).target>> = i
             /\ Kept(i).copy \in start .. end /\ Kept(i).target \in DOMAIN q.cells
             /\ AboutItsCell(root, q, Kept(i))
  <2> PICK k : k = i[1]
    OBVIOUS
  <2> PICK id : id = i[2]
    OBVIOUS
  <2>1. i = <<k, id>> /\ k \in start .. end /\ id \in DOMAIN q.cells
    BY <1>0, <1>8
  <2> PICK f : f = Kept(i)
    OBVIOUS
  <2>2. f = Rewrite!Replacement(root, k, id, Unused, nth)
    OBVIOUS
  <2>3. f.root = root /\ f.copy = k /\ f.target = id /\ AboutItsCell(root, q, f)
    BY <2>1, <2>2, ReplacementMade
  <2> QED
    BY <2>1, <2>3
<1> HIDE DEF Of, Kept, all
<1>4. \A f \in rows : /\ f.root = root /\ f.copy \in 1 .. start - 1 /\ f.target \in DOMAIN q.cells
                      /\ AboutItsCell(root, q, f)
  BY DEF Accounts
<1>5. ASSUME NEW f \in all
      PROVE  /\ f.root = root /\ f.copy \in 1 .. end /\ f.target \in DOMAIN q.cells
             /\ AboutItsCell(root, q, f)
  <2>1. CASE f \in rows
    BY <1>0, <1>4, <2>1
  <2>2. CASE \E g \in generated : f = Of(g)
    BY <1>0, <1>2, <2>2
  <2>3. CASE \E i \in left : f = Kept(i)
    BY <1>0, <1>3, <2>3
  <2> QED
    BY <1>1, <2>1, <2>2, <2>3
<1>6. ASSUME NEW k \in 1 .. end, NEW id \in DOMAIN q.cells
      PROVE  \E f \in all : f.copy = k /\ f.target = id
  <2>1. CASE k \in 1 .. start - 1
    <3>1. \E f \in rows : f.copy = k /\ f.target = id
      BY <2>1 DEF Accounts
    <3> QED
      BY <1>1, <3>1
  <2>2. CASE k \notin 1 .. start - 1
    <3>1. <<k, id>> \in places
      BY <1>0, <2>2
    <3>2. CASE <<k, id>> \in left
      <4>1. <<Kept(<<k, id>>).copy, Kept(<<k, id>>).target>> = <<k, id>>
        BY <1>3, <3>2
      <4> QED
        BY <1>1, <3>2, <4>1
    <3>3. CASE \E g \in generated : g.at = <<k, id>>
      <4>1. PICK g \in generated : g.at = <<k, id>>
        BY <3>3
      <4>2. <<Of(g).copy, Of(g).target>> = <<k, id>>
        BY <1>2, <4>1
      <4> QED
        BY <1>1, <4>2
    <3> QED
      BY <1>8, <3>1, <3>2, <3>3
  <2> QED
    BY <2>1, <2>2
<1>7. ASSUME NEW f \in all, NEW h \in all, f.copy = h.copy, f.target = h.target
      PROVE  f = h
  <2>1. ASSUME NEW x \in all
        PROVE  \/ x \in rows /\ x.copy \in 1 .. start - 1
               \/ \E g \in generated : x = Of(g) /\ <<x.copy, x.target>> = g.at /\ x.copy \in start .. end
               \/ \E i \in left : x = Kept(i) /\ <<x.copy, x.target>> = i /\ x.copy \in start .. end
    BY <1>1, <1>2, <1>3, <1>4
  <2>2. \A n : ~(n \in 1 .. start - 1 /\ n \in start .. end)
    BY <1>0
  <2>3. CASE f \in rows /\ f.copy \in 1 .. start - 1
    <3>1. h \in rows
      BY <1>7, <2>1, <2>2, <2>3
    <3> QED
      BY <1>7, <2>3, <3>1 DEF Accounts
  <2>4. CASE \E g \in generated : f = Of(g) /\ <<f.copy, f.target>> = g.at /\ f.copy \in start .. end
    <3>1. PICK g \in generated : f = Of(g) /\ <<f.copy, f.target>> = g.at
      BY <2>4
    <3>2. ~(h.copy \in 1 .. start - 1)
      BY <1>7, <2>2, <2>4
    <3>3. <<h.copy, h.target>> \notin left
      BY <1>7, <1>8, <3>1
    <3>4. PICK g2 \in generated : h = Of(g2) /\ <<h.copy, h.target>> = g2.at
      BY <2>1, <3>2, <3>3
    <3>5. g = g2
      BY <1>7, <1>8, <3>1, <3>4
    <3> QED
      BY <3>1, <3>4, <3>5
  <2>5. CASE \E i \in left : f = Kept(i) /\ <<f.copy, f.target>> = i /\ f.copy \in start .. end
    <3>1. PICK i \in left : f = Kept(i) /\ <<f.copy, f.target>> = i
      BY <2>5
    <3>2. ~(h.copy \in 1 .. start - 1)
      BY <1>7, <2>2, <2>5
    <3>3. ~ \E g \in generated : <<h.copy, h.target>> = g.at
      BY <1>7, <1>8, <3>1
    <3>4. PICK i2 \in left : h = Kept(i2) /\ <<h.copy, h.target>> = i2
      BY <2>1, <3>2, <3>3
    <3> QED
      BY <1>7, <3>1, <3>4
  <2> QED
    BY <2>1, <2>3, <2>4, <2>5
<1> QED
  BY <1>5, <1>6, <1>7 DEF Accounts, all

\* What is left of a batch.
LEMMA AfterHeld ==
    ASSUME Rewrite!JobsArePossible, PolicyHeld, NEW root, NEW q, q = Request(root),
           ~work[root].over, WorkHeld(root, q, work[root]),
           NEW accepted \in SUBSET work[root].unresolved, NEW answered
    PROVE  WorkHeld(root, q, Rewrite!After(root, accepted, answered))
<1> PICK w : w = work[root]
  OBVIOUS
<1> PICK left : left = w.unresolved \ accepted
  OBVIOUS
<1> PICK generated : generated = w.generated \cup {[at |-> i, attempt |-> w.attempt] : i \in accepted}
  OBVIOUS
<1> PICK end : end = Rewrite!Min2(w.start + q.size - 1, q.copies)
  OBVIOUS
<1> PICK places : places = (w.start .. end) \X DOMAIN q.cells
  OBVIOUS
<1> PICK all : all = RowsAfter(root, w.rows, generated, left, w.attempt)
  OBVIOUS
<1> PICK result : result = Rewrite!After(root, accepted, answered)
  OBVIOUS
<1>1. UnderWay(root, q, w) /\ w.over = FALSE
  BY DEF WorkHeld
<1>2. /\ q.size = Rewrite!BatchSize(root) /\ q.copies = job.factor
      /\ q.size \in Nat \ {0} /\ q.copies \in Nat \ {0}
  BY <1>1, RequestFields DEF UnderWay
<1>3. LogicalAttempts \in Nat \ {0} /\ TransportAttempts \in Nat \ {0}
  BY DEF Rewrite!JobsArePossible
<1>4. /\ w.start \in 1 .. q.copies /\ w.attempt \in 1 .. LogicalAttempts
      /\ w.tries \in 0 .. TransportAttempts - 1 /\ w.calls \in Nat
      /\ w.calls <= ((w.start - 1) * LogicalAttempts + (w.attempt - 1)) * TransportAttempts + w.tries
      /\ Accounts(root, q, w.rows, w.start - 1)
      /\ w.unresolved \subseteq places
      /\ \A g \in w.generated : g.at \in places /\ g.at \notin w.unresolved
      /\ \A i \in places : i \in w.unresolved \/ \E g \in w.generated : g.at = i
      /\ \A g, h \in w.generated : g.at = h.at => g = h
  BY <1>1 DEF UnderWay, BatchOf, DividedUp
<1>5. w.calls + 1 <= ((w.start - 1) * LogicalAttempts + w.attempt) * TransportAttempts
  <2>1. PICK x \in Nat : x = (w.start - 1) * LogicalAttempts
    BY <1>2, <1>3, <1>4
  <2>2. PICK y \in Nat : y = w.attempt - 1
    BY <1>3, <1>4
  <2>3. w.calls <= (x + y) * TransportAttempts + w.tries
    BY <1>4, <2>1, <2>2
  <2>4. w.tries + 1 <= TransportAttempts
    BY <1>3, <1>4
  <2>5. (x + (y + 1)) * TransportAttempts = (x + y) * TransportAttempts + TransportAttempts
    BY <1>3
  <2>6. (x + y) * TransportAttempts \in Nat
    BY <1>3
  <2>7. w.attempt = y + 1
    BY <1>3, <1>4, <2>2
  <2> QED
    BY <1>3, <1>4, <2>1, <2>3, <2>4, <2>5, <2>6, <2>7
<1>6. DividedUp(places, left, generated)
  <2>1. \A g : g \in generated <=>
           g \in w.generated \/ \E i \in accepted : g = [at |-> i, attempt |-> w.attempt]
    OBVIOUS
  <2>2. left \subseteq places /\ accepted \subseteq places
    BY <1>4
  <2>3. ASSUME NEW g \in generated
        PROVE  /\ g.at \in places \ left
               /\ g \in w.generated => g.at \notin accepted
               /\ g \notin w.generated => g.at \in accepted /\ g = [at |-> g.at, attempt |-> w.attempt]
    BY <1>4, <2>1, <2>2
  <2>4. ASSUME NEW i \in places, i \notin left
        PROVE  \E g \in generated : g.at = i
    <3>1. CASE i \in accepted
      <4>1. [at |-> i, attempt |-> w.attempt] \in generated
        BY <2>1, <3>1
      <4> QED
        BY <4>1
    <3>2. CASE i \notin accepted
      BY <1>4, <2>1, <2>4, <3>2
    <3> QED
      BY <3>1, <3>2
  <2>5. ASSUME NEW g \in generated, NEW h \in generated, g.at = h.at
        PROVE  g = h
    BY <1>4, <2>3, <2>5
  <2> QED
    BY <2>2, <2>3, <2>4, <2>5 DEF DividedUp
<1>7. result =
         IF left # {} /\ w.attempt < LogicalAttempts
         THEN [w EXCEPT !.attempt = w.attempt + 1, !.tries = 0, !.unresolved = left,
                        !.generated = generated, !.successes = w.successes + answered,
                        !.calls = w.calls + 1]
         ELSE IF w.start + Rewrite!BatchSize(root) <= job.factor
         THEN Rewrite!Open(root, w.start + Rewrite!BatchSize(root), all, w.successes + answered, w.calls + 1)
         ELSE Rewrite!Closed(all, w.successes + answered, w.calls + 1)
  BY DEF Rewrite!After, RowsAfter
<1>8. CASE left # {} /\ w.attempt < LogicalAttempts
  <2>1. result = [w EXCEPT !.attempt = w.attempt + 1, !.tries = 0, !.unresolved = left,
                           !.generated = generated, !.successes = w.successes + answered,
                           !.calls = w.calls + 1]
    BY <1>7, <1>8
  <2>2. /\ {"start", "attempt", "tries", "over", "unresolved", "generated", "successes", "calls"} \subseteq DOMAIN w
        /\ w = [x \in DOMAIN w |-> w[x]]
    BY <1>1 DEF UnderWay
  <2>3. /\ result.attempt = w.attempt + 1 /\ result.tries = 0 /\ result.unresolved = left
        /\ result.generated = generated /\ result.calls = w.calls + 1
        /\ DOMAIN result = DOMAIN w /\ result = [x \in DOMAIN result |-> result[x]]
    <3>1. DOMAIN result = DOMAIN w /\ result = [x \in DOMAIN result |-> result[x]]
      BY <2>1
    <3>2. result.attempt = w.attempt + 1 /\ result.tries = 0 /\ result.unresolved = left
      BY <2>1, <2>2
    <3>3. result.generated = generated /\ result.calls = w.calls + 1
      BY <2>1, <2>2
    <3> QED
      BY <3>1, <3>2, <3>3
  <2>4. result.start = w.start /\ result.over = w.over /\ result.rows = w.rows
    BY <2>1, <2>2
  <2>5. result.calls <= ((result.start - 1) * LogicalAttempts + (result.attempt - 1)) * TransportAttempts
                           + result.tries
    <3>1. PICK x \in Nat : x = (w.start - 1) * LogicalAttempts
      BY <1>2, <1>3, <1>4
    <3>2. w.calls + 1 <= (x + w.attempt) * TransportAttempts
      BY <1>5, <3>1
    <3>3. result.attempt - 1 = w.attempt /\ (x + w.attempt) * TransportAttempts \in Nat
      BY <1>3, <1>4, <2>3
    <3>4. result.calls <= (x + (result.attempt - 1)) * TransportAttempts + result.tries
      BY <2>3, <3>2, <3>3
    <3> QED
      BY <2>4, <3>1, <3>4
  <2>6. result.attempt \in 1 .. LogicalAttempts /\ result.tries \in 0 .. TransportAttempts - 1 /\ result.calls \in Nat
    BY <1>3, <1>4, <1>8, <2>3
  <2>7. BatchOf(q, result.start) \X DOMAIN q.cells = places
    BY <2>4 DEF BatchOf
  <2>8. UnderWay(root, q, result)
    BY <1>2, <1>4, <1>6, <2>2, <2>3, <2>4, <2>5, <2>6, <2>7 DEF UnderWay
  <2> QED
    BY <1>1, <2>4, <2>8 DEF WorkHeld
<1>9. ASSUME ~(left # {} /\ w.attempt < LogicalAttempts)
      PROVE  w.calls + 1 <= w.start * LogicalAttempts * TransportAttempts
  <2>1. PICK s \in Nat, a \in Nat, l \in Nat, t \in Nat :
           s = w.start - 1 /\ a = w.attempt /\ l = LogicalAttempts - a /\ t = TransportAttempts
    <3>1. w.start - 1 \in Nat /\ w.attempt \in Nat /\ LogicalAttempts - w.attempt \in Nat
      BY <1>2, <1>3, <1>4
    <3> QED
      BY <1>3, <3>1
  <2>2. LogicalAttempts = a + l /\ w.start = s + 1 /\ TransportAttempts = t
    BY <1>2, <1>3, <1>4, <2>1
  <2>3. w.calls + 1 <= (s * (a + l) + a) * t
    BY <1>5, <2>1, <2>2
  <2>4. (s + 1) * (a + l) * t = (s * (a + l) + a) * t + l * t
    <3>1. PICK m \in Nat : m = s * (a + l)
      BY <2>1
    <3>2. (s + 1) * (a + l) = m + a + l
      BY <3>1
    <3>3. (m + a + l) * t = (m + a) * t + l * t
      OBVIOUS
    <3> QED
      BY <3>1, <3>2, <3>3
  <2>5. l * t \in Nat /\ (s * (a + l) + a) * t \in Nat
    <3>1. PICK m \in Nat : m = s * (a + l)
      BY <2>1
    <3>2. (m + a) * t \in Nat /\ l * t \in Nat
      OBVIOUS
    <3> QED
      BY <3>1, <3>2
  <2> QED
    BY <1>4, <2>2, <2>3, <2>4, <2>5
<1>10. /\ end \in Nat /\ w.start - 1 <= end
       /\ w.start + q.size <= q.copies => end = w.start + q.size - 1
       /\ ~(w.start + q.size <= q.copies) => end = q.copies
  BY <1>2, <1>4 DEF Rewrite!Min2
<1>11. Accounts(root, q, all, end)
  <2> PICK start : start = w.start
    OBVIOUS
  <2> PICK rows : rows = w.rows
    OBVIOUS
  <2> PICK nth : nth = w.attempt
    OBVIOUS
  <2>1. start \in 1 .. q.copies /\ end \in Nat /\ start - 1 <= end
    BY <1>4, <1>10
  <2>3. Accounts(root, q, rows, start - 1) /\ places = (start .. end) \X DOMAIN q.cells
    BY <1>4, Zenon
  <2>2. Accounts(root, q, RowsAfter(root, rows, generated, left, nth), end)
    BY <1>6, <2>1, <2>3, BatchAccounts
  <2> QED
    BY <2>2
<1>12. CASE ~(left # {} /\ w.attempt < LogicalAttempts) /\ w.start + q.size <= q.copies
  <2>1. result = Rewrite!Open(root, w.start + q.size, all, w.successes + answered, w.calls + 1)
    BY <1>2, <1>7, <1>12
  <2>2. w.start + q.size \in 1 .. q.copies /\ q.size # 0 /\ w.calls + 1 \in Nat
    BY <1>2, <1>4, <1>12
  <2>3. Accounts(root, q, all, w.start + q.size - 1)
    BY <1>10, <1>11, <1>12
  <2>4. w.calls + 1 <= (w.start + q.size - 1) * LogicalAttempts * TransportAttempts
    <3>1. PICK s \in Nat, n \in Nat, m \in Nat :
             s = w.start /\ n = q.size - 1 /\ m = LogicalAttempts * TransportAttempts
      BY <1>2, <1>3, <1>4
    <3>2. w.calls + 1 <= s * m
      <4>1. w.start * LogicalAttempts * TransportAttempts = w.start * (LogicalAttempts * TransportAttempts)
        BY <1>2, <1>3, <1>4
      <4> QED
        BY <1>9, <1>12, <3>1, <4>1
    <3>3. (s + n) * m = s * m + n * m /\ s * m \in Nat /\ n * m \in Nat
      OBVIOUS
    <3>4. (w.start + q.size - 1) * LogicalAttempts * TransportAttempts
             = (w.start + q.size - 1) * (LogicalAttempts * TransportAttempts)
      BY <1>2, <1>3, <1>4
    <3>5. w.start + q.size - 1 = s + n
      BY <1>2, <1>4, <3>1
    <3> QED
      BY <1>4, <3>1, <3>2, <3>3, <3>4, <3>5
  <2> PICK start : start = w.start + q.size
    OBVIOUS
  <2> PICK calls : calls = w.calls + 1
    OBVIOUS
  <2> PICK successes : successes = w.successes + answered
    OBVIOUS
  <2>5. q.size # 0 /\ start \in 1 .. q.copies /\ calls \in Nat
    BY <2>2
  <2>6. Accounts(root, q, all, start - 1) /\ calls <= (start - 1) * LogicalAttempts * TransportAttempts
    <3>1. start - 1 = w.start + q.size - 1
      BY <1>2, <1>4
    <3> QED
      BY <2>3, <2>4, <3>1
  <2>7. WorkHeld(root, q, Rewrite!Open(root, start, all, successes, calls))
    BY <2>5, <2>6, OpenedHeld
  <2> QED
    BY <2>1, <2>7
<1>13. CASE ~(left # {} /\ w.attempt < LogicalAttempts) /\ ~(w.start + q.size <= q.copies)
  <2>1. result = Rewrite!Closed(all, w.successes + answered, w.calls + 1)
    BY <1>2, <1>7, <1>13
  <2>2. Accounts(root, q, all, q.copies)
    BY <1>10, <1>11, <1>13
  <2>3. w.calls + 1 <= q.copies * LogicalAttempts * TransportAttempts
    <3>1. PICK s \in Nat, n \in Nat, m \in Nat :
             s = w.start /\ n = q.copies - s /\ m = LogicalAttempts * TransportAttempts
      BY <1>2, <1>3, <1>4
    <3>2. w.calls + 1 <= s * m
      <4>1. w.start * LogicalAttempts * TransportAttempts = w.start * (LogicalAttempts * TransportAttempts)
        BY <1>2, <1>3, <1>4
      <4> QED
        BY <1>9, <1>13, <3>1, <4>1
    <3>3. (s + n) * m = s * m + n * m /\ s * m \in Nat /\ n * m \in Nat
      OBVIOUS
    <3>4. q.copies * LogicalAttempts * TransportAttempts = q.copies * (LogicalAttempts * TransportAttempts)
      BY <1>2, <1>3
    <3>5. q.copies = s + n
      BY <1>2, <3>1
    <3> QED
      BY <1>4, <3>1, <3>2, <3>3, <3>4, <3>5
  <2>4. w.calls + 1 \in Nat
    BY <1>4
  <2> QED
    BY <2>1, <2>2, <2>3, <2>4 DEF WorkHeld, Rewrite!Closed
<1> QED
  BY <1>8, <1>12, <1>13, Zenon

\* The inductive invariant of the generated texts: the work on each instrument
\* is held, what is frozen is what was worked out, and the clones have the texts
\* that were frozen.
RewriteInv ==
    /\ job \in TextJobs
    /\ stage = "planning" => sampled = {}
    /\ stage \in {"generating", "frozen", "made"} =>
          /\ PolicyHeld /\ Rewrite!PolicyFitsSchema(Rewrite!Targets, job.schema)
          /\ DOMAIN work = sampled
          /\ \A root \in sampled : WorkHeld(root, Request(root), work[root])
    /\ stage \in {"frozen", "made"} =>
          /\ \A root \in sampled : work[root].over
          /\ frozen = UNION {work[root].rows : root \in sampled}
    /\ stage = "made" =>
          texts = [cell \in job.rows \X (1 .. job.factor) |->
                     [column \in DOMAIN cell[1].values |->
                         Rewrite!TextOf(cell[1], cell[2], column)]]

\* A request and the policy stay as they are while the job does.
LEMMA RequestStays ==
    ASSUME job' = job, NEW root
    PROVE  Request(root)' = Request(root)
BY DEF Request, Rewrite!Cells, Rewrite!BatchSize, Rewrite!Width, Rewrite!ColumnOf, Rewrite!Found,
       Rewrite!Before, Rewrite!Key, Rewrite!Targets, Rewrite!Excluded, Rewrite!Aggregate

LEMMA PolicyStays ==
    ASSUME job' = job
    PROVE  /\ PolicyHeld => PolicyHeld'
           /\ Rewrite!PolicyFitsSchema(Rewrite!Targets, job.schema)
                 => Rewrite!PolicyFitsSchema(Rewrite!Targets, job.schema)'
BY DEF PolicyHeld, Rewrite!ResolvePolicy, Rewrite!PolicyFitsSchema, Rewrite!Targets

\* The invariant holds before anything is asked for.
LEMMA RewriteBegins ==
    ASSUME Rewrite!Init
    PROVE  RewriteInv
BY DEF Rewrite!Init, RewriteInv

\* The policy is resolved and the instruments are sampled.
LEMMA RewriteSample ==
    ASSUME Rewrite!JobsArePossible, RewriteInv, Rewrite!Sample
    PROVE  RewriteInv'
<1>1. /\ stage = "planning" /\ job' = job /\ job \in TextJobs
  BY DEF Rewrite!Sample, RewriteInv
<1>2. CASE Rewrite!ResolvePolicy(job.policy, job.product)
           /\ Rewrite!PolicyFitsSchema(Rewrite!Targets, job.schema)
  <2>1. PICK chosen \in Rewrite!Samples :
           /\ sampled' = chosen
           /\ work' = [root \in chosen |-> Rewrite!Begun(root)]
           /\ stage' = "generating"
    BY <1>2 DEF Rewrite!Sample
  <2>2. PolicyHeld
    BY <1>1, <1>2 DEF PolicyHeld
  <2>3. PolicyHeld' /\ Rewrite!PolicyFitsSchema(Rewrite!Targets, job.schema)'
    BY <1>1, <1>2, <2>2, PolicyStays
  <2>4. ASSUME NEW root \in sampled'
        PROVE  WorkHeld(root, Request(root), work[root])'
    <3>1. work'[root] = Rewrite!Begun(root)
      BY <2>1
    <3>2. WorkHeld(root, Request(root), Rewrite!Begun(root))
      BY <2>2, BegunHeld
    <3>3. Request(root)' = Request(root)
      BY <1>1, RequestStays
    <3> QED
      BY <3>1, <3>2, <3>3
  <2>5. DOMAIN work' = sampled'
    BY <2>1
  <2> QED
    BY <1>1, <2>1, <2>3, <2>4, <2>5 DEF RewriteInv
<1>3. CASE ~(Rewrite!ResolvePolicy(job.policy, job.product)
             /\ Rewrite!PolicyFitsSchema(Rewrite!Targets, job.schema))
  <2>1. stage' = "failed"
    BY <1>3 DEF Rewrite!Sample
  <2> QED
    BY <1>1, <2>1 DEF RewriteInv
<1> QED
  BY <1>2, <1>3

\* A step of one instrument.
LEMMA RewriteWork ==
    ASSUME RewriteInv, stage = "generating", UNCHANGED <<job, stage, sampled, frozen, texts>>,
           NEW root \in sampled, NEW w, work' = [work EXCEPT ![root] = w],
           WorkHeld(root, Request(root), w)
    PROVE  RewriteInv'
<1>1. /\ DOMAIN work' = sampled'
      /\ PolicyHeld' /\ Rewrite!PolicyFitsSchema(Rewrite!Targets, job.schema)'
  BY PolicyStays DEF RewriteInv
<1>2. ASSUME NEW other \in sampled'
      PROVE  WorkHeld(other, Request(other), work[other])'
  <2>1. work'[other] = IF other = root THEN w ELSE work[other]
    BY DEF RewriteInv
  <2>2. Request(other)' = Request(other)
    BY RequestStays
  <2>3. WorkHeld(other, Request(other), work'[other])
    BY <2>1 DEF RewriteInv
  <2> QED
    BY <2>2, <2>3
<1> QED
  BY <1>1, <1>2 DEF RewriteInv

\* A call that fails is tried again or gives up the batch.
LEMMA RewriteCallFails ==
    ASSUME Rewrite!JobsArePossible, RewriteInv, NEW root \in sampled, Rewrite!CallFails(root)
    PROVE  RewriteInv'
<1> PICK w : w = work[root]
  OBVIOUS
<1> PICK q : q = Request(root)
  OBVIOUS
<1>1. /\ stage = "generating" /\ UNCHANGED <<job, stage, sampled, frozen, texts>>
      /\ ~w.over
  BY DEF Rewrite!CallFails, Rewrite!Busy
<1>2. PolicyHeld /\ WorkHeld(root, q, w) /\ DOMAIN work = sampled
  BY <1>1 DEF RewriteInv
<1>3. work' = [work EXCEPT ![root] = IF w.tries + 1 < TransportAttempts
                                     THEN [w EXCEPT !.tries = w.tries + 1, !.calls = w.calls + 1]
                                     ELSE Rewrite!After(root, {}, 0)]
  <2>1. work' = [work EXCEPT ![root] =
                   IF work[root].tries + 1 < TransportAttempts
                   THEN [work[root] EXCEPT !.tries = work[root].tries + 1, !.calls = work[root].calls + 1]
                   ELSE Rewrite!After(root, {}, 0)]
    BY DEF Rewrite!CallFails
  <2> QED
    BY <2>1, Zenon
<1>4. CASE w.tries + 1 < TransportAttempts
  <2> PICK again : again = [w EXCEPT !.tries = w.tries + 1, !.calls = w.calls + 1]
    OBVIOUS
  <2>1. UnderWay(root, q, w) /\ w.over = FALSE
    BY <1>1, <1>2 DEF WorkHeld
  <2>2. /\ {"start", "attempt", "tries", "over", "unresolved", "generated", "successes", "calls"} \subseteq DOMAIN w
        /\ w.tries \in 0 .. TransportAttempts - 1 /\ w.calls \in Nat
        /\ w.start \in 1 .. q.copies /\ w.attempt \in 1 .. LogicalAttempts
        /\ w.calls <= ((w.start - 1) * LogicalAttempts + (w.attempt - 1)) * TransportAttempts + w.tries
    BY <2>1 DEF UnderWay
  <2>3. again.tries = w.tries + 1 /\ again.calls = w.calls + 1
    BY <2>2
  <2>4. /\ DOMAIN again = DOMAIN w /\ again = [x \in DOMAIN again |-> again[x]]
        /\ again.start = w.start /\ again.attempt = w.attempt /\ again.over = FALSE
        /\ again.unresolved = w.unresolved /\ again.generated = w.generated /\ again.rows = w.rows
    <3>1. DOMAIN again = DOMAIN w /\ again = [x \in DOMAIN again |-> again[x]]
      OBVIOUS
    <3>2. again.start = w.start /\ again.attempt = w.attempt /\ again.over = FALSE
      BY <2>1
    <3>3. again.unresolved = w.unresolved /\ again.generated = w.generated /\ again.rows = w.rows
      OBVIOUS
    <3> QED
      BY <3>1, <3>2, <3>3
  <2>5. LogicalAttempts \in Nat \ {0} /\ TransportAttempts \in Nat \ {0} /\ q.copies \in Nat
    BY <1>2, RequestFields DEF Rewrite!JobsArePossible
  <2>6. again.calls <= ((again.start - 1) * LogicalAttempts + (again.attempt - 1)) * TransportAttempts + again.tries
    <3>1. PICK b \in Nat : b = ((w.start - 1) * LogicalAttempts + (w.attempt - 1)) * TransportAttempts
      <4>1. (w.start - 1) * LogicalAttempts \in Nat /\ w.attempt - 1 \in Nat
        BY <2>2, <2>5
      <4> QED
        BY <2>5, <4>1
    <3>2. again.calls <= b + again.tries
      BY <2>2, <2>3, <2>5, <3>1
    <3> QED
      BY <2>4, <3>1, <3>2
  <2>7. again.tries \in 0 .. TransportAttempts - 1 /\ again.calls \in Nat
    BY <1>4, <2>2, <2>3, <2>5
  <2>8. UnderWay(root, q, again)
    BY <2>1, <2>4, <2>6, <2>7 DEF UnderWay
  <2>9. WorkHeld(root, q, again)
    BY <2>4, <2>8 DEF WorkHeld
  <2> QED
    BY <1>1, <1>3, <1>4, <2>9, RewriteWork
<1>5. CASE ~(w.tries + 1 < TransportAttempts)
  <2>1. WorkHeld(root, q, Rewrite!After(root, {}, 0))
    BY <1>1, <1>2, AfterHeld
  <2> QED
    BY <1>1, <1>3, <1>5, <2>1, RewriteWork
<1> QED
  BY <1>4, <1>5

\* An answer resolves what it is accepted for.
LEMMA RewriteEndpointAnswers ==
    ASSUME Rewrite!JobsArePossible, RewriteInv, NEW root \in sampled, Rewrite!EndpointAnswers(root)
    PROVE  RewriteInv'
<1>1. /\ stage = "generating" /\ UNCHANGED <<job, stage, sampled, frozen, texts>>
      /\ ~work[root].over
  BY DEF Rewrite!EndpointAnswers, Rewrite!Busy
<1>2. PolicyHeld /\ WorkHeld(root, Request(root), work[root])
  BY <1>1 DEF RewriteInv
<1>3. PICK answer \in Rewrite!Answers(root) :
         work' = [work EXCEPT ![root] = Rewrite!After(root, Rewrite!Accepted(root, answer), 1)]
  BY DEF Rewrite!EndpointAnswers
<1> PICK accepted : accepted = Rewrite!Accepted(root, answer)
  OBVIOUS
<1>4. accepted \in SUBSET work[root].unresolved
  BY DEF Rewrite!Accepted
<1>5. WorkHeld(root, Request(root), Rewrite!After(root, accepted, 1))
  BY <1>1, <1>2, <1>4, AfterHeld
<1> QED
  BY <1>1, <1>3, <1>5, RewriteWork

\* The replacements are frozen once every instrument is over.
LEMMA RewriteFreeze ==
    ASSUME RewriteInv, Rewrite!Freeze
    PROVE  RewriteInv'
<1>1. /\ stage = "generating" /\ stage' = "frozen" /\ UNCHANGED <<job, sampled, work, texts>>
      /\ \A root \in sampled : work[root].over
      /\ frozen' = UNION {work[root].rows : root \in sampled}
  BY DEF Rewrite!Freeze
<1>2. PolicyHeld' /\ Rewrite!PolicyFitsSchema(Rewrite!Targets, job.schema)'
  BY <1>1, PolicyStays DEF RewriteInv
<1>3. \A root \in sampled' : WorkHeld(root, Request(root), work[root])'
  BY <1>1, RequestStays DEF RewriteInv
<1> QED
  BY <1>1, <1>2, <1>3 DEF RewriteInv

\* The clones take the texts.
LEMMA RewriteClone ==
    ASSUME RewriteInv, Rewrite!Clone
    PROVE  RewriteInv'
<1>1. stage = "frozen" /\ UNCHANGED <<job, sampled, work, frozen>>
  BY DEF Rewrite!Clone
<1>2. PolicyHeld' /\ Rewrite!PolicyFitsSchema(Rewrite!Targets, job.schema)'
  BY <1>1, PolicyStays DEF RewriteInv
<1>3. \A root \in sampled' : WorkHeld(root, Request(root), work[root])'
  BY <1>1, RequestStays DEF RewriteInv
<1>4. /\ \A root \in sampled' : work'[root].over
      /\ frozen' = UNION {work'[root].rows : root \in sampled'}
  BY <1>1 DEF RewriteInv
<1>5. CASE Rewrite!NoneDoubled
  <2>1. /\ stage' = "made"
        /\ texts' = [cell \in job.rows \X (1 .. job.factor) |->
                        [column \in DOMAIN cell[1].values |->
                            Rewrite!TextOf(cell[1], cell[2], column)]]
    BY <1>5 DEF Rewrite!Clone
  <2>3. texts' = [cell \in job.rows \X (1 .. job.factor) |->
                        [column \in DOMAIN cell[1].values |->
                            Rewrite!TextOf(cell[1], cell[2], column)]]'
    BY <1>1, <2>1 DEF Rewrite!TextOf, Rewrite!Matches
  <2> QED
    BY <1>1, <1>2, <1>3, <1>4, <2>1, <2>3 DEF RewriteInv
<1>6. CASE ~Rewrite!NoneDoubled
  <2>1. stage' = "failed"
    BY <1>6 DEF Rewrite!Clone
  <2> QED
    BY <1>1, <2>1 DEF RewriteInv
<1> QED
  BY <1>5, <1>6

\* What leaves the state of the texts alone keeps the invariant,
LEMMA RewriteStutter ==
    ASSUME RewriteInv, UNCHANGED Rewrite!vars
    PROVE  RewriteInv'
<1>1. UNCHANGED <<job, stage, sampled, work, frozen, texts>>
  BY DEF Rewrite!vars
<1>2. PolicyHeld => PolicyHeld'
  BY <1>1, PolicyStays
<1>3. Rewrite!PolicyFitsSchema(Rewrite!Targets, job.schema)
         => Rewrite!PolicyFitsSchema(Rewrite!Targets, job.schema)'
  BY <1>1, PolicyStays
<1>4. \A root : Request(root)' = Request(root)
  BY <1>1, RequestStays
<1>6. stage = "made" => texts' = [cell \in job.rows \X (1 .. job.factor) |->
                                    [column \in DOMAIN cell[1].values |->
                                        Rewrite!TextOf(cell[1], cell[2], column)]]'
  BY <1>1 DEF RewriteInv, Rewrite!TextOf, Rewrite!Matches
<1> QED
  BY <1>1, <1>2, <1>3, <1>4, <1>6 DEF RewriteInv

\* and so does every step.
LEMMA RewriteKeeps ==
    ASSUME Rewrite!JobsArePossible, RewriteInv, Rewrite!Next
    PROVE  RewriteInv'
<1>1. CASE Rewrite!Over
  BY <1>1, RewriteStutter DEF Rewrite!Over
<1> QED
  BY <1>1, RewriteSample, RewriteCallFails, RewriteEndpointAnswers, RewriteFreeze, RewriteClone
     DEF Rewrite!Next

\* Each target of each copy is frozen once.
LEMMA TargetsAccounted ==
    ASSUME Rewrite!JobsArePossible, RewriteInv
    PROVE  Rewrite!EveryTargetAccounted
<1> SUFFICES ASSUME stage \in {"frozen", "made"}, NEW root \in sampled
             PROVE  /\ \A k \in 1 .. job.factor, id \in DOMAIN Rewrite!Cells(root) :
                          Rewrite!Cardinality({f \in frozen : f.root = root /\ f.copy = k /\ f.target = id}) = 1
                    /\ \A f \in frozen : f.root = root =>
                          f.copy \in 1 .. job.factor /\ f.target \in DOMAIN Rewrite!Cells(root)
                    /\ work[root].calls <= job.factor * LogicalAttempts * TransportAttempts
  BY DEF Rewrite!EveryTargetAccounted
<1>1. /\ PolicyHeld /\ \A other \in sampled : work[other].over
      /\ frozen = UNION {work[other].rows : other \in sampled}
      /\ \A other \in sampled : WorkHeld(other, Request(other), work[other])
  BY DEF RewriteInv
<1>2. ASSUME NEW other \in sampled
      PROVE  /\ Accounts(other, Request(other), work[other].rows, job.factor)
             /\ work[other].calls <= job.factor * LogicalAttempts * TransportAttempts
  <2> PICK q : q = Request(other)
    OBVIOUS
  <2>1. q.copies = job.factor
    BY <1>1, RequestFields
  <2> QED
    BY <1>1, <2>1 DEF WorkHeld
<1> PICK rows : rows = work[root].rows
  OBVIOUS
<1> PICK q : q = Request(root)
  OBVIOUS
<1>3. q.cells = Rewrite!Cells(root) /\ Accounts(root, q, rows, job.factor)
  BY <1>1, <1>2, RequestFields
<1>4. \A f \in frozen : f.root = root => f \in rows
  BY <1>1, <1>2 DEF Accounts
<1>5. rows \subseteq frozen /\ \A f \in rows : f.root = root
  BY <1>1, <1>3 DEF Accounts
<1>6. ASSUME NEW k \in 1 .. job.factor, NEW id \in DOMAIN Rewrite!Cells(root)
      PROVE  Rewrite!Cardinality({f \in frozen : f.root = root /\ f.copy = k /\ f.target = id}) = 1
  <2>1. PICK f \in rows : f.copy = k /\ f.target = id
    BY <1>3 DEF Accounts
  <2>2. \A g \in rows : g.copy = k /\ g.target = id => g = f
    BY <1>3, <2>1 DEF Accounts
  <2>3. {g \in frozen : g.root = root /\ g.copy = k /\ g.target = id} = {f}
    BY <1>4, <1>5, <2>1, <2>2
  <2>4. Rewrite!Cardinality({f}) = 1
    BY RewriteCounts, FS_Singleton
  <2> QED
    BY <2>3, <2>4
<1>7. \A f \in frozen : f.root = root =>
         f.copy \in 1 .. job.factor /\ f.target \in DOMAIN Rewrite!Cells(root)
  BY <1>3, <1>4 DEF Accounts
<1> QED
  BY <1>2, <1>6, <1>7

\* A text is in the column, of the row and copy it was given for.
LEMMA TextsAreWhereTheyBelong ==
    ASSUME Rewrite!JobsArePossible, RewriteInv
    PROVE  Rewrite!TextsBelong
<1> DEFINE Belongs(text, row, k, column) ==
              /\ <<row.table, column>> \notin job.schema.protected \cup job.schema.nullified
              /\ \E root \in row.roots \cap sampled : \E id \in DOMAIN Rewrite!Cells(root) :
                    /\ text = <<root, k, id>>
                    /\ Rewrite!Cells(root)[id].row = row
                    /\ Rewrite!ColumnOf(Rewrite!Cells(root)[id]) = column
<1>0. SUFFICES ASSUME stage = "made", NEW row \in job.rows, NEW k \in 1 .. job.factor,
                      NEW column \in DOMAIN row.values
               PROVE  \/ texts[<<row, k>>][column] = row.values[column]
                      \/ Belongs(texts[<<row, k>>][column], row, k, column)
  BY Zenon DEF Rewrite!TextsBelong
<1> SUFFICES ASSUME texts[<<row, k>>][column] # row.values[column]
             PROVE  Belongs(texts[<<row, k>>][column], row, k, column)
  OBVIOUS
<1>1. /\ PolicyHeld /\ \A root \in sampled : work[root].over
      /\ Rewrite!PolicyFitsSchema(Rewrite!Targets, job.schema)
      /\ frozen = UNION {work[root].rows : root \in sampled}
      /\ \A root \in sampled : WorkHeld(root, Request(root), work[root])
      /\ texts = [cell \in job.rows \X (1 .. job.factor) |->
                     [c \in DOMAIN cell[1].values |-> Rewrite!TextOf(cell[1], cell[2], c)]]
  BY <1>0 DEF RewriteInv
<1>2. texts[<<row, k>>][column] = Rewrite!TextOf(row, k, column)
  <2>1. <<row, k>> \in job.rows \X (1 .. job.factor)
    OBVIOUS
  <2>2. texts[<<row, k>>] = [c \in DOMAIN row.values |-> Rewrite!TextOf(row, k, c)]
    BY <1>1, <2>1
  <2> QED
    BY <2>2
<1>3. Rewrite!Matches(row, k, column) # {}
  BY <1>2 DEF Rewrite!TextOf
<1>4. PICK f \in Rewrite!Matches(row, k, column) : texts[<<row, k>>][column] = f.value
  <2>1. (CHOOSE f \in Rewrite!Matches(row, k, column) : TRUE) \in Rewrite!Matches(row, k, column)
    BY <1>3
  <2> QED
    BY <1>2, <1>3, <2>1 DEF Rewrite!TextOf
<1>5. /\ f \in frozen /\ f.action = "REPLACE" /\ f.table = row.table /\ f.key = row.key
      /\ f.copy = k /\ f.column = column
  BY DEF Rewrite!Matches
<1>6. PICK root \in sampled : f \in work[root].rows
  BY <1>1, <1>5
<1> PICK q : q = Request(root)
  OBVIOUS
<1>7. /\ q.cells = Rewrite!Cells(root)
      /\ \A id \in DOMAIN q.cells : q.columns[id] = Rewrite!ColumnOf(q.cells[id])
  BY <1>1, RequestFields
<1> PICK id : id = f.target
  OBVIOUS
<1>8. /\ id \in DOMAIN q.cells /\ f.table = q.cells[id].row.table /\ f.key = q.cells[id].row.key
      /\ f.column = Rewrite!ColumnOf(q.cells[id]) /\ f.value = <<root, k, id>>
  <2>1. Accounts(root, q, work[root].rows, q.copies)
    BY <1>1 DEF WorkHeld
  <2>2. id \in DOMAIN q.cells /\ AboutItsCell(root, q, f)
    BY <1>6, <2>1 DEF Accounts
  <2> QED
    BY <1>5, <1>7, <2>2 DEF AboutItsCell
<1> PICK c : c = q.cells[id]
  OBVIOUS
<1>9. c \in Rewrite!Found(root)
  BY <1>1, <1>7, <1>8, CellsAreFound
<1>10. /\ c.row \in Rewrite!Aggregate(root) /\ c.nth \in DOMAIN Rewrite!Targets
       /\ Rewrite!Targets[c.nth].table = c.row.table
  BY <1>9 DEF Rewrite!Found
<1>11. c.row \in job.rows /\ root \in c.row.roots
  BY <1>10 DEF Rewrite!Aggregate
<1>12. c.row = row
  BY <1>1, <1>5, <1>8, <1>11 DEF Rewrite!JobsArePossible, PolicyHeld
<1>13. Rewrite!ColumnOf(c) = column
  BY <1>5, <1>8
<1>14. <<row.table, column>> \notin job.schema.protected \cup job.schema.nullified
  <2>1. column = Rewrite!Targets[c.nth].column
    BY <1>13 DEF Rewrite!ColumnOf
  <2> QED
    BY <1>1, <1>10, <1>12, <2>1 DEF Rewrite!PolicyFitsSchema
<1> QED
  BY <1>4, <1>6, <1>7, <1>8, <1>11, <1>12, <1>13, <1>14

\* Both make what is checked of the texts.
LEMMA RewriteHolds ==
    ASSUME Rewrite!JobsArePossible, RewriteInv
    PROVE  Rewrite!ReplacementsMatch
BY TargetsAccounted, TextsAreWhereTheyBelong DEF Rewrite!ReplacementsMatch

\* The invariant of the texts, of which the theorem at the end is a consequence.
THEOREM RewriteInvariant == Spec => [](program = "rewrite" => RewriteInv)
<1> DEFINE Inv == program = "rewrite" => RewriteInv
<1>1. Init => Inv
  BY RewriteBegins, ConstantsArePossible DEF Init
<1>2. Inv /\ [Next]_vars => Inv'
  BY StepsAreApart, RewriteKeeps, RewriteStutter, ConstantsArePossible
<1> QED
  BY <1>1, <1>2, PTL DEF Spec

-----------------------------------------------------------------------------
\* A materialization refuses only after attempts at its plan overlapped, and
\* what it goes on with is the verified snapshot, the classification and the
\* texts of one attempt that ended well; what a command publishes is what the
\* command that planned it asked for, of keys and ordinals no other output for
\* Oracle has, and the runner's two commands fit; and every target of every
\* copy is accounted for once, within the calls the policy allows, and its
\* text reaches the column, row and copy it was made for.
THEOREM HandoffsAreSealed == Spec => []HandoffIsSealed
<1>1. ASSUME program = "rewrite" => RewriteInv, program = "handoff" => HandoffInv,
             program = "commands" => CommandsInv
      PROVE  HandoffIsSealed
  BY <1>1, ConstantsArePossible, RewriteHolds, HandoffHolds, CommandsHold DEF HandoffIsSealed
<1> QED
  BY <1>1, RewriteInvariant, HandoffInvariant, CommandsInvariant, PTL
=============================================================================
