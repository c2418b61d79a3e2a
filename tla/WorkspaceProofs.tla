------------------------------ MODULE WorkspaceProofs ------------------------------
(***************************************************************************)
(* Proofs about what the processes of one clone share, for any number of   *)
(* processes, changes and commands, and all faults; and, in the second     *)
(* part, about the two processes of auto mode, which share the state       *)
(* database, for any number of issues, pull requests and conflicts.        *)
(***************************************************************************)
EXTENDS Workspace, AutoRoles, SequenceTheorems, TLAPS

\* What a sync relies on while no other hand has crossed it: before the push the changes
\* are in the tree, after it in the newest entry of the stash.
SyncOf(p) ==
  LET now == proc[p] was == found[p] IN
  /\ now.pc = "push" => Dirty /\ was.changes \subseteq tree.changes /\ Len(stash) = was.height
  /\ now.pc \in {"fetch", "pull"} /\ ~now.stashed
       => was.changes \subseteq tree.changes /\ Len(stash) = was.height
  /\ now.pc \in {"fetch", "pull", "pop"} /\ now.stashed
       => Len(stash) = was.height + 1 /\ was.changes \subseteq stash[Len(stash)]
  /\ now.pc = "pop" => now.stashed

SyncInv == \A p \in Processes \ mixed : SyncOf(p)

\* Who is fresh has in his memory what was told last.
FileInv ==
  \/ overwritten
  \/ /\ Readable => file.holds = reported
     /\ \A p \in Processes : p \in fresh => proc[p].configured = reported
     /\ Tool \in fresh /\ tool.pc # "none" /\ tool.change # "init" => tool.loaded = reported

IInv == TypeOK /\ ChangesAreKept /\ SyncInv /\ FileInv

-----------------------------------------------------------------------------
(* Types *)

LEMMA DefaultType == Default \in Config
BY DEF Default, Config, Policies

LEMMA SetValueType ==
  ASSUME NEW cfg \in Config, NEW change \in Changes
  PROVE  SetValue(cfg, change) \in Config
<1>1. CASE change = "init"
  BY <1>1, DefaultType DEF SetValue, Policies
<1>2. CASE change \in Policies
  BY <1>2 DEF SetValue, Policies, Config
<1>3. CASE change # "init" /\ change \notin Policies
  <2>1. change \in Commands
    BY <1>3 DEF Changes
  <2>2. SetValue(cfg, change) = [cfg EXCEPT !.commands = @ \cup {change}]
    BY <1>3 DEF SetValue
  <2> QED
    BY <2>1, <2>2 DEF Config
<1> QED
  BY <1>1, <1>2, <1>3

LEMMA OffType == Off \in Process
BY DefaultType DEF Off, Process

LEMMA NothingType == Nothing \in Found
BY DEF Nothing, Found

LEMMA NoToolType == NoTool \in Running
BY DefaultType DEF NoTool, Running, Changes

\* What an update of one field does to a process.
LEMMA ProcessUpdates ==
  ASSUME NEW one \in Process
  PROVE  /\ one.pc \in {"off", "idle", "run"} \cup Sync /\ one.stashed \in BOOLEAN
         /\ one.configured \in Config /\ one.saving \in Commands \cup {None}
         /\ \A pc \in {"off", "idle", "run"} \cup Sync, stashed \in BOOLEAN :
              /\ [one EXCEPT !.pc = pc] \in Process
              /\ [one EXCEPT !.pc = pc, !.stashed = stashed] \in Process
         /\ \A saving \in Commands \cup {None}, cfg \in Config :
              /\ [one EXCEPT !.saving = saving] \in Process
              /\ [one EXCEPT !.saving = saving, !.configured = cfg] \in Process
BY DEF Process

LEMMA GoesFacts ==
  ASSUME TypeOK, NEW p \in Processes, NEW pc \in {"off", "idle", "run"} \cup Sync, Goes(p, pc)
  PROVE  /\ proc' \in [Processes -> Process]
         /\ proc'[p].pc = pc /\ proc'[p].stashed = proc[p].stashed
         /\ \A q \in Processes : /\ q # p => proc'[q] = proc[q]
                                 /\ proc'[q].configured = proc[q].configured
<1>1. \A q \in Processes : proc[q] \in Process
  BY DEF TypeOK
<1>2. proc' = [proc EXCEPT ![p] = [proc[p] EXCEPT !.pc = pc]]
  BY DEF Goes
<1>3. [proc[p] EXCEPT !.pc = pc] \in Process
  BY <1>1, ProcessUpdates
<1>4. /\ [proc[p] EXCEPT !.pc = pc].pc = pc
      /\ [proc[p] EXCEPT !.pc = pc].stashed = proc[p].stashed
      /\ [proc[p] EXCEPT !.pc = pc].configured = proc[p].configured
  BY <1>1 DEF Process
<1> QED
  BY <1>2, <1>3, <1>4 DEF TypeOK

LEMMA EndsFacts ==
  ASSUME TypeOK, NEW p \in Processes, NEW pc \in {"idle", "run"}, Ends(p, pc)
  PROVE  /\ proc' \in [Processes -> Process] /\ found' \in [Processes -> Found]
         /\ proc'[p].pc = pc
         /\ \A q \in Processes : /\ q # p => proc'[q] = proc[q] /\ found'[q] = found[q]
                                 /\ proc'[q].configured = proc[q].configured
<1>1. \A q \in Processes : proc[q] \in Process
  BY DEF TypeOK
<1> DEFINE new == [proc[p] EXCEPT !.pc = pc, !.stashed = FALSE]
<1>2. proc' = [proc EXCEPT ![p] = new] /\ found' = [found EXCEPT ![p] = Nothing]
  BY DEF Ends
<1>3. new \in Process
  BY <1>1, ProcessUpdates
<1>4. new.pc = pc /\ new.configured = proc[p].configured
  BY <1>1 DEF Process
<1> HIDE DEF new
<1> QED
  BY <1>2, <1>3, <1>4, NothingType DEF TypeOK

LEMMA StashFacts ==
  ASSUME TypeOK
  PROVE  /\ Len(stash) \in Nat /\ DOMAIN stash = 1 .. Len(stash)
         /\ \A i \in 1 .. Len(stash) : stash[i] \subseteq Edits
         /\ tree.changes \subseteq Edits /\ tree.unmerged \in BOOLEAN
<1>1. stash \in Seq(SUBSET Edits)
  BY DEF TypeOK
<1>2. Len(stash) \in Nat /\ DOMAIN stash = 1 .. Len(stash)
  BY <1>1, LenProperties
<1>3. \A i \in 1 .. Len(stash) : stash[i] \in SUBSET Edits
  BY <1>1, ElementOfSeq
<1>4. tree.changes \subseteq Edits /\ tree.unmerged \in BOOLEAN
  BY DEF TypeOK, Clone
<1> QED
  BY <1>2, <1>3, <1>4

\* A change that is pushed or popped goes from one place to the other.
LEMMA PushFacts ==
  ASSUME TypeOK, stash' = Append(stash, tree.changes), tree' = [tree EXCEPT !.changes = {}]
  PROVE  /\ stash' \in Seq(SUBSET Edits) /\ tree' \in Clone
         /\ tree'.changes = {} /\ tree'.unmerged = tree.unmerged
         /\ Len(stash') = Len(stash) + 1 /\ stash'[Len(stash) + 1] = tree.changes
         /\ \A i \in 1 .. Len(stash) : stash'[i] = stash[i]
<1>1. stash \in Seq(SUBSET Edits) /\ tree.changes \in SUBSET Edits
  BY StashFacts DEF TypeOK
<1>2. /\ stash' \in Seq(SUBSET Edits)
      /\ Len(stash') = Len(stash) + 1 /\ stash'[Len(stash) + 1] = tree.changes
      /\ \A i \in 1 .. Len(stash) : stash'[i] = stash[i]
  BY <1>1, AppendProperties
<1>3. tree' \in Clone /\ tree'.changes = {} /\ tree'.unmerged = tree.unmerged
  BY DEF TypeOK, Clone
<1> QED
  BY <1>2, <1>3

LEMMA PopsFacts ==
  ASSUME TypeOK, NEW p, Pops(p)
  PROVE  /\ stash' \in Seq(SUBSET Edits) /\ tree' \in Clone /\ mixed' \subseteq Processes
         /\ Len(stash) >= 1 /\ ~tree.unmerged
         /\ tree'.changes = tree.changes \cup stash[Len(stash)] /\ ~tree'.unmerged
         /\ Len(stash') = Len(stash) - 1
         /\ \A i \in 1 .. Len(stash) - 1 : stash'[i] = stash[i]
<1>1. stash \in Seq(SUBSET Edits) /\ stash # <<>>
  BY DEF TypeOK, Pops
<1>2. Len(stash) \in Nat /\ Len(stash) >= 1
  BY <1>1, EmptySeq, LenProperties
<1>3. stash[Len(stash)] \subseteq Edits
  BY <1>2, StashFacts
<1>4. stash' = SubSeq(stash, 1, Len(stash) - 1)
  BY DEF Pops, Front
<1>5. /\ stash' \in Seq(SUBSET Edits)
      /\ Len(stash') = Len(stash) - 1
      /\ \A i \in 1 .. Len(stash) - 1 : stash'[i] = stash[i]
  <2> DEFINE n == Len(stash) - 1
  <2>1. \A i \in 1 .. n : stash[i] \in SUBSET Edits
    BY <1>1, <1>2, ElementOfSeq
  <2>2. n \in Int /\ 1 \in Int
    BY <1>2
  <2>3. /\ SubSeq(stash, 1, n) \in Seq(SUBSET Edits)
        /\ Len(SubSeq(stash, 1, n)) = IF 1 <= n THEN n - 1 + 1 ELSE 0
        /\ \A i \in 1 .. n - 1 + 1 : SubSeq(stash, 1, n)[i] = stash[1 + i - 1]
    BY <2>1, <2>2, SubSeqProperties
  <2>4. n \in Nat
    BY <1>2
  <2> HIDE DEF n
  <2>5. n - 1 + 1 = n /\ (1 <= n \/ n = 0) /\ \A i \in 1 .. n : 1 + i - 1 = i
    BY <2>4
  <2>6. /\ stash' \in Seq(SUBSET Edits) /\ Len(stash') = n
        /\ \A i \in 1 .. n : stash'[i] = stash[i]
    BY <1>4, <2>3, <2>4, <2>5 DEF n
  <2> QED
    BY <2>6 DEF n
<1>6. tree' = [tree EXCEPT !.changes = @ \cup stash[Len(stash)]] /\ ~tree.unmerged
  BY DEF Pops, Last
<1>7. tree' \in Clone /\ tree'.changes = tree.changes \cup stash[Len(stash)] /\ ~tree'.unmerged
  BY <1>3, <1>6 DEF TypeOK, Clone
<1>8. mixed' \subseteq Processes
  BY DEF Pops, Crosses, TypeOK
<1> QED
  BY <1>2, <1>5, <1>6, <1>7, <1>8

LEMMA PopFailsFacts ==
  ASSUME TypeOK, NEW p, PopFails(p)
  PROVE  /\ tree' \in Clone /\ mixed' \subseteq Processes /\ tree.changes \subseteq tree'.changes
         /\ UNCHANGED <<tree, mixed>> \/ Crosses(p)
<1>1. CASE UNCHANGED <<tree, mixed>>
  BY <1>1 DEF TypeOK
<1>2. CASE ~UNCHANGED <<tree, mixed>>
  <2>1. /\ stash # <<>> /\ Crosses(p)
        /\ tree' = [changes |-> tree.changes \cup stash[Len(stash)], unmerged |-> TRUE]
    BY <1>2 DEF PopFails, Last
  <2>2. Len(stash) \in 1 .. Len(stash)
    BY <2>1, EmptySeq, LenProperties DEF TypeOK
  <2>3. stash[Len(stash)] \subseteq Edits /\ tree.changes \subseteq Edits
    BY <2>2, StashFacts
  <2> QED
    BY <2>1, <2>3 DEF Clone, Crosses, TypeOK
<1> QED
  BY <1>1, <1>2

LEMMA InitInv == Init => IInv
<1> SUFFICES ASSUME Init PROVE IInv
  OBVIOUS
<1>1. TypeOK
  <2>1. /\ tree \in Clone /\ committed \subseteq Edits /\ made \subseteq Edits
        /\ proc \in [Processes -> Process] /\ found \in [Processes -> Found]
        /\ mixed \subseteq Processes /\ fresh \subseteq Actors /\ overwritten \in BOOLEAN
    BY OffType, NothingType DEF Init, Clone
  <2>2. file \in File /\ tool \in Running /\ reported \in Config
    BY DefaultType, NoToolType DEF Init, File
  <2>3. changed \in 0 .. MaxChange
    BY WorkspaceAssumption DEF Init
  <2>4. stash \in Seq(SUBSET Edits)
    BY DEF Init
  <2> QED
    BY <2>1, <2>2, <2>3, <2>4 DEF TypeOK
<1>2. ChangesAreKept
  BY DEF Init, ChangesAreKept
<1>3. SyncInv
  BY DEF Init, SyncInv, SyncOf, Off, Sync
<1>4. FileInv
  BY DEF Init, FileInv, Readable
<1> QED
  BY <1>1, <1>2, <1>3, <1>4 DEF IInv

-----------------------------------------------------------------------------
(* Every step preserves the type invariant *)

LEMMA SyncStepType ==
  ASSUME TypeOK, NEW p \in Processes, SyncStep(p)
  PROVE  TypeOK'
<1> USE DEF clone, config
<1>1. CASE BeginSync(p)
  <2> DEFINE new == [proc[p] EXCEPT !.pc = IF Dirty THEN "push" ELSE "fetch", !.stashed = FALSE]
             was == [changes |-> tree.changes, height |-> Len(stash)]
  <2>1. new \in Process
    BY ProcessUpdates DEF TypeOK, Sync
  <2>2. was \in Found
    BY StashFacts DEF Found
  <2>3. proc' = [proc EXCEPT ![p] = new] /\ found' = [found EXCEPT ![p] = was]
    BY <1>1 DEF BeginSync
  <2> HIDE DEF new, was
  <2>4. proc' \in [Processes -> Process] /\ found' \in [Processes -> Found]
    BY <2>1, <2>2, <2>3 DEF TypeOK
  <2>5. mixed' \subseteq Processes /\ UNCHANGED <<clone, config>>
    BY <1>1 DEF BeginSync, TypeOK
  <2> QED
    BY <2>4, <2>5 DEF TypeOK
<1>2. CASE Push(p)
  <2>1. proc' \in [Processes -> Process]
    <3> DEFINE new == [proc[p] EXCEPT !.pc = "fetch", !.stashed = TRUE]
    <3>1. new \in Process
      BY ProcessUpdates DEF TypeOK, Sync
    <3>2. proc' = [proc EXCEPT ![p] = new]
      BY <1>2 DEF Push
    <3> HIDE DEF new
    <3> QED
      BY <3>1, <3>2 DEF TypeOK
  <2>2. tree' \in Clone /\ stash' \in Seq(SUBSET Edits) /\ mixed' \subseteq Processes
    BY <1>2, PushFacts DEF Push, Crosses, TypeOK
  <2> QED
    BY <1>2, <2>1, <2>2 DEF Push, TypeOK
<1>3. CASE PushFails(p)
  BY <1>3, EndsFacts DEF PushFails, TypeOK
<1>4. CASE Fetch(p)
  BY <1>4, GoesFacts, EndsFacts DEF Fetch, FailSync, TypeOK, Sync
<1>5. CASE Pull(p)
  BY <1>5, GoesFacts, EndsFacts DEF Pull, TypeOK, Sync
<1>6. CASE PullFails(p)
  <2>1. proc' \in [Processes -> Process] /\ found' \in [Processes -> Found]
    BY <1>6, GoesFacts, EndsFacts DEF PullFails, FailSync, TypeOK, Sync
  <2>2. tree' \in Clone /\ mixed' \subseteq Processes
    BY <1>6 DEF PullFails, Crosses, TypeOK, Clone
  <2> QED
    BY <1>6, <2>1, <2>2 DEF PullFails, TypeOK
<1>7. CASE Restore(p)
  BY <1>7, EndsFacts, PopsFacts, PopFailsFacts DEF Restore, TypeOK
<1>8. CASE Pop(p)
  BY <1>8, EndsFacts, PopsFacts, PopFailsFacts DEF Pop, TypeOK
<1>9. CASE JobEnds(p)
  BY <1>9, GoesFacts DEF JobEnds, TypeOK, syncHistory
<1> QED
  BY <1>1, <1>2, <1>3, <1>4, <1>5, <1>6, <1>7, <1>8, <1>9 DEF SyncStep

LEMMA WriteType ==
  ASSUME NEW cfg \in Config, Write(cfg)
  PROVE  file' \in File
BY DefaultType DEF Write, File

LEMMA TruncateType == Truncate => file' \in File
BY DefaultType DEF Truncate, File

LEMMA FileFacts == TypeOK => file.holds \in Config /\ tool.loaded \in Config /\ tool.change \in Changes
BY DEF TypeOK, File, Running

LEMMA ToldType ==
  ASSUME TypeOK, NEW a \in Actors, NEW change \in Changes, Told(a, change)
  PROVE  reported' \in Config /\ fresh' \subseteq Actors /\ overwritten' \in BOOLEAN
BY SetValueType DEF Told, TypeOK

LEMMA BeginsType == TypeOK /\ Begins => changed' \in 0 .. MaxChange
BY WorkspaceAssumption DEF Begins, TypeOK

LEMMA ConfigStepType ==
  ASSUME TypeOK, NEW p \in Processes, ConfigStep(p)
  PROVE  TypeOK'
<1> USE DEF clone, config, syncHistory
<1>0. proc[p] \in Process /\ p \in Actors
  BY DEF TypeOK, Actors
<1>1. CASE Launch(p)
  <2> PICK policy \in Policies \cup {None} :
        LET configured == IF policy = None THEN file.holds ELSE SetValue(file.holds, policy) IN
        /\ proc' = [proc EXCEPT ![p] = [Off EXCEPT !.pc = "idle", !.configured = configured]]
        /\ fresh' = IF configured = file.holds THEN fresh \cup {p} ELSE fresh \ {p}
    BY <1>1 DEF Launch
  <2> DEFINE configured == IF policy = None THEN file.holds ELSE SetValue(file.holds, policy)
  <2>1. configured \in Config
    BY FileFacts, SetValueType DEF Changes
  <2> HIDE DEF configured
  <2>2. [Off EXCEPT !.pc = "idle", !.configured = configured] \in Process
    BY <2>1, OffType DEF Process
  <2>3. proc' \in [Processes -> Process] /\ fresh' \subseteq Actors
    BY <2>2, <1>0 DEF configured, TypeOK
  <2> QED
    BY <1>1, <2>3 DEF Launch, TypeOK
<1>2. CASE BeginAllow(p)
  <2> PICK c \in Commands : proc' = [proc EXCEPT ![p] = [proc[p] EXCEPT !.saving = c]]
    BY <1>2 DEF BeginAllow
  <2>1. [proc[p] EXCEPT !.saving = c] \in Process
    BY <1>0, ProcessUpdates, DefaultType
  <2>2. proc' \in [Processes -> Process]
    BY <2>1 DEF TypeOK
  <2> QED
    BY <1>2, <2>2, TruncateType, BeginsType DEF BeginAllow, TypeOK
<1>3. CASE EndAllow(p)
  <2>1. proc[p].saving \in Commands /\ proc[p].saving \in Changes
    BY <1>0, <1>3, ProcessUpdates DEF EndAllow, Changes
  <2>2. Allowed(p) \in Config
    BY <1>0, <2>1, ProcessUpdates, SetValueType DEF Allowed
  <2>3. [proc[p] EXCEPT !.saving = None, !.configured = Allowed(p)] \in Process
    BY <1>0, <2>2, ProcessUpdates
  <2>4. proc' = [proc EXCEPT ![p] = [proc[p] EXCEPT !.saving = None, !.configured = Allowed(p)]]
    BY <1>3 DEF EndAllow
  <2>5. proc' \in [Processes -> Process]
    BY <2>3, <2>4 DEF TypeOK
  <2> QED
    BY <1>0, <1>3, <2>1, <2>2, <2>5, WriteType, ToldType DEF EndAllow, TypeOK
<1>4. CASE AllowFails(p)
  <2>1. [proc[p] EXCEPT !.saving = None] \in Process
    BY <1>0, ProcessUpdates, DefaultType
  <2>2. proc' \in [Processes -> Process]
    BY <1>4, <2>1 DEF AllowFails, TypeOK
  <2> QED
    BY <1>4, <2>2 DEF AllowFails, TypeOK
<1>5. CASE Stop(p)
  BY <1>5, OffType, NothingType DEF Stop, TypeOK
<1> QED
  BY <1>1, <1>2, <1>3, <1>4, <1>5 DEF ConfigStep

LEMMA NextType == TypeOK /\ [Next]_vars => TypeOK'
<1> SUFFICES ASSUME TypeOK, [Next]_vars PROVE TypeOK'
  OBVIOUS
<1> USE DEF clone, config, syncHistory
<1>1. CASE \E p \in Processes : SyncStep(p) \/ ConfigStep(p)
  BY <1>1, SyncStepType, ConfigStepType
<1>2. ASSUME NEW e \in Edits, Edit(e) PROVE TypeOK'
  <2>1. tree' \in Clone
    BY <1>2 DEF Edit, TypeOK, Clone
  <2> QED
    BY <1>2, <2>1 DEF Edit, TypeOK
<1>3. CASE Commit
  <2>1. tree' \in Clone /\ committed' \subseteq Edits /\ mixed' \subseteq Processes
    BY <1>3, StashFacts DEF Commit, Clone, Crosses, TypeOK
  <2> QED
    BY <1>3, <2>1 DEF Commit, TypeOK
<1>4. CASE ToolLoads
  <2>1. tool' \in Running /\ fresh' \subseteq Actors
    BY <1>4, FileFacts, DefaultType DEF ToolLoads, Running, Actors, TypeOK
  <2> QED
    BY <1>4, <2>1, BeginsType DEF ToolLoads, TypeOK
<1>5. CASE ToolTruncates
  <2>1. tool' \in Running
    BY <1>5 DEF ToolTruncates, Running, TypeOK
  <2> QED
    BY <1>5, <2>1, TruncateType DEF ToolTruncates, TypeOK
<1>6. CASE ToolWrites
  <2>1. SetValue(tool.loaded, tool.change) \in Config
    BY FileFacts, SetValueType
  <2> QED
    BY <1>6, <2>1, FileFacts, NoToolType, WriteType, ToldType DEF ToolWrites, Actors, TypeOK
<1>7. CASE ToolStops
  BY <1>7, NoToolType DEF ToolStops, TypeOK
<1>8. CASE UNCHANGED vars
  BY <1>8 DEF vars, TypeOK
<1> QED
  BY <1>1, <1>2, <1>3, <1>4, <1>5, <1>6, <1>7, <1>8 DEF Next

-----------------------------------------------------------------------------
(* No change is lost *)

\* It is enough that each change in the tree or the stash is somewhere afterwards.
LEMMA KeptSomewhere ==
  ASSUME TypeOK, TypeOK', ChangesAreKept, UNCHANGED made, committed \subseteq committed',
         tree.changes \subseteq tree'.changes \cup committed' \cup UNION {stash'[i] : i \in DOMAIN stash'},
         \A i \in 1 .. Len(stash) :
           stash[i] \subseteq tree'.changes \cup committed' \cup UNION {stash'[j] : j \in DOMAIN stash'}
  PROVE  ChangesAreKept'
<1>1. DOMAIN stash = 1 .. Len(stash)
  BY StashFacts
<1> QED
  BY <1>1 DEF ChangesAreKept

LEMMA PopsKeeps ==
  ASSUME TypeOK, TypeOK', ChangesAreKept, UNCHANGED <<made, committed>>, NEW p, Pops(p)
  PROVE  ChangesAreKept'
<1>1. DOMAIN stash' = 1 .. Len(stash') /\ Len(stash) \in Nat
  BY StashFacts DEF TypeOK
<1>2. \A i \in 1 .. Len(stash) : i = Len(stash) \/ i \in 1 .. Len(stash) - 1
  BY <1>1
<1>3. \A i \in 1 .. Len(stash) - 1 : i \in DOMAIN stash' /\ stash'[i] = stash[i]
  BY <1>1, PopsFacts
<1> QED
  BY <1>2, <1>3, KeptSomewhere, PopsFacts

LEMMA SameKeeps ==
  ASSUME TypeOK, TypeOK', ChangesAreKept, UNCHANGED <<made, committed, stash>>,
         tree.changes \subseteq tree'.changes
  PROVE  ChangesAreKept'
BY DEF ChangesAreKept

LEMMA NextKept == TypeOK /\ TypeOK' /\ ChangesAreKept /\ [Next]_vars => ChangesAreKept'
<1> SUFFICES ASSUME TypeOK, TypeOK', ChangesAreKept, [Next]_vars PROVE ChangesAreKept'
  OBVIOUS
<1> USE DEF clone
<1>1. ASSUME NEW p \in Processes, Push(p) PROVE ChangesAreKept'
  <2>1. CASE tree.changes = {}
    BY <1>1, <2>1, SameKeeps DEF Push
  <2>2. CASE tree.changes # {}
    <3>1. stash' = Append(stash, tree.changes) /\ tree' = [tree EXCEPT !.changes = {}] /\ UNCHANGED <<made, committed>>
      BY <1>1, <2>2 DEF Push
    <3>2. DOMAIN stash' = 1 .. Len(stash) + 1 /\ Len(stash) \in Nat
      BY <3>1, StashFacts, PushFacts, LenProperties
    <3>3. /\ Len(stash) + 1 \in DOMAIN stash' /\ stash'[Len(stash) + 1] = tree.changes
          /\ \A i \in 1 .. Len(stash) : i \in DOMAIN stash' /\ stash'[i] = stash[i]
      BY <3>1, <3>2, PushFacts
    <3> QED
      BY <3>1, <3>3, KeptSomewhere
  <2> QED
    BY <2>1, <2>2
<1>2. ASSUME NEW p \in Processes, Restore(p) \/ Pop(p) PROVE ChangesAreKept'
  <2>1. CASE Pops(p)
    BY <1>2, <2>1, PopsKeeps DEF Restore, Pop
  <2>2. CASE ~Pops(p)
    BY <1>2, <2>2, PopFailsFacts, SameKeeps DEF Restore, Pop
  <2> QED
    BY <2>1, <2>2
<1>3. ASSUME NEW p \in Processes, PullFails(p) PROVE ChangesAreKept'
  <2>1. tree.changes \subseteq tree'.changes
    BY <1>3 DEF PullFails, TypeOK, Clone
  <2> QED
    BY <1>3, <2>1, SameKeeps DEF PullFails
<1>4. ASSUME NEW p \in Processes, SyncStep(p) \/ ConfigStep(p) PROVE ChangesAreKept'
  <2>1. CASE UNCHANGED clone
    BY <2>1, SameKeeps
  <2>2. CASE ~UNCHANGED clone
    BY <1>1, <1>2, <1>3, <1>4, <2>2
    DEF SyncStep, ConfigStep, BeginSync, PushFails, Fetch, Pull, JobEnds, Launch, BeginAllow, EndAllow,
        AllowFails, Stop
  <2> QED
    BY <2>1, <2>2
<1>5. ASSUME NEW e \in Edits, Edit(e) PROVE ChangesAreKept'
  <2>1. tree'.changes = tree.changes \cup {e}
    BY <1>5 DEF Edit, TypeOK, Clone
  <2> QED
    BY <1>5, <2>1 DEF Edit, ChangesAreKept
<1>6. CASE Commit
  BY <1>6 DEF Commit, ChangesAreKept
<1>7. CASE ToolLoads \/ ToolTruncates \/ ToolWrites \/ ToolStops \/ UNCHANGED vars
  BY <1>7, SameKeeps DEF ToolLoads, ToolTruncates, ToolWrites, ToolStops, vars
<1> QED
  BY <1>4, <1>5, <1>6, <1>7 DEF Next

-----------------------------------------------------------------------------
(* A sync that nobody crosses *)

\* A process whose sync goes on in a step of another is crossed by it, or stays as it
\* was in a clone in which nothing but the tree has grown.
LEMMA SyncFrame ==
  ASSUME TypeOK, NEW q \in Processes, q \notin mixed',
         proc'[q].pc = proc[q].pc, proc'[q].stashed = proc[q].stashed, found'[q] = found[q],
         \/ ~Synchronizes(q)
         \/ \E a : a # q /\ Crosses(a)
         \/ /\ SyncOf(q)
            /\ UNCHANGED stash /\ tree.changes \subseteq tree'.changes /\ (Dirty => Dirty')
  PROVE  SyncOf(q)'
<1>1. CASE ~Synchronizes(q)
  BY <1>1 DEF Synchronizes, Sync, SyncOf
<1>2. CASE Synchronizes(q) /\ \E a : a # q /\ Crosses(a)
  BY <1>2 DEF Crosses
<1>3. CASE /\ SyncOf(q)
           /\ UNCHANGED stash /\ tree.changes \subseteq tree'.changes /\ (Dirty => Dirty')
  BY <1>3 DEF SyncOf
<1> QED
  BY <1>1, <1>2, <1>3

LEMMA OthersSync ==
  ASSUME TypeOK, SyncInv, NEW p \in Processes, SyncStep(p), NEW q \in Processes \ {p}, q \notin mixed'
  PROVE  SyncOf(q)'
<1>1. proc'[q] = proc[q] /\ found'[q] = found[q]
  BY GoesFacts, EndsFacts
  DEF TypeOK, SyncStep, BeginSync, Push, PushFails, Fetch, Pull, PullFails, FailSync, Restore, Pop, JobEnds,
      syncHistory, Sync
<1>2. \/ Crosses(p)
      \/ UNCHANGED <<tree, stash>> /\ mixed \ {p} \subseteq mixed'
  <2>1. CASE Restore(p) \/ Pop(p)
    BY <2>1, PopFailsFacts DEF Restore, Pop, Pops
  <2>2. CASE ~(Restore(p) \/ Pop(p))
    BY <2>2 DEF SyncStep, BeginSync, Push, PushFails, Fetch, Pull, PullFails, JobEnds, clone, syncHistory
  <2> QED
    BY <2>1, <2>2
<1>3. CASE Crosses(p)
  BY <1>1, <1>3, SyncFrame
<1>4. CASE UNCHANGED <<tree, stash>> /\ mixed \ {p} \subseteq mixed'
  <2>1. SyncOf(q)
    BY <1>4 DEF SyncInv
  <2> QED
    BY <1>1, <1>4, <2>1, SyncFrame DEF Dirty
<1> QED
  BY <1>2, <1>3, <1>4

\* Its own steps: each leaves what the next one relies on.
LEMMA OwnSync ==
  ASSUME TypeOK, SyncInv, NEW p \in Processes, SyncStep(p), p \notin mixed'
  PROVE  SyncOf(p)'
<1>0. proc[p] \in Process /\ found[p] \in Found
  BY DEF TypeOK
<1>1. CASE BeginSync(p)
  <2>1. /\ proc'[p].pc = (IF Dirty THEN "push" ELSE "fetch") /\ proc'[p].stashed = FALSE
        /\ found'[p].changes = tree.changes /\ found'[p].height = Len(stash)
        /\ UNCHANGED <<tree, stash>>
    BY <1>0, <1>1 DEF BeginSync, TypeOK, Process, clone
  <2> QED
    BY <2>1 DEF SyncOf, Dirty
<1>2. CASE Push(p)
  <2>1. /\ proc'[p].pc = "fetch" /\ proc'[p].stashed = TRUE /\ found' = found
        /\ proc[p].pc = "push" /\ ~tree.unmerged
    BY <1>0, <1>2 DEF Push, TypeOK, Process
  <2>2. p \notin mixed
    BY <1>2 DEF Push, Crosses
  <2>3. tree.changes # {} /\ found[p].changes \subseteq tree.changes /\ Len(stash) = found[p].height
    BY <2>1, <2>2 DEF SyncInv, SyncOf, Dirty
  <2>4. stash' = Append(stash, tree.changes) /\ tree' = [tree EXCEPT !.changes = {}]
    BY <1>2, <2>3 DEF Push
  <2>5. Len(stash') = Len(stash) + 1 /\ stash'[Len(stash) + 1] = tree.changes
    BY <2>4, PushFacts
  <2> QED
    BY <2>1, <2>3, <2>5 DEF SyncOf
<1>3. CASE Fetch(p) \/ Pull(p)
  <2>0. SyncOf(p) /\ UNCHANGED <<tree, stash>>
    BY <1>3 DEF Fetch, Pull, SyncInv, clone
  <2>1. CASE Goes(p, "pull")
    <3>1. Fetch(p) /\ found' = found /\ proc[p].pc = "fetch"
      BY <1>0, <1>3, <2>1, GoesFacts, EndsFacts DEF Fetch, Pull, FailSync, Sync
    <3> QED
      BY <2>0, <2>1, <3>1, GoesFacts DEF SyncOf, Sync
  <2>2. CASE Goes(p, "pop")
    <3>1. Pull(p) /\ found' = found /\ proc[p].pc = "pull" /\ proc[p].stashed
      BY <1>0, <1>3, <2>2, GoesFacts, EndsFacts DEF Fetch, Pull, FailSync, Sync
    <3> QED
      BY <2>0, <2>2, <3>1, GoesFacts DEF SyncOf, Sync
  <2>3. CASE ~Goes(p, "pull") /\ ~Goes(p, "pop")
    <3>1. proc'[p].pc \in {"restore", "idle", "run"}
      BY <1>3, <2>3, GoesFacts, EndsFacts DEF Fetch, Pull, FailSync, Sync
    <3> QED
      BY <3>1 DEF SyncOf
  <2> QED
    BY <2>1, <2>2, <2>3
<1>4. CASE PushFails(p) \/ PullFails(p) \/ Restore(p) \/ Pop(p) \/ JobEnds(p)
  <2>1. proc'[p].pc \in {"restore", "idle", "run"}
    BY <1>4, GoesFacts, EndsFacts DEF PushFails, PullFails, Restore, Pop, JobEnds, FailSync, Sync
  <2> QED
    BY <2>1 DEF SyncOf
<1> QED
  BY <1>1, <1>2, <1>3, <1>4 DEF SyncStep

LEMMA LaunchFacts ==
  ASSUME TypeOK, NEW p \in Processes, Launch(p)
  PROVE  /\ proc'[p].pc = "idle" /\ Readable
         /\ p \in fresh' => proc'[p].configured = file.holds
         /\ \A q \in Processes \ {p} : proc'[q] = proc[q] /\ (q \in fresh' => q \in fresh)
         /\ Tool \in fresh' => Tool \in fresh
<1> PICK policy \in Policies \cup {None} :
      LET configured == IF policy = None THEN file.holds ELSE SetValue(file.holds, policy) IN
      /\ proc' = [proc EXCEPT ![p] = [Off EXCEPT !.pc = "idle", !.configured = configured]]
      /\ fresh' = IF configured = file.holds THEN fresh \cup {p} ELSE fresh \ {p}
  BY DEF Launch
<1> DEFINE configured == IF policy = None THEN file.holds ELSE SetValue(file.holds, policy)
           new == [Off EXCEPT !.pc = "idle", !.configured = configured]
<1>1. proc' = [proc EXCEPT ![p] = new]
  OBVIOUS
<1>2. fresh' = IF configured = file.holds THEN fresh \cup {p} ELSE fresh \ {p}
  OBVIOUS
<1> HIDE DEF configured
<1>3. new.pc = "idle" /\ new.configured = configured
  BY DEF Off
<1> HIDE DEF new
<1>4. proc'[p] = new /\ \A q \in Processes \ {p} : proc'[q] = proc[q]
  BY <1>1 DEF TypeOK
<1>5. p \in fresh' => configured = file.holds
  BY <1>2
<1>6. Tool # p
  BY WorkspaceAssumption
<1>7. \A a : a # p /\ a \in fresh' => a \in fresh
  BY <1>2
<1>8. Readable
  BY DEF Launch
<1> QED
  BY <1>3, <1>4, <1>5, <1>6, <1>7, <1>8

LEMMA ConfigStepSync ==
  ASSUME TypeOK, SyncInv, NEW p \in Processes, ConfigStep(p), NEW q \in Processes, q \notin mixed'
  PROVE  SyncOf(q)'
<1>0. proc[p] \in Process
  BY DEF TypeOK
<1>1. UNCHANGED <<tree, stash>> /\ mixed \ {p} \subseteq mixed'
  BY DEF ConfigStep, Launch, BeginAllow, EndAllow, AllowFails, Stop, clone, syncHistory
<1>2. CASE q # p
  <2>1. proc'[q] = proc[q] /\ found'[q] = found[q] /\ q \notin mixed
    BY <1>1, <1>2 DEF ConfigStep, Launch, BeginAllow, EndAllow, AllowFails, Stop, syncHistory, TypeOK
  <2> QED
    BY <1>1, <2>1, SyncFrame DEF SyncInv, Dirty
<1>3. CASE q = p /\ (Launch(p) \/ Stop(p))
  <2>1. CASE Launch(p)
    BY <2>1, <1>3, LaunchFacts DEF SyncOf
  <2>2. CASE Stop(p)
    <3>1. proc'[p] = Off
      BY <2>2 DEF Stop, TypeOK
    <3> QED
      BY <1>3, <3>1 DEF SyncOf, Off
  <2> QED
    BY <1>3, <2>1, <2>2
<1>4. CASE q = p /\ (BeginAllow(p) \/ EndAllow(p) \/ AllowFails(p))
  <2>1. proc'[p].pc = proc[p].pc /\ proc'[p].stashed = proc[p].stashed
    BY <1>0, <1>4 DEF BeginAllow, EndAllow, AllowFails, Process, TypeOK
  <2>2. found' = found /\ mixed' = mixed
    BY <1>4 DEF BeginAllow, EndAllow, AllowFails, syncHistory
  <2> QED
    BY <1>1, <1>4, <2>1, <2>2, SyncFrame DEF SyncInv, Dirty
<1> QED
  BY <1>2, <1>3, <1>4 DEF ConfigStep

LEMMA NextSync == TypeOK /\ SyncInv /\ [Next]_vars => SyncInv'
<1> SUFFICES ASSUME TypeOK, SyncInv, [Next]_vars, NEW q \in Processes, q \notin mixed'
             PROVE  SyncOf(q)'
  BY DEF SyncInv
<1>1. CASE \E p \in Processes : SyncStep(p) \/ ConfigStep(p)
  BY <1>1, OthersSync, OwnSync, ConfigStepSync
<1>2. ASSUME NEW e \in Edits, Edit(e) PROVE SyncOf(q)'
  <2>1. tree'.changes = tree.changes \cup {e} /\ tree'.unmerged = tree.unmerged
    BY <1>2 DEF Edit, TypeOK, Clone
  <2>2. UNCHANGED <<stash, proc, found, mixed>>
    BY <1>2 DEF Edit, syncHistory
  <2> QED
    BY <2>1, <2>2, SyncFrame DEF Dirty, SyncInv
<1>3. CASE Commit
  <2>1. None # q
    BY WorkspaceAssumption
  <2> QED
    BY <1>3, <2>1, SyncFrame DEF Commit
<1>4. CASE ToolLoads \/ ToolTruncates \/ ToolWrites \/ ToolStops \/ UNCHANGED vars
  <2>1. UNCHANGED <<tree, stash, proc, found, mixed>>
    BY <1>4 DEF ToolLoads, ToolTruncates, ToolWrites, ToolStops, vars, clone, syncHistory
  <2> QED
    BY <2>1, SyncFrame DEF Dirty, SyncInv
<1> QED
  BY <1>1, <1>2, <1>3, <1>4 DEF Next
-----------------------------------------------------------------------------
(* The file *)

LEMMA SyncStepConfigured ==
  ASSUME TypeOK, NEW p \in Processes, SyncStep(p)
  PROVE  UNCHANGED config /\ \A q \in Processes : proc'[q].configured = proc[q].configured
<1>0. \A q \in Processes : proc[q] \in Process
  BY DEF TypeOK
<1>1. CASE BeginSync(p) \/ Push(p)
  <2>1. proc'[p].configured = proc[p].configured
    BY <1>0, <1>1 DEF BeginSync, Push, TypeOK, Process
  <2>2. \A q \in Processes \ {p} : proc'[q] = proc[q]
    BY <1>1 DEF BeginSync, Push, TypeOK
  <2> QED
    BY <1>1, <2>1, <2>2 DEF BeginSync, Push
<1>2. CASE ~(BeginSync(p) \/ Push(p))
  BY <1>2, GoesFacts, EndsFacts
  DEF SyncStep, PushFails, Fetch, Pull, PullFails, FailSync, Restore, Pop, JobEnds, Sync
<1> QED
  BY <1>1, <1>2

\* A change that is written to what is fresh, or that replaces all, is what is reported.
LEMMA ToldFacts ==
  ASSUME TypeOK, NEW a, NEW change, NEW loaded, Told(a, change), Write(SetValue(loaded, change)), ~overwritten',
         a \in fresh /\ change # "init" => loaded = reported
  PROVE  /\ SetValue(loaded, change) = reported' /\ fresh' = {a}
         /\ Readable' => file'.holds = reported'
<1>1. (a \in fresh \/ change = "init") /\ ~overwritten
  BY DEF Told, TypeOK
<1>2. SetValue(loaded, change) = reported'
  <2>1. CASE change = "init"
    BY <2>1 DEF Told, SetValue, Policies
  <2>2. CASE change # "init"
    BY <1>1, <2>2 DEF Told
  <2> QED
    BY <2>1, <2>2
<1>3. fresh' = {a}
  BY <1>1 DEF Told
<1>4. Readable' => file'.holds = SetValue(loaded, change)
  BY DEF Write, Readable
<1> QED
  BY <1>2, <1>3, <1>4

LEMMA ConfigStepFile ==
  ASSUME TypeOK, FileInv, NEW p \in Processes, ConfigStep(p)
  PROVE  FileInv'
<1>0. proc[p] \in Process /\ Tool # p
  BY WorkspaceAssumption DEF TypeOK
<1> SUFFICES ASSUME ~overwritten' PROVE FileInv'
  BY DEF FileInv
<1>1. CASE Launch(p)
  <2>1. UNCHANGED <<file, tool, reported, overwritten>>
    BY <1>1 DEF Launch
  <2> QED
    BY <1>1, <2>1, LaunchFacts DEF FileInv, Readable
<1>2. CASE BeginAllow(p)
  <2>1. \A q \in Processes : proc'[q].configured = proc[q].configured
    BY <1>0, <1>2 DEF BeginAllow, TypeOK, Process
  <2>2. UNCHANGED <<tool, fresh, reported, overwritten>> /\ ~Readable'
    BY <1>2 DEF BeginAllow, Truncate, Readable
  <2> QED
    BY <2>1, <2>2 DEF FileInv
<1>3. CASE EndAllow(p)
  <2>1. Told(p, proc[p].saving) /\ Write(SetValue(proc[p].configured, proc[p].saving)) /\ UNCHANGED tool
    BY <1>3 DEF EndAllow, Allowed
  <2>2. ~overwritten
    BY <2>1 DEF Told, TypeOK
  <2>3. p \in fresh => proc[p].configured = reported
    BY <2>2 DEF FileInv
  <2>4. /\ SetValue(proc[p].configured, proc[p].saving) = reported' /\ fresh' = {p}
        /\ Readable' => file'.holds = reported'
    BY <2>1, <2>3, ToldFacts
  <2>5. proc'[p].configured = Allowed(p)
    <3> DEFINE new == [proc[p] EXCEPT !.saving = None, !.configured = Allowed(p)]
    <3>1. new.configured = Allowed(p)
      BY <1>0 DEF Process
    <3>2. proc' = [proc EXCEPT ![p] = new]
      BY <1>3 DEF EndAllow
    <3> HIDE DEF new
    <3> QED
      BY <3>1, <3>2 DEF TypeOK
  <2> QED
    BY <1>0, <2>4, <2>5 DEF FileInv, Allowed
<1>4. CASE AllowFails(p)
  <2>1. \A q \in Processes : proc'[q].configured = proc[q].configured
    BY <1>0, <1>4 DEF AllowFails, TypeOK, Process
  <2> QED
    BY <1>4, <2>1 DEF AllowFails, FileInv, Readable, config
<1>5. CASE Stop(p)
  <2>1. \A q \in Processes \ {p} : proc'[q] = proc[q]
    BY <1>5 DEF Stop, TypeOK
  <2> QED
    BY <1>5, <2>1 DEF Stop, FileInv, Readable
<1> QED
  BY <1>1, <1>2, <1>3, <1>4, <1>5 DEF ConfigStep

LEMMA NextFile == TypeOK /\ FileInv /\ [Next]_vars => FileInv'
<1> SUFFICES ASSUME TypeOK, FileInv, [Next]_vars, ~overwritten' PROVE FileInv'
  BY DEF FileInv
<1> USE DEF config
<1>1. ASSUME NEW p \in Processes, SyncStep(p) PROVE FileInv'
  BY <1>1, SyncStepConfigured DEF FileInv, Readable
<1>2. ASSUME NEW p \in Processes, ConfigStep(p) PROVE FileInv'
  BY <1>2, ConfigStepFile
<1>3. CASE (\E e \in Edits : Edit(e)) \/ Commit \/ UNCHANGED vars
  BY <1>3 DEF Edit, Commit, vars, FileInv, Readable
<1>4. CASE ToolLoads
  <2>1. UNCHANGED <<proc, file, reported, overwritten>>
    BY <1>4 DEF ToolLoads
  <2>2. \A p \in Processes : p \in fresh' => p \in fresh
    BY <1>4, WorkspaceAssumption DEF ToolLoads
  <2>3. tool'.change # "init" => Readable /\ tool'.loaded = file.holds
    BY <1>4 DEF ToolLoads
  <2> QED
    BY <2>1, <2>2, <2>3 DEF FileInv, Readable
<1>5. CASE ToolTruncates
  <2>1. UNCHANGED <<proc, fresh, reported, overwritten>> /\ ~Readable'
    BY <1>5 DEF ToolTruncates, Truncate, Readable
  <2>2. tool.pc # "none" /\ tool'.loaded = tool.loaded /\ tool'.change = tool.change
    BY <1>5 DEF ToolTruncates, TypeOK, Running
  <2> QED
    BY <2>1, <2>2 DEF FileInv
<1>6. CASE ToolWrites
  <2>1. /\ Told(Tool, tool.change) /\ Write(SetValue(tool.loaded, tool.change)) /\ tool.pc # "none"
        /\ tool' = NoTool
    BY <1>6 DEF ToolWrites
  <2>2. ~overwritten
    BY <2>1 DEF Told, TypeOK
  <2>3. fresh' = {Tool} /\ (Readable' => file'.holds = reported')
    BY <2>1, <2>2, ToldFacts DEF FileInv
  <2> QED
    BY <2>1, <2>3, WorkspaceAssumption DEF FileInv, NoTool
<1>7. CASE ToolStops
  BY <1>7, WorkspaceAssumption DEF ToolStops, FileInv, Readable, NoTool
<1> QED
  BY <1>1, <1>2, <1>3, <1>4, <1>5, <1>6, <1>7 DEF Next

-----------------------------------------------------------------------------
(* Theorems *)

\* The inductive invariant: the types, and for each of the properties what its steps
\* rely on.
THEOREM Inductive == Spec => []IInv
<1>1. IInv /\ [Next]_vars => IInv'
  BY NextType, NextKept, NextSync, NextFile DEF IInv
<1> QED
  BY InitInv, <1>1, PTL DEF Spec

\* Whatever the processes, the config commands and the operator do, and whatever fails,
\* no change that was made in the clone is lost between the working tree, the stash and
\* the commits (SyncRepository in internal/issue/workflow.go).
THEOREM NoChangeIsLost == Spec => []ChangesAreKept
<1>1. IInv => ChangesAreKept
  BY DEF IInv
<1> QED
  BY Inductive, <1>1, PTL

\* Every state of the model is of its type.
THEOREM TypeCorrect == Spec => []TypeOK
<1>1. IInv => TypeOK
  BY DEF IInv
<1> QED
  BY Inductive, <1>1, PTL

\* What the operator was told to be configured is what config.json holds, unless a
\* configuration that was not that of the file was saved (config.SaveConfig).
THEOREM FileTold == Spec => []FileHoldsWhatWasTold
<1>1. IInv => FileHoldsWhatWasTold
  BY DEF IInv, FileInv, FileHoldsWhatWasTold
<1> QED
  BY Inductive, <1>1, PTL

\* A job is started by a pull without a stash entry, or by a pop of the process's own.
LEMMA StartOfJob ==
  ASSUME IInv, NEW p \in Processes, SyncStep(p), proc[p].pc # "run", proc'[p].pc = "run", p \notin mixed
  PROVE  found[p].changes \subseteq tree'.changes /\ ~tree'.unmerged /\ Len(stash') = found[p].height
<1>0. proc[p] \in Process /\ found[p] \in Found /\ SyncOf(p) /\ TypeOK
  BY DEF IInv, TypeOK, SyncInv
<1>1. CASE BeginSync(p) \/ Push(p)
  <2>1. proc'[p].pc # "run"
    BY <1>0, <1>1 DEF BeginSync, Push, TypeOK, Process
  <2> QED
    BY <2>1
<1>2. CASE PushFails(p) \/ Fetch(p) \/ PullFails(p) \/ Restore(p) \/ JobEnds(p)
  <2>1. proc'[p].pc # "run"
    BY <1>0, <1>2, GoesFacts, EndsFacts DEF PushFails, Fetch, PullFails, FailSync, Restore, JobEnds, Sync
  <2> QED
    BY <2>1
<1>3. CASE Pull(p)
  <2>1. Ends(p, "run") /\ ~proc[p].stashed
    BY <1>0, <1>3, GoesFacts DEF Pull, Sync
  <2> QED
    BY <1>0, <1>3, <2>1 DEF Pull, SyncOf, clone
<1>4. CASE Pop(p)
  <2>1. Pops(p)
    BY <1>0, <1>4, EndsFacts DEF Pop
  <2>2. /\ tree'.changes = tree.changes \cup stash[Len(stash)] /\ ~tree'.unmerged
        /\ Len(stash') = Len(stash) - 1
    BY <1>0, <2>1, PopsFacts
  <2>3. Len(stash) = found[p].height + 1 /\ found[p].changes \subseteq stash[Len(stash)]
    BY <1>0, <1>4 DEF Pop, SyncOf
  <2>4. found[p].height \in Nat
    BY <1>0 DEF Found
  <2> QED
    BY <2>2, <2>3, <2>4
<1> QED
  BY <1>1, <1>2, <1>3, <1>4 DEF SyncStep

LEMMA OnlySyncStarts ==
  ASSUME TypeOK, NEW p \in Processes, [Next]_vars, proc[p].pc # "run", proc'[p].pc = "run"
  PROVE  SyncStep(p)
<1>0. proc[p] \in Process
  BY DEF TypeOK
<1>1. ASSUME NEW q \in Processes \ {p}, SyncStep(q) PROVE FALSE
  <2>1. proc'[p] = proc[p]
    BY <1>1, GoesFacts, EndsFacts
    DEF TypeOK, SyncStep, BeginSync, Push, PushFails, Fetch, Pull, PullFails, FailSync, Restore, Pop, JobEnds, Sync
  <2> QED
    BY <2>1
<1>2. ASSUME NEW q \in Processes, ConfigStep(q) PROVE FALSE
  <2>1. CASE q # p
    <3>1. proc'[p] = proc[p]
      BY <1>2, <2>1 DEF ConfigStep, Launch, BeginAllow, EndAllow, AllowFails, Stop, TypeOK
    <3> QED
      BY <3>1
  <2>2. CASE q = p /\ Launch(p)
    BY <2>2, LaunchFacts
  <2>3. CASE q = p /\ Stop(p)
    <3>1. proc'[p] = Off
      BY <2>3 DEF Stop, TypeOK
    <3> QED
      BY <3>1 DEF Off
  <2>4. CASE q = p /\ (BeginAllow(p) \/ EndAllow(p) \/ AllowFails(p))
    <3>1. proc'[p].pc = proc[p].pc
      BY <1>0, <2>4 DEF BeginAllow, EndAllow, AllowFails, Process, TypeOK
    <3> QED
      BY <3>1
  <2> QED
    BY <1>2, <2>1, <2>2, <2>3, <2>4 DEF ConfigStep
<1>3. UNCHANGED proc => FALSE
  OBVIOUS
<1> QED
  BY <1>1, <1>2, <1>3 DEF Next, Edit, Commit, ToolLoads, ToolTruncates, ToolWrites, ToolStops, vars

\* A job whose sync no other hand has crossed starts on a merged tree with the changes
\* that the sync found, and the stash is as high as before (SyncRepository).
THEOREM JobFindsItsChanges == Spec => JobHasItsChanges
<1> DEFINE ToRun(p) == proc[p].pc # "run" /\ proc'[p].pc = "run" /\ p \notin mixed
           Found0(p) == /\ found[p].changes \subseteq tree'.changes /\ ~tree'.unmerged
                        /\ Len(stash') = found[p].height
<1>1. IInv /\ [Next]_vars => [\A p \in Processes : ToRun(p) => Found0(p)]_vars
  <2> SUFFICES ASSUME IInv, [Next]_vars, NEW p \in Processes, ToRun(p) PROVE Found0(p)
    OBVIOUS
  <2>1. SyncStep(p)
    BY OnlySyncStarts DEF IInv
  <2> QED
    BY <2>1, StartOfJob
<1> QED
  BY Inductive, <1>1, PTL DEF Spec, JobHasItsChanges

-----------------------------------------------------------------------------
(* Auto mode: issues and pull requests between the two roles (AutoRoles) *)

\* A job of the process, or its result, is what the row of the target tells of.
Acting(p) == p.pc \in Daemon \ {"leave", "fix", "verified"} /\ p.phase # "verification"

\* Each kind of target has its states.  A pull request is not stored as "failed", and as
\* completed when it is closed.
RowInv ==
  /\ \A i \in Issues : db[i] \in OfIssue!States
  /\ \A n \in PullRequests : /\ db[n] \in OfPR!States \ {"failed"}
                             /\ db[n] = "completed" => pr[n] \in {"closed", "merged"}

\* The phase that a process can be in with its target.
PhaseOf(p) ==
  p.pc \in Daemon =>
    /\ p.target \in Issues => p.phase \in OfIssue!Stages /\ p.pc \notin {"leave", "fix", "verified"}
    /\ p.target \in PullRequests =>
         /\ p.phase \in OfPR!Phases
         /\ p.phase = "review_approved" <=> p.pc = "leave"
         /\ p.pc = "verified" => p.phase = "verification"

\* Between two targets a process has none.  A target has a row, an issue is the
\* implementer's.
HandInv ==
  \A r \in Roles :
    /\ process[r].target = 0 <=> process[r].pc \in {"selecting", "waiting", "over"}
    /\ process[r].target # 0 => db[process[r].target] # "none"
    /\ process[r].target \in Issues => r = "implementer"
    /\ PhaseOf(process[r])

\* Work that is under way is someone's, unless it was left, or is what the label of an
\* issue made of it.
FromLabel(n) == n \in Issues /\ db[n] = ByLabel(n)
AttendedInv ==
  \A n \in Targets \ left : db[n] \in UnderWay =>
     \/ \E r \in Roles : process[r].target = n /\ Acting(process[r])
     \/ FromLabel(n)

\* What a process does suits the stored state: it fixes what is to be fixed, and reviews
\* what is not.
OnFix == {"pr_review_comment", "review_fix_running", "review_fix_ready", "review_fix_failed"}
Suits(p, s) ==
  /\ p.phase = "fix" => s \in OnFix
  /\ p.phase \in {"review", "verification", "review_approved"} => s \notin OnFix

\* And the stored state is the one that the process has stored, or has found.
Reviewable ==
  {"waiting", "review_failed", "review_fixed", "review_ready", "review_approved", "pr_conflict_resolved"}
Fits(p, s) ==
  /\ p.phase = "review" =>
       s \in CASE p.pc = "running" -> {"review_running"} [] p.pc = "result" -> {"review_ready"}
               [] OTHER -> Reviewable
  /\ p.phase = "fix" =>
       s \in CASE p.pc = "running" -> {"review_fix_running"} [] p.pc = "result" -> {"review_fix_ready"}
               [] OTHER -> OnFix \ {"review_fix_running"}
  /\ p.phase = "conflict" =>
       s \in CASE p.pc = "running" -> {"pr_conflict_running"} [] p.pc = "result" -> {"pr_conflict_ready"}
               [] OTHER -> OfPR!States \ {"review_running", "review_fix_running"}
  /\ p.phase \in {"verification", "review_approved"} => s = "review_approved"

TableInv ==
  \A r \in Roles, n \in PullRequests \ shared : WorksOn(r, n) =>
    Suits(process[r], db[n]) /\ (n \notin left => Fits(process[r], db[n]))

\* Before the first conflict the reviewer takes up only what was not the implementer's.
ForReview == {"waiting", "review_fixed"}
CalmInv ==
  arisen = 0 =>
    /\ conflict = {}
    /\ \A n \in PullRequests :
         /\ process["implementer"].target = n => db[n] \notin {"none"} \cup ForReview
         /\ process["reviewer"].pc = "loading" /\ process["reviewer"].target = n => db[n] \in ForReview
         /\ WorksOn("reviewer", n) => process["reviewer"].phase \in {"review", "verification"}

RolesInv == RolesTypeOK /\ RowInv /\ HandInv /\ AttendedInv /\ TableInv /\ CalmInv /\ FixIsAlone

\* The step from one state of a pull request to the next.
InOrder(s, u) ==
  \/ u \in Follow(s)
  \/ u = "pr_conflict_running" /\ s \notin {"review_running", "review_fix_running"}

\* What a step of a process does to its target's row: p and q are the process before and
\* after it, s and u the row.
IssueTurn(p, q, s, u) == u \in OfIssue!States \ {"none"}
PRTurn(p, q, s, u) ==
  /\ u \in OfPR!States \ {"none", "failed"}
  /\ q.target = p.target /\ Suits(p, s) => Suits(q, u)
  /\ q.target = p.target /\ Suits(p, s) /\ Fits(p, s) => Fits(q, u)
  /\ u \in ForReview /\ (q.target = p.target \/ p.phase \in {"review", "verification"}) => u = s
  /\ q.target = p.target /\ p.phase \in {"review", "verification"} => q.phase \in {"review", "verification"}
  /\ p.pc \in Daemon /\ Fits(p, s) /\ u # s => InOrder(s, u)

\* A step of a process that has its target already, or has none.
Turn(r) ==
  LET p == process[r]  q == process'[r]  t == process[r].target IN
  /\ RolesTypeOK'
  /\ \A o \in Roles \ {r} : process'[o] = process[o]
  /\ \A n \in Targets \ {t} : db'[n] = db[n] /\ (n \in left' <=> n \in left)
  /\ label' = label /\ shared' = shared /\ arisen' = arisen /\ conflict' \subseteq conflict
  /\ \A n \in PullRequests : pr'[n] = pr[n] \/ pr[n] = "absent"
  /\ \/ q.target = 0 /\ q.pc \in {"selecting", "over"}
     \/ q.target = t /\ p.pc \in Daemon /\ q.pc \in Daemon /\ PhaseOf(q)
  /\ t \in Targets =>
       /\ p.pc \notin Daemon => db'[t] = db[t] /\ (t \in left' <=> t \in left)
       /\ t \in Issues => IssueTurn(p, q, db[t], db'[t])
       /\ t \in PullRequests => PRTurn(p, q, db[t], db'[t])
       /\ t \in PullRequests /\ db'[t] = "completed" => db[t] = "completed" \/ pr[t] \in {"closed", "merged"}
       /\ db'[t] \in UnderWay /\ t \notin left' =>
            (q.target = t /\ Acting(q)) \/ (t \notin left /\ db'[t] = db[t] /\ ~Acting(p))
       /\ t \in left /\ t \notin left' /\ t \in PullRequests => Fits(q, db'[t])

LEMMA RolesBounds ==
  /\ 0 \in 0 .. MaxAnswer /\ 0 \in 0 .. MaxConflict
  /\ \A n \in 0 .. MaxAnswer : n < MaxAnswer => n + 1 \in 0 .. MaxAnswer
  /\ \A n \in 0 .. MaxConflict : n < MaxConflict => n + 1 \in 0 .. MaxConflict /\ n + 1 # 0
BY AutoRolesAssumption

LEMMA RolesNumbers == 0 \notin Targets /\ Issues \cap PullRequests = {} /\ Targets \subseteq Nat
BY AutoRolesAssumption DEF Targets

LEMMA ProcessOf ==
  ASSUME RolesTypeOK, NEW r \in Roles
  PROVE  process[r] \in ProcessState /\ process[r].target \in Targets \cup {0} /\ process[r].pc \in Places
BY DEF RolesTypeOK, ProcessState, Numbers

\* The three ways in which a process goes on.
LEMMA GoingTo ==
  ASSUME RolesTypeOK, NEW r \in Roles, NEW pc \in Places, GoesTo(r, pc)
  PROVE  /\ process'[r] = [process[r] EXCEPT !.pc = pc]
         /\ process'[r].pc = pc /\ process'[r].target = process[r].target /\ process'[r].phase = process[r].phase
         /\ process' \in [Roles -> ProcessState] /\ \A o \in Roles \ {r} : process'[o] = process[o]
<1>1. process \in [Roles -> ProcessState] /\ process[r] \in ProcessState
  BY DEF RolesTypeOK
<1>2. process' = [process EXCEPT ![r].pc = pc]
  BY DEF GoesTo
<1>3. process'[r] = [process[r] EXCEPT !.pc = pc] /\ \A o \in Roles \ {r} : process'[o] = process[o]
  BY <1>1, <1>2
<1>4. [process[r] EXCEPT !.pc = pc] \in ProcessState
  BY <1>1 DEF ProcessState
<1>5. process' \in [Roles -> ProcessState]
  BY <1>1, <1>2, <1>4
<1> QED
  BY <1>1, <1>3, <1>5 DEF ProcessState

LEMMA GoingToWork ==
  ASSUME RolesTypeOK, NEW r \in Roles, NEW phase \in OfPR!Phases \cup OfIssue!Phases,
         process' = [process EXCEPT ![r].pc = "starting", ![r].phase = phase]
  PROVE  /\ process'[r].pc = "starting" /\ process'[r].target = process[r].target /\ process'[r].phase = phase
         /\ process' \in [Roles -> ProcessState] /\ \A o \in Roles \ {r} : process'[o] = process[o]
<1>1. process \in [Roles -> ProcessState] /\ process[r] \in ProcessState
  BY DEF RolesTypeOK
<1>2. /\ process'[r] = [process[r] EXCEPT !.pc = "starting", !.phase = phase]
      /\ \A o \in Roles \ {r} : process'[o] = process[o]
  BY <1>1
<1>3. [process[r] EXCEPT !.pc = "starting", !.phase = phase] \in ProcessState
  BY <1>1 DEF ProcessState, Places, Daemon
<1>4. process' \in [Roles -> ProcessState]
  BY <1>1, <1>3
<1> QED
  BY <1>1, <1>2, <1>4 DEF ProcessState

LEMMA GoingAway ==
  ASSUME RolesTypeOK, NEW r \in Roles, Leaves(r) \/ Dies(r)
  PROVE  /\ process'[r].target = 0 /\ process'[r].pc \in {"selecting", "over"}
         /\ process' \in [Roles -> ProcessState] /\ \A o \in Roles \ {r} : process'[o] = process[o]
<1>1. process \in [Roles -> ProcessState]
  BY DEF RolesTypeOK
<1>2. Selecting \in ProcessState /\ [Selecting EXCEPT !.pc = "over"] \in ProcessState
  BY DEF Selecting, ProcessState, Places, Numbers, OfPR!Phases, OfPR!Stages, OfPR!Works
<1>3. PICK q \in ProcessState : /\ q \in {Selecting, [Selecting EXCEPT !.pc = "over"]}
                                /\ process' = [process EXCEPT ![r] = q]
  BY <1>2 DEF Leaves, Dies
<1>4. q.target = 0 /\ q.pc \in {"selecting", "over"}
  BY <1>3 DEF Selecting
<1> QED
  BY <1>1, <1>3, <1>4

LEMMA Storing ==
  ASSUME RolesTypeOK, NEW t \in Targets, NEW u \in OfIssue!States \cup OfPR!States, Store(t, u)
  PROVE  /\ db' \in [Targets -> OfIssue!States \cup OfPR!States] /\ db'[t] = u
         /\ \A n \in Targets \ {t} : db'[n] = db[n]
BY DEF RolesTypeOK, Store

\* A process in the daemon has a target, and a row for it.
LEMMA AtWork ==
  ASSUME RolesInv, NEW r \in Roles, process[r].pc \in Daemon
  PROVE  /\ process[r].target \in Targets
         /\ process[r].target \in Issues =>
              /\ process[r].phase \in OfIssue!Stages /\ process[r].pc \notin {"leave", "fix", "verified"}
              /\ db[process[r].target] \in OfIssue!States \ {"none"}
         /\ process[r].target \in PullRequests =>
              /\ process[r].phase \in OfPR!Phases
              /\ process[r].phase = "review_approved" <=> process[r].pc = "leave"
              /\ process[r].pc = "verified" => process[r].phase = "verification"
              /\ db[process[r].target] \in OfPR!States \ {"none", "failed"}
         /\ process[r].target \in Issues <=> process[r].target \notin PullRequests
<1>1. process[r].target \in Targets \cup {0}
  BY ProcessOf DEF RolesInv
<1>2. process[r].target # 0 /\ db[process[r].target] # "none" /\ PhaseOf(process[r])
  BY DEF RolesInv, HandInv, Daemon, Asks
<1>3. process[r].target \in Targets /\ (process[r].target \in Issues <=> process[r].target \notin PullRequests)
  BY <1>1, <1>2, RolesNumbers DEF Targets
<1> QED
  BY <1>2, <1>3 DEF PhaseOf, RolesInv, RowInv

\* What holds of every step that leaves the rows alone.
LEMMA SameRow ==
  ASSUME NEW p, NEW q, NEW s \in OfPR!States \ {"none", "failed"},
         q.target = p.target =>
           /\ q.phase = p.phase
           /\ p.phase # "verification" => /\ p.pc # "running" /\ q.pc \notin {"running", "result"}
                                          /\ p.pc = "result" => q.pc = "starting"
  PROVE  PRTurn(p, q, s, s)
BY DEF PRTurn, Suits, Fits, OfPR!States, OfPR!Failed, OfPR!Running, OfPR!Ready, OfPR!Decided, OnFix, Reviewable

\* A step after which the process is not in its daemon any more and which stores nothing.
LEMMA GoneTurns ==
  ASSUME RolesInv, NEW r \in Roles, Leaves(r) \/ Dies(r), UNCHANGED <<db, github, arisen, shared>>,
         answers' \in 0 .. MaxAnswer, left' = left \cup LeftBy(r) \/ (left' = left /\ ~Acting(process[r]))
  PROVE  Turn(r)
<1> DEFINE p == process[r] q == process'[r] t == process[r].target
<1>1. /\ q.target = 0 /\ q.pc \in {"selecting", "over"} /\ process' \in [Roles -> ProcessState]
      /\ \A o \in Roles \ {r} : process'[o] = process[o]
  BY GoingAway DEF RolesInv
<1>2. LeftBy(r) \subseteq {t} \cap Targets
  BY DEF LeftBy
<1>3. /\ RolesTypeOK' /\ \A n \in Targets \ {t} : n \in left' <=> n \in left
  BY <1>1, <1>2 DEF RolesInv, RolesTypeOK, github
<1>4. ASSUME t \in Targets
      PROVE  /\ t \in Issues => IssueTurn(p, q, db[t], db'[t])
             /\ t \in PullRequests => PRTurn(p, q, db[t], db'[t])
  <2>1. t # 0 /\ db[t] # "none" /\ db' = db
    BY <1>4, RolesNumbers DEF RolesInv, HandInv
  <2>2. q.target # p.target
    BY <1>1, <2>1
  <2>3. CASE t \in Issues
    BY <1>4, <2>1, <2>3, RolesNumbers DEF IssueTurn, RolesInv, RowInv
  <2>4. CASE t \in PullRequests
    <3>1. db[t] \in OfPR!States \ {"none", "failed"}
      BY <2>1, <2>4 DEF RolesInv, RowInv
    <3> QED
      BY <2>1, <2>2, <2>4, <3>1, SameRow, RolesNumbers
  <2> QED
    BY <2>3, <2>4, <1>4 DEF Targets
<1>5. ASSUME t \in Targets
      PROVE  /\ db'[t] \in UnderWay /\ t \notin left' => t \notin left /\ db'[t] = db[t] /\ ~Acting(p)
             /\ ~(t \in left /\ t \notin left')
             /\ p.pc \notin Daemon => db'[t] = db[t] /\ (t \in left' <=> t \in left)
  BY <1>5 DEF LeftBy, Acting
<1> QED
  BY <1>1, <1>3, <1>4, <1>5 DEF Turn, github

\* A step that stores nothing, after which the process is in its daemon as before.
LEMMA StayTurns ==
  ASSUME RolesInv, NEW r \in Roles, process[r].pc \in Daemon, NEW pc \in Daemon, GoesTo(r, pc),
         \/ process[r].phase = "verification" /\ pc \in {"running", "verified", "failed"}
         \/ /\ process[r].pc \notin {"running", "leave"}
            /\ pc \notin {"running", "result", "leave", "fix", "verified"}
            /\ process[r].pc = "result" => pc = "starting",
         UNCHANGED <<db, github, arisen, history>>, answers' \in 0 .. MaxAnswer
  PROVE  Turn(r)
<1> DEFINE p == process[r] q == process'[r] t == process[r].target
<1>1. /\ q.target = t /\ q.pc = pc /\ q.phase = p.phase /\ process' \in [Roles -> ProcessState]
      /\ \A o \in Roles \ {r} : process'[o] = process[o]
  BY GoingTo DEF RolesInv, Places
<1>2. RolesTypeOK'
  BY <1>1 DEF RolesInv, RolesTypeOK, github, history
<1>3. t \in Targets /\ (t \in Issues <=> t \notin PullRequests)
  BY AtWork
<1>4. PhaseOf(q)
  <2>1. CASE t \in Issues
    BY <1>1, <1>3, <2>1, AtWork DEF PhaseOf, OfIssue!Stages
  <2>2. CASE t \in PullRequests
    <3>1. /\ p.phase \in OfPR!Phases /\ (p.phase = "review_approved" <=> p.pc = "leave")
          /\ p.pc = "verified" => p.phase = "verification"
      BY <2>2, AtWork
    <3>2. pc # "leave" /\ (pc = "verified" => p.phase = "verification") /\ p.phase # "review_approved"
      BY <3>1
    <3> QED
      BY <1>1, <1>3, <2>2, <3>1, <3>2 DEF PhaseOf
  <2> QED
    BY <1>3, <2>1, <2>2
<1>5. /\ t \in Issues => IssueTurn(p, q, db[t], db'[t])
      /\ t \in PullRequests => PRTurn(p, q, db[t], db'[t])
  <2>1. CASE t \in Issues
    BY <1>3, <2>1, AtWork DEF IssueTurn
  <2>2. CASE t \in PullRequests
    BY <1>1, <1>3, <2>2, AtWork, SameRow
  <2> QED
    BY <1>3, <2>1, <2>2
<1>6. /\ Acting(p) => Acting(q)
      /\ \A n \in Targets : db'[n] = db[n] /\ left' = left
  BY <1>1 DEF Acting, history
<1>7. t \in PullRequests /\ db'[t] = "completed" => db[t] = "completed"
  OBVIOUS
<1> QED
  BY <1>1, <1>2, <1>3, <1>4, <1>5, <1>6 DEF Turn, github, history

LEMMA StartFailsTurns == ASSUME RolesInv, NEW r \in Roles, StartFails(r) PROVE Turn(r)
<1>1. /\ process[r].pc = "starting" /\ GoesTo(r, "nothing")
      /\ UNCHANGED <<db, github, arisen, history>> /\ answers' = answers
  BY DEF StartFails, bounds
<1> QED
  BY <1>1, StayTurns DEF Daemon, Asks, RolesInv, RolesTypeOK

LEMMA StartFixTurns == ASSUME RolesInv, NEW r \in Roles, StartFix(r) PROVE Turn(r)
<1>1. /\ process[r].pc = "fix" /\ GoesTo(r, "starting")
      /\ UNCHANGED <<db, github, arisen, history>> /\ answers' = answers
  BY DEF StartFix, bounds
<1> QED
  BY <1>1, StayTurns DEF Daemon, Asks, RolesInv, RolesTypeOK

LEMMA WorkAgainTurns == ASSUME RolesInv, NEW r \in Roles, WorkAgain(r) PROVE Turn(r)
<1>1. /\ process[r].pc \in {"result", "failed"} /\ GoesTo(r, "starting")
      /\ UNCHANGED <<db, github, arisen, history>> /\ answers < MaxAnswer /\ answers' = answers + 1
  BY DEF WorkAgain
<1>2. answers' \in 0 .. MaxAnswer
  BY <1>1, RolesBounds DEF RolesInv, RolesTypeOK
<1> QED
  BY <1>1, <1>2, StayTurns DEF Daemon, Asks

\* The steps that leave the daemon, or begin without one.
LEMMA LeaveTurns ==
  ASSUME RolesInv, NEW r \in Roles, WaitEnds(r) \/ SelectionFails(r) \/ Leave(r) \/ Relaunch(r) \/ Crash(r)
  PROVE  Turn(r)
<1>1. Leaves(r) \/ Dies(r)
  BY DEF WaitEnds, SelectionFails, Leave, Relaunch, Crash
<1>2. UNCHANGED <<db, github, arisen, shared>>
  BY DEF WaitEnds, SelectionFails, Leave, Relaunch, Crash, bounds, history
<1>3. answers' \in 0 .. MaxAnswer
  BY RolesBounds DEF WaitEnds, SelectionFails, Leave, Relaunch, Crash, bounds, RolesInv, RolesTypeOK
<1>4. left' = left \cup LeftBy(r) \/ (left' = left /\ ~Acting(process[r]))
  BY DEF WaitEnds, SelectionFails, Leave, Relaunch, Crash, history, Acting, Daemon, Asks
<1> QED
  BY <1>1, <1>2, <1>3, <1>4, GoneTurns

\* The steps in which a process stores a state and stays in its daemon.
LEMMA StoreTurns ==
  ASSUME RolesInv, NEW r \in Roles, process[r].pc \in Daemon, NEW u, Store(process[r].target, u),
         process'[r].target = process[r].target, process'[r].pc \in Daemon, PhaseOf(process'[r]),
         process' \in [Roles -> ProcessState], \A o \in Roles \ {r} : process'[o] = process[o],
         process[r].target \in Issues => IssueTurn(process[r], process'[r], db[process[r].target], u),
         process[r].target \in PullRequests =>
           /\ PRTurn(process[r], process'[r], db[process[r].target], u)
           /\ u # "completed"
           /\ process[r].target \notin left' => process[r].target \notin left \/ Fits(process'[r], u),
         u \in UnderWay => Acting(process'[r]),
         UNCHANGED <<github, bounds, shared>>, left' \in {left, left \ {process[r].target}}
  PROVE  Turn(r)
<1> DEFINE p == process[r] q == process'[r] t == process[r].target
<1>1. t \in Targets /\ (t \in Issues <=> t \notin PullRequests)
  BY AtWork
<1>2. u \in OfIssue!States \cup OfPR!States
  BY <1>1 DEF IssueTurn, PRTurn, Targets
<1>3. /\ db' \in [Targets -> OfIssue!States \cup OfPR!States] /\ db'[t] = u
      /\ \A n \in Targets \ {t} : db'[n] = db[n]
  BY <1>1, <1>2, Storing DEF RolesInv
<1>4. RolesTypeOK'
  BY <1>3 DEF RolesInv, RolesTypeOK, github, bounds
<1>5. \A n \in Targets \ {t} : n \in left' <=> n \in left
  OBVIOUS
<1> QED
  BY <1>1, <1>3, <1>4, <1>5 DEF Turn, github, bounds

\* The rows of a job: its start, its result, its failure.
LEMMA StartRow ==
  ASSUME NEW p, NEW q, NEW s \in OfPR!States \ {"none", "failed"}, p.phase \in OfPR!Works,
         p.pc = "starting", q.pc = "running", q.phase = p.phase
  PROVE  PRTurn(p, q, s, OfPR!StartState(p.phase)) /\ Fits(q, OfPR!StartState(p.phase))
BY DEF PRTurn, Suits, Fits, InOrder, Follow, OfPR!StartState, OfPR!Works, OfPR!States, OfPR!Running, OfPR!Ready,
   OfPR!Decided, OnFix, Reviewable, ForReview

LEMMA FinishRow ==
  ASSUME NEW p, NEW q, NEW s \in OfPR!States \ {"none", "failed"}, p.phase \in OfPR!Works,
         p.pc = "running", q.pc = "result", q.phase = p.phase
  PROVE  PRTurn(p, q, s, OfPR!ReadyState(p.phase))
BY DEF PRTurn, Suits, Fits, InOrder, Follow, OfPR!ReadyState, OfPR!Works, OfPR!States, OfPR!Running, OfPR!Ready,
   OfPR!Decided, OnFix, Reviewable, ForReview

LEMMA FailedRow ==
  ASSUME NEW p, NEW q, NEW s \in OfPR!States \ {"none", "failed"}, p.phase \in OfPR!Works,
         p.pc = "running", q.target = p.target => q.pc = "failed" /\ q.phase = p.phase
  PROVE  PRTurn(p, q, s, OfPR!FailedState(p.phase)) /\ OfPR!FailedState(p.phase) \in OfPR!Failed
BY DEF PRTurn, Suits, Fits, InOrder, Follow, OfPR!FailedState, OfPR!Works, OfPR!States, OfPR!Running, OfPR!Ready,
   OfPR!Failed, OfPR!Decided, OnFix, Reviewable, ForReview

\* And its decision, after which the process has another target.
LEMMA DecidedRow ==
  ASSUME NEW p, NEW q, NEW s \in OfPR!States \ {"none", "failed"}, p.phase \in OfPR!Works,
         p.pc = "result", q.target # p.target, NEW decision \in {"approve", "changes"},
         decision = "changes" => p.phase = "review"
  PROVE  PRTurn(p, q, s, OfPR!DecidedState(p.phase, decision))
         /\ OfPR!DecidedState(p.phase, decision) \in OfPR!Decided
BY DEF PRTurn, Suits, Fits, InOrder, Follow, OfPR!DecidedState, OfPR!Works, OfPR!States, OfPR!Running, OfPR!Ready,
   OfPR!Failed, OfPR!Decided, OnFix, Reviewable, ForReview

LEMMA RunningStates ==
  /\ \A phase \in OfPR!Works : /\ OfPR!StartState(phase) # "completed" /\ OfPR!ReadyState(phase) # "completed"
                              /\ OfPR!FailedState(phase) \notin UnderWay \cup {"completed"}
  /\ \A phase \in OfIssue!Stages :
       /\ {OfIssue!StartState(phase), OfIssue!ReadyState(phase), OfIssue!FailedState(phase)}
            \subseteq OfIssue!States \ {"none"}
       /\ OfIssue!FailedState(phase) \notin UnderWay
  /\ OfPR!Decided \cap (UnderWay \cup {"completed"}) = {}
BY DEF OfPR!Works, OfPR!StartState, OfPR!ReadyState, OfPR!FailedState, OfPR!Decided, OfPR!Running, OfPR!Ready,
   OfIssue!Stages, OfIssue!StartState, OfIssue!ReadyState, OfIssue!FailedState, OfIssue!States, OfIssue!Running,
   OfIssue!Ready, OfIssue!Failed, UnderWay

LEMMA StartTurns == ASSUME RolesInv, NEW r \in Roles, Start(r) PROVE Turn(r)
<1> DEFINE p == process[r] q == process'[r] t == process[r].target
<1>1. /\ p.pc = "starting" /\ Store(t, StartState(t, p.phase)) /\ GoesTo(r, "running")
      /\ left' = IF p.phase = "verification" THEN left ELSE left \ {t}
      /\ UNCHANGED <<github, bounds, shared>>
  BY DEF Start
<1>2. /\ q.target = t /\ q.pc = "running" /\ q.phase = p.phase /\ process' \in [Roles -> ProcessState]
      /\ \A o \in Roles \ {r} : process'[o] = process[o]
  BY <1>1, GoingTo DEF RolesInv, Places, Daemon
<1>3. /\ t \in Targets /\ (t \in Issues <=> t \notin PullRequests) /\ p.pc \in Daemon
      /\ t \in Issues => p.phase \in OfIssue!Stages
      /\ t \in PullRequests => /\ p.phase \in OfPR!Phases /\ p.phase # "review_approved"
                               /\ db[t] \in OfPR!States \ {"none", "failed"}
  BY <1>1, AtWork DEF Daemon
<1>4. CASE t \in PullRequests /\ p.phase = "verification"
  <2>1. db' = db /\ left' = left
    BY <1>1, <1>3, <1>4 DEF StartState, Store, RolesInv, RolesTypeOK
  <2> QED
    BY <1>1, <1>3, <1>4, <2>1, StayTurns DEF Daemon, bounds, history, RolesInv, RolesTypeOK
<1>5. CASE t \in PullRequests /\ p.phase # "verification"
  <2> DEFINE u == OfPR!StartState(p.phase)
  <2>1. p.phase \in OfPR!Works /\ StartState(t, p.phase) = u
    BY <1>3, <1>5 DEF OfPR!Phases, OfPR!Stages, StartState
  <2>2. PRTurn(p, q, db[t], u) /\ Fits(q, u) /\ u # "completed"
    BY <1>1, <1>2, <1>3, <1>5, <2>1, StartRow, RunningStates
  <2>3. PhaseOf(q) /\ Acting(q) /\ q.pc \in Daemon
    BY <1>2, <1>3, <1>5 DEF PhaseOf, Acting, Daemon
  <2> HIDE DEF u
  <2> QED
    BY <1>1, <1>2, <1>3, <1>5, <2>1, <2>2, <2>3, StoreTurns
<1>6. CASE t \in Issues
  <2> DEFINE u == OfIssue!StartState(p.phase)
  <2>1. StartState(t, p.phase) = u /\ IssueTurn(p, q, db[t], u)
    BY <1>3, <1>6, RunningStates DEF StartState, IssueTurn
  <2>2. PhaseOf(q) /\ Acting(q) /\ q.pc \in Daemon
    BY <1>2, <1>3, <1>6 DEF PhaseOf, Acting, Daemon, OfIssue!Stages
  <2> HIDE DEF u
  <2> QED
    BY <1>1, <1>2, <1>3, <1>6, <2>1, <2>2, StoreTurns
<1> QED
  BY <1>3, <1>4, <1>5, <1>6 DEF Targets

LEMMA FinishTurns == ASSUME RolesInv, NEW r \in Roles, Finish(r) PROVE Turn(r)
<1> DEFINE p == process[r] q == process'[r] t == process[r].target
<1>1. /\ p.pc = "running" /\ UNCHANGED <<github, bounds, history>>
      /\ p.phase = "verification" => GoesTo(r, "verified") /\ db' = db
      /\ p.phase # "verification" =>
           /\ GoesTo(r, "result")
           /\ t \in Issues => Store(t, OfIssue!ReadyState(p.phase))
           /\ t \notin Issues => Store(t, OfPR!ReadyState(p.phase))
  BY DEF Finish
<1>2. /\ t \in Targets /\ (t \in Issues <=> t \notin PullRequests) /\ p.pc \in Daemon
      /\ t \in Issues => p.phase \in OfIssue!Stages
      /\ t \in PullRequests => /\ p.phase \in OfPR!Phases /\ p.phase # "review_approved"
                               /\ db[t] \in OfPR!States \ {"none", "failed"}
  BY <1>1, AtWork DEF Daemon
<1>3. CASE p.phase = "verification"
  BY <1>1, <1>2, <1>3, StayTurns DEF Daemon, Asks, bounds, RolesInv, RolesTypeOK
<1>4. CASE p.phase # "verification"
  <2>1. /\ q.target = t /\ q.pc = "result" /\ q.phase = p.phase /\ process' \in [Roles -> ProcessState]
        /\ \A o \in Roles \ {r} : process'[o] = process[o]
    BY <1>1, <1>4, GoingTo DEF RolesInv, Places, Daemon, Asks
  <2>2. PhaseOf(q) /\ Acting(q) /\ q.pc \in Daemon
    BY <1>2, <1>4, <2>1 DEF PhaseOf, Acting, Daemon, Asks
  <2>3. CASE t \in PullRequests
    <3> DEFINE u == OfPR!ReadyState(p.phase)
    <3>1. PRTurn(p, q, db[t], u) /\ u # "completed" /\ Store(t, u)
      BY <1>1, <1>2, <1>4, <2>1, <2>3, FinishRow, RunningStates DEF OfPR!Phases, OfPR!Stages
    <3> HIDE DEF u
    <3> QED
      BY <1>1, <1>2, <2>1, <2>2, <2>3, <3>1, StoreTurns DEF history
  <2>4. CASE t \in Issues
    <3> DEFINE u == OfIssue!ReadyState(p.phase)
    <3>1. IssueTurn(p, q, db[t], u) /\ Store(t, u)
      BY <1>1, <1>2, <1>4, <2>4, RunningStates DEF IssueTurn
    <3> HIDE DEF u
    <3> QED
      BY <1>1, <1>2, <2>1, <2>2, <2>4, <3>1, StoreTurns DEF history
  <2> QED
    BY <1>2, <2>3, <2>4 DEF Targets
<1> QED
  BY <1>3, <1>4

\* What is stored of a job that failed, whether the process stays or goes.
LEMMA FailedStored ==
  ASSUME RolesInv, NEW r \in Roles, process[r].pc = "running", StoreFailed(process[r]), NEW q,
         q.target = process[r].target => q.pc = "failed" /\ q.phase = process[r].phase
  PROVE  /\ process[r].phase = "verification" => db' = db
         /\ process[r].phase # "verification" => \E u :
              /\ Store(process[r].target, u) /\ u \notin UnderWay \cup {"completed"}
              /\ process[r].target \in Issues => IssueTurn(process[r], q, db[process[r].target], u)
              /\ process[r].target \in PullRequests => PRTurn(process[r], q, db[process[r].target], u)
<1> DEFINE p == process[r] t == process[r].target
<1>1. /\ t \in Targets /\ (t \in Issues <=> t \notin PullRequests) /\ p.pc \in Daemon
      /\ t \in Issues => p.phase \in OfIssue!Stages
      /\ t \in PullRequests => /\ p.phase \in OfPR!Phases /\ p.phase # "review_approved"
                               /\ db[t] \in OfPR!States \ {"none", "failed"}
  BY AtWork DEF Daemon
<1>2. CASE p.phase = "verification"
  BY <1>2 DEF StoreFailed
<1>3. CASE p.phase # "verification" /\ t \in PullRequests
  <2> DEFINE u == OfPR!FailedState(p.phase)
  <2>1. p.phase \in OfPR!Works /\ Store(t, u)
    BY <1>1, <1>3 DEF OfPR!Phases, OfPR!Stages, StoreFailed
  <2>2. PRTurn(p, q, db[t], u) /\ u \notin UnderWay \cup {"completed"}
    BY <1>1, <1>3, <2>1, FailedRow, RunningStates
  <2> HIDE DEF u
  <2> QED
    BY <1>1, <1>3, <2>1, <2>2
<1>4. CASE p.phase # "verification" /\ t \in Issues
  <2> DEFINE u == OfIssue!FailedState(p.phase)
  <2>1. Store(t, u) /\ IssueTurn(p, q, db[t], u) /\ u \notin UnderWay
    BY <1>1, <1>4, RunningStates DEF StoreFailed, IssueTurn
  <2>2. u # "completed"
    BY <2>1 DEF IssueTurn, OfIssue!States, OfIssue!Ready, OfIssue!Failed, OfIssue!Running
  <2> HIDE DEF u
  <2> QED
    BY <1>1, <1>4, <2>1, <2>2
<1> QED
  BY <1>1, <1>2, <1>3, <1>4 DEF Targets

LEMMA FinishFailedTurns == ASSUME RolesInv, NEW r \in Roles, FinishFailed(r) PROVE Turn(r)
<1> DEFINE p == process[r] q == process'[r] t == process[r].target
<1>1. p.pc = "running" /\ StoreFailed(p) /\ GoesTo(r, "failed") /\ UNCHANGED <<github, bounds, history>>
  BY DEF FinishFailed
<1>2. /\ q.target = t /\ q.pc = "failed" /\ q.phase = p.phase /\ process' \in [Roles -> ProcessState]
      /\ \A o \in Roles \ {r} : process'[o] = process[o]
  BY <1>1, GoingTo DEF RolesInv, Places, Daemon, Asks
<1>3. /\ t \in Targets /\ (t \in Issues <=> t \notin PullRequests) /\ p.pc \in Daemon
      /\ t \in Issues => p.phase \in OfIssue!Stages
      /\ t \in PullRequests => p.phase \in OfPR!Phases /\ p.phase # "review_approved"
  BY <1>1, AtWork DEF Daemon
<1>4. CASE p.phase = "verification"
  <2>1. db' = db
    BY <1>1, <1>2, <1>4, FailedStored
  <2> QED
    BY <1>1, <1>3, <1>4, <2>1, StayTurns DEF Daemon, Asks, bounds, RolesInv, RolesTypeOK
<1>5. CASE p.phase # "verification"
  <2>1. PICK u : /\ Store(t, u) /\ u \notin UnderWay \cup {"completed"}
                 /\ t \in Issues => IssueTurn(p, q, db[t], u)
                 /\ t \in PullRequests => PRTurn(p, q, db[t], u)
    BY <1>1, <1>2, <1>5, FailedStored
  <2>2. PhaseOf(q) /\ q.pc \in Daemon
    BY <1>2, <1>3, <1>5 DEF PhaseOf, Daemon, Asks
  <2> QED
    BY <1>1, <1>2, <1>3, <2>1, <2>2, StoreTurns DEF history
<1> QED
  BY <1>4, <1>5

\* The steps in which a process stores a state and leaves its daemon.
LEMMA StoreGoneTurns ==
  ASSUME RolesInv, NEW r \in Roles, process[r].pc \in Daemon, NEW u, Store(process[r].target, u),
         Leaves(r) \/ Dies(r), u \notin UnderWay,
         process[r].target \in Issues => IssueTurn(process[r], process'[r], db[process[r].target], u),
         process[r].target \in PullRequests =>
           /\ PRTurn(process[r], process'[r], db[process[r].target], u)
           /\ u = "completed" => pr[process[r].target] \in {"closed", "merged"},
         pr' \in [PullRequests -> {"absent", "open", "closed", "merged"}],
         \A n \in PullRequests : pr'[n] = pr[n] \/ pr[n] = "absent",
         conflict' \subseteq conflict, answers' \in 0 .. MaxAnswer, UNCHANGED <<label, arisen, history>>
  PROVE  Turn(r)
<1> DEFINE p == process[r] q == process'[r] t == process[r].target
<1>1. t \in Targets /\ (t \in Issues <=> t \notin PullRequests)
  BY AtWork
<1>2. u \in OfIssue!States \cup OfPR!States
  BY <1>1 DEF IssueTurn, PRTurn, Targets
<1>3. /\ db' \in [Targets -> OfIssue!States \cup OfPR!States] /\ db'[t] = u
      /\ \A n \in Targets \ {t} : db'[n] = db[n]
  BY <1>1, <1>2, Storing DEF RolesInv
<1>4. /\ q.target = 0 /\ q.pc \in {"selecting", "over"} /\ process' \in [Roles -> ProcessState]
      /\ \A o \in Roles \ {r} : process'[o] = process[o]
  BY GoingAway DEF RolesInv
<1>5. RolesTypeOK'
  BY <1>3, <1>4 DEF RolesInv, RolesTypeOK, history
<1>6. left' = left /\ shared' = shared /\ \A n \in Targets \ {t} : n \in left' <=> n \in left
  BY DEF history
<1> QED
  BY <1>1, <1>3, <1>4, <1>5, <1>6 DEF Turn

LEMMA CancelTurns == ASSUME RolesInv, NEW r \in Roles, Cancel(r) PROVE Turn(r)
<1> DEFINE p == process[r] q == process'[r] t == process[r].target
<1>1. Dies(r) /\ UNCHANGED <<github, bounds, shared>>
  BY DEF Cancel
<1>2. CASE p.pc # "running"
  BY <1>1, <1>2, GoneTurns DEF Cancel, bounds, RolesInv, RolesTypeOK
<1>3. CASE p.pc = "running"
  <2>1. StoreFailed(p) /\ left' = left
    BY <1>3 DEF Cancel
  <2>2. p.pc \in Daemon /\ q.target = 0 /\ t # 0
    BY <1>1, <1>3, GoingAway, AtWork, RolesNumbers DEF Daemon, RolesInv
  <2>3. CASE p.phase = "verification"
    <3>1. db' = db
      BY <1>3, <2>1, <2>2, <2>3, FailedStored
    <3> QED
      BY <1>1, <2>1, <2>3, <3>1, GoneTurns DEF Acting, bounds, RolesInv, RolesTypeOK
  <2>4. CASE p.phase # "verification"
    <3>1. PICK u : /\ Store(t, u) /\ u \notin UnderWay \cup {"completed"}
                   /\ t \in Issues => IssueTurn(p, q, db[t], u)
                   /\ t \in PullRequests => PRTurn(p, q, db[t], u)
      BY <1>3, <2>1, <2>2, <2>4, FailedStored
    <3>2. /\ pr' = pr /\ conflict' = conflict /\ answers' = answers
          /\ pr \in [PullRequests -> {"absent", "open", "closed", "merged"}]
          /\ answers \in 0 .. MaxAnswer /\ UNCHANGED <<label, arisen, history>>
      BY <1>1, <2>1 DEF github, bounds, history, RolesInv, RolesTypeOK
    <3> QED
      BY <1>1, <2>2, <3>1, <3>2, StoreGoneTurns
  <2> QED
    BY <2>3, <2>4
<1> QED
  BY <1>2, <1>3

LEMMA ApproveDesignTurns == ASSUME RolesInv, NEW r \in Roles, ApproveDesign(r) PROVE Turn(r)
<1> DEFINE p == process[r] q == process'[r] t == process[r].target u == "design_approved"
<1>1. /\ p.pc = "result" /\ p.phase = "design" /\ Store(t, u) /\ UNCHANGED <<github, bounds, history>>
      /\ process' = [process EXCEPT ![r].pc = "starting", ![r].phase = "implementation"]
  BY DEF ApproveDesign
<1>2. /\ q.target = t /\ q.pc = "starting" /\ q.phase = "implementation" /\ process' \in [Roles -> ProcessState]
      /\ \A o \in Roles \ {r} : process'[o] = process[o]
  BY <1>1, GoingToWork DEF RolesInv, OfIssue!Phases, OfIssue!Stages
<1>3. p.pc \in Daemon /\ t \in Targets /\ t \notin PullRequests
  BY <1>1, AtWork DEF Daemon, Asks, OfPR!Phases, OfPR!Stages, OfPR!Works
<1>4. PhaseOf(q) /\ IssueTurn(p, q, db[t], u) /\ Acting(q) /\ q.pc \in Daemon
  BY <1>2, <1>3 DEF PhaseOf, IssueTurn, Acting, Daemon, OfIssue!Stages, OfIssue!States
<1> QED
  BY <1>1, <1>2, <1>3, <1>4, StoreTurns DEF history

LEMMA ApproveImplementationTurns == ASSUME RolesInv, NEW r \in Roles, ApproveImplementation(r) PROVE Turn(r)
<1> DEFINE p == process[r] q == process'[r] t == process[r].target u == "pr_created"
<1>1. /\ p.pc = "result" /\ p.phase = "implementation" /\ Store(t, u) /\ Leaves(r)
      /\ UNCHANGED <<label, conflict, bounds, history>>
      /\ (\E n \in PullRequests : pr[n] = "absent" /\ pr' = [pr EXCEPT ![n] = "open"]) \/ pr' = pr
  BY DEF ApproveImplementation
<1>2. p.pc \in Daemon /\ t \in Targets /\ t \notin PullRequests
  BY <1>1, AtWork DEF Daemon, Asks, OfPR!Phases, OfPR!Stages, OfPR!Works
<1>3. pr \in [PullRequests -> {"absent", "open", "closed", "merged"}] /\ answers' \in 0 .. MaxAnswer
  BY <1>1 DEF RolesInv, RolesTypeOK, bounds
<1>4. /\ pr' \in [PullRequests -> {"absent", "open", "closed", "merged"}]
      /\ \A n \in PullRequests : pr'[n] = pr[n] \/ pr[n] = "absent"
  BY <1>1, <1>3
<1>5. IssueTurn(p, q, db[t], u) /\ u \notin UnderWay
  BY DEF IssueTurn, OfIssue!States, UnderWay, OfIssue!Running, OfIssue!Ready, OfPR!Running, OfPR!Ready
<1>6. arisen' = arisen /\ conflict' = conflict /\ label' = label
  BY <1>1 DEF bounds
<1> QED
  BY <1>1, <1>2, <1>3, <1>4, <1>5, <1>6, StoreGoneTurns

LEMMA ApprovePRTurns == ASSUME RolesInv, NEW r \in Roles, ApprovePR(r) PROVE Turn(r)
<1> DEFINE p == process[r] q == process'[r] t == process[r].target u == OfPR!DecidedState(p.phase, "approve")
<1>1. /\ p.pc = "result" /\ p.phase \in OfPR!Works /\ Store(t, u) /\ Leaves(r) /\ conflict' \subseteq conflict
      /\ UNCHANGED <<label, pr, bounds, history>>
  BY DEF ApprovePR
<1>2. p.pc \in Daemon /\ t \in PullRequests /\ t \notin Issues /\ t # 0 /\ db[t] \in OfPR!States \ {"none", "failed"}
  BY <1>1, AtWork, RolesNumbers DEF Daemon, Asks, OfIssue!Stages, OfPR!Works, Targets
<1>3. q.target = 0
  BY <1>1, GoingAway DEF RolesInv
<1>4. PRTurn(p, q, db[t], u) /\ u \notin UnderWay \cup {"completed"}
  BY <1>1, <1>2, <1>3, DecidedRow, RunningStates
<1>5. /\ pr' = pr /\ pr \in [PullRequests -> {"absent", "open", "closed", "merged"}] /\ answers' \in 0 .. MaxAnswer
      /\ arisen' = arisen /\ label' = label
  BY <1>1 DEF bounds, RolesInv, RolesTypeOK
<1> HIDE DEF u
<1> QED
  BY <1>1, <1>2, <1>4, <1>5, StoreGoneTurns

LEMMA RequestChangesTurns == ASSUME RolesInv, NEW r \in Roles, RequestChanges(r) PROVE Turn(r)
<1> DEFINE p == process[r] q == process'[r] t == process[r].target u == OfPR!DecidedState("review", "changes")
<1>1. /\ p.pc = "result" /\ p.phase = "review" /\ Store(t, u) /\ Leaves(r)
      /\ answers < MaxAnswer /\ answers' = answers + 1 /\ UNCHANGED <<github, arisen, history>>
  BY DEF RequestChanges
<1>2. p.pc \in Daemon /\ t \in PullRequests /\ t \notin Issues /\ t # 0 /\ db[t] \in OfPR!States \ {"none", "failed"}
  BY <1>1, AtWork, RolesNumbers DEF Daemon, Asks, OfIssue!Stages, OfPR!Works, Targets
<1>3. q.target = 0
  BY <1>1, GoingAway DEF RolesInv
<1>4. PRTurn(p, q, db[t], u) /\ u \notin UnderWay \cup {"completed"}
  BY <1>1, <1>2, <1>3, DecidedRow, RunningStates DEF OfPR!Works
<1>5. /\ pr' = pr /\ pr \in [PullRequests -> {"absent", "open", "closed", "merged"}] /\ answers' \in 0 .. MaxAnswer
      /\ conflict' = conflict /\ label' = label
  BY <1>1, RolesBounds DEF github, RolesInv, RolesTypeOK
<1> HIDE DEF u
<1> QED
  BY <1>1, <1>2, <1>4, <1>5, StoreGoneTurns

LEMMA CompleteTurns == ASSUME RolesInv, NEW r \in Roles, Complete(r) PROVE Turn(r)
<1> DEFINE p == process[r] q == process'[r] t == process[r].target u == "completed"
<1>1. /\ p.pc = "verified" /\ pr[t] \in {"closed", "merged"} /\ Store(t, u) /\ Leaves(r)
      /\ UNCHANGED <<github, bounds, history>>
  BY DEF Complete
<1>2. /\ p.pc \in Daemon /\ t \in PullRequests /\ t \notin Issues /\ t # 0 /\ p.phase = "verification"
      /\ db[t] \in OfPR!States \ {"none", "failed"}
  BY <1>1, AtWork, RolesNumbers DEF Daemon, Asks, Targets
<1>3. q.target # t
  BY <1>1, <1>2, GoingAway DEF RolesInv
<1>4. PRTurn(p, q, db[t], u) /\ u \notin UnderWay
  BY <1>1, <1>2, <1>3 DEF PRTurn, Fits, InOrder, Follow, ForReview, OfPR!States, UnderWay, OfIssue!Running, OfIssue!Ready,
     OfPR!Running, OfPR!Ready
<1>5. /\ pr' = pr /\ pr \in [PullRequests -> {"absent", "open", "closed", "merged"}] /\ answers' \in 0 .. MaxAnswer
      /\ conflict' = conflict /\ label' = label /\ arisen' = arisen
  BY <1>1 DEF github, bounds, RolesInv, RolesTypeOK
<1> QED
  BY <1>1, <1>2, <1>4, <1>5, StoreGoneTurns

LEMMA ApproveVerifiedTurns == ASSUME RolesInv, NEW r \in Roles, ApproveVerified(r) PROVE Turn(r)
<1> DEFINE p == process[r] q == process'[r] t == process[r].target u == "review_approved"
<1>1. /\ p.pc = "result" /\ p.phase = "review" /\ Store(t, u) /\ UNCHANGED <<github, bounds, history>>
      /\ process' = [process EXCEPT ![r].pc = "starting", ![r].phase = "verification"]
  BY DEF ApproveVerified
<1>2. /\ q.target = t /\ q.pc = "starting" /\ q.phase = "verification" /\ process' \in [Roles -> ProcessState]
      /\ \A o \in Roles \ {r} : process'[o] = process[o]
  BY <1>1, GoingToWork DEF RolesInv, OfPR!Phases, OfPR!Stages
<1>3. p.pc \in Daemon /\ t \in PullRequests /\ t \notin Issues /\ db[t] \in OfPR!States \ {"none", "failed"}
  BY <1>1, AtWork DEF Daemon, Asks, OfIssue!Stages, Targets
<1>4. PhaseOf(q) /\ q.pc \in Daemon
  BY <1>2, <1>3 DEF PhaseOf, Daemon, OfPR!Phases, OfPR!Stages
<1>5. PRTurn(p, q, db[t], u) /\ u \notin UnderWay \cup {"completed"}
  BY <1>1, <1>2, <1>3 DEF PRTurn, Suits, Fits, InOrder, Follow, ForReview, OnFix, OfPR!States, OfPR!Decided, UnderWay,
     OfIssue!Running, OfIssue!Ready, OfPR!Running, OfPR!Ready
<1> QED
  BY <1>1, <1>2, <1>3, <1>4, <1>5, StoreTurns DEF history

LEMMA ReviewAgainTurns == ASSUME RolesInv, NEW r \in Roles, ReviewAgain(r) PROVE Turn(r)
<1> DEFINE p == process[r] q == process'[r] t == process[r].target
<1>1. /\ p.pc = "leave" /\ answers < MaxAnswer /\ answers' = answers + 1 /\ UNCHANGED <<db, github, arisen, history>>
      /\ process' = [process EXCEPT ![r].pc = "starting", ![r].phase = "review"]
  BY DEF ReviewAgain
<1>2. /\ q.target = t /\ q.pc = "starting" /\ q.phase = "review" /\ process' \in [Roles -> ProcessState]
      /\ \A o \in Roles \ {r} : process'[o] = process[o]
  BY <1>1, GoingToWork DEF RolesInv, OfPR!Phases, OfPR!Stages, OfPR!Works
<1>3. /\ p.pc \in Daemon /\ t \in PullRequests /\ t \notin Issues /\ p.phase = "review_approved"
      /\ db[t] \in OfPR!States \ {"none", "failed"}
  BY <1>1, AtWork DEF Daemon, Asks, Targets
<1>4. PhaseOf(q) /\ q.pc \in Daemon /\ Acting(q)
  BY <1>2, <1>3 DEF PhaseOf, Acting, Daemon, OfPR!Phases, OfPR!Stages, OfPR!Works
<1>5. PRTurn(p, q, db[t], db[t])
  BY <1>1, <1>2, <1>3 DEF PRTurn, Suits, Fits, Reviewable
<1>6. RolesTypeOK' /\ t \in Targets
  BY <1>1, <1>2, <1>3, RolesBounds DEF RolesInv, RolesTypeOK, github, history, Targets
<1>7. left' = left /\ shared' = shared /\ label' = label /\ pr' = pr /\ conflict' = conflict /\ db' = db
  BY <1>1 DEF github, history
<1> QED
  BY <1>1, <1>2, <1>3, <1>4, <1>5, <1>6, <1>7 DEF Turn

-----------------------------------------------------------------------------
\* What such a step keeps.

\* A turn as seen from a target that is not the process' own, and from the other process.
LEMMA OtherTargets ==
  ASSUME RolesInv, NEW r \in Roles, Turn(r), NEW n \in Targets, n # process[r].target
  PROVE  /\ db'[n] = db[n] /\ (n \in left' <=> n \in left) /\ process'[r].target # n
         /\ \A o \in Roles : process'[o].target = n => o # r /\ process'[o] = process[o]
<1>1. n # 0
  BY RolesNumbers
<1> QED
  BY <1>1 DEF Turn

LEMMA TurnKeepsRows == ASSUME RolesInv, NEW r \in Roles, Turn(r) PROVE RowInv'
<1>1. ASSUME NEW i \in Issues PROVE db'[i] \in OfIssue!States
  <2>1. CASE i = process[r].target
    BY <2>1 DEF Turn, IssueTurn, Targets
  <2>2. CASE i # process[r].target
    BY <2>2, OtherTargets DEF Targets, RolesInv, RowInv
  <2> QED
    BY <2>1, <2>2
<1>2. ASSUME NEW n \in PullRequests
      PROVE  /\ db'[n] \in OfPR!States \ {"failed"}
             /\ db'[n] = "completed" => pr'[n] \in {"closed", "merged"}
  <2>1. n \in Targets /\ (pr'[n] = pr[n] \/ pr[n] = "absent")
    BY DEF Turn, Targets
  <2>2. db[n] \in OfPR!States \ {"failed"} /\ (db[n] = "completed" => pr[n] \in {"closed", "merged"})
    BY DEF RolesInv, RowInv
  <2>3. CASE n = process[r].target
    BY <2>1, <2>2, <2>3 DEF Turn, PRTurn
  <2>4. CASE n # process[r].target
    BY <2>1, <2>2, <2>4, OtherTargets
  <2> QED
    BY <2>3, <2>4
<1> QED
  BY <1>1, <1>2 DEF RowInv

\* No row is lost.
LEMMA TurnKeepsRow == ASSUME RolesInv, NEW r \in Roles, Turn(r), NEW n \in Targets, db[n] # "none" PROVE db'[n] # "none"
<1>1. CASE n = process[r].target
  BY <1>1 DEF Turn, IssueTurn, PRTurn, Targets
<1>2. CASE n # process[r].target
  BY <1>2, OtherTargets
<1> QED
  BY <1>1, <1>2

LEMMA TurnKeepsHands == ASSUME RolesInv, NEW r \in Roles, Turn(r) PROVE HandInv'
<1> SUFFICES ASSUME NEW o \in Roles
             PROVE  /\ process'[o].target = 0 <=> process'[o].pc \in {"selecting", "waiting", "over"}
                    /\ process'[o].target # 0 => db'[process'[o].target] # "none"
                    /\ process'[o].target \in Issues => o = "implementer"
                    /\ PhaseOf(process'[o])
  BY DEF HandInv, PhaseOf
<1>1. /\ process[o].target = 0 <=> process[o].pc \in {"selecting", "waiting", "over"}
      /\ process[o].target # 0 => process[o].target \in Targets /\ db[process[o].target] # "none"
      /\ process[o].target \in Issues => o = "implementer"
      /\ PhaseOf(process[o])
  BY ProcessOf DEF RolesInv, HandInv
<1>2. CASE o # r
  <2>1. process'[o] = process[o]
    BY <1>2 DEF Turn
  <2> QED
    BY <1>1, <2>1, TurnKeepsRow
<1>3. CASE o = r /\ process'[r].target = 0 /\ process'[r].pc \in {"selecting", "over"}
  BY <1>3, RolesNumbers DEF PhaseOf, Daemon, Asks, Targets
<1>4. CASE /\ o = r /\ process'[r].target = process[r].target /\ process[r].pc \in Daemon /\ process'[r].pc \in Daemon
           /\ PhaseOf(process'[r])
  <2>1. process'[r].target # 0 /\ process'[r].target \in Targets
    BY <1>1, <1>4 DEF Daemon, Asks
  <2> QED
    BY <1>1, <1>4, <2>1, TurnKeepsRow DEF Daemon, Asks
<1> QED
  BY <1>2, <1>3, <1>4 DEF Turn

LEMMA LabelStays ==
  ASSUME NEW n \in Targets, label' = label, db'[n] = db[n], FromLabel(n)
  PROVE  FromLabel(n)'
BY RolesNumbers DEF FromLabel, ByLabel

LEMMA TurnKeepsAttended == ASSUME RolesInv, NEW r \in Roles, Turn(r) PROVE AttendedInv'
<1> SUFFICES ASSUME NEW n \in Targets, n \notin left', db'[n] \in UnderWay
             PROVE  \/ \E o \in Roles : process'[o].target = n /\ Acting(process'[o])
                    \/ FromLabel(n)'
  BY DEF AttendedInv, Acting
<1>1. ASSUME n \notin left, db[n] \in UnderWay
      PROVE  \/ \E o \in Roles : process[o].target = n /\ Acting(process[o])
             \/ FromLabel(n)
  BY <1>1 DEF RolesInv, AttendedInv
<1>2. label' = label /\ \A o \in Roles \ {r} : process'[o] = process[o]
  BY DEF Turn
<1>3. CASE n = process[r].target
  <2>1. (process'[r].target = n /\ Acting(process'[r])) \/ (n \notin left /\ db'[n] = db[n] /\ ~Acting(process[r]))
    BY <1>3 DEF Turn
  <2>2. ASSUME n \notin left, db'[n] = db[n], ~Acting(process[r])
        PROVE  \/ \E o \in Roles : process'[o].target = n /\ Acting(process'[o])
               \/ FromLabel(n)'
    BY <1>1, <1>2, <2>2, LabelStays
  <2> QED
    BY <2>1, <2>2
<1>4. CASE n # process[r].target
  BY <1>1, <1>2, <1>4, OtherTargets, LabelStays
<1> QED
  BY <1>3, <1>4

LEMMA TurnKeepsAlone == ASSUME RolesInv, NEW r \in Roles, Turn(r) PROVE FixIsAlone'
<1> SUFFICES ASSUME NEW n \in PullRequests \ shared', \A o \in Roles : WorksOn(o, n)' PROVE FALSE
  BY DEF FixIsAlone, Shared
<1>1. n \in PullRequests \ shared /\ n # 0
  BY RolesNumbers DEF Turn, Targets
<1>2. \A o \in Roles : WorksOn(o, n)
  BY <1>1 DEF Turn, WorksOn
<1> QED
  BY <1>1, <1>2 DEF RolesInv, FixIsAlone, Shared

LEMMA TurnKeepsTable == ASSUME RolesInv, NEW r \in Roles, Turn(r) PROVE TableInv'
<1> SUFFICES ASSUME NEW o \in Roles, NEW n \in PullRequests \ shared', WorksOn(o, n)'
             PROVE  Suits(process'[o], db'[n]) /\ (n \notin left' => Fits(process'[o], db'[n]))
  BY DEF TableInv, Suits, Fits
<1>1. n \in PullRequests \ shared /\ n \in Targets /\ n # 0 /\ process'[o].target = n /\ process'[o].pc \in Daemon
  BY RolesNumbers DEF Turn, Targets, WorksOn
<1>2. WorksOn(o, n)
  BY <1>1 DEF Turn, WorksOn
<1>3. Suits(process[o], db[n]) /\ (n \notin left => Fits(process[o], db[n]))
  BY <1>1, <1>2 DEF RolesInv, TableInv
<1>4. CASE n # process[r].target
  BY <1>1, <1>3, <1>4, OtherTargets
<1>5. CASE n = process[r].target /\ o = r
  BY <1>1, <1>3, <1>5 DEF Turn, PRTurn
<1>6. CASE n = process[r].target /\ o # r
  <2>1. process[r].pc \notin Daemon
    BY <1>1, <1>2, <1>6 DEF RolesInv, FixIsAlone, Shared, WorksOn, Roles
  <2>2. process'[o] = process[o] /\ db'[n] = db[n] /\ (n \in left' <=> n \in left)
    BY <1>1, <1>6, <2>1 DEF Turn
  <2> QED
    BY <1>3, <2>2
<1> QED
  BY <1>4, <1>5, <1>6

LEMMA TurnKeepsCalm == ASSUME RolesInv, NEW r \in Roles, Turn(r) PROVE CalmInv'
<1> DEFINE p == process[r] q == process'[r] t == process[r].target
<1> SUFFICES ASSUME arisen' = 0, NEW n \in PullRequests
             PROVE  /\ conflict' = {}
                    /\ process'["implementer"].target = n => db'[n] \notin {"none"} \cup ForReview
                    /\ process'["reviewer"].pc = "loading" /\ process'["reviewer"].target = n => db'[n] \in ForReview
                    /\ WorksOn("reviewer", n)' => process'["reviewer"].phase \in {"review", "verification"}
  <2>1. conflict' \subseteq conflict /\ arisen' = arisen /\ (arisen = 0 => conflict = {})
    BY DEF Turn, RolesInv, CalmInv
  <2> QED
    BY <2>1 DEF CalmInv, WorksOn
<1>1. /\ conflict = {} /\ n \in Targets /\ n # 0
      /\ process["implementer"].target = n => db[n] \notin {"none"} \cup ForReview
      /\ process["reviewer"].pc = "loading" /\ process["reviewer"].target = n => db[n] \in ForReview
      /\ WorksOn("reviewer", n) => process["reviewer"].phase \in {"review", "verification"}
  BY RolesNumbers DEF Turn, RolesInv, CalmInv, Targets
<1>2. conflict' = {} /\ arisen' = arisen /\ \A o \in Roles \ {r} : process'[o] = process[o]
  BY <1>1 DEF Turn
<1>3. "implementer" \in Roles /\ "reviewer" \in Roles /\ \A o \in Roles : o # "implementer" => o = "reviewer"
  BY DEF Roles
<1>4. CASE n # t
  BY <1>1, <1>2, <1>3, <1>4, OtherTargets DEF WorksOn
<1>5. CASE n = t
  <2>1. PRTurn(p, q, db[n], db'[n]) /\ (p.pc \notin Daemon => db'[n] = db[n])
    BY <1>1, <1>5 DEF Turn
  <2>2. /\ db'[n] # "none"
        /\ db'[n] \in ForReview /\ (q.target = n \/ p.phase \in {"review", "verification"}) => db'[n] = db[n]
        /\ q.target = n /\ p.phase \in {"review", "verification"} => q.phase \in {"review", "verification"}
    BY <1>5, <2>1 DEF PRTurn
  <2>3. q.target = n => q.pc \in Daemon /\ p.pc \in Daemon
    BY <1>1 DEF Turn
  <2>4. process'["implementer"].target = n => db'[n] \notin {"none"} \cup ForReview
    <3>1. CASE r = "implementer"
      BY <1>1, <1>5, <2>2, <3>1
    <3>2. CASE r = "reviewer"
      <4>1. process'["implementer"] = process["implementer"]
        BY <1>2, <1>3, <3>2
      <4>2. CASE p.pc \in Daemon
        BY <1>1, <1>5, <2>2, <3>2, <4>1, <4>2 DEF WorksOn
      <4>3. CASE p.pc \notin Daemon
        BY <1>1, <2>1, <4>1, <4>3
      <4> QED
        BY <4>2, <4>3
    <3> QED
      BY <1>3, <3>1, <3>2
  <2>5. ~(process'["reviewer"].pc = "loading" /\ process'["reviewer"].target = n) \/ db'[n] = db[n]
    <3>1. CASE r = "implementer"
      <4>1. process'["reviewer"] = process["reviewer"]
        BY <1>2, <1>3, <3>1
      <4> QED
        BY <1>1, <1>5, <3>1, <4>1
    <3>2. CASE r = "reviewer"
      BY <2>3, <3>2 DEF Daemon, Asks
    <3> QED
      BY <1>3, <3>1, <3>2
  <2>6. process'["reviewer"].pc = "loading" /\ process'["reviewer"].target = n => process["reviewer"] = process'["reviewer"]
    BY <1>2, <1>3, <2>3 DEF Daemon, Asks
  <2>7. WorksOn("reviewer", n)' => process'["reviewer"].phase \in {"review", "verification"}
    <3>1. CASE r = "implementer"
      BY <1>1, <1>2, <1>3, <3>1 DEF WorksOn
    <3>2. CASE r = "reviewer"
      BY <1>1, <1>5, <2>2, <2>3, <3>2 DEF WorksOn
    <3> QED
      BY <1>3, <3>1, <3>2
  <2> QED
    BY <1>1, <1>2, <2>4, <2>5, <2>6, <2>7
<1> QED
  BY <1>4, <1>5

LEMMA TurnKeeps == ASSUME RolesInv, NEW r \in Roles, Turn(r) PROVE RolesInv'
<1>1. RolesTypeOK'
  BY DEF Turn
<1> QED
  BY <1>1, TurnKeepsRows, TurnKeepsHands, TurnKeepsAttended, TurnKeepsTable, TurnKeepsCalm, TurnKeepsAlone
  DEF RolesInv

\* And it stores over nothing that the process does not know.
LEMMA TurnInOrder ==
  ASSUME RolesInv, NEW r \in Roles, Turn(r), NEW n \in PullRequests \ (shared' \cup left), db'[n] # db[n]
  PROVE  InOrder(db[n], db'[n])
<1>1. n \in Targets /\ n \notin shared
  BY DEF Turn, Targets
<1>2. n = process[r].target /\ process[r].pc \in Daemon
  BY <1>1 DEF Turn
<1>3. Fits(process[r], db[n])
  BY <1>1, <1>2 DEF RolesInv, TableInv, WorksOn
<1> QED
  BY <1>1, <1>2, <1>3 DEF Turn, PRTurn

-----------------------------------------------------------------------------
\* The selection, which gives a row to what has none.

\* What a label can make of a row, whatever the label is.
LEMMA LabelRow ==
  ASSUME NEW n \in Targets
  PROVE  /\ n \in Issues =>
              /\ ByLabel(n) \in {"none", "detected", "implementation_running", "failed"} \cup OfIssue!Ready \cup OfIssue!Failed
              /\ ByLabel(n) = "none" => label[n] = "pr_created"
         /\ n \in PullRequests => ByLabel(n) \in Follow("none")
<1>1. CASE n \in Issues
  <2>1. n \notin PullRequests
    BY <1>1, RolesNumbers
  <2>2. OfIssue!Classify(label[n]) \in OfIssue!Ready \cup OfIssue!Failed \cup {"failed", "implementation", "design"}
    BY DEF OfIssue!Classify
  <2>3. OfIssue!StateForPhase(OfIssue!Classify(label[n]))
          \in OfIssue!Ready \cup OfIssue!Failed \cup {"failed", "implementation_running", "detected"}
    BY <2>2 DEF OfIssue!StateForPhase, OfIssue!Ready, OfIssue!Failed
  <2>4. "none" \notin OfIssue!Ready \cup OfIssue!Failed \cup {"failed", "implementation_running", "detected"}
    BY DEF OfIssue!Ready, OfIssue!Failed
  <2> QED
    BY <2>1, <2>3, <2>4 DEF ByLabel
<1>2. CASE n \in PullRequests
  <2> DEFINE phase == OfPR!PhaseFor(label[n], Conflicts(n))
  <2>1. phase \in OfPR!Failed \cup {"conflict", "fix", "review_approved", "review"}
    BY DEF OfPR!PhaseFor, OfPR!Failed
  <2>2. ByLabel(n) = OfPR!StateForPhase(phase)
    BY <1>2 DEF ByLabel
  <2>3. OfPR!StateForPhase(phase) \in {"waiting", "pr_conflict", "review_approved", "pr_review_comment"} \cup OfPR!Failed
    BY <2>1 DEF OfPR!StateForPhase, OfPR!Failed
  <2> QED
    BY <1>2, <2>2, <2>3, RolesNumbers DEF Follow
<1> QED
  BY <1>1, <1>2 DEF Targets

LEMMA MigratedRow ==
  ASSUME NEW n \in Targets
  PROVE  /\ db[n] # "none" => Migrated(n) = db[n]
         /\ db[n] = "none" => Migrated(n) = ByLabel(n)
         /\ n \in PullRequests => Migrated(n) # "none"
<1>1. "none" \notin Follow("none")
  BY DEF Follow, OfPR!Failed
<1> QED
  BY <1>1, LabelRow DEF Migrated

\* The rows after a selection.
LEMMA SelectedRows ==
  ASSUME RolesInv, NEW listed, Migrate(listed)
  PROVE  /\ db' \in [Targets -> OfIssue!States \cup OfPR!States]
         /\ \A n \in Targets : db'[n] \in {db[n], Migrated(n)} /\ (db[n] # "none" => db'[n] = db[n])
                               /\ (n \in listed => db'[n] = Migrated(n))
<1>1. db' = [n \in Targets |-> IF n \in listed THEN Migrated(n) ELSE db[n]]
  BY DEF Migrate
<1>2. \A n \in Targets : Migrated(n) \in OfIssue!States \cup OfPR!States
  <2> SUFFICES ASSUME NEW n \in Targets PROVE Migrated(n) \in OfIssue!States \cup OfPR!States
    OBVIOUS
  <2>1. db[n] \in OfIssue!States \cup OfPR!States
    BY DEF RolesInv, RolesTypeOK
  <2>2. n \in Issues => ByLabel(n) \in OfIssue!States
    BY LabelRow DEF OfIssue!States, OfIssue!Running
  <2>3. n \in PullRequests => ByLabel(n) \in OfPR!States
    BY LabelRow DEF Follow, OfPR!States, OfPR!Decided
  <2> QED
    BY <2>1, <2>2, <2>3, MigratedRow DEF Targets
<1>3. \A n \in Targets : db[n] # "none" => Migrated(n) = db[n]
  BY MigratedRow
<1>4. db \in [Targets -> OfIssue!States \cup OfPR!States]
  BY DEF RolesInv, RolesTypeOK
<1> QED
  BY <1>1, <1>2, <1>3, <1>4

\* What a selection does: the process waits, or has a target that is its turn.
LEMMA Selected ==
  ASSUME RolesInv, NEW r \in Roles, Select(r)
  PROVE  \E listed, n :
           /\ Migrate(listed) /\ process[r].pc = "selecting"
           /\ UNCHANGED <<github, bounds, history>>
           /\ process' \in [Roles -> ProcessState] /\ \A o \in Roles \ {r} : process'[o] = process[o]
           /\ \/ process'[r].pc = "waiting" /\ process'[r].target = 0
              \/ /\ process'[r].pc = "loading" /\ process'[r].target = n /\ n \in listed /\ n \in Targets
                 /\ n \in Issues => r = "implementer"
                 /\ n \in PullRequests => RoleTarget(r, n)
                 /\ Migrated(n) # "none"
<1> DEFINE issues == IF r = "implementer" THEN IssueTargets ELSE {}
           eligible == IF issues # {} THEN issues ELSE PRTargets(r)
           ofIssues == IF r = "implementer" THEN {i \in Issues : IsOpen(i)} ELSE {}
           listed == IF issues # {} THEN ofIssues ELSE ofIssues \cup Listed
<1>1. /\ process[r].pc = "selecting" /\ Migrate(listed) /\ UNCHANGED <<github, bounds, history>>
      /\ \/ GoesTo(r, "waiting")
         \/ \E n \in eligible : process' = [process EXCEPT ![r].pc = "loading", ![r].target = n]
  BY DEF Select
<1>2. CASE GoesTo(r, "waiting")
  <2>1. process[r].target = 0
    BY <1>1 DEF RolesInv, HandInv
  <2>2. /\ process'[r].pc = "waiting" /\ process'[r].target = 0
        /\ process' \in [Roles -> ProcessState] /\ \A o \in Roles \ {r} : process'[o] = process[o]
    BY <1>2, <2>1, GoingTo DEF RolesInv, Places
  <2> HIDE DEF listed
  <2> QED
    BY <1>1, <2>2
<1>3. ASSUME NEW n \in eligible, process' = [process EXCEPT ![r].pc = "loading", ![r].target = n]
      PROVE  /\ process'[r].pc = "loading" /\ process'[r].target = n /\ n \in listed /\ n \in Targets
             /\ process' \in [Roles -> ProcessState] /\ \A o \in Roles \ {r} : process'[o] = process[o]
             /\ n \in Issues => r = "implementer"
             /\ n \in PullRequests => RoleTarget(r, n)
             /\ Migrated(n) # "none"
  <2>1. \/ n \in IssueTargets /\ r = "implementer" /\ issues # {}
        \/ n \in PRTargets(r) /\ issues = {}
    OBVIOUS
  <2>2. /\ n \in Targets /\ n \in listed /\ Migrated(n) # "none"
        /\ (n \in Issues => r = "implementer") /\ (n \in PullRequests => RoleTarget(r, n))
    BY <2>1, MigratedRow, RolesNumbers DEF IssueTargets, PRTargets, Listed, Targets
  <2>3. process \in [Roles -> ProcessState] /\ process[r] \in ProcessState
    BY DEF RolesInv, RolesTypeOK
  <2>4. process'[r] = [process[r] EXCEPT !.pc = "loading", !.target = n] /\ \A o \in Roles \ {r} : process'[o] = process[o]
    BY <1>3, <2>3
  <2>5. [process[r] EXCEPT !.pc = "loading", !.target = n] \in ProcessState
    BY <2>2, <2>3 DEF ProcessState, Places, Numbers
  <2>6. process'[r].pc = "loading" /\ process'[r].target = n
    BY <2>3, <2>4 DEF ProcessState
  <2>7. process' \in [Roles -> ProcessState]
    BY <1>3, <2>3, <2>5
  <2> QED
    BY <2>2, <2>4, <2>6, <2>7
<1> HIDE DEF listed, eligible
<1> QED
  BY <1>1, <1>2, <1>3

LEMMA SelectKeeps == ASSUME RolesInv, NEW r \in Roles, Select(r) PROVE RolesInv'
<1> DEFINE q == process'[r]
<1>1. PICK listed, n :
           /\ Migrate(listed) /\ process[r].pc = "selecting"
           /\ UNCHANGED <<github, bounds, history>>
           /\ process' \in [Roles -> ProcessState] /\ \A o \in Roles \ {r} : process'[o] = process[o]
           /\ \/ q.pc = "waiting" /\ q.target = 0
              \/ /\ q.pc = "loading" /\ q.target = n /\ n \in listed /\ n \in Targets
                 /\ n \in Issues => r = "implementer"
                 /\ n \in PullRequests => RoleTarget(r, n)
                 /\ Migrated(n) # "none"
  BY Selected
<1>2. /\ db' \in [Targets -> OfIssue!States \cup OfPR!States]
      /\ \A m \in Targets : db'[m] \in {db[m], Migrated(m)} /\ (db[m] # "none" => db'[m] = db[m])
                            /\ (m \in listed => db'[m] = Migrated(m))
  BY <1>1, SelectedRows
<1>3. /\ label' = label /\ pr' = pr /\ conflict' = conflict /\ answers' = answers /\ arisen' = arisen
      /\ left' = left /\ shared' = shared
  BY <1>1 DEF github, bounds, history
<1>4. q.pc \notin Daemon /\ process[r].pc \notin Daemon
  BY <1>1 DEF Daemon, Asks
<1>5. \A o \in Roles : process[o].target \in Targets \cup {0} /\ (process[o].target # 0 => db[process[o].target] # "none")
  BY ProcessOf DEF RolesInv, HandInv
<1>6. \A o \in Roles, m \in Targets : WorksOn(o, m)' => /\ o # r /\ process'[o] = process[o] /\ WorksOn(o, m)
                                                       /\ db'[m] = db[m]
  BY <1>1, <1>2, <1>4, <1>5, RolesNumbers DEF WorksOn
<1>7. RolesTypeOK'
  BY <1>1, <1>2, <1>3 DEF RolesInv, RolesTypeOK
<1>8. RowInv'
  <2>1. ASSUME NEW i \in Issues PROVE db'[i] \in OfIssue!States
    <3>1. i \in Targets /\ db[i] \in OfIssue!States
      BY DEF RolesInv, RowInv, Targets
    <3>2. db'[i] \in {db[i], ByLabel(i)}
      BY <1>2, <3>1, MigratedRow
    <3> QED
      BY <3>1, <3>2, LabelRow DEF OfIssue!States, OfIssue!Running
  <2>2. ASSUME NEW m \in PullRequests
        PROVE  /\ db'[m] \in OfPR!States \ {"failed"}
               /\ db'[m] = "completed" => pr[m] \in {"closed", "merged"}
    <3>1. m \in Targets /\ db[m] \in OfPR!States \ {"failed"} /\ (db[m] = "completed" => pr[m] \in {"closed", "merged"})
      BY DEF RolesInv, RowInv, Targets
    <3>2. db'[m] \in {db[m]} \cup Follow("none")
      BY <1>2, <3>1, MigratedRow, LabelRow
    <3> QED
      BY <3>1, <3>2 DEF Follow, OfPR!States, OfPR!Failed, OfPR!Decided
  <2> QED
    BY <1>3, <2>1, <2>2 DEF RowInv
<1>9. HandInv'
  <2> SUFFICES ASSUME NEW o \in Roles
               PROVE  /\ process'[o].target = 0 <=> process'[o].pc \in {"selecting", "waiting", "over"}
                      /\ process'[o].target # 0 => db'[process'[o].target] # "none"
                      /\ process'[o].target \in Issues => o = "implementer"
                      /\ PhaseOf(process'[o])
    BY DEF HandInv, PhaseOf
  <2>1. CASE o # r
    <3>1. process'[o] = process[o]
      BY <1>1, <2>1
    <3>2. process[o].target # 0 => db'[process[o].target] # "none"
      BY <1>2, <1>5
    <3> QED
      BY <3>1, <3>2 DEF RolesInv, HandInv
  <2>2. CASE o = r
    <3>1. q.target \in Targets => db'[q.target] # "none"
      BY <1>1, <1>2, RolesNumbers
    <3> QED
      BY <1>1, <1>4, <2>2, <3>1, RolesNumbers DEF PhaseOf, Targets
  <2> QED
    BY <2>1, <2>2
<1>10. AttendedInv'
  <2> SUFFICES ASSUME NEW m \in Targets, m \notin left', db'[m] \in UnderWay
               PROVE  \/ \E o \in Roles : process'[o].target = m /\ Acting(process'[o])
                      \/ FromLabel(m)'
    BY DEF AttendedInv, Acting
  <2>1. CASE db[m] # "none"
    <3>1. db'[m] = db[m] /\ m \notin left
      BY <1>2, <1>3, <2>1
    <3>2. \/ \E o \in Roles : process[o].target = m /\ Acting(process[o])
          \/ FromLabel(m)
      BY <3>1 DEF RolesInv, AttendedInv
    <3>3. \A o \in Roles : Acting(process[o]) => o # r
      BY <1>4 DEF Acting
    <3> QED
      BY <1>1, <1>3, <3>1, <3>2, <3>3, LabelStays
  <2>2. CASE db[m] = "none"
    <3>1. ({"none"} \cup Follow("none")) \cap UnderWay = {}
      BY DEF Follow, OfPR!Failed, UnderWay, OfIssue!Running, OfIssue!Ready, OfPR!Running, OfPR!Ready
    <3>2. db'[m] \in {"none", ByLabel(m)}
      BY <1>2, <2>2, MigratedRow
    <3>3. m \in Issues /\ db'[m] = ByLabel(m)
      BY <3>1, <3>2, LabelRow DEF Targets
    <3>4. ByLabel(m)' = ByLabel(m)
      BY <1>3, <3>3, RolesNumbers DEF ByLabel
    <3> QED
      BY <3>3, <3>4 DEF FromLabel
  <2> QED
    BY <2>1, <2>2
<1>11. TableInv'
  <2> SUFFICES ASSUME NEW o \in Roles, NEW m \in PullRequests \ shared', WorksOn(o, m)'
               PROVE  Suits(process'[o], db'[m]) /\ (m \notin left' => Fits(process'[o], db'[m]))
    BY DEF TableInv, Suits, Fits
  <2> QED
    BY <1>3, <1>6 DEF RolesInv, TableInv, Targets
<1>12. FixIsAlone'
  <2> SUFFICES ASSUME NEW m \in PullRequests \ shared', \A o \in Roles : WorksOn(o, m)' PROVE FALSE
    BY DEF FixIsAlone, Shared
  <2> QED
    BY <1>6 DEF Targets
<1>13. CalmInv'
  <2> SUFFICES ASSUME arisen' = 0, NEW m \in PullRequests
               PROVE  /\ conflict' = {}
                      /\ process'["implementer"].target = m => db'[m] \notin {"none"} \cup ForReview
                      /\ process'["reviewer"].pc = "loading" /\ process'["reviewer"].target = m => db'[m] \in ForReview
                      /\ WorksOn("reviewer", m)' => process'["reviewer"].phase \in {"review", "verification"}
    BY <1>3 DEF CalmInv, WorksOn, RolesInv
  <2>1. /\ conflict = {} /\ m \in Targets /\ m # 0
        /\ process["implementer"].target = m => db[m] \notin {"none"} \cup ForReview
        /\ process["reviewer"].pc = "loading" /\ process["reviewer"].target = m => db[m] \in ForReview
        /\ WorksOn("reviewer", m) => process["reviewer"].phase \in {"review", "verification"}
    BY <1>3, RolesNumbers DEF RolesInv, CalmInv, Targets
  <2>2. "implementer" \in Roles /\ "reviewer" \in Roles
    BY DEF Roles
  <2>3. ASSUME NEW o \in Roles, process'[o].target = m, o # r
        PROVE  process'[o] = process[o] /\ db'[m] = db[m]
    BY <1>1, <1>2, <1>5, <2>1, <2>3
  <2>4. ASSUME q.target = m
        PROVE  /\ db'[m] = Migrated(m) /\ RoleTarget(r, m) /\ ~Conflicts(m) /\ Migrated(m) # "none"
    BY <1>1, <1>2, <2>1, <2>4, MigratedRow DEF Conflicts
  <2>5. ASSUME q.target = m, r = "implementer" PROVE db'[m] \notin {"none"} \cup ForReview
    BY <2>4, <2>5 DEF RoleTarget, ForReview, OfPR!Failed
  <2>6. ASSUME q.target = m, r = "reviewer" PROVE db'[m] \in ForReview
    BY <2>4, <2>6 DEF RoleTarget, ForReview
  <2>7. WorksOn("reviewer", m)' => process'["reviewer"].phase \in {"review", "verification"}
    BY <1>6, <2>1, <2>2
  <2> QED
    BY <1>3, <2>1, <2>2, <2>3, <2>5, <2>6, <2>7
<1> QED
  BY <1>7, <1>8, <1>9, <1>10, <1>11, <1>12, <1>13 DEF RolesInv

LEMMA SelectInOrder ==
  ASSUME RolesInv, NEW r \in Roles, Select(r), NEW n \in PullRequests, db'[n] # db[n]
  PROVE  InOrder(db[n], db'[n])
<1>1. n \in Targets
  BY DEF Targets
<1>2. PICK listed : Migrate(listed)
  BY Selected
<1>3. db[n] = "none" /\ db'[n] \in Follow("none")
  BY <1>1, <1>2, SelectedRows, MigratedRow, LabelRow
<1> QED
  BY <1>3 DEF InOrder

-----------------------------------------------------------------------------
\* The load, which reads the row again.

\* The phase in which a pull request is loaded, by its state.
LEMMA LoadedPhase ==
  ASSUME NEW s \in OfPR!States \ {"none", "failed"}, NEW c \in BOOLEAN
  PROVE  LET loaded == OfPR!PhaseFor(s, c)  phase == OfPR!RetriedIn(loaded) IN
         /\ phase \in OfPR!Phases
         /\ phase = "review_approved" <=> loaded = "review_approved"
         /\ phase # "verification"
         /\ phase = "fix" => s \in OnFix
         /\ phase = "review" => s \notin OnFix
         /\ phase = "review_approved" => s = "review_approved"
         /\ phase = "review" => s \in Reviewable \cup OfPR!Running \cup OfPR!Ready \cup {"completed"}
         /\ ~c /\ s \in ForReview => phase = "review"
BY DEF OfPR!PhaseFor, OfPR!RetriedIn, OfPR!States, OfPR!Failed, OfPR!Running, OfPR!Ready, OfPR!Decided, OfPR!Phases,
   OfPR!Stages, OfPR!Works, OnFix, Reviewable, ForReview

\* What a load does to the process.
LEMMA Loaded ==
  ASSUME RolesInv, NEW r \in Roles, Load(r)
  PROVE  /\ process[r].pc = "loading" /\ process[r].target \in Targets
         /\ UNCHANGED <<db, github, bounds, left>>
         /\ shared' = shared \cup {n \in PullRequests : TakesAlong(n)'}
         /\ process' \in [Roles -> ProcessState] /\ \A o \in Roles \ {r} : process'[o] = process[o]
         /\ \/ process'[r].target = 0 /\ process'[r].pc = "over"
            \/ /\ process'[r].target = process[r].target /\ process'[r].pc \in Daemon \ {"running", "verified", "nothing"}
               /\ PhaseOf(process'[r])
               /\ process[r].target \in PullRequests =>
                    LET loaded == OfPR!PhaseFor(db[process[r].target], Conflicts(process[r].target)) IN
                    /\ process'[r].phase = OfPR!RetriedIn(loaded)
                    /\ process'[r].pc # "result"
                    /\ pr[process[r].target] = "open"
<1> DEFINE p == process[r] q == process'[r] t == process[r].target
<1>1. /\ p.pc = "loading" /\ UNCHANGED <<db, github, bounds, left>>
      /\ shared' = shared \cup {n \in PullRequests : TakesAlong(n)'}
      /\ t \in Issues => LoadIssue(r, t)
      /\ t \notin Issues => LoadPR(r, t)
  BY DEF Load
<1>2. t # 0 /\ t \in Targets /\ (t \in Issues <=> t \notin PullRequests) /\ db[t] # "none"
  BY <1>1, ProcessOf, RolesNumbers DEF RolesInv, HandInv, Targets
<1>3. process \in [Roles -> ProcessState] /\ p \in ProcessState
  BY DEF RolesInv, RolesTypeOK
<1>4. ASSUME NEW phase \in OfPR!Phases \cup OfIssue!Phases, NEW pc \in Daemon,
             process' = [process EXCEPT ![r].phase = phase, ![r].pc = pc]
      PROVE  /\ q.target = t /\ q.pc = pc /\ q.phase = phase
             /\ process' \in [Roles -> ProcessState] /\ \A o \in Roles \ {r} : process'[o] = process[o]
  <2>1. q = [p EXCEPT !.phase = phase, !.pc = pc] /\ \A o \in Roles \ {r} : process'[o] = process[o]
    BY <1>3, <1>4
  <2>2. [p EXCEPT !.phase = phase, !.pc = pc] \in ProcessState
    BY <1>3 DEF ProcessState, Places
  <2>3. process' \in [Roles -> ProcessState]
    BY <1>3, <1>4, <2>2
  <2> QED
    BY <1>3, <2>1, <2>3 DEF ProcessState
<1>5. CASE t \in Issues
  <2>1. PICK k : process' = [process EXCEPT ![r].phase = OfIssue!Stage(k),
                               ![r].pc = CASE k \in OfIssue!Failed -> "failed"
                                           [] k \in OfIssue!Ready -> "result"
                                           [] OTHER -> "starting"]
    BY <1>1, <1>5 DEF LoadIssue
  <2> DEFINE phase == OfIssue!Stage(k)
             pc == CASE k \in OfIssue!Failed -> "failed" [] k \in OfIssue!Ready -> "result" [] OTHER -> "starting"
  <2>2. phase \in OfIssue!Stages /\ phase \in OfPR!Phases \cup OfIssue!Phases
    BY DEF OfIssue!Stage, OfIssue!Stages, OfIssue!Phases
  <2>3. pc \in {"failed", "result", "starting"} /\ pc \in Daemon \ {"running", "verified", "nothing", "leave", "fix"}
    BY DEF Daemon, Asks
  <2>4. process' = [process EXCEPT ![r].phase = phase, ![r].pc = pc]
    BY <2>1
  <2> HIDE DEF phase, pc
  <2>5. /\ q.target = t /\ q.pc = pc /\ q.phase = phase
        /\ process' \in [Roles -> ProcessState] /\ \A o \in Roles \ {r} : process'[o] = process[o]
    BY <1>4, <2>2, <2>3, <2>4
  <2>6. PhaseOf(q)
    BY <1>2, <1>5, <2>2, <2>3, <2>5 DEF PhaseOf
  <2> QED
    BY <1>1, <1>2, <1>5, <2>3, <2>5, <2>6
<1>6. CASE t \in PullRequests /\ pr[t] # "open"
  <2>1. Dies(r)
    BY <1>1, <1>2, <1>6 DEF LoadPR
  <2>2. q.target = 0 /\ q.pc = "over"
    BY <1>3, <2>1 DEF Dies, Selecting
  <2> QED
    BY <1>1, <1>2, <2>1, <2>2, GoingAway DEF RolesInv
<1>7. CASE t \in PullRequests /\ pr[t] = "open"
  <2> DEFINE loaded == OfPR!PhaseFor(db[t], Conflicts(t))
             phase == OfPR!RetriedIn(loaded)
             pc == CASE loaded \in OfPR!Failed -> "failed" [] loaded = "fix" -> "fix"
                     [] loaded = "review_approved" -> "leave" [] OTHER -> "starting"
  <2>1. process' = [process EXCEPT ![r].phase = phase, ![r].pc = pc]
    BY <1>1, <1>2, <1>7 DEF LoadPR
  <2>2. db[t] \in OfPR!States \ {"none", "failed"} /\ Conflicts(t) \in BOOLEAN
    BY <1>2, <1>7 DEF RolesInv, RowInv, Conflicts
  <2>3. phase \in OfPR!Phases /\ (phase = "review_approved" <=> loaded = "review_approved") /\ phase # "verification"
    BY <2>2, LoadedPhase
  <2>4. pc \in {"failed", "fix", "leave", "starting"} /\ (pc = "leave" <=> loaded = "review_approved")
    BY DEF OfPR!Failed
  <2>5. phase \in OfPR!Phases \cup OfIssue!Phases /\ pc \in Daemon \ {"running", "verified", "nothing"} /\ pc # "result"
    BY <2>3, <2>4 DEF Daemon, Asks
  <2>6. phase = OfPR!RetriedIn(OfPR!PhaseFor(db[t], Conflicts(t)))
    OBVIOUS
  <2>7. phase = "review_approved" <=> pc = "leave"
    BY <2>3, <2>4
  <2> HIDE DEF loaded, phase, pc
  <2>8. /\ q.target = t /\ q.pc = pc /\ q.phase = phase
        /\ process' \in [Roles -> ProcessState] /\ \A o \in Roles \ {r} : process'[o] = process[o]
    BY <1>4, <2>1, <2>5
  <2>9. PhaseOf(q)
    BY <1>2, <1>7, <2>3, <2>5, <2>7, <2>8 DEF PhaseOf
  <2> QED
    BY <1>1, <1>2, <1>7, <2>5, <2>6, <2>8, <2>9
<1> QED
  BY <1>2, <1>5, <1>6, <1>7 DEF Targets

\* A pull request that is in two hands after a load was taken along.
LEMMA LoadIsAlone == ASSUME RolesInv, NEW r \in Roles, Load(r) PROVE FixIsAlone'
<1> DEFINE p == process[r] q == process'[r] t == process[r].target
<1> SUFFICES ASSUME NEW n \in PullRequests \ shared', \A o \in Roles : WorksOn(o, n)' PROVE FALSE
  BY DEF FixIsAlone, Shared
<1>1. /\ shared' = shared \cup {m \in PullRequests : TakesAlong(m)'}
      /\ \A o \in Roles \ {r} : process'[o] = process[o]
      /\ db' = db /\ conflict' = conflict /\ arisen' = arisen
  BY Loaded DEF github, bounds
<1>2. n \notin shared /\ ~TakesAlong(n)'
  BY <1>1
<1>3. n # 0 /\ n \in Targets /\ q.target = n /\ q.pc \in Daemon
  BY RolesNumbers DEF WorksOn, Targets
<1>4. /\ t = n /\ PhaseOf(q) /\ q.phase = OfPR!RetriedIn(OfPR!PhaseFor(db[n], Conflicts(n)))
      /\ p.pc = "loading" /\ db[n] \in OfPR!States \ {"none", "failed"}
  <2>1. t = n
    BY <1>3, Loaded DEF WorksOn
  <2>2. db[n] # "none"
    BY <1>3, <2>1 DEF RolesInv, HandInv
  <2> QED
    BY <1>3, <2>1, <2>2, Loaded DEF RolesInv, RowInv
<1>5. Suits(q, db[n])
  <2>1. PICK c \in BOOLEAN : q.phase = OfPR!RetriedIn(OfPR!PhaseFor(db[n], c))
    BY <1>4 DEF Conflicts
  <2>2. /\ q.phase = "fix" => db[n] \in OnFix
        /\ q.phase = "review" => db[n] \notin OnFix
        /\ q.phase = "review_approved" => db[n] = "review_approved"
        /\ q.phase # "verification"
    BY <1>4, <2>1, LoadedPhase
  <2> QED
    BY <2>2 DEF Suits, OnFix
<1>6. \A o \in Roles : Suits(process'[o], db[n]) /\ process'[o].phase \in OfPR!Phases
  <2> SUFFICES ASSUME NEW o \in Roles PROVE Suits(process'[o], db[n]) /\ process'[o].phase \in OfPR!Phases
    OBVIOUS
  <2>1. CASE o = r
    BY <1>3, <1>4, <1>5, <2>1 DEF PhaseOf
  <2>2. CASE o # r
    <3>1. process'[o] = process[o] /\ WorksOn(o, n)
      BY <1>1, <2>2 DEF WorksOn
    <3> QED
      BY <1>2, <3>1 DEF RolesInv, TableInv, HandInv, PhaseOf, WorksOn
  <2> QED
    BY <2>1, <2>2
<1>7. "implementer" \in Roles /\ "reviewer" \in Roles
  BY DEF Roles
<1>8. /\ \A o \in Roles : process'[o].phase # "conflict"
      /\ process'["implementer"].phase = "fix"
      /\ ~(process'["reviewer"].phase = "fix" /\ arisen > 0)
  BY <1>1, <1>2 DEF TakesAlong, Shared
<1>9. db[n] \in OnFix /\ process'["reviewer"].phase = "fix"
  BY <1>6, <1>7, <1>8 DEF Suits, OfPR!Phases, OfPR!Stages, OfPR!Works
<1>10. arisen = 0
  BY <1>8, <1>9 DEF RolesInv, RolesTypeOK
<1>11. CASE r = "reviewer"
  <2>1. db[n] \in ForReview
    BY <1>4, <1>10, <1>11 DEF RolesInv, CalmInv
  <2> QED
    BY <1>9, <2>1 DEF ForReview, OnFix
<1>12. CASE r # "reviewer"
  <2>1. process'["reviewer"] = process["reviewer"] /\ WorksOn("reviewer", n)
    BY <1>1, <1>7, <1>12 DEF WorksOn
  <2> QED
    BY <1>9, <1>10, <2>1 DEF RolesInv, CalmInv
<1> QED
  BY <1>11, <1>12

LEMMA LoadKeeps == ASSUME RolesInv, NEW r \in Roles, Load(r) PROVE RolesInv'
<1> DEFINE p == process[r] q == process'[r] t == process[r].target
<1>1. /\ p.pc = "loading" /\ t \in Targets /\ db' = db
      /\ label' = label /\ pr' = pr /\ conflict' = conflict /\ answers' = answers /\ arisen' = arisen /\ left' = left
      /\ shared' = shared \cup {n \in PullRequests : TakesAlong(n)'}
      /\ process' \in [Roles -> ProcessState] /\ \A o \in Roles \ {r} : process'[o] = process[o]
  BY Loaded DEF github, bounds
<1>2. \/ q.target = 0 /\ q.pc = "over"
      \/ /\ q.target = t /\ q.pc \in Daemon \ {"running", "verified", "nothing"} /\ PhaseOf(q)
         /\ t \in PullRequests =>
              /\ q.pc # "result" /\ pr[t] = "open"
              /\ \E c \in BOOLEAN : /\ c = Conflicts(t)
                                    /\ q.phase = OfPR!RetriedIn(OfPR!PhaseFor(db[t], c))
  BY Loaded DEF Conflicts
<1>3. RolesTypeOK'
  BY <1>1 DEF RolesInv, RolesTypeOK
<1>4. RowInv'
  BY <1>1 DEF RolesInv, RowInv
<1>5. HandInv'
  <2> SUFFICES ASSUME NEW o \in Roles
               PROVE  /\ process'[o].target = 0 <=> process'[o].pc \in {"selecting", "waiting", "over"}
                      /\ process'[o].target # 0 => db'[process'[o].target] # "none"
                      /\ process'[o].target \in Issues => o = "implementer"
                      /\ PhaseOf(process'[o])
    BY DEF HandInv, PhaseOf
  <2>1. CASE o # r
    BY <1>1, <2>1 DEF RolesInv, HandInv
  <2>2. CASE o = r
    <3>1. t # 0 /\ db[t] # "none" /\ (t \in Issues => r = "implementer")
      BY <1>1, RolesNumbers DEF RolesInv, HandInv
    <3> QED
      BY <1>1, <1>2, <2>2, <3>1, RolesNumbers DEF PhaseOf, Daemon, Asks, Targets
  <2> QED
    BY <2>1, <2>2
<1>6. AttendedInv'
  <2> SUFFICES ASSUME NEW m \in Targets, m \notin left', db'[m] \in UnderWay
               PROVE  \/ \E o \in Roles : process'[o].target = m /\ Acting(process'[o])
                      \/ FromLabel(m)'
    BY DEF AttendedInv, Acting
  <2>1. \/ \E o \in Roles : process[o].target = m /\ Acting(process[o])
        \/ FromLabel(m)
    BY <1>1 DEF RolesInv, AttendedInv
  <2>2. \A o \in Roles : Acting(process[o]) => o # r
    BY <1>1 DEF Acting, Daemon, Asks
  <2> QED
    BY <1>1, <2>1, <2>2, LabelStays
<1>7. FixIsAlone'
  BY LoadIsAlone
<1>8. TableInv'
  <2> SUFFICES ASSUME NEW o \in Roles, NEW n \in PullRequests \ shared', WorksOn(o, n)'
               PROVE  Suits(process'[o], db'[n]) /\ (n \notin left' => Fits(process'[o], db'[n]))
    BY DEF TableInv, Suits, Fits
  <2>1. n \notin shared /\ n \in Targets /\ n # 0 /\ process'[o].target = n /\ process'[o].pc \in Daemon
    BY <1>1, RolesNumbers DEF Targets, WorksOn
  <2>2. CASE o # r
    <3>1. process'[o] = process[o] /\ WorksOn(o, n)
      BY <1>1, <2>1, <2>2 DEF WorksOn
    <3> QED
      BY <1>1, <2>1, <3>1 DEF RolesInv, TableInv
  <2>3. CASE o = r
    <3>1. t = n /\ q.pc \in Daemon \ {"running", "result"} /\ pr[n] = "open"
      BY <1>2, <2>1, <2>3
    <3>2. PICK c \in BOOLEAN : q.phase = OfPR!RetriedIn(OfPR!PhaseFor(db[n], c))
      BY <1>2, <2>1, <2>3, <3>1
    <3>3. db[n] \in OfPR!States \ {"none", "failed", "completed"}
      BY <2>1, <3>1 DEF RolesInv, HandInv, RowInv
    <3>4. /\ q.phase \in OfPR!Phases \ {"verification"}
          /\ q.phase = "fix" => db[n] \in OnFix
          /\ q.phase = "review" => db[n] \notin OnFix
          /\ q.phase = "review_approved" => db[n] = "review_approved"
          /\ q.phase = "review" => db[n] \in Reviewable \cup OfPR!Running \cup OfPR!Ready
      BY <3>2, <3>3, LoadedPhase
    <3>5. Suits(q, db[n])
      BY <3>4 DEF Suits, OnFix
    <3>6. ASSUME n \notin left PROVE db[n] \notin UnderWay
      <4>1. SUFFICES ASSUME db[n] \in UnderWay PROVE FALSE
        OBVIOUS
      <4>2. PICK w \in Roles : process[w].target = n /\ Acting(process[w])
        BY <2>1, <3>6, <4>1, RolesNumbers DEF RolesInv, AttendedInv, FromLabel
      <4>3. w # r /\ process'[w] = process[w]
        BY <1>1, <4>2 DEF Acting, Daemon, Asks
      <4>4. \A v \in Roles : WorksOn(v, n)'
        BY <2>1, <2>3, <4>2, <4>3 DEF WorksOn, Acting, Roles
      <4> QED
        BY <1>7, <4>4 DEF FixIsAlone, Shared
    <3>7. ASSUME n \notin left PROVE Fits(q, db[n])
      <4>1. db[n] \notin {"review_running", "review_fix_running", "pr_conflict_running", "pr_conflict_ready"}
        BY <3>6, <3>7 DEF UnderWay, OfPR!Running, OfPR!Ready
      <4>2. q.phase = "review" => db[n] \in Reviewable
        BY <3>4, <4>1 DEF Reviewable, OfPR!Running, OfPR!Ready, OnFix
      <4> QED
        BY <3>1, <3>3, <3>4, <4>1, <4>2 DEF Fits
    <3> QED
      BY <1>1, <2>3, <3>1, <3>5, <3>7
  <2> QED
    BY <2>2, <2>3
<1>9. CalmInv'
  <2> SUFFICES ASSUME arisen' = 0, NEW n \in PullRequests
               PROVE  /\ conflict' = {}
                      /\ process'["implementer"].target = n => db'[n] \notin {"none"} \cup ForReview
                      /\ process'["reviewer"].pc = "loading" /\ process'["reviewer"].target = n => db'[n] \in ForReview
                      /\ WorksOn("reviewer", n)' => process'["reviewer"].phase \in {"review", "verification"}
    BY <1>1 DEF CalmInv, WorksOn, RolesInv
  <2>1. /\ conflict = {} /\ n \in Targets /\ n # 0
        /\ process["implementer"].target = n => db[n] \notin {"none"} \cup ForReview
        /\ process["reviewer"].pc = "loading" /\ process["reviewer"].target = n => db[n] \in ForReview
        /\ WorksOn("reviewer", n) => process["reviewer"].phase \in {"review", "verification"}
    BY <1>1, RolesNumbers DEF RolesInv, CalmInv, Targets
  <2>2. "implementer" \in Roles /\ "reviewer" \in Roles
    BY DEF Roles
  <2>3. \A o \in Roles : process'[o].target = n => process[o].target = n
    BY <1>1, <1>2, <2>1
  <2>4. q.pc # "loading"
    BY <1>2 DEF Daemon, Asks
  <2>5. WorksOn("reviewer", n)' => process'["reviewer"].phase \in {"review", "verification"}
    <3>1. CASE r # "reviewer"
      BY <1>1, <2>1, <2>2, <3>1 DEF WorksOn
    <3>2. CASE r = "reviewer" /\ q.target = n
      <4>1. t = n /\ db[n] \in ForReview /\ ~Conflicts(n)
        BY <1>1, <1>2, <2>1, <3>2 DEF Conflicts
      <4>2. q.phase = OfPR!RetriedIn(OfPR!PhaseFor(db[n], FALSE))
        BY <1>2, <2>1, <3>2, <4>1
      <4>3. db[n] \in OfPR!States \ {"none", "failed"}
        BY <4>1 DEF ForReview, OfPR!States, OfPR!Decided
      <4> QED
        BY <3>2, <4>1, <4>2, <4>3, LoadedPhase
    <3> QED
      BY <3>1, <3>2 DEF WorksOn
  <2> QED
    BY <1>1, <2>1, <2>2, <2>3, <2>4, <2>5
<1> QED
  BY <1>3, <1>4, <1>5, <1>6, <1>7, <1>8, <1>9 DEF RolesInv

-----------------------------------------------------------------------------
\* Beside the processes: the operator's set-status, and GitHub.

LEMMA SetStatusKeeps == ASSUME RolesInv, NEW n \in Targets, SetStatus(n) PROVE RolesInv'
<1>1. PICK u : /\ Store(n, u) /\ \A r \in Roles : process[r].target # n
               /\ \/ n \in Issues /\ u \in {"detected", "design_approved"}
                  \/ n \in PullRequests /\ u \in {"waiting", "pr_review_comment"}
               /\ answers < MaxAnswer /\ answers' = answers + 1 /\ left' = left \ {n}
               /\ UNCHANGED <<github, process, arisen, shared>>
  BY DEF SetStatus
<1>2. u \in OfIssue!States \cup OfPR!States /\ u # "none" /\ u \notin UnderWay /\ u \notin {"failed", "completed"}
  BY <1>1 DEF OfIssue!States, OfPR!States, OfPR!Decided, UnderWay, OfIssue!Running, OfIssue!Ready, OfPR!Running, OfPR!Ready
<1>3. /\ db' \in [Targets -> OfIssue!States \cup OfPR!States] /\ db'[n] = u
      /\ \A m \in Targets \ {n} : db'[m] = db[m]
  BY <1>1, <1>2, Storing DEF RolesInv
<1>4. /\ label' = label /\ pr' = pr /\ conflict' = conflict /\ process' = process /\ arisen' = arisen /\ shared' = shared
      /\ answers' \in 0 .. MaxAnswer
  BY <1>1, RolesBounds DEF github, RolesInv, RolesTypeOK
<1>5. \A r \in Roles : process[r].target \in Targets \cup {0} /\ process[r].target # n
  BY <1>1, ProcessOf DEF RolesInv
<1>6. RolesTypeOK'
  BY <1>1, <1>3, <1>4 DEF RolesInv, RolesTypeOK
<1>7. RowInv'
  <2>1. ASSUME NEW i \in Issues PROVE db'[i] \in OfIssue!States
    <3>1. CASE i = n
      BY <1>1, <1>3, <3>1, RolesNumbers DEF OfIssue!States
    <3>2. CASE i # n
      BY <1>3, <3>2 DEF RolesInv, RowInv, Targets
    <3> QED
      BY <3>1, <3>2
  <2>2. ASSUME NEW m \in PullRequests
        PROVE  db'[m] \in OfPR!States \ {"failed"} /\ (db'[m] = "completed" => pr[m] \in {"closed", "merged"})
    <3>1. CASE m = n
      BY <1>1, <1>3, <3>1, RolesNumbers DEF OfPR!States, OfPR!Decided
    <3>2. CASE m # n
      BY <1>3, <3>2 DEF RolesInv, RowInv, Targets
    <3> QED
      BY <3>1, <3>2
  <2> QED
    BY <1>4, <2>1, <2>2 DEF RowInv
<1>8. HandInv'
  <2>1. \A r \in Roles : process[r].target # 0 => db'[process[r].target] = db[process[r].target]
    BY <1>3, <1>5
  <2> QED
    BY <1>4, <2>1 DEF RolesInv, HandInv, PhaseOf
<1>9. AttendedInv'
  <2>1. \A m \in Targets : m \notin left' /\ db'[m] \in UnderWay => m # n /\ m \notin left /\ db'[m] = db[m]
    BY <1>1, <1>2, <1>3
  <2>2. \A m \in Targets : m \notin left' /\ db'[m] \in UnderWay /\ FromLabel(m) => FromLabel(m)'
    BY <1>4, <2>1, LabelStays
  <2> QED
    BY <1>4, <2>1, <2>2 DEF RolesInv, AttendedInv, Acting
<1>10. \A r \in Roles, m \in PullRequests : process[r].target = m => m # n /\ db'[m] = db[m] /\ (m \in left' <=> m \in left)
  BY <1>1, <1>3 DEF Targets
<1>11. TableInv'
  <2> SUFFICES ASSUME NEW r \in Roles, NEW m \in PullRequests \ shared', WorksOn(r, m)'
               PROVE  Suits(process'[r], db'[m]) /\ (m \notin left' => Fits(process'[r], db'[m]))
    BY DEF TableInv, Suits, Fits
  <2>1. WorksOn(r, m) /\ process'[r] = process[r] /\ process[r].target = m /\ m \in PullRequests \ shared
    BY <1>4 DEF WorksOn
  <2> QED
    BY <1>10, <2>1 DEF RolesInv, TableInv
<1>12. CalmInv'
  <2> SUFFICES ASSUME arisen' = 0, NEW m \in PullRequests
               PROVE  /\ conflict' = {}
                      /\ process'["implementer"].target = m => db'[m] \notin {"none"} \cup ForReview
                      /\ process'["reviewer"].pc = "loading" /\ process'["reviewer"].target = m => db'[m] \in ForReview
                      /\ WorksOn("reviewer", m)' => process'["reviewer"].phase \in {"review", "verification"}
    BY <1>4 DEF CalmInv, WorksOn, RolesInv
  <2> QED
    BY <1>4, <1>10 DEF RolesInv, CalmInv, WorksOn, Roles
<1>13. FixIsAlone'
  BY <1>4 DEF RolesInv, FixIsAlone, Shared, WorksOn
<1> QED
  BY <1>6, <1>7, <1>8, <1>9, <1>11, <1>12, <1>13 DEF RolesInv

LEMMA GitHubKeeps ==
  ASSUME RolesInv, NEW n \in PullRequests, ConflictArises(n) \/ ConflictGoes(n) \/ TheyClose(n)
  PROVE  RolesInv'
<1>1. UNCHANGED <<db, label, process, answers, history>>
  BY DEF ConflictArises, ConflictGoes, TheyClose, bounds
<1>2. /\ conflict' \subseteq PullRequests /\ arisen' \in 0 .. MaxConflict
      /\ arisen' = 0 => arisen = 0 /\ conflict' \subseteq conflict
  BY RolesBounds DEF ConflictArises, ConflictGoes, TheyClose, bounds, RolesInv, RolesTypeOK
<1>3. /\ pr' \in [PullRequests -> {"absent", "open", "closed", "merged"}]
      /\ \A m \in PullRequests : pr[m] \in {"closed", "merged"} => pr'[m] \in {"closed", "merged"}
  BY DEF ConflictArises, ConflictGoes, TheyClose, RolesInv, RolesTypeOK
<1>4. RolesTypeOK'
  BY <1>1, <1>2, <1>3 DEF RolesInv, RolesTypeOK, history
<1>5. RowInv' /\ HandInv'
  BY <1>1, <1>3 DEF RolesInv, RowInv, HandInv, PhaseOf
<1>6. AttendedInv'
  <2>1. \A m \in Targets : FromLabel(m) => FromLabel(m)'
    BY <1>1, LabelStays
  <2> QED
    BY <1>1, <2>1 DEF RolesInv, AttendedInv, Acting, history
<1>7. TableInv' /\ FixIsAlone'
  BY <1>1 DEF RolesInv, TableInv, FixIsAlone, Shared, WorksOn, Suits, Fits, history
<1>8. CalmInv'
  BY <1>1, <1>2 DEF RolesInv, CalmInv, WorksOn
<1> QED
  BY <1>4, <1>5, <1>6, <1>7, <1>8 DEF RolesInv

-----------------------------------------------------------------------------
\* All steps together.

LEMMA RolesStart == RolesInit => RolesInv
<1> SUFFICES ASSUME RolesInit PROVE RolesInv
  OBVIOUS
<1>1. /\ \A n \in Targets : db[n] = "none"
      /\ \A r \in Roles : process[r].target = 0 /\ process[r].pc = "selecting"
      /\ conflict = {} /\ left = {} /\ shared = {}
  BY DEF RolesInit, Selecting
<1>2. Selecting \in ProcessState
  BY DEF Selecting, ProcessState, Places, Numbers, OfPR!Phases, OfPR!Stages, OfPR!Works
<1>3. RolesTypeOK
  BY <1>2, RolesBounds DEF RolesInit, RolesTypeOK, OfIssue!States
<1>4. RowInv
  BY <1>1 DEF RowInv, Targets, OfIssue!States, OfPR!States
<1>5. HandInv
  BY <1>1, RolesNumbers DEF HandInv, PhaseOf, Daemon, Asks, Targets
<1>6. AttendedInv
  BY <1>1 DEF AttendedInv, UnderWay, OfIssue!Running, OfIssue!Ready, OfPR!Running, OfPR!Ready
<1>7. \A r \in Roles, n \in Targets : ~WorksOn(r, n) /\ process[r].target # n
  BY <1>1, RolesNumbers DEF WorksOn
<1>8. TableInv /\ FixIsAlone
  BY <1>7 DEF TableInv, FixIsAlone, Shared, Targets, Roles
<1>9. CalmInv
  BY <1>1, <1>7 DEF CalmInv, Targets, Roles
<1> QED
  BY <1>3, <1>4, <1>5, <1>6, <1>8, <1>9 DEF RolesInv

\* Every step is a selection, a load, a turn, or not of a process.
LEMMA RolesSteps ==
  ASSUME RolesInv, RolesNext
  PROVE  \/ \E r \in Roles : Select(r) \/ Load(r) \/ Turn(r)
         \/ \E n \in Targets : SetStatus(n)
         \/ \E n \in PullRequests : ConflictArises(n) \/ ConflictGoes(n) \/ TheyClose(n)
<1>1. ASSUME NEW r \in Roles, Step(r) PROVE Select(r) \/ Load(r) \/ Turn(r)
  BY <1>1, LeaveTurns, StartTurns, StartFailsTurns, FinishTurns, FinishFailedTurns DEF Step
<1>2. ASSUME NEW r \in Roles, Operator(r) PROVE Turn(r)
  BY <1>2, ApproveDesignTurns, ApproveImplementationTurns, ApprovePRTurns, ApproveVerifiedTurns, RequestChangesTurns,
     StartFixTurns, WorkAgainTurns, LeaveTurns, ReviewAgainTurns, CompleteTurns, CancelTurns DEF Operator
<1>3. ASSUME NEW r \in Roles, Crash(r) PROVE Turn(r)
  BY <1>3, LeaveTurns
<1> QED
  BY <1>1, <1>2, <1>3 DEF RolesNext

LEMMA RolesInductive == RolesSpec => []RolesInv
<1>1. RolesInv /\ [RolesNext]_rolesVars => RolesInv'
  <2> SUFFICES ASSUME RolesInv, [RolesNext]_rolesVars PROVE RolesInv'
    OBVIOUS
  <2>1. CASE RolesNext
    BY <2>1, RolesSteps, SelectKeeps, LoadKeeps, TurnKeeps, SetStatusKeeps, GitHubKeeps
  <2>2. CASE UNCHANGED rolesVars
    <3>1. UNCHANGED <<db, label, pr, conflict, process, answers, arisen, left, shared>>
      BY <2>2 DEF rolesVars, github, bounds, history
    <3>2. RolesTypeOK' /\ RowInv' /\ HandInv'
      BY <3>1 DEF RolesInv, RolesTypeOK, RowInv, HandInv, PhaseOf
    <3>3. AttendedInv'
      <4>1. \A m \in Targets : FromLabel(m) => FromLabel(m)'
        BY <3>1, LabelStays
      <4> QED
        BY <3>1, <4>1 DEF RolesInv, AttendedInv, Acting
    <3>4. TableInv' /\ CalmInv' /\ FixIsAlone'
      BY <3>1 DEF RolesInv, TableInv, CalmInv, FixIsAlone, Shared, WorksOn, Suits, Fits
    <3> QED
      BY <3>2, <3>3, <3>4 DEF RolesInv
  <2> QED
    BY <2>1, <2>2
<1> QED
  BY <1>1, RolesStart, PTL DEF RolesSpec

\* What no process works on is decided, or one of the roles takes it.
LEMMA NobodysWorkFollows == RolesInv => NobodysWork
<1> SUFFICES ASSUME RolesInv PROVE NobodysWork
  OBVIOUS
<1>1. ASSUME NEW n \in Targets \ left, ~InHand(n), db[n] \in UnderWay
      PROVE  FromLabel(n)
  BY <1>1 DEF RolesInv, AttendedInv, InHand
<1>2. ASSUME NEW i \in Issues \ left, ~InHand(i), IsOpen(i)
      PROVE  i \in IssueTargets \/ OutOfReach(i)
  <2>1. i \in Targets \ left /\ OfIssue!Running \cup OfIssue!Ready \subseteq UnderWay
    BY DEF Targets, UnderWay
  <2>2. CASE db[i] = "none"
    <3>1. Migrated(i) = ByLabel(i) /\ (ByLabel(i) = "none" => label[i] = "pr_created")
      BY <2>1, <2>2, MigratedRow, LabelRow
    <3> QED
      BY <1>2, <2>2, <3>1 DEF IssueTargets, OutOfReach
  <2>3. CASE db[i] # "none" /\ db[i] \in UnderWay
    <3>1. db[i] = ByLabel(i)
      BY <1>1, <1>2, <2>1, <2>3 DEF FromLabel
    <3>2. ByLabel(i) \in OfIssue!Running \cup OfIssue!Ready
      BY <2>1, <2>3, <3>1, LabelRow
      DEF UnderWay, OfIssue!Running, OfIssue!Ready, OfIssue!Failed, OfPR!Running, OfPR!Ready
    <3> QED
      BY <3>1, <3>2 DEF OutOfReach
  <2>4. CASE db[i] # "none" /\ db[i] \notin UnderWay
    <3>1. Migrated(i) = db[i]
      BY <2>1, <2>4, MigratedRow
    <3> QED
      BY <1>2, <2>1, <2>4, <3>1 DEF IssueTargets
  <2> QED
    BY <2>2, <2>3, <2>4
<1>3. ASSUME NEW n \in PullRequests \ left, ~InHand(n), pr[n] = "open"
      PROVE  \/ \E r \in Roles : RoleTarget(r, n)
             \/ Migrated(n) \in {"review_approved", "pr_conflict", "pr_conflict_resolved"}
  <2>1. n \in Targets \ left /\ n \notin Issues
    BY RolesNumbers DEF Targets
  <2>2. db[n] \notin UnderWay
    BY <1>1, <1>3, <2>1 DEF FromLabel
  <2>3. db[n] \in OfPR!States \ {"failed", "completed"}
    BY <1>3 DEF RolesInv, RowInv
  <2>4. "implementer" \in Roles /\ "reviewer" \in Roles
    BY DEF Roles
  <2>5. CASE Conflicts(n)
    BY <2>4, <2>5 DEF RoleTarget
  <2>6. CASE ~Conflicts(n)
    <3> DEFINE known == ForReview \cup OfPR!Failed
                        \cup {"pr_review_comment", "review_approved", "pr_conflict", "pr_conflict_resolved"}
    <3>1. ASSUME db[n] = "none" PROVE Migrated(n) \in known
      <4>1. Migrated(n) \in Follow("none")
        BY <1>3, <2>1, <3>1, MigratedRow, LabelRow
      <4> QED
        BY <4>1 DEF Follow, ForReview
    <3>2. ASSUME db[n] # "none" PROVE Migrated(n) \in known
      <4>1. Migrated(n) = db[n]
        BY <2>1, <3>2, MigratedRow
      <4> QED
        BY <2>2, <2>3, <3>2, <4>1 DEF OfPR!States, OfPR!Decided, UnderWay, OfPR!Running, OfPR!Ready, ForReview
    <3>3. Migrated(n) \in known
      BY <3>1, <3>2
    <3> QED
      BY <2>4, <2>6, <3>3 DEF RoleTarget, ForReview
  <2> QED
    BY <2>5, <2>6
<1> QED
  BY <1>2, <1>3 DEF NobodysWork

\* Nothing falls between the roles, whatever the numbers of issues and pull requests are:
\* what is open and in nobody's hand is decided or due to one of them, with the exceptions
\* that NobodysWork names.
THEOREM RolesHold == RolesSpec => []RolesInvariant
<1>1. RolesInv => RolesInvariant
  BY NobodysWorkFollows DEF RolesInv, RolesInvariant
<1> QED
  BY <1>1, RolesInductive, PTL

\* A pull request is in one hand only, though nothing but its row tells the processes of
\* each other, unless they came together in one of the ways of TakesAlong.
THEOREM FixHoldsAlone == RolesSpec => []FixIsAlone
<1>1. RolesInv => FixIsAlone
  BY DEF RolesInv
<1> QED
  BY <1>1, RolesInductive, PTL

\* Each process stores what follows the state it knows of, and no state is stored over
\* that another process has stored meanwhile.
THEOREM OrderHolds == RolesSpec => StatesInOrder
<1> DEFINE Stores == \A n \in PullRequests \ (shared' \cup left) :
                       db'[n] # db[n] /\ process' # process
                         => \/ db'[n] \in Follow(db[n])
                            \/ db'[n] = "pr_conflict_running" /\ db[n] \notin {"review_running", "review_fix_running"}
<1>1. RolesInv /\ [RolesNext]_rolesVars => [Stores]_rolesVars
  <2> SUFFICES ASSUME RolesInv, RolesNext, NEW n \in PullRequests \ (shared' \cup left),
                      db'[n] # db[n], process' # process
               PROVE  InOrder(db[n], db'[n])
    BY DEF InOrder
  <2>1. ASSUME NEW r \in Roles, Load(r) PROVE FALSE
    BY <2>1, Loaded
  <2>2. ASSUME NEW m \in Targets, SetStatus(m) PROVE FALSE
    BY <2>2 DEF SetStatus
  <2>3. ASSUME NEW m \in PullRequests, ConflictArises(m) \/ ConflictGoes(m) \/ TheyClose(m) PROVE FALSE
    BY <2>3 DEF ConflictArises, ConflictGoes, TheyClose
  <2>4. PICK r \in Roles : Select(r) \/ Turn(r)
    BY <2>1, <2>2, <2>3, RolesSteps
  <2> QED
    BY <2>4, SelectInOrder, TurnInOrder
<1> QED
  BY <1>1, RolesInductive, PTL DEF RolesSpec, StatesInOrder
================================================================================
