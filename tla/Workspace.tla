-------------------------------- MODULE Workspace --------------------------------
(***************************************************************************)
(* What the processes of one clone share beside the database: the working  *)
(* tree with the operator's uncommitted changes, which a process stashes   *)
(* while it brings the clone up to date before a job (SyncRepository in    *)
(* internal/issue/workflow.go), and config.json, which each process reads  *)
(* at its start and writes when a command is allowed for good              *)
(* (cmd/korocon/main.go), and the config commands read and write           *)
(* (cmd/korocon/config.go, internal/config/config.go).  The sync policy of *)
(* the one is a setting of the other.                                      *)
(*                                                                         *)
(* Of a configuration, the sync policy and the commands beyond the default *)
(* ones are told apart; git and the file system are external.              *)
(***************************************************************************)
EXTENDS Naturals, Sequences, SequencesExt

CONSTANTS Processes, \* processes of korocon
          Edits,     \* changes that the operator, or an agent, makes to the clone
          Commands,  \* commands that may be allowed
          Faults,    \* what can fail
          MaxChange  \* bound: changes of the configuration that are begun

Tool == "tool"
None == "none"

ASSUME WorkspaceAssumption ==
  /\ Processes \cap {Tool, None} = {}
  /\ Faults \subseteq {"git", "conflict", "crash", "disk"}
  /\ MaxChange \in Nat

VARIABLES
  tree,        \* the working tree: uncommitted changes, and whether it is unmerged
  stash,       \* git's stash, the newest entry last
  committed,   \* changes that the operator has committed
  made,        \* changes that were made
  proc,        \* the processes
  file,        \* config.json
  tool,        \* the config command that runs, if any
  changed,     \* how many changes of the configuration were begun
  found,       \* history: what the status of a sync found, and the height of the stash
  mixed,       \* history: processes whose sync was crossed by another hand
  fresh,       \* history: the actors whose configuration is that of the file
  reported,    \* history: the configuration that the operator was told of
  overwritten  \* history: a configuration that was not fresh was saved

clone == <<tree, stash, committed, made>>
syncHistory == <<found, mixed>>
config == <<file, tool, changed, fresh, reported, overwritten>>
vars == <<clone, proc, config, syncHistory>>

Policies == {"fail", "stash"}
Config == [policy : Policies, commands : SUBSET Commands]
\* Default: the file does not exist.
Default == [policy |-> "fail", commands |-> {}]

\* "empty" is being written, or was left so; "torn" holds the rest of another.
File == [is : {"whole", "empty", "torn"}, holds : Config]
Readable == file.is = "whole"

\* What is to be changed in a configuration: all of it, its policy or its commands.  A
\* setting that is not told apart changes as a policy that is set to what it is.
Changes == {"init"} \cup Policies \cup Commands

SetValue(cfg, change) ==
  CASE change = "init" -> Default
    [] change \in Policies -> [cfg EXCEPT !.policy = change]
    [] OTHER -> [cfg EXCEPT !.commands = @ \cup {change}]

Actors == Processes \cup {Tool}

Sync == {"push", "fetch", "pull", "restore", "pop"}

Clone == [changes : SUBSET Edits, unmerged : BOOLEAN]
Process == [pc : {"off", "idle", "run"} \cup Sync, stashed : BOOLEAN, configured : Config,
            saving : Commands \cup {None}]
Found == [changes : SUBSET Edits, height : Nat]
Running == [pc : {"none", "asks", "saving"}, loaded : Config, change : Changes]

TypeOK ==
  /\ tree \in Clone
  /\ stash \in Seq(SUBSET Edits)
  /\ committed \subseteq Edits /\ made \subseteq Edits
  /\ proc \in [Processes -> Process]
  /\ file \in File
  /\ tool \in Running
  /\ changed \in 0 .. MaxChange
  /\ found \in [Processes -> Found]
  /\ mixed \subseteq Processes /\ fresh \subseteq Actors
  /\ reported \in Config /\ overwritten \in BOOLEAN

Off == [pc |-> "off", stashed |-> FALSE, configured |-> Default, saving |-> None]
Nothing == [changes |-> {}, height |-> 0]
NoTool == [pc |-> "none", loaded |-> Default, change |-> "init"]

\* One entry of the stash is the operator's own.
Init ==
  /\ tree = [changes |-> {}, unmerged |-> FALSE]
  /\ stash = <<{}>> /\ committed = {} /\ made = {}
  /\ proc = [p \in Processes |-> Off]
  /\ file = [is |-> "whole", holds |-> Default] /\ tool = NoTool
  /\ changed = 0
  /\ found = [p \in Processes |-> Nothing]
  /\ mixed = {} /\ fresh = {} /\ reported = Default /\ overwritten = FALSE

CanFail(fault) == fault \in Faults
Goes(p, pc) == proc' = [proc EXCEPT ![p].pc = pc]
\* The sync is over, with or without a job.
Ends(p, pc) ==
  /\ proc' = [proc EXCEPT ![p].pc = pc, ![p].stashed = FALSE]
  /\ found' = [found EXCEPT ![p] = Nothing]
Synchronizes(p) == proc[p].pc \in Sync
\* The hand of a has changed the tree or the stash.
Crosses(a) == mixed' = mixed \cup {q \in Processes \ {a} : Synchronizes(q)}

-----------------------------------------------------------------------------
(* SyncRepository, each command of git a step *)

Dirty == tree.changes # {} \/ tree.unmerged

\* The status is read, with the policy that the process has in its memory.
BeginSync(p) ==
  /\ proc[p].pc = "idle"
  /\ Dirty => proc[p].configured.policy = "stash"
  /\ proc' = [proc EXCEPT ![p].pc = IF Dirty THEN "push" ELSE "fetch", ![p].stashed = FALSE]
  /\ found' = [found EXCEPT ![p] = [changes |-> tree.changes, height |-> Len(stash)]]
  /\ mixed' = mixed \ {p}
  /\ UNCHANGED <<clone, config>>

\* stash push succeeds, without an entry, when there is nothing left to stash.
Push(p) ==
  /\ proc[p].pc = "push" /\ ~tree.unmerged
  /\ proc' = [proc EXCEPT ![p].pc = "fetch", ![p].stashed = TRUE]
  /\ IF tree.changes = {} THEN UNCHANGED <<tree, stash, mixed>>
     ELSE stash' = Append(stash, tree.changes) /\ tree' = [tree EXCEPT !.changes = {}] /\ Crosses(p)
  /\ UNCHANGED <<committed, made, config, found>>

\* Unmerged changes cannot be stashed.
PushFails(p) ==
  /\ proc[p].pc = "push" /\ (tree.unmerged \/ CanFail("git"))
  /\ Ends(p, "idle")
  /\ UNCHANGED <<clone, config, mixed>>

\* The error of a step goes by way of restore.
FailSync(p) == IF proc[p].stashed THEN Goes(p, "restore") /\ UNCHANGED found ELSE Ends(p, "idle")

Fetch(p) ==
  /\ proc[p].pc = "fetch"
  /\ \/ Goes(p, "pull") /\ UNCHANGED found
     \/ CanFail("git") /\ FailSync(p)
  /\ UNCHANGED <<clone, config, mixed>>

Pull(p) ==
  /\ proc[p].pc = "pull" /\ ~tree.unmerged
  /\ IF proc[p].stashed THEN Goes(p, "pop") /\ UNCHANGED found ELSE Ends(p, "run")
  /\ UNCHANGED <<clone, config, mixed>>

\* A commit of the operator's may conflict with what is pulled.
PullFails(p) ==
  /\ proc[p].pc = "pull" /\ (tree.unmerged \/ CanFail("git"))
  /\ FailSync(p)
  /\ \/ UNCHANGED <<tree, mixed>>
     \/ /\ committed # {} /\ CanFail("conflict")
        /\ tree' = [tree EXCEPT !.unmerged = TRUE]
        /\ Crosses(p)
  /\ UNCHANGED <<stash, committed, made, config>>

\* stash pop takes the newest entry, whoever pushed it.
Pops(p) ==
  /\ stash # <<>> /\ ~tree.unmerged /\ tree.changes \cap Last(stash) = {}
  /\ tree' = [tree EXCEPT !.changes = @ \cup Last(stash)]
  /\ stash' = Front(stash)
  /\ Crosses(p)

\* It leaves all as it was, or the conflict in the tree, and in either case the entry.
PopFails(p) ==
  \/ /\ stash = <<>> \/ Dirty \/ CanFail("git")
     /\ UNCHANGED <<tree, mixed>>
  \/ /\ stash # <<>> /\ ~tree.unmerged /\ CanFail("conflict")
     /\ tree' = [changes |-> tree.changes \cup Last(stash), unmerged |-> TRUE]
     /\ Crosses(p)

\* Mutant: the entry that could not be restored is dropped.
RestoreDrops(p) ==
  /\ proc[p].pc = "restore"
  /\ \/ Pops(p)
     \/ PopFails(p) /\ stash' = IF stash = <<>> THEN stash ELSE Front(stash)
  /\ Ends(p, "idle")
  /\ UNCHANGED <<committed, made, config>>

\* Whether it succeeds or not, the job is not started.
Restore(p) ==
  /\ proc[p].pc = "restore"
  /\ \/ Pops(p)
     \/ PopFails(p) /\ UNCHANGED stash
  /\ Ends(p, "idle")
  /\ UNCHANGED <<committed, made, config>>

\* Mutant: the job starts whether the changes are back or not.
PopUnchecked(p) ==
  /\ proc[p].pc = "pop"
  /\ \/ Pops(p)
     \/ PopFails(p) /\ UNCHANGED stash
  /\ Ends(p, "run")
  /\ UNCHANGED <<committed, made, config>>

Pop(p) ==
  /\ proc[p].pc = "pop"
  /\ \/ Pops(p) /\ Ends(p, "run")
     \/ PopFails(p) /\ UNCHANGED stash /\ Ends(p, "idle")
  /\ UNCHANGED <<committed, made, config>>

\* A job that is submitted while one runs is synchronised like one of the other process.
JobEnds(p) ==
  /\ proc[p].pc = "run" /\ proc[p].saving = None
  /\ Goes(p, "idle")
  /\ UNCHANGED <<clone, config, syncHistory>>

-----------------------------------------------------------------------------
(* The operator, and the agents, in the clone *)

Edit(e) ==
  /\ e \notin made
  /\ made' = made \cup {e}
  /\ tree' = [tree EXCEPT !.changes = @ \cup {e}]
  /\ UNCHANGED <<stash, committed, proc, config, syncHistory>>

\* What is in the tree is committed, conflicts resolved.
Commit ==
  /\ Dirty
  /\ committed' = committed \cup tree.changes
  /\ tree' = [changes |-> {}, unmerged |-> FALSE]
  /\ Crosses(None)
  /\ UNCHANGED <<stash, made, proc, config, found>>

-----------------------------------------------------------------------------
(* config.json *)

\* A process reads it once; --sync-dirty replaces the policy in what it has read.
Launch(p) ==
  /\ proc[p].pc = "off" /\ Readable
  /\ \E policy \in Policies \cup {None} :
       LET configured == IF policy = None THEN file.holds ELSE SetValue(file.holds, policy) IN
       /\ proc' = [proc EXCEPT ![p] = [Off EXCEPT !.pc = "idle", !.configured = configured]]
       /\ fresh' = IF configured = file.holds THEN fresh \cup {p} ELSE fresh \ {p}
  /\ UNCHANGED <<clone, file, tool, changed, reported, overwritten, syncHistory>>

\* WriteFile truncates and then writes; two that overlap may leave the rest of each other.
Begins == changed < MaxChange /\ changed' = changed + 1
Truncate == file' = [is |-> "empty", holds |-> Default]
Write(cfg) ==
  \/ file' = [is |-> "whole", holds |-> cfg]
  \/ file.is # "empty" /\ file' = [is |-> "torn", holds |-> Default]
Told(a, change) ==
  /\ reported' = SetValue(reported, change)
  /\ overwritten' = (overwritten \/ (a \notin fresh /\ change # "init"))
  /\ fresh' = IF a \in fresh \/ change = "init" THEN {a} ELSE {}

\* The operator allows a command that the agent of a job asks for, for good.
BeginAllow(p) ==
  /\ proc[p].pc = "run" /\ proc[p].saving = None
  /\ \E c \in Commands \ proc[p].configured.commands : proc' = [proc EXCEPT ![p].saving = c]
  /\ Begins /\ Truncate
  /\ UNCHANGED <<clone, tool, fresh, reported, overwritten, syncHistory>>

Allowed(p) == SetValue(proc[p].configured, proc[p].saving)

\* Mutant: the process does not remember what it has saved.
EndAllowForgets(p) ==
  /\ proc[p].saving # None
  /\ Write(Allowed(p))
  /\ Told(p, proc[p].saving)
  /\ proc' = [proc EXCEPT ![p].saving = None]
  /\ UNCHANGED <<clone, tool, changed, syncHistory>>

\* All that the process has in its memory is saved.
EndAllow(p) ==
  /\ proc[p].saving # None
  /\ Write(Allowed(p))
  /\ Told(p, proc[p].saving)
  /\ proc' = [proc EXCEPT ![p].saving = None, ![p].configured = Allowed(p)]
  /\ UNCHANGED <<clone, tool, changed, syncHistory>>

AllowFails(p) ==
  /\ proc[p].saving # None /\ CanFail("disk")
  /\ proc' = [proc EXCEPT ![p].saving = None]
  /\ UNCHANGED <<clone, config, syncHistory>>

\* Any step of a process may be its last; a git command that was started is run to
\* its end, and the stash entry stays where it is.
Stop(p) ==
  /\ proc[p].pc # "off" /\ CanFail("crash")
  /\ proc' = [proc EXCEPT ![p] = Off]
  /\ found' = [found EXCEPT ![p] = Nothing]
  /\ mixed' = mixed \ {p} /\ fresh' = fresh \ {p}
  /\ UNCHANGED <<clone, file, tool, changed, reported, overwritten>>

\* config set, allow, model and init: all but init read the file first, and model
\* and init ask the operator before they write.
ToolLoads ==
  /\ tool.pc = "none" /\ Begins
  /\ \E change \in Changes :
       /\ change = "init" \/ (Readable /\ (change \in Commands => change \notin file.holds.commands))
       /\ tool' = [pc |-> "asks", loaded |-> IF Readable THEN file.holds ELSE Default, change |-> change]
  /\ fresh' = IF Readable THEN fresh \cup {Tool} ELSE fresh
  /\ UNCHANGED <<clone, proc, file, reported, overwritten, syncHistory>>

ToolTruncates ==
  /\ tool.pc = "asks"
  /\ Truncate
  /\ tool' = [tool EXCEPT !.pc = "saving"]
  /\ UNCHANGED <<clone, proc, changed, fresh, reported, overwritten, syncHistory>>

ToolWrites ==
  /\ tool.pc = "saving"
  /\ Write(SetValue(tool.loaded, tool.change))
  /\ Told(Tool, tool.change)
  /\ tool' = NoTool
  /\ UNCHANGED <<clone, proc, changed, syncHistory>>

ToolStops ==
  /\ tool.pc # "none" /\ CanFail("disk")
  /\ tool' = NoTool
  /\ fresh' = fresh \ {Tool}
  /\ UNCHANGED <<clone, proc, file, changed, reported, overwritten, syncHistory>>

-----------------------------------------------------------------------------
SyncStep(p) ==
  \/ BeginSync(p) \/ Push(p) \/ PushFails(p) \/ Fetch(p) \/ Pull(p) \/ PullFails(p)
  \/ Restore(p) \/ Pop(p) \/ JobEnds(p)

ConfigStep(p) == Launch(p) \/ BeginAllow(p) \/ EndAllow(p) \/ AllowFails(p) \/ Stop(p)

Next ==
  \/ \E p \in Processes : SyncStep(p) \/ ConfigStep(p)
  \/ \E e \in Edits : Edit(e)
  \/ Commit \/ ToolLoads \/ ToolTruncates \/ ToolWrites \/ ToolStops

Spec == Init /\ [][Next]_vars

-----------------------------------------------------------------------------
(* Properties *)

\* No change of the operator's is lost: it is in the tree, in the stash or committed,
\* whatever fails and however the syncs of the processes cross (docs/usage.md:39).
ChangesAreKept ==
  made \subseteq tree.changes \cup committed \cup UNION {stash[i] : i \in DOMAIN stash}

\* A job starts on a merged tree with the changes that the sync found, and the stash
\* is as it was before: a restore that failed or conflicted starts none
\* (docs/usage.md:39), unless another hand has crossed the sync.
JobHasItsChanges ==
  [][\A p \in Processes :
       proc[p].pc # "run" /\ proc'[p].pc = "run" /\ p \notin mixed
         => /\ found[p].changes \subseteq tree'.changes /\ ~tree'.unmerged
            /\ Len(stash') = found[p].height]_vars

\* What the operator was told to be set and allowed is what the file holds, unless it
\* is unreadable or one has saved a configuration that was not that of the file: read
\* before another's save, or changed by --sync-dirty, which is saved with it.
FileHoldsWhatWasTold == overwritten \/ ~Readable \/ file.holds = reported
=============================================================================
