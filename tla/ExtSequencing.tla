--------------------------- MODULE ExtSequencing ---------------------------
(***************************************************************************)
(* The extensions of a goal state, one after the other.                    *)
(*                                                                         *)
(* ExtHandlersHandler.run processes the extensions of a new goal state in  *)
(* the order of their dependency levels, and waits for the status that the *)
(* processes of an extension write before it goes on to the next level.    *)
(* The main loop then reports the status of every extension, in each       *)
(* iteration, and keeps a summary of it by which it knows when the goal    *)
(* state has converged (azurelinuxagent/ga/exthandlers.py, ga/update.py).  *)
(*                                                                         *)
(* A goal state is a document that CRP wrote, in one of the two formats,   *)
(* perhaps with a fault; the agent works on what it reads in it (module    *)
(* GoalStateReading), and the properties are about what CRP meant.         *)
(*                                                                         *)
(* What handle_ext_handler does to one handler is the subject of module    *)
(* ExtHandlers; here it is a step that succeeds, fails or is disallowed.   *)
(* Every handler has one extension.  Its status files and the policy file  *)
(* of the customer are documents too, which the agent reads as modules     *)
(* StatusDocs and PolicyDocs say.                                          *)
(***************************************************************************)
EXTENDS Integers, Sequences, FiniteSets, FiniteSetsExt

CONSTANTS
    Exts,           \* the extensions
    NoExt,          \* not an extension
    MultiConfig,    \* the extensions whose handler supports multi-config
    Seqs,           \* sequence numbers of the settings
    Signed,         \* the extensions whose package has a signature
    SupportsPolicy, \* the extensions that support a runtime policy
    Documents,      \* the documents that the agent can receive, by their names
    Contents,       \* what it reads in each: [kind, items], None if it rejects it
    PolicyFiles,    \* the contents that the policy file can have
    CanValidate,    \* see PolicyDocs
    None, Bad,      \* see GoalStateReading
    MaxGoalStates,  \* bound: goal states it creates
    MaxCrashes      \* bound: times the agent process dies

(* A document: the channel, what CRP meant (the kind of goal state and its *)
(* extensions), and the fault in the part of each extension.  Without      *)
(* settings an extension has no sequence number (0) and the lowest level.  *)
Items == [request: {"enabled", "uninstall"}, level: Nat, seq: Seqs \cup {0}]

ASSUME DocumentsAssumption ==
    /\ NoExt \notin Exts /\ 0 \notin Seqs /\ MultiConfig \cup Signed \cup SupportsPolicy \subseteq Exts
    /\ \A d \in {Documents[n] : n \in DOMAIN Documents} :
          /\ d.channel \in {"WireServer", "HostGAPlugin"}
          /\ d.kind \in {"normal", "unsupported", "onHold"}
          /\ DOMAIN d.items \subseteq Exts /\ DOMAIN d.faults = DOMAIN d.items
          /\ IsFiniteSet(DOMAIN d.items)
          /\ \A e \in DOMAIN d.items : d.items[e] \in Items
    /\ MaxGoalStates \in Nat \ {0} /\ MaxCrashes \in Nat

(* What the agent reads in a document that it does not reject is what CRP  *)
(* meant.  Of an extension whose part is invalid it may read less: a lower *)
(* level, and no settings.                                                 *)
ReadsAsMeant(d, read) ==
    /\ read.kind = d.kind
    /\ DOMAIN read.items = DOMAIN d.items
    /\ \A e \in DOMAIN d.items :
          LET item == read.items[e]
              meant == d.items[e]
          IN /\ item.request = meant.request
             /\ item.level \in 0..meant.level
             /\ item.seq \in {0, meant.seq}
             /\ ~item.invalid => item.level = meant.level /\ item.seq = meant.seq

ASSUME ReadingAssumption ==
    /\ DOMAIN Contents = DOMAIN Documents
    /\ \A n \in DOMAIN Contents :
          Contents[n] # None => ReadsAsMeant(Documents[n], Contents[n])

Status == INSTANCE StatusDocs

Policy == INSTANCE PolicyDocs

Name(e) == [of |-> e, caps |-> FALSE]

VARIABLES
    goalState,  \* the newest goal state: [id, doc, content]
    (* on disk *)
    installed,  \* the handlers whose state is not NotInstalled
    hstatus,    \* the status in HandlerStatus
    conf,       \* sequence number of the last settings file, 0 if none
    files,      \* files[e][n]: the status in <n>.status
    completed,  \* does the file initial_goal_state exist?
    (* the processes that "enable" started *)
    proc,       \* the sequence number each one works on, 0 if it ended
    (* the agent process *)
    pc,
    last,       \* UpdateHandler._last_extensions_gs_id
    gs,         \* the goal state being processed
    handlers,   \* ext_handlers, empty before the first goal state
    aggregate,  \* __gs_aggregate_status
    policy,     \* _policy_engine._policy; Bad if extensions are disabled or it is invalid
    todo,       \* the rest of all_extensions
    waiting,    \* the extension whose status it is waiting for
    late,       \* has wait_until passed?
    depError,   \* is depends_on_err_msg set?
    disallowed, \* _disallowed_ext_handlers: those of this goal state
    summary,    \* _extensions_summary
    initial,    \* _is_initial_goal_state
    crashes     \* history: times the agent died

disk   == <<installed, hstatus, conf, files>>
memory == <<last, gs, handlers, aggregate, policy, todo, waiting, late, depError,
            disallowed, summary, initial>>
vars   == <<goalState, disk, completed, proc, pc, memory, crashes>>

(* Status files: one that does not exist, one with a status (or "error":   *)
(* with what reads as one), and one too large that has no message.         *)
Values == {"none", "transitioning", "error", "success", "huge"}

StatusFile(v) ==
    [exists |-> v # "none", readable |-> TRUE, json |-> TRUE, data |-> "list",
     item |-> [status |-> IF v = "huge" THEN "success" ELSE v, code |-> 0,
               formatted |-> None, subs |-> None],
     size |-> IF v = "huge" THEN Status!MaxSize + 1 ELSE 100]

(* The status that the agent reads in it, or that it cannot.               *)
StatusIn ==
    [v \in Values |-> LET read == Status!CollectExtStatus(<<StatusFile(v)>>)
                      IN IF read.raises THEN "raises" ELSE read.status.status]

Terminal == {"error", "success", "Ready", "NotReady"}

NoGoalState == [id |-> 0, doc |-> None, content |-> None]

GoalStateOf(id, n) == [id |-> id, doc |-> n, content |-> Contents[n]]

TypeOK ==
    /\ goalState.id \in 1..MaxGoalStates /\ goalState.doc \in DOMAIN Documents
    /\ installed \subseteq Exts
    /\ hstatus \in [Exts -> {"none", "Ready", "NotReady"}]
    /\ conf \in [Exts -> Seqs \cup {0}]
    /\ files \in [Exts -> [Seqs -> Values]]
    /\ completed \in BOOLEAN
    /\ proc \in [Exts -> Seqs \cup {0}]
    /\ pc \in {"loop", "process", "wait", "report"}
    /\ last \in 0..MaxGoalStates
    /\ gs.id \in 0..MaxGoalStates
    /\ handlers \subseteq Exts
    /\ aggregate \in {"none", "Success", "Failed", "Unsupported"}
    /\ policy \in {Policy!UpdatePolicy(f) : f \in PolicyFiles} \cup {None, Bad}
    /\ todo \subseteq handlers
    /\ waiting \in Exts \cup {NoExt}
    /\ late \in BOOLEAN
    /\ depError \in BOOLEAN
    /\ disallowed \subseteq Exts
    /\ summary \subseteq Exts \X {"transitioning", "error", "success", "Ready", "NotReady"}
    /\ initial \in BOOLEAN
    /\ crashes \in 0..MaxCrashes

Init ==
    /\ \E n \in DOMAIN Documents : goalState = GoalStateOf(1, n)
    /\ installed = {}
    /\ hstatus = [e \in Exts |-> "none"]
    /\ conf = [e \in Exts |-> 0]
    /\ files = [e \in Exts |-> [n \in Seqs |-> "none"]]
    /\ completed = FALSE
    /\ proc = [e \in Exts |-> 0]
    /\ pc = "loop"
    /\ last = 0
    /\ gs = NoGoalState
    /\ handlers = {}
    /\ aggregate = "none"
    /\ policy = None
    /\ todo = {}
    /\ waiting = NoExt
    /\ late = FALSE
    /\ depError = FALSE
    /\ disallowed = {}
    /\ summary = {}
    /\ initial = TRUE
    /\ crashes = 0

----------------------------------------------------------------------------
(* CRP and the extensions.                                                 *)

NewGoalState ==
    /\ goalState.id < MaxGoalStates
    /\ \E n \in DOMAIN Documents : goalState' = GoalStateOf(goalState.id + 1, n)
    /\ UNCHANGED <<disk, completed, proc, pc, memory, crashes>>

(* The processes of an extension write their status at any time, and       *)
(* nothing after a terminal one.                                           *)
ExtensionReports(e) ==
    /\ proc[e] # 0
    /\ \E s \in Values \ {"none", files[e][proc[e]]} :
          /\ files' = [files EXCEPT ![e][proc[e]] = s]
          /\ proc' = IF s = "transitioning" THEN proc ELSE [proc EXCEPT ![e] = 0]
    /\ UNCHANGED <<goalState, installed, hstatus, conf, completed, pc, memory, crashes>>

----------------------------------------------------------------------------
(* Processing the extensions: handle_ext_handlers.                         *)

Item(e) == gs.content.items[e]

(* dependency_level_sort_key.                                              *)
SortKey(item) == IF item.request = "enabled" THEN item.level ELSE -item.level - 1

MaxDepLevel == Max({SortKey(Item(e)) : e \in DOMAIN gs.content.items})

(* Do other extensions depend on it?                                       *)
OthersDependOn(e) == 0 <= SortKey(Item(e)) /\ SortKey(Item(e)) < MaxDepLevel

(* all_extensions is sorted; the order within a level is that of the goal  *)
(* state.                                                                  *)
IsNext(e) == e \in todo /\ \A d \in todo : SortKey(Item(e)) <= SortKey(Item(d))

WriteStatus(e, s) ==
    files' = IF Item(e).seq = 0 THEN files ELSE [files EXCEPT ![e][Item(e).seq] = s]

(* create_status_file with overwrite=False.                                *)
WriteStatusIfNone(e, s) ==
    IF Item(e).seq # 0 /\ files[e][Item(e).seq] = "none"
    THEN WriteStatus(e, s) ELSE UNCHANGED files

(* The directory of a handler is deleted.                                  *)
RemoveHandlers(es) ==
    /\ installed' = installed \ es
    /\ hstatus' = [e \in Exts |-> IF e \in es THEN "none" ELSE hstatus[e]]
    /\ conf' = [e \in Exts |-> IF e \in es THEN 0 ELSE conf[e]]
    /\ files' = [e \in Exts |-> IF e \in es THEN [n \in Seqs |-> "none"] ELSE files[e]]
    /\ proc' = [e \in Exts |-> IF e \in es THEN 0 ELSE proc[e]]

(* The extension is done with; the next one is taken.                      *)
GoOn(e, failed) ==
    /\ todo' = todo \ {e}
    /\ depError' = (depError \/ failed)
    /\ UNCHANGED <<goalState, completed, last, gs, handlers, aggregate, policy, late,
                   summary, initial, crashes>>

(* The settings that "enable" applies: an extension does not apply again   *)
(* what it applied with success.                                           *)
SeqToApply(e) ==
    IF Item(e).seq # 0 /\ files[e][Item(e).seq] # "success" THEN Item(e).seq ELSE 0

(* The answers of the policy: for an installed handler the question is     *)
(* whether its signature was validated when it was installed.              *)
Blocked == policy = Bad

Rejections(e) ==
    LET known == {signed \in BOOLEAN : signed = (e \in Signed) \/ (e \in installed /\ ~signed)}
    IN {Policy!Rejects(policy, Name(e), signed) : signed \in known}

RuntimePolicy(e) == Policy!RuntimePolicy(policy, Name(e), e \in SupportsPolicy)

(* handle_ext_handler returns True for an enable, and the extension goes   *)
(* on in the background.  The agent waits for it if others depend on it    *)
(* and it has settings.                                                    *)
Enable(e) ==
    /\ pc = "process" /\ IsNext(e) /\ ~Blocked /\ ~depError
    /\ Item(e).request = "enabled" /\ ~Item(e).invalid
    /\ FALSE \in Rejections(e) /\ RuntimePolicy(e) # Bad
    /\ installed' = installed \cup {e}
    /\ hstatus' = [hstatus EXCEPT ![e] = "Ready"]
    /\ conf' = [conf EXCEPT ![e] = Item(e).seq]
    /\ proc' = [proc EXCEPT ![e] = SeqToApply(e)]
    /\ GoOn(e, FALSE)
    /\ IF OthersDependOn(e) /\ Item(e).seq # 0
       THEN pc' = "wait" /\ waiting' = e
       ELSE UNCHANGED <<pc, waiting>>
    /\ UNCHANGED <<files, disallowed>>

(* handle_ext_handler returns True for an uninstall.                       *)
Uninstall(e) ==
    /\ pc = "process" /\ IsNext(e) /\ ~Blocked /\ ~depError
    /\ Item(e).request = "uninstall" /\ ~Item(e).invalid
    /\ e \in installed => FALSE \in Rejections(e)
    /\ RemoveHandlers({e})
    /\ GoOn(e, FALSE)
    /\ UNCHANGED <<pc, waiting, disallowed>>

(* It catches an error: the handler status is set, and for multi-config    *)
(* an error status is written if there is none.  By then the settings may  *)
(* have been written, the handler installed and "enable" called, unless    *)
(* its part of the document is invalid.  When "enable" of a multi-config   *)
(* extension fails the status of the handler is left as it is.             *)
HandleFails(e) ==
    /\ pc = "process" /\ IsNext(e) /\ ~Blocked /\ ~depError
    /\ \/ /\ hstatus' = [hstatus EXCEPT ![e] = "NotReady"]
          /\ UNCHANGED <<installed, conf, proc>>
       \/ /\ Item(e).request = "enabled" /\ ~Item(e).invalid
          /\ FALSE \in Rejections(e) /\ RuntimePolicy(e) # Bad
          /\ conf' = [conf EXCEPT ![e] = Item(e).seq]
          /\ installed' \in {installed, installed \cup {e}}
          /\ proc' \in {proc, [proc EXCEPT ![e] = SeqToApply(e)]}
          /\ proc' # proc => e \in installed'
          /\ \/ hstatus' = [hstatus EXCEPT ![e] = "NotReady"]
             \/ /\ e \in MultiConfig /\ e \in installed'
                /\ hstatus' = [hstatus EXCEPT ![e] = IF @ = "none" THEN "NotReady" ELSE @]
    /\ IF e \in MultiConfig /\ Item(e).seq # 0
       THEN WriteStatusIfNone(e, "error") ELSE UNCHANGED files
    /\ GoOn(e, OthersDependOn(e))
    /\ UNCHANGED <<pc, waiting, disallowed>>

(* Extensions are disabled or the policy is invalid; or the policy rejects *)
(* the extension, its signature is not valid, or, after the settings have  *)
(* been written, there is a runtime policy that it does not support.  The  *)
(* error is reported at both levels.                                       *)
Disallow(e) ==
    /\ pc = "process" /\ IsNext(e)
    /\ \/ Blocked /\ UNCHANGED conf
       \/ /\ ~Blocked /\ ~depError /\ ~Item(e).invalid
          /\ \/ TRUE \in Rejections(e) /\ (Item(e).request = "enabled" \/ e \in installed)
             \/ Item(e).request = "enabled" /\ e \in Signed \ installed
          /\ UNCHANGED conf
       \/ /\ ~Blocked /\ ~depError /\ ~Item(e).invalid /\ Item(e).request = "enabled"
          /\ FALSE \in Rejections(e) /\ RuntimePolicy(e) = Bad
          /\ conf' = [conf EXCEPT ![e] = Item(e).seq]
    /\ hstatus' = [hstatus EXCEPT ![e] = "NotReady"]
    /\ IF Item(e).request = "enabled" THEN WriteStatus(e, "error") ELSE UNCHANGED files
    /\ disallowed' = disallowed \cup {e}
    /\ GoOn(e, ~Blocked /\ OthersDependOn(e))
    /\ UNCHANGED <<installed, proc, pc, waiting>>

(* MUTANT of Skip: the extension is passed over without a status.           *)
SkipSilently(e) ==
    /\ pc = "process" /\ IsNext(e) /\ ~Blocked /\ depError
    /\ GoOn(e, FALSE)
    /\ UNCHANGED <<disk, proc, pc, waiting, disallowed>>

(* An extension of a lower level failed.                                   *)
Skip(e) ==
    /\ pc = "process" /\ IsNext(e) /\ ~Blocked /\ depError
    /\ IF e \in MultiConfig /\ Item(e).seq # 0
       THEN /\ WriteStatusIfNone(e, "error")
            /\ hstatus' = [hstatus EXCEPT ![e] = IF @ = "none" THEN "NotReady" ELSE @]
       ELSE /\ hstatus' = [hstatus EXCEPT ![e] = "NotReady"]
            /\ UNCHANGED files
    /\ GoOn(e, FALSE)
    /\ UNCHANGED <<installed, conf, proc, pc, waiting, disallowed>>

----------------------------------------------------------------------------
(* wait_for_handler_completion.                                            *)

WaitUntilPasses ==
    /\ pc \in {"process", "wait"}
    /\ ~late
    /\ late' = TRUE
    /\ UNCHANGED <<goalState, disk, completed, proc, pc, last, gs, handlers, aggregate, policy, todo, waiting, depError, disallowed, summary, initial, crashes>>

(* get_ext_handling_status.                                                *)
StatusOfDependency == StatusIn[files[waiting][Item(waiting).seq]]

(* MUTANT of WaitFails: an error is a terminal status too.                  *)
WaitFailsOnTimeout == late

(* It times out, or there is no success.                                   *)
WaitFails == late \/ StatusOfDependency # "success"

(* MUTANT of Wait: there is no time limit.                                  *)
WaitForever ==
    /\ pc = "wait"
    /\ StatusOfDependency \in Terminal \cup {"raises"}
    /\ depError' = (StatusOfDependency # "success")
    /\ pc' = "process"
    /\ waiting' = NoExt
    /\ UNCHANGED <<goalState, disk, completed, proc, last, gs, handlers, aggregate, policy, todo, late, disallowed, summary, initial, crashes>>

Wait ==
    /\ pc = "wait"
    /\ late \/ StatusOfDependency \in Terminal \cup {"raises"}
    /\ depError' = WaitFails
    /\ pc' = "process"
    /\ waiting' = NoExt
    /\ UNCHANGED <<goalState, disk, completed, proc, last, gs, handlers, aggregate, policy, todo, late, disallowed, summary, initial, crashes>>

----------------------------------------------------------------------------
(* The main loop: _process_goal_state, ExtHandlersHandler.run.             *)

(* MUTANT of Converged: any of them, not all.                               *)
ConvergedAny(s) == \E x \in s : x[2] \in Terminal

(* ExtensionsSummary.converged.                                            *)
Converged(s) == \A x \in s : x[2] \in Terminal

(* _on_initial_goal_state_completed.                                       *)
CompleteInitialGoalState(done) ==
    /\ completed' = (completed \/ (initial /\ done))
    /\ initial' = (initial /\ ~done)

(* The policy engine reads the file for each goal state; the policy, the   *)
(* deadline and the error matter only while one is being processed.        *)
Policies == {Policy!UpdatePolicy(f) : f \in PolicyFiles} \cup {Bad}

(* A new goal state that could be read.  One on hold is not processed,     *)
(* only reported.                                                          *)
StartGoalState ==
    /\ pc = "loop"
    /\ goalState.id # last
    /\ goalState.content # None
    /\ CompleteInitialGoalState(~Converged(summary))
    /\ summary' = {}
    /\ gs' = goalState
    /\ LET content == goalState.content
       IN /\ handlers' = DOMAIN content.items
          /\ todo' = IF content.kind = "normal" THEN DOMAIN content.items ELSE {}
          /\ pc' = IF content.kind = "onHold" THEN "report" ELSE "process"
          /\ policy' \in IF content.kind = "normal" THEN Policies ELSE {None}
    /\ disallowed' = {}
    /\ UNCHANGED <<goalState, disk, proc, last, aggregate, late, depError, waiting, crashes>>

(* MUTANT of Outdated: also after a goal state that is not supported.       *)
OutdatedAlways(status) == Exts \ handlers

(* _cleanup_outdated_handlers: those that are not in the goal state, unless *)
(* it is not supported.                                                    *)
Outdated(status) == IF status = "Unsupported" THEN {} ELSE Exts \ handlers

EndGoalState(status) ==
    /\ pc = "process"
    /\ aggregate' = status
    /\ RemoveHandlers(Outdated(status))
    /\ pc' = "report"
    /\ todo' = {}
    /\ policy' = None /\ late' = FALSE /\ depError' = FALSE
    /\ UNCHANGED <<goalState, completed, last, gs, handlers, waiting, disallowed,
                   summary, initial, crashes>>

(* The last extension has been processed, or none because the goal state   *)
(* is not supported.                                                       *)
FinishGoalState ==
    /\ todo = {}
    /\ EndGoalState(IF gs.content.kind = "unsupported" THEN "Unsupported" ELSE "Success")

(* An error that is not expected, writing a status file, ends the          *)
(* processing of the goal state.                                           *)
FailGoalState ==
    /\ todo # {}
    /\ EndGoalState("Failed")

(* report_ext_handlers_status: the handlers it reports, with the sequence  *)
(* number of their settings.                                               *)
ToReport ==
    IF aggregate = "Unsupported" THEN {e \in Exts : hstatus[e] # "none"}
                                 ELSE {e \in handlers : hstatus[e] # "none"}

SeqToReport(e) == IF aggregate = "Unsupported" THEN conf[e] ELSE Item(e).seq

(* report_ext_handler_status: the status of the extension if there is one, *)
(* else that of the handler.                                               *)
Reported(e) ==
    IF SeqToReport(e) # 0 /\ e \in installed \cup MultiConfig \cup disallowed
    THEN StatusIn[files[e][SeqToReport(e)]]
    ELSE hstatus[e]

(* _report_status, in the iteration that processed the goal state and in   *)
(* every later one; also when the goal state cannot be fetched.  An error  *)
(* in reading the status of one extension ends the report of all.          *)
ReportStatus ==
    /\ pc \in {"loop", "report"}
    /\ pc' = "loop"
    /\ last' = IF pc = "report" THEN gs.id ELSE last
    /\ summary' = IF \E e \in ToReport : Reported(e) = "raises" THEN summary
                  ELSE {<<e, Reported(e)>> : e \in ToReport}
    /\ CompleteInitialGoalState(summary' # summary /\ Converged(summary'))
    /\ UNCHANGED <<goalState, disk, proc, gs, handlers, aggregate, policy, todo,
                   waiting, late, depError, disallowed, crashes>>

(* The agent dies; the processes of the extensions do not.                 *)
Restart ==
    /\ crashes < MaxCrashes
    /\ crashes' = crashes + 1
    /\ pc' = "loop"
    /\ last' = 0
    /\ gs' = NoGoalState
    /\ handlers' = {}
    /\ aggregate' = "none"
    /\ policy' = None
    /\ todo' = {}
    /\ waiting' = NoExt
    /\ late' = FALSE
    /\ depError' = FALSE
    /\ disallowed' = {}
    /\ summary' = {}
    /\ initial' = ~completed
    /\ UNCHANGED <<goalState, disk, completed, proc>>

----------------------------------------------------------------------------

HandleExtension ==
    \E e \in Exts : Enable(e) \/ Uninstall(e) \/ HandleFails(e) \/ Disallow(e) \/ Skip(e)

AgentNext ==
    \/ StartGoalState
    \/ HandleExtension
    \/ Wait
    \/ FinishGoalState
    \/ FailGoalState

Next ==
    \/ NewGoalState
    \/ \E e \in Exts : ExtensionReports(e)
    \/ WaitUntilPasses
    \/ AgentNext
    \/ ReportStatus
    \/ Restart

Spec == Init /\ [][Next]_vars

(* The agent keeps running and time passes; nothing is assumed of the      *)
(* extensions.                                                             *)
FairSpec ==
    /\ Spec
    /\ WF_vars(AgentNext)
    /\ WF_vars(pc = "report" /\ ReportStatus)
    /\ WF_vars(WaitUntilPasses)

----------------------------------------------------------------------------
(* Properties.                                                             *)

(* What CRP meant with the goal state and with one of its extensions.      *)
Doc == Documents[gs.doc]

Meant(e) == Doc.items[e]

(* An extension is enabled only after every extension that CRP put on a    *)
(* lower level has succeeded: its status file, for the sequence number of  *)
(* these settings, says so (the parsers, handle_ext_handlers,              *)
(* wait_for_handler_completion).                                           *)
DependenciesSucceeded(e) ==
    \A d \in DOMAIN Doc.items :
        (/\ Meant(d).request = "enabled"
         /\ Meant(d).level < Meant(e).level
         /\ Meant(d).seq # 0) => files[d][Meant(d).seq] = "success"

EnablesInOrder == \A e \in Exts : Enable(e) => DependenciesSucceeded(e)

DependencyOrder == [][EnablesInOrder]_vars

(* Once a goal state has been processed, something is reported for every   *)
(* extension that CRP enabled in it, also for those that failed, were      *)
(* disallowed or skipped, or whose part of the document is invalid: CRP    *)
(* waits for it (the comment at exthandlers.py:561).                       *)
EveryExtensionIsReported ==
    (pc \in {"loop", "report"} /\ gs.id # 0 /\ Doc.kind = "normal" /\ todo = {}
     /\ aggregate = "Success")
        => \A e \in DOMAIN Doc.items :
              Meant(e).request = "enabled" => e \in ToReport

(* The agent deletes a handler only in a goal state that it supports, that *)
(* CRP did not put on hold, and in which CRP asks to uninstall it or       *)
(* leaves it out.                                                          *)
RemovesOnRequest ==
    \A e \in installed \ installed' :
        /\ Doc.kind = "normal"
        /\ e \in DOMAIN Doc.items => Meant(e).request = "uninstall"

RemovedOnRequest == [][RemovesOnRequest]_vars

(* Until a second goal state arrives, the file initial_goal_state is       *)
(* written only when the first one has been processed and all of its       *)
(* extensions have reached a terminal state, also across restarts, unless  *)
(* an unexpected error ended the processing: otherwise the agent slows     *)
(* down its polling too early (the comment at update.py:102).              *)
CompletesWhenConverged ==
    (completed' /\ ~completed /\ gs'.id = 1)
        => /\ gs.id = 1
           /\ (Doc.kind = "normal" /\ aggregate = "Success")
                 => \A e \in DOMAIN Doc.items :
                       Meant(e).request = "enabled"
                           => e \in ToReport /\ Reported(e) \in Terminal

InitialGoalStateConverges == [][CompletesWhenConverged]_vars

(* Every goal state is processed to its end, whatever the extensions do    *)
(* (the time limit is for all of them together) and whichever fault of     *)
(* ContainedFaults the part of an extension in an ExtensionsConfig has. In *)
(* vmSettings one makes the agent reject the document, and so does, in     *)
(* either, a sequence number that is not a number.                         *)
GoalStatesAreReported ==
    <>[](\/ last = goalState.id
         \/ /\ Documents[goalState.doc].channel = "HostGAPlugin"
            /\ Range(Documents[goalState.doc].faults) # {"none"})
============================================================================
