--------------------------- MODULE GoalStateDocs ---------------------------
(***************************************************************************)
(* The two documents that describe the extensions of a goal state and how  *)
(* the agent reads them: the ExtensionsConfig that the WireServer sends,   *)
(* in XML, and the vmSettings that the HostGAPlugin sends, in JSON         *)
(* (azurelinuxagent/common/protocol/extensions_goal_state*.py).            *)
(*                                                                         *)
(* CRP creates one goal state; which of the documents the agent reads      *)
(* depends on the channel.  A document is a tree of records; an attribute, *)
(* element or item that is absent is None, and a text that cannot be       *)
(* converted to a number is Bad.  Public settings are left out: they are   *)
(* passed on as they are.                                                  *)
(***************************************************************************)
EXTENDS Integers, Sequences, SequencesExt

CONSTANTS None, Bad

(* A name is [of, caps]: its letters and whether some are capitals.        *)
Lower(name) == IF name = None THEN None ELSE name.of

Truth(text) == IF text = None THEN None ELSE text \in {"true", "True"}

Present(s) == SelectSeq(s, LAMBDA x : x # None)

(* Extension and ExtensionSettings: what the agent makes of a document.    *)
NewExtension(name, version, state) ==
    [name |-> name, version |-> version, state |-> state, signature |-> None,
     uris |-> <<>>, multi |-> FALSE, settings |-> <<>>, invalid |-> FALSE]

NewSettings(name, seq, state, level, protected, thumbprint) ==
    [name |-> name, seq |-> seq, state |-> state, level |-> level,
     protected |-> protected, thumbprint |-> thumbprint]

(* The result of a step of the parser: the extension so far, and whether   *)
(* the step raised an ExtensionsConfigError or any other exception.        *)
Result(ext, raised) == [ext |-> ext, raised |-> raised]

----------------------------------------------------------------------------
(* ExtensionsConfig.                                                       *)

(* __get_dependency_level_from_node.                                       *)
Level(node) == IF node.level \in {None, Bad} THEN 0 ELSE node.level

(* __parse_and_add_extension_settings: settings that are not JSON are      *)
(* added without contents, so that there is something to report.           *)
AddSettings(r, node, name, level, state) ==
    CASE r.raised # "none" -> r
      [] node.seq = None -> Result(r.ext, "config")
      [] node.seq # None /\ ~node.isJson ->
            Result([r.ext EXCEPT !.settings =
                       Append(@, NewSettings(name, node.seq, state, level, None, None))], "none")
      [] node.seq # None /\ node.isJson ->
            FoldLeft(LAMBDA acc, body :
                        IF node.seq = Bad \/ acc.raised # "none" THEN Result(acc.ext, "other")
                        ELSE Result([acc.ext EXCEPT !.settings =
                                 Append(@, NewSettings(name, node.seq, state, level,
                                                       body.protected, body.thumbprint))], "none"),
                     r, node.bodies)

(* __parse_runtime_settings: single-config.                                *)
ParseRuntimeSettings(ext, node) ==
    IF Len(node.dependsOn) > 1 THEN Result(ext, "config")
    ELSE AddSettings(Result(ext, "none"), node.runtime[1], ext.name,
                     IF node.dependsOn = <<>> THEN 0 ELSE Level(node.dependsOn[1]), "enabled")

(* The last DependsOn that has the name counts.                            *)
LevelOf(dependsOn, name) ==
    LET named == SelectSeq(dependsOn, LAMBDA d : d.name = name)
    IN IF named = <<>> THEN 0 ELSE Level(Last(named))

(* __parse_extension_runtime_settings: multi-config.  An error in the      *)
(* middle leaves the settings before it.                                   *)
ParseExtensionRuntimeSettings(ext, node) ==
    IF \E i \in DOMAIN node.dependsOn : node.dependsOn[i].name = None
    THEN Result(ext, "config")
    ELSE FoldLeft(LAMBDA r, s :
                     IF r.raised = "none" /\ s.name = None THEN Result(r.ext, "config")
                     ELSE AddSettings(r, s, s.name, LevelOf(node.dependsOn, s.name),
                                      IF s.state = None THEN "enabled" ELSE s.state),
                  Result([ext EXCEPT !.multi = TRUE], "none"), node.extRuntime)

(* The nodes of PluginSettings for an extension; names differ in case.     *)
SettingsNodes(ext, nodes) == SelectSeq(nodes, LAMBDA n : Lower(n.name) = Lower(ext.name))

(* _parse_plugin_settings.                                                 *)
ParsePluginSettings(ext, nodes) ==
    LET mine == SettingsNodes(ext, nodes)
        ofVersion == SelectSeq(mine, LAMBDA n : n.version = ext.version)
        node == ofVersion[1]
    IN CASE mine = <<>> -> Result(ext, "none")
         [] mine # <<>> /\ (Len(ofVersion) # Len(mine) \/ Len(ofVersion) > 1) ->
                Result(ext, "config")
         [] Len(mine) = 1 /\ Len(ofVersion) = 1 ->
               CASE node.runtime # <<>> /\ node.extRuntime # <<>> -> Result(ext, "config")
                 [] node.extRuntime = <<>> /\ Len(node.runtime) > 1 -> Result(ext, "config")
                 [] node.extRuntime = <<>> /\ Len(node.runtime) = 1 ->
                        ParseRuntimeSettings(ext, node)
                 [] node.extRuntime # <<>> /\ node.runtime = <<>> ->
                        ParseExtensionRuntimeSettings(ext, node)
                 [] node.extRuntime = <<>> /\ node.runtime = <<>> -> Result(ext, "none")

(* _parse_plugin: without a state the rest is not read.                    *)
ParsePlugin(plugin) ==
    LET ext == NewExtension(plugin.name, plugin.version, plugin.state)
    IN IF plugin.state = None THEN Result(ext, "config")
       ELSE Result([ext EXCEPT !.signature = plugin.signature,
                               !.uris = Present(<<plugin.location, plugin.failover>>)
                                           \o plugin.additional], "none")

(* A configuration error is recorded in the extension; the others are not  *)
(* affected.                                                               *)
XmlExtension(plugin, nodes) ==
    LET p == ParsePlugin(plugin)
        r == IF p.raised = "none" THEN ParsePluginSettings(p.ext, nodes) ELSE p
    IN IF r.raised = "config" THEN Result([r.ext EXCEPT !.invalid = TRUE], "none") ELSE r

(* The pairs of version and signature that are complete; the last one of a *)
(* version counts.                                                         *)
SignatureMapping(pairs) ==
    LET complete == SelectSeq(pairs, LAMBDA p : p.version # None /\ p.signature # None)
        versions == {complete[i].version : i \in DOMAIN complete}
    IN [v \in versions |-> Last(SelectSeq(complete, LAMBDA p : p.version = v)).signature]

XmlFamily(f) ==
    [name |-> f.name, version |-> f.version, fromRsm |-> Truth(f.fromRsm),
     enabledForRsm |-> Truth(f.enabledForRsm), uris |-> f.uris,
     signatures |-> SignatureMapping(f.signatures)]

(* _InVMArtifactsProfile: onHold is a boolean or a text; Bad if it raises. *)
InVMArtifactsProfile(onHold) ==
    CASE onHold \in {"true", "True"} -> TRUE
      [] onHold \in {None, "false", "False"} -> FALSE
      [] OTHER -> Bad

(* _fetch_extensions_on_hold: a profile that is not there, cannot be       *)
(* fetched, is empty or malformed means that the VM is not on hold.        *)
FetchExtensionsOnHold(profile) == InVMArtifactsProfile(profile) = TRUE

(* _string_to_id, _ticks_to_utc_timestamp, _do_common_validations.         *)
Id(text) == IF text = None THEN 0 ELSE text

Timestamp(ticks) == IF ticks \in {None, Bad} THEN 0 ELSE ticks

BlobType(type) == IF type \in {"BlockBlob", "PageBlob"} THEN type ELSE "BlockBlob"

(* ExtensionsGoalStateFromExtensionsConfig, None if it raises.             *)
ParseExtensionsConfig(doc) ==
    LET results == [i \in DOMAIN doc.plugins |->
                       XmlExtension(doc.plugins[i], doc.pluginSettings)]
    IN IF \E i \in DOMAIN results : results[i].raised = "other" THEN None
       ELSE [extensions |-> [i \in DOMAIN results |-> results[i].ext],
             features |-> ToSet(doc.features),
             onHold |-> FetchExtensionsOnHold(doc.profile),
             families |-> [i \in DOMAIN doc.families |-> XmlFamily(doc.families[i])],
             blob |-> doc.blob, blobType |-> BlobType(doc.blobType),
             activity |-> Id(doc.activity), created |-> Timestamp(doc.ticks)]

----------------------------------------------------------------------------
(* vmSettings.                                                             *)

(* The settings of an extension.  Those of a multi-config extension have   *)
(* their own name, sequence number and state.                              *)
JsonSettings(gs, ext, s) ==
    IF ext.multi THEN NewSettings(s.name, s.seq, s.state, 0, s.protected, s.thumbprint)
    ELSE NewSettings(ext.name, gs.seq, ext.state, 0, s.protected, s.thumbprint)

(* The items that must be there.                                           *)
SettingsRaise(gs, ext, s) ==
    \/ s.protected # None /\ s.thumbprint = None
    \/ ext.multi /\ None \in {s.name, s.seq, s.state}
    \/ ~ext.multi /\ gs.seq = None

(* _parse_dependency_level.                                                *)
ParseDependencyLevel(ext, dependsOn) ==
    LET named(d) == {i \in DOMAIN ext.settings : ext.settings[i].name = d.name}
    IN CASE dependsOn = None -> Result(ext, "none")
         [] dependsOn # None /\ ~ext.multi ->
               IF Len(dependsOn) > 1 \/ (dependsOn # <<>> /\ dependsOn[1].level = None)
               THEN Result(ext, "other")
               ELSE Result(IF ext.settings = <<>> \/ dependsOn = <<>> THEN ext
                           ELSE [ext EXCEPT !.settings[1].level = dependsOn[1].level], "none")
         [] dependsOn # None /\ ext.multi ->
               FoldLeft(LAMBDA r, d :
                           IF r.raised # "none" \/ d.level = None \/ named(d) = {}
                           THEN Result(r.ext, "other")
                           ELSE Result([r.ext EXCEPT !.settings[
                                           CHOOSE i \in named(d) : \A j \in named(d) : j <= i
                                        ].level = d.level], "none"),
                        Result(ext, "none"), dependsOn)

(* One item of extensionGoalStates; every error is one of the document.    *)
JsonExtension(gs) ==
    LET new == [NewExtension(gs.name, gs.version, gs.state) EXCEPT
                   !.signature = gs.signature,
                   !.multi = (gs.isMultiConfig = TRUE),
                   !.uris = Present(<<gs.location, gs.failover>>)
                               \o (IF gs.additional = None THEN <<>> ELSE gs.additional)]
        settings == IF gs.settings = None THEN <<>> ELSE gs.settings
    IN IF \/ None \in {gs.name, gs.version}
          \/ gs.state \notin {"enabled", "disabled", "uninstall"}
          \/ ~new.multi /\ Len(settings) > 1
          \/ \E i \in DOMAIN settings : SettingsRaise(gs, new, settings[i])
       THEN Result(new, "other")
       ELSE ParseDependencyLevel(
               [new EXCEPT !.settings = [i \in DOMAIN settings |->
                                            JsonSettings(gs, new, settings[i])]],
               gs.dependsOn)

JsonFamily(f) ==
    [name |-> f.name, version |-> f.version, fromRsm |-> f.fromRsm,
     enabledForRsm |-> f.enabledForRsm, uris |-> IF f.uris = None THEN <<>> ELSE f.uris,
     signatures |-> SignatureMapping(f.signatures)]

(* _parse_status_upload_blob.                                              *)
BlobRaises(blob) == blob # None /\ blob.value = None

(* ExtensionsGoalStateFromVmSettings, None if it raises.                   *)
ParseVmSettings(doc) ==
    LET results == [i \in DOMAIN doc.extensions |-> JsonExtension(doc.extensions[i])]
    IN IF \/ \E i \in DOMAIN results : results[i].raised # "none"
          \/ BlobRaises(doc.blob)
          \/ \E i \in DOMAIN doc.features : doc.features[i] = None
          \/ \E i \in DOMAIN doc.families : doc.families[i].name = None
       THEN None
       ELSE [extensions |-> [i \in DOMAIN results |-> results[i].ext],
             features |-> ToSet(doc.features),
             onHold |-> (doc.onHold = TRUE),
             families |-> [i \in DOMAIN doc.families |-> JsonFamily(doc.families[i])],
             blob |-> IF doc.blob = None THEN None ELSE doc.blob.value,
             blobType |-> BlobType(IF doc.blob = None THEN None ELSE doc.blob.type),
             activity |-> Id(doc.activity), created |-> Timestamp(doc.ticks)]

----------------------------------------------------------------------------
(* CRP: a goal state, and the documents it becomes.  A handler is [name,   *)
(* version, state, signature, uris, multi, settings] as the agent should   *)
(* read it; a fault is what is wrong with the documents of one handler.    *)

ContainedFaults ==
    {"noState", "settingsVersion", "settingsTwice", "bothKinds", "runtimeTwice",
     "dependsTwice", "noDependsName", "noSettingsName", "noSeq"}

HarmlessFaults == {"none", "casing"}

At(s, i) == IF i \in DOMAIN s THEN s[i] ELSE None

XmlPlugin(h, fault) ==
    [name |-> h.name, version |-> h.version, signature |-> h.signature,
     state |-> IF fault = "noState" THEN None ELSE h.state,
     location |-> At(h.uris, 1), failover |-> At(h.uris, 2),
     additional |-> SubSeq(h.uris, 3, Len(h.uris))]

XmlNode(h, i, fault) ==
    LET s == h.settings[i]
    IN [name |-> IF fault = "noSettingsName" /\ i = Len(h.settings) THEN None ELSE s.name,
        state |-> s.state,
        seq |-> CASE fault = "noSeq" /\ i = Len(h.settings) -> None
                  [] fault = "badSeq" -> Bad
                  [] OTHER -> s.seq,
        isJson |-> fault # "badJson",
        bodies |-> <<[protected |-> s.protected, thumbprint |-> s.thumbprint]>>]

XmlPluginSettings(h, fault) ==
    LET nodes == [i \in DOMAIN h.settings |-> XmlNode(h, i, fault)]
        depends == [i \in DOMAIN h.settings |->
                       [name |-> IF h.multi /\ fault # "noDependsName"
                                 THEN h.settings[i].name ELSE None,
                        level |-> IF fault = "badLevel" THEN Bad ELSE h.settings[i].level]]
        node == [name |-> IF fault = "casing" THEN [h.name EXCEPT !.caps = ~@] ELSE h.name,
                 version |-> IF fault = "settingsVersion" THEN Bad ELSE h.version,
                 dependsOn |-> IF fault = "dependsTwice" THEN depends \o depends ELSE depends,
                 runtime |-> IF h.multi THEN (IF fault = "bothKinds" THEN nodes ELSE <<>>)
                             ELSE IF fault = "runtimeTwice" THEN nodes \o nodes ELSE nodes,
                 extRuntime |-> IF h.multi \/ fault = "bothKinds" THEN nodes ELSE <<>>]
    IN CASE h.settings = <<>> -> <<>>
         [] h.settings # <<>> /\ fault = "settingsTwice" -> <<node, node>>
         [] h.settings # <<>> /\ fault # "settingsTwice" -> <<node>>

(* The documents of a goal state g; faults[i] is the fault of handler i.   *)
ExtensionsConfig(g, faults) ==
    [plugins |-> [i \in DOMAIN g.handlers |-> XmlPlugin(g.handlers[i], faults[i])],
     pluginSettings |-> Reverse(FlattenSeq(
        [i \in DOMAIN g.handlers |-> XmlPluginSettings(g.handlers[i], faults[i])])),
     features |-> SetToSeq(g.features),
     profile |-> CASE g.onHold -> "True" [] ~g.onHold -> None,
     families |-> <<[name |-> "Prod", version |-> g.rsm, uris |-> <<>>, signatures |-> <<>>,
                     fromRsm |-> IF g.rsm = None THEN None ELSE "True",
                     enabledForRsm |-> IF g.rsm = None THEN "false" ELSE "true"]>>,
     blob |-> "url", blobType |-> "PageBlob", activity |-> None, ticks |-> g.created]

JsonHandler(h, fault) ==
    [name |-> h.name, version |-> h.version, signature |-> h.signature,
     state |-> IF fault = "noState" THEN None ELSE h.state,
     isMultiConfig |-> IF h.multi THEN TRUE ELSE None,
     location |-> At(h.uris, 1), failover |-> At(h.uris, 2),
     additional |-> IF Len(h.uris) <= 2 THEN None ELSE SubSeq(h.uris, 3, Len(h.uris)),
     seq |-> IF h.settings = <<>> \/ fault = "noSeq" THEN None ELSE h.settings[1].seq,
     settings |-> IF h.settings = <<>> THEN None ELSE
        [i \in DOMAIN h.settings |->
           [name |-> IF fault = "noSettingsName" THEN None ELSE h.settings[i].name,
            seq |-> IF fault = "noSeq" THEN None ELSE h.settings[i].seq,
            state |-> h.settings[i].state, protected |-> h.settings[i].protected,
            thumbprint |-> IF fault = "noThumbprint" THEN None ELSE h.settings[i].thumbprint]],
     dependsOn |-> IF h.settings = <<>> THEN None ELSE
        [i \in DOMAIN h.settings |->
           [name |-> IF fault = "noDependsName" THEN None ELSE h.settings[i].name,
            level |-> h.settings[i].level]]]

VmSettings(g, faults) ==
    [extensions |-> [i \in DOMAIN g.handlers |-> JsonHandler(g.handlers[i], faults[i])],
     features |-> SetToSeq(g.features), onHold |-> IF g.onHold THEN TRUE ELSE None,
     families |-> <<[name |-> "Prod", version |-> g.rsm, uris |-> None, signatures |-> <<>>,
                     fromRsm |-> IF g.rsm = None THEN None ELSE TRUE,
                     enabledForRsm |-> g.rsm # None]>>,
     blob |-> [value |-> "url", type |-> "PageBlob"], activity |-> None, ticks |-> g.created]

----------------------------------------------------------------------------
(* What the readers of the documents promise.                              *)

(* What the agent should read.  The state of the settings of a single-     *)
(* config extension is not used: one document says "enabled" and the other *)
(* repeats the state of the handler.                                       *)
Canonical(ext) ==
    IF ext.multi THEN ext
    ELSE [ext EXCEPT !.settings = [i \in DOMAIN ext.settings |->
                                      [ext.settings[i] EXCEPT !.state = "enabled"]]]

CanonicalGoalState(gs) ==
    IF gs = None THEN None
    ELSE [gs EXCEPT !.extensions = [i \in DOMAIN gs.extensions |-> Canonical(gs.extensions[i])]]

Wanted(h) == [name |-> h.name, version |-> h.version, state |-> h.state,
              signature |-> h.signature, uris |-> h.uris, multi |-> h.multi,
              settings |-> h.settings, invalid |-> FALSE]

(* The two documents of a goal state read the same, and as CRP meant them. *)
ReadAlike(g, faults) ==
    LET xml == CanonicalGoalState(ParseExtensionsConfig(ExtensionsConfig(g, faults)))
    IN /\ xml = CanonicalGoalState(ParseVmSettings(VmSettings(g, faults)))
       /\ xml # None
       /\ xml.extensions = [i \in DOMAIN g.handlers |-> Canonical(Wanted(g.handlers[i]))]
       /\ xml.onHold = g.onHold /\ xml.features = g.features /\ xml.created = g.created

(* A fault in the ExtensionsConfig of a handler does not touch the others, *)
(* and leaves of the handler what is needed to report the error.           *)
Contained(g, faults) ==
    LET xml == ParseExtensionsConfig(ExtensionsConfig(g, faults))
    IN /\ xml # None
       /\ \A i \in DOMAIN g.handlers :
             LET ext == xml.extensions[i]
             IN /\ ext.name = g.handlers[i].name /\ ext.version = g.handlers[i].version
                /\ faults[i] \in HarmlessFaults
                      => Canonical(ext) = Canonical(Wanted(g.handlers[i]))
============================================================================
