-------------------------- MODULE GoalStateReading --------------------------
(***************************************************************************)
(* What the agent reads of a goal state with one extension per handler,    *)
(* for ExtSequencing: CRP writes the goal state as a document of module    *)
(* GoalStateDocs, perhaps with a fault, and the agent parses it.           *)
(***************************************************************************)
EXTENDS Integers, Sequences, SequencesExt

CONSTANTS
    MultiConfig,    \* the extensions whose handler supports multi-config
    Signed,         \* the extensions whose package has a signature
    None, Bad       \* see GoalStateDocs

Docs == INSTANCE GoalStateDocs

Status == INSTANCE StatusDocs

Name(e) == [of |-> e, caps |-> FALSE]

CrpHandler(e, item) ==
    LET name == Name(e)
    IN [name |-> name, version |-> 1, state |-> item.request,
        signature |-> IF e \in Signed THEN "signature" ELSE None,
        uris |-> <<"uri">>, multi |-> e \in MultiConfig,
        settings |-> IF item.seq = 0 THEN <<>>
                     ELSE <<[name |-> name, seq |-> item.seq, state |-> "enabled",
                             level |-> item.level, protected |-> None, thumbprint |-> None]>>]

(* The text of a document, and what the agent reads in it.                 *)
Parse(d) ==
    LET exts == SetToSeq(DOMAIN d.items)
        crp == [handlers |-> [i \in DOMAIN exts |-> CrpHandler(exts[i], d.items[exts[i]])],
                features |-> IF d.kind = "unsupported" THEN {"Unknown"} ELSE {},
                onHold |-> d.kind = "onHold", rsm |-> None, created |-> 1]
        faults == [i \in DOMAIN exts |-> d.faults[exts[i]]]
    IN IF d.channel = "WireServer"
       THEN Docs!ParseExtensionsConfig(Docs!ExtensionsConfig(crp, faults))
       ELSE Docs!ParseVmSettings(Docs!VmSettings(crp, faults))

ItemOf(ext) ==
    [request |-> ext.state, invalid |-> ext.invalid,
     level |-> IF ext.settings = <<>> THEN 0 ELSE ext.settings[1].level,
     seq |-> IF ext.settings = <<>> THEN 0 ELSE ext.settings[1].seq]

(* The goal state that the agent works on, None if the document is         *)
(* rejected.                                                               *)
Read(d) ==
    LET read == Parse(d)
        index(e) == CHOOSE i \in DOMAIN read.extensions : read.extensions[i].name.of = e
    IN IF read = None THEN None
       ELSE [kind |-> IF read.onHold THEN "onHold"
                      ELSE IF read.features \subseteq Status!SupportedFeatures THEN "normal"
                      ELSE "unsupported",
             items |-> [e \in {read.extensions[i].name.of : i \in DOMAIN read.extensions} |->
                           ItemOf(read.extensions[index(e)])]]
=============================================================================
