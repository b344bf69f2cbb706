-------------------------- MODULE MCExtSequencing --------------------------
(***************************************************************************)
(* Instances of ExtSequencing for TLC: chains and diamonds of three        *)
(* extensions, with settings that stay or change, removed and on hold, in  *)
(* both formats and with faults.                                           *)
(***************************************************************************)
EXTENDS ExtSequencing, TLC

CONSTANTS a, b, c

Docs == INSTANCE GoalStateDocs

Reading == INSTANCE GoalStateReading

On(level, seq) == [request |-> "enabled", level |-> level, seq |-> seq]
Off(level, seq) == [request |-> "uninstall", level |-> level, seq |-> seq]

NewDoc(channel, kind, items) ==
    [channel |-> channel, kind |-> kind, items |-> items,
     faults |-> [e \in DOMAIN items |-> "none"]]

Chain == a :> On(0, 1) @@ b :> On(1, 1) @@ c :> On(2, 1)

(* A chain; two extensions that a third depends on, one with new settings; *)
(* one to uninstall, one without settings, one whose part is invalid; goal *)
(* states that are not supported and on hold; a fault in vmSettings.       *)
AllDocuments ==
    [chain |-> [NewDoc("WireServer", "normal", Chain) EXCEPT !.faults[a] = "casing"],
     diamond |-> NewDoc("HostGAPlugin", "normal",
                        a :> On(0, 1) @@ b :> On(0, 2) @@ c :> On(1, 1)),
     invalid |-> [NewDoc("WireServer", "normal",
                         a :> Off(1, 1) @@ b :> On(1, 2) @@ c :> On(0, 0))
                     EXCEPT !.faults[b] = "settingsVersion"],
     unsupported |-> NewDoc("HostGAPlugin", "unsupported", a :> On(0, 2)),
     onHold |-> NewDoc("WireServer", "onHold", a :> On(0, 2) @@ b :> On(1, 2)),
     rejected |-> [NewDoc("HostGAPlugin", "normal", Chain) EXCEPT !.faults[b] = "noSeq"]]

AllContents == [n \in DOMAIN AllDocuments |-> Reading!Read(AllDocuments[n])]

(* No policy file, and one that allows a if it is signed, with its name in *)
(* capitals, and b with a runtime policy.                                  *)
PolicyOf(allowOnly, signature, extensions) ==
    [exists |-> TRUE, isJson |-> TRUE,
     policy |-> [others |-> FALSE, version |-> <<0, 1>>,
                 extensionPolicies |-> [others |-> FALSE, allowOnly |-> allowOnly,
                                        signature |-> signature, extensions |-> extensions]]]

Individual(e, caps, signature, runtime) ==
    [name |-> [of |-> e, caps |-> caps],
     policy |-> [others |-> FALSE, signature |-> signature, runtime |-> runtime]]

NoPolicyFile == [exists |-> FALSE, isJson |-> FALSE, policy |-> None]

SomePolicyFiles ==
    {NoPolicyFile,
     PolicyOf(TRUE, None,
              <<Individual(a, TRUE, TRUE, None), Individual(b, FALSE, FALSE, "rules")>>)}

----------------------------------------------------------------------------
(* The parsers, on every goal state of up to two handlers, single- and     *)
(* multi-config, without settings, with settings and with two of them.     *)

NameOf(e) == [of |-> e, caps |-> FALSE]

SettingsOf(name, state) ==
    [name: {name}, seq: {1}, state: {state}, level: {0, 2}, protected: {None}, thumbprint: {None}]
    \cup [name: {name}, seq: {2}, state: {state}, level: {1}, protected: {"p"}, thumbprint: {"t"}]

SingleConfig(e) ==
    [name: {NameOf(e)}, version: {1}, state: {"enabled", "uninstall"}, signature: {None},
     uris: {<<>>, <<"u">>, <<"u", "v", "w">>}, multi: {FALSE},
     settings: {<<>>} \cup {<<s>> : s \in SettingsOf(NameOf(e), "enabled")}]

MultiConfigOf(e) ==
    [name: {NameOf(e)}, version: {1}, state: {"enabled"}, signature: {"sig"}, uris: {<<"u">>},
     multi: {TRUE},
     settings: {<<s, t>> : s \in SettingsOf(NameOf(b), "enabled"),
                           t \in SettingsOf(NameOf(c), "disabled")}]

GoalStates ==
    [handlers: {<<h, k>> : h \in SingleConfig(a) \cup MultiConfigOf(a), k \in SingleConfig(b)},
     features: {{"F"}}, onHold: {TRUE}, rsm: {"2.0"}, created: {7}]
    \cup [handlers: {<<h>> : h \in SingleConfig(a) \cup MultiConfigOf(a)},
          features: {{}}, onHold: {FALSE}, rsm: {None}, created: {0}]

Faults(g, f) == [i \in DOMAIN g.handlers |-> IF i = 1 THEN f ELSE "none"]

(* The ExtensionsConfig and the vmSettings of a goal state read the same,  *)
(* and as CRP meant them, whatever the case of the names.                  *)
ASSUME FormatsAgree ==
    \A g \in GoalStates, f \in Docs!HarmlessFaults : Docs!ReadAlike(g, Faults(g, f))

(* What is wrong with one handler in an ExtensionsConfig does not change   *)
(* how the others are read, and the handler can still be reported.         *)
ASSUME FaultsAreContained ==
    \A g \in GoalStates, f \in Docs!ContainedFaults : Docs!Contained(g, Faults(g, f))

(* Two extensions in all positions, with one of the faults.  Two faults    *)
(* are left out: a level that is not a number is read as the lowest, and   *)
(* an extension without a state is taken for one to uninstall, first.      *)
DocumentsWith(fault) ==
    [channel: {"WireServer", "HostGAPlugin"}, kind: {"normal"},
     items: [{a, c} -> {On(0, 0), On(1, 1), On(2, 1), Off(1, 2)}],
     faults: {a :> fault @@ c :> "none", a :> "none" @@ c :> fault}]

(* The agent reads a document as it was meant, or rejects it.              *)
ASSUME DocumentsReadAsMeant ==
    \A f \in (Docs!ContainedFaults \cup Docs!HarmlessFaults \cup {"badSeq", "badJson"})
              \ {"noState"} :
       \A d \in DocumentsWith(f) :
          LET read == Reading!Read(d) IN read # None => ReadsAsMeant(d, read)

----------------------------------------------------------------------------
(* Status files: with and without messages and substatuses, with texts up  *)
(* to and beyond the limits, malformed, and too large.                     *)

Formatted ==
    {None, [lang |-> 1, message |-> 1023], [lang |-> 1, message |-> 1024],
     [lang |-> None, message |-> 5]}

Substatus ==
    [status: {"success"}, name: {None, 10}, formatted: Formatted]
    \cup [status: {"bogus"}, name: {10}, formatted: {None}]

Large(n, message) ==
    [i \in 1..n |-> [status |-> "error", name |-> 20000,
                     formatted |-> [lang |-> 1, message |-> message]]]

Subs ==
    {None, <<>>} \cup {<<x>> : x \in Substatus} \cup {<<x, None, y>> : x, y \in Substatus}
    \cup {Large(n, m) : n \in {5, 6, 7, 13}, m \in {1, 10239, 10240, 50000}}

StatusItems ==
    [status: {None, "transitioning", "error", "bogus"}, code: {0}, formatted: Formatted, subs: Subs]

StatusFiles ==
    {f \in [exists: {TRUE}, readable: {TRUE}, json: {TRUE}, data: {"list"}, item: StatusItems,
            size: {10000, Status!MaxSize, Status!MaxSize + 1, 1000000}] : Status!WellFormed(f)}

OtherFiles ==
    {[StatusFile("success") EXCEPT !.data = d] : d \in {"null", "notList", "empty"}}
    \cup {[StatusFile("success") EXCEPT !.readable = FALSE],
          [StatusFile("success") EXCEPT !.json = FALSE]}
    \cup {StatusFile(v) : v \in Values}

(* What the agent reports of a status file is a known status of bounded    *)
(* size, and it reads through a file that is being written.                *)
ASSUME StatusesAreBounded ==
    \A f \in StatusFiles \cup OtherFiles :
        /\ Status!CollectsWithinBounds(f)
        /\ \A p \in OtherFiles : Status!RetryReadsThrough(p, f)

Beats == {Status!CollectHeartbeat(r, h) :
             r \in BOOLEAN, h \in [file: BOOLEAN, recent: BOOLEAN,
                                  data: {"beat", "malformed"}, status: {"Ready", "NotReady"},
                                  text: {None, 3}]}

(* The agent takes a goal state for converged when CRP does.               *)
ASSUME SummariesMatch ==
    \A i, m, d \in BOOLEAN, beat \in Beats,
       exts \in {<<>>, <<None>>} \cup {<<Status!CollectExtStatus(<<f>>).status>> : f \in OtherFiles} :
          LET reports == Status!ReportExtHandlerStatus(
                            [status |-> "NotReady", message |-> None], i, m, d, beat, exts)
          IN Status!SummaryMatchesBlob([handlers |-> reports, update |-> None,
                                        aggregate |-> "Success", fastTrack |-> TRUE])

----------------------------------------------------------------------------
(* Policy files with up to two items, which may be for the same name in    *)
(* different cases, of the wrong type or not in the schema.                *)

Signatures == {None, Bad, TRUE, FALSE}

PolicyItems ==
    {Individual(e, caps, signature, runtime) :
        e \in {a, b}, caps \in BOOLEAN, signature \in Signatures, runtime \in {None, "rules"}}

AllPolicyFiles ==
    {PolicyOf(allowOnly, signature, extensions) :
        allowOnly \in {None, Bad, TRUE}, signature \in Signatures,
        extensions \in {None} \cup {<<x>> : x \in PolicyItems}
                       \cup {<<x, y>> : x, y \in {p \in PolicyItems : p.policy.runtime = None}}}

(* The policy file means what its schema says.                             *)
ASSUME PolicyMeansWhatItSays ==
    \A file \in AllPolicyFiles :
        /\ Policy!NoRequirementIsDropped(file)
        /\ \A e \in {a, b, c} : /\ Policy!IndividualGoesBeforeGlobal(file, Name(e))
                                /\ Policy!RuntimePolicyIsNotIgnored(file, Name(e))

(* A version that the agent does not know, or cannot read, is rejected,    *)
(* however many of its parts are given.                                    *)
ASSUME NewerVersionsAreRejected ==
    \A v \in UNION {[1..n -> 0..2] : n \in 1..4} :
        Policy!UpdatePolicy([PolicyOf(None, None, None) EXCEPT !.policy.version = v]) = Bad
            <=> Len(v) > 3 \/ v[1] > 0 \/ (Len(v) > 1 /\ v[2] > 1)
                \/ (Len(v) > 2 /\ v[2] = 1 /\ v[3] > 0)
============================================================================
