---------------------------- MODULE MCGoalState ----------------------------
(***************************************************************************)
(* Small instances of GoalState for TLC.                                   *)
(***************************************************************************)
EXTENDS GoalState, SequencesExt, Functions
----------------------------------------------------------------------------
(* The history of goal states: it holds two.                               *)
Past == INSTANCE GoalStateHistory WITH MaxArchivedStates <- 2

(* An iteration of the main loop: a parse error, or a goal state of which  *)
(* some documents are saved and which is archived, unless processing it    *)
(* fails first.  In each the oldest item may be one that cannot be deleted *)
(* or archived.                                                            *)
Iterations ==
    [type : {"parseError"}, stuck : BOOLEAN]
        \cup [type : {"goalState"}, docs : {<<>>, <<"goalState">>, <<"goalState", "vmSettings">>},
              manifest : BOOLEAN, archive : {"no", "yes", "fails"}, stuck : BOOLEAN]

Oldest(h, oldest) == IF oldest /\ h.items # {} THEN Last(Past!NewestFirst(h.items)).name ELSE Past!Name(-1, 0)

Iterate(states, it) ==
    LET h        == Last(states)
        fetched  == IF it.type = "parseError" THEN Past!ParseError(h, 0, Oldest(h, it.stuck))
                    ELSE Past!NewGoalState(h, h.clock, it.docs, Oldest(h, it.stuck))
        run      == IF it.manifest THEN Past!SaveManifest(fetched, "manifest") ELSE fetched
        archived == Past!Archive(run, Oldest(run, it.archive = "fails"))
    IN IF it.type = "parseError" THEN Append(states, fetched)
       ELSE IF it.archive = "no" THEN states \o <<fetched, run>>
       ELSE states \o <<fetched, run, archived>>

HistoryIsKept(h, it) ==
    LET all == Iterate(<<h>>, it)
        run == all[3]
        archived == all[4]
    IN /\ Past!PurgeKeepsNewest(h, Past!Purge(h, Oldest(h, it.stuck)), Oldest(h, it.stuck))
       /\ it.type = "goalState" /\ it.archive # "no" =>
             /\ Past!CurrentIsKept(run, archived)
             /\ Past!ArchivingLosesNothing(run, archived)
             /\ it.archive = "yes" => Past!OldOnesAreArchived(run, archived)

ASSUME HistoryOfGoalStates ==
    \A a, b, c \in Iterations :
        LET one == Last(Iterate(<<Past!AtStart>>, a))
            two == Last(Iterate(<<one>>, b))
        IN HistoryIsKept(two, c)

(* The placeholder survives every clean up of the legacy files.            *)
ASSUME LegacyFilesAreRemoved ==
    \A files \in SUBSET [legacy : BOOLEAN, placeholder : BOOLEAN, stuck : BOOLEAN] :
        /\ {f \in files : f.placeholder} \subseteq Past!PurgeLegacy(files)
        /\ \A f \in Past!PurgeLegacy(files) : f.legacy => f.placeholder \/ f.stuck

----------------------------------------------------------------------------
(* Remote access: two users, and an account "o" that somebody else made.   *)
Access == INSTANCE RemoteAccess WITH PartOf <- {}

Asked ==
    LET user(n, e) == [name |-> n, expires |-> e]
    IN {<<>>} \cup {<<user("u", e)>> : e \in {2, 4, Access!NoDate}}
              \cup {<<user("u", e), user("v", 4)>> : e \in {2, 4}}

RemoteAccessDocs ==
    {[there |-> FALSE, users |-> <<>>]} \cup {[there |-> TRUE, users |-> list] : list \in Asked}

UserFaults ==
    [{"u", "v"} -> [add : {"none", "useradd", "password", "sudoer"}, remove : {"none", "userdel", "sudoers"}]]

NoFaults == [n \in {"u", "v"} |-> [add |-> "none", remove |-> "none"]]

WithOther ==
    [Access!AtStart EXCEPT !.accounts = [n \in {"o"} |-> [jit |-> FALSE, password |-> TRUE]]]

(* Goal states at the times 1, 3 and 3, the last two with everything that  *)
(* may fail, and one at 3 in which nothing does.                           *)
ASSUME RemoteAccessIsAsAsked ==
    \A a, b, c \in RemoteAccessDocs, faults \in UserFaults, lists \in BOOLEAN :
        LET one   == Access!Run(WithOther, a, 1, NoFaults, TRUE)
            two   == Access!Run(one, b, 3, faults, lists)
            three == Access!Run(two, c, 3, faults, TRUE)
        IN /\ \A s \in {one, two, three} :
                 /\ Access!AccountsAreComplete(s)
                 /\ Access!StopsLookingWhenDone(s)
           /\ Access!OthersAreLeftAlone(one, b, two)
           /\ Access!OthersAreLeftAlone(two, c, three)
           /\ \A d \in {x \in RemoteAccessDocs :
                          x.there /\ \A u \in Range(x.users) : u.expires # Access!NoDate} :
                 Access!AccountsAreAsAsked(d, 3, Access!Run(three, d, 3, NoFaults, TRUE))
============================================================================
