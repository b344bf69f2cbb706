---------------------------- MODULE RemoteAccess ----------------------------
(***************************************************************************)
(* The accounts that the goal state asks for, for a while                  *)
(* (ga/remoteaccess.py), and the calls of the OS that they are made and    *)
(* removed with (common/osutil/default.py).  run is called for every new   *)
(* incarnation of the goal state.                                          *)
(*                                                                         *)
(* The state: accounts maps the name of an account to [jit, password], jit *)
(* says that its comment is JIT_Account, password that one was set;        *)
(* sudoers, the names in the agent's file of sudoers; check,               *)
(* _check_existing_jit_users; stuck, that a userdel failed (history).      *)
(***************************************************************************)
EXTENDS Integers, Sequences, SequencesExt, FiniteSets, FiniteSetsExt, Functions

CONSTANT
    PartOf      \* pairs <<n, m>>: the name n is a part of the name m

NoDate == -1 \* an expiration that cannot be parsed

NoAccounts == [n \in {} |-> [jit |-> TRUE, password |-> TRUE]]

AtStart == [accounts |-> NoAccounts, sudoers |-> {}, check |-> TRUE, stuck |-> FALSE]

(* _get_existing_jit_users.                                                *)
JitUsers(s) == {n \in DOMAIN s.accounts : s.accounts[n].jit}

----------------------------------------------------------------------------
(* The OS.  A fault is [add, remove]: the step of adding, and the step of  *)
(* removing, that fails for a user.                                        *)

(* useradd: an account that is there already is left as it is.             *)
UserAdd(s, n) ==
    IF n \in DOMAIN s.accounts THEN s
    ELSE [s EXCEPT !.accounts = [m \in DOMAIN @ \cup {n} |->
                                    IF m = n THEN [jit |-> TRUE, password |-> FALSE] ELSE @[m]]]

(* chpasswd.                                                               *)
ChPasswd(s, n) == [s EXCEPT !.accounts[n].password = TRUE]

(* conf_sudoer: adds the line of a user, or removes all the lines that the *)
(* name is a part of.                                                      *)
ConfSudoer(s, n) == [s EXCEPT !.sudoers = @ \cup {n}]

RemoveSudoer(s, n) == [s EXCEPT !.sudoers = {m \in @ : m # n /\ <<n, m>> \notin PartOf}]

(* del_account: that userdel failed is not noticed.                        *)
DelAccount(s, n, fault) ==
    LET deleted == IF fault.remove = "userdel" THEN [s EXCEPT !.stuck = TRUE]
                   ELSE [s EXCEPT !.accounts = Restrict(@, DOMAIN @ \ {n})]
    IN [error |-> fault.remove = "sudoers",
        state |-> IF fault.remove = "sudoers" THEN deleted ELSE RemoveSudoer(deleted, n)]

----------------------------------------------------------------------------
(* The handler.                                                            *)

(* _add_user: when a step fails after useradd the account is removed.  The *)
(* error of this is logged for the user, the loop goes on.                 *)
AddUser(s, n, fault) ==
    LET added == UserAdd(s, n)
        named == ChPasswd(added, n)
    IN CASE fault.add = "useradd" /\ n \notin DOMAIN s.accounts -> s
         [] fault.add = "password" -> DelAccount(added, n, fault).state
         [] fault.add = "sudoer" -> DelAccount(named, n, fault).state
         [] OTHER -> ConfSudoer(named, n)

(* A user of the goal state, [name, expires]; an expiration that cannot be *)
(* parsed is an error of this user.                                        *)
HandleUser(existing, now, faults, s, user) ==
    LET n == user.name
    IN IF user.expires = NoDate THEN s
       ELSE IF n \notin existing /\ now < user.expires THEN AddUser(s, n, faults[n])
       ELSE IF n \in existing /\ now > user.expires THEN DelAccount(s, n, faults[n]).state
       ELSE s

RemoveUsers(s, names, faults) ==
    FoldLeft(LAMBDA r, n : LET d == DelAccount(r.state, n, faults[n])
                           IN [state |-> d.state, error |-> r.error \/ d.error],
             [state |-> s, error |-> FALSE], SetToSeq(names))

(* run and _handle_remote_access: access is [there, users], the list of    *)
(* the goal state if it has one; lists says that the accounts can be       *)
(* listed.                                                                 *)
Run(s, access, now, faults, lists) ==
    LET existing == JitUsers(s)
        checked  == [s EXCEPT !.check = TRUE]
        handled  == FoldLeft(LAMBDA r, u : HandleUser(existing, now, faults, r, u), checked, access.users)
        gone     == existing \ {u.name : u \in Range(access.users)}
        removed  == RemoveUsers(s, existing, faults)
    IN IF access.there
       THEN IF lists THEN RemoveUsers(handled, gone, faults).state ELSE checked
       ELSE IF s.check /\ lists
            THEN [removed.state EXCEPT !.check = removed.error]
            ELSE s

----------------------------------------------------------------------------
(* What this code promises.                                                *)

(* After a run in which nothing fails the accounts are those of the goal   *)
(* state that have not expired, whatever failed before.                    *)
AccountsAreAsAsked(access, now, after) ==
    JitUsers(after) = {u.name : u \in {v \in Range(access.users) : now < v.expires}}

(* No account stays behind half done: one that the agent has made has its  *)
(* password and is a sudoer, unless removing it failed.                    *)
AccountsAreComplete(s) ==
    (~s.stuck /\ PartOf = {})
        => \A n \in JitUsers(s) : s.accounts[n].password /\ n \in s.sudoers

(* The agent stops looking for accounts only when there are none, unless   *)
(* removing one failed.                                                    *)
StopsLookingWhenDone(s) == ~s.check => s.stuck \/ JitUsers(s) = {}

(* The accounts that others have made are never removed or changed, if the *)
(* goal state asks for none of the same name.                              *)
OthersAreLeftAlone(before, access, after) ==
    \A n \in DOMAIN before.accounts \ JitUsers(before) :
        (\A u \in Range(access.users) : u.name # n)
            => n \in DOMAIN after.accounts /\ after.accounts[n] = before.accounts[n]
============================================================================
