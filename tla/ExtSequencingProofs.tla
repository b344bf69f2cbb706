------------------------- MODULE ExtSequencingProofs -------------------------
(***************************************************************************)
(* Proofs about ExtSequencing: extensions are enabled in the order of      *)
(* their dependencies, a status is left of each, handlers are removed only *)
(* on request, and the first goal state is done when it has converged.     *)
(*                                                                         *)
(* The inductive invariant IInv says, of the goal state being processed,   *)
(* what is true of the extensions that are done with (handlers \ todo):    *)
(* those that others depend on have succeeded, unless an error stops the   *)
(* rest (InOrder), and each enabled one has a handler status (StatusLeft). *)
(* The documents enter through ReadingAssumption only.                     *)
(***************************************************************************)
EXTENDS ExtSequencing, WellFoundedInduction, TLAPS

(* The goal states that CRP can create. *)
Published == {GoalStateOf(i, n) : i \in 1..MaxGoalStates, n \in DOMAIN Documents}

(* The parts of the state that the properties are about are in range. *)
Types ==
    /\ goalState \in Published
    /\ gs \in Published \cup {NoGoalState}
    /\ installed \subseteq Exts
    /\ hstatus \in [Exts -> {"none", "Ready", "NotReady"}]
    /\ files \in [Exts -> [Seqs -> Values]]
    /\ proc \in [Exts -> Seqs \cup {0}]
    /\ pc \in {"loop", "process", "wait", "report"}
    /\ last \in Nat
    /\ depError \in BOOLEAN

(* The goal state that is being processed, or was processed last. *)
Processing ==
    /\ pc # "loop" => gs.id # 0
    /\ IF gs.id = 0 THEN handlers = {}
       ELSE gs.content # None /\ handlers = DOMAIN gs.content.items
    /\ todo \subseteq handlers
    /\ todo # {} => gs.content.kind = "normal" /\ pc \in {"process", "wait"}
    /\ pc \in {"process", "wait"} => gs.content.kind # "onHold"
    /\ pc \in {"loop", "report"} => ~depError
    /\ pc = "wait" =>
          /\ gs.content.kind = "normal" /\ ~depError
          /\ waiting \in handlers \ todo
          /\ ~Item(waiting).invalid /\ Item(waiting).seq # 0

(* An extension that others depend on has succeeded when it is done with,  *)
(* and its processes are gone.                                             *)
Succeeded(d) ==
    /\ ~Item(d).invalid
    /\ Item(d).seq # 0 => files[d][Item(d).seq] = "success"

InOrder ==
    /\ \A e \in Exts : proc[e] # 0 => files[e][proc[e]] # "success"
    /\ (/\ pc \in {"process", "wait"} /\ gs.content.kind = "normal"
        /\ ~depError /\ ~Blocked)
          => \A d \in handlers \ todo :
                (/\ Item(d).request = "enabled" /\ OthersDependOn(d)
                 /\ ~(pc = "wait" /\ waiting = d))
                    => Succeeded(d)

(* An extension that is done with has a handler status. *)
HasStatus(es) == \A e \in es : Item(e).request = "enabled" => hstatus[e] # "none"

StatusLeft ==
    gs.id # 0 /\ gs.content.kind = "normal" =>
        /\ pc \in {"process", "wait"} => HasStatus(handlers \ todo)
        /\ pc \in {"loop", "report"} /\ aggregate = "Success" => HasStatus(handlers)

(* What the summary is about. *)
Summarized ==
    /\ gs.id <= goalState.id
    /\ pc # "loop" => summary = {}
    /\ pc = "loop" =>
          IF last = 0 THEN gs.id = 0 /\ summary = {} /\ aggregate = "none" ELSE last = gs.id

----------------------------------------------------------------------------
(* A set of numbers has a least one, if it has any.                        *)
LEMMA LeastElement ==
    ASSUME NEW T, \A x \in T : x \in Nat, T # {}
    PROVE  \E x \in T : \A y \in T : x <= y
  <1> DEFINE R == OpToRel(<, Nat)
  <1>1. PICK x \in T : \A y \in T : ~(<<y, x>> \in R)
    <2>1. IsWellFoundedOn(R, Nat)
      BY NatLessThanWellFounded, Zenon
    <2> HIDE DEF R
    <2>2. T \subseteq Nat
      BY Zenon
    <2> QED
      BY <2>1, <2>2, WFMin, Zenon
  <1>2. \A y \in Nat : y < x => <<y, x>> \in R
    BY Zenon DEF OpToRel
  <1> HIDE DEF R
  <1>3. ASSUME NEW y \in T PROVE x <= y
    <2>1. x \in Nat /\ y \in Nat /\ ~(y < x)
      BY <1>1, <1>2, Zenon
    <2> QED
      BY <2>1, SMT
  <1> QED
    BY <1>3, Zenon

(* Finitely many things have a greatest number among theirs. *)
LEMMA GreatestNumber ==
    ASSUME NEW D, IsFiniteSet(D), D # {}, NEW f \in [D -> Int]
    PROVE  \E d \in D : \A x \in D : f[x] <= f[d]
  <1>1. PICK s \in Seq(D) : \A x \in D : \E n \in 1..Len(s) : s[n] = x
    BY Zenon DEF IsFiniteSet
  <1>2. Len(s) \in Nat /\ s \in [1..Len(s) -> D]
    BY SMT
  <1> DEFINE N == Len(s)
             g == [n \in 1..N |-> f[s[n]]]
             Top(k) == \E d \in D : \A n \in 1..k : g[n] <= f[d]
             T == {k \in 0..N : ~Top(k)}
  <1>0. N \in Nat /\ g \in [1..N -> Int] /\ \A n \in 1..N : s[n] \in D /\ g[n] = f[s[n]]
    BY <1>2, Zenon
  <1> HIDE DEF N, g
  <1>3. ASSUME T # {} PROVE FALSE
    <2>1. \A k \in T : k \in Nat
      BY <1>0, SMT
    <2>2. PICK k \in T : \A j \in T : k <= j
      <3> HIDE DEF T
      <3> QED
        BY <1>3, <2>1, LeastElement, Zenon
    <2>3. Top(0)
      <3>1. PICK d \in D : TRUE
        BY Zenon
      <3> QED
        BY <3>1
    <2>4. k \in 1..N /\ k - 1 \in 0..N /\ ~Top(k)
      <3>1. k \in 0..N /\ ~Top(k) /\ k # 0
        BY <2>2, <2>3, Zenon
      <3> QED
        BY <1>0, <3>1, SMT
    <2>5. Top(k - 1)
      <3>1. k - 1 \notin T
        <4> HIDE DEF T
        <4> QED
          BY <1>0, <2>2, <2>4, SMT
      <3> QED
        BY <2>4, <3>1, Zenon
    <2>6. PICK d \in D : \A n \in 1..(k - 1) : g[n] <= f[d]
      BY <2>5, Zenon
    <2>7. f[d] \in Int /\ s[k] \in D /\ g[k] \in Int /\ g[k] = f[s[k]]
      BY <1>0, <2>4, <2>6, Zenon
    <2>8. CASE g[k] <= f[d]
      <3>1. \A n \in 1..k : g[n] <= f[d]
        BY <2>4, <2>6, <2>8
      <3> QED
        BY <2>4, <3>1, Zenon
    <2>9. CASE f[d] < g[k]
      <3>1. ASSUME NEW n \in 1..k PROVE g[n] <= f[s[k]]
        <4>1. g[n] \in Int
          BY <1>0, <2>4
        <4>2. n = k \/ n \in 1..(k - 1)
          BY <2>4
        <4> QED
          BY <2>6, <2>7, <2>9, <4>1, <4>2
      <3> QED
        BY <2>4, <2>7, <3>1, Zenon
    <2> QED
      BY <2>7, <2>8, <2>9
  <1>4. Top(N)
    <2>1. N \in 0..N
      BY <1>0, SMT
    <2> QED
      BY <1>3, <2>1, Zenon
  <1>5. PICK d \in D : \A n \in 1..N : g[n] <= f[d]
    BY <1>4, Zenon
  <1>6. \A x \in D : \E n \in 1..N : s[n] = x
    BY <1>1, Zenon DEF N
  <1> HIDE DEF Top, T
  <1>7. ASSUME NEW x \in D PROVE f[x] <= f[d]
    <2>1. PICK n \in 1..N : s[n] = x
      BY <1>6, Zenon
    <2> QED
      BY <1>0, <1>5, <2>1, Zenon
  <1> QED
    BY <1>7, Zenon

(* The agent reads a success only in a file that says so. *)
LEMMA SuccessIsRead ==
    ASSUME NEW v \in Values, StatusIn[v] = "success"
    PROVE  v = "success"
  <1> DEFINE file == StatusFile(v)
             read == Status!CollectExtStatus(<<file>>)
  <1>1. /\ file.exists = (v # "none") /\ file.readable /\ file.json /\ file.data = "list"
        /\ file.item.status = IF v = "huge" THEN "success" ELSE v
        /\ file.item.formatted = None /\ file.item.subs = None
        /\ file.size = IF v = "huge" THEN Status!MaxSize + 1 ELSE 100
    BY Zenon DEF StatusFile
  <1>2. Status!Attempt(file) = IF v = "none" THEN "FileNotExists" ELSE "read"
    BY <1>1, Zenon DEF Status!Attempt
  <1>3. Status!ReadStatusFile(<<file>>) = file
    <2> HIDE DEF file
    <2>1. DOMAIN <<file>> = {1} /\ <<file>>[1] = file /\ Len(<<file>>) = 1
      OBVIOUS
    <2>2. Status!Min({1}) = 1
      BY DEF Status!Min
    <2>3. {i \in DOMAIN <<file>> : Status!Attempt(<<file>>[i]) = "read"} \in {{}, {1}}
      BY <2>1, Zenon
    <2> QED
      BY <2>1, <2>2, <2>3, Zenon DEF Status!ReadStatusFile
  <1>4. StatusIn[v] = IF read.raises THEN "raises" ELSE read.status.status
    BY Zenon DEF StatusIn
  <1>5. CASE v = "none"
    <2>1. read = Status!Collect([Status!NoStatus EXCEPT !.status = "transitioning", !.message = 1])
      BY <1>2, <1>3, <1>5, Zenon DEF Status!CollectExtStatus
    <2> HIDE DEF read
    <2>2. read.status.status = "transitioning" /\ read.raises = FALSE
      BY <2>1, Zenon DEF Status!Collect, Status!NoStatus
    <2> QED
      BY <1>4, <2>2, Zenon
  <1>6. CASE v # "none"
    <2> DEFINE parsed == Status!ParseExtStatus(file)[1]
               malformed == Status!ParseExtStatus(file)[2]
    <2>1. CASE file.item.status = None
      <3>1. malformed
        BY <1>1, <2>1, Zenon DEF Status!ParseExtStatus
      <3>2. read = Status!Collect([Status!ErrorStatus EXCEPT !.subs = parsed.subs])
        BY <1>2, <1>3, <1>6, <3>1, Zenon DEF Status!CollectExtStatus
      <3> HIDE DEF read, parsed
      <3>3. read.status.status = "error" /\ read.raises = FALSE
        BY <3>2, Zenon DEF Status!Collect, Status!NoStatus, Status!ErrorStatus
      <3> QED
        BY <1>4, <3>3, Zenon
    <2>2. CASE file.item.status # None
      <3>1. /\ ~Status!MessageIsMalformed(file.item.formatted)
            /\ Status!Message(file.item.formatted) = None
        BY <1>1, Zenon DEF Status!MessageIsMalformed, Status!Message
      <3>2. file.item.status \in Status!Strings
        BY <1>1, <1>6, Zenon DEF Values, Status!Strings
      <3>3. ~malformed /\ parsed.status = file.item.status /\ parsed.message = None
        <4> DEFINE subs == IF file.item.subs = None THEN <<>>
                           ELSE SelectSeq(file.item.subs, LAMBDA s : s # None)
                   bad == {i \in DOMAIN subs : Status!SubstatusIsMalformed(subs[i])}
                   upTo == IF bad = {} THEN Len(subs)
                           ELSE (CHOOSE i \in bad : \A j \in bad : i <= j) - 1
                   status == [status |-> IF file.item.status \in Status!Strings
                                         THEN file.item.status ELSE "error",
                              code |-> file.item.code,
                              message |-> Status!Message(file.item.formatted), subs |-> <<>>]
                   kept == [i \in 1..upTo |->
                               [status |-> subs[i].status, name |-> subs[i].name,
                                message |-> Status!Message(subs[i].formatted)]]
        <4>1. file.data = "list" /\ file.data \notin {"null", "empty"} /\ file.data # "notList"
          BY <1>1, Zenon
        <4>2. Status!ParseExtStatus(file) = <<[status EXCEPT !.subs = kept], bad # {}>>
          BY <2>2, <3>1, <4>1, Zenon DEF Status!ParseExtStatus
        <4>3. bad = {}
          <5>1. subs = <<>>
            BY <1>1, Zenon
          <5> HIDE DEF subs
          <5> QED
            BY <5>1
        <4>4. status.status = file.item.status /\ status.message = None
          BY <3>1, <3>2, Zenon
        <4> HIDE DEF bad, kept, file
        <4>5. [status EXCEPT !.subs = kept].status = status.status
              /\ [status EXCEPT !.subs = kept].message = status.message
          BY Zenon
        <4> DEFINE result == [status EXCEPT !.subs = kept]
        <4>6. result.status = file.item.status /\ result.message = None
          BY <4>4, <4>5, Zenon
        <4> HIDE DEF status, result
        <4>7. Status!ParseExtStatus(file) = <<result, FALSE>>
          BY <4>2, <4>3, Zenon DEF result
        <4> QED
          BY <4>6, <4>7
      <3>4. CASE v = "huge"
        <4>1. /\ Status!LacksText(parsed)
              /\ ~(file.size <= Status!MaxSize) /\ file.size > Status!MaxSize
          <5>1. Status!LacksText(parsed)
            BY <3>3, Zenon DEF Status!LacksText
          <5>2. ~(file.size <= Status!MaxSize) /\ file.size > Status!MaxSize
            BY <1>1, <3>4, SMT DEF Status!MaxSize
          <5> QED
            BY <5>1, <5>2, Zenon
        <4>2. read = [status |-> parsed, raises |-> TRUE]
          BY <1>2, <1>3, <1>6, <3>3, <4>1, ZenonT(60) DEF Status!CollectExtStatus
        <4> HIDE DEF read, parsed
        <4> QED
          BY <1>4, <4>2, Zenon
      <3>5. CASE v # "huge"
        <4>1. file.size <= Status!MaxSize /\ ~(file.size > Status!MaxSize)
          BY <1>1, <3>5, SMT DEF Status!MaxSize
        <4>2. read = Status!Collect(parsed)
          BY <1>2, <1>3, <1>6, <3>3, <4>1, Zenon DEF Status!CollectExtStatus
        <4> HIDE DEF read
        <4>3. read.raises = FALSE /\ read.status = parsed
          BY <4>2, Zenon DEF Status!Collect
        <4> QED
          BY <1>1, <1>4, <3>3, <3>5, <4>3
      <3> QED
        BY <3>4, <3>5, Zenon
    <2> QED
      BY <2>1, <2>2, Zenon
  <1> QED
    BY <1>5, <1>6, Zenon

(* A goal state that the agent works on is the one that CRP meant; only of *)
(* an extension whose part is invalid it may know less.                    *)
LEMMA WorksOnWhatWasMeant ==
    ASSUME Types, Processing, gs.id # 0
    PROVE  /\ gs.content.kind = Doc.kind
           /\ Doc.kind \in {"normal", "unsupported", "onHold"}
           /\ handlers = DOMAIN gs.content.items /\ handlers = DOMAIN Doc.items
           /\ handlers \subseteq Exts /\ IsFiniteSet(handlers)
           /\ \A e \in handlers :
                 /\ Item(e).request = Meant(e).request
                 /\ Meant(e).request \in {"enabled", "uninstall"}
                 /\ Meant(e).level \in Nat /\ Item(e).level \in 0..Meant(e).level
                 /\ Meant(e).seq \in Seqs \cup {0} /\ Item(e).seq \in {0, Meant(e).seq}
                 /\ ~Item(e).invalid => /\ Item(e).level = Meant(e).level
                                        /\ Item(e).seq = Meant(e).seq
  <1>1. gs \in Published /\ gs.content # None /\ handlers = DOMAIN gs.content.items
    BY DEF Types, Processing, NoGoalState
  <1>2. PICK i \in 1..MaxGoalStates, n \in DOMAIN Documents : gs = GoalStateOf(i, n)
    BY <1>1 DEF Published
  <1>3. gs.doc = n /\ gs.content = Contents[n]
    BY <1>2, Zenon DEF GoalStateOf
  <1>4. ReadsAsMeant(Doc, gs.content)
    BY <1>1, <1>3, ReadingAssumption, Zenon DEF Doc
  <1>5. /\ Doc.kind \in {"normal", "unsupported", "onHold"}
        /\ DOMAIN Doc.items \subseteq Exts /\ IsFiniteSet(DOMAIN Doc.items)
        /\ \A e \in DOMAIN Doc.items : Doc.items[e] \in Items
    BY <1>3, DocumentsAssumption, Zenon DEF Doc
  <1>6. gs.content.kind = Doc.kind /\ DOMAIN gs.content.items = DOMAIN Doc.items
    BY <1>4, Zenon DEF ReadsAsMeant
  <1>7. ASSUME NEW e \in handlers
        PROVE  /\ Item(e).request = Meant(e).request
               /\ Meant(e).request \in {"enabled", "uninstall"}
               /\ Meant(e).level \in Nat /\ Item(e).level \in 0..Meant(e).level
               /\ Meant(e).seq \in Seqs \cup {0} /\ Item(e).seq \in {0, Meant(e).seq}
               /\ ~Item(e).invalid => /\ Item(e).level = Meant(e).level
                                      /\ Item(e).seq = Meant(e).seq
    <2>1. e \in DOMAIN Doc.items /\ Doc.items[e] \in Items
      BY <1>1, <1>5, <1>6, Zenon
    <2>2. /\ Item(e).request = Meant(e).request
          /\ Item(e).level \in 0..Meant(e).level
          /\ Item(e).seq \in {0, Meant(e).seq}
          /\ ~Item(e).invalid => Item(e).level = Meant(e).level /\ Item(e).seq = Meant(e).seq
      BY <1>4, <2>1, Zenon DEF ReadsAsMeant, Item, Meant
    <2>3. /\ Meant(e).request \in {"enabled", "uninstall"}
          /\ Meant(e).level \in Nat /\ Meant(e).seq \in Seqs \cup {0}
      BY <2>1, Zenon DEF Items, Meant
    <2> QED
      BY <2>2, <2>3, Zenon
  <1> QED
    BY <1>1, <1>5, <1>6, <1>7, Zenon

(* No extension of the goal state sorts after MaxDepLevel. *)
LEMMA NoneIsBeyondMaxDepLevel ==
    ASSUME Types, Processing, gs.id # 0, NEW e \in handlers
    PROVE  /\ SortKey(Item(e)) \in Int /\ MaxDepLevel \in Int
           /\ SortKey(Item(e)) <= MaxDepLevel
  <1>1. ASSUME NEW x \in handlers PROVE SortKey(Item(x)) \in Int
    <2>1. Item(x).level \in Nat
      BY WorksOnWhatWasMeant
    <2> QED
      BY <2>1 DEF SortKey
  <1>2. handlers = DOMAIN gs.content.items /\ IsFiniteSet(handlers)
    BY WorksOnWhatWasMeant, Zenon
  <1> DEFINE f == [x \in handlers |-> SortKey(Item(x))]
             S == {SortKey(Item(x)) : x \in DOMAIN gs.content.items}
  <1>3. f \in [handlers -> Int] /\ \A x \in handlers : f[x] = SortKey(Item(x))
    BY <1>1, Zenon
  <1>4. S = {f[x] : x \in handlers}
    BY <1>2, <1>3, Zenon
  <1> HIDE DEF f
  <1>5. PICK d \in handlers : \A x \in handlers : f[x] <= f[d]
    BY <1>2, <1>3, GreatestNumber, Zenon
  <1>6. MaxDepLevel = Max(S)
    BY Zenon DEF MaxDepLevel
  <1> HIDE DEF S
  <1>7. Max(S) \in S /\ \A y \in S : Max(S) >= y
    <2>1. \E x \in S : \A y \in S : x >= y
      BY <1>3, <1>4, <1>5, Zenon
    <2> QED
      BY <2>1, Zenon DEF Max
  <1>8. Max(S) \in Int
    BY <1>3, <1>4, <1>7, Zenon
  <1>9. f[e] \in S /\ f[e] \in Int /\ f[e] = SortKey(Item(e))
    BY <1>3, <1>4, Zenon
  <1> QED
    BY <1>6, <1>7, <1>8, <1>9, Zenon

(* The extension that is handled next. *)
LEMMA NextIsOfThisGoalState ==
    ASSUME Types, Processing, NEW e, IsNext(e)
    PROVE  /\ gs.id # 0 /\ gs.content.kind = "normal" /\ Doc.kind = "normal"
           /\ e \in todo /\ e \in handlers /\ e \in Exts
           /\ Item(e).seq \in Seqs \cup {0}
           /\ Item(e).request \in {"enabled", "uninstall"}
           /\ Item(e).request = Meant(e).request
  <1>1. e \in todo /\ e \in handlers /\ gs.content.kind = "normal" /\ gs.id # 0
    BY Zenon DEF IsNext, Processing
  <1> QED
    BY <1>1, WorksOnWhatWasMeant, Zenon

(* A status that is written leaves the files of the others as they are. *)
LEMMA OneStatusIsWritten ==
    ASSUME files \in [Exts -> [Seqs -> Values]], NEW e \in Exts, Item(e).seq \in Seqs \cup {0},
           \/ WriteStatus(e, "error")
           \/ WriteStatusIfNone(e, "error")
           \/ UNCHANGED files
    PROVE  /\ files' \in [Exts -> [Seqs -> Values]]
           /\ \A d \in Exts \ {e} : files'[d] = files[d]
           /\ \A n \in Seqs : files'[e][n] = "success" => files[e][n] = "success"
  <1>1. CASE UNCHANGED files
    BY <1>1, Zenon
  <1>2. CASE Item(e).seq # 0 /\ files' = [files EXCEPT ![e][Item(e).seq] = "error"]
    BY <1>2, Zenon DEF Values
  <1> QED
    BY <1>1, <1>2, Zenon DEF WriteStatus, WriteStatusIfNone

(* RemoveHandlers leaves the other handlers as they are, and no process of *)
(* those that it removes.                                                  *)
LEMMA HandlersAreRemoved ==
    ASSUME Types, NEW es, RemoveHandlers(es)
    PROVE  /\ installed' = installed \ es /\ installed' \subseteq Exts
           /\ hstatus' \in [Exts -> {"none", "Ready", "NotReady"}]
           /\ files' \in [Exts -> [Seqs -> Values]]
           /\ proc' \in [Exts -> Seqs \cup {0}]
           /\ \A e \in Exts \ es : /\ hstatus'[e] = hstatus[e] /\ files'[e] = files[e]
                                   /\ proc'[e] = proc[e]
           /\ \A e \in Exts \cap es : proc'[e] = 0
  <1> USE DEF Types, RemoveHandlers, Values
  <1>1. installed' = installed \ es /\ installed' \subseteq Exts
    BY Zenon
  <1>2. hstatus' \in [Exts -> {"none", "Ready", "NotReady"}]
    BY Zenon
  <1>3. files' \in [Exts -> [Seqs -> Values]]
    BY Zenon
  <1>4. proc' \in [Exts -> Seqs \cup {0}]
    BY Zenon
  <1> QED
    BY <1>1, <1>2, <1>3, <1>4, Zenon

(* The parts of the invariant hold in the initial states.                  *)
LEMMA InitIsTyped ==
    ASSUME Init
    PROVE  Types /\ Processing /\ InOrder /\ StatusLeft /\ Summarized
  <1>1. Types
    <2>1. 1 \in 1..MaxGoalStates
      BY DocumentsAssumption
    <2>2. goalState \in Published
      <3>1. PICK n \in DOMAIN Documents : goalState = GoalStateOf(1, n)
        BY Zenon DEF Init
      <3> QED
        BY <2>1, <3>1 DEF Published
    <2>3. files \in [Exts -> [Seqs -> Values]]
      BY Zenon DEF Init, Values
    <2> QED
      BY <2>2, <2>3, ZenonT(60) DEF Init, Types
  <1>2. Processing /\ InOrder /\ StatusLeft
    BY Zenon DEF Init, Processing, InOrder, StatusLeft, NoGoalState
  <1>3. Summarized
    <2>1. goalState.id = 1
      BY DEF Init, GoalStateOf
    <2> QED
      BY <2>1 DEF Init, Summarized, NoGoalState
  <1> QED
    BY <1>1, <1>2, <1>3, Zenon

(* No step takes the state out of its range.                               *)
LEMMA TypesStep ==
    ASSUME Types, Processing, [Next]_vars
    PROVE  Types'
  <1> USE DEF Types, memory, disk
  <1>1. CASE NewGoalState
    <2>1. goalState' \in Published
      BY <1>1, DocumentsAssumption DEF NewGoalState, Published, GoalStateOf
    <2> QED
      BY <1>1, <2>1 DEF NewGoalState
  <1>2. ASSUME NEW e \in Exts, ExtensionReports(e) PROVE Types'
    <2>1. files' \in [Exts -> [Seqs -> Values]] /\ proc' \in [Exts -> Seqs \cup {0}]
      BY <1>2 DEF ExtensionReports
    <2> QED
      BY <1>2, <2>1, Zenon DEF ExtensionReports
  <1>3. CASE WaitUntilPasses
    BY <1>3, Zenon DEF WaitUntilPasses
  <1>4. CASE StartGoalState
    BY <1>4, Zenon DEF StartGoalState
  <1>5. ASSUME NEW e \in Exts, Enable(e) PROVE Types'
    <2>1. Item(e).seq \in Seqs \cup {0}
      BY <1>5, NextIsOfThisGoalState, Zenon DEF Enable
    <2>2. proc' \in [Exts -> Seqs \cup {0}]
      BY <1>5, <2>1, Zenon DEF Enable, SeqToApply
    <2>3. hstatus' \in [Exts -> {"none", "Ready", "NotReady"}] /\ installed' \subseteq Exts
      BY <1>5, Zenon DEF Enable
    <2> QED
      BY <1>5, <2>2, <2>3, Zenon DEF Enable, GoOn
  <1>6. ASSUME NEW e \in Exts, Uninstall(e) PROVE Types'
    <2>1. RemoveHandlers({e})
      BY <1>6, Zenon DEF Uninstall
    <2> QED
      BY <1>6, <2>1, HandlersAreRemoved, Zenon DEF Uninstall, GoOn
  <1>7. ASSUME NEW e \in Exts, HandleFails(e) PROVE Types'
    <2>1. Item(e).seq \in Seqs \cup {0}
      BY <1>7, NextIsOfThisGoalState DEF HandleFails
    <2>2. proc' \in [Exts -> Seqs \cup {0}]
      BY <1>7, <2>1, Zenon DEF HandleFails, SeqToApply
    <2>3. hstatus' \in [Exts -> {"none", "Ready", "NotReady"}] /\ installed' \subseteq Exts
      <3>1. hstatus' = [hstatus EXCEPT ![e] = "NotReady"]
            \/ hstatus' = [hstatus EXCEPT ![e] = IF @ = "none" THEN "NotReady" ELSE @]
        BY <1>7, Zenon DEF HandleFails
      <3>2. installed' \subseteq Exts
        BY <1>7, ZenonT(60) DEF HandleFails
      <3> QED
        BY <3>1, <3>2, Zenon
    <2>4. files' \in [Exts -> [Seqs -> Values]]
      BY <1>7, <2>1, OneStatusIsWritten, Zenon DEF HandleFails
    <2> QED
      BY <1>7, <2>2, <2>3, <2>4, Zenon DEF HandleFails, GoOn
  <1>8. ASSUME NEW e \in Exts, Disallow(e) PROVE Types'
    <2>1. Item(e).seq \in Seqs \cup {0}
      BY <1>8, NextIsOfThisGoalState, Zenon DEF Disallow
    <2>2. hstatus' \in [Exts -> {"none", "Ready", "NotReady"}]
      BY <1>8, Zenon DEF Disallow
    <2>3. files' \in [Exts -> [Seqs -> Values]]
      BY <1>8, <2>1, OneStatusIsWritten, Zenon DEF Disallow
    <2> QED
      BY <1>8, <2>2, <2>3, Zenon DEF Disallow, GoOn
  <1>9. ASSUME NEW e \in Exts, Skip(e) PROVE Types'
    <2>1. Item(e).seq \in Seqs \cup {0}
      BY <1>9, NextIsOfThisGoalState DEF Skip
    <2>2. hstatus' \in [Exts -> {"none", "Ready", "NotReady"}]
      BY <1>9, Zenon DEF Skip
    <2>3. files' \in [Exts -> [Seqs -> Values]]
      BY <1>9, <2>1, OneStatusIsWritten, Zenon DEF Skip
    <2> QED
      BY <1>9, <2>2, <2>3, Zenon DEF Skip, GoOn
  <1>10. CASE Wait
    BY <1>10, Zenon DEF Wait, WaitFails
  <1>11. ASSUME NEW s, EndGoalState(s) PROVE Types'
    <2>1. RemoveHandlers(Outdated(s))
      BY <1>11, Zenon DEF EndGoalState
    <2> QED
      BY <1>11, <2>1, HandlersAreRemoved, Zenon DEF EndGoalState
  <1>12. CASE ReportStatus
    <2>1. gs.id \in Nat
      BY DocumentsAssumption DEF Published, GoalStateOf, NoGoalState
    <2> QED
      BY <1>12, <2>1, Zenon DEF ReportStatus
  <1>13. CASE Restart
    BY <1>13, ZenonT(60) DEF Restart
  <1>14. CASE UNCHANGED vars
    BY <1>14, Zenon DEF vars
  <1> QED
    BY <1>1, <1>2, <1>3, <1>4, <1>5, <1>6, <1>7, <1>8, <1>9, <1>10, <1>11, <1>12, <1>13, <1>14, Zenon
    DEF Next,
      AgentNext, HandleExtension, FinishGoalState, FailGoalState

(* Every step leaves the goal state, its extensions and what the agent     *)
(* waits for in agreement.                                                 *)
LEMMA ProcessingStep ==
    ASSUME Types, Processing, [Next]_vars
    PROVE  Processing'
  <1> USE DEF Processing, memory, disk, Item
  <1>1. CASE NewGoalState
    BY <1>1 DEF NewGoalState
  <1>2. ASSUME NEW e \in Exts, ExtensionReports(e) PROVE Processing'
    BY <1>2, Zenon DEF ExtensionReports
  <1>3. CASE WaitUntilPasses
    BY <1>3, ZenonT(60) DEF WaitUntilPasses
  <1>4. CASE StartGoalState
    <2>1. goalState.id # 0
      BY DocumentsAssumption DEF Types, Published, GoalStateOf
    <2> QED
      BY <1>4, <2>1, Zenon DEF StartGoalState
  <1>5. ASSUME NEW e \in Exts, Enable(e) PROVE Processing'
    BY <1>5, NextIsOfThisGoalState, ZenonT(60) DEF Enable, GoOn
  <1>6. ASSUME NEW e \in Exts, Uninstall(e) PROVE Processing'
    BY <1>6, Zenon DEF Uninstall, GoOn
  <1>7. ASSUME NEW e \in Exts, HandleFails(e) PROVE Processing'
    BY <1>7, Zenon DEF HandleFails, GoOn
  <1>8. ASSUME NEW e \in Exts, Disallow(e) PROVE Processing'
    BY <1>8, Zenon DEF Disallow, GoOn
  <1>9. ASSUME NEW e \in Exts, Skip(e) PROVE Processing'
    BY <1>9, Zenon DEF Skip, GoOn
  <1>10. CASE Wait
    BY <1>10, Zenon DEF Wait
  <1>11. ASSUME NEW s, EndGoalState(s) PROVE Processing'
    BY <1>11, Zenon DEF EndGoalState
  <1>12. CASE ReportStatus
    BY <1>12, Zenon DEF ReportStatus
  <1>13. CASE Restart
    BY <1>13, Zenon DEF Restart, NoGoalState
  <1>14. CASE UNCHANGED vars
    BY <1>14, Zenon DEF vars
  <1> QED
    BY <1>1, <1>2, <1>3, <1>4, <1>5, <1>6, <1>7, <1>8, <1>9, <1>10, <1>11, <1>12, <1>13, <1>14, Zenon
    DEF Next,
      AgentNext, HandleExtension, FinishGoalState, FailGoalState

(* The work on one extension keeps the order of the others. *)
LEMMA InOrderAfterOne ==
    ASSUME Types, Processing, InOrder, NEW e, IsNext(e), pc = "process",
           pc' \in {"process", "wait"}, UNCHANGED <<gs, handlers, policy>>,
           todo' = todo \ {e}, depError' \in BOOLEAN, depError => depError',
           \A d \in Exts \ {e} : files'[d] = files[d] /\ proc'[d] = proc[d],
           proc'[e] # 0 => files'[e][proc'[e]] # "success",
           (/\ Item(e).request = "enabled" /\ OthersDependOn(e) /\ ~depError' /\ ~Blocked
            /\ ~(pc' = "wait" /\ waiting' = e)) => ~Item(e).invalid /\ Item(e).seq = 0
    PROVE  InOrder'
  <1>1. e \in handlers /\ handlers \subseteq Exts /\ gs.content.kind = "normal"
    BY NextIsOfThisGoalState, WorksOnWhatWasMeant, Zenon
  <1>2. \A d \in Exts : proc'[d] # 0 => files'[d][proc'[d]] # "success"
    BY Zenon DEF InOrder
  <1>3. \A d : Item(d)' = Item(d) /\ (OthersDependOn(d)' <=> OthersDependOn(d))
    BY DEF Item, OthersDependOn, MaxDepLevel
  <1>4. Blocked' = Blocked
    BY Zenon DEF Blocked
  <1>5. ASSUME ~depError', ~Blocked', NEW d \in handlers' \ todo',
               Item(d)'.request = "enabled", OthersDependOn(d)', ~(pc' = "wait" /\ waiting' = d)
        PROVE  Succeeded(d)'
    <2>1. CASE d = e
      BY <1>3, <1>4, <1>5, <2>1, Zenon DEF Succeeded
    <2>2. CASE d # e
      <3>1. d \in handlers \ todo /\ d \in Exts \ {e}
        BY <1>1, <1>5, <2>2, Zenon
      <3>2. Succeeded(d)
        BY <1>1, <1>3, <1>4, <1>5, <3>1, Zenon DEF InOrder
      <3> QED
        BY <1>3, <3>1, <3>2 DEF Succeeded
    <2> QED
      BY <2>1, <2>2, Zenon
  <1> QED
    BY <1>2, <1>5, Zenon DEF InOrder

(* Every step leaves those that others depend on with their success. The   *)
(* crux is Wait, which reads a status, and ExtensionReports, which must    *)
(* not take a success back.                                                *)
LEMMA InOrderStep ==
    ASSUME Types, Processing, InOrder, Types', [Next]_vars
    PROVE  InOrder'
  <1> USE DEF memory, disk
  <1>1. ASSUME UNCHANGED <<files, proc, gs, handlers, policy, todo, pc, waiting, depError>>
        PROVE  InOrder'
    BY <1>1 DEF InOrder, Succeeded, Item, OthersDependOn, MaxDepLevel, Blocked
  <1>2. ASSUME NEW e \in Exts, ExtensionReports(e) PROVE InOrder'
    <2>1. proc[e] \in Seqs /\ files[e][proc[e]] # "success"
      BY <1>2, Zenon DEF ExtensionReports, Types, InOrder
    <2>2. PICK s \in Values : /\ files' = [files EXCEPT ![e][proc[e]] = s]
                              /\ proc' = IF s = "transitioning" THEN proc
                                         ELSE [proc EXCEPT ![e] = 0]
      BY <1>2, ZenonT(60) DEF ExtensionReports
    <2>3. \A d \in Exts : proc'[d] # 0 => files'[d][proc'[d]] # "success"
      BY <2>1, <2>2, Zenon DEF Types, InOrder
    <2>4. \A d \in Exts, n \in Seqs : files[d][n] = "success" => files'[d][n] = "success"
      BY <2>1, <2>2 DEF Types
    <2>5. UNCHANGED <<gs, handlers, policy, todo, pc, waiting, depError>>
      BY <1>2, Zenon DEF ExtensionReports
    <2>6. ASSUME NEW d \in handlers, gs.id # 0, Succeeded(d) PROVE Succeeded(d)'
      <3>1. Item(d).seq \in Seqs \cup {0} /\ d \in Exts
        BY <2>6, WorksOnWhatWasMeant
      <3> QED
        BY <2>4, <2>5, <2>6, <3>1, Zenon DEF Succeeded, Item
    <2>7. pc # "loop" => gs.id # 0
      BY Zenon DEF Processing
    <2> QED
      BY <2>3, <2>5, <2>6, <2>7, ZenonT(60) DEF InOrder, Item, OthersDependOn, MaxDepLevel, Blocked
  <1>3. CASE NewGoalState \/ WaitUntilPasses \/ UNCHANGED vars
    BY <1>1, <1>3, Zenon DEF NewGoalState, WaitUntilPasses, vars
  <1>4. CASE StartGoalState
    BY <1>4, ZenonT(60) DEF StartGoalState, InOrder
  <1>5. ASSUME NEW e \in Exts, Enable(e) PROVE InOrder'
    <2>1. \A d \in Exts \ {e} : files'[d] = files[d] /\ proc'[d] = proc[d]
      BY <1>5 DEF Enable, Types
    <2>2. proc'[e] # 0 => files'[e][proc'[e]] # "success"
      BY <1>5, Zenon DEF Enable, Types, SeqToApply
    <2> QED
      BY <1>5, <2>1, <2>2, InOrderAfterOne, Zenon DEF Enable, GoOn, Types
  <1>6. ASSUME NEW e \in Exts, Uninstall(e) PROVE InOrder'
    <2>1. RemoveHandlers({e})
      BY <1>6, Zenon DEF Uninstall
    <2>2. /\ \A d \in Exts \ {e} : files'[d] = files[d] /\ proc'[d] = proc[d]
          /\ proc'[e] = 0
      BY <2>1, HandlersAreRemoved
    <2> QED
      BY <1>6, <2>2, InOrderAfterOne, Zenon DEF Uninstall, GoOn, Types
  <1>7. ASSUME NEW e \in Exts, HandleFails(e) PROVE InOrder'
    <2>1. Item(e).seq \in Seqs \cup {0}
      BY <1>7, NextIsOfThisGoalState DEF HandleFails
    <2>2. /\ \A d \in Exts \ {e} : files'[d] = files[d]
          /\ \A n \in Seqs : files'[e][n] = "success" => files[e][n] = "success"
      BY <1>7, <2>1, OneStatusIsWritten, Zenon DEF HandleFails, Types
    <2>3. \A d \in Exts \ {e} : proc'[d] = proc[d]
      BY <1>7, Zenon DEF HandleFails, Types
    <2>4. proc'[e] # 0 => proc'[e] \in Seqs /\ files[e][proc'[e]] # "success"
      BY <1>7, <2>1, ZenonT(60) DEF HandleFails, Types, SeqToApply, InOrder
    <2> QED
      BY <1>7, <2>2, <2>3, <2>4, InOrderAfterOne, ZenonT(60) DEF HandleFails, GoOn, Types
  <1>8. ASSUME NEW e \in Exts, Disallow(e) PROVE InOrder'
    <2>1. Item(e).seq \in Seqs \cup {0}
      BY <1>8, NextIsOfThisGoalState DEF Disallow
    <2>2. /\ \A d \in Exts \ {e} : files'[d] = files[d]
          /\ \A n \in Seqs : files'[e][n] = "success" => files[e][n] = "success"
      BY <1>8, <2>1, OneStatusIsWritten DEF Disallow, Types
    <2>3. UNCHANGED proc /\ (proc[e] # 0 => proc[e] \in Seqs /\ files[e][proc[e]] # "success")
      BY <1>8, ZenonT(60) DEF Disallow, Types, InOrder
    <2> QED
      BY <1>8, <2>2, <2>3, InOrderAfterOne, ZenonT(60) DEF Disallow, GoOn, Types
  <1>9. ASSUME NEW e \in Exts, Skip(e) PROVE InOrder'
    <2>1. Item(e).seq \in Seqs \cup {0}
      BY <1>9, NextIsOfThisGoalState, Zenon DEF Skip
    <2>2. /\ \A d \in Exts \ {e} : files'[d] = files[d]
          /\ \A n \in Seqs : files'[e][n] = "success" => files[e][n] = "success"
      BY <1>9, <2>1, OneStatusIsWritten, Zenon DEF Skip, Types
    <2>3. UNCHANGED proc /\ (proc[e] # 0 => proc[e] \in Seqs /\ files[e][proc[e]] # "success")
      BY <1>9, Zenon DEF Skip, Types, InOrder
    <2> QED
      BY <1>9, <2>2, <2>3, InOrderAfterOne, ZenonT(60) DEF Skip, GoOn, Types
  <1>10. CASE Wait
    <2>1. UNCHANGED <<files, proc, gs, handlers, policy, todo>> /\ pc = "wait" /\ pc' = "process"
      BY <1>10, Zenon DEF Wait
    <2>2. /\ gs.id # 0 /\ gs.content.kind = "normal" /\ ~depError /\ waiting \in handlers
          /\ ~Item(waiting).invalid /\ Item(waiting).seq # 0
      BY <2>1, Zenon DEF Processing
    <2>3. waiting \in Exts /\ Item(waiting).seq \in Seqs
      BY <2>2, WorksOnWhatWasMeant, Zenon
    <2>4. ~depError' => Succeeded(waiting)
      <3>1. files[waiting][Item(waiting).seq] \in Values
        BY <2>3 DEF Types
      <3>2. ~depError' => StatusIn[files[waiting][Item(waiting).seq]] = "success"
        BY <1>10, ZenonT(60) DEF Wait, WaitFails, StatusOfDependency
      <3> QED
        BY <2>2, <3>1, <3>2, SuccessIsRead, Zenon DEF Succeeded
    <2> QED
      BY <2>1, <2>2, <2>4, ZenonT(60) DEF InOrder, Succeeded, Item, OthersDependOn, MaxDepLevel, Blocked
  <1>11. ASSUME NEW s, EndGoalState(s) PROVE InOrder'
    <2>1. RemoveHandlers(Outdated(s)) /\ pc' = "report"
      BY <1>11, Zenon DEF EndGoalState
    <2>2. \A e \in Exts : proc'[e] # 0 => files'[e] = files[e] /\ proc'[e] = proc[e]
      BY <2>1, HandlersAreRemoved, Zenon
    <2> QED
      BY <2>1, <2>2, Zenon DEF InOrder
  <1>12. CASE ReportStatus
    BY <1>12, ZenonT(60) DEF ReportStatus, InOrder
  <1>13. CASE Restart
    BY <1>13, Zenon DEF Restart, InOrder
  <1> QED
    BY <1>2, <1>3, <1>4, <1>5, <1>6, <1>7, <1>8, <1>9, <1>10, <1>11, <1>12, <1>13
    DEF Next, AgentNext,
      HandleExtension, FinishGoalState, FailGoalState

(* The work on one extension leaves a status of it. *)
LEMMA StatusLeftAfterOne ==
    ASSUME Types, Processing, StatusLeft, NEW e, IsNext(e), pc = "process",
           pc' \in {"process", "wait"}, UNCHANGED <<gs, handlers>>, todo' = todo \ {e},
           \A d \in Exts \ {e} : hstatus'[d] = hstatus[d],
           Item(e).request = "enabled" => hstatus'[e] # "none"
    PROVE  StatusLeft'
  <1>1. e \in handlers /\ handlers \subseteq Exts /\ gs.content.kind = "normal" /\ gs.id # 0
    BY NextIsOfThisGoalState, WorksOnWhatWasMeant, ZenonT(60)
  <1>2. \A d \in handlers \ (todo \ {e}) : Item(d).request = "enabled" => hstatus'[d] # "none"
    BY <1>1, Zenon DEF StatusLeft, HasStatus
  <1> QED
    BY <1>2, Zenon DEF StatusLeft, HasStatus, Item

(* Every step leaves a handler status of the extensions that are done      *)
(* with.                                                                   *)
LEMMA StatusLeftStep ==
    ASSUME Types, Processing, StatusLeft, [Next]_vars
    PROVE  StatusLeft'
  <1> USE DEF memory, disk
  <1>1. ASSUME UNCHANGED <<hstatus, gs, handlers, todo, aggregate>>,
               pc' = pc \/ (pc \in {"loop", "report"} /\ pc' \in {"loop", "report"})
                        \/ (pc = "wait" /\ pc' = "process")
        PROVE  StatusLeft'
    BY <1>1 DEF StatusLeft, HasStatus, Item
  <1>2. ASSUME NEW e \in Exts, ExtensionReports(e) PROVE StatusLeft'
    BY <1>1, <1>2, Zenon DEF ExtensionReports
  <1>3. CASE NewGoalState \/ WaitUntilPasses \/ Wait \/ ReportStatus \/ UNCHANGED vars
    BY <1>1, <1>3, ZenonT(60) DEF NewGoalState, WaitUntilPasses, Wait, ReportStatus, vars
  <1>4. CASE StartGoalState
    BY <1>4, ZenonT(60) DEF StartGoalState, StatusLeft, HasStatus
  <1>5. ASSUME NEW e \in Exts, Enable(e) PROVE StatusLeft'
    BY <1>5, StatusLeftAfterOne, Zenon DEF Enable, GoOn, Types
  <1>6. ASSUME NEW e \in Exts, Uninstall(e) PROVE StatusLeft'
    <2>1. RemoveHandlers({e})
      BY <1>6, Zenon DEF Uninstall
    <2>2. \A d \in Exts \ {e} : hstatus'[d] = hstatus[d]
      BY <2>1, HandlersAreRemoved, Zenon
    <2> QED
      BY <1>6, <2>2, StatusLeftAfterOne, ZenonT(60) DEF Uninstall, GoOn
  <1>7. ASSUME NEW e \in Exts, HandleFails(e) PROVE StatusLeft'
    <2>1. hstatus' = [hstatus EXCEPT ![e] = "NotReady"]
          \/ hstatus' = [hstatus EXCEPT ![e] = IF @ = "none" THEN "NotReady" ELSE @]
      BY <1>7, Zenon DEF HandleFails
    <2>2. hstatus'[e] # "none" /\ \A d \in Exts \ {e} : hstatus'[d] = hstatus[d]
      BY <2>1, Zenon DEF Types
    <2> QED
      BY <1>7, <2>2, StatusLeftAfterOne, Zenon DEF HandleFails, GoOn
  <1>8. ASSUME NEW e \in Exts, Disallow(e) PROVE StatusLeft'
    BY <1>8, StatusLeftAfterOne, Zenon DEF Disallow, GoOn, Types
  <1>9. ASSUME NEW e \in Exts, Skip(e) PROVE StatusLeft'
    <2>1. hstatus' = [hstatus EXCEPT ![e] = "NotReady"]
          \/ hstatus' = [hstatus EXCEPT ![e] = IF @ = "none" THEN "NotReady" ELSE @]
      BY <1>9, Zenon DEF Skip
    <2>2. hstatus'[e] # "none" /\ \A d \in Exts \ {e} : hstatus'[d] = hstatus[d]
      BY <2>1, Zenon DEF Types
    <2> QED
      BY <1>9, <2>2, StatusLeftAfterOne, Zenon DEF Skip, GoOn
  <1>10. CASE FinishGoalState
    <2> DEFINE s == IF gs.content.kind = "unsupported" THEN "Unsupported" ELSE "Success"
    <2>1. EndGoalState(s) /\ todo = {}
      BY <1>10, Zenon DEF FinishGoalState
    <2>2. CASE gs.content.kind # "normal"
      BY <2>1, <2>2, Zenon DEF EndGoalState, StatusLeft
    <2>3. CASE gs.content.kind = "normal"
      <3>1. RemoveHandlers(Exts \ handlers) /\ pc = "process" /\ pc' = "report"
            /\ UNCHANGED <<gs, handlers>>
        BY <2>1, <2>3, ZenonT(60) DEF EndGoalState, Outdated
      <3>2. gs.id # 0 /\ handlers \subseteq Exts
        BY <3>1, WorksOnWhatWasMeant, Zenon DEF Processing
      <3>3. \A e \in handlers : hstatus'[e] = hstatus[e]
        BY <3>1, <3>2, HandlersAreRemoved
      <3> QED
        BY <2>1, <2>3, <3>1, <3>2, <3>3, Zenon DEF StatusLeft, HasStatus, Item
    <2> QED
      BY <2>2, <2>3, Zenon
  <1>11. CASE FailGoalState
    BY <1>11, Zenon DEF FailGoalState, EndGoalState, StatusLeft
  <1>12. CASE Restart
    BY <1>12, Zenon DEF Restart, StatusLeft, NoGoalState
  <1> QED
    BY <1>2, <1>3, <1>4, <1>5, <1>6, <1>7, <1>8, <1>9, <1>10, <1>11, <1>12, Zenon DEF Next, AgentNext,
      HandleExtension

(* Every step keeps the summary and the id of the last goal state          *)
(* together.                                                               *)
LEMMA SummarizedStep ==
    ASSUME Types, Processing, Summarized, [Next]_vars
    PROVE  Summarized'
  <1>0. goalState.id \in Nat \ {0} /\ gs.id \in Nat
    BY DocumentsAssumption DEF Types, Published, GoalStateOf, NoGoalState
  <1> USE DEF memory, disk
  <1>1. CASE NewGoalState
    <2>1. goalState'.id = goalState.id + 1
      BY <1>1 DEF NewGoalState, GoalStateOf
    <2>2. UNCHANGED <<gs, pc, last, summary, aggregate>>
      BY <1>1, Zenon DEF NewGoalState
    <2>3. gs.id <= goalState.id => gs.id <= goalState.id + 1
      BY <1>0, SMT
    <2> QED
      BY <2>1, <2>2, <2>3, Zenon DEF Summarized
  <1> USE DEF Summarized
  <1>2. ASSUME NEW e \in Exts, ExtensionReports(e) PROVE Summarized'
    BY <1>2, Zenon DEF ExtensionReports
  <1>3. CASE WaitUntilPasses \/ Wait \/ UNCHANGED vars
    BY <1>3, Zenon DEF WaitUntilPasses, Wait, vars
  <1>4. CASE StartGoalState
    <2>1. /\ gs' = goalState /\ goalState' = goalState /\ summary' = {}
          /\ pc' \in {"process", "report"}
      BY <1>4, Zenon DEF StartGoalState
    <2>2. goalState.id <= goalState.id
      BY <1>0, SMT
    <2> QED
      BY <2>1, <2>2, Zenon
  <1>5. ASSUME NEW e \in Exts, Enable(e) \/ Uninstall(e) \/ HandleFails(e) \/ Disallow(e) \/ Skip(e)
        PROVE  Summarized'
    <2>1. pc # "loop" /\ pc' # "loop" /\ UNCHANGED <<goalState, gs, summary>>
      BY <1>5, Zenon DEF Enable, Uninstall, HandleFails, Disallow, Skip, GoOn
    <2> QED
      BY <2>1, Zenon
  <1>6. ASSUME NEW s, EndGoalState(s) PROVE Summarized'
    BY <1>6, Zenon DEF EndGoalState
  <1>7. CASE ReportStatus
    <2>1. CASE pc = "report"
      BY <1>7, <2>1, ZenonT(60) DEF ReportStatus, Processing
    <2>2. CASE pc = "loop" /\ last # 0
      BY <1>7, <2>2, Zenon DEF ReportStatus
    <2>3. CASE pc = "loop" /\ last = 0
      <3>1. gs.id = 0 /\ handlers = {} /\ aggregate = "none" /\ summary = {}
        BY <2>3 DEF Processing
      <3>2. ToReport = {}
        BY <3>1, Zenon DEF ToReport
      <3>3. summary' = {}
        BY <1>7, <3>1, <3>2, Zenon DEF ReportStatus
      <3> QED
        BY <1>7, <2>3, <3>1, <3>3, Zenon DEF ReportStatus
    <2> QED
      BY <1>7, <2>1, <2>2, <2>3, ZenonT(60) DEF ReportStatus
  <1>8. CASE Restart
    <2>1. /\ gs' = NoGoalState /\ goalState' = goalState /\ summary' = {}
          /\ pc' = "loop" /\ last' = 0 /\ aggregate' = "none"
      BY <1>8, Zenon DEF Restart
    <2>2. 0 <= goalState.id
      BY <1>0, SMT
    <2> QED
      BY <2>1, <2>2, Zenon DEF NoGoalState
  <1> QED
    BY <1>1, <1>2, <1>3, <1>4, <1>5, <1>6, <1>7, <1>8, Zenon
    DEF Next, AgentNext, HandleExtension, FinishGoalState,
      FailGoalState

----------------------------------------------------------------------------
(* The inductive invariant. *)
IInv == Types /\ Processing /\ InOrder /\ StatusLeft /\ Summarized

(* IInv is an invariant.                                                   *)
LEMMA Invariance == Spec => []IInv
  <1>1. Init => IInv
    BY InitIsTyped, Zenon DEF IInv
  <1>2. IInv /\ [Next]_vars => IInv'
    <2>1. SUFFICES ASSUME IInv, [Next]_vars PROVE IInv'
      BY Zenon
    <2>2. Types' /\ Processing'
      BY <2>1, TypesStep, ProcessingStep, Zenon DEF IInv
    <2> QED
      BY <2>1, <2>2, InOrderStep, StatusLeftStep, SummarizedStep, Zenon DEF IInv
  <1> QED
    BY <1>1, <1>2, PTL DEF Spec

(* What CRP is told of a processed goal state: EveryExtensionIsReported    *)
(* holds in every reachable state, for any documents and any number of     *)
(* extensions, goal states and crashes.                                    *)
THEOREM EveryExtensionIsReportedHolds == Spec => []EveryExtensionIsReported
  <1>1. IInv => EveryExtensionIsReported
    <2>1. SUFFICES ASSUME IInv, pc \in {"loop", "report"}, gs.id # 0, Doc.kind = "normal",
                          aggregate = "Success",
                          NEW e \in DOMAIN Doc.items, Meant(e).request = "enabled"
                   PROVE  e \in ToReport
      BY Zenon DEF EveryExtensionIsReported
    <2>2. e \in handlers /\ Item(e).request = "enabled" /\ gs.content.kind = "normal"
      BY <2>1, WorksOnWhatWasMeant, Zenon DEF IInv
    <2> QED
      BY <2>1, <2>2, Zenon DEF IInv, StatusLeft, HasStatus, ToReport
  <1> QED
    BY <1>1, Invariance, PTL

(* The order of the dependencies: DependencyOrder holds of every           *)
(* behaviour.  An extension is enabled only when all those that CRP put on *)
(* a lower level have succeeded, for any number of levels, whatever the    *)
(* extensions report, whenever the agent dies and whatever the policy is.  *)
THEOREM DependencyOrderHolds == Spec => DependencyOrder
  <1>1. IInv => EnablesInOrder
    <2>1. SUFFICES ASSUME IInv, NEW e \in Exts, Enable(e), NEW d \in DOMAIN Doc.items,
                          Meant(d).request = "enabled", Meant(d).level < Meant(e).level,
                          Meant(d).seq # 0
                   PROVE  files[d][Meant(d).seq] = "success"
      BY Zenon DEF EnablesInOrder, DependenciesSucceeded
    <2>2. /\ IsNext(e) /\ pc = "process" /\ ~depError /\ ~Blocked
          /\ Item(e).request = "enabled" /\ ~Item(e).invalid
      BY <2>1, Zenon DEF Enable
    <2>3. gs.id # 0 /\ gs.content.kind = "normal" /\ e \in handlers
      BY <2>1, <2>2, NextIsOfThisGoalState, ZenonT(60) DEF IInv
    <2>4. /\ d \in handlers /\ Item(d).request = "enabled"
          /\ Meant(d).level \in Nat /\ Item(d).level \in 0..Meant(d).level
          /\ Item(d).seq \in {0, Meant(d).seq}
          /\ ~Item(d).invalid => Item(d).seq = Meant(d).seq
          /\ Meant(e).level \in Nat /\ Item(e).level = Meant(e).level
      BY <2>1, <2>2, <2>3, WorksOnWhatWasMeant, ZenonT(60) DEF IInv
    <2>5. 0 <= SortKey(Item(d)) /\ SortKey(Item(d)) < SortKey(Item(e))
      BY <2>1, <2>2, <2>4 DEF SortKey
    <2>6. SortKey(Item(e)) \in Int /\ SortKey(Item(d)) \in Int /\ MaxDepLevel \in Int
          /\ SortKey(Item(e)) <= MaxDepLevel
      BY <2>1, <2>3, <2>4, NoneIsBeyondMaxDepLevel, ZenonT(60) DEF IInv
    <2>7. OthersDependOn(d)
      BY <2>5, <2>6 DEF OthersDependOn
    <2>8. d \notin todo
      BY <2>2, <2>5, <2>6 DEF IsNext
    <2>9. Succeeded(d)
      BY <2>1, <2>2, <2>3, <2>4, <2>7, <2>8, ZenonT(60) DEF IInv, InOrder
    <2> QED
      BY <2>1, <2>4, <2>9, Zenon DEF Succeeded
  <1> QED
    BY <1>1, Invariance, PTL DEF DependencyOrder

(* What the agent deletes: RemovedOnRequest holds of every behaviour.  A   *)
(* handler goes only in a normal goal state, in which CRP asks to remove   *)
(* it or no longer lists it.                                               *)
THEOREM RemovedOnRequestHolds == Spec => RemovedOnRequest
  <1>1. IInv /\ [Next]_vars => RemovesOnRequest
    <2>1. SUFFICES ASSUME Types, Processing, [Next]_vars, NEW x \in installed, x \notin installed'
                   PROVE  Doc.kind = "normal"
                          /\ (x \in DOMAIN Doc.items => Meant(x).request = "uninstall")
      BY DEF RemovesOnRequest, IInv
    <2>2. CASE \E e \in Exts : Uninstall(e)
      <3>1. PICK e \in Exts : Uninstall(e)
        BY <2>2
      <3>2. IsNext(e) /\ Item(e).request = "uninstall" /\ x = e
        BY <2>1, <3>1, Zenon DEF Uninstall, RemoveHandlers
      <3> QED
        BY <2>1, <3>2, NextIsOfThisGoalState, Zenon
    <2>3. ASSUME NEW s, EndGoalState(s), s # "Unsupported" => gs.content.kind = "normal"
          PROVE  Doc.kind = "normal"
                 /\ (x \in DOMAIN Doc.items => Meant(x).request = "uninstall")
      <3>1. x \in Outdated(s) /\ pc = "process" /\ gs.id # 0
        BY <2>1, <2>3, Zenon DEF EndGoalState, RemoveHandlers, Processing
      <3>2. x \notin handlers /\ s # "Unsupported"
        BY <3>1, Zenon DEF Outdated
      <3> QED
        BY <2>1, <2>3, <3>1, <3>2, WorksOnWhatWasMeant, ZenonT(60)
    <2>4. CASE FinishGoalState
      <3> DEFINE s == IF gs.content.kind = "unsupported" THEN "Unsupported" ELSE "Success"
      <3>1. EndGoalState(s) /\ pc = "process"
        BY <2>4, Zenon DEF FinishGoalState, EndGoalState
      <3>2. gs.content.kind \in {"normal", "unsupported"}
        BY <2>1, <3>1, WorksOnWhatWasMeant, ZenonT(60) DEF Processing
      <3> QED
        BY <2>3, <3>1, <3>2, Zenon
    <2>5. CASE FailGoalState
      BY <2>1, <2>3, <2>5, Zenon DEF FailGoalState, Processing
    <2>6. CASE UNCHANGED installed
      BY <2>1, <2>6, Zenon
    <2>7. ASSUME NEW e \in Exts, Enable(e) \/ HandleFails(e) \/ Disallow(e) \/ Skip(e)
          PROVE  installed \subseteq installed'
      BY <2>7, ZenonT(60) DEF Enable, HandleFails, Disallow, Skip
    <2>8. NewGoalState \/ (\E e \in Exts : ExtensionReports(e)) \/ WaitUntilPasses \/ StartGoalState
          \/ Wait \/ ReportStatus \/ Restart \/ UNCHANGED vars
             => UNCHANGED installed
      BY Zenon DEF NewGoalState, ExtensionReports, WaitUntilPasses, StartGoalState, Wait, ReportStatus,
             Restart,
        vars, disk
    <2> QED
      BY <2>1, <2>2, <2>4, <2>5, <2>6, <2>7, <2>8, ZenonT(60) DEF Next, AgentNext, HandleExtension
  <1> QED
    BY <1>1, Invariance, PTL DEF RemovedOnRequest, Spec

(* When the agent takes the first goal state for done:                     *)
(* InitialGoalStateConverges holds of every behaviour, across restarts.    *)
THEOREM InitialGoalStateConvergesHolds == Spec => InitialGoalStateConverges
  <1>1. IInv /\ [Next]_vars => CompletesWhenConverged
    <2>1. SUFFICES ASSUME IInv, [Next]_vars, completed', ~completed, gs'.id = 1
                   PROVE  /\ gs.id = 1
                          /\ (Doc.kind = "normal" /\ aggregate = "Success")
                               => \A e \in DOMAIN Doc.items :
                                     Meant(e).request = "enabled"
                                        => e \in ToReport /\ Reported(e) \in Terminal
      BY Zenon DEF CompletesWhenConverged
    <2>2. StartGoalState \/ ReportStatus
      <3>1. ASSUME NEW e \in Exts,
                   Enable(e) \/ Uninstall(e) \/ HandleFails(e) \/ Disallow(e) \/ Skip(e)
            PROVE  UNCHANGED completed
        BY <3>1, Zenon DEF Enable, Uninstall, HandleFails, Disallow, Skip, GoOn
      <3>2. FinishGoalState \/ FailGoalState => UNCHANGED completed
        BY ZenonT(60) DEF FinishGoalState, FailGoalState, EndGoalState
      <3>3. NewGoalState \/ (\E e \in Exts : ExtensionReports(e)) \/ WaitUntilPasses \/ Wait
            \/ Restart \/ UNCHANGED vars => UNCHANGED completed
        BY Zenon DEF NewGoalState, ExtensionReports, WaitUntilPasses, Wait, Restart, vars
      <3> QED
        BY <2>1, <3>1, <3>2, <3>3, ZenonT(60) DEF Next, AgentNext, HandleExtension
    <2>3. CASE StartGoalState
      <3>1. goalState.id = 1 /\ pc = "loop" /\ last # 1
        BY <2>1, <2>3, Zenon DEF StartGoalState
      <3>2. gs.id \in Nat /\ gs.id <= 1 /\ last \in Nat
        BY <2>1, <3>1, DocumentsAssumption
        DEF IInv, Types, Summarized, Published, GoalStateOf, NoGoalState
      <3>3. summary = {}
        BY <2>1, <3>1, <3>2 DEF IInv, Summarized
      <3>4. Converged(summary)
        BY <3>3, Zenon DEF Converged
      <3> QED
        BY <2>1, <2>3, <3>4, ZenonT(60) DEF StartGoalState, CompleteInitialGoalState
    <2>4. CASE ReportStatus
      <3>1. gs.id = 1 /\ pc \in {"loop", "report"}
        BY <2>1, <2>4, Zenon DEF ReportStatus
      <3>2. summary' # summary /\ Converged(summary')
        BY <2>1, <2>4, Zenon DEF ReportStatus, CompleteInitialGoalState
      <3>3. summary' = {<<e, Reported(e)>> : e \in ToReport}
        BY <2>4, <3>2, Zenon DEF ReportStatus
      <3>4. ASSUME NEW e \in ToReport PROVE Reported(e) \in Terminal
        <4>1. <<e, Reported(e)>> \in summary'
          BY <3>3, Zenon
        <4>2. <<e, Reported(e)>>[2] \in Terminal
          BY <3>2, <4>1, ZenonT(60) DEF Converged
        <4> QED
          BY <4>2, Zenon
      <3>5. ASSUME Doc.kind = "normal", aggregate = "Success", NEW e \in DOMAIN Doc.items,
                   Meant(e).request = "enabled"
            PROVE  e \in ToReport
        <4>1. e \in handlers /\ Item(e).request = "enabled" /\ gs.content.kind = "normal"
          BY <2>1, <3>1, <3>5, WorksOnWhatWasMeant DEF IInv
        <4> QED
          BY <2>1, <3>1, <3>5, <4>1 DEF IInv, StatusLeft, HasStatus, ToReport
      <3> QED
        BY <3>1, <3>4, <3>5, Zenon
    <2> QED
      BY <2>2, <2>3, <2>4, Zenon
  <1> QED
    BY <1>1, Invariance, PTL DEF InitialGoalStateConverges, Spec
============================================================================
