---------------------- MODULE TelemetryPipelineProofs ----------------------
(***************************************************************************)
(* Proofs about TelemetryPipeline, for any number of writing threads and   *)
(* events, every limit and every batch size: no event is handed to the     *)
(* WireServer twice, the directory of agent events exceeds its limit by    *)
(* fewer files than there are threads that write to it, and a shutdown     *)
(* without a timeout loses no event silently.                              *)
(*                                                                         *)
(* All three rest on where an event can be. Unknown, Unsaved, Saved and    *)
(* Unread follow it from the thread that adds it, through one file and the *)
(* collector, to the sender: until it is put in the queue it is Fresh, and *)
(* after that it is in a file only while the collector has that file open. *)
(* Once says that the sender has it in one place. Room counts the threads  *)
(* that found room in the directory and have yet to write; NotLost says    *)
(* that an event leaves its file only after the sender has it or with a    *)
(* reason, and Orderly what the order of _shutdown leaves when no join     *)
(* times out.                                                              *)
(*                                                                         *)
(* Actors splits a step into the few actions that move events and the      *)
(* Quiet rest; the lemmas for one conjunct of the invariant follow the     *)
(* actions in that order.                                                  *)
(***************************************************************************)
EXTENDS TelemetryPipeline, FiniteSetTheorems, TLAPS

(* The elements of a sequence are different.                               *)
Distinct(s) == \A i, j \in DOMAIN s : s[i] = s[j] => i = j

(* What the sender has of the events, and what it had.                     *)
Queued == {q[1] : q \in Range(queue)}

Buffered(e) == \E op \in Ops : e \in buf[op]

Fresh(e) == sent[e] = 0 /\ e \notin Queued /\ ~Buffered(e)

(* The events that are on disk, and the ones that a thread is to write.    *)
InFile(e) == \E op \in Ops : \E f \in Range(files[op]) : e \in Range(f)

Saving == {writer[w].event : w \in Writers} \ {0}

(* The file that the collector has opened, and the events that it has not  *)
(* yet taken from it.                                                      *)
Open(op, f) == cpc \in {"check", "put", "remove"} /\ op = cop /\ f = Head(todo)

Reading == cpc \in {"check", "put"}

ToRead(e) == Reading /\ e \in Range(cur)

(* The types.                                                              *)
WriterTypes ==
    /\ added \in Nat /\ added <= MaxEvents
    /\ DOMAIN writer = Writers
    /\ \A w \in Writers : writer[w] = [event |-> writer[w].event, oldest |-> writer[w].oldest]
    /\ \A w \in Writers : writer[w].event = 0 => writer[w].oldest = <<>>
    /\ Saving \subseteq Events

FileTypes ==
    /\ DOMAIN files = Ops
    /\ \A op \in Ops : files[op] \in Seq(Seq(Events)) /\ Distinct(files[op])
    /\ \A op \in Ops : \A f \in Range(files[op]) : f # <<>> /\ Distinct(f)
    /\ \A f \in Range(files["agent"]) : Len(f) = 1

CollectorTypes ==
    /\ cop \in Ops
    /\ Reading => cur \in Seq(Events) /\ cur # <<>> /\ Distinct(cur)

SenderTypes ==
    /\ queue \in Seq(Events \X Ops)
    /\ buf \in [Ops -> SUBSET Events]
    /\ sent \in [Events -> Nat]
    /\ deaths \in Nat

(* An event is in the queue once, in a buffer, or sent once.               *)
Once ==
    /\ \A e \in Events : sent[e] <= 1
    /\ Distinct(queue)
    /\ \A p, q \in Range(queue) : p[1] = q[1] => p = q
    /\ \A e \in Queued : sent[e] = 0 /\ ~Buffered(e)
    /\ \A op, po \in Ops : \A e \in buf[op] : sent[e] = 0 /\ (e \in buf[po] => po = op)

(* The events that are still to come are nowhere.                          *)
Unknown ==
    \A e \in Events : e > added => Fresh(e) /\ ~InFile(e) /\ e \notin Saving /\ ~ToRead(e)

(* An event that a thread is to write is nowhere else, and only that       *)
(* thread is to write it.                                                  *)
Unsaved ==
    /\ \A e \in Saving : Fresh(e) /\ ~InFile(e) /\ ~ToRead(e)
    /\ \A v, w \in Writers : writer[v].event = writer[w].event => v = w \/ writer[v].event = 0

(* An event is in one file, and the sender has not seen it unless the      *)
(* collector has opened that file.                                         *)
Saved ==
    \A op \in Ops : \A f \in Range(files[op]) : \A e \in Range(f) :
        /\ Fresh(e) \/ Open(op, f)
        /\ \A po \in Ops : \A g \in Range(files[po]) : e \in Range(g) => po = op /\ g = f

(* What the collector has not yet taken from its file is in no other.      *)
Unread ==
    \A e \in Events : ToRead(e) =>
        /\ Fresh(e)
        /\ \A op \in Ops : \A f \in Range(files[op]) : e \in Range(f) => Open(op, f)

(* The threads that found room in the directory, or made it, and are to    *)
(* write.                                                                  *)
Ready == {w \in Writers : writer[w].event # 0 /\ writer[w].oldest = <<>>}

Room == Len(files["agent"]) + Cardinality(Ready) <= MaxFiles + Cardinality(Writers) - 1

(* The order in which the threads stop when no join times out, and what a  *)
(* sender that did not die leaves.                                         *)
Orderly ==
    /\ "sender" \in stopped => mpc \in {"joinSender", "exited"}
    /\ mpc \in {"stopSender", "joinSender", "exited"} /\ ~timedOut => cpc = "exited"
    /\ deaths = 0 /\ spc \in {"wait", "exited"} => \A op \in Ops : buf[op] = {}
    /\ deaths = 0 /\ ~timedOut /\ spc = "exited" => queue = <<>> /\ "sender" \in stopped
    /\ mpc = "exited" /\ ~timedOut => spc = "exited"

(* The sender has the event or had it, or it was given up with a reason.   *)
GivenUp(e) == \E cause \in Causes \ {"stopped"} : <<e, cause>> \in dropped

Handled(e) == sent[e] > 0 \/ e \in Queued \/ Buffered(e) \/ GivenUp(e)

(* No event is lost.                                                       *)
NotLost ==
    ~timedOut =>
        /\ \A e \in Events : e <= added => InFile(e) \/ e \in Saving \/ ToRead(e) \/ Handled(e)
        /\ cpc \in {"check", "put", "remove"} =>
              \A e \in Events : e \in Range(Head(todo)) => ToRead(e) \/ Handled(e)

(* A step that leaves all of this alone, and does not open or close a      *)
(* file.                                                                   *)
Quiet ==
    /\ UNCHANGED <<files, added, writer, queue, buf, sent, dropped, deaths>>
    /\ \/ UNCHANGED <<cpc, cop, todo, cur>>
       \/ /\ cpc \notin {"check", "put", "remove"} /\ cpc' \notin {"check", "put", "remove"}
          /\ cop' \in Ops

----------------------------------------------------------------------------
(* Sequences.                                                              *)

(* The elements after an element is appended.                              *)
LEMMA AppendFacts ==
    ASSUME NEW S, NEW s \in Seq(S), NEW x \in S
    PROVE  /\ Append(s, x) \in Seq(S)
           /\ Range(Append(s, x)) = Range(s) \cup {x}
           /\ Distinct(s) /\ x \notin Range(s) => Distinct(Append(s, x))
<1>1. /\ Append(s, x) \in Seq(S) /\ Len(Append(s, x)) = Len(s) + 1
      /\ DOMAIN Append(s, x) = 1..(Len(s) + 1) /\ DOMAIN s = 1..Len(s) /\ Len(s) \in Nat
  BY SMTT(20)
<1>2. \A i \in 1..Len(s) : Append(s, x)[i] = s[i] /\ i \in 1..(Len(s) + 1)
  BY SMTT(20)
<1>3. Append(s, x)[Len(s) + 1] = x /\ Len(s) + 1 \in 1..(Len(s) + 1)
  BY SMTT(20)
<1>4. \A i \in 1..(Len(s) + 1) : i \in 1..Len(s) \/ i = Len(s) + 1
  BY <1>1, SMTT(20)
<1>5. Range(Append(s, x)) = Range(s) \cup {x}
  BY <1>1, <1>2, <1>3, <1>4, Zenon DEF Range
<1>6. ASSUME Distinct(s), x \notin Range(s) PROVE Distinct(Append(s, x))
  BY <1>1, <1>2, <1>3, <1>4, <1>6, Zenon DEF Distinct, Range
<1>. QED
  BY <1>1, <1>5, <1>6

(* The elements after the first one.                                       *)
LEMMA TailFacts ==
    ASSUME NEW S, NEW s \in Seq(S), s # <<>>
    PROVE  /\ Head(s) \in S /\ Tail(s) \in Seq(S)
           /\ Range(s) = {Head(s)} \cup Range(Tail(s))
           /\ Distinct(s) => Distinct(Tail(s)) /\ Head(s) \notin Range(Tail(s))
           /\ Len(s) = 1 <=> Tail(s) = <<>>
<1>1. /\ Head(s) \in S /\ Head(s) = s[1] /\ Tail(s) \in Seq(S) /\ Len(Tail(s)) = Len(s) - 1
      /\ DOMAIN s = 1..Len(s) /\ DOMAIN Tail(s) = 1..(Len(s) - 1) /\ Len(s) \in Nat \ {0}
  BY SMTT(20)
<1>2. \A i \in 1..(Len(s) - 1) : Tail(s)[i] = s[i + 1] /\ i + 1 \in 1..Len(s) /\ i + 1 # 1
  BY SMTT(20)
<1>3. 1 \in 1..Len(s)
  BY <1>1, SMTT(20)
<1>4. ASSUME NEW i \in 1..Len(s), i # 1 PROVE \E j \in 1..(Len(s) - 1) : Tail(s)[j] = s[i]
  <2>1. i - 1 \in 1..(Len(s) - 1) /\ (i - 1) + 1 = i
    BY <1>1, <1>4, SMT
  <2>. QED
    BY <1>2, <2>1, Zenon
<1>5. Range(s) = {Head(s)} \cup Range(Tail(s))
  <2>1. \A y \in Range(s) : y \in {Head(s)} \cup Range(Tail(s))
    BY <1>1, <1>4, ZenonT(60) DEF Range
  <2>2. \A y \in Range(Tail(s)) : y \in Range(s)
    BY <1>1, <1>2, ZenonT(60) DEF Range
  <2>3. Head(s) \in Range(s)
    BY <1>1, <1>3, Zenon DEF Range
  <2>. QED
    BY <2>1, <2>2, <2>3, Zenon
<1>6. ASSUME Distinct(s) PROVE Distinct(Tail(s))
  <2>. SUFFICES ASSUME NEW i \in 1..(Len(s) - 1), NEW j \in 1..(Len(s) - 1),
                       Tail(s)[i] = Tail(s)[j]
                PROVE  i = j
    BY <1>1, Zenon DEF Distinct
  <2>1. s[i + 1] = s[j + 1] /\ i + 1 \in DOMAIN s /\ j + 1 \in DOMAIN s
    BY <1>1, <1>2, Zenon
  <2>2. i + 1 = j + 1
    BY <1>6, <2>1, Zenon DEF Distinct
  <2>. QED
    BY <1>1, <2>2, SMT
<1>7. ASSUME Distinct(s) PROVE Head(s) \notin Range(Tail(s))
  <2>. SUFFICES ASSUME NEW i \in 1..(Len(s) - 1), Tail(s)[i] = Head(s)
                PROVE  FALSE
    BY <1>1, Zenon DEF Range
  <2>1. s[i + 1] = s[1] /\ i + 1 \in DOMAIN s /\ 1 \in DOMAIN s /\ i + 1 # 1
    BY <1>1, <1>2, <1>3, Zenon
  <2>. QED
    BY <1>7, <2>1, Zenon DEF Distinct
<1>8. Len(s) = 1 <=> Tail(s) = <<>>
  <2>1. ASSUME Len(s) = 1 PROVE Tail(s) = <<>>
    BY <1>1, <2>1, SMTT(20)
  <2>2. ASSUME Tail(s) = <<>> PROVE Len(s) = 1
    BY <1>1, <2>2, SMTT(20)
  <2>. QED
    BY <2>1, <2>2, Zenon
<1>. QED
  BY <1>1, <1>5, <1>6, <1>7, <1>8, Zenon

(* A sequence after another one.                                           *)
LEMMA ConcatFacts ==
    ASSUME NEW S, NEW a \in Seq(S), NEW b \in Seq(S)
    PROVE  /\ a \o b \in Seq(S) /\ Len(a \o b) = Len(a) + Len(b)
           /\ DOMAIN (a \o b) = 1..(Len(a) + Len(b))
           /\ \A i \in 1..(Len(a) + Len(b)) :
                 (a \o b)[i] = IF i <= Len(a) THEN a[i] ELSE b[i - Len(a)]
BY SMTT(20)

(* The elements after one is removed.                                      *)
LEMMA WithoutFacts ==
    ASSUME NEW S, NEW s \in Seq(S), Distinct(s), NEW x
    PROVE  /\ Without(s, x) \in Seq(S) /\ Distinct(Without(s, x))
           /\ Range(Without(s, x)) = Range(s) \ {x}
           /\ Len(Without(s, x)) <= Len(s)
           /\ x \in Range(s) => Len(Without(s, x)) = Len(s) - 1
<1>1. CASE x \notin Range(s)
  <2>1. Without(s, x) = s /\ Len(s) \in Nat
    BY <1>1, SMT DEF Without
  <2>. QED
    BY <1>1, <2>1, SMT
<1>2. CASE x \in Range(s)
  <2>. DEFINE k == CHOOSE i \in DOMAIN s : s[i] = x
              t == SubSeq(s, 1, k - 1) \o SubSeq(s, k + 1, Len(s))
  <2>1. k \in 1..Len(s) /\ s[k] = x /\ Len(s) \in Nat /\ DOMAIN s = 1..Len(s)
    <3>1. DOMAIN s = 1..Len(s) /\ Len(s) \in Nat
      BY SMT
    <3>. QED
      BY <1>2, <3>1, Zenon DEF Range
  <2>. HIDE DEF k
  <2>2. /\ t \in Seq(S) /\ Len(t) = Len(s) - 1 /\ DOMAIN t = 1..(Len(s) - 1)
        /\ \A i \in 1..(Len(s) - 1) : t[i] = IF i < k THEN s[i] ELSE s[i + 1]
    <3>. DEFINE a == SubSeq(s, 1, k - 1)
                b == SubSeq(s, k + 1, Len(s))
    <3>1. k \in 1..Len(s)
      BY <2>1, Zenon
    <3>2. a \in Seq(S) /\ Len(a) = k - 1 /\ \A i \in 1..(k - 1) : a[i] = s[i]
      BY <3>1, SMTT(20)
    <3>3. b \in Seq(S) /\ Len(b) = Len(s) - k /\ \A i \in 1..(Len(s) - k) : b[i] = s[k + i]
      BY <3>1, SMTT(20)
    <3>4. t = a \o b
      BY Zenon
    <3>. HIDE DEF a, b, t
    <3>5. /\ a \o b \in Seq(S) /\ Len(a \o b) = Len(a) + Len(b)
          /\ DOMAIN (a \o b) = 1..(Len(a) + Len(b))
          /\ \A i \in 1..(Len(a) + Len(b)) :
                (a \o b)[i] = IF i <= Len(a) THEN a[i] ELSE b[i - Len(a)]
      BY <3>2, <3>3, ConcatFacts, Zenon
    <3>6. Len(a) + Len(b) = Len(s) - 1
      BY <2>1, <3>2, <3>3, SMT
    <3>7. ASSUME NEW i \in 1..(Len(s) - 1)
          PROVE  (a \o b)[i] = IF i < k THEN s[i] ELSE s[i + 1]
      <4>1. CASE i < k
        <5>1. i \in 1..(k - 1) /\ i <= Len(a)
          BY <2>1, <3>2, <4>1, SMT
        <5>. QED
          BY <3>2, <3>5, <3>6, <4>1, <5>1, Zenon
      <4>2. CASE ~(i < k)
        <5>1. /\ ~(i <= Len(a)) /\ i - Len(a) \in 1..(Len(s) - k)
              /\ k + (i - Len(a)) = i + 1
          BY <2>1, <3>2, <4>2, SMT
        <5>. QED
          BY <3>3, <3>5, <3>6, <4>2, <5>1, Zenon
      <4>. QED
        BY <4>1, <4>2, Zenon
    <3>. QED
      BY <3>4, <3>5, <3>6, <3>7, Zenon
  <2>3. Without(s, x) = t
    BY <1>2, <2>1, Zenon DEF Without, k
  <2>. HIDE DEF t
  <2>4. Distinct(t)
    BY <2>1, <2>2, SMTT(20) DEF Distinct
  <2>5. ASSUME NEW y \in Range(t) PROVE y \in Range(s) \ {x}
    <3>1. PICK i \in 1..(Len(s) - 1) : t[i] = y
      BY <2>2, Zenon DEF Range
    <3>2. PICK j \in 1..Len(s) : s[j] = y /\ j # k
      BY <2>1, <2>2, <3>1, SMTT(20)
    <3>. QED
      BY <2>1, <3>2, Zenon DEF Range, Distinct
  <2>6. ASSUME NEW y \in Range(s), y # x PROVE y \in Range(t)
    <3>1. PICK j \in 1..Len(s) : s[j] = y
      BY <2>1, Zenon DEF Range
    <3>2. PICK i \in 1..(Len(s) - 1) : t[i] = y
      <4>1. CASE j < k
        <5>1. j \in 1..(Len(s) - 1) /\ t[j] = y
          BY <2>1, <2>2, <3>1, <4>1, SMTT(20)
        <5>. QED
          BY <5>1, Zenon
      <4>2. CASE ~(j < k)
        <5>1. j - 1 \in 1..(Len(s) - 1) /\ t[j - 1] = y
          BY <2>1, <2>2, <2>6, <3>1, <4>2, SMTT(20)
        <5>. QED
          BY <5>1, Zenon
      <4>. QED
        BY <4>1, <4>2, Zenon
    <3>. QED
      BY <2>2, <3>2, Zenon DEF Range
  <2>7. Range(t) = Range(s) \ {x}
    BY <2>5, <2>6, Zenon
  <2>8. Len(t) <= Len(s)
    BY <2>1, <2>2, SMT
  <2>. QED
    BY <2>2, <2>3, <2>4, <2>7, <2>8, Zenon
<1>. QED
  BY <1>1, <1>2, Zenon

(* A file of one event.                                                    *)
LEMMA OneEvent ==
    ASSUME NEW e \in Events
    PROVE  /\ <<e>> \in Seq(Events) /\ <<e>> # <<>> /\ Len(<<e>>) = 1
           /\ Range(<<e>>) = {e} /\ Distinct(<<e>>)
<1>1. <<e>> \in Seq(Events) /\ <<e>> # <<>> /\ Len(<<e>>) = 1
  BY SMT
<1>2. DOMAIN <<e>> = {1} /\ <<e>>[1] = e
  BY SMT
<1>3. Range(<<e>>) = {e}
  BY <1>2, Zenon DEF Range
<1>4. Distinct(<<e>>)
  BY <1>2, Zenon DEF Distinct
<1>. QED
  BY <1>1, <1>3, <1>4, Zenon

(* The events of a file of one event.                                      *)
LEMMA OnlyEvent ==
    ASSUME NEW f \in Seq(Events), Len(f) = 1
    PROVE  Range(f) = {f[1]}
<1>1. DOMAIN f = {1}
  BY SMT
<1>. QED
  BY <1>1, Zenon DEF Range

(* The events of a file, and of what the collector reads, are events.      *)
LEMMA EventsOfFile ==
    ASSUME NEW f \in Seq(Events)
    PROVE  \A e \in Range(f) : e \in Events
<1>1. \A i \in DOMAIN f : f[i] \in Events
  BY SMT
<1>. QED
  BY <1>1, Zenon DEF Range

(* A file of a directory is a sequence of events.                          *)
LEMMA FilesOfDirectory ==
    ASSUME FileTypes, NEW op \in Ops, NEW f \in Range(files[op])
    PROVE  /\ f \in Seq(Events) /\ f # <<>> /\ Distinct(f)
           /\ \A e \in Range(f) : e \in Events
<1>1. files[op] \in Seq(Seq(Events)) /\ f # <<>> /\ Distinct(f)
  BY Zenon DEF FileTypes
<1>2. \A i \in DOMAIN files[op] : files[op][i] \in Seq(Events)
  BY <1>1, SMT
<1>3. f \in Seq(Events)
  BY <1>2, Zenon DEF Range
<1>. QED
  BY <1>1, <1>3, EventsOfFile, Zenon

(* A file is added to a directory.                                         *)
LEMMA FileAdded ==
    ASSUME FileTypes, NEW op \in Ops, NEW f \in Seq(Events), f # <<>>, Distinct(f),
           op = "agent" => Len(f) = 1, f \notin Range(files[op]),
           files' = [files EXCEPT ![op] = Append(@, f)]
    PROVE  /\ FileTypes'
           /\ Range(files'[op]) = Range(files[op]) \cup {f}
           /\ \A po \in Ops : po # op => files'[po] = files[po]
<1>1. files[op] \in Seq(Seq(Events)) /\ Distinct(files[op]) /\ DOMAIN files = Ops
  BY Zenon DEF FileTypes
<1>2. /\ files'[op] = Append(files[op], f) /\ DOMAIN files' = Ops
      /\ \A po \in Ops : po # op => files'[po] = files[po]
  BY <1>1, Zenon
<1>3. /\ files'[op] \in Seq(Seq(Events)) /\ Distinct(files'[op])
      /\ Range(files'[op]) = Range(files[op]) \cup {f}
  <2>. DEFINE s == files[op]
  <2>1. s \in Seq(Seq(Events)) /\ Distinct(s) /\ f \notin Range(s)
    BY <1>1, Zenon
  <2>. HIDE DEF s
  <2>2. /\ Append(s, f) \in Seq(Seq(Events)) /\ Distinct(Append(s, f))
        /\ Range(Append(s, f)) = Range(s) \cup {f}
    BY <2>1, AppendFacts
  <2>. QED
    BY <1>2, <2>2, Zenon DEF s
<1>4. \A po \in Ops : files'[po] \in Seq(Seq(Events)) /\ Distinct(files'[po])
  BY <1>2, <1>3, Zenon DEF FileTypes
<1>5. \A po \in Ops : \A g \in Range(files'[po]) : g # <<>> /\ Distinct(g)
  BY <1>2, <1>3, Zenon DEF FileTypes
<1>6. \A g \in Range(files'["agent"]) : Len(g) = 1
  BY <1>2, <1>3, Zenon DEF FileTypes, Ops
<1>. QED
  BY <1>2, <1>3, <1>4, <1>5, <1>6, Zenon DEF FileTypes

(* A file is removed from a directory, if it is there.                     *)
LEMMA FileRemoved ==
    ASSUME FileTypes, NEW op \in Ops, NEW f,
           files' = [files EXCEPT ![op] = Without(@, f)]
    PROVE  /\ FileTypes'
           /\ Range(files'[op]) = Range(files[op]) \ {f}
           /\ Len(files'[op]) <= Len(files[op])
           /\ f \in Range(files[op]) => Len(files'[op]) = Len(files[op]) - 1
           /\ \A po \in Ops : po # op => files'[po] = files[po]
<1>1. files[op] \in Seq(Seq(Events)) /\ Distinct(files[op]) /\ DOMAIN files = Ops
  BY Zenon DEF FileTypes
<1>2. /\ files'[op] = Without(files[op], f) /\ DOMAIN files' = Ops
      /\ \A po \in Ops : po # op => files'[po] = files[po]
  BY <1>1, Zenon
<1>3. /\ files'[op] \in Seq(Seq(Events)) /\ Distinct(files'[op])
      /\ Range(files'[op]) = Range(files[op]) \ {f}
      /\ Len(files'[op]) <= Len(files[op])
      /\ f \in Range(files[op]) => Len(files'[op]) = Len(files[op]) - 1
  <2>. DEFINE s == files[op]
  <2>1. s \in Seq(Seq(Events)) /\ Distinct(s)
    BY <1>1, Zenon
  <2>. HIDE DEF s
  <2>2. /\ Without(s, f) \in Seq(Seq(Events)) /\ Distinct(Without(s, f))
        /\ Range(Without(s, f)) = Range(s) \ {f}
        /\ Len(Without(s, f)) <= Len(s)
        /\ f \in Range(s) => Len(Without(s, f)) = Len(s) - 1
    BY <2>1, WithoutFacts, Zenon
  <2>. QED
    BY <1>2, <2>2, Zenon DEF s
<1>4. \A po \in Ops : files'[po] \in Seq(Seq(Events)) /\ Distinct(files'[po])
  BY <1>2, <1>3, Zenon DEF FileTypes
<1>5. \A po \in Ops : \A g \in Range(files'[po]) : g # <<>> /\ Distinct(g)
  BY <1>2, <1>3, Zenon DEF FileTypes
<1>6. \A g \in Range(files'["agent"]) : Len(g) = 1
  BY <1>2, <1>3, Zenon DEF FileTypes, Ops
<1>. QED
  BY <1>2, <1>3, <1>4, <1>5, <1>6, Zenon DEF FileTypes

(* An event is put in the queue.                                           *)
LEMMA EventQueued ==
    ASSUME SenderTypes, Once, NEW e \in Events, NEW op \in Ops, e \notin Queued,
           queue' = Append(queue, <<e, op>>)
    PROVE  /\ queue' \in Seq(Events \X Ops) /\ Distinct(queue')
           /\ \A p, q \in Range(queue') : p[1] = q[1] => p = q
           /\ Queued' = Queued \cup {e}
<1>1. queue \in Seq(Events \X Ops) /\ <<e, op>> \in Events \X Ops /\ <<e, op>>[1] = e
  BY Zenon DEF SenderTypes
<1>2. <<e, op>> \notin Range(queue)
  BY <1>1, Zenon DEF Queued
<1>3. /\ queue' \in Seq(Events \X Ops) /\ Distinct(queue')
      /\ Range(queue') = Range(queue) \cup {<<e, op>>}
  <2>1. Distinct(queue)
    BY Zenon DEF Once
  <2>2. /\ Append(queue, <<e, op>>) \in Seq(Events \X Ops) /\ Distinct(Append(queue, <<e, op>>))
        /\ Range(Append(queue, <<e, op>>)) = Range(queue) \cup {<<e, op>>}
    BY <1>1, <1>2, <2>1, AppendFacts
  <2>. QED
    BY <2>2, Zenon
<1>4. \A p, q \in Range(queue') : p[1] = q[1] => p = q
  <2>1. \A p, q \in Range(queue) : p[1] = q[1] => p = q
    BY Zenon DEF Once
  <2>2. \A p \in Range(queue) : p[1] # <<e, op>>[1]
    BY <1>1, Zenon DEF Queued
  <2>. QED
    BY <1>3, <2>1, <2>2, Zenon
<1>5. Queued' = Queued \cup {e}
  BY <1>1, <1>3, ZenonT(60) DEF Queued
<1>. QED
  BY <1>3, <1>4, <1>5, Zenon

(* An event is taken from the queue.                                       *)
LEMMA EventTaken ==
    ASSUME SenderTypes, Once, queue # <<>>, queue' = Tail(queue)
    PROVE  /\ Head(queue)[1] \in Events /\ Head(queue)[2] \in Ops
           /\ queue' \in Seq(Events \X Ops) /\ Distinct(queue')
           /\ \A p, q \in Range(queue') : p[1] = q[1] => p = q
           /\ Head(queue)[1] \in Queued
           /\ Queued' = Queued \ {Head(queue)[1]}
<1>1. queue \in Seq(Events \X Ops) /\ Distinct(queue)
  BY Zenon DEF SenderTypes, Once
<1>2. /\ Head(queue) \in Events \X Ops /\ queue' \in Seq(Events \X Ops) /\ Distinct(queue')
      /\ Range(queue) = {Head(queue)} \cup Range(queue') /\ Head(queue) \notin Range(queue')
  BY <1>1, TailFacts, Zenon
<1>3. Head(queue)[1] \in Events /\ Head(queue)[2] \in Ops
  BY <1>2, Zenon
<1>4. \A p, q \in Range(queue') : p[1] = q[1] => p = q
  BY <1>2, Zenon DEF Once
<1>5. Head(queue)[1] \in Queued
  BY <1>2, Zenon DEF Queued
<1>6. Head(queue)[1] \notin Queued'
  BY <1>2, Zenon DEF Queued, Once
<1>7. Queued = Queued' \cup {Head(queue)[1]}
  BY <1>2, Zenon DEF Queued
<1>8. Queued' = Queued \ {Head(queue)[1]}
  BY <1>6, <1>7, Zenon
<1>. QED
  BY <1>2, <1>3, <1>4, <1>5, <1>8, Zenon

(* Every step is quiet, or is a step of one of these kinds.                *)
LEMMA Actors ==
    ASSUME CollectorTypes, [Next]_vars
    PROVE  \/ \E w \in Writers : AddEvent(w) \/ RemoveOldest(w) \/ WriteFile(w)
           \/ ExtensionWrites \/ OpenFile \/ NextEvent \/ PutEvent \/ RemoveFile
           \/ CleanDirectory \/ TakeEvent \/ SendRest \/ SenderDies \/ Quiet
<1>1. CASE StartOperation
  <2>1. UNCHANGED <<files, added, writer, queue, buf, sent, dropped, deaths>>
    BY <1>1, Zenon DEF StartOperation, writing, sender
  <2>2. cpc = "idle" /\ cpc' \in {"idle", "open"}
    BY <1>1, Zenon DEF StartOperation, EndOperation
  <2>3. cop' \in Ops
    BY <1>1, Zenon DEF StartOperation, EndOperation, Other, Ops, CollectorTypes
  <2>. QED
    BY <2>1, <2>2, <2>3, SMT DEF Quiet
<1>2. CASE CollectorExits
  <2>1. UNCHANGED <<files, added, writer, queue, buf, sent, dropped, deaths, cop>>
    BY <1>2, Zenon DEF CollectorExits, writing, sender
  <2>2. cpc = "idle" /\ cpc' = "exited"
    BY <1>2, Zenon DEF CollectorExits
  <2>. QED
    BY <2>1, <2>2, Zenon DEF Quiet, CollectorTypes
<1>3. CASE EndBatch
  BY <1>3, Zenon DEF EndBatch, Quiet, writing, collector
<1>4. CASE SenderExits
  BY <1>4, Zenon DEF SenderExits, Quiet, writing, collector, sender
<1>5. CASE CheckThreads
  BY <1>5, Zenon DEF CheckThreads, Quiet, writing, collector, sender
<1>6. CASE StopCollector
  BY <1>6, Zenon DEF StopCollector, Quiet, writing, collector, sender
<1>7. CASE JoinCollector
  BY <1>7, Zenon DEF JoinCollector, Quiet, writing, collector, sender
<1>8. CASE StopSender
  BY <1>8, Zenon DEF StopSender, Quiet, writing, collector, sender
<1>9. CASE JoinSender
  BY <1>9, Zenon DEF JoinSender, Quiet, writing, collector, sender
<1>10. CASE Exited
  BY <1>10, Zenon DEF Exited, Quiet, writing, collector, sender, vars
<1>11. CASE UNCHANGED vars
  BY <1>11, Zenon DEF Quiet, vars, writing, collector, sender
<1>. QED
  BY <1>1, <1>2, <1>3, <1>4, <1>5, <1>6, <1>7, <1>8, <1>9, <1>10, <1>11, Zenon DEF Next, SaveEvent, Collect,
    SendEvents, Shutdown

(* What the collector reads next.                                          *)
LEMMA NextRead ==
    ASSUME CollectorTypes, Reading
    PROVE  /\ Head(cur) \in Events /\ Tail(cur) \in Seq(Events) /\ Distinct(Tail(cur))
           /\ Range(cur) = {Head(cur)} \cup Range(Tail(cur))
           /\ Head(cur) \notin Range(Tail(cur))
           /\ Len(cur) = 1 <=> Tail(cur) = <<>>
           /\ ToRead(Head(cur))
<1>1. cur \in Seq(Events) /\ cur # <<>> /\ Distinct(cur)
  BY Zenon DEF CollectorTypes
<1>2. /\ Head(cur) \in Events /\ Tail(cur) \in Seq(Events) /\ Distinct(Tail(cur))
      /\ Range(cur) = {Head(cur)} \cup Range(Tail(cur))
      /\ Head(cur) \notin Range(Tail(cur))
      /\ Len(cur) = 1 <=> Tail(cur) = <<>>
  BY <1>1, TailFacts, Zenon
<1>3. ToRead(Head(cur))
  BY <1>2, Zenon DEF ToRead
<1>. QED
  BY <1>2, <1>3, Zenon

(* An event goes from the file to the queue.                               *)
LEMMA EventPut ==
    ASSUME CollectorTypes, SenderTypes, Once, Unread, PutEvent
    PROVE  /\ cpc = "put" /\ cpc' \in {"check", "remove"} /\ Reading
           /\ cpc' = "check" => cur' = Tail(cur) /\ Tail(cur) # <<>>
           /\ UNCHANGED <<files, added, writer, cop, todo, buf, sent, deaths>>
           /\ Head(cur) \in Events /\ Fresh(Head(cur))
           /\ queue' \in Seq(Events \X Ops) /\ Distinct(queue')
           /\ \A p, q \in Range(queue') : p[1] = q[1] => p = q
           /\ Queued' = Queued \cup {Head(cur)}
<1>1. /\ cpc = "put" /\ cpc' \in {"check", "remove"} /\ Reading
      /\ cpc' = "check" => cur' = Tail(cur) /\ Len(cur) # 1
      /\ queue' = Append(queue, <<Head(cur), cop>>)
  BY Zenon DEF PutEvent, Reading
<1>2. UNCHANGED <<files, added, writer, cop, todo, buf, sent, deaths>>
  BY Zenon DEF PutEvent, writing
<1>3. Head(cur) \in Events /\ ToRead(Head(cur)) /\ (Len(cur) = 1 <=> Tail(cur) = <<>>)
  BY <1>1, NextRead, Zenon
<1>4. Fresh(Head(cur)) /\ cop \in Ops
  BY <1>3, Zenon DEF Unread, CollectorTypes
<1>5. Head(cur) \notin Queued
  BY <1>4, Zenon DEF Fresh
<1>6. /\ queue' \in Seq(Events \X Ops) /\ Distinct(queue')
      /\ \A p, q \in Range(queue') : p[1] = q[1] => p = q
      /\ Queued' = Queued \cup {Head(cur)}
  BY <1>1, <1>3, <1>4, <1>5, EventQueued, Zenon
<1>. QED
  BY <1>1, <1>2, <1>3, <1>4, <1>6, Zenon

(* A request is sent, and may fail.                                        *)
LEMMA RequestSent ==
    ASSUME SenderTypes, NEW es \in SUBSET Events, Send(es)
    PROVE  /\ sent' \in [Events -> Nat]
           /\ \A e \in Events : e \notin es => sent'[e] = sent[e]
           /\ \A e \in es : sent'[e] = sent[e] \/ sent'[e] = sent[e] + 1
           /\ \A e \in es : sent'[e] > 0 \/ <<e, "error">> \in dropped'
           /\ dropped \subseteq dropped'
<1>1. sent \in [Events -> Nat]
  BY Zenon DEF SenderTypes
<1>2. CASE /\ sent' = [e \in Events |-> IF e \in es THEN sent[e] + 1 ELSE sent[e]]
           /\ UNCHANGED dropped
  <2>1. sent' \in [Events -> Nat]
    BY <1>1, <1>2, SMT
  <2>2. \A e \in Events : e \notin es => sent'[e] = sent[e]
    BY <1>2, Zenon
  <2>3. \A e \in es : sent'[e] = sent[e] + 1
    BY <1>2, Zenon
  <2>4. \A e \in es : sent'[e] > 0
    BY <1>1, <2>3, SMT
  <2>. QED
    BY <1>2, <2>1, <2>2, <2>3, <2>4, Zenon
<1>3. CASE Drop(es, "error") /\ UNCHANGED sent
  BY <1>1, <1>3, Zenon DEF Drop
<1>. QED
  BY <1>2, <1>3, Zenon DEF Send

(* What is in the queue is an event.                                       *)
LEMMA QueuedEvents ==
    ASSUME SenderTypes PROVE \A e \in Queued : e \in Events
<1>1. \A i \in DOMAIN queue : queue[i][1] \in Events
  BY SMT DEF SenderTypes
<1>2. \A q \in Range(queue) : q[1] \in Events
  BY <1>1, Zenon DEF Range
<1>. QED
  BY <1>2, Zenon DEF Queued

(* Events go from the queue to the buffers, and from there to the          *)
(* WireServer.                                                             *)
LEMMA Delivery ==
    ASSUME SenderTypes, Once, NEW es \in SUBSET Queued,
           queue' \in Seq(Events \X Ops), Distinct(queue'),
           \A p, q \in Range(queue') : p[1] = q[1] => p = q,
           Queued' = Queued \ es,
           sent' \in [Events -> Nat], buf' \in [Ops -> SUBSET Events], deaths' \in Nat,
           dropped \subseteq dropped',
           \A op \in Ops : \A e \in buf'[op] : e \in buf[op] \/ e \in es,
           \A op, po \in Ops : \A e \in es : e \in buf'[op] /\ e \in buf'[po] => po = op,
           \A e \in Events : ~Buffered(e) => sent'[e] = sent[e],
           \A op \in Ops : \A e \in buf[op] : e \in buf'[op] => sent'[e] = sent[e],
           \A op \in Ops : \A e \in buf[op] : e \notin buf'[op] =>
               /\ sent'[e] = sent[e] \/ sent'[e] = sent[e] + 1
               /\ sent'[e] > 0 \/ <<e, "error">> \in dropped',
           \A e \in es : Buffered(e)' \/ <<e, "error">> \in dropped'
    PROVE  /\ SenderTypes' /\ Once'
           /\ \A e \in Events : Fresh(e) => Fresh(e)'
           /\ \A e \in Events : Handled(e) => Handled(e)'
<1>1. SenderTypes'
  BY Zenon DEF SenderTypes
<1>2. sent \in [Events -> Nat] /\ \A op \in Ops : \A e \in buf[op] : e \in Events
  BY Zenon DEF SenderTypes
<1>3. \A op \in Ops : \A e \in buf'[op] : e \in Events
  BY Zenon
<1>4. \A e \in Queued : e \in Events
  BY QueuedEvents, Zenon
<1>5. \A e \in Events : Buffered(e)' => Buffered(e) \/ e \in es
  BY Zenon DEF Buffered
<1>6. ASSUME NEW e \in Events PROVE sent'[e] <= 1
  <2>1. CASE ~Buffered(e)
    BY <2>1, Zenon DEF Once
  <2>2. CASE Buffered(e)
    <3>1. PICK op \in Ops : e \in buf[op]
      BY <2>2, Zenon DEF Buffered
    <3>2. sent[e] = 0
      BY <3>1, Zenon DEF Once
    <3>3. sent'[e] = sent[e] \/ sent'[e] = sent[e] + 1
      BY <3>1, Zenon
    <3>. QED
      BY <3>2, <3>3, SMT
  <2>. QED
    BY <2>1, <2>2, Zenon
<1>7. ASSUME NEW e \in Queued' PROVE sent'[e] = 0 /\ ~Buffered(e)'
  <2>1. e \in Queued /\ e \notin es /\ e \in Events
    BY <1>4, <1>7, Zenon
  <2>2. sent[e] = 0 /\ ~Buffered(e)
    BY <2>1, Zenon DEF Once
  <2>. QED
    BY <1>5, <2>1, <2>2, Zenon
<1>8. ASSUME NEW op \in Ops, NEW po \in Ops, NEW e \in buf'[op]
      PROVE  sent'[e] = 0 /\ (e \in buf'[po] => po = op)
  <2>1. CASE e \in es
    <3>1. sent[e] = 0 /\ ~Buffered(e) /\ e \in Events
      BY <1>4, <2>1, Zenon DEF Once
    <3>. QED
      BY <2>1, <3>1, <1>8, Zenon
  <2>2. CASE e \notin es
    <3>1. e \in buf[op]
      BY <1>8, <2>2, Zenon
    <3>2. sent[e] = 0 /\ (e \in buf[po] => po = op)
      BY <3>1, Zenon DEF Once
    <3>. QED
      BY <1>8, <2>2, <3>1, <3>2, Zenon
  <2>. QED
    BY <2>1, <2>2, Zenon
<1>9. Once'
  BY <1>6, <1>7, <1>8, Zenon DEF Once
<1>10. ASSUME NEW e \in Events, Fresh(e) PROVE Fresh(e)'
  <2>1. sent[e] = 0 /\ e \notin Queued /\ ~Buffered(e)
    BY <1>10, Zenon DEF Fresh
  <2>2. sent'[e] = 0 /\ e \notin Queued' /\ ~Buffered(e)'
    BY <1>5, <2>1, Zenon
  <2>. QED
    BY <2>2, Zenon DEF Fresh
<1>11. ASSUME NEW e \in Events, Handled(e) PROVE Handled(e)'
  <2>1. "error" \in Causes \ {"stopped"}
    BY Zenon DEF Causes
  <2>2. ASSUME <<e, "error">> \in dropped' PROVE Handled(e)'
    BY <2>1, <2>2, Zenon DEF Handled, GivenUp
  <2>3. CASE Buffered(e)
    <3>1. PICK op \in Ops : e \in buf[op]
      BY <2>3, Zenon DEF Buffered
    <3>. QED
      BY <2>2, <3>1, Zenon DEF Handled, Buffered
  <2>4. CASE sent[e] > 0 /\ ~Buffered(e)
    BY <2>4, Zenon DEF Handled
  <2>5. CASE e \in Queued
    BY <2>2, <2>5, Zenon DEF Handled
  <2>6. CASE GivenUp(e)
    BY <2>6, Zenon DEF Handled, GivenUp
  <2>. QED
    BY <1>11, <2>3, <2>4, <2>5, <2>6, Zenon DEF Handled
<1>. QED
  BY <1>1, <1>9, <1>10, <1>11, Zenon

(* An event is taken from the queue.                                       *)
LEMMA TakeDelivers ==
    ASSUME SenderTypes, Once, TakeEvent
    PROVE  /\ UNCHANGED <<files, added, writer, cpc, cop, todo, cur>>
           /\ SenderTypes' /\ Once'
           /\ \A e \in Events : Fresh(e) => Fresh(e)'
           /\ \A e \in Events : Handled(e) => Handled(e)'
<1>. DEFINE x == Head(queue)[1]
            d == Head(queue)[2]
<1>1. queue # <<>> /\ queue' = Tail(queue) /\ UNCHANGED deaths
  BY Zenon DEF TakeEvent
<1>2. /\ x \in Events /\ d \in Ops
      /\ queue' \in Seq(Events \X Ops) /\ Distinct(queue')
      /\ \A p, q \in Range(queue') : p[1] = q[1] => p = q
      /\ x \in Queued
      /\ Queued' = Queued \ {x}
  BY <1>1, EventTaken, Zenon
<1>3. \/ Send(buf[d]) /\ buf' = [buf EXCEPT ![d] = {x}]
      \/ buf' = [buf EXCEPT ![d] = @ \cup {x}] /\ UNCHANGED <<sent, dropped>>
      \/ Drop({x}, "error") /\ UNCHANGED <<buf, sent>>
  BY Zenon DEF TakeEvent
<1>4. UNCHANGED <<files, added, writer, cpc, cop, todo, cur>>
  BY Zenon DEF TakeEvent, writing, collector
<1>. HIDE DEF x, d
<1>5. /\ sent \in [Events -> Nat] /\ buf \in [Ops -> SUBSET Events] /\ deaths' \in Nat
      /\ ~Buffered(x)
  BY <1>1, <1>2, Zenon DEF SenderTypes, Once
<1>6. buf[d] \in SUBSET Events /\ x \notin buf[d]
  BY <1>2, <1>5, Zenon DEF Buffered
<1>7. ASSUME NEW t \in SUBSET Events, buf' = [buf EXCEPT ![d] = t]
      PROVE  /\ buf' \in [Ops -> SUBSET Events] /\ buf'[d] = t
             /\ \A op \in Ops : op # d => buf'[op] = buf[op]
  BY <1>2, <1>5, <1>7, Zenon
<1>8. CASE Send(buf[d]) /\ buf' = [buf EXCEPT ![d] = {x}]
  <2>1. /\ buf' \in [Ops -> SUBSET Events] /\ buf'[d] = {x}
        /\ \A op \in Ops : op # d => buf'[op] = buf[op]
    <3>1. {x} \in SUBSET Events
      BY <1>2, Zenon
    <3>. QED
      BY <1>7, <1>8, <3>1, Zenon
  <2>2. /\ sent' \in [Events -> Nat]
        /\ \A e \in Events : e \notin buf[d] => sent'[e] = sent[e]
        /\ \A e \in buf[d] : sent'[e] = sent[e] \/ sent'[e] = sent[e] + 1
        /\ \A e \in buf[d] : sent'[e] > 0 \/ <<e, "error">> \in dropped'
        /\ dropped \subseteq dropped'
    BY <1>6, <1>8, RequestSent, Zenon
  <2>3. \A op \in Ops : \A e \in buf'[op] : e \in buf[op] \/ e \in {x}
    BY <2>1, Zenon
  <2>4. \A op, po \in Ops : \A e \in {x} : e \in buf'[op] /\ e \in buf'[po] => po = op
    BY <1>5, <2>1, Zenon DEF Buffered
  <2>5. \A e \in Events : ~Buffered(e) => sent'[e] = sent[e]
    BY <1>2, <2>2, Zenon DEF Buffered
  <2>6. ASSUME NEW op \in Ops, NEW e \in buf[op], e \in buf'[op] PROVE sent'[e] = sent[e]
    <3>1. op # d /\ e \in Events
      BY <1>5, <1>6, <2>1, <2>6, Zenon
    <3>2. e \notin buf[d]
      BY <1>2, <2>6, <3>1, Zenon DEF Once
    <3>. QED
      BY <2>2, <3>1, <3>2, Zenon
  <2>7. \A op \in Ops : \A e \in buf[op] : e \notin buf'[op] =>
            /\ sent'[e] = sent[e] \/ sent'[e] = sent[e] + 1
            /\ sent'[e] > 0 \/ <<e, "error">> \in dropped'
    BY <2>1, <2>2, Zenon
  <2>8. \A e \in {x} : Buffered(e)' \/ <<e, "error">> \in dropped'
    BY <1>2, <2>1, Zenon DEF Buffered
  <2>9. {x} \in SUBSET Queued
    BY <1>2, Zenon
  <2>. QED
    BY <1>2, <1>4, <1>5, <2>1, <2>2, <2>3, <2>4, <2>5, <2>6, <2>7, <2>8, <2>9, Delivery, Zenon
<1>9. CASE \/ buf' = [buf EXCEPT ![d] = @ \cup {x}] /\ UNCHANGED <<sent, dropped>>
           \/ Drop({x}, "error") /\ UNCHANGED <<buf, sent>>
  <2>1. \/ buf' = [buf EXCEPT ![d] = buf[d] \cup {x}] /\ UNCHANGED <<sent, dropped>>
        \/ buf' = buf /\ UNCHANGED sent /\ <<x, "error">> \in dropped' /\ dropped \subseteq dropped'
    BY <1>9, Zenon DEF Drop
  <2>2. /\ buf' \in [Ops -> SUBSET Events] /\ sent' = sent /\ dropped \subseteq dropped'
        /\ \A op \in Ops : op # d => buf'[op] = buf[op]
        /\ buf'[d] = buf[d] \cup {x} \/ (buf'[d] = buf[d] /\ <<x, "error">> \in dropped')
    <3>1. buf[d] \cup {x} \in SUBSET Events
      BY <1>2, <1>6, Zenon
    <3>. QED
      BY <1>5, <1>7, <2>1, <3>1, Zenon
  <2>3. \A op \in Ops : \A e \in buf'[op] : e \in buf[op] \/ e \in {x}
    BY <2>2, Zenon
  <2>4. \A op, po \in Ops : \A e \in {x} : e \in buf'[op] /\ e \in buf'[po] => po = op
    BY <1>5, <2>2, Zenon DEF Buffered
  <2>5. \A e \in Events : sent'[e] = sent[e]
    BY <2>2, Zenon
  <2>6. \A op \in Ops : \A e \in buf[op] : e \in buf'[op] /\ sent'[e] = sent[e]
    BY <2>2, Zenon
  <2>7. \A e \in {x} : Buffered(e)' \/ <<e, "error">> \in dropped'
    BY <1>2, <2>2, Zenon DEF Buffered
  <2>8. {x} \in SUBSET Queued /\ sent' \in [Events -> Nat]
    BY <1>2, <1>5, <2>2, Zenon
  <2>. QED
    BY <1>2, <1>4, <1>5, <2>2, <2>3, <2>4, <2>5, <2>6, <2>7, <2>8, Delivery, Zenon
<1>. QED
  BY <1>3, <1>8, <1>9, Zenon

(* What is left in a buffer is sent, or is lost when the sender dies.      *)
LEMMA RestDelivers ==
    ASSUME SenderTypes, Once, SendRest \/ SenderDies
    PROVE  /\ UNCHANGED <<files, added, writer, cpc, cop, todo, cur>>
           /\ SenderTypes' /\ Once'
           /\ \A e \in Events : Fresh(e) => Fresh(e)'
           /\ \A e \in Events : Handled(e) => Handled(e)'
<1>1. /\ UNCHANGED <<files, added, writer, cpc, cop, todo, cur>>
      /\ UNCHANGED queue /\ (UNCHANGED deaths \/ deaths' = deaths + 1)
  BY Zenon DEF SendRest, SenderDies, writing, collector
<1>2. /\ sent \in [Events -> Nat] /\ buf \in [Ops -> SUBSET Events] /\ deaths \in Nat
      /\ queue' \in Seq(Events \X Ops) /\ Distinct(queue')
      /\ \A p, q \in Range(queue') : p[1] = q[1] => p = q
  BY <1>1, Zenon DEF SenderTypes, Once
<1>3. deaths' \in Nat
  BY <1>1, <1>2, SMT
<1>4. {} \in SUBSET Queued /\ Queued' = Queued \ {}
  BY <1>1, Zenon DEF Queued
<1>5. CASE SendRest
  <2>1. PICK d \in Ops : Send(buf[d]) /\ buf' = [buf EXCEPT ![d] = {}]
    BY <1>5, Zenon DEF SendRest
  <2>2. /\ buf' \in [Ops -> SUBSET Events] /\ buf'[d] = {}
        /\ \A op \in Ops : op # d => buf'[op] = buf[op]
    BY <1>2, <2>1, Zenon
  <2>3. buf[d] \in SUBSET Events
    BY <1>2, Zenon
  <2>4. /\ sent' \in [Events -> Nat]
        /\ \A e \in Events : e \notin buf[d] => sent'[e] = sent[e]
        /\ \A e \in buf[d] : sent'[e] = sent[e] \/ sent'[e] = sent[e] + 1
        /\ \A e \in buf[d] : sent'[e] > 0 \/ <<e, "error">> \in dropped'
        /\ dropped \subseteq dropped'
    BY <2>1, <2>3, RequestSent, Zenon
  <2>5. \A op \in Ops : \A e \in buf'[op] : e \in buf[op]
    BY <2>2, Zenon
  <2>6. \A e \in Events : ~Buffered(e) => sent'[e] = sent[e]
    BY <2>4, Zenon DEF Buffered
  <2>7. ASSUME NEW op \in Ops, NEW e \in buf[op], e \in buf'[op] PROVE sent'[e] = sent[e]
    <3>1. op # d /\ e \in Events
      BY <1>2, <2>2, <2>7, Zenon
    <3>2. e \notin buf[d]
      BY <2>7, <3>1, Zenon DEF Once
    <3>. QED
      BY <2>4, <3>1, <3>2, Zenon
  <2>8. \A op \in Ops : \A e \in buf[op] : e \notin buf'[op] =>
            /\ sent'[e] = sent[e] \/ sent'[e] = sent[e] + 1
            /\ sent'[e] > 0 \/ <<e, "error">> \in dropped'
    BY <2>2, <2>4, Zenon
  <2>. QED
    BY <1>1, <1>2, <1>3, <1>4, <2>2, <2>4, <2>5, <2>6, <2>7, <2>8, Delivery, Zenon
<1>6. CASE SenderDies
  <2>1. /\ buf' \in [Ops -> SUBSET Events] /\ \A op \in Ops : buf'[op] = {}
        /\ sent' = sent /\ dropped \subseteq dropped'
    BY <1>6, Zenon DEF SenderDies, Drop
  <2>2. \A op \in Ops : \A e \in buf[op] : <<e, "error">> \in dropped'
    BY <1>6, Zenon DEF SenderDies, Drop
  <2>3. /\ sent' \in [Events -> Nat]
        /\ \A e \in Events : sent'[e] = sent[e]
        /\ \A op \in Ops : \A e \in buf[op] : sent'[e] = sent[e]
        /\ \A op \in Ops : \A e \in buf'[op] : FALSE
    BY <1>2, <2>1, Zenon
  <2>. QED
    BY <1>1, <1>2, <1>3, <1>4, <2>1, <2>2, <2>3, Delivery, Zenon
<1>. QED
  BY <1>5, <1>6, Zenon

(* The steps that leave the sender alone.                                  *)
LEMMA OtherSteps ==
    ASSUME CollectorTypes, [Next]_vars,
           ~PutEvent, ~TakeEvent, ~SendRest, ~SenderDies
    PROVE  UNCHANGED <<queue, buf, sent, deaths>> /\ dropped \subseteq dropped'
<1>1. ASSUME NEW w \in Writers, AddEvent(w)
      PROVE  UNCHANGED <<queue, buf, sent, deaths>> /\ dropped \subseteq dropped'
  BY <1>1, Zenon DEF AddEvent, sender
<1>2. ASSUME NEW w \in Writers, RemoveOldest(w)
      PROVE  UNCHANGED <<queue, buf, sent, deaths>> /\ dropped \subseteq dropped'
  BY <1>2, Zenon DEF RemoveOldest, sender, Drop
<1>3. ASSUME NEW w \in Writers, WriteFile(w)
      PROVE  UNCHANGED <<queue, buf, sent, deaths>> /\ dropped \subseteq dropped'
  BY <1>3, Zenon DEF WriteFile, sender
<1>4. CASE ExtensionWrites
  BY <1>4, Zenon DEF ExtensionWrites, sender
<1>5. CASE OpenFile
  BY <1>5, Zenon DEF OpenFile, sender
<1>6. CASE NextEvent
  BY <1>6, Zenon DEF NextEvent, sender, Drop
<1>7. CASE RemoveFile
  BY <1>7, Zenon DEF RemoveFile, sender
<1>8. CASE CleanDirectory
  BY <1>8, Zenon DEF CleanDirectory, sender, Drop
<1>9. CASE Quiet
  BY <1>9, Zenon DEF Quiet
<1>. QED
  BY <1>1, <1>2, <1>3, <1>4, <1>5, <1>6, <1>7, <1>8, <1>9, Actors, Zenon

(* Every step keeps what the sender has in order.  An event stays fresh    *)
(* unless it is put in the queue, and one that was handled remains so.     *)
LEMMA SenderStep ==
    ASSUME CollectorTypes, SenderTypes, Once, Unread, [Next]_vars
    PROVE  /\ SenderTypes' /\ Once'
           /\ \A e \in Events : Fresh(e) => Fresh(e)' \/ (PutEvent /\ e = Head(cur))
           /\ \A e \in Events : Handled(e) => Handled(e)'
<1>1. CASE UNCHANGED <<queue, buf, sent, deaths>> /\ dropped \subseteq dropped'
  <2>1. SenderTypes'
    BY <1>1, Zenon DEF SenderTypes
  <2>2. Queued' = Queued /\ \A e \in Events : Buffered(e)' = Buffered(e)
    BY <1>1, Zenon DEF Queued, Buffered
  <2>3. Once'
    <3>1. \A e \in Queued : e \in Events
      BY QueuedEvents, Zenon
    <3>. QED
      BY <1>1, <2>2, <3>1, Zenon DEF Once
  <2>4. \A e \in Events : Fresh(e) => Fresh(e)'
    BY <1>1, <2>2, Zenon DEF Fresh
  <2>5. \A e \in Events : Handled(e) => Handled(e)'
    BY <1>1, <2>2, Zenon DEF Handled, GivenUp
  <2>. QED
    BY <2>1, <2>3, <2>4, <2>5, Zenon
<1>2. CASE PutEvent
  <2>1. /\ UNCHANGED <<buf, sent, deaths>>
        /\ Head(cur) \in Events /\ Fresh(Head(cur))
        /\ queue' \in Seq(Events \X Ops) /\ Distinct(queue')
        /\ \A p, q \in Range(queue') : p[1] = q[1] => p = q
        /\ Queued' = Queued \cup {Head(cur)}
    BY <1>2, EventPut, Zenon
  <2>2. \A e \in Events : Buffered(e)' = Buffered(e)
    BY <2>1, Zenon DEF Buffered
  <2>3. SenderTypes'
    BY <2>1, Zenon DEF SenderTypes
  <2>4. \A e \in Queued' : sent'[e] = 0 /\ ~Buffered(e)'
    <3>1. \A e \in Queued : e \in Events
      BY QueuedEvents, Zenon
    <3>2. \A e \in Queued : sent[e] = 0 /\ ~Buffered(e)
      BY Zenon DEF Once
    <3>3. sent[Head(cur)] = 0 /\ ~Buffered(Head(cur))
      BY <2>1, Zenon DEF Fresh
    <3>. QED
      BY <2>1, <2>2, <3>1, <3>2, <3>3, Zenon
  <2>5. Once'
    BY <2>1, <2>4, Zenon DEF Once
  <2>6. \A e \in Events : Fresh(e) => Fresh(e)' \/ e = Head(cur)
    BY <2>1, <2>2, Zenon DEF Fresh
  <2>7. dropped \subseteq dropped'
    BY <1>2, Zenon DEF PutEvent, Drop
  <2>8. \A e \in Events : Handled(e) => Handled(e)'
    BY <2>1, <2>2, <2>7, Zenon DEF Handled, GivenUp
  <2>. QED
    BY <1>2, <2>3, <2>5, <2>6, <2>8, Zenon
<1>3. CASE TakeEvent
  BY <1>3, TakeDelivers, Zenon
<1>4. CASE SendRest \/ SenderDies
  BY <1>4, RestDelivers, Zenon
<1>. QED
  BY <1>1, <1>2, <1>3, <1>4, OtherSteps, Zenon

(* A thread takes on an event.                                             *)
LEMMA EventAdded ==
    ASSUME WriterTypes, NEW w \in Writers, AddEvent(w)
    PROVE  /\ WriterTypes'
           /\ added' = added + 1 /\ added' \in Events
           /\ Saving' = Saving \cup {added'}
           /\ writer[w].event = 0 /\ writer'[w].event = added'
           /\ writer'[w].oldest = Oldest(files["agent"])
           /\ \A v \in Writers : v # w => writer'[v] = writer[v]
           /\ UNCHANGED <<files, cpc, cop, todo, cur, timedOut>>
<1>1. /\ added' = added + 1 /\ added < MaxEvents /\ writer[w] = NotWriting
      /\ writer' = [writer EXCEPT ![w] = [event |-> added', oldest |-> Oldest(files["agent"])]]
  BY Zenon DEF AddEvent
<1>2. added \in Nat /\ DOMAIN writer = Writers
  BY Zenon DEF WriterTypes
<1>3. added' \in Events /\ added' # 0 /\ added' \in Nat /\ added' <= MaxEvents
  BY <1>1, <1>2, BoundsAssumption, SMT DEF Events
<1>4. /\ DOMAIN writer' = Writers
      /\ writer'[w] = [event |-> added', oldest |-> Oldest(files["agent"])]
      /\ \A v \in Writers : v # w => writer'[v] = writer[v]
  BY <1>1, <1>2, Zenon
<1>5. writer'[w].event = added' /\ writer'[w].oldest = Oldest(files["agent"])
  BY <1>4, SMT
<1>6. writer[w].event = 0
  BY <1>1, SMT DEF NotWriting
<1>7. Saving' = Saving \cup {added'}
  <2>1. \A e \in Saving' : e \in Saving \/ e = added'
    BY <1>4, <1>5, Zenon DEF Saving
  <2>2. \A e \in Saving : e \in Saving'
    BY <1>4, <1>6, Zenon DEF Saving
  <2>3. added' \in Saving'
    BY <1>3, <1>5, Zenon DEF Saving
  <2>. QED
    BY <2>1, <2>2, <2>3, Zenon
<1>8. \A v \in Writers : writer'[v] = [event |-> writer'[v].event, oldest |-> writer'[v].oldest]
  BY <1>4, <1>5, Zenon DEF WriterTypes
<1>9. \A v \in Writers : writer'[v].event = 0 => writer'[v].oldest = <<>>
  BY <1>3, <1>4, <1>5, Zenon DEF WriterTypes
<1>10. Saving' \subseteq Events
  BY <1>3, <1>7, Zenon DEF WriterTypes
<1>11. WriterTypes'
  BY <1>3, <1>4, <1>8, <1>9, <1>10, Zenon DEF WriterTypes
<1>12. UNCHANGED <<files, cpc, cop, todo, cur, timedOut>>
  BY Zenon DEF AddEvent, collector, main
<1>. QED
  BY <1>1, <1>3, <1>4, <1>5, <1>6, <1>7, <1>11, <1>12, ZenonT(60)

(* A thread has nothing more to write.                                     *)
LEMMA WriterDone ==
    ASSUME WriterTypes, NEW w \in Writers, writer' = [writer EXCEPT ![w] = NotWriting],
           UNCHANGED added
    PROVE  /\ WriterTypes'
           /\ \A e \in Saving' : e \in Saving
           /\ \A e \in Saving : e \in Saving' \/ e = writer[w].event
           /\ writer'[w] = NotWriting /\ writer'[w].event = 0
           /\ \A v \in Writers : v # w => writer'[v] = writer[v]
<1>1. DOMAIN writer = Writers /\ added' \in Nat /\ added' <= MaxEvents
  BY Zenon DEF WriterTypes
<1>2. /\ DOMAIN writer' = Writers /\ writer'[w] = NotWriting
      /\ \A v \in Writers : v # w => writer'[v] = writer[v]
  BY <1>1, Zenon
<1>3. writer'[w].event = 0 /\ writer'[w].oldest = <<>>
  BY <1>2, Zenon DEF NotWriting
<1>4. \A e \in Saving' : e \in Saving
  BY <1>2, <1>3, Zenon DEF Saving
<1>5. \A e \in Saving : e \in Saving' \/ e = writer[w].event
  BY <1>2, <1>3, Zenon DEF Saving
<1>6. \A v \in Writers : writer'[v] = [event |-> writer'[v].event, oldest |-> writer'[v].oldest]
  BY <1>2, <1>3, Zenon DEF WriterTypes, NotWriting
<1>7. \A v \in Writers : writer'[v].event = 0 => writer'[v].oldest = <<>>
  BY <1>2, <1>3, Zenon DEF WriterTypes
<1>8. Saving' \subseteq Events
  BY <1>4, Zenon DEF WriterTypes
<1>9. WriterTypes'
  BY <1>1, <1>2, <1>6, <1>7, <1>8, ZenonT(60) DEF WriterTypes
<1>. QED
  BY <1>2, <1>3, <1>4, <1>5, <1>9, Zenon

(* A thread removes one of the oldest files, or gives up its event because *)
(* somebody else did.                                                      *)
LEMMA OldestRemoved ==
    ASSUME WriterTypes, FileTypes, NEW w \in Writers, RemoveOldest(w)
    PROVE  /\ WriterTypes' /\ FileTypes'
           /\ UNCHANGED <<added, cpc, cop, todo, cur, timedOut>>
           /\ writer[w].event \in Saving /\ writer[w].oldest # <<>>
           /\ \A v \in Writers : v # w => writer'[v] = writer[v]
           /\ \/ /\ UNCHANGED files
                 /\ writer'[w] = NotWriting /\ writer'[w].event = 0
                 /\ \A e \in Saving' : e \in Saving
                 /\ \A e \in Saving : e \in Saving' \/ <<e, "error">> \in dropped'
              \/ /\ Range(files'["agent"]) = Range(files["agent"]) \ {Head(writer[w].oldest)}
                 /\ Len(files'["agent"]) = Len(files["agent"]) - 1
                 /\ files'["ext"] = files["ext"]
                 /\ writer'[w].event = writer[w].event
                 /\ writer'[w].oldest = Tail(writer[w].oldest)
                 /\ Saving' = Saving
                 /\ \A e \in Range(Head(writer[w].oldest)) : <<e, "limit">> \in dropped'
<1>. DEFINE f == Head(writer[w].oldest)
<1>1. UNCHANGED <<added, cpc, cop, todo, cur, timedOut>> /\ writer[w].oldest # <<>>
  BY Zenon DEF RemoveOldest, collector, main
<1>2. writer[w].event \in Saving
  BY <1>1, Zenon DEF WriterTypes, Saving
<1>3. CASE f \in Range(files["agent"])
  <2>1. /\ files' = [files EXCEPT !["agent"] = Without(@, f)]
        /\ writer' = [writer EXCEPT ![w].oldest = Tail(@)]
        /\ <<f[1], "limit">> \in dropped'
    BY <1>3, Zenon DEF RemoveOldest, Drop
  <2>2. "agent" \in Ops /\ "ext" \in Ops /\ "ext" # "agent"
    BY Zenon DEF Ops
  <2>3. /\ FileTypes' /\ Range(files'["agent"]) = Range(files["agent"]) \ {f}
        /\ Len(files'["agent"]) = Len(files["agent"]) - 1
        /\ files'["ext"] = files["ext"]
    BY <1>3, <2>1, <2>2, FileRemoved, Zenon
  <2>4. f \in Seq(Events) /\ Len(f) = 1
    BY <1>3, <2>2, FilesOfDirectory, Zenon DEF FileTypes
  <2>5. \A e \in Range(f) : <<e, "limit">> \in dropped'
    <3>1. Range(f) = {f[1]}
      BY <2>4, OnlyEvent, Zenon
    <3>. QED
      BY <2>1, <3>1, Zenon
  <2>6. /\ DOMAIN writer = Writers /\ added \in Nat
        /\ writer[w] = [event |-> writer[w].event, oldest |-> writer[w].oldest]
    BY Zenon DEF WriterTypes
  <2>7. /\ DOMAIN writer' = Writers
        /\ writer'[w] = [writer[w] EXCEPT !.oldest = Tail(writer[w].oldest)]
        /\ \A v \in Writers : v # w => writer'[v] = writer[v]
    BY <2>1, <2>6, Zenon
  <2>8. /\ writer'[w] = [event |-> writer'[w].event, oldest |-> writer'[w].oldest]
        /\ writer'[w].event = writer[w].event /\ writer'[w].oldest = Tail(writer[w].oldest)
    <3>1. \A a, b, c : [[event |-> a, oldest |-> b] EXCEPT !.oldest = c] = [event |-> a, oldest |-> c]
      BY SMT
    <3>2. writer'[w] = [event |-> writer[w].event, oldest |-> Tail(writer[w].oldest)]
      BY <2>6, <2>7, <3>1, Zenon
    <3>3. writer'[w].event = writer[w].event /\ writer'[w].oldest = Tail(writer[w].oldest)
      BY <3>2, SMT
    <3>. QED
      BY <3>2, <3>3, Zenon
  <2>9. \A v \in Writers : writer'[v].event = writer[v].event
    BY <2>7, <2>8, Zenon
  <2>10. Saving' = Saving
    BY <2>9, Zenon DEF Saving
  <2>11. writer[w].event # 0
    BY <1>2, Zenon DEF Saving
  <2>12. WriterTypes'
    BY <1>1, <2>7, <2>8, <2>10, <2>11, Zenon DEF WriterTypes
  <2>. QED
    BY <1>1, <1>2, <2>3, <2>5, <2>7, <2>8, <2>10, <2>12, ZenonT(60)
<1>4. CASE f \notin Range(files["agent"])
  <2>1. /\ writer' = [writer EXCEPT ![w] = NotWriting] /\ UNCHANGED files
        /\ <<writer[w].event, "error">> \in dropped'
    BY <1>4, Zenon DEF RemoveOldest, Drop
  <2>2. FileTypes'
    BY <2>1, Zenon DEF FileTypes
  <2>. QED
    BY <1>1, <1>2, <2>1, <2>2, WriterDone, Zenon
<1>. QED
  BY <1>3, <1>4, Zenon

(* A thread writes its file.                                               *)
LEMMA FileWritten ==
    ASSUME WriterTypes, FileTypes, Unsaved, NEW w \in Writers, WriteFile(w)
    PROVE  /\ WriterTypes' /\ FileTypes'
           /\ UNCHANGED <<added, cpc, cop, todo, cur, timedOut>>
           /\ writer[w].event \in Saving /\ writer[w].event \notin Saving'
           /\ writer[w].oldest = <<>>
           /\ writer'[w] = NotWriting /\ writer'[w].event = 0
           /\ \A v \in Writers : v # w => writer'[v] = writer[v]
           /\ \A e \in Saving' : e \in Saving
           /\ \A e \in Saving : e \in Saving' \/ e = writer[w].event
           /\ Range(<<writer[w].event>>) = {writer[w].event}
           /\ Range(files'["agent"]) = Range(files["agent"]) \cup {<<writer[w].event>>}
           /\ files'["agent"] = Append(files["agent"], <<writer[w].event>>)
           /\ files'["ext"] = files["ext"]
<1>. DEFINE x == writer[w].event
<1>1. /\ UNCHANGED <<added, cpc, cop, todo, cur, timedOut>>
      /\ writer[w] # NotWriting /\ writer[w].oldest = <<>>
      /\ files' = [files EXCEPT !["agent"] = Append(@, <<x>>)]
      /\ writer' = [writer EXCEPT ![w] = NotWriting]
  BY Zenon DEF WriteFile, collector, main
<1>2. x # 0
  <2>1. writer[w] = [event |-> writer[w].event, oldest |-> writer[w].oldest]
    BY Zenon DEF WriterTypes
  <2>. QED
    BY <1>1, <2>1, Zenon DEF NotWriting
<1>3. x \in Saving /\ x \in Events
  BY <1>2, Zenon DEF Saving, WriterTypes
<1>4. /\ WriterTypes'
      /\ \A e \in Saving' : e \in Saving
      /\ \A e \in Saving : e \in Saving' \/ e = x
      /\ writer'[w] = NotWriting /\ writer'[w].event = 0
      /\ \A v \in Writers : v # w => writer'[v] = writer[v]
  BY <1>1, WriterDone, Zenon
<1>5. x \notin Saving'
  BY <1>2, <1>4, ZenonT(60) DEF Saving, Unsaved
<1>. HIDE DEF x
<1>6. /\ <<x>> \in Seq(Events) /\ <<x>> # <<>> /\ Len(<<x>>) = 1
      /\ Range(<<x>>) = {x} /\ Distinct(<<x>>)
  BY <1>3, OneEvent, Zenon
<1>7. "agent" \in Ops /\ "ext" \in Ops /\ "ext" # "agent"
  BY Zenon DEF Ops
<1>8. <<x>> \notin Range(files["agent"])
  BY <1>3, <1>6, <1>7, Zenon DEF Unsaved, InFile
<1>9. /\ FileTypes' /\ Range(files'["agent"]) = Range(files["agent"]) \cup {<<x>>}
      /\ files'["ext"] = files["ext"]
  BY <1>1, <1>6, <1>7, <1>8, FileAdded, Zenon
<1>10. files'["agent"] = Append(files["agent"], <<x>>)
  BY <1>1, <1>7, Zenon DEF FileTypes
<1>. QED
  BY <1>1, <1>3, <1>4, <1>5, <1>6, <1>9, <1>10, ZenonT(60) DEF x

(* An extension writes a file.                                             *)
LEMMA ExtensionWrote ==
    ASSUME WriterTypes, FileTypes, Unknown, ExtensionWrites
    PROVE  /\ FileTypes' /\ WriterTypes'
           /\ UNCHANGED <<writer, cpc, cop, todo, cur, timedOut>>
           /\ added' > added /\ Saving' = Saving
           /\ files'["agent"] = files["agent"]
           /\ \E f : /\ Range(files'["ext"]) = Range(files["ext"]) \cup {f}
                     /\ \A e \in Range(f) : e \in Events /\ e > added /\ e <= added'
                     /\ \A e \in Nat : e > added /\ e <= added' => e \in Range(f)
<1>1. PICK n \in 1..2 : /\ added + n <= MaxEvents /\ added' = added + n
                        /\ files' = [files EXCEPT !["ext"] = Append(@, [i \in 1..n |-> added + i])]
  BY Zenon DEF ExtensionWrites
<1>. DEFINE f == [i \in 1..n |-> added + i]
<1>2. added \in Nat
  BY Zenon DEF WriterTypes
<1>3. /\ f \in Seq(Events) /\ f # <<>> /\ DOMAIN f = 1..n
      /\ \A i \in 1..n : f[i] = added + i
  <2>1. \A i \in 1..n : added + i \in Events
    BY <1>1, <1>2, BoundsAssumption, SMT DEF Events
  <2>2. n \in Nat /\ n # 0
    BY SMT
  <2>3. f \in Seq(Events)
    BY <2>1, <2>2, SMT
  <2>4. f # <<>>
    BY <2>2, SMT
  <2>5. DOMAIN f = 1..n /\ \A i \in 1..n : f[i] = added + i
    BY Zenon
  <2>. QED
    BY <2>3, <2>4, <2>5, Zenon
<1>4. files' = [files EXCEPT !["ext"] = Append(@, f)]
  BY <1>1, Zenon
<1>. HIDE DEF f
<1>5. Distinct(f)
  BY <1>2, <1>3, SMT DEF Distinct
<1>6. \A e \in Range(f) : e \in Events /\ e > added /\ e <= added'
  <2>1. \A i \in 1..n : added + i \in Events /\ added + i > added /\ added + i <= added'
    BY <1>1, <1>2, BoundsAssumption, SMT DEF Events
  <2>. QED
    BY <1>3, <2>1, ZenonT(60) DEF Range
<1>7. ASSUME NEW e \in Nat, e > added, e <= added' PROVE e \in Range(f)
  <2>1. e - added \in 1..n /\ added + (e - added) = e
    BY <1>1, <1>2, <1>7, SMT
  <2>. QED
    BY <1>3, <2>1, Zenon DEF Range
<1>8. added + 1 \in Events /\ added + 1 > added /\ added + 1 \in Range(f) /\ added' > added
      /\ added' \in Nat /\ added' <= MaxEvents
  <2>1. /\ added + 1 \in Nat /\ added + 1 > added /\ added + 1 <= added' /\ added' > added
        /\ added' \in Nat /\ added' <= MaxEvents
    BY <1>1, <1>2, SMT
  <2>. QED
    BY <1>6, <1>7, <2>1, Zenon
<1>9. "agent" \in Ops /\ "ext" \in Ops /\ "ext" # "agent"
  BY Zenon DEF Ops
<1>10. f \notin Range(files["ext"])
  BY <1>8, <1>9, Zenon DEF Unknown, InFile
<1>11. /\ FileTypes' /\ Range(files'["ext"]) = Range(files["ext"]) \cup {f}
       /\ files'["agent"] = files["agent"]
  BY <1>3, <1>4, <1>5, <1>9, <1>10, FileAdded, ZenonT(60)
<1>12. UNCHANGED <<writer, cpc, cop, todo, cur, timedOut>>
  BY Zenon DEF ExtensionWrites, collector, main
<1>13. Saving' = Saving
  BY <1>12, Zenon DEF Saving
<1>14. WriterTypes'
  BY <1>8, <1>12, <1>13, Zenon DEF WriterTypes
<1>. QED
  BY <1>6, <1>7, <1>8, <1>11, <1>12, <1>13, <1>14, ZenonT(60)

(* The collector removes files and adds none.                              *)
LEMMA FilesRemoved ==
    ASSUME FileTypes, CollectorTypes, RemoveFile \/ CleanDirectory
    PROVE  /\ FileTypes'
           /\ \A op \in Ops : \A f \in Range(files'[op]) : f \in Range(files[op])
           /\ Len(files'["agent"]) <= Len(files["agent"])
           /\ RemoveFile => Head(todo) \notin Range(files'[cop])
           /\ \A op \in Ops : \A f \in Range(files[op]) :
                 \/ f \in Range(files'[op])
                 \/ RemoveFile /\ op = cop /\ f = Head(todo)
                 \/ CleanDirectory /\ \A e \in Range(f) : <<e, "limit">> \in dropped'
<1>1. "agent" \in Ops /\ "ext" \in Ops /\ "ext" # "agent" /\ cop \in Ops
  BY Zenon DEF Ops, CollectorTypes
<1>2. Len(files["agent"]) \in Nat
  BY <1>1, SMT DEF FileTypes
<1>3. CASE RemoveFile
  <2>1. files' = [files EXCEPT ![cop] = Without(@, Head(todo))]
    BY <1>3, Zenon DEF RemoveFile
  <2>2. /\ FileTypes' /\ Range(files'[cop]) = Range(files[cop]) \ {Head(todo)}
        /\ Len(files'[cop]) <= Len(files[cop])
        /\ \A po \in Ops : po # cop => files'[po] = files[po]
    BY <1>1, <2>1, FileRemoved, Zenon
  <2>3. Len(files'["agent"]) <= Len(files["agent"])
    <3>1. CASE cop = "agent"
      BY <2>2, <3>1, Zenon
    <3>2. CASE cop # "agent"
      <4>1. files'["agent"] = files["agent"]
        BY <1>1, <2>2, <3>2, Zenon
      <4>. QED
        BY <1>2, <4>1, SMT
    <3>. QED
      BY <3>1, <3>2, Zenon
  <2>. QED
    BY <1>1, <1>3, <2>2, <2>3, Zenon
<1>4. CASE CleanDirectory
  <2>1. /\ files' = [files EXCEPT !["ext"] = <<>>] /\ cpc = "clean"
        /\ \A f \in Range(files["ext"]) : \A e \in Range(f) : <<e, "limit">> \in dropped'
    BY <1>4, Zenon DEF CleanDirectory, Drop
  <2>2. /\ DOMAIN files' = Ops /\ files'["agent"] = files["agent"] /\ files'["ext"] = <<>>
        /\ \A op \in Ops : op = "ext" \/ op = "agent"
    BY <1>1, <2>1, Zenon DEF FileTypes, Ops
  <2>3. <<>> \in Seq(Seq(Events)) /\ DOMAIN <<>> = {}
    BY SMT
  <2>4. Range(<<>>) = {} /\ Distinct(<<>>)
    BY <2>3, Zenon DEF Range, Distinct
  <2>5. FileTypes'
    BY <2>2, <2>3, <2>4, Zenon DEF FileTypes
  <2>6. ~RemoveFile
    BY <2>1, Zenon DEF RemoveFile
  <2>7. Len(files'["agent"]) <= Len(files["agent"])
    BY <1>2, <2>2, SMT
  <2>8. \A op \in Ops : \A f \in Range(files'[op]) : f \in Range(files[op])
    BY <2>2, <2>4, Zenon
  <2>. QED
    BY <1>4, <2>1, <2>2, <2>5, <2>6, <2>7, <2>8, ZenonT(60)
<1>. QED
  BY <1>3, <1>4, Zenon

(* Every step keeps the types of what the collector reads; what is left to *)
(* read was so before, or its file was just opened.                        *)
LEMMA ReadStep ==
    ASSUME FileTypes, CollectorTypes, [Next]_vars
    PROVE  /\ CollectorTypes'
           /\ \A e : ToRead(e)' =>
                 \/ ToRead(e) /\ ~(PutEvent /\ e = Head(cur))
                 \/ /\ OpenFile /\ cpc = "open" /\ cpc' = "check"
                    /\ UNCHANGED <<files, cop, todo>> /\ cop \in Ops
                    /\ Head(todo) \in Range(files[cop]) /\ e \in Range(Head(todo))
<1>1. CASE UNCHANGED <<cpc, cop, todo, cur>> /\ ~PutEvent
  <2>1. CollectorTypes'
    BY <1>1, Zenon DEF CollectorTypes, Reading
  <2>2. \A e : ToRead(e)' => ToRead(e)
    BY <1>1, Zenon DEF ToRead, Reading
  <2>. QED
    BY <1>1, <2>1, <2>2, ZenonT(60)
<1>2. CASE cop' \in Ops /\ cpc' \notin {"check", "put"}
  <2>1. ~Reading'
    BY <1>2, Zenon DEF Reading
  <2>. QED
    BY <1>2, <2>1, Zenon DEF CollectorTypes, ToRead
<1>3. CASE OpenFile
  <2>1. CASE todo # <<>> /\ Head(todo) \in Range(files[cop])
    <3>1. /\ cpc = "open" /\ cpc' = "check" /\ cur' = Head(todo) /\ UNCHANGED <<files, cop, todo>>
      BY <1>3, <2>1, Zenon DEF OpenFile, writing
    <3>2. cop \in Ops
      BY Zenon DEF CollectorTypes
    <3>3. Head(todo) \in Seq(Events) /\ Head(todo) # <<>> /\ Distinct(Head(todo))
      BY <2>1, <3>2, FilesOfDirectory, Zenon
    <3>4. CollectorTypes'
      BY <3>1, <3>2, <3>3, Zenon DEF CollectorTypes
    <3>. QED
      BY <1>3, <2>1, <3>1, <3>2, <3>4, Zenon DEF ToRead
  <2>2. CASE ~(todo # <<>> /\ Head(todo) \in Range(files[cop]))
    <3>1. cpc' \in {"idle", "clean", "open"}
      BY <1>3, <2>2, Zenon DEF OpenFile, EndOperation
    <3>2. cop' \in Ops
      BY <1>3, Zenon DEF OpenFile, EndOperation, Other, Ops, CollectorTypes
    <3>3. cpc' \notin {"check", "put"}
      BY <3>1, Zenon
    <3>. QED
      BY <1>2, <3>2, <3>3, Zenon
  <2>. QED
    BY <2>1, <2>2, Zenon
<1>4. CASE NextEvent
  <2>1. /\ cpc = "check" /\ Reading /\ UNCHANGED <<cop, todo>> /\ ~PutEvent
        /\ \/ UNCHANGED cur
           \/ cur' = Tail(cur) /\ (cpc' = "check" => Len(cur) # 1) /\ cpc' # "put"
    BY <1>4, Zenon DEF NextEvent, PutEvent, Reading
  <2>2. CASE UNCHANGED cur
    BY <2>1, <2>2, Zenon DEF CollectorTypes, ToRead
  <2>3. CASE cur' = Tail(cur) /\ (cpc' = "check" => Len(cur) # 1) /\ cpc' # "put"
    <3>1. /\ Tail(cur) \in Seq(Events) /\ Distinct(Tail(cur))
          /\ Range(cur) = {Head(cur)} \cup Range(Tail(cur))
          /\ Len(cur) = 1 <=> Tail(cur) = <<>>
      BY <2>1, NextRead, Zenon
    <3>2. Reading' => cur' # <<>>
      BY <2>3, <3>1, Zenon DEF Reading
    <3>. QED
      BY <2>1, <2>3, <3>1, <3>2, ZenonT(60) DEF CollectorTypes, ToRead
  <2>. QED
    BY <2>1, <2>2, <2>3, Zenon
<1>5. CASE PutEvent
  <2>1. /\ cpc = "put" /\ Reading /\ UNCHANGED cop /\ cpc' # "put"
        /\ cpc' = "check" => cur' = Tail(cur) /\ Len(cur) # 1
    BY <1>5, Zenon DEF PutEvent, Reading
  <2>2. /\ Tail(cur) \in Seq(Events) /\ Distinct(Tail(cur))
        /\ Range(cur) = {Head(cur)} \cup Range(Tail(cur))
        /\ Head(cur) \notin Range(Tail(cur))
        /\ Len(cur) = 1 <=> Tail(cur) = <<>>
    BY <2>1, NextRead, Zenon
  <2>3. Reading' => cur' = Tail(cur) /\ cur' # <<>>
    BY <2>1, <2>2, ZenonT(60) DEF Reading
  <2>. QED
    BY <2>1, <2>2, <2>3, ZenonT(60) DEF CollectorTypes, ToRead
<1>6. CASE RemoveFile \/ CleanDirectory
  <2>1. cpc' \in {"idle", "clean", "open"}
    BY <1>6, Zenon DEF RemoveFile, CleanDirectory, EndOperation
  <2>2. cop' \in Ops
    BY <1>6, Zenon DEF RemoveFile, CleanDirectory, EndOperation, Other, Ops, CollectorTypes
  <2>3. cpc' \notin {"check", "put"}
    BY <2>1, Zenon
  <2>. QED
    BY <1>2, <2>2, <2>3, Zenon
<1>7. ASSUME NEW w \in Writers, AddEvent(w) \/ RemoveOldest(w) \/ WriteFile(w)
      PROVE  UNCHANGED <<cpc, cop, todo, cur, captured>>
  BY <1>7, Zenon DEF AddEvent, RemoveOldest, WriteFile, collector
<1>8. CASE ExtensionWrites \/ TakeEvent \/ SendRest \/ SenderDies
  <2>1. UNCHANGED <<cpc, cop, todo, cur, captured>>
    BY <1>8, Zenon DEF ExtensionWrites, TakeEvent, SendRest, SenderDies, collector
  <2>. QED
    BY <1>1, <1>5, <2>1, Zenon
<1>9. CASE Quiet
  <2>1. \/ UNCHANGED <<cpc, cop, todo, cur>>
        \/ cop' \in Ops /\ cpc' \notin {"check", "put"}
    BY <1>9, Zenon DEF Quiet
  <2>. QED
    BY <1>1, <1>2, <1>5, <2>1, Zenon
<1>. QED
  BY <1>1, <1>3, <1>4, <1>5, <1>6, <1>7, <1>8, <1>9, Actors, ZenonT(60)

(* The file that is open stays open until it is removed.                   *)
LEMMA OpenStep ==
    ASSUME FileTypes, CollectorTypes, [Next]_vars,
           NEW op \in Ops, NEW f \in Range(files[op]), f \in Range(files'[op]), Open(op, f)
    PROVE  Open(op, f)'
<1>1. cpc \in {"check", "put", "remove"} /\ op = cop /\ f = Head(todo)
  BY Zenon DEF Open
<1>2. CASE UNCHANGED <<cop, todo>> /\ cpc' \in {"check", "put", "remove"}
  BY <1>1, <1>2, Zenon DEF Open
<1>3. CASE OpenFile \/ CleanDirectory
  <2>1. cpc \in {"open", "clean"}
    BY <1>3, Zenon DEF OpenFile, CleanDirectory
  <2>. QED
    BY <1>1, <2>1, Zenon
<1>4. CASE NextEvent \/ PutEvent
  <2>1. UNCHANGED <<cop, todo>> /\ cpc' \in {"check", "put", "remove"}
    BY <1>4, Zenon DEF NextEvent, PutEvent
  <2>. QED
    BY <1>2, <2>1, Zenon
<1>5. CASE RemoveFile
  BY <1>1, <1>5, FilesRemoved, Zenon
<1>6. ASSUME NEW w \in Writers, AddEvent(w) \/ RemoveOldest(w) \/ WriteFile(w)
      PROVE  UNCHANGED <<cpc, cop, todo, cur, captured>>
  BY <1>6, Zenon DEF AddEvent, RemoveOldest, WriteFile, collector
<1>7. CASE ExtensionWrites \/ TakeEvent \/ SendRest \/ SenderDies
  <2>1. UNCHANGED <<cpc, cop, todo, cur, captured>>
    BY <1>7, Zenon DEF ExtensionWrites, TakeEvent, SendRest, SenderDies, collector
  <2>. QED
    BY <1>1, <1>2, <2>1, Zenon
<1>8. CASE Quiet
  <2>1. UNCHANGED <<cpc, cop, todo>>
    BY <1>1, <1>8, Zenon DEF Quiet
  <2>. QED
    BY <1>1, <1>2, <2>1, Zenon
<1>. QED
  BY <1>1, <1>2, <1>3, <1>4, <1>5, <1>6, <1>7, <1>8, Actors, ZenonT(60)

(* Every step keeps the types of the files and of what is to be written; a *)
(* new file holds events that a thread was to write, or that are new.      *)
LEMMA WritingStep ==
    ASSUME WriterTypes, FileTypes, CollectorTypes, Unknown, Unsaved, [Next]_vars
    PROVE  /\ WriterTypes' /\ FileTypes' /\ added' >= added
           /\ \A e \in Saving' : e \in Saving \/ (e > added /\ e <= added')
           /\ \A v, w \in Writers :
                 writer'[v].event = writer'[w].event => v = w \/ writer'[v].event = 0
           /\ \A op \in Ops : \A f \in Range(files'[op]) : f \notin Range(files[op]) =>
                 /\ UNCHANGED <<cpc, cop, todo, cur>> /\ ~PutEvent
                 /\ \A e \in Range(f) : /\ e \in Events /\ (e \in Saving \/ e > added)
                                        /\ e <= added' /\ e \notin Saving'
                 /\ \A po \in Ops : \A g \in Range(files'[po]) :
                       g \notin Range(files[po]) => po = op /\ g = f
<1>. DEFINE Writing ==
        /\ WriterTypes' /\ FileTypes' /\ added' >= added
        /\ \A e \in Saving' : e \in Saving \/ (e > added /\ e <= added')
        /\ \A v, w \in Writers :
              writer'[v].event = writer'[w].event => v = w \/ writer'[v].event = 0
            New ==
        \A op \in Ops : \A f \in Range(files'[op]) : f \notin Range(files[op]) =>
            /\ UNCHANGED <<cpc, cop, todo, cur>> /\ ~PutEvent
            /\ \A e \in Range(f) : /\ e \in Events /\ (e \in Saving \/ e > added)
                                   /\ e <= added' /\ e \notin Saving'
            /\ \A po \in Ops : \A g \in Range(files'[po]) :
                  g \notin Range(files[po]) => po = op /\ g = f
<1>1. added \in Nat /\ \A n \in Nat : n >= n
  <2>1. \A n \in Nat : n >= n
    BY SMT
  <2>. QED
    BY <2>1, Zenon DEF WriterTypes
<1>2. \A e \in Saving : e \in Events /\ e <= added
  <2>1. \A e \in Saving : e \in Events /\ ~(e > added)
    BY Zenon DEF Unknown, WriterTypes
  <2>2. \A e \in Events : ~(e > added) => e <= added
    BY <1>1, SMT DEF Events
  <2>. QED
    BY <2>1, <2>2, Zenon
<1>3. \A v, w \in Writers : writer[v].event = writer[w].event => v = w \/ writer[v].event = 0
  BY Zenon DEF Unsaved
<1>4. "agent" \in Ops /\ "ext" \in Ops /\ \A op \in Ops : op = "agent" \/ op = "ext"
  BY Zenon DEF Ops
<1>5. ASSUME \A op \in Ops : \A f \in Range(files'[op]) : f \in Range(files[op]) PROVE New
  BY <1>5, Zenon
<1>6. ASSUME UNCHANGED <<added, writer>>, FileTypes' PROVE Writing
  <2>1. Saving' = Saving
    BY <1>6, Zenon DEF Saving
  <2>2. WriterTypes'
    BY <1>6, <2>1, Zenon DEF WriterTypes
  <2>3. added' >= added
    BY <1>1, <1>6, Zenon
  <2>. QED
    BY <1>3, <1>6, <2>1, <2>2, <2>3, ZenonT(60)
<1>7. ASSUME UNCHANGED files PROVE FileTypes' /\ New
  BY <1>7, Zenon DEF FileTypes
<1>8. ASSUME NEW w \in Writers, AddEvent(w) PROVE Writing /\ New
  <2>1. /\ WriterTypes' /\ added' = added + 1 /\ added' \in Events
        /\ Saving' = Saving \cup {added'} /\ UNCHANGED files
        /\ writer[w].event = 0 /\ writer'[w].event = added'
        /\ \A v \in Writers : v # w => writer'[v] = writer[v]
    BY <1>8, EventAdded, ZenonT(60)
  <2>2. added' > added /\ added' >= added /\ added' <= added'
    BY <1>1, <2>1, SMT
  <2>3. added' \notin Saving
    BY <2>1, <2>2, Zenon DEF Unknown
  <2>4. \A v \in Writers : v # w => writer'[v].event # added' \/ writer'[v].event = 0
    BY <2>1, <2>3, Zenon DEF Saving
  <2>5. \A v, u \in Writers :
            writer'[v].event = writer'[u].event => v = u \/ writer'[v].event = 0
    BY <1>3, <2>1, <2>4, ZenonT(60)
  <2>6. FileTypes' /\ New
    BY <1>7, <2>1, Zenon
  <2>7. \A e \in Saving' : e \in Saving \/ (e > added /\ e <= added')
    BY <2>1, <2>2, Zenon
  <2>8. Writing
    BY <2>1, <2>2, <2>5, <2>6, <2>7, ZenonT(60)
  <2>. QED
    BY <2>6, <2>8, Zenon
<1>9. ASSUME NEW w \in Writers, UNCHANGED added, WriterTypes', FileTypes',
             \A e \in Saving' : e \in Saving,
             \A v \in Writers : v # w => writer'[v] = writer[v],
             writer'[w].event = writer[w].event \/ writer'[w].event = 0
      PROVE  Writing
  <2>1. added' >= added
    BY <1>1, <1>9, Zenon
  <2>2. \A v, u \in Writers :
            writer'[v].event = writer'[u].event => v = u \/ writer'[v].event = 0
    BY <1>3, <1>9, ZenonT(60)
  <2>. QED
    BY <1>9, <2>1, <2>2, Zenon
<1>10. ASSUME NEW w \in Writers, RemoveOldest(w) PROVE Writing /\ New
  <2>1. /\ WriterTypes' /\ FileTypes' /\ UNCHANGED added
        /\ \A e \in Saving' : e \in Saving
        /\ \A v \in Writers : v # w => writer'[v] = writer[v]
        /\ writer'[w].event = writer[w].event \/ writer'[w].event = 0
        /\ \/ UNCHANGED files
           \/ /\ Range(files'["agent"]) = Range(files["agent"]) \ {Head(writer[w].oldest)}
              /\ files'["ext"] = files["ext"]
    BY <1>10, OldestRemoved, Zenon
  <2>2. \A op \in Ops : \A f \in Range(files'[op]) : f \in Range(files[op])
    BY <1>4, <2>1, Zenon
  <2>3. Writing
    BY <1>9, <2>1, ZenonT(60)
  <2>. QED
    BY <1>5, <2>2, <2>3, Zenon
<1>11. ASSUME NEW w \in Writers, WriteFile(w) PROVE Writing /\ New
  <2>1. /\ WriterTypes' /\ FileTypes' /\ UNCHANGED <<added, cpc, cop, todo, cur>>
        /\ writer[w].event \in Saving /\ writer[w].event \notin Saving'
        /\ \A e \in Saving' : e \in Saving
        /\ \A v \in Writers : v # w => writer'[v] = writer[v]
        /\ writer'[w].event = 0
        /\ Range(<<writer[w].event>>) = {writer[w].event}
        /\ Range(files'["agent"]) = Range(files["agent"]) \cup {<<writer[w].event>>}
        /\ files'["ext"] = files["ext"]
    BY <1>11, FileWritten, Zenon
  <2>2. ~PutEvent
    <3>1. ASSUME PutEvent PROVE cpc = "put" /\ cpc' # "put"
      BY <3>1, Zenon DEF PutEvent
    <3>. QED
      BY <2>1, <3>1, Zenon
  <2>3. New
    <3>1. \A op \in Ops : \A f \in Range(files'[op]) :
              f \notin Range(files[op]) => op = "agent" /\ f = <<writer[w].event>>
      BY <1>4, <2>1, Zenon
    <3>2. \A e \in Range(<<writer[w].event>>) :
              e \in Events /\ e \in Saving /\ e <= added' /\ e \notin Saving'
      BY <1>2, <2>1, Zenon
    <3>. QED
      BY <2>1, <2>2, <3>1, <3>2, Zenon
  <2>4. Writing
    BY <1>9, <2>1, ZenonT(60)
  <2>. QED
    BY <2>3, <2>4, Zenon
<1>12. ASSUME ExtensionWrites PROVE Writing /\ New
  <2>1. /\ FileTypes' /\ WriterTypes' /\ UNCHANGED <<writer, cpc, cop, todo, cur>>
        /\ added' > added /\ Saving' = Saving
        /\ files'["agent"] = files["agent"]
    BY <1>12, ExtensionWrote, Zenon
  <2>2. PICK f : /\ Range(files'["ext"]) = Range(files["ext"]) \cup {f}
                 /\ \A e \in Range(f) : e \in Events /\ e > added /\ e <= added'
    BY <1>12, ExtensionWrote, Zenon
  <2>3. ~PutEvent
    <3>1. ASSUME PutEvent PROVE cpc = "put" /\ cpc' # "put"
      BY <3>1, Zenon DEF PutEvent
    <3>. QED
      BY <2>1, <3>1, Zenon
  <2>4. New
    <3>1. \A op \in Ops : \A g \in Range(files'[op]) : g \notin Range(files[op]) => op = "ext" /\ g = f
      <4>1. Range(files'["agent"]) = Range(files["agent"])
        BY <2>1, Zenon
      <4>. SUFFICES ASSUME NEW op \in Ops, NEW g \in Range(files'[op]), g \notin Range(files[op])
                    PROVE  op = "ext" /\ g = f
        BY Zenon
      <4>2. CASE op = "agent"
        BY <4>1, <4>2, Zenon
      <4>3. CASE op = "ext"
        BY <2>2, <4>3, Zenon
      <4>. QED
        BY <1>4, <4>2, <4>3
    <3>2. \A e \in Range(f) : e \notin Saving'
      BY <2>1, <2>2, Zenon DEF Unknown
    <3>. QED
      BY <2>1, <2>2, <2>3, <3>1, <3>2, ZenonT(60)
  <2>5. added' >= added
    <3>1. added' \in Nat
      BY <2>1, Zenon DEF WriterTypes
    <3>. QED
      BY <1>1, <2>1, <3>1, SMT
  <2>6. Writing
    BY <1>3, <2>1, <2>5, ZenonT(60)
  <2>. QED
    BY <2>4, <2>6, Zenon
<1>13. ASSUME OpenFile \/ NextEvent \/ PutEvent \/ TakeEvent \/ SendRest \/ SenderDies \/ Quiet
       PROVE  Writing /\ New
  <2>1. UNCHANGED <<files, added, writer>>
    BY <1>13, ZenonT(60) DEF OpenFile, NextEvent, PutEvent, TakeEvent, SendRest, SenderDies, Quiet, writing
  <2>. QED
    BY <1>6, <1>7, <2>1, Zenon
<1>14. ASSUME RemoveFile \/ CleanDirectory PROVE Writing /\ New
  <2>1. FileTypes' /\ \A op \in Ops : \A f \in Range(files'[op]) : f \in Range(files[op])
    BY <1>14, FilesRemoved, Zenon
  <2>2. UNCHANGED <<added, writer>>
    BY <1>14, Zenon DEF RemoveFile, CleanDirectory
  <2>. QED
    BY <1>5, <1>6, <2>1, <2>2, Zenon
<1>15. Writing /\ New
  <2>. HIDE DEF Writing, New
  <2>. QED
    BY <1>8, <1>10, <1>11, <1>12, <1>13, <1>14, Actors, ZenonT(60)
<1>. QED
  BY <1>15, Zenon

(* Every step keeps the events that are still to come unknown.             *)
LEMMA UnknownStep ==
    ASSUME WriterTypes, FileTypes, CollectorTypes, SenderTypes, Once, Unknown, Unsaved, Unread,
           [Next]_vars
    PROVE  Unknown'
<1>. SUFFICES ASSUME NEW e \in Events, e > added'
              PROVE  Fresh(e)' /\ ~InFile(e)' /\ e \notin Saving' /\ ~ToRead(e)'
  BY Zenon DEF Unknown
<1>1. added' >= added /\ added \in Nat /\ added' \in Nat
  BY WritingStep, Zenon DEF WriterTypes
<1>2. e > added /\ ~(e <= added')
  BY <1>1, SMT DEF Events
<1>3. Fresh(e) /\ ~InFile(e) /\ e \notin Saving /\ ~ToRead(e)
  BY <1>2, Zenon DEF Unknown
<1>4. ~(PutEvent /\ e = Head(cur))
  <2>1. PutEvent => ToRead(Head(cur))
    BY EventPut, NextRead, Zenon
  <2>. QED
    BY <1>3, <2>1, Zenon
<1>5. Fresh(e)'
  BY <1>3, <1>4, SenderStep, Zenon
<1>6. ~InFile(e)'
  <2>. SUFFICES ASSUME NEW op \in Ops, NEW f \in Range(files'[op]), e \in Range(f)
                PROVE  FALSE
    BY Zenon DEF InFile
  <2>1. f \notin Range(files[op])
    BY <1>3, Zenon DEF InFile
  <2>2. e <= added'
    BY <2>1, WritingStep, Zenon
  <2>. QED
    BY <1>2, <2>2, Zenon
<1>7. e \notin Saving'
  BY <1>2, <1>3, WritingStep, Zenon
<1>8. ~ToRead(e)'
  BY <1>3, ReadStep, Zenon DEF InFile
<1>. QED
  BY <1>5, <1>6, <1>7, <1>8

(* Every step keeps the events that are to be written out of everything    *)
(* else.                                                                   *)
LEMMA UnsavedStep ==
    ASSUME WriterTypes, FileTypes, CollectorTypes, SenderTypes, Once, Unknown, Unsaved, Unread,
           [Next]_vars
    PROVE  Unsaved'
<1>1. ASSUME NEW e \in Saving' PROVE Fresh(e)' /\ ~InFile(e)' /\ ~ToRead(e)'
  <2>1. e \in Events /\ (e \in Saving \/ e > added)
    <3>1. Saving' \subseteq Events
      BY WritingStep, Zenon DEF WriterTypes
    <3>. QED
      BY <1>1, <3>1, WritingStep, Zenon
  <2>2. Fresh(e) /\ ~InFile(e) /\ ~ToRead(e)
    BY <2>1, Zenon DEF Unknown, Unsaved
  <2>3. ~(PutEvent /\ e = Head(cur))
    <3>1. PutEvent => ToRead(Head(cur))
      BY EventPut, NextRead, Zenon
    <3>. QED
      BY <2>2, <3>1, Zenon
  <2>4. Fresh(e)'
    BY <2>1, <2>2, <2>3, SenderStep, Zenon
  <2>5. ~InFile(e)'
    <3>. SUFFICES ASSUME NEW op \in Ops, NEW f \in Range(files'[op]), e \in Range(f)
                  PROVE  FALSE
      BY Zenon DEF InFile
    <3>1. f \notin Range(files[op])
      BY <2>2, Zenon DEF InFile
    <3>. QED
      BY <1>1, <3>1, WritingStep, Zenon
  <2>6. ~ToRead(e)'
    BY <2>2, ReadStep, Zenon DEF InFile
  <2>. QED
    BY <2>4, <2>5, <2>6, Zenon
<1>2. \A v, w \in Writers : writer'[v].event = writer'[w].event => v = w \/ writer'[v].event = 0
  BY WritingStep, ZenonT(60)
<1>. QED
  BY <1>1, <1>2, Zenon DEF Unsaved

(* Every step keeps the events of a file out of other files, and fresh     *)
(* unless the file is open.                                                *)
LEMMA SavedStep ==
    ASSUME WriterTypes, FileTypes, CollectorTypes, SenderTypes, Once, Unknown, Unsaved, Saved,
           Unread, [Next]_vars
    PROVE  Saved'
<1>. SUFFICES ASSUME NEW op \in Ops, NEW f \in Range(files'[op]), NEW e \in Range(f)
              PROVE  /\ Fresh(e)' \/ Open(op, f)'
                     /\ \A po \in Ops : \A g \in Range(files'[po]) :
                           e \in Range(g) => po = op /\ g = f
  BY Zenon DEF Saved
<1>1. ASSUME NEW po \in Ops, NEW g \in Range(files'[po]), g \notin Range(files[po]), NEW x \in Range(g)
      PROVE  x \in Events /\ Fresh(x) /\ ~InFile(x)
  <2>1. x \in Events /\ (x \in Saving \/ x > added)
    BY <1>1, WritingStep, Zenon
  <2>. QED
    BY <2>1, Zenon DEF Unknown, Unsaved
<1>2. CASE f \notin Range(files[op])
  <2>1. e \in Events /\ Fresh(e) /\ ~InFile(e)
    BY <1>1, <1>2, Zenon
  <2>2. /\ ~PutEvent
        /\ \A po \in Ops : \A g \in Range(files'[po]) : g \notin Range(files[po]) => po = op /\ g = f
    BY <1>2, WritingStep, Zenon
  <2>3. Fresh(e)'
    BY <2>1, <2>2, SenderStep, Zenon
  <2>4. \A po \in Ops : \A g \in Range(files[po]) : e \notin Range(g)
    BY <2>1, Zenon DEF InFile
  <2>. QED
    BY <2>2, <2>3, <2>4, Zenon
<1>3. CASE f \in Range(files[op])
  <2>1. e \in Events
    BY <1>3, FilesOfDirectory, Zenon
  <2>2. ASSUME Open(op, f) PROVE Open(op, f)'
    BY <1>3, <2>2, OpenStep, Zenon
  <2>3. ASSUME Fresh(e), PutEvent, e = Head(cur) PROVE Open(op, f)
    <3>1. ToRead(e)
      BY <2>3, EventPut, NextRead, Zenon
    <3>. QED
      BY <1>3, <2>1, <3>1, Zenon DEF Unread
  <2>4. Fresh(e)' \/ Open(op, f)'
    <3>1. Fresh(e) \/ Open(op, f)
      BY <1>3, Zenon DEF Saved
    <3>. QED
      BY <2>1, <2>2, <2>3, <3>1, SenderStep, ZenonT(60)
  <2>5. ASSUME NEW po \in Ops, NEW g \in Range(files'[po]), e \in Range(g) PROVE po = op /\ g = f
    <3>1. InFile(e)
      BY <1>3, Zenon DEF InFile
    <3>2. g \in Range(files[po])
      BY <1>1, <2>5, <3>1, Zenon
    <3>. QED
      BY <1>3, <2>5, <3>2, Zenon DEF Saved
  <2>. QED
    BY <2>4, <2>5, Zenon
<1>. QED
  BY <1>2, <1>3, Zenon

(* Every step keeps what the collector is reading fresh, and in one file.  *)
LEMMA UnreadStep ==
    ASSUME WriterTypes, FileTypes, CollectorTypes, SenderTypes, Once, Unknown, Unsaved, Saved,
           Unread, [Next]_vars
    PROVE  Unread'
<1>. SUFFICES ASSUME NEW e \in Events, ToRead(e)'
              PROVE  /\ Fresh(e)'
                     /\ \A op \in Ops : \A f \in Range(files'[op]) : e \in Range(f) => Open(op, f)'
  BY Zenon DEF Unread
<1>1. CASE ToRead(e) /\ ~(PutEvent /\ e = Head(cur))
  <2>1. Fresh(e)'
    BY <1>1, SenderStep, Zenon DEF Unread
  <2>2. ASSUME NEW op \in Ops, NEW f \in Range(files'[op]), e \in Range(f) PROVE Open(op, f)'
    <3>1. f \in Range(files[op])
      <4>. SUFFICES ASSUME f \notin Range(files[op]) PROVE FALSE
        BY Zenon
      <4>1. e \in Saving \/ e > added
        BY <2>2, WritingStep, Zenon
      <4>. QED
        BY <1>1, <4>1, Zenon DEF Unknown, Unsaved
    <3>2. Open(op, f)
      BY <1>1, <2>2, <3>1, ZenonT(60) DEF Unread
    <3>. QED
      BY <3>1, <3>2, OpenStep, Zenon
  <2>. QED
    BY <2>1, <2>2, Zenon
<1>2. CASE /\ OpenFile /\ cpc = "open" /\ cpc' = "check"
           /\ UNCHANGED <<files, cop, todo>> /\ cop \in Ops
           /\ Head(todo) \in Range(files[cop]) /\ e \in Range(Head(todo))
  <2>1. ~PutEvent /\ ~Open(cop, Head(todo))
    BY <1>2, Zenon DEF PutEvent, Open
  <2>2. Fresh(e)
    BY <1>2, <2>1, Zenon DEF Saved
  <2>3. Fresh(e)'
    BY <2>1, <2>2, SenderStep, Zenon
  <2>4. ASSUME NEW op \in Ops, NEW f \in Range(files'[op]), e \in Range(f) PROVE Open(op, f)'
    <3>1. op = cop /\ f = Head(todo)
      BY <1>2, <2>4, Zenon DEF Saved
    <3>. QED
      BY <1>2, <3>1, Zenon DEF Open
  <2>. QED
    BY <2>3, <2>4, Zenon
<1>. QED
  BY <1>1, <1>2, ReadStep, Zenon

(* The threads that are to write are finitely many.                        *)
LEMMA ReadyThreads ==
    /\ IsFiniteSet(Ready) /\ Cardinality(Ready) \in Nat /\ Cardinality(Writers) \in Nat
    /\ Cardinality(Ready) <= Cardinality(Writers)
    /\ \A w \in Writers : w \notin Ready =>
          Cardinality(Ready) < Cardinality(Writers) /\ Cardinality(Ready \cup {w}) = Cardinality(Ready) + 1
    /\ \A w \in Ready : Cardinality(Ready \ {w}) = Cardinality(Ready) - 1
<1>1. IsFiniteSet(Writers) /\ Cardinality(Writers) \in Nat
  BY BoundsAssumption, FS_CardinalityType, Zenon
<1>2. Ready \subseteq Writers
  BY Zenon DEF Ready
<1>3. IsFiniteSet(Ready) /\ Cardinality(Ready) <= Cardinality(Writers)
  BY <1>1, <1>2, FS_Subset, ZenonT(60)
<1>4. Cardinality(Ready) \in Nat
  BY <1>3, FS_CardinalityType, Zenon
<1>5. ASSUME NEW w \in Writers, w \notin Ready
      PROVE  /\ Cardinality(Ready) < Cardinality(Writers)
             /\ Cardinality(Ready \cup {w}) = Cardinality(Ready) + 1
  <2>1. Cardinality(Ready \cup {w}) = Cardinality(Ready) + 1
    BY <1>3, <1>5, FS_AddElement, Zenon
  <2>2. Ready \cup {w} \subseteq Writers
    BY <1>2, Zenon
  <2>3. Cardinality(Ready \cup {w}) <= Cardinality(Writers)
    BY <1>1, <2>2, FS_Subset, Zenon
  <2>. QED
    BY <1>1, <1>4, <2>1, <2>3, SMT
<1>6. \A w \in Ready : Cardinality(Ready \ {w}) = Cardinality(Ready) - 1
  BY <1>3, FS_RemoveElement, ZenonT(60)
<1>. QED
  BY <1>1, <1>3, <1>4, <1>5, <1>6, Zenon

(* A full directory has something to remove.                               *)
LEMMA FullDirectory ==
    ASSUME FileTypes
    PROVE  Len(files["agent"]) \in Nat /\ (Len(files["agent"]) >= MaxFiles => Oldest(files["agent"]) # <<>>)
<1>1. files["agent"] \in Seq(Seq(Events))
  BY Zenon DEF FileTypes, Ops
<1>2. \A s \in Seq(Seq(Events)) : Len(s) \in Nat
  BY SMT
<1>3. ASSUME NEW s \in Seq(Seq(Events)), Len(s) >= MaxFiles
      PROVE  SubSeq(s, 1, Len(s) - (MaxFiles - 1)) # <<>>
  <2>1. Len(s) \in Nat /\ MaxFiles \in Nat \ {0}
    BY <1>2, BoundsAssumption, Zenon
  <2>2. Len(s) - (MaxFiles - 1) \in 1..Len(s)
    BY <1>3, <2>1, SMT
  <2>3. Len(SubSeq(s, 1, Len(s) - (MaxFiles - 1))) = Len(s) - (MaxFiles - 1)
    BY <2>2, SMT
  <2>. QED
    BY <2>2, <2>3, SMT
<1>. QED
  BY <1>1, <1>2, <1>3, ZenonT(60) DEF Oldest

(* Every step keeps room for the threads that are to write.                *)
LEMMA RoomStep ==
    ASSUME WriterTypes, FileTypes, CollectorTypes, Unknown, Unsaved, Room, [Next]_vars
    PROVE  Room'
<1>. DEFINE n == Len(files["agent"])
            r == Cardinality(Ready)
            k == Cardinality(Writers)
<1>1. n \in Nat /\ r \in Nat /\ k \in Nat /\ MaxFiles \in Nat /\ n + r <= MaxFiles + k - 1
  BY BoundsAssumption, FullDirectory, ReadyThreads, Zenon DEF Room
<1>2. ASSUME Len(files'["agent"]) \in Nat, Len(files'["agent"]) <= n, Ready' = Ready PROVE Room'
  <2>1. Cardinality(Ready') = r
    BY <1>2, Zenon
  <2>. HIDE DEF n, r, k
  <2>2. Len(files'["agent"]) + r <= MaxFiles + k - 1
    BY <1>1, <1>2, SMT
  <2>. QED
    BY <2>1, <2>2, Zenon DEF Room, n, r, k
<1>3. FileTypes' /\ Len(files'["agent"]) \in Nat
  <2>1. FileTypes'
    BY WritingStep, Zenon
  <2>2. files'["agent"] \in Seq(Seq(Events))
    BY <2>1, Zenon DEF FileTypes, Ops
  <2>. QED
    BY <2>1, <2>2, SMT
<1>4. ASSUME UNCHANGED writer, Len(files'["agent"]) <= n PROVE Room'
  <2>1. Ready' = Ready
    BY <1>4, Zenon DEF Ready
  <2>. QED
    BY <1>2, <1>3, <1>4, <2>1, Zenon
<1>5. n <= n
  <2>. HIDE DEF n
  <2>. QED
    BY <1>1, SMT
<1>6. ASSUME NEW w \in Writers, AddEvent(w) PROVE Room'
  <2>1. /\ writer[w].event = 0 /\ writer'[w].event = added' /\ added' \in Events
        /\ writer'[w].oldest = Oldest(files["agent"]) /\ UNCHANGED files
        /\ \A v \in Writers : v # w => writer'[v] = writer[v]
    BY <1>6, EventAdded, Zenon
  <2>2. w \notin Ready /\ added' # 0
    <3>1. added' # 0
      BY <2>1, SMT DEF Events
    <3>. QED
      BY <2>1, <3>1, Zenon DEF Ready
  <2>3. CASE Oldest(files["agent"]) = <<>>
    <3>1. Ready' = Ready \cup {w}
      BY <2>1, <2>2, <2>3, Zenon DEF Ready
    <3>2. Cardinality(Ready \cup {w}) = r + 1 /\ r < k
      BY <2>2, ReadyThreads, Zenon
    <3>3. ~(n >= MaxFiles)
      BY <2>3, FullDirectory, Zenon
    <3>4. Cardinality(Ready') = r + 1 /\ Len(files'["agent"]) = n
      BY <2>1, <3>1, <3>2, Zenon
    <3>. HIDE DEF n, r, k
    <3>5. n + (r + 1) <= MaxFiles + k - 1
      BY <1>1, <3>2, <3>3, SMT
    <3>. QED
      BY <3>4, <3>5, Zenon DEF Room, k
  <2>4. CASE Oldest(files["agent"]) # <<>>
    <3>1. Ready' = Ready
      BY <2>1, <2>2, <2>4, Zenon DEF Ready
    <3>. QED
      BY <1>2, <1>3, <1>5, <2>1, <3>1, Zenon
  <2>. QED
    BY <2>3, <2>4, Zenon
<1>7. ASSUME NEW w \in Writers, RemoveOldest(w) PROVE Room'
  <2>1. /\ writer[w].event \in Saving /\ writer[w].oldest # <<>>
        /\ \A v \in Writers : v # w => writer'[v] = writer[v]
        /\ \/ UNCHANGED files /\ writer'[w].event = 0
           \/ /\ Len(files'["agent"]) = n - 1
              /\ writer'[w].event = writer[w].event
    BY <1>7, OldestRemoved, Zenon
  <2>2. w \notin Ready
    BY <2>1, Zenon DEF Ready
  <2>3. CASE UNCHANGED files /\ writer'[w].event = 0
    <3>1. Ready' = Ready
      BY <2>1, <2>2, <2>3, Zenon DEF Ready
    <3>. QED
      BY <1>2, <1>3, <1>5, <2>3, <3>1, ZenonT(60)
  <2>4. CASE Len(files'["agent"]) = n - 1
    <3>1. Ready' = Ready \/ Ready' = Ready \cup {w}
      <4>1. \A v \in Writers : v # w => (v \in Ready' <=> v \in Ready)
        BY <2>1, Zenon DEF Ready
      <4>2. (\A v \in Ready' : v \in Writers) /\ (\A v \in Ready : v \in Writers)
        BY Zenon DEF Ready
      <4>3. CASE w \in Ready'
        BY <4>1, <4>2, <4>3, ZenonT(60)
      <4>4. CASE w \notin Ready'
        <5>1. \A v \in Writers : v \in Ready' <=> v \in Ready
          BY <2>2, <4>1, <4>4, ZenonT(60)
        <5>. QED
          BY <4>2, <5>1, Zenon
      <4>. QED
        BY <4>3, <4>4
    <3>2. Cardinality(Ready \cup {w}) = r + 1
      BY <2>2, ReadyThreads, Zenon
    <3>3. Cardinality(Ready') = r \/ Cardinality(Ready') = r + 1
      BY <3>1, <3>2, Zenon
    <3>. HIDE DEF n, r, k
    <3>4. (n - 1) + r <= MaxFiles + k - 1 /\ (n - 1) + (r + 1) <= MaxFiles + k - 1
      BY <1>1, SMT
    <3>. QED
      BY <2>4, <3>3, <3>4, ZenonT(60) DEF Room, k
  <2>. QED
    BY <2>1, <2>3, <2>4, Zenon
<1>8. ASSUME NEW w \in Writers, WriteFile(w) PROVE Room'
  <2>1. /\ writer[w].event \in Saving /\ writer[w].oldest = <<>> /\ writer'[w].event = 0
        /\ \A v \in Writers : v # w => writer'[v] = writer[v]
        /\ files'["agent"] = Append(files["agent"], <<writer[w].event>>)
    BY <1>8, FileWritten, Zenon
  <2>2. w \in Ready /\ Ready' = Ready \ {w}
    <3>1. writer[w].event # 0
      BY <2>1, Zenon DEF Saving
    <3>2. w \in Ready
      BY <2>1, <3>1, Zenon DEF Ready
    <3>3. Ready' = Ready \ {w}
      BY <2>1, Zenon DEF Ready
    <3>. QED
      BY <3>2, <3>3, Zenon
  <2>3. Cardinality(Ready') = r - 1
    BY <2>2, ReadyThreads, Zenon
  <2>4. Len(files'["agent"]) = n + 1
    <3>1. files["agent"] \in Seq(Seq(Events))
      BY Zenon DEF FileTypes, Ops
    <3>2. \A s \in Seq(Seq(Events)) : \A f : Len(Append(s, f)) = Len(s) + 1
      BY SMT
    <3>. QED
      BY <2>1, <3>1, <3>2, Zenon
  <2>. HIDE DEF n, r, k
  <2>5. (n + 1) + (r - 1) <= MaxFiles + k - 1
    BY <1>1, SMT
  <2>. QED
    BY <2>3, <2>4, <2>5, ZenonT(60) DEF Room, k
<1>9. CASE ExtensionWrites
  <2>1. UNCHANGED writer /\ files'["agent"] = files["agent"]
    BY <1>9, ExtensionWrote, Zenon
  <2>. QED
    BY <1>4, <1>5, <2>1, ZenonT(60)
<1>10. CASE RemoveFile \/ CleanDirectory
  <2>1. Len(files'["agent"]) <= n
    BY <1>10, FilesRemoved, Zenon
  <2>2. UNCHANGED writer
    BY <1>10, Zenon DEF RemoveFile, CleanDirectory
  <2>. QED
    BY <1>4, <2>1, <2>2, Zenon
<1>11. CASE OpenFile \/ NextEvent \/ PutEvent \/ TakeEvent \/ SendRest \/ SenderDies \/ Quiet
  <2>1. UNCHANGED <<files, writer>>
    BY <1>11, Zenon DEF OpenFile, NextEvent, PutEvent, TakeEvent, SendRest, SenderDies, Quiet, writing
  <2>. QED
    BY <1>4, <1>5, <2>1, Zenon
<1>. QED
  BY <1>6, <1>7, <1>8, <1>9, <1>10, <1>11, Actors, ZenonT(60)

(* Every step keeps the order in which the threads stop.                   *)
LEMMA OrderlyStep ==
    ASSUME SenderTypes, Orderly, [Next]_vars
    PROVE  Orderly'
<1>1. ASSUME NEW w \in Writers, AddEvent(w) PROVE Orderly'
  BY <1>1, ZenonT(60) DEF AddEvent, collector, sender, main, Orderly
<1>2. ASSUME NEW w \in Writers, RemoveOldest(w) PROVE Orderly'
  BY <1>2, Zenon DEF RemoveOldest, collector, sender, main, Orderly
<1>3. ASSUME NEW w \in Writers, WriteFile(w) PROVE Orderly'
  BY <1>3, Zenon DEF WriteFile, collector, sender, main, Orderly
<1>4. CASE ExtensionWrites
  BY <1>4, Zenon DEF ExtensionWrites, collector, sender, main, Orderly
<1>5. CASE StartOperation
  BY <1>5, Zenon DEF StartOperation, writing, collector, sender, main, EndOperation, Other, Orderly
<1>6. CASE CollectorExits
  BY <1>6, Zenon DEF CollectorExits, writing, collector, sender, main, Orderly
<1>7. CASE OpenFile
  BY <1>7, Zenon DEF OpenFile, writing, sender, main, EndOperation, Other, Orderly
<1>8. CASE NextEvent
  BY <1>8, Zenon DEF NextEvent, writing, sender, main, Orderly
<1>9. CASE PutEvent
  BY <1>9, Zenon DEF PutEvent, writing, sender, main, Orderly
<1>10. CASE RemoveFile
  BY <1>10, Zenon DEF RemoveFile, sender, main, EndOperation, Other, Orderly
<1>11. CASE CleanDirectory
  BY <1>11, Zenon DEF CleanDirectory, sender, main, EndOperation, Other, Orderly
<1>12. CASE TakeEvent
  BY <1>12, Zenon DEF TakeEvent, writing, collector, sender, main, Orderly
<1>13. CASE EndBatch
  BY <1>13, Zenon DEF EndBatch, writing, collector, sender, main, Orderly
<1>14. CASE SendRest
  <2>1. PICK op \in Ops : /\ buf' = [buf EXCEPT ![op] = {}]
                         /\ spc' = IF buf[Other(op)] = {} THEN "wait" ELSE "rest"
    BY <1>14, Zenon DEF SendRest
  <2>2. UNCHANGED <<cpc, queue, mpc, stopped, timedOut, deaths>> /\ mpc # "exited"
    BY <1>14, Zenon DEF SendRest, Running, collector, main
  <2>3. buf'[op] = {} /\ \A po \in Ops : po # op => buf'[po] = buf[po] /\ po = Other(op)
    <3>1. buf \in [Ops -> SUBSET Events]
      BY Zenon DEF SenderTypes
    <3>2. \A po \in Ops : po # op => po = Other(op)
      BY SMT DEF Ops, Other
    <3>. QED
      BY <2>1, <3>1, <3>2, Zenon
  <2>4. spc' = "wait" => \A po \in Ops : buf'[po] = {}
    BY <2>1, <2>3, Zenon
  <2>5. spc' # "exited"
    BY <2>1, Zenon
  <2>. QED
    BY <2>2, <2>4, <2>5, Zenon DEF Orderly
<1>15. CASE SenderExits
  BY <1>15, Zenon DEF SenderExits, writing, collector, sender, main, Orderly
<1>16. CASE SenderDies
  <2>1. deaths' # 0
    BY <1>16, SMT DEF SenderDies, SenderTypes
  <2>2. UNCHANGED <<cpc, queue, mpc, stopped, timedOut>> /\ mpc # "exited"
    BY <1>16, Zenon DEF SenderDies, Running, collector, main
  <2>. QED
    BY <2>1, <2>2, Zenon DEF Orderly
<1>17. CASE CheckThreads
  BY <1>17, Zenon DEF CheckThreads, writing, collector, sender, Orderly, Start
<1>18. CASE StopCollector
  BY <1>18, Zenon DEF StopCollector, writing, collector, sender, Orderly, Stop
<1>19. CASE JoinCollector
  BY <1>19, Zenon DEF JoinCollector, writing, collector, sender, Orderly, Join
<1>20. CASE StopSender
  BY <1>20, Zenon DEF StopSender, writing, collector, sender, Orderly, Stop
<1>21. CASE JoinSender
  BY <1>21, Zenon DEF JoinSender, writing, collector, sender, Orderly, Join
<1>22. CASE Exited
  BY <1>22, Zenon DEF Exited, writing, collector, sender, main, vars, Orderly
<1>23. CASE UNCHANGED vars
  BY <1>23, Zenon DEF vars, Orderly, writing, collector, sender, main
<1>. QED
  BY <1>1, <1>2, <1>3, <1>4, <1>5, <1>6, <1>7, <1>8, <1>9, <1>10, <1>11, <1>12, <1>13, <1>14,
     <1>15, <1>16, <1>17, <1>18, <1>19, <1>20, <1>21, <1>22, <1>23, ZenonT(60) DEF
    Next, SaveEvent, Collect, SendEvents, Shutdown

(* A join that timed out is not forgotten.                                 *)
LEMMA TimeoutsStand ==
    ASSUME timedOut, [Next]_vars
    PROVE  timedOut'
<1>1. ASSUME NEW w \in Writers, AddEvent(w) PROVE timedOut'
  BY <1>1, ZenonT(60) DEF AddEvent, collector, sender, main
<1>2. ASSUME NEW w \in Writers, RemoveOldest(w) PROVE timedOut'
  BY <1>2, Zenon DEF RemoveOldest, collector, sender, main
<1>3. ASSUME NEW w \in Writers, WriteFile(w) PROVE timedOut'
  BY <1>3, Zenon DEF WriteFile, collector, sender, main
<1>4. CASE ExtensionWrites
  BY <1>4, Zenon DEF ExtensionWrites, collector, sender, main
<1>5. CASE StartOperation
  BY <1>5, Zenon DEF StartOperation, writing, collector, sender, main, EndOperation, Other
<1>6. CASE CollectorExits
  BY <1>6, Zenon DEF CollectorExits, writing, collector, sender, main
<1>7. CASE OpenFile
  BY <1>7, Zenon DEF OpenFile, writing, sender, main, EndOperation, Other
<1>8. CASE NextEvent
  BY <1>8, Zenon DEF NextEvent, writing, sender, main
<1>9. CASE PutEvent
  BY <1>9, Zenon DEF PutEvent, writing, main
<1>10. CASE RemoveFile
  BY <1>10, Zenon DEF RemoveFile, sender, main, EndOperation, Other
<1>11. CASE CleanDirectory
  BY <1>11, Zenon DEF CleanDirectory, sender, main, EndOperation, Other
<1>12. CASE TakeEvent
  BY <1>12, Zenon DEF TakeEvent, writing, collector, main
<1>13. CASE EndBatch
  BY <1>13, Zenon DEF EndBatch, writing, collector, main
<1>14. CASE SendRest
  BY <1>14, Zenon DEF SendRest, writing, collector, main
<1>15. CASE SenderExits
  BY <1>15, Zenon DEF SenderExits, writing, collector, sender, main
<1>16. CASE SenderDies
  BY <1>16, Zenon DEF SenderDies, writing, collector, main
<1>17. CASE CheckThreads
  BY <1>17, Zenon DEF CheckThreads, writing, collector, sender
<1>18. CASE StopCollector
  BY <1>18, Zenon DEF StopCollector, writing, collector, sender
<1>19. CASE JoinCollector
  BY <1>19, Zenon DEF JoinCollector, writing, collector, sender, Join
<1>20. CASE StopSender
  BY <1>20, Zenon DEF StopSender, writing, collector, sender
<1>21. CASE JoinSender
  BY <1>21, Zenon DEF JoinSender, writing, collector, sender, Join
<1>22. CASE Exited
  BY <1>22, Zenon DEF Exited, writing, collector, sender, main, vars
<1>23. CASE UNCHANGED vars
  BY <1>23, Zenon DEF vars, writing, collector, sender, main
<1>. QED
  BY <1>1, <1>2, <1>3, <1>4, <1>5, <1>6, <1>7, <1>8, <1>9, <1>10, <1>11, <1>12, <1>13, <1>14,
     <1>15, <1>16, <1>17, <1>18, <1>19, <1>20, <1>21, <1>22, <1>23, ZenonT(60) DEF
    Next, SaveEvent, Collect, SendEvents, Shutdown

(* A file stays until its events are given up, or the collector removes    *)
(* the one it has opened.                                                  *)
LEMMA FilesKept ==
    ASSUME WriterTypes, FileTypes, CollectorTypes, Unknown, Unsaved, [Next]_vars,
           NEW op \in Ops, NEW f \in Range(files[op])
    PROVE  \/ f \in Range(files'[op])
           \/ \A e \in Range(f) : GivenUp(e)'
           \/ cpc = "remove" /\ op = cop /\ f = Head(todo)
<1>1. "limit" \in Causes \ {"stopped"} /\ "agent" \in Ops /\ "ext" \in Ops
      /\ \A po \in Ops : po = "agent" \/ po = "ext"
  BY SMT DEF Causes, Ops
<1>2. CASE UNCHANGED files
  BY <1>2, Zenon
<1>3. ASSUME NEW w \in Writers, RemoveOldest(w), ~UNCHANGED files
      PROVE  f \in Range(files'[op]) \/ \A e \in Range(f) : GivenUp(e)'
  <2>1. /\ Range(files'["agent"]) = Range(files["agent"]) \ {Head(writer[w].oldest)}
        /\ files'["ext"] = files["ext"]
        /\ \A e \in Range(Head(writer[w].oldest)) : <<e, "limit">> \in dropped'
    BY <1>3, OldestRemoved, Zenon
  <2>2. CASE op = "ext"
    BY <2>1, <2>2, Zenon
  <2>3. CASE op = "agent" /\ f # Head(writer[w].oldest)
    BY <2>1, <2>3, Zenon
  <2>4. CASE f = Head(writer[w].oldest)
    BY <1>1, <2>1, <2>4, Zenon DEF GivenUp
  <2>. QED
    BY <1>1, <2>2, <2>3, <2>4, ZenonT(60)
<1>4. ASSUME NEW w \in Writers, WriteFile(w) PROVE f \in Range(files'[op])
  <2>1. /\ Range(files'["agent"]) = Range(files["agent"]) \cup {<<writer[w].event>>}
        /\ files'["ext"] = files["ext"]
    BY <1>4, FileWritten, Zenon
  <2>2. CASE op = "ext"
    BY <2>1, <2>2, Zenon
  <2>3. CASE op = "agent"
    BY <2>1, <2>3, Zenon
  <2>. QED
    BY <1>1, <2>2, <2>3, Zenon
<1>5. CASE ExtensionWrites
  <2>1. files'["agent"] = files["agent"]
    BY <1>5, ExtensionWrote
  <2>2. PICK g : Range(files'["ext"]) = Range(files["ext"]) \cup {g}
    BY <1>5, ExtensionWrote, Zenon
  <2>3. CASE op = "agent"
    BY <2>1, <2>3, Zenon
  <2>4. CASE op = "ext"
    BY <2>2, <2>4, Zenon
  <2>. QED
    BY <1>1, <2>3, <2>4, ZenonT(60)
<1>6. CASE RemoveFile \/ CleanDirectory
  <2>1. \/ f \in Range(files'[op])
        \/ RemoveFile /\ op = cop /\ f = Head(todo)
        \/ \A e \in Range(f) : <<e, "limit">> \in dropped'
    BY <1>6, FilesRemoved, Zenon
  <2>2. RemoveFile => cpc = "remove"
    BY Zenon DEF RemoveFile
  <2>. QED
    BY <1>1, <2>1, <2>2, Zenon DEF GivenUp
<1>7. ASSUME NEW w \in Writers, AddEvent(w) PROVE UNCHANGED files
  BY <1>7, Zenon DEF AddEvent
<1>8. CASE OpenFile \/ NextEvent \/ PutEvent \/ TakeEvent \/ SendRest \/ SenderDies \/ Quiet
  <2>1. UNCHANGED files
    BY <1>8, Zenon DEF OpenFile, NextEvent, PutEvent, TakeEvent, SendRest, SenderDies, Quiet, writing
  <2>. QED
    BY <1>2, <2>1, Zenon
<1>. QED
  BY <1>2, <1>3, <1>4, <1>5, <1>6, <1>7, <1>8, Actors, ZenonT(60)

(* An event that is to be written is then in a file, or given up.          *)
LEMMA SavingKept ==
    ASSUME WriterTypes, FileTypes, CollectorTypes, Unknown, Unsaved, [Next]_vars,
           NEW e \in Saving
    PROVE  e \in Saving' \/ InFile(e)' \/ GivenUp(e)'
<1>1. "error" \in Causes \ {"stopped"} /\ "agent" \in Ops
  BY SMT DEF Causes, Ops
<1>2. CASE UNCHANGED writer
  BY <1>2, Zenon DEF Saving
<1>3. ASSUME NEW w \in Writers, AddEvent(w) PROVE e \in Saving'
  BY <1>3, EventAdded, Zenon
<1>4. ASSUME NEW w \in Writers, RemoveOldest(w) PROVE e \in Saving' \/ GivenUp(e)'
  <2>1. e \in Saving' \/ <<e, "error">> \in dropped'
    BY <1>4, OldestRemoved, Zenon
  <2>. QED
    BY <1>1, <2>1, Zenon DEF GivenUp
<1>5. ASSUME NEW w \in Writers, WriteFile(w) PROVE e \in Saving' \/ InFile(e)'
  <2>1. /\ e \in Saving' \/ e = writer[w].event
        /\ Range(<<writer[w].event>>) = {writer[w].event}
        /\ Range(files'["agent"]) = Range(files["agent"]) \cup {<<writer[w].event>>}
    BY <1>5, FileWritten, Zenon
  <2>. QED
    BY <1>1, <2>1, Zenon DEF InFile
<1>6. CASE \/ ExtensionWrites \/ OpenFile \/ NextEvent \/ PutEvent \/ RemoveFile \/ CleanDirectory
           \/ TakeEvent \/ SendRest \/ SenderDies \/ Quiet
  <2>1. UNCHANGED writer
    BY <1>6, Zenon DEF ExtensionWrites, OpenFile, NextEvent, PutEvent, RemoveFile, CleanDirectory, TakeEvent,
      SendRest, SenderDies, Quiet, writing
  <2>. QED
    BY <1>2, <2>1, Zenon
<1>. QED
  BY <1>3, <1>4, <1>5, <1>6, Actors, ZenonT(60)

(* An event that is to be read is then handled, as long as nothing timed   *)
(* out: the sender is not told to stop before the collector has exited.    *)
LEMMA ReadKept ==
    ASSUME CollectorTypes, SenderTypes, Once, Unread, Orderly, ~timedOut, [Next]_vars,
           NEW e \in Events, ToRead(e)
    PROVE  ToRead(e)' \/ Handled(e)'
<1>1. cpc \in {"check", "put"} /\ e \in Range(cur) /\ Reading
  BY Zenon DEF ToRead, Reading
<1>2. /\ Range(cur) = {Head(cur)} \cup Range(Tail(cur))
      /\ Len(cur) = 1 <=> Tail(cur) = <<>>
  BY <1>1, NextRead, Zenon
<1>3. Range(<<>>) = {}
  <2>1. DOMAIN <<>> = {}
    BY SMT
  <2>. QED
    BY <2>1, Zenon DEF Range
<1>4. "sender" \notin stopped
  <2>1. cpc # "exited"
    BY <1>1, Zenon
  <2>. QED
    BY <2>1, Zenon DEF Orderly
<1>5. ASSUME NEW cause \in {"error", "limit"}, <<e, cause>> \in dropped' PROVE Handled(e)'
  <2>1. cause \in Causes \ {"stopped"}
    BY Zenon DEF Causes
  <2>. QED
    BY <1>5, <2>1, Zenon DEF Handled, GivenUp
<1>6. CASE UNCHANGED <<cpc, cur>>
  BY <1>6, Zenon DEF ToRead, Reading
<1>7. CASE NextEvent
  <2>1. CASE cpc' = "put" /\ UNCHANGED cur
    BY <1>1, <2>1, Zenon DEF ToRead, Reading
  <2>2. CASE /\ cpc' = IF Len(cur) = 1 THEN "remove" ELSE "check"
             /\ Drop({Head(cur)}, "error")
             /\ cur' = Tail(cur)
    <3>1. CASE e = Head(cur)
      <4>1. <<e, "error">> \in dropped'
        BY <2>2, <3>1, Zenon DEF Drop
      <4>. QED
        BY <1>5, <4>1, Zenon
    <3>2. CASE e \in Range(Tail(cur))
      <4>1. cpc' = "check"
        BY <1>2, <1>3, <2>2, <3>2, ZenonT(60)
      <4>. QED
        BY <2>2, <3>2, <4>1, Zenon DEF ToRead, Reading
    <3>. QED
      BY <1>1, <1>2, <3>1, <3>2, ZenonT(60)
  <2>. QED
    BY <1>4, <1>7, <2>1, <2>2, ZenonT(60) DEF NextEvent
<1>8. CASE PutEvent
  <2>1. CASE e = Head(cur)
    <3>1. Queued' = Queued \cup {Head(cur)}
      BY <1>8, EventPut, Zenon
    <3>. QED
      BY <2>1, <3>1, Zenon DEF Handled
  <2>2. CASE e \in Range(Tail(cur))
    <3>1. Len(cur) # 1
      BY <1>2, <1>3, <2>2, Zenon
    <3>2. CASE captured' = MaxPerPeriod
      <4>1. <<e, "limit">> \in dropped'
        BY <1>8, <2>2, <3>2, ZenonT(60) DEF PutEvent, Drop
      <4>. QED
        BY <1>5, <4>1, Zenon
    <3>3. CASE captured' # MaxPerPeriod
      <4>1. cpc' = "check" /\ cur' = Tail(cur)
        BY <1>8, <3>1, <3>3, ZenonT(60) DEF PutEvent
      <4>. QED
        BY <2>2, <4>1, Zenon DEF ToRead, Reading
    <3>. QED
      BY <3>2, <3>3, Zenon
  <2>. QED
    BY <1>1, <1>2, <2>1, <2>2, Zenon
<1>9. CASE OpenFile \/ RemoveFile \/ CleanDirectory
  <2>1. cpc \in {"open", "remove", "clean"}
    BY <1>9, Zenon DEF OpenFile, RemoveFile, CleanDirectory
  <2>. QED
    BY <1>1, <2>1, Zenon
<1>10. ASSUME NEW w \in Writers, AddEvent(w) \/ RemoveOldest(w) \/ WriteFile(w)
       PROVE  UNCHANGED <<cpc, cur>>
  BY <1>10, Zenon DEF AddEvent, RemoveOldest, WriteFile, collector
<1>11. CASE ExtensionWrites \/ TakeEvent \/ SendRest \/ SenderDies
  <2>1. UNCHANGED <<cpc, cur>>
    BY <1>11, Zenon DEF ExtensionWrites, TakeEvent, SendRest, SenderDies, collector
  <2>. QED
    BY <1>6, <2>1, Zenon
<1>12. CASE Quiet
  <2>1. UNCHANGED <<cpc, cur>>
    BY <1>1, <1>12, Zenon DEF Quiet
  <2>. QED
    BY <1>6, <2>1, Zenon
<1>. QED
  BY <1>6, <1>7, <1>8, <1>9, <1>10, <1>11, <1>12, Actors, ZenonT(60)

(* The collector does not go to another file before it removes the one     *)
(* that it has opened.                                                     *)
LEMMA FileStep ==
    ASSUME CollectorTypes, [Next]_vars, cpc' \in {"check", "put", "remove"}
    PROVE  /\ UNCHANGED todo
           /\ cpc \in {"check", "put", "remove"} \/ (cpc' = "check" /\ cur' = Head(todo))
<1>1. CASE UNCHANGED <<cpc, cop, todo, cur>>
  BY <1>1, Zenon
<1>2. CASE OpenFile
  <2>1. cpc' = "check" => cur' = Head(todo) /\ UNCHANGED todo
    BY <1>2, SMT DEF OpenFile, EndOperation
  <2>2. cpc' \in {"idle", "clean", "open", "check"}
    BY <1>2, Zenon DEF OpenFile, EndOperation
  <2>. QED
    BY <2>1, <2>2, Zenon
<1>3. CASE NextEvent \/ PutEvent
  BY <1>3, Zenon DEF NextEvent, PutEvent
<1>4. CASE RemoveFile \/ CleanDirectory
  <2>1. cpc' \in {"idle", "clean", "open"}
    BY <1>4, Zenon DEF RemoveFile, CleanDirectory, EndOperation
  <2>. QED
    BY <2>1, Zenon
<1>5. ASSUME NEW w \in Writers, AddEvent(w) \/ RemoveOldest(w) \/ WriteFile(w)
      PROVE  UNCHANGED <<cpc, cop, todo, cur>>
  BY <1>5, Zenon DEF AddEvent, RemoveOldest, WriteFile, collector
<1>6. CASE ExtensionWrites \/ TakeEvent \/ SendRest \/ SenderDies
  <2>1. UNCHANGED <<cpc, cop, todo, cur>>
    BY <1>6, ZenonT(60) DEF ExtensionWrites, TakeEvent, SendRest, SenderDies, collector
  <2>. QED
    BY <1>1, <2>1, Zenon
<1>7. CASE Quiet
  <2>1. UNCHANGED <<cpc, cop, todo, cur>>
    BY <1>7, Zenon DEF Quiet
  <2>. QED
    BY <1>1, <2>1, Zenon
<1>. QED
  BY <1>1, <1>2, <1>3, <1>4, <1>5, <1>6, <1>7, Actors, ZenonT(60)

(* An event that is new is to be written, or is in a file.                 *)
LEMMA NewEvents ==
    ASSUME WriterTypes, FileTypes, CollectorTypes, Unknown, Unsaved, [Next]_vars,
           NEW e \in Events, e <= added', ~(e <= added)
    PROVE  e \in Saving' \/ InFile(e)'
<1>1. added \in Nat /\ e > added /\ e \in Nat
  BY SMT DEF WriterTypes, Events
<1>2. ASSUME NEW w \in Writers, AddEvent(w) PROVE e \in Saving'
  <2>1. added' = added + 1 /\ Saving' = Saving \cup {added'}
    BY <1>2, EventAdded, Zenon
  <2>2. e = added'
    BY <1>1, <2>1, SMT
  <2>. QED
    BY <2>1, <2>2, Zenon
<1>3. CASE ExtensionWrites
  <2>1. PICK f : /\ Range(files'["ext"]) = Range(files["ext"]) \cup {f}
                 /\ \A x \in Nat : x > added /\ x <= added' => x \in Range(f)
    BY <1>3, ExtensionWrote, Zenon
  <2>2. "ext" \in Ops /\ e \in Range(f)
    BY <1>1, <2>1, Zenon DEF Ops
  <2>. QED
    BY <2>1, <2>2, Zenon DEF InFile
<1>4. ASSUME NEW w \in Writers, RemoveOldest(w) \/ WriteFile(w) PROVE UNCHANGED added
  BY <1>4, Zenon DEF RemoveOldest, WriteFile
<1>5. CASE \/ OpenFile \/ NextEvent \/ PutEvent \/ RemoveFile \/ CleanDirectory
           \/ TakeEvent \/ SendRest \/ SenderDies \/ Quiet
  <2>1. UNCHANGED added
    BY <1>5, Zenon DEF OpenFile, NextEvent, PutEvent, RemoveFile, CleanDirectory, TakeEvent, SendRest,
      SenderDies, Quiet, writing
  <2>. QED
    BY <2>1, Zenon
<1>. QED
  BY <1>2, <1>3, <1>4, <1>5, Actors, ZenonT(60)

(* Every step loses no event.                                              *)
LEMMA NotLostStep ==
    ASSUME WriterTypes, FileTypes, CollectorTypes, SenderTypes, Once, Unknown, Unsaved, Unread,
           Orderly, NotLost, [Next]_vars
    PROVE  NotLost'
<1>. SUFFICES ASSUME ~timedOut'
              PROVE  /\ \A e \in Events : e <= added' =>
                           InFile(e)' \/ e \in Saving' \/ ToRead(e)' \/ Handled(e)'
                     /\ cpc' \in {"check", "put", "remove"} =>
                           \A e \in Events : e \in Range(Head(todo')) => ToRead(e)' \/ Handled(e)'
  BY Zenon DEF NotLost
<1>1. ~timedOut
  BY TimeoutsStand, Zenon
<1>2. ASSUME NEW e \in Events, e <= added'
      PROVE  InFile(e)' \/ e \in Saving' \/ ToRead(e)' \/ Handled(e)'
  <2>1. CASE ~(e <= added)
    BY <1>2, <2>1, NewEvents
  <2>2. CASE InFile(e)
    <3>1. PICK op \in Ops : \E f \in Range(files[op]) : e \in Range(f)
      BY <2>2, Zenon DEF InFile
    <3>2. PICK f \in Range(files[op]) : e \in Range(f)
      BY <3>1, Zenon
    <3>3. CASE f \in Range(files'[op])
      BY <3>2, <3>3, Zenon DEF InFile
    <3>4. CASE GivenUp(e)'
      BY <3>4, Zenon DEF Handled
    <3>5. CASE cpc = "remove" /\ op = cop /\ f = Head(todo)
      <4>1. ~ToRead(e)
        BY <3>5, Zenon DEF ToRead, Reading
      <4>2. Handled(e)
        BY <1>1, <3>2, <3>5, <4>1, Zenon DEF NotLost
      <4>. QED
        BY <4>2, SenderStep, Zenon
    <3>. QED
      BY <3>2, <3>3, <3>4, <3>5, FilesKept, ZenonT(60)
  <2>3. CASE e \in Saving
    <3>1. e \in Saving' \/ InFile(e)' \/ GivenUp(e)'
      BY <2>3, SavingKept, Zenon
    <3>. QED
      BY <3>1, Zenon DEF Handled
  <2>4. CASE ToRead(e)
    BY <1>1, <2>4, ReadKept, Zenon
  <2>5. CASE Handled(e)
    BY <2>5, SenderStep, Zenon
  <2>. QED
    BY <1>1, <2>1, <2>2, <2>3, <2>4, <2>5, ZenonT(60) DEF NotLost
<1>3. ASSUME cpc' \in {"check", "put", "remove"}, NEW e \in Events, e \in Range(Head(todo'))
      PROVE  ToRead(e)' \/ Handled(e)'
  <2>1. /\ UNCHANGED todo
        /\ cpc \in {"check", "put", "remove"} \/ (cpc' = "check" /\ cur' = Head(todo))
    BY <1>3, FileStep
  <2>2. CASE cpc' = "check" /\ cur' = Head(todo)
    BY <1>3, <2>1, <2>2, ZenonT(60) DEF ToRead, Reading
  <2>3. CASE cpc \in {"check", "put", "remove"}
    <3>1. ToRead(e) \/ Handled(e)
      BY <1>1, <1>3, <2>1, <2>3, ZenonT(60) DEF NotLost
    <3>2. CASE ToRead(e)
      BY <1>1, <3>2, ReadKept
    <3>3. CASE Handled(e)
      BY <3>3, SenderStep, Zenon
    <3>. QED
      BY <3>1, <3>2, <3>3
  <2>. QED
    BY <2>1, <2>2, <2>3, Zenon
<1>. QED
  BY <1>2, <1>3, Zenon

----------------------------------------------------------------------------
(* The inductive invariant.                                                *)
Inv ==
    /\ WriterTypes /\ FileTypes /\ CollectorTypes /\ SenderTypes
    /\ Once /\ Unknown /\ Unsaved /\ Saved /\ Unread /\ Room /\ Orderly /\ NotLost

(* The pipeline starts empty.                                              *)
LEMMA InvInit ==
    ASSUME Init PROVE Inv
<1>1. /\ DOMAIN <<>> = {} /\ <<>> \in Seq(Seq(Events)) /\ <<>> \in Seq(Events \X Ops)
      /\ Len(<<>>) = 0
  BY SMT
<1>2. Range(<<>>) = {} /\ Distinct(<<>>)
  BY <1>1, Zenon DEF Range, Distinct
<1>3. DOMAIN files = Ops /\ \A op \in Ops : files[op] = <<>>
  BY Zenon DEF Init
<1>4. FileTypes
  BY <1>1, <1>2, <1>3, Zenon DEF FileTypes, Ops
<1>5. DOMAIN writer = Writers /\ \A w \in Writers : writer[w] = NotWriting
  BY Zenon DEF Init
<1>6. NotWriting.event = 0 /\ NotWriting.oldest = <<>>
  BY Zenon DEF NotWriting
<1>7. Saving = {}
  BY <1>5, <1>6, Zenon DEF Saving
<1>8. WriterTypes
  <2>1. added \in Nat /\ added <= MaxEvents
    BY BoundsAssumption, SMT DEF Init
  <2>2. \A w \in Writers : writer[w] = [event |-> writer[w].event, oldest |-> writer[w].oldest]
    BY <1>5, <1>6, Zenon DEF NotWriting
  <2>. QED
    BY <1>5, <1>6, <1>7, <2>1, <2>2, ZenonT(60) DEF WriterTypes
<1>9. ~Reading /\ cpc \notin {"check", "put", "remove"}
  BY Zenon DEF Init, Reading
<1>10. CollectorTypes
  BY <1>9, Zenon DEF CollectorTypes, Init, Ops
<1>11. SenderTypes
  <2>1. 0 \in Nat
    BY SMT
  <2>. QED
    BY <1>1, <2>1, Zenon DEF SenderTypes, Init
<1>12. /\ Queued = {} /\ \A op \in Ops : buf[op] = {}
       /\ \A e \in Events : sent[e] = 0
  BY <1>2, Zenon DEF Init, Queued
<1>13. Once
  <2>1. \A e \in Events : sent[e] <= 1
    BY <1>12, SMT
  <2>. QED
    BY <1>2, <1>12, <2>1, Zenon DEF Once, Init
<1>14. \A e : ~InFile(e) /\ ~ToRead(e) /\ ~Buffered(e)
  BY <1>2, <1>3, <1>9, <1>12, Zenon DEF InFile, ToRead, Buffered
<1>15. Unknown /\ Unsaved /\ Saved /\ Unread
  <2>1. Unknown
    BY <1>7, <1>12, <1>14, Zenon DEF Unknown, Fresh
  <2>2. Unsaved
    BY <1>5, <1>6, <1>7, Zenon DEF Unsaved
  <2>3. Saved
    BY <1>2, <1>3, Zenon DEF Saved
  <2>4. Unread
    BY <1>14, Zenon DEF Unread
  <2>. QED
    BY <2>1, <2>2, <2>3, <2>4
<1>16. Room
  <2>1. Ready = {}
    BY <1>5, <1>6, Zenon DEF Ready
  <2>2. Cardinality(Ready) = 0 /\ Cardinality(Writers) \in Nat
    BY <2>1, FS_EmptySet, ReadyThreads, Zenon
  <2>3. Len(files["agent"]) = 0
    BY <1>1, <1>3, Zenon DEF Ops
  <2>. QED
    BY <2>2, <2>3, BoundsAssumption, SMT DEF Room
<1>17. Orderly
  BY <1>12, Zenon DEF Orderly, Init
<1>18. NotLost
  <2>1. \A e \in Events : ~(e <= added)
    BY SMT DEF Init, Events
  <2>. QED
    BY <1>9, <2>1, Zenon DEF NotLost
<1>. QED
  BY <1>4, <1>8, <1>10, <1>11, <1>13, <1>15, <1>16, <1>17, <1>18, ZenonT(60) DEF Inv

(* Every step keeps it.                                                    *)
LEMMA InvStep ==
    ASSUME Inv, [Next]_vars PROVE Inv'
<1>1. /\ WriterTypes /\ FileTypes /\ CollectorTypes /\ SenderTypes
      /\ Once /\ Unknown /\ Unsaved /\ Saved /\ Unread /\ Room /\ Orderly /\ NotLost
  BY Zenon DEF Inv
<1>2. WriterTypes' /\ FileTypes'
  BY <1>1, WritingStep, Zenon
<1>3. CollectorTypes'
  BY <1>1, ReadStep
<1>4. SenderTypes' /\ Once'
  BY <1>1, SenderStep, Zenon
<1>5. Unknown' /\ Unsaved' /\ Saved' /\ Unread'
  BY <1>1, UnknownStep, UnsavedStep, SavedStep, UnreadStep, Zenon
<1>6. Room' /\ Orderly' /\ NotLost'
  BY <1>1, RoomStep, OrderlyStep, NotLostStep
<1>. QED
  BY <1>2, <1>3, <1>4, <1>5, <1>6, ZenonT(60) DEF Inv

(* The invariant holds throughout.                                         *)
LEMMA Invariance ==
    Spec => []Inv
<1>1. Init => Inv
  BY InvInit, Zenon
<1>2. Inv /\ [Next]_vars => Inv'
  BY InvStep, Zenon
<1>. QED
  BY <1>1, <1>2, PTL DEF Spec

(* No event is handed to the WireServer twice, although two kinds of       *)
(* threads remove the files and the collector removes one only after it    *)
(* put its events in the queue: an event is fresh until it is put there,   *)
(* and then only in the file that the collector has opened.                *)
THEOREM EventsAreSentOnce ==
    Spec => []SentOnce
<1>1. Inv => SentOnce
  BY Zenon DEF Inv, Once, SentOnce
<1>. QED
  BY <1>1, Invariance, PTL

(* The directory of agent events exceeds its limit by at most the number   *)
(* of the other threads that write to it: save_event lists the directory   *)
(* and writes later, without a lock.                                       *)
THEOREM DirectoryBounded ==
    Spec => []DirectoryIsBounded
<1>1. Inv => DirectoryIsBounded
  <2>. SUFFICES ASSUME Inv PROVE DirectoryIsBounded
    BY Zenon
  <2>1. FileTypes /\ Room
    BY Zenon DEF Inv
  <2>2. /\ Len(files["agent"]) \in Nat /\ Cardinality(Ready) \in Nat
        /\ Cardinality(Writers) \in Nat /\ MaxFiles \in Nat
    BY <2>1, BoundsAssumption, FullDirectory, ReadyThreads, ZenonT(60)
  <2>. QED
    BY <2>1, <2>2, SMT DEF Room, DirectoryIsBounded
<1>. QED
  BY <1>1, Invariance, PTL

(* After a shutdown in which no join timed out and no thread died, no      *)
(* event is lost because the sender had stopped: the order of _shutdown is *)
(* enough.                                                                 *)
THEOREM ShutdownIsClean ==
    Spec => []CleanShutdown
<1>1. Inv => CleanShutdown
  <2>. SUFFICES ASSUME Inv, mpc = "exited", ~timedOut, deaths = 0, NEW e \in 1..added
                PROVE  \/ sent[e] > 0
                       \/ OnDisk(e)
                       \/ \E cause \in Causes \ {"stopped"} : <<e, cause>> \in dropped
    BY Zenon DEF CleanShutdown
  <2>1. WriterTypes /\ FileTypes /\ Orderly /\ NotLost
    BY Zenon DEF Inv
  <2>2. e \in Events /\ e <= added
    BY <2>1, BoundsAssumption, SMT DEF WriterTypes, Events
  <2>3. cpc = "exited" /\ spc = "exited"
    BY <2>1, Zenon DEF Orderly
  <2>4. queue = <<>> /\ \A op \in Ops : buf[op] = {}
    BY <2>1, <2>3, Zenon DEF Orderly
  <2>5. ~ToRead(e) /\ ~Buffered(e) /\ e \notin Queued
    <3>1. DOMAIN <<>> = {}
      BY SMT
    <3>2. Queued = {}
      BY <2>4, <3>1, Zenon DEF Queued, Range
    <3>3. ~Reading
      BY <2>3, Zenon DEF Reading
    <3>. QED
      BY <2>4, <3>2, <3>3, ZenonT(60) DEF ToRead, Buffered
  <2>6. InFile(e) \/ e \in Saving \/ Handled(e)
    BY <2>1, <2>2, <2>5, Zenon DEF NotLost
  <2>7. CASE InFile(e)
    BY <2>7, Zenon DEF InFile, OnDisk, Range
  <2>8. CASE e \in Saving
    BY <2>8, Zenon DEF Saving, OnDisk
  <2>9. CASE Handled(e)
    BY <2>5, <2>9, Zenon DEF Handled, GivenUp
  <2>. QED
    BY <2>6, <2>7, <2>8, <2>9, Zenon
<1>. QED
  BY <1>1, Invariance, PTL

=============================================================================
