-------------------------- MODULE HostAccessProofs --------------------------
(***************************************************************************)
(* Proofs about the two components that stand between the agent and the    *)
(* host: Firewall and, in the last quarter of the module, HostChannel.     *)
(* They share no variables.                                                *)
(*                                                                         *)
(* Firewall, for every set of platforms and any number of failed commands, *)
(* changes by others, restarts and reboots: EnableFirewall reports OK only *)
(* when the rules protect the WireServer, and persisted rules are there    *)
(* after a reboot.  Nothing is assumed of the constants.                   *)
(*                                                                         *)
(* Both properties are about the ORDER of the rules in the chain, which no *)
(* command of the agent reads: "iptables -C" asks whether a rule exists.   *)
(* FirewallInv says why the order is right nevertheless:                   *)
(*   - Staged: which operations each program runs;                         *)
(*   - Listing: the permanent rules are always in order, and only iptables *)
(*     creates DROP rules;                                                 *)
(*   - InOrder: a DROP rule that is above the rules that accept comes with *)
(*     a missing rule, so that the next check finds it, and from the check *)
(*     that misses DROP to the end of setup there is none;                 *)
(*   - Found: while nobody else changes the rules, those that the check    *)
(*     found and those that setup appended are there;                      *)
(*   - Booting: what a boot starts with, and where persisted rules are.    *)
(***************************************************************************)
EXTENDS Firewall, HostChannel, FiniteSetTheorems, TLAPS

(* The rules that can be in the chain, and in the permanent configuration. *)
Entries == {Rule(r) : r \in {"dns", "accept", "drop", "legacy"}} \cup {HiddenDrop}
PermanentRules == {"legacyDns", "dns", "accept", "drop"}

(* The permanent rules are in the order in which they are added.           *)
Sorted(p) ==
    \A i, j \in 1..Len(p) : i < j =>
        /\ p[j] = "legacyDns" => p[i] = "legacyDns"
        /\ p[j] = "dns" => p[i] \in {"legacyDns", "dns"}
        /\ p[j] = "accept" => p[i] # "drop"

(* Facts about sequences.                                                  *)
LEMMA SeqFacts ==
    ASSUME NEW S
    PROVE  /\ <<>> \in Seq(S) /\ Len(<<>>) = 0
           /\ \A c \in Seq(S) : Len(c) \in Nat /\ \A i \in 1..Len(c) : c[i] \in S
           /\ \A c, d \in Seq(S) :
                /\ c \o d \in Seq(S) /\ Len(c \o d) = Len(c) + Len(d)
                /\ \A i \in 1..(Len(c) + Len(d)) :
                        (c \o d)[i] = IF i <= Len(c) THEN c[i] ELSE d[i - Len(c)]
<1>1. <<>> \in Seq(S) /\ Len(<<>>) = 0
  BY SMT
<1>2. ASSUME NEW c \in Seq(S) PROVE Len(c) \in Nat /\ \A i \in 1..Len(c) : c[i] \in S
  BY SMT
<1>3. ASSUME NEW c \in Seq(S), NEW d \in Seq(S)
      PROVE  /\ c \o d \in Seq(S) /\ Len(c \o d) = Len(c) + Len(d)
             /\ \A i \in 1..(Len(c) + Len(d)) :
                    (c \o d)[i] = IF i <= Len(c) THEN c[i] ELSE d[i - Len(c)]
  BY SMT
<1>. QED
  BY <1>1, <1>2, <1>3, Zenon

(* A set of numbers has a least one, if it has any.                        *)
LEMMA LeastElement ==
    ASSUME NEW T, \A x \in T : x \in Nat, T # {}
    PROVE  \E x \in T : \A y \in T : x <= y
  <1> DEFINE R == OpToRel(<, Nat)
  <1>1. PICK x \in T : \A y \in T : ~(<<y, x>> \in R)
    <2>1. IsWellFoundedOn(R, Nat)
      BY NatLessThanWellFounded, Zenon
    <2> HIDE DEF R
    <2>2. T \subseteq Nat
      BY Zenon
    <2> QED
      BY <2>1, <2>2, WFMin, Zenon
  <1>2. \A y \in Nat : y < x => <<y, x>> \in R
    BY Zenon DEF OpToRel
  <1> HIDE DEF R
  <1>3. ASSUME NEW y \in T PROVE x <= y
    <2>1. x \in Nat /\ y \in Nat /\ ~(y < x)
      BY <1>1, <1>2, Zenon
    <2> QED
      BY <2>1, SMT
  <1> QED
    BY <1>3, Zenon

(* h embeds w into c: w has the elements of c that are not in D, in their  *)
(* order.                                                                  *)
Embeds(h, w, c, D) ==
    /\ \A k \in 1..Len(w) : h[k] \in 1..Len(c) /\ w[k] = c[h[k]] /\ w[k] \notin D
    /\ \A k, l \in 1..Len(w) : k < l => h[k] < h[l]
    /\ \A i \in 1..Len(c) : c[i] \notin D => \E k \in 1..Len(w) : h[k] = i

(* What is left of a sequence is a subsequence, with every element that is *)
(* not deleted.                                                            *)
LEMMA WithoutIsSubsequence ==
    ASSUME NEW S, NEW c \in Seq(S), NEW D
    PROVE  Without(c, D) \in Seq(S) /\ \E h : Embeds(h, Without(c, D), c, D)
<1>. DEFINE kept == {i \in 1..Len(c) : c[i] \notin D}
            n == Cardinality(kept)
            Below(i) == {j \in kept : j <= i}
            Nth(k) == CHOOSE i \in kept : Cardinality(Below(i)) = k
            h == [k \in 1..n |-> Nth(k)]
<1>1. Len(c) \in Nat /\ IsFiniteSet(kept) /\ n \in Nat
  <2>1. Len(c) \in Nat
    BY SeqFacts, Zenon
  <2>2. IsFiniteSet(1..Len(c))
    BY <2>1, FS_Interval, SMT
  <2>3. kept \in SUBSET (1..Len(c))
    BY Zenon
  <2>4. IsFiniteSet(kept)
    BY <2>2, <2>3, FS_Subset, Zenon
  <2>. QED
    BY <2>1, <2>4, FS_CardinalityType, Zenon
<1>2. \A i \in kept : i \in Nat /\ i \in 1..Len(c)
  BY <1>1, SMT
<1>3. ASSUME NEW i \in kept
      PROVE  IsFiniteSet(Below(i)) /\ Cardinality(Below(i)) \in 1..n
  <2>1. Below(i) \in SUBSET kept /\ i \in Below(i)
    BY <1>2, SMT
  <2>2. IsFiniteSet(Below(i)) /\ Cardinality(Below(i)) <= n
    BY <1>1, <2>1, FS_Subset, Zenon
  <2>3. Cardinality(Below(i)) \in Nat
    BY <2>2, FS_CardinalityType, Zenon
  <2>4. Cardinality(Below(i)) # 0
    BY <2>1, <2>2, FS_EmptySet, Zenon
  <2>. HIDE DEF Below, n
  <2>. QED
    BY <1>1, <2>2, <2>3, <2>4, SMT
<1>4. ASSUME NEW i \in kept, NEW j \in kept, i < j
      PROVE  Cardinality(Below(i)) < Cardinality(Below(j))
  <2>1. Below(i) \in SUBSET Below(j) /\ j \in Below(j) /\ j \notin Below(i)
    BY <1>2, <1>4, SMT
  <2>2. Below(i) # Below(j)
    BY <2>1, Zenon
  <2>3. IsFiniteSet(Below(i)) /\ IsFiniteSet(Below(j))
    BY <1>3, Zenon
  <2>4. Cardinality(Below(i)) \in 1..n /\ Cardinality(Below(j)) \in 1..n
    BY <1>3, Zenon
  <2>. HIDE DEF Below, n
  <2>5. Cardinality(Below(i)) <= Cardinality(Below(j)) /\ Cardinality(Below(j)) # Cardinality(Below(i))
    BY <2>1, <2>2, <2>3, FS_Subset, Zenon
  <2>. QED
    BY <1>1, <2>4, <2>5, SMT
<1>5. ASSUME NEW k \in 1..n
      PROVE  \E i \in kept : Cardinality(Below(i)) = k
  <2>. SUFFICES ASSUME \A i \in kept : Cardinality(Below(i)) # k
                PROVE  FALSE
    BY Zenon
  <2>. DEFINE T == (1..n) \ {k}
              f == [i \in kept |-> Cardinality(Below(i))]
  <2>1. IsFiniteSet(1..n) /\ Cardinality(1..n) = n
    <3>. HIDE DEF n
    <3>1. IsFiniteSet(1..n) /\ Cardinality(1..n) = IF 1 > n THEN 0 ELSE n - 1 + 1
      BY <1>1, FS_Interval, SMT
    <3>. QED
      BY <1>1, <3>1, SMT
  <2>2. IsFiniteSet(T) /\ Cardinality(T) = n - 1
    <3>1. IsFiniteSet(T) /\ Cardinality(T) = IF k \in 1..n THEN Cardinality(1..n) - 1 ELSE Cardinality(1..n)
      BY <2>1, FS_RemoveElement, Zenon
    <3>. QED
      BY <2>1, <3>1, Zenon
  <2>3. f \in [kept -> T]
    BY <1>3, Zenon
  <2>4. \A x, y \in kept : x # y => Cardinality(Below(x)) # Cardinality(Below(y))
    <3>1. ASSUME NEW x \in kept, NEW y \in kept, x # y PROVE x < y \/ y < x
      BY <1>2, <3>1, SMT
    <3>2. \A x \in kept : Cardinality(Below(x)) \in Int
      <4>. HIDE DEF n
      <4>1. \A m \in 1..n : m \in Int
        BY <1>1, SMT
      <4>. QED
        BY <1>3, <4>1, Zenon
    <3>. HIDE DEF Below, kept, n
    <3>3. \A a, b \in Int : a < b => a # b
      BY SMT
    <3>. QED
      BY <1>4, <3>1, <3>2, <3>3, Zenon
  <2>5. \A x, y \in kept : x # y => f[x] # f[y]
    BY <2>4, Zenon
  <2>. HIDE DEF f, T, n, kept
  <2>6. Cardinality(T) < n
    BY <1>1, <2>2, SMT
  <2>7. \E x, y \in kept : x # y /\ f[x] = f[y]
    <3>1. Cardinality(T) < Cardinality(kept)
      BY <2>6, Zenon DEF n
    <3>. QED
      BY <1>1, <2>2, <2>3, <3>1, FS_PigeonHole, Zenon
  <2>. QED
    BY <2>5, <2>7, Zenon
<1>6. ASSUME NEW k \in 1..n
      PROVE  h[k] \in kept /\ Cardinality(Below(h[k])) = k
  BY <1>5, Zenon
<1>7. Without(c, D) = [k \in 1..n |-> c[h[k]]]
  <2>1. Without(c, D) = [k \in 1..n |-> c[Nth(k)]]
    BY Zenon DEF Without
  <2>. HIDE DEF Nth, n, kept
  <2>. QED
    BY <2>1, SMT
<1>8. ASSUME NEW k \in 1..n, NEW l \in 1..n, k < l
      PROVE  h[k] < h[l]
  <2>1. h[k] \in kept /\ h[l] \in kept /\ Cardinality(Below(h[k])) = k /\ Cardinality(Below(h[l])) = l
    BY <1>6, Zenon
  <2>2. h[k] \in Nat /\ h[l] \in Nat
    BY <1>2, <2>1, Zenon
  <2>3. h[l] < h[k] => l < k
    BY <1>4, <2>1, Zenon
  <2>4. h[l] = h[k] => l = k
    BY <2>1, Zenon
  <2>. HIDE DEF h, n
  <2>. QED
    BY <1>1, <1>8, <2>2, <2>3, <2>4, SMT
<1>9. ASSUME NEW i \in 1..Len(c), c[i] \notin D
      PROVE  \E k \in 1..n : h[k] = i
  <2>1. i \in kept
    BY <1>9, Zenon
  <2>. DEFINE k == Cardinality(Below(i))
  <2>2. k \in 1..n
    BY <1>3, <2>1, Zenon
  <2>3. h[k] \in kept /\ Cardinality(Below(h[k])) = k
    BY <1>6, <2>2, Zenon
  <2>4. h[k] \in Nat /\ i \in Nat
    BY <1>2, <2>1, <2>3, Zenon
  <2>5. h[k] < i => k < k
    BY <1>4, <2>1, <2>3, Zenon
  <2>6. i < h[k] => k < k
    BY <1>4, <2>1, <2>3, Zenon
  <2>. HIDE DEF k, h, n
  <2>7. h[k] = i
    BY <1>1, <2>2, <2>4, <2>5, <2>6, SMT
  <2>. QED
    BY <2>2, <2>7, Zenon
<1>10. \A k \in 1..n : h[k] \in 1..Len(c) /\ c[h[k]] \notin D /\ c[h[k]] \in S
  <2>1. \A i \in 1..Len(c) : c[i] \in S
    BY SeqFacts, Zenon
  <2>. QED
    BY <1>6, <2>1, Zenon
<1>12. Len(Without(c, D)) = n /\ Without(c, D) \in Seq(S)
  <2>. HIDE DEF h, n, kept
  <2>. QED
    BY <1>1, <1>7, <1>10, SMT
<1>13. \A k \in 1..n : Without(c, D)[k] = c[h[k]]
  <2>. HIDE DEF h, n, kept
  <2>. QED
    BY <1>7, Zenon
<1>. HIDE DEF h, n, kept
<1>14. \A k, l \in 1..n : k < l => h[k] < h[l]
  BY <1>8, Zenon
<1>15. \A i \in 1..Len(c) : c[i] \notin D => \E k \in 1..n : h[k] = i
  BY <1>9, Zenon
<1>16. Embeds(h, Without(c, D), c, D)
  <2>. DEFINE w == Without(c, D)
  <2>. HIDE DEF w
  <2>1. Len(w) = n /\ \A k \in 1..n : w[k] = c[h[k]]
    BY <1>12, <1>13, Zenon DEF w
  <2>2. Embeds(h, w, c, D)
    BY <1>10, <1>14, <1>15, <2>1, Zenon DEF Embeds
  <2>. QED
    BY <2>2, Zenon DEF w
<1>. QED
  BY <1>12, <1>16, Zenon

(* What is left has the elements that are not deleted, and no others.      *)
LEMMA WithoutHas ==
    ASSUME NEW S, NEW c \in Seq(S), NEW D
    PROVE  \A x : Has(Without(c, D), x) <=> (Has(c, x) /\ x \notin D)
<1>. DEFINE w == Without(c, D)
<1>1. PICK h : Embeds(h, w, c, D)
  BY WithoutIsSubsequence, Zenon
<1>. HIDE DEF w
<1>2. ASSUME NEW x, Has(w, x) PROVE Has(c, x) /\ x \notin D
  <2>1. PICK k \in 1..Len(w) : w[k] = x
    BY <1>2, Zenon DEF Has
  <2>2. h[k] \in 1..Len(c) /\ w[k] = c[h[k]] /\ w[k] \notin D
    BY <1>1, Zenon DEF Embeds
  <2>. QED
    BY <2>1, <2>2, Zenon DEF Has
<1>3. ASSUME NEW x, Has(c, x), x \notin D PROVE Has(w, x)
  <2>1. PICK i \in 1..Len(c) : c[i] = x
    BY <1>3, Zenon DEF Has
  <2>2. PICK k \in 1..Len(w) : h[k] = i
    BY <1>1, <1>3, <2>1, Zenon DEF Embeds
  <2>3. w[k] = c[h[k]]
    BY <1>1, Zenon DEF Embeds
  <2>. QED
    BY <2>1, <2>2, <2>3, Zenon DEF Has
<1>. QED
  BY <1>2, <1>3, Zenon DEF w

(* What is left of rules that are in order is in order.                    *)
LEMMA WithoutSorted ==
    ASSUME NEW S, NEW p \in Seq(S), NEW D, Sorted(p)
    PROVE  Sorted(Without(p, D))
<1>. DEFINE w == Without(p, D)
<1>1. PICK h : Embeds(h, w, p, D)
  BY WithoutIsSubsequence, Zenon
<1>. HIDE DEF w
<1>2. ASSUME NEW i \in 1..Len(w), NEW j \in 1..Len(w), i < j
      PROVE  /\ w[j] = "legacyDns" => w[i] = "legacyDns"
             /\ w[j] = "dns" => w[i] \in {"legacyDns", "dns"}
             /\ w[j] = "accept" => w[i] # "drop"
  <2>1. h[i] \in 1..Len(p) /\ w[i] = p[h[i]] /\ h[j] \in 1..Len(p) /\ w[j] = p[h[j]]
    BY <1>1, Zenon DEF Embeds
  <2>2. h[i] < h[j]
    BY <1>1, <1>2, Zenon DEF Embeds
  <2>. QED
    BY <2>1, <2>2, Zenon DEF Sorted
<1>3. Sorted(w)
  BY <1>2, Zenon DEF Sorted
<1>. QED
  BY <1>3, Zenon DEF w

(* Nothing is left of an empty sequence.                                   *)
LEMMA WithoutEmpty ==
    ASSUME NEW D
    PROVE  Without(<<>>, D) = <<>>
<1>1. <<>> \in Seq({}) /\ Len(<<>>) = 0
  BY SeqFacts, Zenon
<1>2. Without(<<>>, D) \in Seq({})
  BY <1>1, WithoutIsSubsequence, Zenon
<1>. QED
  BY <1>2, SMT

(* The rules as records.                                                   *)
LEMMA RuleFacts ==
    /\ \A r : Rule(r).rule = r /\ Rule(r).hidden = FALSE /\ Rule(r) # HiddenDrop
    /\ \A r, s : Rule(r) = Rule(s) => r = s
    /\ HiddenDrop.rule = "drop" /\ HiddenDrop.hidden = TRUE
BY SMT DEF Rule, HiddenDrop

(* The three rules, in the order in which they are appended.               *)
LEMMA CommandFacts ==
    /\ Commands[1] = "dns" /\ Commands[2] = "accept" /\ Commands[3] = "drop"
    /\ Rules = {"dns", "accept", "drop"}
<1>1. Commands[1] = "dns" /\ Commands[2] = "accept" /\ Commands[3] = "drop" /\ DOMAIN Commands = {1, 2, 3}
  BY SMT DEF Commands
<1>. QED
  BY <1>1, SMT DEF Rules

(* An entry is determined by its rule, but for the two forms of DROP.      *)
LEMMA EntryFacts ==
    ASSUME NEW x \in Entries
    PROVE  /\ x.rule \in {"dns", "accept", "drop", "legacy"}
           /\ x.rule # "drop" => x = Rule(x.rule)
           /\ x.rule = "drop" => x \in {Rule("drop"), HiddenDrop}
           /\ x.hidden <=> x = HiddenDrop
<1>1. CASE x = HiddenDrop
  BY <1>1, RuleFacts, Zenon
<1>2. CASE \E r \in {"dns", "accept", "drop", "legacy"} : x = Rule(r)
  <2>1. PICK r \in {"dns", "accept", "drop", "legacy"} : x = Rule(r)
    BY <1>2, Zenon
  <2>. QED
    BY <2>1, RuleFacts, Zenon
<1>. QED
  BY <1>1, <1>2, Zenon DEF Entries

(* The rules of the agent can be in the chain.                             *)
LEMMA RulesAreEntries ==
    HiddenDrop \in Entries /\ \A r \in {"dns", "accept", "drop", "legacy"} : Rule(r) \in Entries
BY Zenon DEF Entries

(* A sequence after an element is appended.                                *)
LEMMA AppendHas ==
    ASSUME NEW c \in Seq(Entries), NEW y \in Entries
    PROVE  /\ Append(c, y) \in Seq(Entries)
           /\ \A x : Has(Append(c, y), x) <=> (Has(c, x) \/ x = y)
<1>1. /\ Append(c, y) \in Seq(Entries)
      /\ Len(Append(c, y)) = Len(c) + 1 /\ Append(c, y)[Len(c) + 1] = y
      /\ \A i \in 1..Len(c) : Append(c, y)[i] = c[i]
  BY SMT
<1>2. Len(c) \in Nat
  BY SeqFacts, Zenon
<1>. DEFINE a == Append(c, y)
<1>. HIDE DEF a
<1>3. 1..Len(a) = 1..Len(c) \cup {Len(c) + 1}
  BY <1>1, <1>2, SMT DEF a
<1>4. \A x : Has(a, x) <=> (Has(c, x) \/ x = y)
  BY <1>1, <1>3, Zenon DEF Has, a
<1>. QED
  BY <1>1, <1>4, Zenon DEF a

(* The empty chain.                                                        *)
LEMMA EmptyHas == <<>> \in Seq(Entries) /\ ~BareDrop(<<>>) /\ \A x : ~Has(<<>>, x)
<1>1. <<>> \in Seq(Entries) /\ Len(<<>>) = 0
  BY SeqFacts, Zenon
<1>2. 1..0 = {}
  BY SMT
<1>. QED
  BY <1>1, <1>2, Zenon DEF BareDrop, Has

(* A chain without DROP rules.                                             *)
LEMMA NoDropNotBare ==
    ASSUME NEW c \in Seq(Entries), ~Has(c, Rule("drop")), ~Has(c, HiddenDrop)
    PROVE  ~BareDrop(c)
<1>1. \A i \in 1..Len(c) : c[i] \in Entries
  BY SeqFacts, Zenon
<1>2. \A i \in 1..Len(c) : c[i].rule # "drop"
  BY <1>1, EntryFacts, Zenon DEF Has
<1>. QED
  BY <1>2, Zenon DEF BareDrop

(* A rule that is appended has all the others above it.                    *)
LEMMA AppendNotBare ==
    ASSUME NEW c \in Seq(Entries), NEW y \in Entries, ~BareDrop(c),
           y.rule = "drop" => Has(c, Rule("dns")) /\ Has(c, Rule("accept"))
    PROVE  ~BareDrop(Append(c, y))
<1>. DEFINE a == Append(c, y)
<1>1. /\ Len(a) = Len(c) + 1 /\ a[Len(c) + 1] = y
      /\ \A i \in 1..Len(c) : a[i] = c[i]
  BY SMT
<1>2. Len(c) \in Nat
  BY SeqFacts, Zenon
<1>. HIDE DEF a
<1>3. ASSUME NEW i \in 1..Len(a), a[i].rule = "drop", NEW r \in {"dns", "accept"}
      PROVE  \E j \in 1..(i - 1) : a[j].rule = r
  <2>1. CASE i \in 1..Len(c)
    <3>1. PICK j \in 1..(i - 1) : c[j].rule = r
      BY <1>1, <1>3, <2>1, Zenon DEF BareDrop
    <3>2. j \in 1..Len(c)
      BY <1>2, <2>1, SMT
    <3>. QED
      BY <1>1, <3>1, <3>2, Zenon
  <2>2. CASE i = Len(c) + 1
    <3>1. Has(c, Rule(r))
      BY <1>1, <1>3, <2>2, Zenon
    <3>2. PICK j \in 1..Len(c) : c[j] = Rule(r)
      BY <3>1, Zenon DEF Has
    <3>3. j \in 1..(i - 1)
      BY <1>2, <2>2, SMT
    <3>. QED
      BY <1>1, <3>2, <3>3, RuleFacts, Zenon
  <2>3. i \in 1..Len(c) \/ i = Len(c) + 1
    BY <1>1, <1>2, SMT
  <2>. QED
    BY <2>1, <2>2, <2>3, Zenon
<1>4. ~BareDrop(a)
  <2>. SUFFICES ASSUME NEW i \in 1..Len(a), a[i].rule = "drop", NEW r \in {"dns", "accept"},
                       \A j \in 1..(i - 1) : a[j].rule # r
                PROVE  FALSE
    BY Zenon DEF BareDrop
  <2>. QED
    BY <1>3, Zenon
<1>. QED
  BY <1>4, Zenon DEF a

(* Without the legacy rule, the others keep their order.                   *)
LEMMA LegacyNotBare ==
    ASSUME NEW c \in Seq(Entries), ~BareDrop(c)
    PROVE  ~BareDrop(Without(c, {Rule("legacy")}))
<1>. DEFINE w == Without(c, {Rule("legacy")})
<1>1. PICK h : Embeds(h, w, c, {Rule("legacy")})
  BY WithoutIsSubsequence, Zenon
<1>2. Len(c) \in Nat /\ w \in Seq(Entries)
  BY SeqFacts, WithoutIsSubsequence, Zenon
<1>3. Len(w) \in Nat
  BY <1>2, SeqFacts, Zenon
<1>. HIDE DEF w
<1>4. ASSUME NEW i \in 1..Len(w), w[i].rule = "drop", NEW r \in {"dns", "accept"}
      PROVE  \E j \in 1..(i - 1) : w[j].rule = r
  <2>1. h[i] \in 1..Len(c) /\ c[h[i]].rule = "drop"
    <3>1. h[i] \in 1..Len(c) /\ w[i] = c[h[i]]
      BY <1>1, Zenon DEF Embeds
    <3>. QED
      BY <1>4, <3>1, Zenon
  <2>2. PICK m \in 1..(h[i] - 1) : c[m].rule = r
    BY <2>1, Zenon DEF BareDrop
  <2>3. m \in 1..Len(c) /\ m < h[i]
    BY <1>2, <2>1, SMT
  <2>4. c[m] # Rule("legacy")
    BY <2>2, RuleFacts, Zenon
  <2>5. PICK j \in 1..Len(w) : h[j] = m
    BY <1>1, <2>3, <2>4, Zenon DEF Embeds
  <2>6. ~(i < j) /\ i # j
    <3>1. i < j => h[i] < m
      BY <1>1, <2>5, Zenon DEF Embeds
    <3>2. i = j => h[i] = m
      BY <2>5, Zenon
    <3>. QED
      BY <2>1, <2>3, <3>1, <3>2, SMT
  <2>7. j \in 1..(i - 1)
    BY <1>3, <2>6, SMT
  <2>8. w[j] = c[h[j]]
    BY <1>1, Zenon DEF Embeds
  <2>. QED
    BY <2>2, <2>5, <2>7, <2>8, Zenon
<1>5. ~BareDrop(w)
  <2>. SUFFICES ASSUME NEW i \in 1..Len(w), w[i].rule = "drop", NEW r \in {"dns", "accept"},
                       \A j \in 1..(i - 1) : w[j].rule # r
                PROVE  FALSE
    BY Zenon DEF BareDrop
  <2>. QED
    BY <1>4, Zenon
<1>. QED
  BY <1>5, Zenon DEF w

(* The rules that firewalld puts into the chain: DROP comes after the      *)
(* others, and with all the permanent rules there are all the rules.       *)
LEMMA RulesOfFacts ==
    ASSUME NEW p \in Seq(PermanentRules), Sorted(p)
    PROVE  /\ RulesOf(p) \in Seq(Entries)
           /\ ~Has(RulesOf(p), HiddenDrop) /\ ~Has(RulesOf(p), Rule("legacy"))
           /\ \A r \in Rules : Has(p, r) => Has(RulesOf(p), Rule(r))
           /\ (\A r \in Rules : Has(RulesOf(p), Rule(r))) => ~BareDrop(RulesOf(p))
<1>. DEFINE u == Without(p, Rules)
            a == [i \in 1..Len(u) |-> "dns"]
            b == Without(p, {"legacyDns"})
            d == a \o b
            c == RulesOf(p)
<1>1. u \in Seq(PermanentRules) /\ b \in Seq(PermanentRules)
  BY WithoutIsSubsequence, Zenon
<1>2. Len(u) \in Nat /\ Len(b) \in Nat
  BY <1>1, SeqFacts, Zenon
<1>3. \A x : Has(b, x) <=> (Has(p, x) /\ x # "legacyDns")
  <2>1. \A x : Has(b, x) <=> (Has(p, x) /\ x \notin {"legacyDns"})
    BY WithoutHas, Zenon
  <2>. QED
    BY <2>1, Zenon
<1>4. Sorted(b)
  BY WithoutSorted, Zenon
<1>. HIDE DEF u, b
<1>5. \A i \in 1..Len(b) : b[i] \in {"dns", "accept", "drop"}
  <2>1. \A i \in 1..Len(b) : b[i] \in PermanentRules /\ Has(b, b[i])
    BY <1>1, SeqFacts, Zenon DEF Has
  <2>. QED
    BY <1>3, <2>1, Zenon DEF PermanentRules
<1>6. a \in Seq(PermanentRules) /\ Len(a) = Len(u) /\ \A i \in 1..Len(u) : a[i] = "dns"
  BY <1>2, SMT DEF PermanentRules
<1>. HIDE DEF a
<1>7. /\ d \in Seq(PermanentRules) /\ Len(d) = Len(u) + Len(b)
      /\ \A i \in 1..(Len(u) + Len(b)) : d[i] = IF i <= Len(u) THEN a[i] ELSE b[i - Len(u)]
  <2>1. /\ d \in Seq(PermanentRules) /\ Len(d) = Len(a) + Len(b)
        /\ \A i \in 1..(Len(a) + Len(b)) : d[i] = IF i <= Len(a) THEN a[i] ELSE b[i - Len(a)]
    <3>1. a \in Seq(PermanentRules) /\ b \in Seq(PermanentRules)
      BY <1>1, <1>6, Zenon
    <3>. QED
      BY <3>1, SeqFacts
  <2>. HIDE DEF d
  <2>. QED
    BY <1>6, <2>1, Zenon
<1>. HIDE DEF d
<1>8. c = [i \in 1..Len(d) |-> Rule(d[i])]
  BY Zenon DEF RulesOf, ChainOf, u, a, b, d
<1>. HIDE DEF c
<1>9. \A i \in 1..Len(d) : \/ i \in 1..Len(u) /\ d[i] = "dns"
                           \/ i - Len(u) \in 1..Len(b) /\ d[i] = b[i - Len(u)]
  BY <1>2, <1>6, <1>7, SMT
<1>10. \A i \in 1..Len(b) : i + Len(u) \in 1..Len(d) /\ d[i + Len(u)] = b[i]
  <2>1. ASSUME NEW i \in 1..Len(b) PROVE i + Len(u) \in 1..Len(d) /\ d[i + Len(u)] = b[i]
    <3>. DEFINE j == i + Len(u)
    <3>1. j \in 1..(Len(u) + Len(b)) /\ ~(j <= Len(u)) /\ j - Len(u) = i
      BY <1>2, SMT
    <3>. HIDE DEF j
    <3>2. j \in 1..Len(d) /\ d[j] = b[j - Len(u)]
      BY <1>7, <3>1, Zenon
    <3>. QED
      BY <3>1, <3>2, Zenon DEF j
  <2>. QED
    BY <2>1, Zenon
<1>11. \A i \in 1..Len(d) : d[i] \in {"dns", "accept", "drop"}
  BY <1>5, <1>9, Zenon
<1>12. Len(d) \in Nat
  BY <1>7, SeqFacts, Zenon
<1>13. c \in Seq(Entries) /\ Len(c) = Len(d) /\ \A i \in 1..Len(d) : c[i] = Rule(d[i])
  <2>1. \A i \in 1..Len(d) : Rule(d[i]) \in Entries
    BY <1>11, RulesAreEntries, Zenon
  <2>. QED
    BY <1>8, <1>12, <2>1, SMT
<1>14. ~Has(c, HiddenDrop) /\ ~Has(c, Rule("legacy"))
  <2>1. \A x \in {"dns", "accept", "drop"} : Rule(x) # HiddenDrop /\ Rule(x) # Rule("legacy")
    BY RuleFacts, Zenon
  <2>2. \A i \in 1..Len(c) : c[i] # HiddenDrop /\ c[i] # Rule("legacy")
    BY <1>11, <1>13, <2>1, Zenon
  <2>. QED
    BY <2>2, Zenon DEF Has
<1>15. ASSUME NEW r \in Rules, Has(p, r) PROVE Has(c, Rule(r))
  <2>1. Has(b, r)
    BY <1>3, <1>15, CommandFacts, Zenon
  <2>2. PICK i \in 1..Len(b) : b[i] = r
    BY <2>1, Zenon DEF Has
  <2>. QED
    BY <1>10, <1>13, <2>2, Zenon DEF Has
<1>16. ASSUME \A r \in Rules : Has(c, Rule(r)),
              NEW i \in 1..Len(c), c[i].rule = "drop", NEW r \in {"dns", "accept"}
       PROVE  \E j \in 1..(i - 1) : c[j].rule = r
  <2>1. PICK j \in 1..Len(c) : c[j] = Rule(r)
    BY <1>16, CommandFacts, Zenon DEF Has
  <2>2. d[i] = "drop" /\ d[j] = r /\ i \in 1..Len(d) /\ j \in 1..Len(d)
    <3>1. i \in 1..Len(d) /\ j \in 1..Len(d) /\ c[i] = Rule(d[i]) /\ c[j] = Rule(d[j])
      BY <1>13, Zenon
    <3>2. Rule(d[i]).rule = d[i] /\ Rule(d[j]).rule = d[j] /\ Rule(r).rule = r
      BY RuleFacts, Zenon
    <3>. QED
      BY <1>16, <2>1, <3>1, <3>2, Zenon
  <2>3. i # j
    BY <2>2, Zenon
  <2>4. i - Len(u) \in 1..Len(b) /\ b[i - Len(u)] = "drop"
    BY <1>9, <2>2, Zenon
  <2>5. ~(i < j)
    <3>. SUFFICES ASSUME i < j PROVE FALSE
      OBVIOUS
    <3>1. j \notin 1..Len(u)
      BY <1>2, <2>2, <2>4, SMT
    <3>2. j - Len(u) \in 1..Len(b) /\ b[j - Len(u)] = r
      BY <1>9, <2>2, <3>1, Zenon
    <3>3. i - Len(u) < j - Len(u)
      BY <1>2, <1>12, <2>2, SMT
    <3>. QED
      BY <1>4, <2>4, <3>2, <3>3, Zenon DEF Sorted
  <2>6. j \in 1..(i - 1)
    BY <1>12, <2>2, <2>3, <2>5, SMT
  <2>. QED
    BY <2>1, <2>6, RuleFacts, Zenon
<1>17. (\A r \in Rules : Has(c, Rule(r))) => ~BareDrop(c)
  <2>. SUFFICES ASSUME \A r \in Rules : Has(c, Rule(r)),
                       NEW i \in 1..Len(c), c[i].rule = "drop", NEW r \in {"dns", "accept"},
                       \A j \in 1..(i - 1) : c[j].rule # r
                PROVE  FALSE
    BY Zenon DEF BareDrop
  <2>. QED
    BY <1>16, Zenon
<1>. QED
  BY <1>13, <1>14, <1>15, <1>17, Zenon DEF c

(* The permanent rules after the ones of firewalld's list are added to a   *)
(* configuration that has none of them.                                    *)
LEMMA AddedFacts ==
    ASSUME NEW q \in Seq(PermanentRules), \A r \in Rules : ~Has(q, r), NEW n \in 0..3
    PROVE  /\ q \o SubSeq(Commands, 1, n) \in Seq(PermanentRules)
           /\ Sorted(q \o SubSeq(Commands, 1, n))
           /\ n = 3 => \A r \in Rules : Has(q \o SubSeq(Commands, 1, n), r)
<1>. DEFINE s == SubSeq(Commands, 1, n)
            d == q \o s
<1>1. /\ s \in Seq(PermanentRules) /\ Len(s) = n
      /\ \A i \in 1..n : s[i] = Commands[i]
  <2>1. \A i \in 1..n : Commands[i] \in PermanentRules
    BY CommandFacts, SMT DEF PermanentRules
  <2>2. /\ s \in Seq(PermanentRules) /\ Len(s) = IF 1 <= n THEN n - 1 + 1 ELSE 0
        /\ \A i \in 1..(n - 1 + 1) : s[i] = Commands[1 + i - 1]
    BY <2>1, SMT
  <2>. HIDE DEF s
  <2>. QED
    BY <2>2, SMT
<1>. HIDE DEF s
<1>2. Len(q) \in Nat /\ \A i \in 1..Len(q) : q[i] \in PermanentRules
  BY SeqFacts, Zenon
<1>3. \A i \in 1..Len(q) : q[i] = "legacyDns"
  <2>1. \A i \in 1..Len(q) : Has(q, q[i])
    BY Zenon DEF Has
  <2>. QED
    BY <1>2, <2>1, CommandFacts, Zenon DEF PermanentRules
<1>4. /\ d \in Seq(PermanentRules) /\ Len(d) = Len(q) + n
      /\ \A i \in 1..(Len(q) + n) : d[i] = IF i <= Len(q) THEN q[i] ELSE s[i - Len(q)]
  <2>1. /\ q \o s \in Seq(PermanentRules) /\ Len(q \o s) = Len(q) + Len(s)
        /\ \A i \in 1..(Len(q) + Len(s)) : (q \o s)[i] = IF i <= Len(q) THEN q[i] ELSE s[i - Len(q)]
    BY <1>1, SMT
  <2>. HIDE DEF d
  <2>2. d = q \o s
    BY Zenon DEF d
  <2>. QED
    BY <1>1, <2>1, <2>2, Zenon
<1>. HIDE DEF d
<1>5. \A i \in 1..Len(d) : \/ i <= Len(q) /\ d[i] = "legacyDns"
                           \/ i = Len(q) + 1 /\ d[i] = "dns"
                           \/ i = Len(q) + 2 /\ d[i] = "accept"
                           \/ i = Len(q) + 3 /\ d[i] = "drop"
  <2>. SUFFICES ASSUME NEW i \in 1..Len(d)
                PROVE  \/ i <= Len(q) /\ d[i] = "legacyDns"
                       \/ i = Len(q) + 1 /\ d[i] = "dns"
                       \/ i = Len(q) + 2 /\ d[i] = "accept"
                       \/ i = Len(q) + 3 /\ d[i] = "drop"
    BY Zenon
  <2>1. \/ i <= Len(q) /\ i \in 1..Len(q) /\ d[i] = q[i]
        \/ i - Len(q) \in 1..n /\ d[i] = s[i - Len(q)]
    BY <1>2, <1>4, SMT
  <2>2. \A j \in 1..n : (j = 1 /\ s[j] = "dns") \/ (j = 2 /\ s[j] = "accept") \/ (j = 3 /\ s[j] = "drop")
    BY <1>1, CommandFacts, SMT
  <2>3. \A j \in {1, 2, 3} : i - Len(q) = j => i = Len(q) + j
    BY <1>2, SMT
  <2>. QED
    BY <1>3, <2>1, <2>2, <2>3, Zenon
<1>6. Sorted(d)
  BY <1>2, <1>4, <1>5, SMT DEF Sorted
<1>7. n = 3 => \A r \in Rules : Has(d, r)
  <2>1. n = 3 => \A j \in {1, 2, 3} : Len(q) + j \in 1..Len(d) /\ d[Len(q) + j] = Commands[j]
    BY <1>1, <1>2, <1>4, SMT
  <2>. QED
    BY <2>1, CommandFacts, Zenon DEF Has
<1>. QED
  BY <1>4, <1>6, <1>7, Zenon DEF d, s

Ordered ==
    /\ chain \in Seq(Entries) /\ (Has(chain, Rule("drop")) \/ Has(chain, HiddenDrop))
    /\ ~BareDrop(chain) /\ ~Has(chain, Rule("legacy"))
NftOnly == chain \in Seq(Entries) /\ ~Has(chain, Rule("drop")) /\ ~Has(chain, HiddenDrop) /\ nft = "ok"

(* What the kernel does with rules that are in order.                      *)
LEMMA OrderedRulesProtect == Ordered => Protects
<1>. SUFFICES ASSUME chain \in Seq(Entries), Has(chain, Rule("drop")) \/ Has(chain, HiddenDrop),
                     ~BareDrop(chain), ~Has(chain, Rule("legacy"))
              PROVE  Protects
  BY Zenon DEF Ordered
<1>1. \A i \in 1..Len(chain) : chain[i] \in Entries
  BY SeqFacts, Zenon
<1>2. Len(chain) \in Nat
  BY SeqFacts, Zenon
<1>. DEFINE T == {i \in 1..Len(chain) : chain[i].rule = "drop"}
<1>3. T # {} /\ \A i \in T : i \in Nat
  <2>1. PICK i \in 1..Len(chain) : chain[i] \in {Rule("drop"), HiddenDrop}
    BY Zenon DEF Has
  <2>2. chain[i].rule = "drop"
    BY <2>1, RuleFacts, Zenon
  <2>. QED
    BY <1>2, <2>2, SMT
<1>4. PICK i \in T : \A j \in T : i <= j
  BY <1>3, LeastElement, Zenon
<1>5. ASSUME NEW j \in 1..(i - 1) PROVE ~Matches(chain[j].rule, "user")
  <2>1. j \in 1..Len(chain) /\ ~(i <= j)
    BY <1>2, <1>3, SMT
  <2>2. chain[j].rule # "drop"
    BY <1>4, <2>1, Zenon
  <2>3. chain[j].rule # "legacy"
    <3>1. chain[j] \in Entries /\ Has(chain, chain[j])
      BY <1>1, <2>1, Zenon DEF Has
    <3>2. chain[j].rule = "legacy" => chain[j] = Rule("legacy")
      BY <3>1, EntryFacts, Zenon
    <3>. QED
      BY <3>1, <3>2, Zenon
  <2>. QED
    BY <2>2, <2>3, Zenon DEF Matches
<1>6. Dropped("user")
  BY <1>5, Zenon DEF Dropped
<1>7. ~Dropped("agent") /\ ~Dropped("dns")
  BY Zenon DEF Dropped, Matches, BareDrop
<1>. QED
  BY <1>6, <1>7, Zenon DEF Protects, LoneDrop

(* The table of nft protects when the chain drops nothing.                 *)
LEMMA NftProtects == NftOnly => Protects
<1>. SUFFICES ASSUME chain \in Seq(Entries), ~Has(chain, Rule("drop")), ~Has(chain, HiddenDrop), nft = "ok"
              PROVE  Protects
  BY Zenon DEF NftOnly
<1>1. \A i \in 1..Len(chain) : chain[i] \in Entries
  BY SeqFacts, Zenon
<1>2. \A i \in 1..Len(chain) : chain[i].rule # "drop"
  BY <1>1, EntryFacts, Zenon DEF Has
<1>. QED
  BY <1>2, Zenon DEF Protects, LoneDrop, Dropped

(***************************************************************************)
(* The inductive invariant.                                                *)
(***************************************************************************)
FirewallOps ==
    [op : {"idle", "legacy", "check", "remove", "setup", "persist"}, k : 1..4, missing : SUBSET Rules]
States == {"OK", "NotSet", "Invalid", "Inconsistent", "Unknown"}
Managers == {"none", "iptables", "nft"}
EnableFirewallType ==
    [state : States, manager : Managers, reports : Nat, period : Nat, should : BOOLEAN]

(* Which operations a program runs, and when the environment thread has a  *)
(* manager.                                                                *)
Staged ==
    /\ stage \in {"boot", "starting", "init", "running"}
    /\ run \in FirewallOps
    /\ env \in EnableFirewallType
    /\ stage = "boot" => run.op \in {"idle", "setup"}
    /\ stage = "starting" => run.op = "idle"
    /\ stage = "init" => run.op \in {"legacy", "check", "setup", "persist"}
    /\ stage = "running" => run.op \in {"idle", "check", "remove", "setup"}
    /\ stage # "running" => env.manager = "none"
    /\ env.manager \in {"none", Manager}
    /\ run.op \in {"remove", "setup"} => run.k \in 1..3
    /\ Manager = "none" => run.op = "idle"

(* The rules on disk are in order, and only iptables creates DROP rules.   *)
Listing ==
    /\ chain \in Seq(Entries)
    /\ permanent \in Seq(PermanentRules) /\ Sorted(permanent)
    /\ nft \in {"absent", "ok", "bad"}
    /\ Manager # "iptables" => ~Has(chain, Rule("drop")) /\ ~Has(chain, HiddenDrop)

(* No DROP rule is above the rules that accept, but for the exceptions of  *)
(* OkMeansProtected.                                                       *)
Covered == raced \/ Has(chain, HiddenDrop) \/ ~BareDrop(chain)

AllExist == \A r \in Rules : Has(chain, Rule(r))

(* A bare DROP rule comes with a missing rule, and then the next check     *)
(* sends the environment thread to remove() before it appends.  From the   *)
(* check that misses DROP to the end of setup there is no bare DROP rule.  *)
InOrder ==
    Manager = "iptables" =>
        /\ AllExist => Covered
        /\ run.op = "setup" => Covered
        /\ run.op = "check" /\ "drop" \in run.missing => Covered

(* While nobody else changes the rules, what was found is still there and  *)
(* what was appended too; so it is when the operation ends.                *)
Found ==
    /\ Manager = "iptables" /\ clean /\ run.op = "check" =>
        \A j \in 1..(run.k - 1) : Commands[j] \in run.missing \/ Has(chain, Rule(Commands[j]))
    /\ Manager = "iptables" /\ clean /\ run.op = "setup" =>
        \A j \in 1..(run.k - 1) : Has(chain, Rule(Commands[j]))
    /\ Manager = "nft" /\ run.op = "setup" => nft = "absent"
    /\ stage = "running" /\ run.op = "idle" /\ env.manager # "none" /\ env.state = "OK" /\ clean =>
        /\ Manager = "iptables" => Has(chain, HiddenDrop) \/ AllExist
        /\ Manager = "nft" => nft = "ok"

(* What the last initialization persisted.                                 *)
Kept ==
    /\ persisted = "firewalld" => Manager # "nft" /\ \A r \in Rules : Has(permanent, r)
    /\ persisted = "service" => service.binary /\ service.unit # "none" /\ service.enabled

(* The boot: firewalld has applied its permanent rules, and network-setup  *)
(* starts with an empty chain.  One of the two has the rules once they are *)
(* persisted.                                                              *)
Booting ==
    /\ stage = "boot" => nft = "absent"
    /\ stage = "boot" /\ firewalld => firewalldEnabled
    /\ stage = "boot" /\ run.op = "idle" /\ Manager = "iptables" /\ ~firewalld => chain = <<>>
    /\ stage = "boot" /\ run.op = "idle" /\ clean => chain = FirewalldChain
    /\ stage = "boot" /\ run.op = "setup" /\ Manager = "iptables" /\ clean =>
        ~Has(chain, Rule("drop")) /\ ~Has(chain, HiddenDrop) /\ ~Has(chain, Rule("legacy"))
    /\ Kept

FirewallInv == Staged /\ Listing /\ InOrder /\ Found /\ Booting /\ PersistedRulesSurviveReboot

(***************************************************************************)
(* The operators of the model.                                             *)
(***************************************************************************)
LEMMA RunFacts ==
    /\ Idle \in FirewallOps /\ Idle.op = "idle" /\ Idle.k = 1 /\ Idle.missing = {}
    /\ \A o \in {"legacy", "check", "remove", "setup", "persist"} :
        At(o) \in FirewallOps /\ At(o).op = o /\ At(o).k = 1 /\ At(o).missing = {}
BY SMT DEF Idle, At, FirewallOps

(* One field of EnableFirewall at a time.                                  *)
LEMMA FieldFacts ==
    ASSUME NEW e \in EnableFirewallType
    PROVE  /\ \A x \in States :
                /\ [e EXCEPT !.state = x] \in EnableFirewallType
                /\ [e EXCEPT !.state = x].manager = e.manager /\ [e EXCEPT !.state = x].state = x
           /\ \A x \in Nat :
                /\ [e EXCEPT !.reports = x] \in EnableFirewallType
                /\ [e EXCEPT !.reports = x].manager = e.manager /\ [e EXCEPT !.reports = x].state = e.state
           /\ \A x \in Nat :
                /\ [e EXCEPT !.period = x] \in EnableFirewallType
                /\ [e EXCEPT !.period = x].manager = e.manager /\ [e EXCEPT !.period = x].state = e.state
           /\ \A x \in BOOLEAN :
                /\ [e EXCEPT !.should = x] \in EnableFirewallType
                /\ [e EXCEPT !.should = x].manager = e.manager /\ [e EXCEPT !.should = x].state = e.state
<1>1. ASSUME NEW x \in States
      PROVE  /\ [e EXCEPT !.state = x] \in EnableFirewallType
             /\ [e EXCEPT !.state = x].manager = e.manager /\ [e EXCEPT !.state = x].state = x
  BY SMT DEF EnableFirewallType
<1>2. ASSUME NEW x \in Nat
      PROVE  /\ [e EXCEPT !.reports = x] \in EnableFirewallType
             /\ [e EXCEPT !.reports = x].manager = e.manager /\ [e EXCEPT !.reports = x].state = e.state
  BY SMT DEF EnableFirewallType
<1>3. ASSUME NEW x \in Nat
      PROVE  /\ [e EXCEPT !.period = x] \in EnableFirewallType
             /\ [e EXCEPT !.period = x].manager = e.manager /\ [e EXCEPT !.period = x].state = e.state
  BY SMT DEF EnableFirewallType
<1>4. ASSUME NEW x \in BOOLEAN
      PROVE  /\ [e EXCEPT !.should = x] \in EnableFirewallType
             /\ [e EXCEPT !.should = x].manager = e.manager /\ [e EXCEPT !.should = x].state = e.state
  BY SMT DEF EnableFirewallType
<1>. QED
  BY <1>1, <1>2, <1>3, <1>4, Zenon

(* What the updates of EnableFirewall leave alone.                         *)
LEMMA EnvFacts ==
    ASSUME NEW e \in EnableFirewallType
    PROVE  /\ \A s \in States :
                /\ UpdateFirewallState(e, s) \in EnableFirewallType
                /\ UpdateFirewallState(e, s).manager = e.manager
                /\ UpdateFirewallState(e, s).state = s
           /\ EndOperation(e) \in EnableFirewallType
           /\ EndOperation(e).manager = e.manager /\ EndOperation(e).state = e.state
           /\ \A b \in BOOLEAN :
                /\ UpdateReportingState(e, b) \in EnableFirewallType
                /\ UpdateReportingState(e, b).manager = e.manager
           /\ \A m \in Managers :
                [e EXCEPT !.manager = m] \in EnableFirewallType /\ [e EXCEPT !.manager = m].manager = m
<1>1. ASSUME NEW s \in States
      PROVE  /\ UpdateFirewallState(e, s) \in EnableFirewallType
             /\ UpdateFirewallState(e, s).manager = e.manager
             /\ UpdateFirewallState(e, s).state = s
  <2>. DEFINE resume == (e.state = "OK") # (s = "OK") /\ e.period < MaxReportsPerPeriod
              a == IF resume THEN 0 ELSE e.reports
              b == e.should \/ resume
  <2>1. a \in Nat /\ b \in BOOLEAN
    BY SMT DEF EnableFirewallType
  <2>. DEFINE f == [e EXCEPT !.state = s]
              g == [f EXCEPT !.reports = a]
  <2>2. UpdateFirewallState(e, s) = [g EXCEPT !.should = b]
    BY Zenon DEF UpdateFirewallState
  <2>. HIDE DEF a, b
  <2>3. f \in EnableFirewallType /\ f.manager = e.manager /\ f.state = s
    BY FieldFacts, Zenon
  <2>. HIDE DEF f
  <2>4. g \in EnableFirewallType /\ g.manager = e.manager /\ g.state = s
    BY <2>1, <2>3, FieldFacts, Zenon
  <2>. HIDE DEF g
  <2>. DEFINE h == [g EXCEPT !.should = b]
  <2>5. h \in EnableFirewallType /\ h.manager = g.manager /\ h.state = g.state
    BY <2>1, <2>4, FieldFacts, Zenon
  <2>. HIDE DEF h
  <2>6. UpdateFirewallState(e, s) = h
    BY <2>2, Zenon DEF h
  <2>. QED
    BY <2>4, <2>5, <2>6, Zenon
<1>2. /\ EndOperation(e) \in EnableFirewallType
      /\ EndOperation(e).manager = e.manager /\ EndOperation(e).state = e.state
  <2>. DEFINE a == e.reports + 1
              b == e.period + 1
              f == [e EXCEPT !.reports = a]
              g == [f EXCEPT !.period = b]
  <2>1. EndOperation(e) = IF e.should THEN g ELSE e
    BY Zenon DEF EndOperation
  <2>2. a \in Nat /\ b \in Nat
    BY SMT DEF EnableFirewallType
  <2>. HIDE DEF a, b
  <2>3. f \in EnableFirewallType /\ f.manager = e.manager /\ f.state = e.state
    BY <2>2, FieldFacts, Zenon
  <2>. HIDE DEF f
  <2>4. g \in EnableFirewallType /\ g.manager = e.manager /\ g.state = e.state
    BY <2>2, <2>3, FieldFacts, Zenon
  <2>. HIDE DEF g
  <2>. QED
    BY <2>1, <2>4, Zenon
<1>3. ASSUME NEW b \in BOOLEAN
      PROVE  /\ UpdateReportingState(e, b) \in EnableFirewallType
             /\ UpdateReportingState(e, b).manager = e.manager
  <2>. DEFINE r == IF b THEN 0 ELSE e.reports
              p == IF b THEN 0 ELSE e.period
              max == IF e.state = "OK" THEN MaxReportsWhenOk ELSE MaxReportsWhenNotOk
              should == r < max /\ p < MaxReportsPerPeriod
  <2>1. r \in Nat /\ p \in Nat
    BY SMT DEF EnableFirewallType
  <2>. DEFINE f == [e EXCEPT !.reports = r]
              g == [f EXCEPT !.period = p]
  <2>2. UpdateReportingState(e, b) = [g EXCEPT !.should = should]
    BY Zenon DEF UpdateReportingState
  <2>3. should \in BOOLEAN
    BY Zenon
  <2>. HIDE DEF r, p, should
  <2>4. f \in EnableFirewallType /\ f.manager = e.manager /\ f.state = e.state
    BY <2>1, FieldFacts, Zenon
  <2>. HIDE DEF f
  <2>5. g \in EnableFirewallType /\ g.manager = e.manager /\ g.state = e.state
    BY <2>1, <2>4, FieldFacts, Zenon
  <2>. HIDE DEF g
  <2>. DEFINE h == [g EXCEPT !.should = should]
  <2>6. h \in EnableFirewallType /\ h.manager = g.manager
    BY <2>3, <2>5, FieldFacts, Zenon
  <2>. HIDE DEF h
  <2>7. UpdateReportingState(e, b) = h
    BY <2>2, Zenon DEF h
  <2>. QED
    BY <2>5, <2>6, <2>7, Zenon
<1>4. ASSUME NEW m \in Managers
      PROVE  [e EXCEPT !.manager = m] \in EnableFirewallType /\ [e EXCEPT !.manager = m].manager = m
  BY SMT DEF EnableFirewallType
<1>. QED
  BY <1>1, <1>2, <1>3, <1>4, Zenon

(* The manager that FirewallManager.create chooses; with iptables it       *)
(* leaves the chain alone.                                                 *)
LEMMA ManagerFacts ==
    /\ Manager \in {"none", "iptables", "nft"}
    /\ Manager = "iptables" => CreateChains = {chain}
    /\ Manager # "iptables" => FirewalldChain = <<>>
    /\ Manager = "iptables" => platform.iptables
<1>1. Manager \in {"none", "iptables", "nft"} /\ (Manager = "iptables" => platform.iptables)
  BY Zenon DEF Manager
<1>2. Manager = "iptables" => CreateChains = {chain}
  BY Zenon DEF Manager, CreateChains, UnresolvedModules
<1>3. Manager # "iptables" => FirewalldChain = <<>>
  BY Zenon DEF Manager, FirewalldChain, UnresolvedModules
<1>. QED
  BY <1>1, <1>2, <1>3, Zenon

(* The rules that are left when the manager is created.                    *)
LEMMA CreateChainsFacts ==
    ASSUME chain \in Seq(Entries), NEW c \in CreateChains
    PROVE  c \in Seq(Entries) /\ \A x : Has(c, x) => Has(chain, x)
<1>1. c = chain \/ \E D : c = Without(chain, D)
  BY Zenon DEF CreateChains
<1>2. CASE \E D : c = Without(chain, D)
  <2>1. PICK D : c = Without(chain, D)
    BY <1>2, Zenon
  <2>. QED
    BY <2>1, WithoutIsSubsequence, WithoutHas, Zenon
<1>. QED
  BY <1>1, <1>2, Zenon

(* What firewalld puts into the chain, when it does at all: if it has all  *)
(* the rules, they are in order.                                           *)
LEMMA FirewalldChainFacts ==
    ASSUME permanent \in Seq(PermanentRules), Sorted(permanent)
    PROVE  /\ FirewalldChain \in Seq(Entries)
           /\ ~Has(FirewalldChain, HiddenDrop) /\ ~Has(FirewalldChain, Rule("legacy"))
           /\ (\A r \in Rules : Has(FirewalldChain, Rule(r))) => ~BareDrop(FirewalldChain)
<1>1. CASE FirewalldChain = <<>>
  BY <1>1, EmptyHas, Zenon
<1>2. CASE FirewalldChain = RulesOf(permanent)
  BY <1>2, RulesOfFacts, Zenon
<1>. QED
  BY <1>1, <1>2, Zenon DEF FirewalldChain

(* The rules that are left after others have changed the chain.            *)
LEMMA TamperedFacts ==
    ASSUME permanent \in Seq(PermanentRules), Sorted(permanent), chain \in Seq(Entries),
           NEW c \in Tampered
    PROVE  /\ c \in Seq(Entries)
           /\ \/ c = FirewalldChain
              \/ /\ \A x : Has(c, x) => Has(chain, x)
                 /\ \E r \in Rules : ~Has(c, Rule(r))
              
<1>1. CASE c = <<>>
  BY <1>1, EmptyHas, CommandFacts, Zenon
<1>2. CASE c = FirewalldChain
  BY <1>2, FirewalldChainFacts, Zenon
<1>3. ASSUME NEW r \in Rules, c = Without(chain, [rule : {r}, hidden : BOOLEAN])
      PROVE  /\ c \in Seq(Entries) /\ ~Has(c, Rule(r)) 
             /\ \A x : Has(c, x) => Has(chain, x)
  <2>1. Rule(r) \in [rule : {r}, hidden : BOOLEAN]
    BY SMT DEF Rule
  <2>. DEFINE D == [rule : {r}, hidden : BOOLEAN]
  <2>. HIDE DEF D
  <2>2. c = Without(chain, D) /\ Rule(r) \in D
    BY <1>3, <2>1, Zenon DEF D
  <2>3. c \in Seq(Entries)
    BY <2>2, WithoutIsSubsequence, Zenon
  <2>4. \A x : Has(c, x) <=> (Has(chain, x) /\ x \notin D)
    BY <2>2, WithoutHas, Zenon
  <2>. QED
    BY <2>2, <2>3, <2>4, Zenon
<1>. QED
  BY <1>1, <1>2, <1>3, Zenon DEF Tampered

(* How an operation ends.                                                  *)
LEMMA RaiseFacts ==
    ASSUME Staged, run.op # "idle", Raise
    PROVE  /\ run' = Idle /\ clean' = FALSE
           /\ stage' = IF stage = "boot" THEN "starting" ELSE "running"
           /\ env' \in EnableFirewallType /\ env'.manager = env.manager
<1>1. stage \in {"boot", "init", "running"}
  BY Zenon DEF Staged
<1>2. env \in EnableFirewallType
  BY Zenon DEF Staged
<1>3. CASE stage = "boot"
  BY <1>2, <1>3, SMT DEF Raise
<1>4. CASE stage = "init"
  BY <1>2, <1>4, SMT DEF Raise
<1>5. CASE stage = "running"
  <2>1. run' = Idle /\ clean' = FALSE /\ stage' = stage /\ env' = EndOperation(UpdateFirewallState(env, "Unknown"))
    BY <1>5, SMT DEF Raise
  <2>2. UpdateFirewallState(env, "Unknown") \in EnableFirewallType
        /\ UpdateFirewallState(env, "Unknown").manager = env.manager
    BY <1>2, EnvFacts, Zenon DEF States
  <2>3. env' \in EnableFirewallType /\ env'.manager = env.manager
    BY <2>1, <2>2, EnvFacts, Zenon
  <2>. QED
    BY <1>5, <2>1, <2>3, Zenon
<1>. QED
  BY <1>1, <1>3, <1>4, <1>5, Zenon

(* How an operation that succeeded ends.                                   *)
LEMMA CompleteFacts ==
    ASSUME Staged, run.op # "idle", Complete
    PROVE  /\ env' \in EnableFirewallType /\ env'.manager = env.manager
           /\ \/ stage = "boot" /\ run' = Idle /\ stage' = "starting"
              \/ stage = "init" /\ run' = At("persist") /\ stage' = "init"
              \/ stage = "running" /\ run' = Idle /\ stage' = "running"
<1>1. stage \in {"boot", "init", "running"}
  BY Zenon DEF Staged
<1>2. env \in EnableFirewallType
  BY Zenon DEF Staged
<1>3. CASE stage = "boot"
  BY <1>2, <1>3, SMT DEF Complete
<1>4. CASE stage = "init"
  BY <1>2, <1>4, SMT DEF Complete
<1>5. CASE stage = "running"
  <2>1. run' = Idle /\ stage' = stage /\ env' = EndOperation(UpdateFirewallState(env, "OK"))
    BY <1>5, SMT DEF Complete
  <2>2. UpdateFirewallState(env, "OK") \in EnableFirewallType
        /\ UpdateFirewallState(env, "OK").manager = env.manager
    BY <1>2, EnvFacts, Zenon DEF States
  <2>3. env' \in EnableFirewallType /\ env'.manager = env.manager
    BY <2>1, <2>2, EnvFacts, Zenon
  <2>. QED
    BY <1>5, <2>1, <2>3, Zenon
<1>. QED
  BY <1>1, <1>3, <1>4, <1>5, Zenon

(* How a check ends.                                                       *)
LEMMA CheckDoneFacts ==
    ASSUME Staged, nft \in {"absent", "ok", "bad"}, CheckDone
    PROVE  /\ env' \in EnableFirewallType /\ env'.manager = env.manager
           /\ \/ CheckResult = "OK" /\ Complete /\ clean' = clean
              \/ CheckResult = "NotSet" /\ run' = At("setup") /\ stage' = stage /\ clean' = clean
              \/ CheckResult = "Inconsistent" /\ stage' = stage
                    /\ \/ stage = "running" /\ run' = Idle /\ env'.state = "Inconsistent"
                       \/ stage # "running" /\ run' = At("persist")
              \/ CheckResult = "Invalid" /\ stage' = stage
                    /\ \/ stage = "running" /\ run' = At("remove")
                       \/ stage # "running" /\ run' = At("persist")
              \/ Raise
<1>1. env \in EnableFirewallType /\ run.op = "check"
  BY Zenon DEF Staged, CheckDone
<1>. DEFINE e == UpdateFirewallState(env, CheckResult)
<1>2. CheckResult \in {"OK", "NotSet", "Inconsistent", "Invalid"}
  <2>1. NftCheck \in {"OK", "NotSet", "Invalid"}
    BY SMT DEF NftCheck
  <2>. QED
    BY <2>1, Zenon DEF CheckResult
<1>3. e \in EnableFirewallType /\ e.manager = env.manager /\ e.state = CheckResult
      /\ EndOperation(e) \in EnableFirewallType /\ EndOperation(e).manager = env.manager
      /\ EndOperation(e).state = CheckResult
  <2>1. e \in EnableFirewallType /\ e.manager = env.manager /\ e.state = CheckResult
    <3>1. CheckResult \in States
      BY <1>2, Zenon DEF States
    <3>. QED
      BY <1>1, <3>1, EnvFacts, Zenon
  <2>. HIDE DEF e
  <2>. QED
    BY <2>1, EnvFacts, Zenon
<1>4. CASE Raise
  BY <1>1, <1>4, RaiseFacts, Zenon
<1>5. CASE ~Raise
  <2>1. /\ clean' = clean
        /\ CASE CheckResult = "OK" -> Complete
               [] CheckResult = "NotSet" ->
                    /\ run' = At("setup") /\ stage' = stage
                    /\ env' = IF stage = "running" THEN e ELSE env
               [] CheckResult = "Inconsistent" ->
                    /\ run' = IF stage = "running" THEN Idle ELSE At("persist")
                    /\ env' = IF stage = "running" THEN EndOperation(e) ELSE env
                    /\ stage' = stage
               [] CheckResult = "Invalid" ->
                    /\ run' = IF stage = "running" THEN At("remove") ELSE At("persist")
                    /\ env' = IF stage = "running" THEN e ELSE env
                    /\ stage' = stage
    BY <1>5, Zenon DEF CheckDone
  <2>. HIDE DEF e
  <2>2. CASE CheckResult = "OK"
    <3>1. Complete
      BY <2>1, <2>2, SMT
    <3>. QED
      BY <1>1, <2>1, <2>2, <3>1, CompleteFacts, Zenon
  <2>3. CASE CheckResult = "NotSet"
    <3>1. run' = At("setup") /\ stage' = stage /\ env' = IF stage = "running" THEN e ELSE env
      BY <2>1, <2>3, SMT
    <3>. QED
      BY <1>1, <1>3, <2>1, <2>3, <3>1, Zenon
  <2>4. CASE CheckResult = "Inconsistent"
    <3>1. /\ run' = IF stage = "running" THEN Idle ELSE At("persist")
          /\ env' = IF stage = "running" THEN EndOperation(e) ELSE env
          /\ stage' = stage
      BY <2>1, <2>4, SMT
    <3>. QED
      BY <1>1, <1>3, <2>4, <3>1, Zenon
  <2>5. CASE CheckResult = "Invalid"
    <3>1. /\ run' = IF stage = "running" THEN At("remove") ELSE At("persist")
          /\ env' = IF stage = "running" THEN e ELSE env
          /\ stage' = stage
      BY <2>1, <2>5, SMT
    <3>. QED
      BY <1>1, <1>3, <2>5, <3>1, Zenon
  <2>. QED
    BY <1>2, <2>2, <2>3, <2>4, <2>5, Zenon
<1>. QED
  BY <1>4, <1>5, Zenon

(* The machine stays the same.                                             *)
LEMMA MachineStep ==
    ASSUME [Next]_vars
    PROVE  platform' = platform /\ Manager' = Manager
<1>1. platform' = platform
  BY Zenon DEF Next, Progress, Disturbance, BootService, StartInitialization, RemoveLegacyRule,
     StartPeriodicCheck, CheckRule, CheckDone, RemoveRule, AppendRule, NftCommand, Persist, Tamper,
     RestartAgent, Reboot, tools, vars
<1>. QED
  BY <1>1, Zenon DEF Manager, UnresolvedModules

(* Every step keeps Staged.                                                *)
LEMMA StagedStep ==
    ASSUME Staged, Listing, [Next]_vars
    PROVE  Staged'
<1>0. /\ Manager' = Manager /\ Manager \in {"none", "iptables", "nft"}
      /\ run \in FirewallOps /\ env \in EnableFirewallType
      /\ 1 \in 1..3 /\ nft \in {"absent", "ok", "bad"}
  <2>1. 1 \in 1..3
    BY SMT
  <2>. QED
    BY <2>1, MachineStep, ManagerFacts, Zenon DEF Staged, Listing
<1>1. CASE BootService
  BY <1>0, <1>1, RunFacts, Zenon DEF Staged, BootService
<1>2. CASE StartInitialization
  BY <1>0, <1>2, RunFacts, Zenon DEF Staged, StartInitialization
<1>3. CASE RemoveLegacyRule
  BY <1>0, <1>3, RunFacts, Zenon DEF Staged, RemoveLegacyRule
<1>4. ASSUME NEW b \in BOOLEAN, StartPeriodicCheck(b)
      PROVE  Staged'
  <2>. DEFINE e == UpdateReportingState(env, b)
  <2>1. e \in EnableFirewallType /\ e.manager = env.manager
    BY <1>0, EnvFacts, Zenon
  <2>2. stage = "running" /\ stage' = "running"
    BY <1>4, Zenon DEF StartPeriodicCheck
  <2>3. CASE Manager = "none"
    <3>1. run' = Idle /\ env' = EndOperation(UpdateFirewallState(e, "Unknown"))
      BY <1>4, <2>3, Zenon DEF StartPeriodicCheck
    <3>2. UpdateFirewallState(e, "Unknown") \in EnableFirewallType
          /\ UpdateFirewallState(e, "Unknown").manager = e.manager
      BY <2>1, EnvFacts, Zenon DEF States
    <3>3. env' \in EnableFirewallType /\ env'.manager = env.manager
      BY <2>1, <3>1, <3>2, EnvFacts, Zenon
    <3>. QED
      BY <1>0, <2>2, <2>3, <3>1, <3>3, RunFacts, Zenon DEF Staged
  <2>4. CASE Manager # "none"
    <3>1. run' = At("check") /\ env' = [e EXCEPT !.manager = Manager]
      BY <1>4, <2>4, Zenon DEF StartPeriodicCheck
    <3>2. env' \in EnableFirewallType /\ env'.manager = Manager
      <4>1. Manager \in Managers
        BY ManagerFacts, Zenon DEF Managers
      <4>. QED
        BY <2>1, <3>1, <4>1, EnvFacts, Zenon
    <3>. QED
      BY <1>0, <2>2, <2>4, <3>1, <3>2, RunFacts, Zenon DEF Staged
  <2>. QED
    BY <2>3, <2>4, Zenon
<1>5. CASE CheckRule
  <2>1. CASE Raise
    <3>1. run.op # "idle"
      BY <1>5, Zenon DEF CheckRule
    <3>. QED
      BY <1>0, <2>1, <3>1, RaiseFacts, RunFacts, Zenon DEF Staged
  <2>2. CASE ~Raise
    <3>1. run' \in FirewallOps /\ run'.op = "check"
      <4>1. run.op = "check" /\ run.k <= 3 /\ run \in FirewallOps /\ Commands[run.k] \in Rules
        BY <1>5, <1>0, CommandFacts, SMT DEF CheckRule, FirewallOps
      <4>2. run' = [run EXCEPT !.k = @ + 1,
                               !.missing = IF RuleExists(Commands[run.k]) THEN @
                                           ELSE @ \union {Commands[run.k]}]
        BY <1>5, <2>2, Zenon DEF CheckRule
      <4>. DEFINE j == run.k + 1
                  m == IF RuleExists(Commands[run.k]) THEN run.missing
                       ELSE run.missing \union {Commands[run.k]}
                  f == [run EXCEPT !.k = j]
      <4>3. run' = [f EXCEPT !.missing = m]
        BY <4>2, Zenon
      <4>4. j \in 1..4 /\ m \in SUBSET Rules
        BY <4>1, SMT DEF FirewallOps
      <4>. HIDE DEF j, m
      <4>5. f \in FirewallOps /\ f.op = "check"
        BY <4>1, <4>4, SMT DEF FirewallOps
      <4>. HIDE DEF f
      <4>. QED
        BY <4>3, <4>4, <4>5, SMT DEF FirewallOps
    <3>. QED
      BY <1>0, <1>5, <2>2, <3>1, Zenon DEF CheckRule, Staged
  <2>. QED
    BY <2>1, <2>2, Zenon
<1>6. CASE CheckDone
  <2>1. run.op = "check" /\ run.op # "idle"
    BY <1>6, Zenon DEF CheckDone
  <2>2. CASE Raise
    BY <1>0, <2>1, <2>2, RaiseFacts, RunFacts, Zenon DEF Staged
  <2>3. CASE Complete
    BY <1>0, <2>1, <2>3, CompleteFacts, RunFacts, Zenon DEF Staged
  <2>4. CASE ~Raise /\ ~Complete
    <3>1. /\ env' \in EnableFirewallType /\ env'.manager = env.manager /\ stage' = stage
          /\ \/ run' = At("setup")
             \/ stage = "running" /\ run' = Idle
             \/ stage = "running" /\ run' = At("remove")
             \/ stage # "running" /\ run' = At("persist")
      BY <1>0, <1>6, <2>4, CheckDoneFacts, Zenon
    <3>. QED
      BY <1>0, <2>1, <3>1, RunFacts, Zenon DEF Staged
  <2>. QED
    BY <2>2, <2>3, <2>4, Zenon
<1>7. CASE RemoveRule
  <2>1. run.op = "remove" /\ run.op # "idle" /\ Manager = "iptables" /\ run.k \in 1..3
    BY <1>7, Zenon DEF RemoveRule, Staged
  <2>2. CASE Raise
    BY <1>0, <2>1, <2>2, RaiseFacts, RunFacts, Zenon DEF Staged
  <2>3. CASE ~Raise
    <3>1. /\ run' = IF run.k < 3 THEN [run EXCEPT !.k = @ + 1] ELSE At("setup")
          /\ stage' = stage /\ env' = env
      BY <1>7, <2>3, Zenon DEF RemoveRule
    <3>2. run.k < 3 => /\ [run EXCEPT !.k = @ + 1] \in FirewallOps /\ [run EXCEPT !.k = @ + 1].op = "remove"
                       /\ [run EXCEPT !.k = @ + 1].k \in 1..3
      BY <1>0, <2>1, SMT DEF FirewallOps
    <3>. QED
      BY <1>0, <2>1, <3>1, <3>2, RunFacts, Zenon DEF Staged
  <2>. QED
    BY <2>2, <2>3, Zenon
<1>8. CASE AppendRule
  <2>1. run.op = "setup" /\ run.op # "idle" /\ Manager = "iptables" /\ run.k \in 1..3
    BY <1>8, Zenon DEF AppendRule, Staged
  <2>2. CASE Raise
    BY <1>0, <2>1, <2>2, RaiseFacts, RunFacts, Zenon DEF Staged
  <2>3. CASE Complete
    BY <1>0, <2>1, <2>3, CompleteFacts, RunFacts, Zenon DEF Staged
  <2>4. CASE ~Raise /\ ~Complete
    <3>1. run.k < 3 /\ run' = [run EXCEPT !.k = @ + 1] /\ stage' = stage /\ env' = env
      BY <1>8, <2>4, Zenon DEF AppendRule
    <3>2. run' \in FirewallOps /\ run'.op = "setup" /\ run'.k \in 1..3
      BY <1>0, <2>1, <3>1, SMT DEF FirewallOps
    <3>. QED
      BY <1>0, <2>1, <3>1, <3>2, Zenon DEF Staged
  <2>. QED
    BY <2>2, <2>3, <2>4, Zenon
<1>9. CASE NftCommand
  <2>1. run.op \in {"remove", "setup"} /\ run.op # "idle" /\ Manager = "nft"
    BY <1>9, Zenon DEF NftCommand
  <2>2. CASE Raise
    BY <1>0, <2>1, <2>2, RaiseFacts, RunFacts, Zenon DEF Staged
  <2>3. CASE Complete
    BY <1>0, <2>1, <2>3, CompleteFacts, RunFacts, Zenon DEF Staged
  <2>4. CASE ~Raise /\ ~Complete
    <3>1. run.op = "remove" /\ run' = At("setup") /\ stage' = stage /\ env' = env
      BY <1>9, <2>4, Zenon DEF NftCommand
    <3>. QED
      BY <1>0, <2>1, <3>1, RunFacts, Zenon DEF Staged
  <2>. QED
    BY <2>2, <2>3, <2>4, Zenon
<1>10. CASE Persist
  BY <1>0, <1>10, RunFacts, Zenon DEF Staged, Persist
<1>11. CASE Tamper
  BY <1>0, <1>11, Zenon DEF Staged, Tamper
<1>12. CASE RestartAgent \/ Reboot
  <2>1. NewEnableFirewall \in EnableFirewallType /\ NewEnableFirewall.manager = "none"
    BY SMT DEF NewEnableFirewall, EnableFirewallType, States, Managers
  <2>2. run' = Idle /\ env' = NewEnableFirewall /\ stage' \in {"boot", "starting"}
    BY <1>12, Zenon DEF RestartAgent, Reboot, NewProcess
  <2>. QED
    BY <1>0, <2>1, <2>2, RunFacts, Zenon DEF Staged
<1>13. CASE UNCHANGED vars
  BY <1>0, <1>13, Zenon DEF Staged, vars
<1>. QED
  BY <1>1, <1>2, <1>3, <1>4, <1>5, <1>6, <1>7, <1>8, <1>9, <1>10, <1>11, <1>12, <1>13, Zenon
     DEF Next, Progress, Disturbance

(* The chain that a firewalld leaves that was started or stopped.          *)
LEMMA NewChainFacts ==
    ASSUME permanent \in Seq(PermanentRules), Sorted(permanent),
           permanent' = permanent, platform' = platform, chain' = FirewalldChain'
    PROVE  /\ chain' \in Seq(Entries)
           /\ (\A r \in Rules : Has(chain', Rule(r))) => ~BareDrop(chain')
           /\ Manager # "iptables" => ~Has(chain', Rule("drop")) /\ ~Has(chain', HiddenDrop)
<1>1. chain' = <<>> \/ (chain' = RulesOf(permanent) /\ platform.iptables /\ platform.modules)
  BY Zenon DEF FirewalldChain
<1>2. CASE chain' = <<>>
  BY <1>2, EmptyHas, Zenon
<1>3. CASE chain' = RulesOf(permanent) /\ platform.iptables /\ platform.modules
  <2>1. Manager = "iptables"
    BY <1>3, Zenon DEF Manager, UnresolvedModules
  <2>. QED
    BY <1>3, <2>1, RulesOfFacts, Zenon
<1>. QED
  BY <1>1, <1>2, <1>3, Zenon

(* The permanent rules after an initialization.                            *)
LEMMA OutcomesFacts ==
    ASSUME NEW p \in Seq(PermanentRules), Sorted(p)
    PROVE  /\ FirewalldOutcomes(p).ok \in Seq(PermanentRules) /\ Sorted(FirewalldOutcomes(p).ok)
           /\ \A r \in Rules : Has(FirewalldOutcomes(p).ok, r)
           /\ \A q \in FirewalldOutcomes(p).partial : q \in Seq(PermanentRules) /\ Sorted(q)
<1>. DEFINE present == {r \in Rules : Has(p, r)}
<1>1. \A r \in Rules : r \in present <=> Has(p, r)
  BY Zenon
<1>2. present \subseteq Rules
  BY Zenon
<1>3. \A n \in 0..3 : RemovedFirst(p, n) \in Seq(PermanentRules) /\ Sorted(RemovedFirst(p, n))
  BY WithoutIsSubsequence, WithoutSorted, Zenon DEF RemovedFirst
<1>4. \A r \in Rules : ~Has(RemovedFirst(p, 3), r)
  <2>1. \A r \in Rules : r \in {Commands[i] : i \in 1..3}
    BY CommandFacts, SMT
  <2>. DEFINE D == {Commands[i] : i \in 1..3}
  <2>. HIDE DEF D
  <2>2. RemovedFirst(p, 3) = Without(p, D)
    BY Zenon DEF RemovedFirst, D
  <2>3. \A r \in Rules : r \in D
    BY <2>1, Zenon DEF D
  <2>. QED
    BY <2>2, <2>3, WithoutHas, Zenon
<1>5. 3 \in 0..3 /\ 0..2 \subseteq 0..3 /\ 1..2 \subseteq 0..3
  BY SMT
<1>6. CASE present = Rules
  <2>1. FirewalldOutcomes(p).ok = p /\ FirewalldOutcomes(p).partial = {p}
    BY <1>6, SMT DEF FirewalldOutcomes
  <2>. QED
    BY <1>1, <1>6, <2>1, Zenon
<1>7. CASE present = {} /\ present # Rules
  <2>1. /\ FirewalldOutcomes(p).ok = p \o SubSeq(Commands, 1, 3)
        /\ FirewalldOutcomes(p).partial = {p \o SubSeq(Commands, 1, n) : n \in 0..2}
    BY <1>7, SMT DEF FirewalldOutcomes
  <2>2. \A r \in Rules : ~Has(p, r)
    BY <1>1, <1>7, Zenon
  <2>3. \A n \in 0..3 : /\ p \o SubSeq(Commands, 1, n) \in Seq(PermanentRules)
                        /\ Sorted(p \o SubSeq(Commands, 1, n))
                        /\ n = 3 => \A r \in Rules : Has(p \o SubSeq(Commands, 1, n), r)
    BY <2>2, AddedFacts, Zenon
  <2>. QED
    BY <1>5, <2>1, <2>3, Zenon
<1>8. CASE present # {} /\ present # Rules
  <2>. DEFINE q == RemovedFirst(p, 3)
  <2>1. /\ FirewalldOutcomes(p).ok = q \o SubSeq(Commands, 1, 3)
        /\ FirewalldOutcomes(p).partial = {RemovedFirst(p, n) : n \in 0..3}
                                            \union {q \o SubSeq(Commands, 1, n) : n \in 1..2}
    <3>. DEFINE ok == q \o SubSeq(Commands, 1, 3)
                partial == {RemovedFirst(p, n) : n \in 0..3}
                            \union {q \o SubSeq(Commands, 1, n) : n \in 1..2}
    <3>1. FirewalldOutcomes(p) = [ok |-> ok, partial |-> partial]
      BY <1>8, Zenon DEF FirewalldOutcomes
    <3>. HIDE DEF ok, partial
    <3>2. FirewalldOutcomes(p).ok = ok /\ FirewalldOutcomes(p).partial = partial
      BY <3>1, SMT
    <3>. QED
      BY <3>2, Zenon DEF ok, partial
  <2>2. q \in Seq(PermanentRules) /\ \A r \in Rules : ~Has(q, r)
    BY <1>3, <1>4, <1>5, Zenon
  <2>. HIDE DEF q
  <2>3. \A n \in 0..3 : /\ q \o SubSeq(Commands, 1, n) \in Seq(PermanentRules)
                        /\ Sorted(q \o SubSeq(Commands, 1, n))
                        /\ n = 3 => \A r \in Rules : Has(q \o SubSeq(Commands, 1, n), r)
    BY <2>2, AddedFacts, Zenon
  <2>. QED
    BY <1>3, <1>5, <2>1, <2>3, Zenon
<1>. QED
  BY <1>6, <1>7, <1>8, Zenon

(* What an initialization leaves on disk: permanent rules in order, and    *)
(* all of them (or the service) when it says that the rules are persisted. *)
LEMMA PersistFacts ==
    ASSUME permanent \in Seq(PermanentRules), Sorted(permanent), Persist
    PROVE  /\ permanent' \in Seq(PermanentRules) /\ Sorted(permanent')
           /\ persisted' = "firewalld" => Manager # "nft" /\ \A r \in Rules : Has(permanent', r)
           /\ persisted' = "service" => service'.binary /\ service'.unit # "none" /\ service'.enabled
<1>. DEFINE w == Without(permanent, {"legacyDns"})
<1>1. w \in Seq(PermanentRules) /\ Sorted(w)
  BY WithoutIsSubsequence, WithoutSorted, Zenon
<1>2. CASE firewalld /\ Manager # "nft"
  <2>1. PICK q \in {w} \union (IF faults > 0 THEN {permanent} ELSE {}) :
            \/ permanent' = FirewalldOutcomes(q).ok /\ persisted' = "firewalld"
            \/ permanent' \in FirewalldOutcomes(q).partial /\ persisted' = "no"
    BY <1>2, Zenon DEF Persist, PersistWithFirewalld
  <2>2. q \in Seq(PermanentRules) /\ Sorted(q)
    BY <1>1, Zenon
  <2>. QED
    BY <1>2, <2>1, <2>2, OutcomesFacts, Zenon
<1>3. CASE ~(firewalld /\ Manager # "nft")
  <2>1. PersistWithService
    BY <1>3, Zenon DEF Persist
  <2>2. permanent' = permanent \/ \E q \in {permanent, w}, n \in 0..3 : permanent' = RemovedFirst(q, n)
    <3>1. 3 \in 0..3
      BY SMT
    <3>2. permanent' \in PassthroughsRemoved
      BY <2>1, Zenon DEF PersistWithService
    <3>. QED
      BY <3>1, <3>2, SMT DEF PassthroughsRemoved
  <2>3. permanent' \in Seq(PermanentRules) /\ Sorted(permanent')
    <3>1. \A q \in {permanent, w} : q \in Seq(PermanentRules) /\ Sorted(q)
      BY <1>1, Zenon
    <3>2. \A q \in {permanent, w}, n \in 0..3 :
            RemovedFirst(q, n) \in Seq(PermanentRules) /\ Sorted(RemovedFirst(q, n))
      BY <3>1, WithoutIsSubsequence, WithoutSorted, Zenon DEF RemovedFirst
    <3>. QED
      BY <2>2, <3>2, Zenon
  <2>4. /\ persisted' \in {"no", "service"}
        /\ persisted' = "service" => service'.binary /\ service'.unit # "none" /\ service'.enabled
    BY <2>1, SMT DEF PersistWithService
  <2>. QED
    BY <1>3, <2>3, <2>4, Zenon
<1>. QED
  BY <1>2, <1>3, Zenon

(* What the steps do to the chain.                                         *)
LEMMA ListingStep ==
    ASSUME Staged, Listing, [Next]_vars
    PROVE  Listing'
<1>0. /\ Manager' = Manager /\ chain \in Seq(Entries) /\ nft \in {"absent", "ok", "bad"}
      /\ permanent \in Seq(PermanentRules) /\ Sorted(permanent)
      /\ Manager # "iptables" => ~Has(chain, Rule("drop")) /\ ~Has(chain, HiddenDrop)
  BY MachineStep, Zenon DEF Listing
<1>1. CASE BootService
  BY <1>0, <1>1, Zenon DEF Listing, BootService, disk
<1>2. ASSUME chain' \in CreateChains \/ chain' = chain, UNCHANGED <<nft, permanent>>
      PROVE  Listing'
  BY <1>0, <1>2, CreateChainsFacts, Zenon DEF Listing
<1>3. CASE StartInitialization
  BY <1>2, <1>3, Zenon DEF StartInitialization, disk
<1>4. CASE RemoveLegacyRule
  <2>1. chain' = chain \/ chain' = Without(chain, {Rule("legacy")})
    BY <1>4, Zenon DEF RemoveLegacyRule, DeleteRule
  <2>2. chain' \in Seq(Entries) /\ \A x : Has(chain', x) => Has(chain, x)
    <3>. DEFINE w == Without(chain, {Rule("legacy")})
    <3>1. w \in Seq(Entries)
      BY <1>0, WithoutIsSubsequence, Zenon
    <3>2. \A x : Has(w, x) => Has(chain, x)
      BY <1>0, WithoutHas, Zenon
    <3>. HIDE DEF w
    <3>3. chain' = chain \/ chain' = w
      BY <2>1, Zenon DEF w
    <3>. QED
      BY <1>0, <3>1, <3>2, <3>3, Zenon
  <2>. QED
    BY <1>0, <1>4, <2>2, Zenon DEF Listing, RemoveLegacyRule, disk
<1>5. ASSUME NEW b \in BOOLEAN, StartPeriodicCheck(b)
      PROVE  Listing'
  BY <1>2, <1>5, Zenon DEF StartPeriodicCheck, disk
<1>6. CASE CheckRule \/ CheckDone
  BY <1>0, <1>6, Zenon DEF Listing, CheckRule, CheckDone, disk
<1>7. CASE RemoveRule
  <2>1. PICK D : chain' = chain \/ chain' = Without(chain, D)
    BY <1>7, Zenon DEF RemoveRule, DeleteRule
  <2>2. Without(chain, D) \in Seq(Entries)
    BY <1>0, WithoutIsSubsequence, Zenon
  <2>3. \A x : Has(Without(chain, D), x) => Has(chain, x)
    BY <1>0, WithoutHas, Zenon
  <2>4. chain' \in Seq(Entries) /\ \A x : Has(chain', x) => Has(chain, x)
    BY <1>0, <2>1, <2>2, <2>3, Zenon
  <2>. QED
    BY <1>0, <1>7, <2>4, Zenon DEF Listing, RemoveRule, disk
<1>8. CASE AppendRule
  <2>1. run.k \in 1..3 /\ Manager = "iptables"
    BY <1>8, Zenon DEF AppendRule, Staged
  <2>2. Rule(Commands[run.k]) \in Entries
    <3>1. Commands[run.k] \in {"dns", "accept", "drop"}
      BY <2>1, CommandFacts, SMT
    <3>. QED
      BY <3>1, RulesAreEntries, Zenon
  <2>3. chain' = chain \/ \E y \in Entries : chain' = Append(chain, y)
    BY <1>8, <2>2, RulesAreEntries, Zenon DEF AppendRule
  <2>4. chain' \in Seq(Entries)
    BY <1>0, <2>3, AppendHas, Zenon
  <2>. QED
    BY <1>0, <1>8, <2>1, <2>4, Zenon DEF Listing, AppendRule, disk
<1>9. CASE NftCommand
  BY <1>0, <1>9, Zenon DEF Listing, NftCommand, disk
<1>10. CASE Persist
  <2>1. permanent' \in Seq(PermanentRules) /\ Sorted(permanent')
    BY <1>0, <1>10, PersistFacts, Zenon
  <2>. QED
    BY <1>0, <1>10, <2>1, Zenon DEF Listing, Persist
<1>11. CASE Tamper
  <2>1. CASE chain' = chain
    BY <1>0, <1>11, <2>1, Zenon DEF Listing, Tamper, disk
  <2>2. CASE chain' \in Tampered
    <3>1. chain' \in Seq(Entries)
      BY <1>0, <2>2, TamperedFacts, Zenon
    <3>2. Manager # "iptables" => ~Has(chain', Rule("drop")) /\ ~Has(chain', HiddenDrop)
      <4>. SUFFICES ASSUME Manager # "iptables" PROVE ~Has(chain', Rule("drop")) /\ ~Has(chain', HiddenDrop)
        BY Zenon
      <4>1. CASE chain' = FirewalldChain
        BY <4>1, ManagerFacts, EmptyHas, Zenon
      <4>2. CASE \A x : Has(chain', x) => Has(chain, x)
        BY <1>0, <4>2, Zenon
      <4>. QED
        BY <1>0, <2>2, <4>1, <4>2, TamperedFacts, Zenon
    <3>. QED
      BY <1>0, <1>11, <3>1, <3>2, Zenon DEF Listing, Tamper, disk
  <2>3. CASE chain' = FirewalldChain'
    <3>1. permanent' = permanent /\ platform' = platform /\ (nft' = nft \/ nft' \in {"absent", "bad"})
      BY <1>11, Zenon DEF Tamper, disk
    <3>. QED
      BY <1>0, <2>3, <3>1, NewChainFacts, Zenon DEF Listing
  <2>. QED
    BY <1>11, <2>1, <2>2, <2>3, Zenon DEF Tamper
<1>12. CASE RestartAgent
  BY <1>0, <1>12, Zenon DEF Listing, RestartAgent, disk
<1>13. CASE Reboot
  <2>1. permanent' = permanent /\ nft' = "absent" /\ platform' = platform
    BY <1>13, Zenon DEF Reboot, disk
  <2>2. chain' = FirewalldChain'
    BY <1>13, Zenon DEF Reboot
  <2>. QED
    BY <1>0, <2>1, <2>2, NewChainFacts, Zenon DEF Listing
<1>14. CASE UNCHANGED vars
  BY <1>0, <1>14, Zenon DEF Listing, vars
<1>. QED
  BY <1>1, <1>3, <1>4, <1>5, <1>6, <1>7, <1>8, <1>9, <1>10, <1>11, <1>12, <1>13, <1>14, Zenon
     DEF Next, Progress, Disturbance

(* Every step keeps InOrder.                                               *)
LEMMA InOrderStep ==
    ASSUME FirewallInv, [Next]_vars
    PROVE  InOrder'
<1>. SUFFICES ASSUME Manager = "iptables"
              PROVE  /\ AllExist' => Covered'
                     /\ run'.op = "setup" => Covered'
                     /\ run'.op = "check" /\ "drop" \in run'.missing => Covered'
  BY MachineStep, Zenon DEF InOrder
<1>0. /\ Staged /\ chain \in Seq(Entries) /\ permanent \in Seq(PermanentRules) /\ Sorted(permanent)
      /\ AllExist => Covered
      /\ run.op = "setup" => Covered
      /\ run.op = "check" /\ "drop" \in run.missing => Covered
  BY Zenon DEF FirewallInv, Listing, InOrder
<1>1. ASSUME UNCHANGED <<chain, raced>>
      PROVE  (AllExist' <=> AllExist) /\ (Covered' <=> Covered)
  BY <1>1, Zenon DEF AllExist, Covered
<1>2. ASSUME UNCHANGED <<chain, raced>>, run'.op \notin {"setup", "check"} \/ (run'.op = "check" /\ run'.missing = {})
      PROVE  /\ AllExist' => Covered'
             /\ run'.op = "setup" => Covered'
             /\ run'.op = "check" /\ "drop" \in run'.missing => Covered'
  BY <1>0, <1>1, <1>2, Zenon
<1>3. CASE BootService
  <2>1. UNCHANGED <<chain, raced>>
    BY <1>3, Zenon DEF BootService, history
  <2>2. CASE run' = run
    BY <1>0, <1>1, <2>1, <2>2, Zenon
  <2>3. CASE run' # run
    <3>1. stage = "boot" /\ run.op = "idle" /\ ~firewalldEnabled /\ run' = At("setup")
      BY <1>3, <2>3, Zenon DEF BootService
    <3>2. chain = <<>>
      BY <3>1, Zenon DEF FirewallInv, Booting
    <3>3. Covered
      BY <3>2, EmptyHas, Zenon DEF Covered
    <3>. QED
      BY <1>1, <2>1, <3>1, <3>3, RunFacts, Zenon
  <2>. QED
    BY <2>2, <2>3, Zenon
<1>4. CASE StartInitialization
  <2>1. UNCHANGED <<chain, raced>> /\ run' = At("legacy")
    BY <1>4, ManagerFacts, Zenon DEF StartInitialization
  <2>. QED
    BY <1>2, <2>1, RunFacts, Zenon
<1>5. CASE RemoveLegacyRule
  <2>1. raced' = raced /\ run' = At("check") /\ (chain' = chain \/ chain' = Without(chain, {Rule("legacy")}))
    BY <1>5, Zenon DEF RemoveLegacyRule, DeleteRule, history
  <2>2. CASE chain' = chain
    BY <1>2, <2>1, <2>2, RunFacts, Zenon
  <2>3. CASE chain' = Without(chain, {Rule("legacy")})
    <3>1. \A x : Has(chain', x) <=> (Has(chain, x) /\ x \notin {Rule("legacy")})
      BY <1>0, <2>3, WithoutHas, Zenon
    <3>2. Has(chain, HiddenDrop) => Has(chain', HiddenDrop)
      BY <3>1, RuleFacts, Zenon
    <3>3. ~BareDrop(chain) => ~BareDrop(chain')
      BY <1>0, <2>3, LegacyNotBare, Zenon
    <3>4. AllExist' => AllExist
      BY <3>1, Zenon DEF AllExist
    <3>. QED
      BY <1>0, <2>1, <3>2, <3>3, <3>4, RunFacts, Zenon DEF Covered
  <2>. QED
    BY <2>1, <2>2, <2>3, Zenon
<1>6. ASSUME NEW b \in BOOLEAN, StartPeriodicCheck(b)
      PROVE  /\ AllExist' => Covered'
             /\ run'.op = "setup" => Covered'
             /\ run'.op = "check" /\ "drop" \in run'.missing => Covered'
  <2>1. UNCHANGED <<chain, raced>> /\ run' = At("check")
    BY <1>6, ManagerFacts, Zenon DEF StartPeriodicCheck
  <2>. QED
    BY <1>2, <2>1, RunFacts, Zenon
<1>7. CASE CheckRule
  <2>1. UNCHANGED <<chain, raced>> /\ run.op = "check" /\ run.op # "idle"
    BY <1>7, Zenon DEF CheckRule
  <2>2. CASE Raise
    <3>1. run' = Idle
      BY <1>0, <2>1, <2>2, RaiseFacts, Zenon
    <3>. QED
      BY <1>2, <2>1, <3>1, RunFacts, Zenon
  <2>3. CASE ~Raise
    <3>1. run' = [run EXCEPT !.k = @ + 1,
                             !.missing = IF RuleExists(Commands[run.k]) THEN @
                                         ELSE @ \union {Commands[run.k]}]
      BY <1>7, <2>3, Zenon DEF CheckRule
    <3>2. run'.op = "check"
          /\ run'.missing = IF RuleExists(Commands[run.k]) THEN run.missing ELSE run.missing \union {Commands[run.k]}
      BY <1>0, <2>1, <3>1, SMT DEF Staged, FirewallOps
    <3>3. "drop" \in run'.missing => "drop" \in run.missing \/ ~Has(chain, Rule("drop"))
      BY <3>2, Zenon DEF RuleExists
    <3>4. ~Has(chain, Rule("drop")) => Covered
      BY <1>0, NoDropNotBare, Zenon DEF Covered
    <3>. QED
      BY <1>0, <1>1, <2>1, <3>2, <3>3, <3>4, Zenon
  <2>. QED
    BY <2>2, <2>3, Zenon
<1>8. CASE CheckDone
  <2>1. UNCHANGED <<chain, raced>> /\ run.op = "check" /\ run.op # "idle"
    BY <1>8, Zenon DEF CheckDone
  <2>2. CASE Raise
    BY <1>0, <1>2, <2>1, <2>2, RaiseFacts, RunFacts, Zenon
  <2>3. CASE Complete
    BY <1>0, <1>2, <2>1, <2>3, CompleteFacts, RunFacts, Zenon
  <2>4. CASE run' = At("setup") /\ CheckResult = "NotSet"
    <3>1. run.missing = Rules
      BY <2>4, Zenon DEF CheckResult
    <3>2. Covered
      BY <1>0, <2>1, <3>1, CommandFacts, Zenon
    <3>. QED
      BY <1>1, <2>1, <3>2, <2>4, RunFacts, Zenon
  <2>5. CASE run' \in {Idle, At("remove"), At("persist")}
    BY <1>2, <2>1, <2>5, RunFacts, Zenon
  <2>. QED
    BY <1>0, <1>8, <2>2, <2>3, <2>4, <2>5, CheckDoneFacts, Zenon DEF FirewallInv, Listing
<1>9. CASE RemoveRule
  <2>1. run.op = "remove" /\ run.op # "idle" /\ run.k \in 1..3 /\ Commands[run.k] \in Rules
    <3>1. run.op = "remove" /\ run.op # "idle" /\ run.k \in 1..3
      BY <1>0, <1>9, Zenon DEF RemoveRule, Staged
    <3>. QED
      BY <3>1, CommandFacts, SMT
  <2>2. CASE Raise
    <3>1. UNCHANGED <<chain, raced>> \/ run' # Idle
      <4>. DEFINE next == IF run.k < 3 THEN [run EXCEPT !.k = @ + 1] ELSE At("setup")
      <4>1. [run EXCEPT !.k = @ + 1].op = run.op
        <5>1. run \in FirewallOps
          BY <1>0, Zenon DEF Staged
        <5>. QED
          BY <5>1, SMT DEF FirewallOps
      <4>2. next # Idle
        BY <2>1, <4>1, RunFacts, Zenon
      <4>. QED
        BY <1>9, <4>2, Zenon DEF RemoveRule
    <3>. QED
      BY <1>0, <1>2, <2>1, <2>2, <3>1, RaiseFacts, RunFacts, Zenon
  <2>3. CASE ~Raise
    <3>1. (run'.op = "remove" /\ run.k < 3) \/ (run' = At("setup") /\ run.k = 3)
      <4>1. run' = IF run.k < 3 THEN [run EXCEPT !.k = @ + 1] ELSE At("setup")
        BY <1>9, <2>3, Zenon DEF RemoveRule
      <4>. QED
        BY <1>0, <2>1, <4>1, SMT DEF Staged, FirewallOps
    <3>2. CASE chain' = DeleteRule(chain, Commands[run.k])
      <4>1. chain' \in Seq(Entries)
            /\ \A x : Has(chain', x) <=> (Has(chain, x) /\ x \notin {Rule(Commands[run.k])})
        BY <1>0, <3>2, WithoutIsSubsequence, WithoutHas, Zenon DEF DeleteRule
      <4>2. ~AllExist'
        BY <2>1, <4>1, Zenon DEF AllExist
      <4>3. run.k = 3 => Covered'
        <5>1. run.k = 3 => ~Has(chain', Rule("drop"))
          BY <4>1, CommandFacts, Zenon
        <5>. QED
          BY <4>1, <5>1, NoDropNotBare, Zenon DEF Covered
      <4>. QED
        BY <3>1, <4>2, <4>3, RunFacts, Zenon
    <3>3. CASE chain' = chain /\ raced' = (raced \/ BareDrop(chain))
      <4>1. Covered'
        BY <3>3, Zenon DEF Covered
      <4>. QED
        BY <4>1, Zenon
    <3>. QED
      BY <1>9, <2>3, <3>2, <3>3, Zenon DEF RemoveRule
  <2>. QED
    BY <2>2, <2>3, Zenon
<1>10. CASE AppendRule
  <2>1. run.op = "setup" /\ run.op # "idle" /\ run.k \in 1..3 /\ Covered /\ raced' = raced
    BY <1>0, <1>10, Zenon DEF AppendRule, Staged
  <2>2. CASE chain' = chain /\ Raise
    BY <1>0, <1>2, <2>1, <2>2, RaiseFacts, RunFacts, Zenon
  <2>3. CASE chain' # chain \/ ~Raise
    <3>. DEFINE r == Commands[run.k]
                y == IF r = "drop" /\ ~conntrack THEN HiddenDrop ELSE Rule(r)
    <3>1. chain' = Append(chain, y) /\ ((run' = [run EXCEPT !.k = @ + 1] /\ run.k < 3) \/ Complete)
      BY <1>10, <2>3, Zenon DEF AppendRule
    <3>2. r \in {"dns", "accept", "drop"} /\ (run.k < 3 => r # "drop")
      BY <2>1, CommandFacts, SMT
    <3>3. y \in Entries /\ (y.rule # "drop" \/ y = HiddenDrop \/ y = Rule("drop")) /\ (r # "drop" => y.rule # "drop")
      BY <3>2, RulesAreEntries, RuleFacts, Zenon
    <3>. HIDE DEF y
    <3>4. chain' \in Seq(Entries) /\ \A x : Has(chain', x) <=> (Has(chain, x) \/ x = y)
      BY <1>0, <3>1, <3>3, AppendHas, Zenon
    <3>5. CASE raced \/ Has(chain, HiddenDrop) \/ y = HiddenDrop
      BY <2>1, <3>4, <3>5, Zenon DEF Covered
    <3>6. CASE ~BareDrop(chain) /\ y # HiddenDrop
      <4>1. y.rule # "drop" => ~BareDrop(chain')
        BY <1>0, <3>1, <3>3, <3>6, AppendNotBare, Zenon
      <4>2. y = Rule("drop") /\ AllExist' => ~BareDrop(chain')
        <5>. SUFFICES ASSUME y = Rule("drop"), AllExist'
                      PROVE  ~BareDrop(chain')
          BY Zenon
        <5>1. Has(chain', Rule("dns")) /\ Has(chain', Rule("accept"))
          BY CommandFacts, Zenon DEF AllExist
        <5>2. Has(chain, Rule("dns")) /\ Has(chain, Rule("accept"))
          BY <3>4, <5>1, RuleFacts, Zenon
        <5>. QED
          BY <1>0, <3>1, <3>3, <3>6, <5>2, AppendNotBare, Zenon
      <4>3. AllExist' => Covered'
        BY <3>3, <3>6, <4>1, <4>2, Zenon DEF Covered
      <4>4. run.k < 3 => Covered'
        BY <3>2, <3>3, <4>1, Zenon DEF Covered
      <4>5. run.k < 3 \/ run'.op \in {"idle", "persist"}
        BY <1>0, <2>1, <3>1, CompleteFacts, RunFacts, Zenon
      <4>6. run'.op # "check"
        <5>1. [run EXCEPT !.k = @ + 1].op = "setup"
          BY <1>0, <2>1, SMT DEF Staged, FirewallOps
        <5>. QED
          BY <1>0, <2>1, <3>1, <5>1, CompleteFacts, RunFacts, Zenon
      <4>. QED
        BY <4>3, <4>4, <4>5, <4>6, Zenon
    <3>. QED
      BY <2>1, <3>5, <3>6, Zenon DEF Covered
  <2>. QED
    BY <2>2, <2>3, Zenon
<1>11. CASE NftCommand
  BY <1>11, Zenon DEF NftCommand
<1>12. CASE Persist
  <2>1. UNCHANGED <<chain, raced>> /\ run' = Idle
    BY <1>12, Zenon DEF Persist
  <2>. QED
    BY <1>2, <2>1, RunFacts, Zenon
<1>13. CASE Tamper
  <2>1. run' = run /\ raced' = (raced \/ (run.op # "idle" /\ BareDrop(chain')))
    BY <1>13, Zenon DEF Tamper
  <2>2. run'.op \in {"setup", "check"} => Covered'
    BY <2>1, Zenon DEF Covered
  <2>3. AllExist' => Covered'
    <3>1. CASE chain' = chain
      BY <1>0, <2>1, <3>1, Zenon DEF AllExist, Covered
    <3>2. CASE chain' = FirewalldChain
      BY <1>0, <3>2, FirewalldChainFacts, Zenon DEF AllExist, Covered
    <3>3. CASE \E r \in Rules : ~Has(chain', Rule(r))
      BY <3>3, Zenon DEF AllExist
    <3>4. CASE chain' = FirewalldChain'
      <4>1. permanent' = permanent /\ platform' = platform
        BY <1>13, Zenon DEF Tamper, disk
      <4>. QED
        BY <1>0, <3>4, <4>1, NewChainFacts, Zenon DEF AllExist, Covered
    <3>. QED
      BY <1>0, <1>13, <3>1, <3>2, <3>3, <3>4, TamperedFacts, Zenon DEF Tamper
  <2>. QED
    BY <2>2, <2>3, Zenon
<1>14. CASE RestartAgent
  <2>1. UNCHANGED <<chain, raced>> /\ run' = Idle
    BY <1>14, Zenon DEF RestartAgent, NewProcess
  <2>. QED
    BY <1>2, <2>1, RunFacts, Zenon
<1>15. CASE Reboot
  <2>1. run' = Idle /\ permanent' = permanent /\ (chain' = <<>> \/ chain' = RulesOf(permanent))
    BY <1>15, Zenon DEF Reboot, NewProcess, FirewalldChain, disk
  <2>2. AllExist' => Covered'
    BY <1>0, <2>1, EmptyHas, RulesOfFacts, Zenon DEF AllExist, Covered
  <2>. QED
    BY <2>1, <2>2, RunFacts, Zenon
<1>16. CASE UNCHANGED vars
  <2>1. UNCHANGED <<chain, raced>> /\ run' = run
    BY <1>16, Zenon DEF vars
  <2>. QED
    BY <1>0, <1>1, <2>1, Zenon
<1>. QED
  BY <1>3, <1>4, <1>5, <1>6, <1>7, <1>8, <1>9, <1>10, <1>11, <1>12, <1>13, <1>14, <1>15, <1>16, Zenon
     DEF Next, Progress, Disturbance

(* Every step keeps Found.                                                 *)
LEMMA FoundStep ==
    ASSUME FirewallInv, [Next]_vars
    PROVE  Found'
<1>0. /\ Staged /\ Manager' = Manager /\ Manager \in {"none", "iptables", "nft"} /\ chain \in Seq(Entries)
      /\ run \in FirewallOps /\ env \in EnableFirewallType /\ nft \in {"absent", "ok", "bad"}
  BY MachineStep, ManagerFacts, Zenon DEF FirewallInv, Staged, Listing
<1>1. 1..0 = {} /\ 1 - 1 = 0
  BY SMT
(* A step that ends the operation, or starts another one than setup().     *)
<1>2. ASSUME run' = Idle \/ \E o \in {"legacy", "check", "remove", "persist"} : run' = At(o),
             run' # Idle \/ stage' # "running" \/ env'.manager = "none" \/ ~clean' \/ env'.state # "OK"
      PROVE  Found'
  <2>1. run'.op # "setup" /\ (run'.op = "check" => run'.k = 1)
    BY <1>2, RunFacts, Zenon
  <2>2. run'.op = "idle" => run' = Idle
    BY <1>2, RunFacts, Zenon
  <2>. QED
    BY <1>1, <1>2, <2>1, <2>2, Zenon DEF Found
<1>3. CASE BootService
  <2>1. CASE run' = At("setup") /\ stage' = stage
    <3>1. Manager = "nft" => nft' = "absent"
      BY <1>3, Zenon DEF FirewallInv, Booting, BootService
    <3>. QED
      BY <1>0, <1>1, <2>1, <3>1, RunFacts, Zenon DEF Found
  <2>2. CASE run' = run /\ stage' = "starting"
    <3>1. run'.op = "idle"
      BY <1>3, <2>2, Zenon DEF BootService
    <3>. QED
      BY <2>2, <3>1, Zenon DEF Found
  <2>. QED
    BY <1>3, <2>1, <2>2, Zenon DEF BootService
<1>4. CASE StartInitialization
  <2>1. env'.manager = "none" /\ run.op = "idle"
    BY <1>0, <1>4, Zenon DEF StartInitialization, Staged
  <2>2. CASE run' = run
    BY <2>1, <2>2, Zenon DEF Found
  <2>3. CASE run' = At("legacy")
    BY <1>2, <2>1, <2>3, Zenon
  <2>. QED
    BY <1>4, <2>2, <2>3, Zenon DEF StartInitialization
<1>5. CASE RemoveLegacyRule
  <2>1. run' = At("check")
    BY <1>5, Zenon DEF RemoveLegacyRule
  <2>. QED
    BY <1>2, <2>1, RunFacts, Zenon
<1>6. ASSUME NEW b \in BOOLEAN, StartPeriodicCheck(b)
      PROVE  Found'
  <2>1. CASE Manager = "none"
    <3>1. run' = Idle
      BY <1>6, <2>1, Zenon DEF StartPeriodicCheck
    <3>. QED
      BY <1>0, <2>1, <3>1, RunFacts, Zenon DEF Found
  <2>2. CASE Manager # "none"
    <3>1. run' = At("check")
      BY <1>6, <2>2, Zenon DEF StartPeriodicCheck
    <3>. QED
      BY <1>2, <3>1, RunFacts, Zenon
  <2>. QED
    BY <2>1, <2>2, Zenon
<1>7. CASE CheckRule
  <2>1. /\ chain' = chain /\ nft' = nft /\ run.op = "check" /\ run.op # "idle" /\ run.k <= 3
        /\ Manager = "iptables"
    BY <1>7, Zenon DEF CheckRule
  <2>2. CASE Raise
    BY <1>0, <1>2, <2>1, <2>2, RaiseFacts, Zenon
  <2>3. CASE ~Raise
    <3>1. /\ run' = [run EXCEPT !.k = @ + 1,
                                !.missing = IF RuleExists(Commands[run.k]) THEN @
                                            ELSE @ \union {Commands[run.k]}]
          /\ clean' = clean
      BY <1>7, <2>3, Zenon DEF CheckRule
    <3>2. /\ run'.op = "check" /\ run'.k = run.k + 1
          /\ run'.missing = IF RuleExists(Commands[run.k]) THEN run.missing ELSE run.missing \union {Commands[run.k]}
      BY <1>0, <2>1, <3>1, SMT DEF FirewallOps
    <3>3. run.missing \subseteq run'.missing
          /\ (Commands[run.k] \in run'.missing \/ Has(chain, Rule(Commands[run.k])))
      BY <3>2, Zenon DEF RuleExists
    <3>4. \A j \in 1..(run'.k - 1) : j \in 1..(run.k - 1) \/ j = run.k
      BY <1>0, <3>2, SMT DEF FirewallOps
    <3>5. clean => \A j \in 1..(run.k - 1) : Commands[j] \in run.missing \/ Has(chain, Rule(Commands[j]))
      BY <2>1, Zenon DEF FirewallInv, Found
    <3>6. clean => \A j \in 1..(run'.k - 1) : Commands[j] \in run'.missing \/ Has(chain, Rule(Commands[j]))
      BY <3>3, <3>4, <3>5, Zenon
    <3>. QED
      BY <2>1, <3>1, <3>2, <3>6, Zenon DEF Found
  <2>. QED
    BY <2>2, <2>3, Zenon
<1>8. CASE CheckDone
  <2>1. /\ chain' = chain /\ nft' = nft /\ run.op = "check" /\ run.op # "idle"
        /\ Manager = "nft" \/ run.k > 3
    BY <1>8, Zenon DEF CheckDone
  <2>2. CASE Raise
    BY <1>0, <1>2, <2>1, <2>2, RaiseFacts, Zenon
  <2>3. CASE CheckResult = "OK" /\ Complete /\ clean' = clean
    <3>1. run' \in {Idle, At("persist")}
      BY <1>0, <2>1, <2>3, CompleteFacts, Zenon
    <3>2. Manager = "nft" => nft = "ok"
      <4>1. NftCheck = "OK" => nft = "ok"
        BY <1>0, SMT DEF NftCheck
      <4>. QED
        BY <2>3, <4>1, Zenon DEF CheckResult
    <3>3. Manager = "iptables" /\ clean => AllExist
      <4>. SUFFICES ASSUME Manager = "iptables", clean PROVE AllExist
        BY Zenon
      <4>1. run.missing = {}
        BY <2>3, Zenon DEF CheckResult
      <4>2. \A j \in 1..(run.k - 1) : Has(chain, Rule(Commands[j]))
        BY <2>1, <4>1, Zenon DEF FirewallInv, Found
      <4>3. \A j \in {1, 2, 3} : j \in 1..(run.k - 1)
        BY <1>0, <2>1, SMT DEF FirewallOps
      <4>. QED
        BY <4>2, <4>3, CommandFacts, Zenon DEF AllExist
    <3>4. AllExist => AllExist'
      BY <2>1, Zenon DEF AllExist
    <3>. QED
      BY <1>0, <2>1, <2>3, <3>1, <3>2, <3>3, <3>4, RunFacts, Zenon DEF Found
  <2>4. CASE CheckResult = "NotSet" /\ run' = At("setup")
    <3>1. Manager = "nft" => nft = "absent"
      <4>1. NftCheck = "NotSet" => nft = "absent"
        BY <1>0, SMT DEF NftCheck
      <4>. QED
        BY <2>4, <4>1, Zenon DEF CheckResult
    <3>. QED
      BY <1>0, <1>1, <2>1, <2>4, <3>1, RunFacts, Zenon DEF Found
  <2>5. CASE run' = At("remove") \/ run' = At("persist") \/ (run' = Idle /\ env'.state = "Inconsistent")
    BY <1>2, <2>5, RunFacts, Zenon
  <2>. QED
    BY <1>0, <1>8, <2>2, <2>3, <2>4, <2>5, CheckDoneFacts, Zenon
<1>9. CASE RemoveRule
  <2>1. run.op = "remove" /\ run.op # "idle" /\ Manager = "iptables"
    BY <1>9, Zenon DEF RemoveRule
  <2>2. CASE Raise
    BY <1>0, <1>2, <2>1, <2>2, RaiseFacts, Zenon
  <2>3. CASE ~Raise
    <3>1. run' = IF run.k < 3 THEN [run EXCEPT !.k = @ + 1] ELSE At("setup")
      BY <1>9, <2>3, Zenon DEF RemoveRule
    <3>2. run'.op = "remove" \/ (run'.op = "setup" /\ run'.k = 1)
      <4>1. [run EXCEPT !.k = @ + 1].op = "remove"
        BY <1>0, <2>1, SMT DEF FirewallOps
      <4>. QED
        BY <3>1, <4>1, RunFacts, Zenon
    <3>. QED
      BY <1>0, <1>1, <2>1, <3>2, Zenon DEF Found
  <2>. QED
    BY <2>2, <2>3, Zenon
<1>10. CASE AppendRule
  <2>1. run.op = "setup" /\ run.op # "idle" /\ run.k \in 1..3 /\ Manager = "iptables"
    BY <1>0, <1>10, Zenon DEF AppendRule, Staged
  <2>2. CASE Raise
    BY <1>0, <1>2, <2>1, <2>2, RaiseFacts, Zenon
  <2>3. CASE ~Raise
    <3>. DEFINE r == Commands[run.k]
                y == IF r = "drop" /\ ~conntrack THEN HiddenDrop ELSE Rule(r)
    <3>1. /\ chain' = Append(chain, y) /\ clean' = clean
          /\ IF run.k < 3 THEN run' = [run EXCEPT !.k = @ + 1] /\ UNCHANGED <<stage, env>> ELSE Complete
      BY <1>10, <2>3, Zenon DEF AppendRule
    <3>2. r \in {"dns", "accept", "drop"} /\ (run.k < 3 => r # "drop") /\ (~(run.k < 3) => r = "drop")
      BY <2>1, CommandFacts, SMT
    <3>3. y \in Entries /\ (y = Rule(r) \/ y = HiddenDrop) /\ (run.k < 3 => y = Rule(r))
      BY <3>2, RulesAreEntries, Zenon
    <3>4. \A x : Has(chain', x) <=> (Has(chain, x) \/ x = y)
      BY <1>0, <3>1, <3>3, AppendHas, Zenon
    <3>5. clean => \A j \in 1..(run.k - 1) : Has(chain, Rule(Commands[j]))
      BY <2>1, Zenon DEF FirewallInv, Found
    <3>6. CASE run.k < 3
      <4>1. run'.op = "setup" /\ run'.k = run.k + 1
        BY <1>0, <2>1, <3>1, <3>6, SMT DEF FirewallOps
      <4>2. \A j \in 1..(run'.k - 1) : j \in 1..(run.k - 1) \/ j = run.k
        BY <2>1, <4>1, SMT
      <4>3. clean => \A j \in 1..(run'.k - 1) : Has(chain', Rule(Commands[j]))
        BY <3>3, <3>4, <3>5, <3>6, <4>2, Zenon
      <4>. QED
        BY <1>0, <2>1, <3>1, <4>1, <4>3, Zenon DEF Found
    <3>7. CASE ~(run.k < 3)
      <4>1. run' \in {Idle, At("persist")}
        BY <1>0, <2>1, <3>1, <3>7, CompleteFacts, Zenon
      <4>2. 1 \in 1..(run.k - 1) /\ 2 \in 1..(run.k - 1)
        BY <2>1, <3>7, SMT
      <4>3. clean => Has(chain', HiddenDrop) \/ AllExist'
        <5>1. clean => Has(chain', Rule("dns")) /\ Has(chain', Rule("accept"))
          BY <3>4, <3>5, <4>2, CommandFacts, Zenon
        <5>2. Has(chain', HiddenDrop) \/ Has(chain', Rule("drop"))
          BY <3>2, <3>3, <3>4, <3>7, Zenon
        <5>. QED
          BY <5>1, <5>2, CommandFacts, Zenon DEF AllExist
      <4>. QED
        BY <1>0, <2>1, <3>1, <4>1, <4>3, RunFacts, Zenon DEF Found
    <3>. QED
      BY <3>6, <3>7, Zenon
  <2>. QED
    BY <2>2, <2>3, Zenon
<1>11. CASE NftCommand
  <2>1. run.op \in {"remove", "setup"} /\ run.op # "idle" /\ Manager = "nft"
    BY <1>11, Zenon DEF NftCommand
  <2>2. CASE Raise
    BY <1>0, <1>2, <2>1, <2>2, RaiseFacts, Zenon
  <2>3. CASE ~Raise /\ run.op = "remove"
    <3>1. nft' = "absent" /\ run' = At("setup")
      BY <1>11, <2>3, Zenon DEF NftCommand
    <3>. QED
      BY <1>0, <2>1, <3>1, RunFacts, Zenon DEF Found
  <2>4. CASE ~Raise /\ run.op = "setup"
    <3>1. nft' = "ok" /\ Complete
      BY <1>11, <2>1, <2>4, Zenon DEF NftCommand, FirewallInv, Found
    <3>2. run' \in {Idle, At("persist")}
      BY <1>0, <2>1, <3>1, CompleteFacts, Zenon
    <3>. QED
      BY <1>0, <2>1, <3>1, <3>2, RunFacts, Zenon DEF Found
  <2>. QED
    BY <2>1, <2>2, <2>3, <2>4, Zenon
<1>12. CASE Persist
  <2>1. run' = Idle /\ env' = env /\ stage # "running"
    BY <1>0, <1>12, Zenon DEF Persist, Staged
  <2>2. env.manager = "none"
    BY <1>0, <2>1, Zenon DEF Staged
  <2>. QED
    BY <1>2, <2>1, <2>2, Zenon
<1>13. CASE Tamper
  <2>1. clean' = FALSE /\ run' = run /\ (nft' = nft \/ nft = "ok")
    BY <1>13, Zenon DEF Tamper
  <2>2. Manager = "nft" /\ run.op = "setup" => nft = "absent"
    BY Zenon DEF FirewallInv, Found
  <2>. QED
    BY <1>0, <2>1, <2>2, Zenon DEF Found
<1>14. CASE RestartAgent \/ Reboot
  <2>1. run' = Idle /\ stage' # "running"
    BY <1>14, Zenon DEF RestartAgent, Reboot, NewProcess
  <2>. QED
    BY <1>2, <2>1, Zenon
<1>15. CASE UNCHANGED vars
  <2>1. Found
    BY Zenon DEF FirewallInv
  <2>2. UNCHANGED <<chain, nft, run, stage, env, clean>>
    BY <1>15, Zenon DEF vars
  <2>3. AllExist' <=> AllExist
    BY <2>2, Zenon DEF AllExist
  <2>. QED
    BY <1>0, <2>1, <2>2, <2>3, Zenon DEF Found
<1>. QED
  BY <1>3, <1>4, <1>5, <1>6, <1>7, <1>8, <1>9, <1>10, <1>11, <1>12, <1>13, <1>14, <1>15, Zenon
     DEF Next, Progress, Disturbance

(* Every step keeps Kept: only an initialization changes what is           *)
(* persisted.                                                              *)
LEMMA KeptStep ==
    ASSUME FirewallInv, [Next]_vars
    PROVE  Kept'
<1>0. Manager' = Manager /\ Kept /\ permanent \in Seq(PermanentRules) /\ Sorted(permanent)
  BY MachineStep, Zenon DEF FirewallInv, Listing, Booting
<1>1. CASE Persist
  BY <1>0, <1>1, PersistFacts, Zenon DEF Kept
<1>2. CASE ~Persist
  <2>1. UNCHANGED <<permanent, service, persisted>>
    BY <1>2, Zenon DEF Next, Progress, Disturbance, BootService, StartInitialization, RemoveLegacyRule,
       StartPeriodicCheck, CheckRule, CheckDone, RemoveRule, AppendRule, NftCommand, Tamper, RestartAgent,
       Reboot, disk, history, vars
  <2>. QED
    BY <1>0, <2>1, Zenon DEF Kept
<1>. QED
  BY <1>1, <1>2, Zenon

(* Every step keeps Booting.                                               *)
LEMMA BootingStep ==
    ASSUME FirewallInv, [Next]_vars
    PROVE  Booting'
<1>0. /\ Staged /\ Manager' = Manager /\ platform' = platform /\ Kept' /\ chain \in Seq(Entries)
  BY MachineStep, KeptStep, Zenon DEF FirewallInv, Listing
<1>1. ASSUME stage' # "boot"
      PROVE  Booting'
  BY <1>0, <1>1, Zenon DEF Booting
<1>2. CASE BootService
  <2>1. stage = "boot" /\ run.op = "idle" /\ UNCHANGED <<chain, nft, firewalld, firewalldEnabled>>
    BY <1>2, Zenon DEF BootService, tools, disk, history
  <2>2. CASE stage' = "starting"
    BY <1>1, <2>2, Zenon
  <2>3. CASE stage' # "starting"
    <3>1. run' = At("setup") /\ (Manager = "iptables" => ~firewalldEnabled)
      BY <1>2, <2>3, Zenon DEF BootService
    <3>2. nft = "absent" /\ (firewalld => firewalldEnabled) /\ (Manager = "iptables" => chain = <<>>)
      BY <2>1, <3>1, Zenon DEF FirewallInv, Booting
    <3>. QED
      BY <1>0, <2>1, <3>1, <3>2, RunFacts, EmptyHas, Zenon DEF Booting
  <2>. QED
    BY <2>2, <2>3, Zenon
<1>3. CASE StartInitialization
  BY <1>1, <1>3, Zenon DEF StartInitialization
<1>4. CASE RemoveLegacyRule
  BY <1>0, <1>1, <1>4, Zenon DEF RemoveLegacyRule, Staged
<1>5. ASSUME NEW b \in BOOLEAN, StartPeriodicCheck(b)
      PROVE  Booting'
  BY <1>1, <1>5, Zenon DEF StartPeriodicCheck
<1>6. CASE CheckRule
  <2>1. run.op = "check" /\ stage # "boot" /\ (Raise \/ stage' = stage)
    BY <1>0, <1>6, Zenon DEF CheckRule, Staged
  <2>. QED
    BY <1>0, <1>1, <2>1, RaiseFacts, Zenon
<1>7. CASE CheckDone
  <2>1. run.op = "check" /\ stage # "boot"
    BY <1>0, <1>7, Zenon DEF CheckDone, Staged
  <2>2. stage' # "boot"
    BY <1>0, <1>7, <2>1, CheckDoneFacts, CompleteFacts, RaiseFacts, Zenon DEF FirewallInv, Listing
  <2>. QED
    BY <1>1, <2>2, Zenon
<1>8. CASE RemoveRule
  <2>1. run.op = "remove" /\ stage # "boot" /\ (Raise \/ stage' = stage)
    BY <1>0, <1>8, Zenon DEF RemoveRule, Staged
  <2>. QED
    BY <1>0, <1>1, <2>1, RaiseFacts, Zenon
<1>9. CASE AppendRule
  <2>1. run.op = "setup" /\ run.k \in 1..3 /\ Manager = "iptables" /\ UNCHANGED <<nft, firewalld, firewalldEnabled>>
    BY <1>0, <1>9, Zenon DEF AppendRule, Staged, tools, disk
  <2>2. CASE Raise \/ Complete
    BY <1>0, <1>1, <2>1, <2>2, RaiseFacts, CompleteFacts, Zenon
  <2>3. CASE ~Raise /\ ~Complete /\ stage = "boot"
    <3>. DEFINE r == Commands[run.k]
                y == IF r = "drop" /\ ~conntrack THEN HiddenDrop ELSE Rule(r)
    <3>1. /\ chain' = Append(chain, y) /\ clean' = clean /\ run.k < 3
          /\ run' = [run EXCEPT !.k = @ + 1] /\ UNCHANGED <<stage, env>>
      BY <1>9, <2>3, Zenon DEF AppendRule
    <3>2. r \in {"dns", "accept"}
      BY <2>1, <3>1, CommandFacts, SMT
    <3>3. y = Rule(r) /\ y \in Entries
      BY <3>2, RulesAreEntries, Zenon
    <3>4. \A x : Has(chain', x) <=> (Has(chain, x) \/ x = y)
      BY <1>0, <3>1, <3>3, AppendHas, Zenon
    <3>5. run'.op = "setup"
      BY <1>0, <2>1, <3>1, SMT DEF Staged, FirewallOps
    <3>6. /\ nft = "absent" /\ (firewalld => firewalldEnabled)
          /\ clean => ~Has(chain, Rule("drop")) /\ ~Has(chain, HiddenDrop) /\ ~Has(chain, Rule("legacy"))
      BY <2>1, <2>3, Zenon DEF FirewallInv, Booting
    <3>7. clean => ~Has(chain', Rule("drop")) /\ ~Has(chain', HiddenDrop) /\ ~Has(chain', Rule("legacy"))
      BY <3>2, <3>3, <3>4, <3>6, RuleFacts, Zenon
    <3>. QED
      BY <1>0, <2>1, <3>1, <3>5, <3>6, <3>7, Zenon DEF Booting
  <2>4. CASE ~Raise /\ ~Complete /\ stage # "boot"
    BY <1>1, <1>9, <2>4, Zenon DEF AppendRule
  <2>. QED
    BY <2>2, <2>3, <2>4, Zenon
<1>10. CASE NftCommand
  <2>1. CASE Raise \/ Complete
    <3>1. run.op # "idle"
      BY <1>10, Zenon DEF NftCommand
    <3>. QED
      BY <1>0, <1>1, <2>1, <3>1, RaiseFacts, CompleteFacts, Zenon
  <2>2. CASE ~Raise /\ ~Complete
    BY <1>0, <1>1, <1>10, <2>2, Zenon DEF NftCommand, Staged
  <2>. QED
    BY <2>1, <2>2, Zenon
<1>11. CASE Persist
  BY <1>1, <1>11, Zenon DEF Persist
<1>12. CASE Tamper
  <2>. SUFFICES ASSUME stage' = "boot" PROVE Booting'
    BY <1>1, Zenon
  <2>1. /\ clean' = FALSE /\ UNCHANGED <<firewalld, firewalldEnabled, stage, run>>
        /\ nft' = nft \/ nft = "ok"
        /\ chain' = chain \/ chain' \in Tampered
    BY <1>12, Zenon DEF Tamper
  <2>2. stage = "boot" => nft = "absent" /\ (firewalld => firewalldEnabled)
    BY Zenon DEF FirewallInv, Booting
  <2>3. stage = "boot" /\ run.op = "idle" /\ Manager = "iptables" /\ ~firewalld => chain' = <<>>
    <3>. SUFFICES ASSUME stage = "boot", run.op = "idle", Manager = "iptables", ~firewalld
                  PROVE  chain' = <<>>
      BY Zenon
    <3>1. chain = <<>> /\ FirewalldChain = <<>>
      BY Zenon DEF FirewallInv, Booting, FirewalldChain
    <3>2. \A c \in Tampered : c = <<>>
      BY <3>1, WithoutEmpty, Zenon DEF Tampered
    <3>. QED
      BY <2>1, <3>1, <3>2, Zenon
  <2>. QED
    BY <1>0, <2>1, <2>2, <2>3, Zenon DEF Booting
<1>13. CASE RestartAgent
  BY <1>1, <1>13, Zenon DEF RestartAgent
<1>14. CASE Reboot
  <2>1. nft' = "absent" /\ run' = Idle /\ chain' = FirewalldChain' /\ (firewalld' => firewalldEnabled')
    BY <1>14, Zenon DEF Reboot, NewProcess
  <2>2. ~firewalld' => chain' = <<>>
    BY <2>1, Zenon DEF FirewalldChain
  <2>. QED
    BY <1>0, <2>1, <2>2, RunFacts, Zenon DEF Booting
<1>15. CASE UNCHANGED vars
  <2>1. UNCHANGED <<platform, stage, nft, run, firewalld, firewalldEnabled, chain, permanent, clean>>
    BY <1>15, Zenon DEF vars
  <2>2. FirewalldChain' = FirewalldChain
    BY <2>1, Zenon DEF FirewalldChain
  <2>3. Booting
    BY Zenon DEF FirewallInv
  <2>. QED
    BY <1>0, <2>1, <2>2, <2>3, Zenon DEF Booting
<1>. QED
  BY <1>2, <1>3, <1>4, <1>5, <1>6, <1>7, <1>8, <1>9, <1>10, <1>11, <1>12, <1>13, <1>14, <1>15, Zenon
     DEF Next, Progress, Disturbance

(* The boot ends with the rules in place.                                  *)
LEMMA SurviveStep ==
    ASSUME FirewallInv, [Next]_vars
    PROVE  PersistedRulesSurviveReboot'
<1>0. /\ Staged /\ Listing /\ Manager' = Manager /\ platform' = platform /\ Listing'
      /\ (Supported' <=> Supported)
  <2>1. Manager' = Manager /\ platform' = platform /\ Staged /\ Listing
    BY MachineStep, Zenon DEF FirewallInv
  <2>. QED
    BY <2>1, ListingStep, Zenon DEF Supported
<1>1. /\ (/\ chain' \in Seq(Entries) /\ (Has(chain', Rule("drop")) \/ Has(chain', HiddenDrop))
          /\ ~BareDrop(chain') /\ ~Has(chain', Rule("legacy"))) => Protects'
      /\ (chain' \in Seq(Entries) /\ ~Has(chain', Rule("drop")) /\ ~Has(chain', HiddenDrop) /\ nft' = "ok")
            => Protects'
  <2>1. Ordered' => Protects'
    BY OrderedRulesProtect, PTL
  <2>2. NftOnly' => Protects'
    BY NftProtects, PTL
  <2>. QED
    BY <2>1, <2>2, Zenon DEF Ordered, NftOnly
<1>2. ASSUME stage' # "starting" \/ ~clean'
      PROVE  PersistedRulesSurviveReboot'
  BY <1>2, Zenon DEF PersistedRulesSurviveReboot
<1>3. CASE BootService
  <2>1. CASE stage' # "starting"
    BY <1>2, <2>1, Zenon
  <2>2. CASE stage' = "starting"
    <3>. SUFFICES ASSUME clean', InForce', Supported'
                  PROVE  Protects'
      BY Zenon DEF PersistedRulesSurviveReboot
    <3>1. /\ stage = "boot" /\ run.op = "idle" /\ clean /\ chain' = chain
          /\ UNCHANGED <<persisted, firewalld, firewalldEnabled>>
          /\ \/ ~(service.binary /\ service.unit # "none" /\ service.enabled)
             \/ Manager = "none" \/ (Manager = "iptables" /\ firewalldEnabled)
      BY <1>3, <2>2, Zenon DEF BootService, tools
    <3>2. Manager = "iptables" /\ platform.modules /\ platform.iptables /\ firewalld
          /\ \A r \in Rules : Has(permanent, r)
      <4>1. Manager = "nft" \/ (Manager = "iptables" /\ platform.modules)
        BY <1>0, Zenon DEF Supported
      <4>2. Kept
        BY Zenon DEF FirewallInv, Booting
      <4>3. InForce
        BY <1>0, <3>1, Zenon DEF InForce
      <4>. QED
        BY <3>1, <4>1, <4>2, <4>3, ManagerFacts, Zenon DEF InForce, Kept
    <3>3. chain' = RulesOf(permanent)
      BY <3>1, <3>2, Zenon DEF FirewallInv, Booting, FirewalldChain
    <3>4. permanent \in Seq(PermanentRules) /\ Sorted(permanent)
      BY <1>0, Zenon DEF Listing
    <3>5. \A r \in Rules : Has(chain', Rule(r))
      BY <3>2, <3>3, <3>4, RulesOfFacts, Zenon
    <3>6. /\ chain' \in Seq(Entries) /\ ~BareDrop(chain') /\ ~Has(chain', Rule("legacy"))
          /\ Has(chain', Rule("drop"))
      BY <3>3, <3>4, <3>5, RulesOfFacts, CommandFacts, Zenon
    <3>. QED
      BY <1>1, <3>6, Zenon
  <2>. QED
    BY <2>1, <2>2, Zenon
<1>4. CASE StartInitialization
  BY <1>2, <1>4, Zenon DEF StartInitialization
<1>5. CASE RemoveLegacyRule
  BY <1>0, <1>2, <1>5, Zenon DEF RemoveLegacyRule, Staged
<1>6. ASSUME NEW b \in BOOLEAN, StartPeriodicCheck(b)
      PROVE  PersistedRulesSurviveReboot'
  BY <1>2, <1>6, Zenon DEF StartPeriodicCheck
<1>7. CASE CheckRule
  <2>1. run.op = "check" /\ run.op # "idle" /\ stage # "starting" /\ (Raise \/ stage' = stage)
    BY <1>0, <1>7, Zenon DEF CheckRule, Staged
  <2>. QED
    BY <1>0, <1>2, <2>1, RaiseFacts, Zenon
<1>8. CASE CheckDone
  <2>1. run.op = "check" /\ run.op # "idle" /\ stage \notin {"boot", "starting"}
    BY <1>0, <1>8, Zenon DEF CheckDone, Staged
  <2>2. stage' # "starting"
    BY <1>0, <1>8, <2>1, CheckDoneFacts, CompleteFacts, RaiseFacts, Zenon DEF Listing
  <2>. QED
    BY <1>2, <2>2, Zenon
<1>9. CASE RemoveRule
  <2>1. run.op = "remove" /\ run.op # "idle" /\ stage # "starting" /\ (Raise \/ stage' = stage)
    BY <1>0, <1>9, Zenon DEF RemoveRule, Staged
  <2>. QED
    BY <1>0, <1>2, <2>1, RaiseFacts, Zenon
<1>10. CASE AppendRule
  <2>1. run.op = "setup" /\ run.op # "idle" /\ run.k \in 1..3 /\ Manager = "iptables" /\ stage # "starting"
    BY <1>0, <1>10, Zenon DEF AppendRule, Staged
  <2>2. CASE Raise
    BY <1>0, <1>2, <2>1, <2>2, RaiseFacts, Zenon
  <2>3. CASE ~Raise
    <3>. DEFINE r == Commands[run.k]
                y == IF r = "drop" /\ ~conntrack THEN HiddenDrop ELSE Rule(r)
    <3>1. /\ chain' = Append(chain, y) /\ clean' = clean
          /\ IF run.k < 3 THEN stage' = stage ELSE Complete
      BY <1>10, <2>3, Zenon DEF AppendRule
    <3>2. CASE run.k < 3
      BY <1>2, <2>1, <3>1, <3>2, Zenon
    <3>3. CASE ~(run.k < 3)
      <4>. SUFFICES ASSUME stage = "boot", clean
                    PROVE  Protects'
        BY <1>0, <1>2, <2>1, <3>1, <3>3, CompleteFacts, Zenon DEF PersistedRulesSurviveReboot
      <4>1. /\ run.k = 3 /\ 1 \in 1..(run.k - 1) /\ 2 \in 1..(run.k - 1)
        BY <2>1, <3>3, SMT
      <4>2. /\ Has(chain, Rule("dns")) /\ Has(chain, Rule("accept"))
            /\ ~Has(chain, Rule("drop")) /\ ~Has(chain, HiddenDrop) /\ ~Has(chain, Rule("legacy"))
        <5>1. \A j \in 1..(run.k - 1) : Has(chain, Rule(Commands[j]))
          BY <2>1, Zenon DEF FirewallInv, Found
        <5>. QED
          BY <2>1, <4>1, <5>1, CommandFacts, Zenon DEF FirewallInv, Booting
      <4>3. chain \in Seq(Entries)
        BY <1>0, Zenon DEF Listing
      <4>4. y \in {HiddenDrop, Rule("drop")} /\ y \in Entries
        BY <4>1, CommandFacts, RulesAreEntries, Zenon
      <4>. HIDE DEF y
      <4>5. chain' \in Seq(Entries) /\ \A x : Has(chain', x) <=> (Has(chain, x) \/ x = y)
        BY <3>1, <4>3, <4>4, AppendHas, Zenon
      <4>6. ~BareDrop(chain')
        <5>1. ~BareDrop(chain)
          BY <4>2, <4>3, NoDropNotBare, Zenon
        <5>. QED
          BY <3>1, <4>2, <4>3, <4>4, <5>1, AppendNotBare, Zenon
      <4>7. ~Has(chain', Rule("legacy")) /\ (Has(chain', Rule("drop")) \/ Has(chain', HiddenDrop))
        BY <4>2, <4>4, <4>5, RuleFacts, Zenon
      <4>. QED
        BY <1>1, <4>5, <4>6, <4>7, Zenon
    <3>. QED
      BY <3>2, <3>3, Zenon
  <2>. QED
    BY <2>2, <2>3, Zenon
<1>11. CASE NftCommand
  <2>1. run.op \in {"remove", "setup"} /\ run.op # "idle" /\ Manager = "nft" /\ stage # "starting"
    BY <1>0, <1>11, Zenon DEF NftCommand, Staged
  <2>2. CASE Raise
    BY <1>0, <1>2, <2>1, <2>2, RaiseFacts, Zenon
  <2>3. CASE ~Raise /\ run.op = "remove"
    BY <1>2, <1>11, <2>1, <2>3, Zenon DEF NftCommand
  <2>4. CASE ~Raise /\ run.op = "setup"
    <3>1. nft = "absent"
      BY <2>1, <2>4, Zenon DEF FirewallInv, Found
    <3>2. nft' = "ok"
      BY <1>11, <2>4, <3>1, Zenon DEF NftCommand
    <3>3. chain' \in Seq(Entries) /\ ~Has(chain', Rule("drop")) /\ ~Has(chain', HiddenDrop)
      BY <1>0, <2>1, Zenon DEF Listing
    <3>4. Protects'
      BY <1>1, <3>2, <3>3, Zenon
    <3>. QED
      BY <3>4, Zenon DEF PersistedRulesSurviveReboot
  <2>. QED
    BY <2>1, <2>2, <2>3, <2>4, Zenon
<1>12. CASE Persist
  BY <1>2, <1>12, Zenon DEF Persist
<1>13. CASE Tamper
  BY <1>2, <1>13, Zenon DEF Tamper
<1>14. CASE RestartAgent
  BY <1>2, <1>14, Zenon DEF RestartAgent
<1>15. CASE Reboot
  BY <1>2, <1>15, Zenon DEF Reboot
<1>16. CASE UNCHANGED vars
  <2>1. UNCHANGED <<chain, nft, stage, clean, persisted, firewalld, firewalldEnabled>>
    BY <1>16, Zenon DEF vars
  <2>2. Protects' <=> Protects
    BY <2>1, Zenon DEF Protects, LoneDrop, Dropped
  <2>3. PersistedRulesSurviveReboot
    BY Zenon DEF FirewallInv
  <2>. QED
    BY <1>0, <2>1, <2>2, <2>3, Zenon DEF PersistedRulesSurviveReboot, InForce
<1>. QED
  BY <1>3, <1>4, <1>5, <1>6, <1>7, <1>8, <1>9, <1>10, <1>11, <1>12, <1>13, <1>14, <1>15, <1>16, Zenon
     DEF Next, Progress, Disturbance

(* The initial states satisfy the invariant.                               *)
LEMMA FirewallInit == Init => FirewallInv
<1>. SUFFICES ASSUME Init PROVE FirewallInv
  BY Zenon
<1>1. /\ run = Idle /\ env = NewEnableFirewall /\ nft = "absent" /\ raced = FALSE /\ persisted = "no"
      /\ \/ stage = "boot" /\ (firewalld => firewalldEnabled) /\ chain = FirewalldChain
         \/ stage = "starting" /\ platform.modules /\ chain = <<Rule("legacy")>>
  BY Zenon DEF Init
<1>2. Staged
  <2>1. NewEnableFirewall \in EnableFirewallType /\ NewEnableFirewall.manager = "none"
    BY SMT DEF NewEnableFirewall, EnableFirewallType, States, Managers
  <2>. QED
    BY <1>1, <2>1, RunFacts, Zenon DEF Staged
<1>3. permanent \in Seq(PermanentRules) /\ Sorted(permanent)
  <2>1. CASE permanent = <<>>
    BY <2>1, SMT DEF Sorted
  <2>2. CASE permanent = <<"dns">>
    BY <2>2, SMT DEF Sorted, PermanentRules
  <2>3. CASE permanent = <<"legacyDns", "accept", "drop">>
    BY <2>3, SMT DEF Sorted, PermanentRules
  <2>. QED
    BY <2>1, <2>2, <2>3, Zenon DEF Init
<1>4. \/ stage = "boot" /\ chain = FirewalldChain
      \/ /\ stage = "starting" /\ chain \in Seq(Entries)
         /\ \A x : Has(chain, x) => x = Rule("legacy")
  <2>1. CASE chain = <<Rule("legacy")>>
    <3>1. Rule("legacy") \in Entries
      BY RulesAreEntries, Zenon
    <3>2. Len(chain) = 1 /\ chain[1] = Rule("legacy") /\ chain \in Seq(Entries)
      BY <2>1, <3>1, SMT
    <3>3. \A i \in 1..1 : i = 1
      BY SMT
    <3>4. \A x : Has(chain, x) => x = Rule("legacy")
      BY <3>2, <3>3, Zenon DEF Has
    <3>. QED
      BY <1>1, <2>1, <3>2, <3>4, Zenon
  <2>. QED
    BY <1>1, <2>1, Zenon
<1>5. /\ chain \in Seq(Entries) /\ ~Has(chain, HiddenDrop) /\ (AllExist => ~BareDrop(chain))
      /\ Manager # "iptables" => ~Has(chain, Rule("drop"))
  <2>1. CASE stage = "boot" /\ chain = FirewalldChain
    BY <1>3, <2>1, FirewalldChainFacts, ManagerFacts, EmptyHas, Zenon DEF AllExist
  <2>2. CASE chain \in Seq(Entries) /\ \A x : Has(chain, x) => x = Rule("legacy")
    <3>1. ~Has(chain, HiddenDrop) /\ ~Has(chain, Rule("drop"))
      BY <2>2, RuleFacts, Zenon
    <3>. QED
      BY <2>2, <3>1, CommandFacts, Zenon DEF AllExist
  <2>. QED
    BY <1>4, <2>1, <2>2, Zenon
<1>6. Listing
  BY <1>1, <1>3, <1>5, Zenon DEF Listing
<1>7. InOrder
  BY <1>1, <1>5, RunFacts, Zenon DEF InOrder, Covered
<1>8. Found
  BY <1>1, RunFacts, Zenon DEF Found
<1>9. Booting
  <2>1. ~firewalld => FirewalldChain = <<>>
    BY Zenon DEF FirewalldChain
  <2>. QED
    BY <1>1, <2>1, RunFacts, Zenon DEF Booting, Kept
<1>. QED
  BY <1>1, <1>2, <1>6, <1>7, <1>8, <1>9, Zenon DEF FirewallInv, PersistedRulesSurviveReboot, InForce

(* The inductive invariant holds in every state of Firewall.               *)
THEOREM FirewallInvHolds == Spec => []FirewallInv
<1>1. FirewallInv /\ [Next]_vars => FirewallInv'
  <2>. SUFFICES ASSUME FirewallInv, [Next]_vars PROVE FirewallInv'
    BY Zenon
  <2>1. Staged /\ Listing
    BY Zenon DEF FirewallInv
  <2>2. Staged' /\ Listing'
    BY <2>1, StagedStep, ListingStep, Zenon
  <2>. QED
    BY <2>2, InOrderStep, FoundStep, BootingStep, SurviveStep, Zenon DEF FirewallInv
<1>. QED
  BY <1>1, FirewallInit, PTL DEF Spec

(* EnableFirewall reports OK only when the rules do what they are for.     *)
THEOREM OkMeansProtectedHolds == Spec => []OkMeansProtected
<1>1. FirewallInv => OkMeansProtected
  <2>. SUFFICES ASSUME FirewallInv, stage = "running", run.op = "idle", env.manager # "none",
                       env.state = "OK", clean, ~HasHiddenRule, ~raced, ~Listed("legacy")
                PROVE  Protects
    BY Zenon DEF OkMeansProtected, NotSeenByCheck
  <2>1. Staged /\ chain \in Seq(Entries) /\ (Manager # "iptables" => ~Has(chain, Rule("drop")) /\ ~Has(chain, HiddenDrop))
    BY Zenon DEF FirewallInv, Listing
  <2>2. Manager \in {"iptables", "nft"}
    BY <2>1, ManagerFacts, Zenon DEF Staged
  <2>3. ~Has(chain, HiddenDrop) /\ ~Has(chain, Rule("legacy"))
    <3>1. \A i \in 1..Len(chain) : ~chain[i].hidden /\ chain[i].rule # "legacy"
      BY Zenon DEF HasHiddenRule, Listed
    <3>. QED
      BY <3>1, RuleFacts, Zenon DEF Has
  <2>4. CASE Manager = "iptables"
    <3>1. AllExist
      BY <2>3, <2>4, Zenon DEF FirewallInv, Found
    <3>2. Has(chain, Rule("drop")) /\ ~BareDrop(chain)
      BY <2>3, <2>4, <3>1, CommandFacts, Zenon DEF FirewallInv, InOrder, Covered, AllExist
    <3>. QED
      BY <2>1, <2>3, <3>2, OrderedRulesProtect, Zenon DEF Ordered
  <2>5. CASE Manager = "nft"
    <3>1. nft = "ok"
      BY <2>5, Zenon DEF FirewallInv, Found
    <3>. QED
      BY <2>1, <2>5, <3>1, NftProtects, Zenon DEF NftOnly
  <2>. QED
    BY <2>2, <2>4, <2>5, Zenon
<1>. QED
  BY <1>1, FirewallInvHolds, PTL

(* The rules that an initialization persisted are there after a reboot,    *)
(* before the agent starts: those of firewalld whenever it runs, those of  *)
(* network-setup whenever firewalld is not enabled.                        *)
THEOREM PersistedRulesSurviveRebootHolds == Spec => []PersistedRulesSurviveReboot
<1>1. FirewallInv => PersistedRulesSurviveReboot
  BY Zenon DEF FirewallInv
<1>. QED
  BY <1>1, FirewallInvHolds, PTL

(***************************************************************************)
(* HostChannel, for any number of locations, retries, pages, faults and    *)
(* changes of the host: it implements PackageDownload, the host plugin is  *)
(* reported as unhealthy only after failures, and a download that fails    *)
(* has an explanation.                                                     *)
(*                                                                         *)
(* That a step of HostChannel is a step of PackageDownload or a stutter    *)
(* depends on what is on disk while a package is downloaded; Files says    *)
(* what that is at each step of _download_with_fallback_channel.           *)
(* FailuresAreExplained rests on where the retries of http_request end:    *)
(* the last attempt is the least one that is not retried, and there is one *)
(* by the least-number principle.                                          *)
(***************************************************************************)
(* The fields of the operation of the main thread.                         *)
Operations == [op : {"idle", "zip", "manifest", "status"},
               step : {"none", "uri", "call", "refresh", "downloaded", "goalstate", "put", "gone", "fallback"},
               left : Int, rank : {"none", "primary", "secondary"}, chan : {"none", "direct", "host"},
               refreshed : BOOLEAN, ver : Int, type : {"none", "BlockBlob", "PageBlob"}, page : Int, excuse : BOOLEAN]

(* There is a zip file only between the end of a call that streamed it and *)
(* on_downloaded, which deletes it, and a part of a package nowhere, apart *)
(* from what could not be deleted; there is no package, and no result,     *)
(* before the download ends; and a download of a package is at a step of a *)
(* download.                                                               *)
Files ==
    /\ main \in Operations /\ status \in Int
    /\ channel \in {"direct", "host"}
    /\ stuck \subseteq {"zip", "dir"}
    /\ zip # "none" => (main.op = "zip" /\ main.step = "downloaded") \/ "zip" \in stuck
    /\ dir \in {"absent", "partial", "complete"} /\ (dir = "partial" => "dir" \in stuck)
    /\ main.op = "zip" => dir # "complete" /\ result = "none"
    /\ main.op = "zip" => main.step \in {"uri", "call", "refresh", "downloaded"}
    /\ main.step \in {"uri", "call", "refresh"} => main.op \in {"zip", "manifest"}
    /\ main.step = "downloaded" => main.op = "zip"
    /\ main.step \in {"goalstate", "put", "gone", "fallback"} => main.op = "status"

----------------------------------------------------------------------------
(* A channel that failed leaves the download at the other channel or at    *)
(* the next location.                                                      *)
LEMMA CallFailedKeepsOperation ==
    ASSUME Files, NEW e \in BOOLEAN, CallFailed(e)
    PROVE  main' \in Operations /\ main'.op = main.op /\ main'.step \in {"uri", "call"}
  BY ZenonT(60) DEF Files, Operations, CallFailed, Other

(* A step in which no package is asked for and none is finished.           *)
Elsewhere == /\ main'.op = "zip" <=> main.op = "zip"
             /\ main.op # "zip" => UNCHANGED <<zip, dir, stuck>>
             /\ result' = result

(* A response that arrives ends the call with the file on disk, or fails.  *)
LEMMA ReceivedKeepsFiles ==
    ASSUME Files, main.step = "call", main.op \in {"zip", "manifest"}, Received, UNCHANGED <<dir, status>>
    PROVE  Files' /\ Elsewhere
  <1>1. PICK t \in Streams :
            /\ main.op = "manifest" => t.zip # "partial"
            /\ zip' = IF main.op = "zip" THEN t.zip ELSE zip
            /\ stuck' = stuck \cup t.undeleted
            /\ IF t.raised THEN CallFailed(TRUE) /\ UNCHANGED <<channel, result, unexplained>> ELSE CallSucceeded
    BY Zenon DEF Received
  <1>2. /\ t.undeleted \subseteq {"zip", "dir"}
        /\ t.raised /\ t.zip # "none" => "zip" \in t.undeleted
        /\ t.zip # "partial" => t.undeleted = {}
    BY <1>1 DEF Streams
  <1>3. /\ stuck' \subseteq {"zip", "dir"} /\ stuck \subseteq stuck'
        /\ main.op = "manifest" => stuck' = stuck /\ zip' = zip
        /\ "zip" \in t.undeleted => "zip" \in stuck'
    BY <1>1, <1>2, Zenon DEF Files
  <1>4. CASE t.raised
    <2>1. main' \in Operations /\ main'.op = main.op /\ main'.step \in {"uri", "call"} /\ UNCHANGED <<channel, result>>
      BY <1>1, <1>4, CallFailedKeepsOperation, Zenon
    <2>2. zip' # "none" => "zip" \in stuck'
      BY <1>1, <1>2, <1>3, <1>4, Zenon DEF Files
    <2> QED
      BY <1>3, <2>1, <2>2, Zenon DEF Files, Elsewhere
  <1>5. CASE ~t.raised
    <2>1. channel' \in {"direct", "host"}
      BY <1>1, <1>5, Zenon DEF Files, CallSucceeded, DefaultAfterSuccess, Other
    <2>2. CASE main.op = "zip"
      <3>1. main' = [main EXCEPT !.step = "downloaded"] /\ result' = result
        BY <1>1, <1>5, <2>2, Zenon DEF CallSucceeded
      <3>2. main' \in Operations /\ main'.op = "zip" /\ main'.step = "downloaded"
        BY <2>2, <3>1, Zenon DEF Files, Operations
      <3> QED
        BY <1>3, <2>1, <2>2, <3>1, <3>2, Zenon DEF Files, Elsewhere
    <2>3. CASE main.op = "manifest"
      <3>1. main' = NoOperation /\ result' = result
        BY <1>1, <1>5, <2>3, Zenon DEF CallSucceeded
      <3>2. main' \in Operations /\ main'.op = "idle" /\ main'.step = "none"
        BY <3>1 DEF NoOperation, Operations
      <3> QED
        BY <1>3, <2>1, <2>3, <3>1, <3>2, Zenon DEF Files, Elsewhere
    <2> QED
      BY <2>2, <2>3, Zenon
  <1> QED
    BY <1>4, <1>5, Zenon

(* A call that raised deletes the file, or remembers that it could not.    *)
LEMMA StreamRaisedKeepsFiles ==
    ASSUME Files, main.step = "call", main.op \in {"zip", "manifest"}, NEW o, StreamRaised(o)
    PROVE  /\ stuck' \subseteq {"zip", "dir"} /\ stuck \subseteq stuck'
           /\ zip' # "none" => "zip" \in stuck'
           /\ main.op # "zip" => UNCHANGED <<zip, stuck>>
  <1>1. zip # "none" => "zip" \in stuck
    BY Zenon DEF Files
  <1>2. CASE main.op = "zip" /\ Removed({})
    BY <1>2, Zenon DEF Removed, Files
  <1>3. CASE main.op = "zip" /\ Removed({"zip"})
    BY <1>3, Zenon DEF Removed, Files
  <1>4. CASE main.op = "manifest" /\ UNCHANGED <<zip, stuck>>
    BY <1>1, <1>4, Zenon DEF Files
  <1> QED
    BY <1>2, <1>3, <1>4, Zenon DEF StreamRaised

----------------------------------------------------------------------------
(* The steps of a download keep Files, and each is a step of               *)
(* PackageDownload or one in which no package is asked for or finished.    *)
LEMMA DownloadStep ==
    ASSUME Files, Download
    PROVE  Files' /\ (Elsewhere \/ Promise!Begin \/ Promise!Finish)
  <1>1. CASE StartZip
    <2>1. main' \in Operations /\ main'.op = "zip" /\ main'.step = "uri"
      <3>1. NoOperation \in Operations /\ Uris \in Int
        BY SizesAssumption DEF NoOperation, Operations
      <3> QED
        BY <1>1, <3>1, ZenonT(60) DEF StartZip, Operations
    <2>2. /\ stuck' \subseteq {"zip", "dir"}
          /\ zip' # "none" => "zip" \in stuck'
          /\ dir' \in {"absent", "partial"} /\ (dir' = "partial" => "dir" \in stuck')
      <3>1. main.op = "idle"
        BY <1>1, Zenon DEF StartZip
      <3>2. CASE zip' = "none" /\ dir' = "absent" /\ stuck' = {}
        BY <3>2, Zenon
      <3>3. CASE dir # "complete" /\ UNCHANGED <<zip, dir, stuck>>
        BY <3>1, <3>3, Zenon DEF Files
      <3> QED
        BY <1>1, <3>2, <3>3, Zenon DEF StartZip
    <2>3. main.op = "idle" /\ result' = "none" /\ UNCHANGED <<channel, status>>
      BY <1>1, Zenon DEF StartZip
    <2>4. Files'
      BY <2>1, <2>2, <2>3, Zenon DEF Files
    <2> QED
      BY <2>1, <2>3, <2>4, Zenon DEF Promise!Begin
  <1>2. CASE StartManifest
    <2>1. main' \in Operations /\ main'.op = "manifest" /\ main'.step = "uri"
      <3>1. NoOperation \in Operations /\ Uris \in Int
        BY SizesAssumption DEF NoOperation, Operations
      <3> QED
        BY <1>2, <3>1, ZenonT(60) DEF StartManifest, Operations
    <2> QED
      BY <1>2, <2>1, Zenon DEF Files, StartManifest, Elsewhere, package
  <1>3. CASE NextUri
    <2>0. /\ main.step = "uri" /\ (zip # "none" => "zip" \in stuck)
          /\ UNCHANGED <<zip, dir, stuck, channel, status>>
      BY <1>3, Zenon DEF NextUri, Files
    <2>1. CASE /\ main' = [main EXCEPT !.step = "call", !.left = @ - 1, !.rank = "primary", !.chan = channel]
               /\ UNCHANGED <<result, unexplained>>
      <3>1. channel \in {"none", "direct", "host"} /\ main \in Operations /\ main.left - 1 \in Int
        BY DEF Files, Operations
      <3>2. main' \in Operations /\ main'.op = main.op /\ main'.step = "call"
        BY <2>1, <3>1, Zenon DEF Operations
      <3> QED
        BY <2>0, <2>1, <3>2, Zenon DEF Files, Elsewhere
    <2>2. CASE \E e \in BOOLEAN : EndDownload("failed", e)
      <3>1. main' = NoOperation /\ result' = IF main.op = "zip" THEN "failed" ELSE result
        BY <2>2, Zenon DEF EndDownload
      <3>2. main' \in Operations /\ main'.op = "idle" /\ main'.step = "none"
        BY <3>1 DEF NoOperation, Operations
      <3>3. CASE main.op = "zip"
        <4>1. Files' /\ result' = "failed"
          BY <2>0, <3>1, <3>2, <3>3, Zenon DEF Files
        <4>2. (zip' # "none") \in {FALSE, "zip" \in stuck'}
          BY <2>0, Zenon
        <4>3. stuck' \in SUBSET {"zip", "dir"} /\ (dir' = "absent" \/ (dir' = "partial" /\ "dir" \in stuck'))
          BY <2>0, <3>3, Zenon DEF Files
        <4> QED
          BY <3>2, <3>3, <4>1, <4>2, <4>3, Zenon DEF Promise!Finish
      <3>4. CASE main.op # "zip"
        BY <2>0, <3>1, <3>2, <3>4, Zenon DEF Files, Elsewhere
      <3> QED
        BY <3>3, <3>4, Zenon
    <2>3. main.excuse \in BOOLEAN
      BY Zenon DEF Files, Operations
    <2> QED
      BY <1>3, <2>1, <2>2, <2>3, Zenon DEF NextUri
  <1>4. CASE DirectCall
    <2>0. main.step = "call" /\ main.op \in {"zip", "manifest"} /\ dir' = dir /\ status' = status
      BY <1>4, Zenon DEF DirectCall, Files
    <2>1. CASE Received
      BY <2>0, <2>1, ReceivedKeepsFiles, Zenon
    <2>2. CASE /\ \E o : StreamRaised(o)
               /\ \E e \in BOOLEAN : CallFailed(e)
               /\ UNCHANGED <<channel, result, unexplained>>
      <3>1. main' \in Operations /\ main'.op = main.op /\ main'.step \in {"uri", "call"}
        BY <2>2, CallFailedKeepsOperation, Zenon
      <3> QED
        BY <2>0, <2>2, <3>1, StreamRaisedKeepsFiles, Zenon DEF Files, Elsewhere
    <2> QED
      BY <1>4, <2>1, <2>2, Zenon DEF DirectCall
  <1>5. CASE HostCall
    <2>0. main.step = "call" /\ main.op \in {"zip", "manifest"} /\ dir' = dir /\ status' = status
      BY <1>5, Zenon DEF HostCall, Files
    <2>1. CASE Received
      BY <2>0, <2>1, ReceivedKeepsFiles, Zenon
    <2>2. CASE /\ \E o : StreamRaised(o)
               /\ \E e \in BOOLEAN : CallFailed(e)
               /\ UNCHANGED <<channel, result, unexplained>>
      <3>1. main' \in Operations /\ main'.op = main.op /\ main'.step \in {"uri", "call"}
        BY <2>2, CallFailedKeepsOperation, Zenon
      <3> QED
        BY <2>0, <2>2, <3>1, StreamRaisedKeepsFiles, Zenon DEF Files, Elsewhere
    <2>3. CASE /\ \E o : StreamRaised(o)
               /\ main' = [main EXCEPT !.step = "refresh"]
               /\ UNCHANGED <<channel, result, unexplained>>
      <3>1. main' \in Operations /\ main'.op = main.op /\ main'.step = "refresh"
        BY <2>3, Zenon DEF Files, Operations
      <3> QED
        BY <2>0, <2>3, <3>1, StreamRaisedKeepsFiles, Zenon DEF Files, Elsewhere
    <2> QED
      BY <1>5, <2>1, <2>2, <2>3, Zenon DEF HostCall
  <1>6. CASE Refresh
    <2>0. /\ main.step = "refresh" /\ (zip # "none" => "zip" \in stuck)
          /\ UNCHANGED <<dir, zip, stuck, result, status, channel>>
      BY <1>6, Zenon DEF Refresh, Files, package
    <2>1. CASE CallFailed(TRUE)
      BY <2>0, <2>1, CallFailedKeepsOperation, Zenon DEF Files, Elsewhere
    <2>2. CASE main' = [main EXCEPT !.step = "call", !.refreshed = TRUE]
      BY <2>0, <2>2, Zenon DEF Files, Operations, Elsewhere
    <2> QED
      BY <1>6, <2>1, <2>2, Zenon DEF Refresh
  <1>7. CASE OnDownloaded
    <2>0. main.step = "downloaded" /\ main.op = "zip" /\ UNCHANGED <<channel, status>>
      BY <1>7, Zenon DEF OnDownloaded, Files
    <2>1. ASSUME NEW r \in {"ok", "signature"}, EndDownload(r, TRUE), stuck' \subseteq {"zip", "dir"},
                 zip' # "none" => "zip" \in stuck',
                 dir' = "absent" \/ (dir' = "partial" /\ "dir" \in stuck') \/ dir' = "complete",
                 r = "ok" => dir' = "complete"
          PROVE  Files' /\ Promise!Finish
      <3>1. main' = NoOperation /\ result' = r
        BY <2>0, <2>1, Zenon DEF EndDownload
      <3>2. main' \in Operations /\ main'.op = "idle" /\ main'.step = "none"
        BY <3>1 DEF NoOperation, Operations
      <3>3. Files'
        BY <2>0, <2>1, <3>1, <3>2, Zenon DEF Files
      <3>4. (zip' # "none") \in {FALSE, "zip" \in stuck'} /\ stuck' \in SUBSET {"zip", "dir"}
        BY <2>1, Zenon
      <3> QED
        BY <2>0, <2>1, <3>1, <3>2, <3>3, <3>4, Zenon DEF Promise!Finish
    <2>2. PICK sig \in {"none", "valid", "invalid", "invalid but not enforced"}, expanded \in BOOLEAN, undeleted \in SUBSET {"zip", "dir"} :
              IF sig = "invalid"
              THEN /\ Removed(undeleted)
                   /\ EndDownload("signature", TRUE) /\ UNCHANGED dir
              ELSE /\ TryExpand(expanded, undeleted)
                   /\ IF expanded
                      THEN EndDownload(IF sig = "invalid but not enforced" THEN "signature" ELSE "ok", TRUE)
                      ELSE main' = [main EXCEPT !.step = "uri", !.refreshed = FALSE, !.excuse = TRUE] /\ UNCHANGED <<result, unexplained>>
      BY <1>7, Zenon DEF OnDownloaded
    <2>3. /\ stuck' = stuck \cup undeleted
          /\ zip' # "none" => "zip" \in stuck'
      BY <2>2, Zenon DEF Removed, TryExpand
    <2>4. stuck' \subseteq {"zip", "dir"} /\ stuck \subseteq stuck'
      BY <2>2, <2>3, Zenon DEF Files
    <2>5. dir = "absent" \/ (dir = "partial" /\ "dir" \in stuck)
      BY <2>0, Zenon DEF Files
    <2>6. CASE sig = "invalid"
      BY <2>1, <2>2, <2>3, <2>4, <2>5, <2>6, Zenon
    <2>7. CASE sig # "invalid" /\ expanded
      <3>1. dir' = "complete"
        BY <2>2, <2>7, Zenon DEF TryExpand
      <3> QED
        BY <2>1, <2>2, <2>3, <2>4, <2>7, <3>1, Zenon
    <2>8. CASE sig # "invalid" /\ ~expanded
      <3>1. dir' = "absent" \/ (dir' = "partial" /\ "dir" \in stuck')
        BY <2>2, <2>3, <2>5, <2>8, Zenon DEF TryExpand, Unfinished
      <3>2. main' = [main EXCEPT !.step = "uri", !.refreshed = FALSE, !.excuse = TRUE] /\ result' = result
        BY <2>2, <2>8, Zenon
      <3>3. main' \in Operations /\ main'.op = "zip" /\ main'.step = "uri"
        BY <2>0, <3>2, Zenon DEF Files, Operations
      <3> QED
        BY <2>0, <2>3, <2>4, <3>1, <3>2, <3>3, Zenon DEF Files, Elsewhere
    <2> QED
      BY <2>2, <2>6, <2>7, <2>8, Zenon
  <1> QED
    BY <1>1, <1>2, <1>3, <1>4, <1>5, <1>6, <1>7, Zenon DEF Download

(* The step that an upload is at after a request.                          *)
UploadGoesOn == /\ main' \in Operations
                /\ \/ main'.op = "idle" /\ main'.step = "none"
                   \/ main'.op = main.op /\ main'.step \in {"goalstate", "put", "gone", "fallback"}

(* A request that stored a blob or a page ends the upload or goes on.      *)
LEMMA StoredGoesOn ==
    ASSUME Files, Stored, main.step \in {"put", "fallback"}
    PROVE  UploadGoesOn
  <1>1. CASE main' = NoOperation
    BY <1>1 DEF NoOperation, Operations, UploadGoesOn
  <1>2. CASE main' = [main EXCEPT !.page = @ + 1]
    BY <1>2 DEF Files, Operations, UploadGoesOn
  <1> QED
    BY <1>1, <1>2, Zenon DEF Stored

(* So do the uploads, which leave packages alone.                          *)
LEMMA UploadStep ==
    ASSUME Files, Upload
    PROVE  Files' /\ Elsewhere
  <1>0. NoOperation \in Operations /\ NoOperation.op = "idle" /\ NoOperation.step = "none"
    BY DEF NoOperation, Operations
  <1>1. CASE StartUpload
    <2>1. PICK t \in {"BlockBlob", "PageBlob"} :
              main' = [NoOperation EXCEPT !.op = "status", !.step = IF hp.uri THEN "put" ELSE "goalstate", !.ver = status, !.type = t]
      BY <1>1, Zenon DEF StartUpload
    <2>2. main' \in Operations /\ main'.op = "status" /\ main'.step \in {"put", "goalstate"}
      BY <1>0, <2>1, ZenonT(60) DEF Operations, Files
    <2> QED
      BY <1>1, <2>2, Zenon DEF Files, Elsewhere, StartUpload, package
  <1>2. ASSUME UNCHANGED <<package, channel, status>>, main.step \in {"goalstate", "put", "gone", "fallback"}, UploadGoesOn
        PROVE  Files' /\ Elsewhere
    BY <1>2, Zenon DEF Files, Elsewhere, UploadGoesOn, package
  <1>3. CASE ResetGoalState
    <2>1. CASE main' = [main EXCEPT !.step = "put"]
      <3>1. UploadGoesOn
        BY <2>1, Zenon DEF Files, Operations, UploadGoesOn
      <3> QED
        BY <1>2, <1>3, <3>1, Zenon DEF ResetGoalState
    <2>2. CASE main' = NoOperation
      BY <1>0, <1>2, <1>3, <2>2, Zenon DEF ResetGoalState, UploadGoesOn
    <2> QED
      BY <1>3, <2>1, <2>2, Zenon DEF ResetGoalState
  <1>4. CASE PutVmStatus
    <2>1. CASE Stored
      BY <1>2, <1>4, <2>1, StoredGoesOn, Zenon DEF PutVmStatus
    <2>2. CASE main' = [main EXCEPT !.step = "gone"]
      <3>1. UploadGoesOn
        BY <2>2, Zenon DEF Files, Operations, UploadGoesOn
      <3> QED
        BY <1>2, <1>4, <3>1, Zenon DEF PutVmStatus
    <2>3. CASE main' = [main EXCEPT !.step = "fallback", !.page = 0]
      <3>1. PICK first \in Int : main' = [main EXCEPT !.step = "fallback", !.page = first]
        <4> WITNESS 0 \in Int
        <4> QED
          BY <2>3, Zenon
      <3>2. main' \in Operations /\ main'.op = main.op /\ main'.step = "fallback"
        BY <3>1, Zenon DEF Files, Operations
      <3> QED
        BY <1>2, <1>4, <3>2, Zenon DEF PutVmStatus, UploadGoesOn
    <2> QED
      BY <1>4, <2>1, <2>2, <2>3, Zenon DEF PutVmStatus
  <1>5. CASE Postpone
    BY <1>0, <1>2, <1>5, Zenon DEF Postpone, UploadGoesOn
  <1>6. CASE DirectUpload
    <2>1. CASE Stored
      BY <1>2, <1>6, <2>1, StoredGoesOn, Zenon DEF DirectUpload
    <2>2. CASE main' = NoOperation
      BY <1>0, <1>2, <1>6, <2>2, Zenon DEF DirectUpload, UploadGoesOn
    <2> QED
      BY <1>6, <2>1, <2>2, Zenon DEF DirectUpload
  <1> QED
    BY <1>1, <1>3, <1>4, <1>5, <1>6, Zenon DEF Upload

(* And so does everything else, the host included.                         *)
LEMMA OtherStep ==
    ASSUME Files, EnsureInitialized \/ UpdateGoalState \/ Monitor \/ Environment \/ UNCHANGED channelVars
    PROVE  Files' /\ Elsewhere
  <1>1. CASE EnsureInitialized
    <2>0. UNCHANGED <<channel, package, status>> /\ (main.step = "put" \/ (main.step = "call" /\ main.chan = "host"))
      BY <1>1, Zenon DEF EnsureInitialized
    <2>1. CASE UNCHANGED main
      BY <2>0, <2>1, Zenon DEF Files, Elsewhere, package
    <2>2. CASE main.op = "status" /\ main' = [main EXCEPT !.step = "fallback"]
      BY <2>0, <2>2, Zenon DEF Files, Operations, Elsewhere, package
    <2>3. CASE main.op # "status" /\ CallFailed(TRUE)
      <3>1. main' \in Operations /\ main'.op = main.op /\ main'.step \in {"uri", "call"}
        BY <2>3, CallFailedKeepsOperation, Zenon
      <3> QED
        BY <2>0, <2>3, <3>1, Zenon DEF Files, Elsewhere, package
    <2> QED
      BY <1>1, <2>1, <2>2, <2>3, Zenon DEF EnsureInitialized
  <1>2. CASE UNCHANGED <<main, package, channel>> /\ status' \in Int
    BY <1>2, Zenon DEF Files, Elsewhere, package
  <1>3. CASE NewStatus
    <2>1. status' \in Int
      BY <1>3 DEF NewStatus, Files
    <2> QED
      BY <1>2, <1>3, <2>1, Zenon DEF NewStatus
  <1>4. status \in Int
    BY Zenon DEF Files
  <1> QED
    BY <1>1, <1>2, <1>3, <1>4, Zenon DEF UpdateGoalState, Monitor, SendHostPluginHeartbeat, SendImdsHeartbeat,
       Environment, HostChanges, PeriodElapses, channelVars

----------------------------------------------------------------------------
(* download_zip_package: whatever the servers, the network, the host and   *)
(* the disk do, a download that succeeds ends with the whole package in    *)
(* its directory, and one that fails with neither directory nor zip file,  *)
(* apart from what could not be deleted.                                   *)
THEOREM DownloadsAreAtomicHolds == ChannelSpec => DownloadsAreAtomic
  <1>1. ChannelInit => Files /\ Promise!Init
    BY DEF ChannelInit, Files, NoOperation, Operations, Promise!Init
  <1>2. ASSUME Files, [ChannelNext]_channelVars
        PROVE  Files' /\ [Promise!Next]_(Promise!avars)
    <2>1. CASE Download
      BY <1>2, <2>1, DownloadStep, Zenon DEF Files, Elsewhere, Promise!Next, Promise!avars
    <2>2. CASE Upload
      BY <1>2, <2>2, UploadStep, Zenon DEF Files, Elsewhere, Promise!avars
    <2>3. CASE EnsureInitialized \/ UpdateGoalState \/ Monitor \/ Environment \/ UNCHANGED channelVars
      BY <1>2, <2>3, OtherStep, Zenon DEF Files, Elsewhere, Promise!avars
    <2> QED
      BY <1>2, <2>1, <2>2, <2>3, Zenon DEF ChannelNext
  <1> QED
    BY <1>1, <1>2, PTL DEF ChannelSpec, DownloadsAreAtomic, Promise!Spec

----------------------------------------------------------------------------
(* An error state is triggered only when no healthy observation was made   *)
(* since the error began, and what was sent was sent in such a state.      *)
ErrorStates == [signal : {"status", "fetch", "heartbeat", "imds"}, err : {"none", "recent", "old"},
                ok : {"recent", "old"}, due : BOOLEAN, sent : {"healthy", "unhealthy"}, sentOk : {"recent", "old"}]

Earned(h) == h \in ErrorStates /\ (h.err = "old" => h.ok = "old") /\ (h.sent = "unhealthy" => h.sentOk = "old")

(* Counting an observation and sending a signal keep this.                 *)
LEMMA ObserveKeepsEarned ==
    ASSUME Earned(health), NEW s, NEW healthy \in BOOLEAN, Observe(s, healthy)
    PROVE  Earned(health')
  <1>1. Earned(Counted(health, healthy))
    BY Zenon DEF Earned, ErrorStates, Counted
  <1>2. ASSUME NEW h \in ErrorStates, Earned(h)
        PROVE  Earned(Signalled(h))
    <2>1. (h.signal \in {"heartbeat", "imds"}) \in BOOLEAN
      OBVIOUS
    <2>2. Signalled(h) \in ErrorStates
      BY <2>1, ZenonT(60) DEF ErrorStates, Signalled, IsTriggered
    <2>3. Signalled(h).err = h.err /\ Signalled(h).ok = h.ok
      BY Zenon DEF ErrorStates, Signalled
    <2>4. Signalled(h).sent = "unhealthy" => h.err = "old" /\ Signalled(h).sentOk = h.ok
      BY Zenon DEF ErrorStates, Signalled, IsTriggered
    <2> QED
      BY <1>2, <2>2, <2>3, <2>4, Zenon DEF Earned
  <1> QED
    BY <1>1, <1>2, Zenon DEF Observe, Earned

(* The signal that the HostGAPlugin, IMDS or storage is unhealthy is sent  *)
(* only when nothing healthy was observed for the whole period of the      *)
(* error state, whatever the order of requests, heartbeats and periods.    *)
THEOREM UnhealthyIsEarnedHolds == ChannelSpec => []UnhealthyIsEarned
  <1>1. ChannelInit => Earned(health)
    BY DEF ChannelInit, Earned, ErrorStates, Signals
  <1>2. Earned(health) /\ [ChannelNext]_channelVars => Earned(health)'
    <2> SUFFICES ASSUME Earned(health), [ChannelNext]_channelVars
                 PROVE  Earned(health')
      BY Zenon
    <2>1. CASE \E s \in Signals, healthy \in BOOLEAN : Observe(s, healthy)
      BY <2>1, ObserveKeepsEarned, Zenon
    <2>2. CASE UNCHANGED health
      BY <2>2, Zenon
    <2>3. CASE PeriodElapses
      BY <2>3, Zenon DEF PeriodElapses, Earned, ErrorStates
    <2>4. CASE HostCall
      BY <2>1, <2>2, <2>4, Zenon DEF HostCall, Signals, FailedAtHostPlugin
    <2>5. CASE PutVmStatus
      BY <2>1, <2>2, <2>5, Zenon DEF PutVmStatus, Signals, FailedAtHostPlugin
    <2>6. CASE SendHostPluginHeartbeat
      BY <2>1, <2>6, Zenon DEF SendHostPluginHeartbeat, Signals, Succeeded
    <2>7. CASE SendImdsHeartbeat
      BY <2>1, <2>7, Zenon DEF SendImdsHeartbeat, Signals, ImdsServiceError
    <2> QED
      BY <2>2, <2>3, <2>4, <2>5, <2>6, <2>7, Zenon
         DEF ChannelNext, Download, Upload, Monitor, Environment, StartZip, StartManifest, NextUri, DirectCall, Refresh,
             OnDownloaded, StartUpload, ResetGoalState, Postpone, DirectUpload, EnsureInitialized, UpdateGoalState,
             HostChanges, NewStatus, channelVars
  <1>3. Earned(health) => UnhealthyIsEarned
    BY Zenon DEF Earned, UnhealthyIsEarned
  <1> QED
    BY <1>1, <1>2, <1>3, PTL DEF ChannelSpec

(* The loop of http_request ends: its result is that of its last attempt.  *)
LEMMA RequestEnds ==
    ASSUME NEW p, p.max \in Nat, p.max <= ThrottleRetries, NEW answers
    PROVE  \E n \in 1..ThrottleRetries :
               LastAttempt(p, answers, n) /\ http_request(p, answers) = ResultOf(p, answers[n])
  <1> DEFINE T == {n \in 1..ThrottleRetries : LastAttempt(p, answers, n)}
             First(n) == LastAttempt(p, answers, n) /\ \A i \in 1..(n - 1) : ~LastAttempt(p, answers, i)
  <1>1. ThrottleRetries \in Nat \ {0}
    BY RetriesAssumption, SMT
  <1>2. LastAttempt(p, answers, ThrottleRetries)
    <2>1. MaxRetry(p, answers, ThrottleRetries) \in {p.max, Larger(p.max, ThrottleRetries)}
      BY Zenon DEF MaxRetry
    <2>2. Larger(p.max, ThrottleRetries) = ThrottleRetries
      BY <1>1, SMT DEF Larger
    <2>3. ThrottleRetries >= MaxRetry(p, answers, ThrottleRetries)
      BY <1>1, <2>1, <2>2, SMT
    <2> QED
      BY <2>3, Zenon DEF LastAttempt
  <1>3. ThrottleRetries \in 1..ThrottleRetries /\ \A n \in 1..ThrottleRetries : n \in Nat
    BY <1>1, SMT
  <1>4. T # {} /\ \A n \in T : n \in Nat
    BY <1>2, <1>3, Zenon
  <1>5. PICK n \in T : \A m \in T : n <= m
    <2> HIDE DEF T
    <2> QED
      BY <1>4, LeastElement, Zenon
  <1>6. \A i \in 1..(n - 1) : i \in 1..ThrottleRetries /\ ~(n <= i)
    <2>1. n \in 1..ThrottleRetries
      BY <1>5, Zenon
    <2> QED
      BY <1>1, <2>1, SMT
  <1>7. First(n)
    BY <1>5, <1>6, Zenon
  <1> DEFINE last == CHOOSE m \in 1..ThrottleRetries : First(m)
  <1>8. last \in 1..ThrottleRetries /\ First(last)
    BY <1>5, <1>7, Zenon
  <1>9. http_request(p, answers) = ResultOf(p, answers[last])
    BY Zenon DEF http_request
  <1> QED
    BY <1>8, <1>9, Zenon

(* What the HostGAPlugin makes of a download when it answers: a result, or *)
(* an error that tells that the headers are stale, which the retries hide  *)
(* when it is a status 400.                                                *)
LEMMA PluginResults ==
    /\ \A r \in Results["artifact"]["working"] : Succeeded(r)
    /\ \A r \in Results["artifact"]["stale"] : StaleResource(r) \/ HiddenByRetries(r)
  <1> DEFINE P == Policy["artifact"]
  <1>1. P = [max |-> DefaultRetries, codes |-> ArtifactRetryCodes, failFast |-> FALSE]
    BY Zenon DEF Policy
  <1>2. P.max \in Nat /\ P.max <= ThrottleRetries /\ P.codes = ArtifactRetryCodes
    BY <1>1, RetriesAssumption, SMT
  <1>3. /\ "artifact" \in DOMAIN Policy
        /\ "working" \in DOMAIN Conditions /\ "stale" \in DOMAIN Conditions
        /\ Conditions["working"] = {"ok"} /\ Conditions["stale"] = {"gone", "badrequest"}
    BY Zenon DEF Policy, Conditions
  <1> DEFINE Possible(c) == {http_request(P, s) : s \in [1..ThrottleRetries -> Conditions[c]]}
  <1>4. Results["artifact"]["working"] = Possible("working") /\ Results["artifact"]["stale"] = Possible("stale")
    BY <1>3, Zenon DEF Results
  <1> HIDE DEF P
  <1>5. ASSUME NEW c, NEW r \in Possible(c)
        PROVE  \E a \in Conditions[c] : r = ResultOf(P, a)
    <2>1. PICK s \in [1..ThrottleRetries -> Conditions[c]] : r = http_request(P, s)
      BY <1>5, Zenon
    <2>2. PICK n \in 1..ThrottleRetries : r = ResultOf(P, s[n])
      BY <1>2, <2>1, RequestEnds, Zenon
    <2>3. s[n] \in Conditions[c]
      BY <2>1, <2>2, Zenon
    <2> QED
      BY <2>2, <2>3, Zenon
  <1>6. /\ ResultOf(P, "ok") = Returned("ok")
        /\ ResultOf(P, "gone") = Raised("ResourceGoneError", "gone")
        /\ ResultOf(P, "badrequest") = Raised("HttpError", "badrequest")
    BY <1>2, Zenon DEF ResultOf, Statuses, ArtifactRetryCodes, RetryCodes
  <1>7. Raised("ResourceGoneError", "gone").raised = "ResourceGoneError"
    BY Zenon DEF Raised
  <1>8. Succeeded(ResultOf(P, "ok")) /\ StaleResource(ResultOf(P, "gone")) /\ HiddenByRetries(ResultOf(P, "badrequest"))
    BY <1>6, <1>7, Zenon DEF Succeeded, StaleResource, HiddenByRetries
  <1>9. /\ \A r \in Possible("working") : r = ResultOf(P, "ok")
        /\ \A r \in Possible("stale") : r = ResultOf(P, "gone") \/ r = ResultOf(P, "badrequest")
    BY <1>3, <1>5, Zenon
  <1> QED
    BY <1>4, <1>8, <1>9, Zenon

----------------------------------------------------------------------------
(* A download that is past its first location, or that has gone from the   *)
(* host channel to the direct one, has an excuse: the host channel failed  *)
(* for a reason that is not stale headers.                                 *)
Excused ==
    /\ ~unexplained
    /\ main.step = "uri" => main.left = Uris \/ main.excuse
    /\ main.step \in {"call", "refresh"} => main.rank \in {"primary", "secondary"}
    /\ main.step = "call" => main.chan \in {"direct", "host"}
    /\ main.step = "call" /\ main.rank = "secondary" /\ main.chan = "direct" => main.excuse
    /\ main.step = "refresh" => main.chan = "host"

(* A channel fails with an excuse, or it is the direct one.                *)
LEMMA CallFailedIsExcused ==
    ASSUME Files, Excused, main.step \in {"call", "refresh"}, NEW e \in BOOLEAN, CallFailed(e),
           main.chan = "host" => e, UNCHANGED unexplained
    PROVE  Excused'
  <1>1. /\ main.rank \in {"primary", "secondary"} /\ main.chan \in {"direct", "host"}
        /\ main.chan = "direct" /\ main.rank = "secondary" => main.excuse
        /\ ~unexplained'
    BY Zenon DEF Excused
  <1>2. main.excuse \in BOOLEAN /\ main \in Operations
    BY Zenon DEF Files, Operations
  <1>3. CASE main.rank = "primary"
    <2>1. main' = [main EXCEPT !.step = "call", !.rank = "secondary", !.chan = Other(main.chan),
                               !.refreshed = FALSE, !.excuse = @ \/ e]
      BY <1>3, Zenon DEF CallFailed
    <2>2. /\ main'.step = "call" /\ main'.rank = "secondary" /\ main'.chan = Other(main.chan)
          /\ main'.excuse = (main.excuse \/ e)
      BY <1>2, <2>1, Zenon DEF Operations
    <2>3. Other(main.chan) \in {"direct", "host"} /\ (Other(main.chan) = "direct" => main.chan = "host")
      BY <1>1, Zenon DEF Other
    <2> QED
      BY <1>1, <2>2, <2>3, Zenon DEF Excused
  <1>4. CASE main.rank = "secondary"
    <2>1. main' = [main EXCEPT !.step = "uri", !.refreshed = FALSE, !.excuse = @ \/ e]
      BY <1>4, Zenon DEF CallFailed
    <2>2. main'.step = "uri" /\ main'.excuse = (main.excuse \/ e)
      BY <1>2, <2>1, Zenon DEF Operations
    <2> QED
      BY <1>1, <1>4, <2>2, Zenon DEF Excused
  <1> QED
    BY <1>1, <1>3, <1>4, Zenon

(* A response that arrives fails with an excuse, or ends the call.         *)
LEMMA ReceivedIsExcused ==
    ASSUME Files, Excused, main.step = "call", Received
    PROVE  Excused'
  <1>1. CASE CallFailed(TRUE) /\ UNCHANGED unexplained
    BY <1>1, CallFailedIsExcused, Zenon
  <1>2. CASE CallSucceeded
    <2>1. main'.step \in {"downloaded", "none"} /\ unexplained' = unexplained
      <3>1. unexplained' = unexplained /\ (main' = [main EXCEPT !.step = "downloaded"] \/ main' = NoOperation)
        BY <1>2, Zenon DEF CallSucceeded
      <3>2. main' = [main EXCEPT !.step = "downloaded"] => main'.step = "downloaded"
        BY Zenon DEF Files, Operations
      <3>3. NoOperation.step = "none"
        BY Zenon DEF NoOperation
      <3> QED
        BY <3>1, <3>2, <3>3, Zenon
    <2> QED
      BY <2>1, Zenon DEF Excused
  <1> QED
    BY <1>1, <1>2, Zenon DEF Received

(* A download through the HostGAPlugin fails with an excuse, or with an    *)
(* error after which the headers are refreshed.                            *)
LEMMA HostCallIsExcused ==
    ASSUME Files, Excused, HostCall
    PROVE  Excused'
  <1>1. main.step = "call" /\ main.chan = "host"
    BY Zenon DEF HostCall
  <1>2. CASE Received
    BY <1>1, <1>2, ReceivedIsExcused, Zenon
  <1>3. ASSUME NEW o \in Outcomes("artifact", PluginWithHeaders), ~Succeeded(o.r),
               IF StaleResource(o.r) /\ ~main.refreshed
               THEN main' = [main EXCEPT !.step = "refresh"]
               ELSE CallFailed(o.fault = 1 \/ ~host.plugin \/ main.refreshed \/ HiddenByRetries(o.r)),
               UNCHANGED unexplained
        PROVE  Excused'
    <2>1. CASE StaleResource(o.r) /\ ~main.refreshed
      <3>1. main' = [main EXCEPT !.step = "refresh"] /\ main \in Operations
        BY <1>3, <2>1, Zenon DEF Files
      <3>2. main'.step = "refresh" /\ main'.rank = main.rank /\ main'.chan = main.chan
        BY <3>1, Zenon DEF Operations
      <3> QED
        BY <1>1, <1>3, <3>2, Zenon DEF Excused
    <2>2. CASE ~(StaleResource(o.r) /\ ~main.refreshed)
      <3> DEFINE e == o.fault = 1 \/ ~host.plugin \/ main.refreshed \/ HiddenByRetries(o.r)
      <3>1. CASE o.fault = 1 \/ (o.fault = 0 /\ o.r \in Results["artifact"][PluginWithHeaders])
        <4>1. PluginWithHeaders = "working" \/ PluginWithHeaders = "stale" \/ ~host.plugin
          BY Zenon DEF PluginWithHeaders, Plugin
        <4>2. e
          BY <1>3, <2>2, <3>1, <4>1, PluginResults, Zenon
        <4>3. CallFailed(TRUE)
          BY <1>3, <2>2, <4>2, Zenon DEF CallFailed
        <4> QED
          BY <1>1, <1>3, <4>3, CallFailedIsExcused, Zenon
      <3>2. o.fault = 1 \/ (o.fault = 0 /\ o.r \in Results["artifact"][PluginWithHeaders])
        <4>1. \/ \E r \in Results["artifact"][PluginWithHeaders] : o = [r |-> r, fault |-> 0]
              \/ \E r \in Results["artifact"].failing : o = [r |-> r, fault |-> 1]
          BY Zenon DEF Outcomes
        <4>2. \A r : [r |-> r, fault |-> 0].r = r /\ [r |-> r, fault |-> 0].fault = 0 /\ [r |-> r, fault |-> 1].fault = 1
          BY Zenon
        <4> QED
          BY <4>1, <4>2, Zenon
      <3> QED
        BY <3>1, <3>2, Zenon
    <2> QED
      BY <2>1, <2>2, Zenon
  <1> QED
    BY <1>2, <1>3, Zenon DEF HostCall

(* Every step keeps Excused.                                               *)
LEMMA ExcusedStep ==
    ASSUME Files, Excused, [ChannelNext]_channelVars
    PROVE  Excused'
  <1>0. main \in Operations /\ NoOperation.step = "none"
    BY Zenon DEF Files, NoOperation
  <1>1. CASE UNCHANGED <<main, unexplained>>
    BY <1>1, Zenon DEF Excused
  <1>2. ASSUME main'.step \in {"none", "downloaded", "goalstate", "put", "gone", "fallback"}, UNCHANGED unexplained
        PROVE  Excused'
    BY <1>2, Zenon DEF Excused
  <1>3. CASE StartZip \/ StartManifest
    <2>1. main'.step = "uri" /\ main'.left = Uris /\ unexplained' = unexplained
      BY <1>3, Zenon DEF StartZip, StartManifest, NoOperation
    <2> QED
      BY <2>1, Zenon DEF Excused
  <1>4. CASE NextUri
    <2>0. main.step = "uri"
      BY <1>4, Zenon DEF NextUri
    <2>1. CASE /\ main' = [main EXCEPT !.step = "call", !.left = @ - 1, !.rank = "primary", !.chan = channel]
               /\ UNCHANGED <<result, unexplained>>
      <3>1. main'.step = "call" /\ main'.rank = "primary" /\ main'.chan = channel
        BY <1>0, <2>1, Zenon DEF Operations
      <3>2. channel \in {"direct", "host"}
        BY Zenon DEF Files
      <3> QED
        BY <2>1, <3>1, <3>2, Zenon DEF Excused
    <2>2. CASE main.left = 0 /\ EndDownload("failed", main.excuse)
      <3>1. Uris # 0
        BY SizesAssumption, Zenon
      <3>2. main.excuse
        BY <2>0, <2>2, <3>1, Zenon DEF Excused
      <3>3. unexplained' = (unexplained \/ FALSE) /\ main' = NoOperation
        BY <2>2, <3>2, Zenon DEF EndDownload
      <3> QED
        BY <1>0, <3>3, Zenon DEF Excused
    <2>3. CASE EndDownload("failed", TRUE)
      <3>1. unexplained' = (unexplained \/ FALSE) /\ main' = NoOperation
        BY <2>3, Zenon DEF EndDownload
      <3> QED
        BY <1>0, <3>1, Zenon DEF Excused
    <2> QED
      BY <1>4, <2>1, <2>2, <2>3, Zenon DEF NextUri
  <1>5. CASE DirectCall
    <2>0. main.step = "call" /\ main.chan = "direct"
      BY <1>5, Zenon DEF DirectCall
    <2>1. CASE Received
      BY <2>0, <2>1, ReceivedIsExcused, Zenon
    <2>2. CASE (\E e \in BOOLEAN : CallFailed(e)) /\ UNCHANGED unexplained
      <3>1. main.chan # "host"
        BY <2>0, Zenon
      <3> QED
        BY <2>0, <2>2, <3>1, CallFailedIsExcused, Zenon
    <2> QED
      BY <1>5, <2>1, <2>2, Zenon DEF DirectCall
  <1>6. CASE HostCall
    BY <1>6, HostCallIsExcused, Zenon
  <1>7. CASE Refresh
    <2>0. main.step = "refresh" /\ main.chan = "host" /\ main.rank \in {"primary", "secondary"} /\ UNCHANGED unexplained
      BY <1>7, Zenon DEF Refresh, Excused
    <2>1. CASE CallFailed(TRUE)
      BY <2>0, <2>1, CallFailedIsExcused, Zenon
    <2>2. CASE main' = [main EXCEPT !.step = "call", !.refreshed = TRUE]
      <3>1. main'.step = "call" /\ main'.chan = main.chan /\ main'.rank = main.rank
        BY <1>0, <2>2, Zenon DEF Operations
      <3> QED
        BY <2>0, <3>1, Zenon DEF Excused
    <2> QED
      BY <1>7, <2>1, <2>2, Zenon DEF Refresh
  <1>8. CASE OnDownloaded
    <2>1. CASE \E r \in {"ok", "signature"} : EndDownload(r, TRUE)
      <3>1. main' = NoOperation /\ unexplained' = (unexplained \/ FALSE)
        BY <2>1, Zenon DEF EndDownload
      <3> QED
        BY <1>0, <3>1, Zenon DEF Excused
    <2>2. CASE /\ main' = [main EXCEPT !.step = "uri", !.refreshed = FALSE, !.excuse = TRUE]
               /\ UNCHANGED <<result, unexplained>>
      <3>1. main'.step = "uri" /\ main'.excuse
        BY <1>0, <2>2, Zenon DEF Operations
      <3> QED
        BY <2>2, <3>1, Zenon DEF Excused
    <2> QED
      BY <1>8, <2>1, <2>2, Zenon DEF OnDownloaded
  <1>9. CASE Upload
    <2>1. unexplained' = unexplained
      BY <1>9, Zenon DEF Upload, StartUpload, ResetGoalState, PutVmStatus, Postpone, DirectUpload
    <2>2. main'.step \in {"none", "goalstate", "put", "gone", "fallback"}
      <3>1. CASE StartUpload
        BY <3>1, Zenon DEF StartUpload, NoOperation
      <3>2. CASE Postpone \/ ResetGoalState
        BY <1>0, <3>2, Zenon DEF Postpone, ResetGoalState, Operations
      <3>3. CASE PutVmStatus
        BY <1>0, <3>3, Zenon DEF PutVmStatus, Stored, Operations
      <3>4. CASE DirectUpload
        BY <1>0, <3>4, Zenon DEF DirectUpload, Stored, Operations
      <3> QED
        BY <1>9, <3>1, <3>2, <3>3, <3>4, Zenon DEF Upload
    <2> QED
      BY <1>2, <2>1, <2>2, Zenon
  <1>10. CASE EnsureInitialized
    <2>0. UNCHANGED unexplained /\ (main.step = "put" \/ main.step = "call")
      BY <1>10, Zenon DEF EnsureInitialized
    <2>1. CASE UNCHANGED main
      BY <1>1, <2>0, <2>1, Zenon
    <2>2. CASE main' = [main EXCEPT !.step = "fallback"]
      <3>1. main'.step = "fallback"
        BY <1>0, <2>2, Zenon DEF Operations
      <3> QED
        BY <1>2, <2>0, <3>1, Zenon
    <2>3. CASE main.op # "status" /\ CallFailed(TRUE)
      <3>1. main.step = "call"
        BY <2>0, <2>3, Zenon DEF Files
      <3> QED
        BY <2>0, <2>3, <3>1, CallFailedIsExcused, Zenon
    <2> QED
      BY <1>10, <2>1, <2>2, <2>3, Zenon DEF EnsureInitialized
  <1>11. CASE UpdateGoalState \/ Monitor \/ Environment \/ UNCHANGED channelVars
    BY <1>1, <1>11, Zenon DEF UpdateGoalState, Monitor, SendHostPluginHeartbeat, SendImdsHeartbeat,
       Environment, HostChanges, NewStatus, PeriodElapses, channelVars
  <1> QED
    BY <1>3, <1>4, <1>5, <1>6, <1>7, <1>8, <1>9, <1>10, <1>11, Zenon DEF ChannelNext, Download

(* A download fails only after a request failed on a working server, the   *)
(* HostGAPlugin was down, the host changed again after the headers were    *)
(* refreshed, or stale headers were answered by a status 400, which the    *)
(* code takes for a transient error: whatever the uris, the retries and    *)
(* the order of the channels, stale headers that are answered by 410 do    *)
(* not make a download fail.                                               *)
THEOREM FailuresAreExplainedHolds == ChannelSpec => []FailuresAreExplained
  <1>1. ChannelInit => Files /\ Excused
    <2> SUFFICES ASSUME ChannelInit PROVE Files /\ Excused
      BY Zenon
    <2>1. Files
      BY DEF ChannelInit, Files, NoOperation, Operations
    <2>2. main.step = "none" /\ ~unexplained
      BY Zenon DEF ChannelInit, NoOperation
    <2> QED
      BY <2>1, <2>2, Zenon DEF Excused
  <1>2. Files /\ Excused /\ [ChannelNext]_channelVars => Files' /\ Excused'
    <2> SUFFICES ASSUME Files, Excused, [ChannelNext]_channelVars PROVE Files'
      BY ExcusedStep, Zenon
    <2> QED
      BY DownloadStep, UploadStep, OtherStep, Zenon DEF ChannelNext
  <1>3. Excused => FailuresAreExplained
    BY Zenon DEF Excused, FailuresAreExplained
  <1> QED
    BY <1>1, <1>2, <1>3, PTL DEF ChannelSpec

=============================================================================
