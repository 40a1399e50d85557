--------------------------- MODULE Registry_proofs ---------------------------
(***************************************************************************)
(* The list of rig_register() is well formed for any set of commands, in   *)
(* any order of registration and with any repetitions, across reboots; a   *)
(* command that a host has checked against the listing runs as it was      *)
(* checked; and the listing itself is found by its name.                   *)
(***************************************************************************)
EXTENDS Registry, SequenceTheorems, FiniteSetTheorems, WellFoundedInduction, TLAPS

\* The links have the type that Linked leaves open.
LinkType == /\ order \in Seq(Nodes)
            /\ next \in [Nodes -> Nodes \cup {NULL}]

IInv == LinkType /\ Linked

\* Range of the community module Functions.
LEMMA RangeOf == ASSUME NEW S, NEW s \in Seq(S)
                 PROVE  Range(s) = {s[i] : i \in 1 .. Len(s)}
BY DEF Range

LEMMA EmptyLinked ==
    ASSUME next' = [n \in Nodes |-> NULL], registered' = {}, head' = NULL, order' = <<>>
    PROVE  IInv'
BY DEF IInv, LinkType, Linked, Range

\* A new head keeps the chain below it: no link of an older node is written.
LEMMA RegisterLinks ==
    ASSUME IInv, NEW n \in Nodes, Register(n)
    PROVE  IInv'
<1>1. /\ order \in Seq(Nodes) /\ next \in [Nodes -> Nodes \cup {NULL}]
      /\ n \notin registered
      /\ registered' = registered \cup {n} /\ head' = n
      /\ next' = [next EXCEPT ![n] = head] /\ order' = Append(order, n)
  BY DEF IInv, LinkType, Register, Fresh
<1>2. /\ order' \in Seq(Nodes)
      /\ Len(order') = Len(order) + 1
      /\ order'[Len(order) + 1] = n
      /\ \A i \in 1 .. Len(order) : order'[i] = order[i] /\ order[i] \in Nodes
  BY <1>1
<1>3. registered = {order[i] : i \in 1 .. Len(order)}
  BY <1>1, RangeOf DEF IInv, Linked
<1>4. \A i \in 1 .. Len(order) : order[i] # n
  BY <1>1, <1>3
<1>5. head \in Nodes \cup {NULL}
  BY <1>1 DEF IInv, Linked
<1>6. LinkType'
  BY <1>1, <1>2, <1>5 DEF LinkType
<1>7. registered' = Range(order')
  <2>1. Range(order') = {order'[i] : i \in 1 .. Len(order')}
    BY <1>2, RangeOf
  <2> QED
    BY <1>1, <1>2, <1>3, <2>1
<1>8. head' = IF order' = <<>> THEN NULL ELSE order'[Len(order')]
  BY <1>1, <1>2
<1>9. \A i \in DOMAIN order' : next'[order'[i]] = IF i = 1 THEN NULL ELSE order'[i-1]
  <2> SUFFICES ASSUME NEW i \in 1 .. Len(order) + 1
               PROVE  next'[order'[i]] = IF i = 1 THEN NULL ELSE order'[i-1]
    BY <1>2
  <2>1. CASE i = Len(order) + 1
    <3>1. next'[order'[i]] = head
      BY <1>1, <1>2, <2>1
    <3>2. CASE Len(order) = 0
      BY <1>1, <2>1, <3>1, <3>2 DEF IInv, Linked
    <3>3. CASE Len(order) # 0
      <4>1. head = order[Len(order)] /\ Len(order) \in 1 .. Len(order)
        BY <1>1, <3>3 DEF IInv, Linked
      <4> QED
        BY <1>1, <1>2, <2>1, <3>1, <3>3, <4>1
    <3> QED
      BY <3>2, <3>3
  <2>2. CASE i \in 1 .. Len(order)
    <3>1. next'[order'[i]] = next[order[i]]
      BY <1>1, <1>2, <1>4, <2>2
    <3>2. next[order[i]] = IF i = 1 THEN NULL ELSE order[i-1]
      BY <1>1, <2>2 DEF IInv, Linked
    <3>3. i # 1 => order'[i-1] = order[i-1]
      BY <1>2, <2>2
    <3> QED
      BY <3>1, <3>2, <3>3
  <2> QED
    BY <1>1, <2>1, <2>2
<1>10. \A i, j \in DOMAIN order' : i # j => order'[i] # order'[j]
  <2>1. \A i, j \in 1 .. Len(order) : i # j => order[i] # order[j]
    BY <1>1 DEF IInv, Linked
  <2>2. \A i \in 1 .. Len(order) + 1 : i = Len(order) + 1 \/ i \in 1 .. Len(order)
    BY <1>1
  <2> QED
    BY <1>2, <1>4, <2>1, <2>2
<1> QED
  BY <1>6, <1>7, <1>8, <1>9, <1>10 DEF IInv, Linked

LEMMA ListInit == Init => IInv
BY DEF Init, Empty, IInv, LinkType, Linked, Range

LEMMA ListStep == IInv /\ [Next]_vars => IInv'
<1> SUFFICES ASSUME IInv, [Next]_vars PROVE IInv'
  OBVIOUS
<1>1. ASSUME NEW n \in Nodes, Register(n) PROVE IInv'
  BY <1>1, RegisterLinks
<1>2. CASE Reboot
  BY <1>2, EmptyLinked DEF Reboot
<1>3. ASSUME UNCHANGED list PROVE IInv'
  BY <1>3 DEF list, IInv, LinkType, Linked
<1>4. CASE Handshake
  BY <1>3, <1>4 DEF Handshake
<1>5. ASSUME NEW attr, NEW argc, CallAttribute(attr, argc) PROVE IInv'
  BY <1>3, <1>5 DEF CallAttribute
<1>6. CASE UNCHANGED vars
  BY <1>3, <1>6 DEF vars
<1> QED
  BY <1>1, <1>2, <1>4, <1>5, <1>6 DEF Next

(***************************************************************************)
(* The list holds each registered command once, newest first, and ends,    *)
(* whatever is registered, in any order and however often.                 *)
(***************************************************************************)
THEOREM ListLinked == Spec => []Linked
<1>1. IInv => Linked
  BY DEF IInv
<1> QED
  BY <1>1, ListInit, ListStep, PTL DEF Spec

-----------------------------------------------------------------------------
(* Attributes.                                                             *)

\* The host knows finitely many names, as a loop over the list visits finitely many nodes.
LEMMA KnownFinite == IsFiniteSet(DOMAIN Signatures(Listing))
<1> DEFINE N == Cardinality(Visited)
           known == DOMAIN Signatures(Listing)
           named == [i \in 1 .. N |-> NameOf[At[i-1]]]
<1>1. N \in Nat
  <2>1. Cardinality(Nodes) \in Nat
    BY RegistryAssumption, FS_CardinalityType
  <2>2. IsFiniteSet(0 .. Cardinality(Nodes) - 1)
    BY <2>1, FS_Interval
  <2>3. Visited \in SUBSET (0 .. Cardinality(Nodes) - 1)
    BY DEF Visited
  <2> QED
    BY <2>2, <2>3, FS_Subset, FS_CardinalityType
<1>2. known = {named[i] : i \in 1 .. N}
  BY DEF Signatures, Listing, Range
<1>3. named \in Surjection(1 .. N, known)
  BY <1>2 DEF Surjection
<1>4. IsFiniteSet(1 .. N)
  BY <1>1, FS_Interval
<1> QED
  BY <1>3, <1>4, FS_Surjection

\* An attribute has one target, and the only alias of its kind.
LEMMA OneTarget ==
    ASSUME IsFiniteSet(DOMAIN sigs), NEW attr, NEW name \in Targets(attr),
           NEW other \in DOMAIN sigs, Alias(other) = attr, other # name
    PROVE  attr = name
<1> DEFINE aliased == {n \in DOMAIN sigs : Alias(n) # n /\ Alias(n) = attr}
<1>1. CASE attr \in DOMAIN sigs
  BY <1>1 DEF Targets
<1>2. CASE attr \notin DOMAIN sigs
  <2>1. Cardinality(aliased) = 1 /\ name \in aliased
    BY <1>2 DEF Targets
  <2>2. IsFiniteSet(aliased)
    BY FS_Subset
  <2>3. PICK x : aliased = {x}
    BY <2>1, <2>2, FS_Singleton
  <2>4. other \in aliased
    BY <1>2
  <2> QED
    BY <2>1, <2>3, <2>4
<1> QED
  BY <1>1, <1>2

(***************************************************************************)
(* An attribute never stands for one of several commands: it names the     *)
(* command that it calls, or it is the alias of no other that the host     *)
(* knows.                                                                  *)
(***************************************************************************)
THEOREM AttributesOwn == Spec => []AttributeOwn
<1> DEFINE Inv == IsFiniteSet(DOMAIN sigs) /\ AttributeOwn
<1>1. Init => Inv
  <2> SUFFICES ASSUME Init PROVE Inv
    OBVIOUS
  <2>1. DOMAIN sigs = {}
    BY DEF Init
  <2> QED
    BY <2>1, FS_EmptySet DEF Init, NoCall, AttributeOwn
<1>2. Inv /\ [Next]_vars => Inv'
  <2> SUFFICES ASSUME Inv, [Next]_vars PROVE Inv'
    OBVIOUS
  <2>1. ASSUME UNCHANGED <<sigs, last>> PROVE Inv'
    BY <2>1 DEF AttributeOwn
  <2>2. CASE Handshake
    <3>1. sigs' = Signatures(Listing) \/ sigs' = sigs
      BY <2>2 DEF Handshake
    <3>2. IsFiniteSet(DOMAIN sigs')
      BY <3>1, KnownFinite
    <3>3. last'.op = "handshake"
      BY <2>2 DEF Handshake
    <3> QED
      BY <3>2, <3>3 DEF AttributeOwn
  <2>3. ASSUME NEW attr, NEW argc, CallAttribute(attr, argc) PROVE Inv'
    <3>1. PICK name \in Targets(attr) :
             /\ last'.attr = attr /\ last'.name = name /\ last'.known = DOMAIN sigs
             /\ sigs' = sigs
      BY <2>3 DEF CallAttribute
    <3> QED
      BY <3>1, OneTarget DEF AttributeOwn
  <2>4. CASE Reboot \/ UNCHANGED vars \/ \E n \in Nodes : Register(n)
    BY <2>1, <2>4 DEF Reboot, Register, vars
  <2> QED
    BY <2>2, <2>3, <2>4 DEF Next
<1>3. Inv => AttributeOwn
  OBVIOUS
<1> QED
  BY <1>1, <1>2, <1>3, PTL DEF Spec
-----------------------------------------------------------------------------
(* Least and greatest elements.                                            *)
LEMMA LeastNumber ==
    ASSUME NEW T \in SUBSET Nat, T # {}
    PROVE  \E m \in T : \A k \in T : m <= k
<1> DEFINE R == OpToRel(<, Nat)
<1>1. \A x, y \in Nat : x < y => <<x, y>> \in R
  BY DEF OpToRel
<1>2. IsWellFoundedOn(R, Nat)
  BY NatLessThanWellFounded
<1> HIDE DEF R
<1>3. PICK m \in T : \A y \in T : ~ (<<y, m>> \in R)
  BY <1>2, WFMin
<1>4. \A k \in T : ~(k < m)
  BY <1>1, <1>3
<1> QED
  BY <1>3, <1>4

LEMMA MinIn == ASSUME NEW T \in SUBSET Nat, T # {} PROVE Min(T) \in T
BY LeastNumber DEF Min

LEMMA MaxIn == ASSUME NEW n \in Nat, NEW T \in SUBSET (1 .. n), T # {} PROVE Max(T) \in T
<1> DEFINE U == {n - i : i \in T}
<1>1. U \in SUBSET Nat /\ U # {}
  <2>1. \A i \in T : i \in Nat /\ n - i \in Nat
    OBVIOUS
  <2> QED
    BY <2>1
<1>2. PICK m \in U : \A k \in U : m <= k
  BY <1>1, LeastNumber
<1>3. PICK i \in T : m = n - i
  BY <1>2
<1>4. ASSUME NEW j \in T PROVE i >= j
  <2>1. n - j \in U /\ i \in Nat /\ j \in Nat
    OBVIOUS
  <2>2. n - i <= n - j
    BY <1>2, <1>3, <2>1
  <2> QED
    BY <2>1, <2>2
<1> QED
  BY <1>3, <1>4 DEF Max

-----------------------------------------------------------------------------
(* A loop over the list.                                                   *)

\* The k-th node from the head is the k-th newest.
Place(k) == IF k < Len(order) THEN order[Len(order) - k] ELSE NULL

LEMMA OrderTypes ==
    ASSUME IInv
    PROVE  /\ order \in Seq(Nodes) /\ Len(order) \in Nat /\ DOMAIN order = 1 .. Len(order)
           /\ \A i \in 1 .. Len(order) : order[i] \in Nodes /\ order[i] # NULL
           /\ registered = {order[i] : i \in 1 .. Len(order)}
<1>1. order \in Seq(Nodes)
  BY DEF IInv, LinkType
<1>2. registered = {order[i] : i \in 1 .. Len(order)}
  BY <1>1, RangeOf DEF IInv, Linked
<1> QED
  BY <1>1, <1>2, RegistryAssumption

LEMMA PlaceSteps ==
    ASSUME IInv, NEW k \in Nat
    PROVE  Place(k) = IF k = 0 THEN head
                      ELSE IF Place(k - 1) = NULL THEN NULL ELSE next[Place(k - 1)]
<1> PICK n : n = Len(order)
  OBVIOUS
<1>1. n \in Nat /\ \A i \in 1 .. n : order[i] # NULL
  BY OrderTypes
<1>2. /\ head = IF order = <<>> THEN NULL ELSE order[n]
      /\ \A i \in 1 .. n : next[order[i]] = IF i = 1 THEN NULL ELSE order[i - 1]
  BY OrderTypes DEF IInv, Linked
<1>3. CASE k = 0
  <2>1. order = <<>> <=> n = 0
    BY OrderTypes, EmptySeq
  <2> QED
    BY <1>1, <1>2, <1>3, <2>1 DEF Place
<1>4. CASE k # 0 /\ k - 1 < n
  <2> PICK i : i = n - (k - 1)
    OBVIOUS
  <2>1. i \in 1 .. n /\ i - 1 = n - k /\ (i = 1 <=> k = n) /\ (k < n <=> i # 1)
    BY <1>1, <1>4
  <2>2. Place(k - 1) = order[i] /\ Place(k - 1) # NULL
    BY <1>1, <1>4, <2>1 DEF Place
  <2>3. next[order[i]] = IF i = 1 THEN NULL ELSE order[i - 1]
    BY <1>2, <2>1
  <2>4. Place(k) = IF i = 1 THEN NULL ELSE order[i - 1]
    BY <1>1, <2>1 DEF Place
  <2> QED
    BY <1>4, <2>2, <2>3, <2>4
<1>5. CASE k # 0 /\ ~(k - 1 < n)
  <2>1. ~(k < n)
    BY <1>1, <1>5
  <2> QED
    BY <1>5, <2>1 DEF Place
<1> QED
  BY <1>1, <1>3, <1>4, <1>5

LEMMA AtPlace == ASSUME IInv PROVE \A k \in Nat : At[k] = Place(k)
<1> DEFINE Walks(f) == f = [k \in Nat |-> IF k = 0 THEN head
                                          ELSE IF f[k-1] = NULL THEN NULL ELSE next[f[k-1]]]
           place == [k \in Nat |-> Place(k)]
<1>1. Walks(place)
  <2>1. \A k \in Nat : place[k] = IF k = 0 THEN head
                                  ELSE IF place[k-1] = NULL THEN NULL ELSE next[place[k-1]]
    <3> SUFFICES ASSUME NEW k \in Nat
                 PROVE  place[k] = IF k = 0 THEN head
                                   ELSE IF place[k-1] = NULL THEN NULL ELSE next[place[k-1]]
      OBVIOUS
    <3>1. place[k] = Place(k) /\ (k # 0 => place[k - 1] = Place(k - 1))
      BY SMTT(30)
    <3> QED
      BY <3>1, PlaceSteps
  <2> QED
    BY <2>1
<1>2. Walks(At)
  BY <1>1 DEF At
<1>3. \A k \in Nat : At[k] = IF k = 0 THEN head
                             ELSE IF At[k-1] = NULL THEN NULL ELSE next[At[k-1]]
  BY <1>2
<1> DEFINE T == {k \in Nat : At[k] # Place(k)}
<1>4. T = {}
  <2> SUFFICES ASSUME T # {} PROVE FALSE
    OBVIOUS
  <2>1. PICK m \in T : \A k \in T : m <= k
    BY LeastNumber
  <2>2. CASE m = 0
    BY <1>3, <2>1, <2>2, PlaceSteps
  <2>3. CASE m # 0
    <3>1. m \in Nat /\ m - 1 \in Nat /\ m - 1 \notin T
      BY <2>1, <2>3
    <3>2. At[m - 1] = Place(m - 1)
      BY <3>1
    <3> QED
      BY <1>3, <2>1, <2>3, <3>1, <3>2, PlaceSteps
  <2> QED
    BY <2>2, <2>3
<1> QED
  BY <1>4

LEMMA CountTo ==
    ASSUME NEW n \in Nat
    PROVE  Cardinality(1 .. n) = n /\ Cardinality(0 .. n - 1) = n
<1> PICK m \in Int : m = n - 1
  OBVIOUS
<1>1. Cardinality(1 .. n) = IF 1 > n THEN 0 ELSE n - 1 + 1
  BY FS_Interval
<1>2. Cardinality(0 .. m) = IF 0 > m THEN 0 ELSE m - 0 + 1
  BY FS_Interval
<1> QED
  BY <1>1, <1>2

\* A loop over the list visits each node of it: there are no more than Nodes.
LEMMA VisitedAll ==
    ASSUME IInv
    PROVE  /\ Visited = 0 .. Len(order) - 1 /\ Cardinality(Visited) = Len(order)
           /\ \A k \in Visited : At[k] = order[Len(order) - k]
<1>1. Len(order) \in Nat /\ Cardinality(Nodes) \in Nat
  BY OrderTypes, RegistryAssumption, FS_CardinalityType
<1>2. Len(order) <= Cardinality(Nodes)
  <2>1. \A i, j \in 1 .. Len(order) : i # j => order[i] # order[j]
    BY OrderTypes DEF IInv, Linked
  <2>2. order \in Injection(1 .. Len(order), Nodes)
    BY <2>1, OrderTypes DEF Injection, IsInjective
  <2>3. Cardinality(1 .. Len(order)) = Len(order)
    BY <1>1, CountTo
  <2> QED
    BY <2>2, <2>3, RegistryAssumption, FS_Injection
<1>3. \A k \in Nat : At[k] # NULL <=> k < Len(order)
  BY <1>1, AtPlace, OrderTypes DEF Place
<1>4. Visited = 0 .. Len(order) - 1
  BY <1>1, <1>2, <1>3 DEF Visited
<1>5. Cardinality(0 .. Len(order) - 1) = Len(order)
  BY <1>1, CountTo
<1>6. \A k \in 0 .. Len(order) - 1 : At[k] = order[Len(order) - k]
  BY <1>1, AtPlace DEF Place
<1> QED
  BY <1>4, <1>5, <1>6

\* rig_cmd_find(): a registered command of that name, if there is one.
LEMMA FindSome ==
    ASSUME IInv, NEW name
    PROVE  \/ Find(name) = NULL /\ \A n \in registered : NameOf[n] # name
           \/ Find(name) \in registered /\ NameOf[Find(name)] = name
<1> DEFINE hits == {k \in Visited : Matches(At[k], name)}
<1>1. Len(order) \in Nat /\ registered = {order[i] : i \in 1 .. Len(order)}
  BY OrderTypes
<1>2. CASE hits = {}
  <2>1. Find(name) = NULL
    BY <1>2 DEF Find
  <2>2. ASSUME NEW n \in registered PROVE NameOf[n] # name
    <3>1. PICK i \in 1 .. Len(order) : n = order[i]
      BY <1>1
    <3>2. Len(order) - i \in Visited /\ Len(order) - (Len(order) - i) = i
      BY <1>1, VisitedAll
    <3>3. At[Len(order) - i] = n
      BY <3>1, <3>2, VisitedAll
    <3> QED
      BY <1>2, <3>2, <3>3 DEF Matches
  <2> QED
    BY <2>1, <2>2
<1>3. CASE hits # {}
  <2>1. hits \in SUBSET Nat
    BY <1>1, VisitedAll
  <2>2. Min(hits) \in hits
    BY <1>3, <2>1, MinIn
  <2> PICK k : k = Min(hits)
    OBVIOUS
  <2>3. Find(name) = At[k]
    BY <1>3 DEF Find
  <2>4. k \in Visited /\ Matches(At[k], name)
    BY <2>2
  <2>5. Len(order) - k \in 1 .. Len(order) /\ At[k] = order[Len(order) - k]
    BY <1>1, <2>4, VisitedAll
  <2> QED
    BY <1>1, <2>3, <2>4, <2>5 DEF Matches
<1> QED
  BY <1>2, <1>3

\* The host keeps under a name the signature of a command of that name.
LEMMA KnownNamed ==
    ASSUME IInv, NEW name \in DOMAIN Signatures(Listing)
    PROVE  Signatures(Listing)[name] \in Nodes /\ NameOf[Signatures(Listing)[name]] = name
<1> PICK n : n = Len(order)
  OBVIOUS
<1>1. /\ n \in Nat /\ Listing = [i \in 1 .. n |-> At[i - 1]]
      /\ \A i \in 1 .. n : Listing[i] \in Nodes
  <2>1. n \in Nat /\ \A i \in 1 .. n : i - 1 \in Visited /\ n - (i - 1) \in 1 .. n
    BY OrderTypes, VisitedAll
  <2>2. Listing = [i \in 1 .. n |-> At[i - 1]]
    BY VisitedAll DEF Listing
  <2> QED
    BY <2>1, <2>2, VisitedAll, OrderTypes
<1> DEFINE S == {i \in 1 .. n : NameOf[Listing[i]] = name}
<1>2. name \in {NameOf[Listing[i]] : i \in 1 .. n}
  <2>1. DOMAIN Listing = 1 .. n
    BY <1>1
  <2> QED
    BY <2>1 DEF Signatures, Range
<1>3. Signatures(Listing)[name] = Listing[Max(S)]
  BY <1>1 DEF Signatures
<1>4. Max(S) \in S
  BY <1>1, <1>2, MaxIn
<1> QED
  BY <1>1, <1>3, <1>4
LEMMA MoreSeq == ASSUME NEW T, NEW S, T \subseteq S, NEW s \in Seq(T)
                 PROVE  s \in Seq(S)
OBVIOUS

LEMMA PairOf == ASSUME NEW S, NEW a \in S, NEW b \in S
                PROVE  <<a, b>> \in Seq(S) /\ Len(<<a, b>>) = 2
<1>1. <<a, b>> \in Seq(S)
  OBVIOUS
<1>2. Len(<<a, b>>) = 2
  OBVIOUS
<1> QED
  BY <1>1, <1>2

\* The prefix that is put back is the one that was dropped.
LEMMA PrefixBack ==
    ASSUME NEW name \in Seq(STRING), Stripped(name) # name
    PROVE  Rig \o Stripped(name) = name
<1>1. PICK S : S = STRING \cup {"rig", "."}
  OBVIOUS
<1>2. name \in Seq(S) /\ "rig" \in S /\ "." \in S
  <2>1. STRING \subseteq S /\ "rig" \in S /\ "." \in S
    BY <1>1
  <2> QED
    BY <2>1, MoreSeq
<1>3. Rig \in Seq(S) /\ Len(Rig) = 2
  BY <1>2, PairOf, Zenon DEF Rig
<1>4. PICK rig \in Seq(S) : rig = Rig
  BY <1>3
<1>5. PICK len \in Nat : len = Len(name)
  BY LenProperties
<1>6. IsPrefix(rig, name) /\ Stripped(name) = SubSeq(name, 3, len)
  BY <1>3, <1>4, <1>5 DEF Stripped
<1>7. 2 <= len /\ rig = SubSeq(name, 1, 2)
  <2>1. Len(rig) = 2
    BY <1>3, <1>4
  <2>2. Len(rig) <= Len(name) /\ SubSeq(rig, 1, Len(rig)) = SubSeq(name, 1, Len(rig))
    BY <1>6 DEF IsPrefix
  <2>3. SubSeq(rig, 1, Len(rig)) = rig
    BY SubSeqFull
  <2> QED
    BY <1>5, <2>1, <2>2, <2>3
<1>8. SubSeq(name, 1, 2) \o SubSeq(name, 2 + 1, len) = SubSeq(name, 1, len)
  <2>1. 1 \in 1 .. len + 1 /\ 2 \in 1 - 1 .. len /\ len \in 2 .. len
    BY <1>5, <1>7
  <2> QED
    BY <1>2, <1>5, <2>1, ConcatAdjacentSubSeq
<1>9. SubSeq(name, 1, len) = name
  BY <1>2, <1>5, SubSeqFull
<1>10. SubSeq(name, 2 + 1, len) = SubSeq(name, 3, len)
  <2>1. 2 + 1 = 3
    OBVIOUS
  <2> QED
    BY <2>1
<1>11. rig \o Stripped(name) = SubSeq(name, 1, 2) \o SubSeq(name, 2 + 1, len)
  BY <1>6, <1>7, <1>10, Zenon
<1> QED
  BY <1>4, <1>8, <1>9, <1>11, Zenon

\* What a host that means a registered command reaches: a command of that name,
\* or on the shell one that hides it.
LEMMA ReachedSome ==
    ASSUME IInv, NEW n \in registered
    PROVE  \/ Reached(NameOf[n]) \in registered /\ NameOf[Reached(NameOf[n])] = NameOf[n]
           \/ /\ shell /\ Stripped(NameOf[n]) # NameOf[n]
              /\ \E m \in registered : NameOf[m] = Stripped(NameOf[n])
<1> PICK name : name = NameOf[n]
  OBVIOUS
<1>1. n \in Nodes /\ name \in Seq(STRING)
  BY OrderTypes, NamesAssumption
<1>2. Find(name) \in registered /\ NameOf[Find(name)] = name
  BY FindSome
<1>3. NULL \notin registered
  BY OrderTypes, RegistryAssumption
<1>4. CASE ~shell
  BY <1>2, <1>4 DEF Reached
<1>5. CASE shell /\ Stripped(name) = name
  BY <1>2, <1>3, <1>5 DEF Reached, FindTyped
<1>6. CASE shell /\ Stripped(name) # name
  <2>1. CASE Find(Stripped(name)) = NULL
    <3>1. Reached(name) = Find(Rig \o Stripped(name))
      BY <1>6, <2>1 DEF Reached, FindTyped
    <3>2. Rig \o Stripped(name) = name
      BY <1>1, <1>6, PrefixBack
    <3> QED
      BY <1>2, <3>1, <3>2
  <2>2. CASE Find(Stripped(name)) # NULL
    BY <1>6, <2>2, FindSome
  <2> QED
    BY <2>1, <2>2
<1> QED
  BY <1>4, <1>5, <1>6

\* Each signature is of a command of the name that it is kept under.
SigsNamed == \A name \in DOMAIN sigs : sigs[name] \in Nodes /\ NameOf[sigs[name]] = name

LEMMA CallRuns ==
    ASSUME IInv, SigsNamed, NEW attr, NEW argc, CallAttribute(attr, argc)
    PROVE  CheckedCallRuns'
<1>1. PICK name \in Targets(attr) :
         /\ NArgs[sigs[name]] \in {argc, Variadic}
         /\ last' = [op |-> "call", attr |-> attr, name |-> name, checked |-> sigs[name],
                     reached |-> Reached(name), answer |-> Answer(Reached(name), argc),
                     known |-> DOMAIN sigs, there |-> registered]
         /\ shell' = shell
  BY DEF CallAttribute
<1> PICK n : n = sigs[name]
  OBVIOUS
<1>2. n \in Nodes /\ NameOf[n] = name
  BY DEF Targets, SigsNamed
<1>3. /\ last'.op = "call" /\ last'.name = name /\ last'.checked = n
      /\ last'.reached = Reached(name) /\ last'.there = registered
      /\ last'.answer = Answer(Reached(name), argc)
  BY <1>1
<1> SUFFICES ASSUME n \in registered, ~Twin(last)', ~Hidden(last)'
             PROVE  last'.reached = n /\ last'.answer = "ran"
  BY <1>3 DEF CheckedCallRuns
<1>4. \A m \in registered : NameOf[m] = name => m = n
  BY <1>2, <1>3 DEF Twin
<1>5. ~(shell /\ Stripped(name) # name /\ \E m \in registered : NameOf[m] = Stripped(name))
  BY <1>1, <1>3 DEF Hidden
<1>6. Reached(name) = n
  BY <1>2, <1>4, <1>5, ReachedSome
<1>7. Answer(n, argc) = "ran"
  BY <1>1, <1>2, RegistryAssumption DEF Answer
<1> QED
  BY <1>3, <1>6, <1>7

LEMMA HandshakeReaches == ASSUME IInv, Handshake PROVE HandshakeReachesList'
<1>1. /\ last' = [op |-> "handshake", reached |-> Reached(NameOf[List]), there |-> registered]
      /\ List \in registered /\ shell' = shell
  BY RegistryAssumption DEF Handshake
<1>2. last'.reached = Reached(NameOf[List]) /\ last'.there = registered
  BY <1>1
<1> QED
  BY <1>1, <1>2, ReachedSome DEF HandshakeReachesList

LEMMA Checked ==
    Spec => [](IInv /\ SigsNamed /\ CheckedCallRuns /\ HandshakeReachesList)
<1> DEFINE Inv == IInv /\ SigsNamed /\ CheckedCallRuns /\ HandshakeReachesList
<1>1. Init => Inv
  BY ListInit DEF Init, NoCall, SigsNamed, CheckedCallRuns, HandshakeReachesList
<1>2. Inv /\ [Next]_vars => Inv'
  <2> SUFFICES ASSUME Inv, [Next]_vars PROVE Inv'
    OBVIOUS
  <2>0. IInv'
    BY ListStep
  <2>1. ASSUME UNCHANGED <<sigs, last, shell>> PROVE Inv'
    BY <2>0, <2>1 DEF SigsNamed, CheckedCallRuns, Twin, Hidden, HandshakeReachesList
  <2>2. CASE Handshake
    <3>1. sigs' = Signatures(Listing) \/ sigs' = sigs
      BY <2>2 DEF Handshake
    <3>2. SigsNamed'
      BY <3>1, KnownNamed DEF SigsNamed
    <3>3. last'.op = "handshake"
      BY <2>2 DEF Handshake
    <3>4. CheckedCallRuns'
      BY <3>3 DEF CheckedCallRuns
    <3> QED
      BY <2>0, <2>2, <3>2, <3>4, HandshakeReaches
  <2>3. ASSUME NEW attr, NEW argc, CallAttribute(attr, argc) PROVE Inv'
    <3>1. sigs' = sigs /\ last'.op = "call"
      BY <2>3 DEF CallAttribute
    <3>2. SigsNamed' /\ HandshakeReachesList'
      BY <3>1 DEF SigsNamed, HandshakeReachesList
    <3> QED
      BY <2>0, <2>3, <3>2, CallRuns
  <2>4. CASE Reboot \/ UNCHANGED vars \/ \E n \in Nodes : Register(n)
    BY <2>1, <2>4 DEF Reboot, Register, vars
  <2> QED
    BY <2>2, <2>3, <2>4 DEF Next
<1> QED
  BY <1>1, <1>2, PTL DEF Spec

(***************************************************************************)
(* A call that the host has checked runs the command whose signature it    *)
(* was checked against, for any commands, names and orders of              *)
(* registration, unless the name is registered twice, hidden on the shell  *)
(* or gone with a reboot.                                                  *)
(***************************************************************************)
THEOREM CheckedCallsRun == Spec => []CheckedCallRuns
BY Checked, PTL

(***************************************************************************)
(* The handshake reaches rig.list unless another command takes its name,   *)
(* or on the shell its bare name.                                          *)
(***************************************************************************)
THEOREM HandshakesReachList == Spec => []HandshakeReachesList
BY Checked, PTL
=============================================================================
