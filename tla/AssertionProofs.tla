--------------------------- MODULE AssertionProofs ---------------------------
(***************************************************************************)
(* Proofs about Assertion for any relying parties, credentials, slots and  *)
(* length of the list.  The invariant ties the list in RAM to the request  *)
(* it was saved for: its entries are distinct, in order, of the relying    *)
(* party of the request and visible to it, and what was answered is the    *)
(* part of the list before credentialCounter.                              *)
(***************************************************************************)
EXTENDS Assertion, FiniteSetTheorems, SequenceTheorems, TLAPS

Ordered(s) == \A i, j \in DOMAIN s : i < j => s[i].creation >= s[j].creation

\* The saved list, while there is one.
ListIsAnswer ==
    credsx # <<>> =>
        /\ IsInjective(credsx) /\ Ordered(credsx)
        /\ savedx.size = Len(credsx)
        /\ Len(answered) = credentialCounter
        /\ \A i \in 1 .. credentialCounter : answered[i] = credsx[i]
        /\ \A i \in DOMAIN credsx :
              credsx[i].rp = savedx.rp /\ Shown(credsx[i], savedx.uv, savedx.resident)

AssertionInv ==
    TypeOK /\ clock <= serial /\ IsFiniteSet(made) /\ ListIsAnswer /\ ProtectedNeedsUv /\ NextAssertionsExact

(***************************************************************************)
(* The credentials a request sees                                          *)
(***************************************************************************)

\* How many credentials of r come before slot k.
Rank(r, k) == Cardinality({j \in SlotsOf(r) : j < k})

\* A later slot has the higher rank.
LEMMA RankGrows ==
    ASSUME NEW r, NEW k \in SlotsOf(r), NEW l \in SlotsOf(r), k < l
    PROVE  Rank(r, k) \in Nat /\ Rank(r, l) \in Nat /\ Rank(r, k) < Rank(r, l)
<1> DEFINE below(n) == {j \in SlotsOf(r) : j < n}
<1>f. IsFiniteSet(Slots)
  BY SizeAssumption, FS_Interval DEF Slots
<1>1. IsFiniteSet(Slots) /\ SlotsOf(r) \subseteq Slots /\ Slots \subseteq Nat /\ k \in Nat /\ l \in Nat
  BY <1>f DEF Slots, SlotsOf
<1>2. \A n : below(n) \subseteq Slots
  BY <1>1
<1>3. IsFiniteSet(below(k)) /\ IsFiniteSet(below(l))
  BY <1>1, <1>2, FS_Subset
<1>4. Cardinality(below(k)) \in Nat /\ Cardinality(below(l)) \in Nat
  BY <1>3, FS_CardinalityType
<1>5. below(k) \cup {k} \subseteq below(l) /\ k \notin below(k)
  <2>1. \A j \in SlotsOf(r) : j \in Nat
    BY <1>1
  <2>2. \A j \in SlotsOf(r) : j < k => j < l
    BY <1>1, <2>1
  <2>3. \A j \in below(k) : j \in below(l)
    BY <2>2
  <2>4. k \in below(l) /\ k \notin below(k)
    BY <1>1
  <2> QED
    BY <2>3, <2>4
<1>6. Cardinality(below(k) \cup {k}) = Cardinality(below(k)) + 1
  BY <1>3, <1>5, FS_AddElement
<1>7. Cardinality(below(k) \cup {k}) <= Cardinality(below(l))
  BY <1>3, <1>5, FS_Subset
<1>8. Rank(r, k) = Cardinality(below(k)) /\ Rank(r, l) = Cardinality(below(l))
  BY DEF Rank
<1> QED
  BY <1>4, <1>6, <1>7, <1>8

\* A rank is a number.
LEMMA RankType == ASSUME NEW r, NEW k PROVE Rank(r, k) \in Nat
<1>1. IsFiniteSet(Slots) /\ {j \in SlotsOf(r) : j < k} \subseteq Slots
  BY SizeAssumption, FS_Interval DEF Slots, SlotsOf
<1> QED
  BY <1>1, FS_Subset, FS_CardinalityType DEF Rank

\* A request without an allow list finds no more credentials than the list has
\* room for.
LEMMA FoundFits ==
    ASSUME TypeOK, NEW r \in Rps
    PROVE  /\ Found(r) \subseteq Credentials /\ \A c \in Found(r) : c.rp = r
           /\ IsFiniteSet(Found(r)) /\ Cardinality(Found(r)) <= MaxList
<1> DEFINE seen == {k \in SlotsOf(r) : Rank(r, k) < MaxList}
           rank == [k \in seen |-> Rank(r, k)]
           slot == [k \in seen |-> resident[k]]
<1>1. Found(r) = {resident[k] : k \in seen}
  BY DEF Found, Rank
<1>2. \A k \in seen : resident[k] \in Credentials /\ resident[k].rp = r
  BY DEF SlotsOf, TypeOK
<1>3. seen \subseteq Nat /\ seen \subseteq SlotsOf(r)
  BY DEF SlotsOf, Slots
<1>4. \A k \in seen : Rank(r, k) \in 0 .. MaxList - 1
  BY RankType, SizeAssumption
<1>5. \A k, l \in seen : Rank(r, k) = Rank(r, l) => k = l
  <2> SUFFICES ASSUME NEW k \in seen, NEW l \in seen, Rank(r, k) = Rank(r, l), k # l PROVE FALSE
    OBVIOUS
  <2>1. k < l \/ l < k
    BY <1>3
  <2> HIDE DEF seen
  <2> QED
    BY <1>3, <2>1, RankGrows
<1>6. rank \in Injection(seen, 0 .. MaxList - 1)
  BY <1>4, <1>5 DEF Injection, IsInjective
<1>7. IsFiniteSet(0 .. MaxList - 1) /\ Cardinality(0 .. MaxList - 1) = MaxList
  BY SizeAssumption, FS_Interval
<1>8. slot \in Surjection(seen, Found(r))
  BY <1>1 DEF Surjection
<1> HIDE DEF seen, rank, slot
<1>9. IsFiniteSet(seen) /\ Cardinality(seen) <= MaxList
  BY <1>6, <1>7, FS_Injection
<1>10. IsFiniteSet(Found(r)) /\ Cardinality(Found(r)) <= Cardinality(seen)
  BY <1>8, <1>9, FS_Surjection
<1>11. Cardinality(seen) \in Nat /\ Cardinality(Found(r)) \in Nat
  BY <1>9, <1>10, FS_CardinalityType
<1>12. Cardinality(Found(r)) <= MaxList
  BY <1>9, <1>10, <1>11, SizeAssumption
<1> QED
  BY <1>1, <1>2, <1>10, <1>12

\* Nor does one with an allow list, and all it sees it may see.
LEMMA SeenFits ==
    ASSUME TypeOK, IsFiniteSet(made),
           NEW r \in Rps, NEW allow \in AllowLists, NEW verified \in BOOLEAN
    PROVE  /\ Seen(r, allow, verified) \subseteq Credentials
           /\ \A c \in Seen(r, allow, verified) : c.rp = r /\ Shown(c, verified, allow = {})
           /\ IsFiniteSet(Seen(r, allow, verified))
           /\ Cardinality(Seen(r, allow, verified)) \in 0 .. MaxList
<1> DEFINE from == IF allow = {} THEN Found(r) ELSE {c \in allow : c.rp = r}
           seen == Seen(r, allow, verified)
<1>1. from \subseteq Credentials /\ \A c \in from : c.rp = r
  BY FoundFits DEF AllowLists, TypeOK
<1>2. IsFiniteSet(from) /\ Cardinality(from) <= MaxList
  <2>1. CASE allow = {}
    BY <2>1, FoundFits
  <2>2. CASE allow # {}
    <3>1. IsFiniteSet(allow) /\ Cardinality(allow) \in Nat /\ Cardinality(allow) <= MaxList
      BY FS_Subset, FS_CardinalityType DEF AllowLists
    <3>2. from \subseteq allow
      BY <2>2
    <3>3. IsFiniteSet(from) /\ Cardinality(from) <= Cardinality(allow) /\ Cardinality(from) \in Nat
      BY <3>1, <3>2, FS_Subset, FS_CardinalityType
    <3> QED
      BY <3>1, <3>3, SizeAssumption
  <2> QED
    BY <2>1, <2>2
<1>3. seen \subseteq from /\ \A c \in seen : Shown(c, verified, allow = {})
  BY DEF Seen
<1> HIDE DEF from, seen
<1>4. /\ IsFiniteSet(seen) /\ Cardinality(seen) \in Nat /\ Cardinality(from) \in Nat
      /\ Cardinality(seen) <= Cardinality(from)
  BY <1>2, <1>3, FS_Subset, FS_CardinalityType
<1>5. Cardinality(seen) \in 0 .. MaxList
  BY <1>2, <1>4, SizeAssumption
<1> QED
  BY <1>1, <1>3, <1>4, <1>5 DEF seen

\* A sorted list has each credential once.
LEMMA SortedOnce ==
    ASSUME NEW S \in SUBSET Credentials, IsFiniteSet(S), NEW s \in Sorted(S)
    PROVE  /\ s \in Seq(Credentials) /\ Len(s) = Cardinality(S) /\ Len(s) \in Nat \ {0}
           /\ s # <<>> /\ IsInjective(s) /\ Ordered(s)
           /\ DOMAIN s = 1 .. Len(s) /\ \A i \in 1 .. Len(s) : s[i] \in S
<1> DEFINE n == Cardinality(S)
<1>1. n \in Nat
  BY FS_CardinalityType
<1>2. /\ s \in [1 .. n -> S] /\ \A i, j \in 1 .. n : i # j => s[i] # s[j]
      /\ s # <<>> /\ Ordered(s)
  BY DEF Sorted, SetToSeqs, Ordered
<1> HIDE DEF n
<1>3. s \in Seq(S) /\ s \in Seq(Credentials) /\ Len(s) = n /\ DOMAIN s = 1 .. n
  BY <1>1, <1>2
<1>4. n # 0
  BY <1>2, <1>3, EmptySeq
<1> QED
  BY <1>1, <1>2, <1>3, <1>4 DEF IsInjective, n

(***************************************************************************)
(* The commands                                                            *)
(***************************************************************************)

\* The list of a getAssertion, as the next getNextAssertion finds it.
LEMMA SaveStep ==
    ASSUME AssertionInv, NEW r \in Rps, NEW allow \in AllowLists, NEW verified \in BOOLEAN,
           NEW s \in Sorted(Seen(r, allow, verified)), Len(s) > 1,
           Save(s, Request(r, allow, verified, TRUE, Len(s)))
    PROVE  /\ credsx' \in Seq(Credentials) /\ Len(credsx') <= MaxList
           /\ credsx' # <<>> /\ credentialCounter' \in 1 .. (Len(credsx') - 1)
           /\ savedx' \in Requests /\ answered' \in Seq(Credentials)
           /\ ListIsAnswer' /\ IsInjective(answered') /\ Ordered(answered')
<1> DEFINE q == Request(r, allow, verified, TRUE, Len(s))
<1>1. /\ credsx' = s /\ credentialCounter' = 1 /\ savedx' = q /\ answered' = <<s[1]>>
  BY DEF Save
<1>2. /\ Seen(r, allow, verified) \subseteq Credentials /\ IsFiniteSet(Seen(r, allow, verified))
      /\ Cardinality(Seen(r, allow, verified)) \in 0 .. MaxList
      /\ \A c \in Seen(r, allow, verified) : c.rp = r /\ Shown(c, verified, allow = {})
  BY SeenFits DEF AssertionInv
<1>3. /\ s \in Seq(Credentials) /\ Len(s) \in 1 .. MaxList /\ s # <<>> /\ IsInjective(s) /\ Ordered(s)
      /\ DOMAIN s = 1 .. Len(s) /\ \A i \in 1 .. Len(s) : s[i] \in Seen(r, allow, verified)
  BY <1>2, SortedOnce
<1>4. q \in Requests /\ q.rp = r /\ q.uv = verified /\ q.resident = (allow = {}) /\ q.size = Len(s)
  BY <1>3 DEF Request, Requests
<1>5. \A i \in DOMAIN s : s[i].rp = q.rp /\ Shown(s[i], q.uv, q.resident)
  BY <1>2, <1>3, <1>4
<1> HIDE DEF q
<1>6. s[1] \in Credentials
  BY <1>2, <1>3
<1>7. /\ answered' \in Seq(Credentials) /\ Len(answered') = 1 /\ DOMAIN answered' = 1 .. 1
      /\ answered'[1] = s[1]
  BY <1>1, <1>6
<1>8. IsInjective(answered') /\ Ordered(answered')
  BY <1>7 DEF IsInjective, Ordered
<1>9. ListIsAnswer'
  BY <1>1, <1>3, <1>4, <1>5, <1>7 DEF ListIsAnswer
<1> QED
  BY <1>1, <1>3, <1>4, <1>7, <1>8, <1>9

\* A list that stays as it is.
LEMMA ListStays ==
    ASSUME AssertionInv, UNCHANGED list
    PROVE  /\ credsx' \in Seq(Credentials) /\ Len(credsx') <= MaxList
           /\ credsx' = <<>> => credentialCounter' \in {0, 1}
           /\ credsx' # <<>> => credentialCounter' \in 1 .. (Len(credsx') - 1)
           /\ IF credsx' = <<>> THEN savedx' = Empty ELSE savedx' \in Requests
           /\ answered' \in Seq(Credentials)
           /\ ListIsAnswer' /\ IsInjective(answered') /\ Ordered(answered')
BY DEF AssertionInv, TypeOK, list, ListIsAnswer, NextAssertionsExact, Ordered

\* The first answer: a credential the request may see.
LEMMA GetAssertionStep ==
    ASSUME AssertionInv, NEW r \in Rps, NEW allow \in AllowLists,
           NEW verified \in BOOLEAN, NEW up \in BOOLEAN, GetAssertion(r, allow, verified, up)
    PROVE  AssertionInv'
<1>1. PICK s \in Sorted(Seen(r, allow, verified)) :
        /\ IF up /\ Len(s) > 1 THEN Save(s, Request(r, allow, verified, up, Len(s))) ELSE UNCHANGED list
        /\ Reply("GA", s[1], Request(r, allow, verified, up, Len(s)))
        /\ UNCHANGED store
  BY DEF GetAssertion
<1> DEFINE q == Request(r, allow, verified, up, Len(s))
<1>2. /\ Seen(r, allow, verified) \subseteq Credentials /\ IsFiniteSet(Seen(r, allow, verified))
      /\ Cardinality(Seen(r, allow, verified)) \in 0 .. MaxList
      /\ \A c \in Seen(r, allow, verified) : c.rp = r /\ Shown(c, verified, allow = {})
  BY SeenFits DEF AssertionInv
<1>3. Len(s) \in 1 .. MaxList /\ s[1] \in Seen(r, allow, verified)
  BY <1>2, SortedOnce
<1>4. /\ q \in Requests /\ q.rp = r /\ q.uv = verified /\ q.resident = (allow = {})
      /\ s[1] \in Credentials /\ s[1].rp = r /\ Shown(s[1], verified, allow = {})
  BY <1>2, <1>3 DEF Request, Requests
<1>5. out' = [cmd |-> "GA", cred |-> s[1], to |-> q]
  BY <1>1 DEF Reply
<1> HIDE DEF q
<1>6. /\ credsx' \in Seq(Credentials) /\ Len(credsx') <= MaxList
      /\ credsx' = <<>> => credentialCounter' \in {0, 1}
      /\ credsx' # <<>> => credentialCounter' \in 1 .. (Len(credsx') - 1)
      /\ IF credsx' = <<>> THEN savedx' = Empty ELSE savedx' \in Requests
      /\ answered' \in Seq(Credentials)
      /\ ListIsAnswer' /\ IsInjective(answered') /\ Ordered(answered')
  <2>1. CASE up /\ Len(s) > 1
    <3>1. Save(s, Request(r, allow, verified, TRUE, Len(s)))
      BY <1>1, <2>1
    <3> QED
      BY <2>1, <3>1, SaveStep
  <2>2. CASE ~(up /\ Len(s) > 1)
    BY <1>1, <2>2, ListStays
  <2> QED
    BY <2>1, <2>2
<1>7. out'.cmd = "GA" /\ out'.cred = s[1] /\ out'.to = q
  BY <1>5
<1>8. out' \in [cmd : {"GA", "GNA"}, cred : Credentials, to : Requests]
  BY <1>4, <1>5
<1>9. TypeOK'
  BY <1>1, <1>6, <1>8 DEF AssertionInv, TypeOK, store
<1>10. ProtectedNeedsUv'
  BY <1>4, <1>7 DEF ProtectedNeedsUv, Shown
<1>11. NextAssertionsExact'
  BY <1>6, <1>7 DEF NextAssertionsExact, Ordered
<1> QED
  BY <1>1, <1>6, <1>9, <1>10, <1>11 DEF AssertionInv, store

\* A command that answers nothing and keeps or forgets the list.
LEMMA SilentStep ==
    ASSUME out' = Empty, IsFiniteSet(made'), clock' <= serial',
           /\ resident' \in [Slots -> Credentials \cup {Empty}] /\ made' \subseteq Credentials
           /\ clock' \in 0 .. MaxMade /\ serial' \in 0 .. MaxMade,
           /\ credsx' \in Seq(Credentials) /\ Len(credsx') <= MaxList
           /\ credsx' = <<>> => credentialCounter' \in {0, 1}
           /\ credsx' # <<>> => credentialCounter' \in 1 .. (Len(credsx') - 1)
           /\ IF credsx' = <<>> THEN savedx' = Empty ELSE savedx' \in Requests
           /\ answered' \in Seq(Credentials)
           /\ ListIsAnswer' /\ IsInjective(answered') /\ Ordered(answered')
    PROVE  AssertionInv'
BY DEF AssertionInv, TypeOK, ProtectedNeedsUv, NextAssertionsExact, Ordered

\* getNextAssertion answers the entry after those already answered.
LEMMA GetNextStep == ASSUME AssertionInv, GetNextAssertion PROVE AssertionInv'
<1> DEFINE n == Len(credsx)
           k == credentialCounter
           c == credsx[k + 1]
<1>1. credsx \in Seq(Credentials) /\ n \in Nat /\ k \in Nat /\ k < n
  BY DEF AssertionInv, TypeOK, GetNextAssertion
<1>2. credsx # <<>> /\ k \in 1 .. n - 1 /\ savedx \in Requests
  BY <1>1, EmptySeq DEF AssertionInv, TypeOK
<1>3. k + 1 \in 1 .. n /\ DOMAIN credsx = 1 .. n /\ c \in Credentials
  BY <1>1
<1>4. /\ IsInjective(credsx) /\ Ordered(credsx) /\ savedx.size = n
      /\ Len(answered) = k /\ answered \in Seq(Credentials)
      /\ \A i \in 1 .. k : answered[i] = credsx[i]
      /\ \A i \in DOMAIN credsx : credsx[i].rp = savedx.rp /\ Shown(credsx[i], savedx.uv, savedx.resident)
  BY <1>2 DEF AssertionInv, ListIsAnswer, TypeOK
<1>5. /\ out' = [cmd |-> "GNA", cred |-> c, to |-> savedx]
      /\ answered' = Append(answered, c) /\ UNCHANGED store
      /\ IF k + 1 = n THEN Forget ELSE credentialCounter' = k + 1 /\ UNCHANGED <<credsx, savedx>>
  BY DEF GetNextAssertion, Reply, NextCredential, Exhausted
<1>6. /\ answered' \in Seq(Credentials) /\ Len(answered') = k + 1 /\ DOMAIN answered' = 1 .. k + 1
      /\ \A i \in 1 .. k + 1 : answered'[i] = credsx[i]
  <2>1. answered' \in Seq(Credentials) /\ Len(answered') = k + 1
    BY <1>3, <1>4, <1>5, AppendProperties
  <2>2. \A i \in 1 .. k : answered'[i] = answered[i]
    BY <1>3, <1>4, <1>5, AppendProperties
  <2>3. answered'[k + 1] = c
    BY <1>3, <1>4, <1>5, AppendProperties
  <2> QED
    BY <1>1, <1>4, <2>1, <2>2, <2>3
<1>7. IsInjective(answered') /\ Ordered(answered')
  <2>1. 1 .. k + 1 \subseteq DOMAIN credsx
    BY <1>1, <1>3
  <2> HIDE DEF c, n, k
  <2> QED
    BY <1>4, <1>6, <2>1 DEF IsInjective, Ordered
<1>8. out'.cmd = "GNA" /\ out'.cred = c /\ out'.to = savedx
      /\ out' \in [cmd : {"GA", "GNA"}, cred : Credentials, to : Requests]
  BY <1>2, <1>3, <1>5
<1>9. /\ credsx' \in Seq(Credentials) /\ Len(credsx') <= MaxList
      /\ credsx' = <<>> => credentialCounter' \in {0, 1}
      /\ credsx' # <<>> => credentialCounter' \in 1 .. (Len(credsx') - 1)
      /\ IF credsx' = <<>> THEN savedx' = Empty ELSE savedx' \in Requests
      /\ ListIsAnswer'
      /\ credsx' = <<>> <=> k + 1 = n
  <2>1. CASE k + 1 = n
    BY <1>5, <2>1, SizeAssumption DEF Forget, ListIsAnswer
  <2>2. CASE k + 1 # n
    <3>1. credentialCounter' = k + 1 /\ credsx' = credsx /\ savedx' = savedx
      BY <1>5, <2>2
    <3>2. k + 1 \in 1 .. n - 1
      BY <1>1, <2>2
    <3>3. ListIsAnswer'
      BY <1>4, <1>6, <3>1 DEF ListIsAnswer
    <3> QED
      BY <1>1, <1>2, <2>2, <3>1, <3>2, <3>3 DEF AssertionInv, TypeOK
  <2> QED
    BY <2>1, <2>2
<1>10. TypeOK'
  BY <1>5, <1>6, <1>8, <1>9 DEF AssertionInv, TypeOK, store
<1>11. ProtectedNeedsUv'
  BY <1>3, <1>4, <1>8 DEF ProtectedNeedsUv, Shown
<1>12. NextAssertionsExact'
  BY <1>1, <1>4, <1>6, <1>7, <1>8, <1>9 DEF NextAssertionsExact, Ordered
<1> QED
  BY <1>5, <1>9, <1>10, <1>11, <1>12 DEF AssertionInv, store

\* A list that is forgotten.
LEMMA ListForgotten ==
    ASSUME credsx' = <<>>, credentialCounter' \in {0, 1}, savedx' = Empty, answered' = <<>>
    PROVE  /\ credsx' \in Seq(Credentials) /\ Len(credsx') <= MaxList
           /\ credsx' = <<>> => credentialCounter' \in {0, 1}
           /\ credsx' # <<>> => credentialCounter' \in 1 .. (Len(credsx') - 1)
           /\ IF credsx' = <<>> THEN savedx' = Empty ELSE savedx' \in Requests
           /\ answered' \in Seq(Credentials)
           /\ ListIsAnswer' /\ IsInjective(answered') /\ Ordered(answered')
BY SizeAssumption DEF ListIsAnswer, IsInjective, Ordered

\* A registration is one more credential.
LEMMA MakeStep ==
    ASSUME AssertionInv, NEW kind \in Kinds, NEW rk \in BOOLEAN,
           MakeCredential(kind[1], kind[2], rk)
    PROVE  AssertionInv'
<1> DEFINE c == [serial |-> serial + 1, rp |-> kind[1], protect |-> kind[2], creation |-> clock + 1]
<1>0. kind[1] \in Rps /\ kind[2] \in 1 .. 3
  BY KindAssumption
<1>1. /\ serial \in 0 .. MaxMade /\ clock \in 0 .. MaxMade /\ serial < MaxMade /\ clock <= serial
      /\ MaxMade \in Nat
  BY SizeAssumption DEF AssertionInv, TypeOK, MakeCredential
<1>2. serial + 1 \in 1 .. MaxMade /\ clock + 1 \in 1 .. MaxMade
  BY <1>1
<1>3. c \in Credentials
  BY <1>0, <1>2 DEF Credentials
<1>4. /\ made' = made \cup {c} /\ serial' = serial + 1 /\ clock' = clock + 1 /\ out' = Empty
      /\ UNCHANGED list
      /\ \/ \E i \in Targets(kind[1]) : resident' = [resident EXCEPT ![i] = c]
         \/ UNCHANGED resident
  BY DEF MakeCredential
<1> HIDE DEF c
<1>5. resident' \in [Slots -> Credentials \cup {Empty}]
  BY <1>3, <1>4 DEF AssertionInv, TypeOK
<1>6. made' \subseteq Credentials /\ IsFiniteSet(made')
  BY <1>3, <1>4, FS_AddElement DEF AssertionInv, TypeOK
<1>7. clock' \in 0 .. MaxMade /\ serial' \in 0 .. MaxMade /\ clock' <= serial'
  BY <1>1, <1>2, <1>4
<1> QED
  BY <1>4, <1>5, <1>6, <1>7, ListStays, SilentStep

\* The other commands answer nothing.
LEMMA OtherSteps ==
    ASSUME AssertionInv,
           \/ \E r \in Rps, allow \in AllowLists, verified \in BOOLEAN : GetAssertionBroken(r, allow, verified)
           \/ GetNextAssertionRefused
           \/ \E i \in Slots : Delete(i)
           \/ Reset
           \/ PowerCycle
    PROVE  AssertionInv'
<1>0. /\ resident \in [Slots -> Credentials \cup {Empty}] /\ made \subseteq Credentials
      /\ IsFiniteSet(made) /\ clock \in 0 .. MaxMade /\ serial \in 0 .. MaxMade /\ clock <= serial
  BY DEF AssertionInv, TypeOK
<1>1. ASSUME NEW r \in Rps, NEW allow \in AllowLists, NEW verified \in BOOLEAN,
             GetAssertionBroken(r, allow, verified)
      PROVE  AssertionInv'
  <2>1. PICK s \in Sorted(Seen(r, allow, verified)) :
          /\ Len(s) > 1
          /\ Save(s, Request(r, allow, verified, TRUE, Len(s)))
          /\ out' = Empty
          /\ UNCHANGED store
    BY <1>1 DEF GetAssertionBroken
  <2>2. UNCHANGED <<resident, made, clock, serial>>
    BY <2>1 DEF store
  <2>3. /\ credsx' \in Seq(Credentials) /\ Len(credsx') <= MaxList
        /\ credsx' # <<>> /\ credentialCounter' \in 1 .. (Len(credsx') - 1)
        /\ savedx' \in Requests /\ answered' \in Seq(Credentials)
        /\ ListIsAnswer' /\ IsInjective(answered') /\ Ordered(answered')
    BY <2>1, SaveStep
  <2> QED
    BY <1>0, <2>1, <2>2, <2>3, SilentStep
<1>2. CASE GetNextAssertionRefused
  <2>1. UNCHANGED <<resident, made, clock, serial>> /\ out' = Empty
    BY <1>2 DEF GetNextAssertionRefused, store
  <2> QED
    BY <1>0, <1>2, <2>1, ListForgotten, SilentStep DEF GetNextAssertionRefused, Forget
<1>3. ASSUME NEW i \in Slots, Delete(i) PROVE AssertionInv'
  <2>1. /\ resident' \in [Slots -> Credentials \cup {Empty}]
        /\ UNCHANGED <<made, clock, serial, list>> /\ out' = Empty
    BY <1>0, <1>3 DEF Delete
  <2> QED
    BY <1>0, <2>1, ListStays, SilentStep
<1>4. CASE Reset
  <2>1. /\ resident' \in [Slots -> Credentials \cup {Empty}] /\ made' = {} /\ IsFiniteSet(made')
        /\ UNCHANGED <<clock, serial, list>> /\ out' = Empty
    BY <1>4, FS_EmptySet DEF Reset
  <2> QED
    BY <1>0, <2>1, ListStays, SilentStep
<1>5. CASE PowerCycle
  <2>1. /\ UNCHANGED <<resident, made, serial>> /\ clock' = 0 /\ out' = Empty
        /\ clock' \in 0 .. MaxMade /\ clock' <= serial'
    BY <1>0, <1>5, SizeAssumption DEF PowerCycle
  <2> QED
    BY <1>0, <1>5, <2>1, ListForgotten, SilentStep DEF PowerCycle
<1> QED
  BY <1>1, <1>2, <1>3, <1>4, <1>5

(***************************************************************************)
(* Theorems                                                                *)
(***************************************************************************)

\* Every step keeps the invariant.
LEMMA AssertionStep == AssertionInv /\ [Next]_vars => AssertionInv'
<1> SUFFICES ASSUME AssertionInv, [Next]_vars PROVE AssertionInv'
  OBVIOUS
<1>1. ASSUME NEW kind \in Kinds, NEW rk \in BOOLEAN, MakeCredential(kind[1], kind[2], rk)
      PROVE  AssertionInv'
  BY <1>1, MakeStep
<1>2. ASSUME NEW r \in Rps, NEW allow \in AllowLists, NEW verified \in BOOLEAN,
             NEW up \in BOOLEAN, GetAssertion(r, allow, verified, up)
      PROVE  AssertionInv'
  BY <1>2, GetAssertionStep
<1>3. CASE GetNextAssertion
  BY <1>3, GetNextStep
<1>4. CASE UNCHANGED vars
  BY <1>4 DEF vars, store, list, AssertionInv, TypeOK, ListIsAnswer, ProtectedNeedsUv,
     NextAssertionsExact, Ordered
<1> QED
  BY <1>1, <1>2, <1>3, <1>4, OtherSteps DEF Next

\* What getNextAssertion answers from is at all times the list of the request
\* it was saved for, distinct, in order and visible to that request, from the
\* place after the last answer (cbor_get_assertion, cbor_get_next_assertion).
THEOREM ListInvariant == Spec => []AssertionInv
<1>1. Init => AssertionInv
  <2> SUFFICES ASSUME Init PROVE AssertionInv
    OBVIOUS
  <2>1. TypeOK
    BY SizeAssumption DEF Init, TypeOK
  <2>2. ListIsAnswer /\ ProtectedNeedsUv /\ NextAssertionsExact
    BY DEF Init, ListIsAnswer, ProtectedNeedsUv, NextAssertionsExact, IsInjective
  <2> QED
    BY <2>1, <2>2, FS_EmptySet DEF Init, AssertionInv
<1> QED
  BY <1>1, AssertionStep, PTL DEF Spec

\* A response is of a credential of the relying party asked for; one that is
\* protected is in the response to a verified request only, also from a list
\* that an earlier request saved (cbor_get_assertion).
THEOREM ProtectedAreShownVerified == Spec => []ProtectedNeedsUv
<1>1. AssertionInv => ProtectedNeedsUv
  BY DEF AssertionInv
<1> QED
  BY <1>1, ListInvariant, PTL

\* getNextAssertion answers each credential of its list once, the latest
\* first, and ends exactly with the last (cbor_get_next_assertion).
THEOREM NextAnswersAreExact == Spec => []NextAssertionsExact
<1>1. AssertionInv => NextAssertionsExact
  BY DEF AssertionInv
<1> QED
  BY <1>1, ListInvariant, PTL
=============================================================================
