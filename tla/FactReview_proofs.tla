-------------------------- MODULE FactReview_proofs --------------------------
(***************************************************************************)
(* Proofs about FactReview, for any claims, values and places: all its     *)
(* invariants that hold.                                                   *)
(*                                                                         *)
(* What an import makes of a claim is a recursive function over the places *)
(* of the sources.  That it exists, and what it preserves, is proved by    *)
(* induction on the place; the induction is the existence of a least       *)
(* counterexample (LeastElement), which follows from the theorem that the  *)
(* finite sets are well-founded.  WhatIsRead says what the import of one   *)
(* claim comes to: a claim that is still approved or corrected afterwards  *)
(* is the one there was, and every place that states it agrees with it.    *)
(*                                                                         *)
(* DecisionInv leaves support, conflicts and sensitivity out of            *)
(* EligibleIsDecided.  PageInv adds that a page is never ahead of its      *)
(* claim, and ConflictInv says the same of its conflict.  EvidenceInv      *)
(* drops the condition that the conflict is settled: whenever what an      *)
(* import linked disagrees there is a group, and it holds it.              *)
(***************************************************************************)
EXTENDS FactReview, FiniteSetTheorems, TLAPS

USE DEF latest

-----------------------------------------------------------------------------
(* Induction *)

\* A set of natural numbers has a least one.
LEMMA LeastElement ==
  ASSUME NEW T \in SUBSET Nat, T # {}
  PROVE  \E m \in T : \A n \in T : m <= n
<1> DEFINE Below(n) == 0 .. n
           Segments == {Below(n) : n \in T}
<1>1. IsWellFoundedOn(StrictSubsetOrdering(Nat), FiniteSubsetsOf(Nat))
  BY FS_StrictSubsetOrderingWellFounded
<1>2. Segments \subseteq FiniteSubsetsOf(Nat) /\ Segments # {}
  <2>1. \A n \in T : Below(n) \subseteq Nat /\ IsFiniteSet(Below(n))
    BY FS_Interval
  <2> HIDE DEF Below
  <2> QED
    BY <2>1 DEF FiniteSubsetsOf
<1> HIDE DEF Segments
<1>3. PICK s \in Segments : \A y \in Segments : <<y, s>> \notin StrictSubsetOrdering(Nat)
  BY <1>1, <1>2, WFMin
<1> USE DEF Segments
<1>4. PICK m \in T : s = Below(m)
  OBVIOUS
<1>5. ASSUME NEW n \in T, n < m PROVE FALSE
  <2>1. Below(n) \subseteq Below(m) /\ m \in Below(m) /\ m \notin Below(n)
    BY <1>5
  <2>2. <<Below(n), s>> \in StrictSubsetOrdering(Nat)
    BY <2>1, <1>4 DEF StrictSubsetOrdering
  <2> QED
    BY <2>2, <1>3
<1> QED
  BY <1>5

LEMMA Induction ==
  ASSUME NEW N \in Nat, NEW S \in SUBSET Nat, 0 \in S,
         \A n \in S : n < N => n + 1 \in S
  PROVE  0 .. N \subseteq S
<1> DEFINE T == (0 .. N) \ S
<1>1. CASE T # {}
  <2>0. T \in SUBSET Nat
    OBVIOUS
  <2> HIDE DEF T
  <2>1. PICK m \in T : \A n \in T : m <= n
    BY <1>1, <2>0, LeastElement
  <2> USE DEF T
  <2>2. m \in 0 .. N /\ m \notin S /\ m # 0
    OBVIOUS
  <2>3. m - 1 \in 0 .. N /\ m - 1 \notin T /\ m - 1 < N
    BY <2>1, <2>2
  <2>4. m - 1 \in S /\ m - 1 + 1 = m
    BY <2>2, <2>3
  <2> QED
    BY <2>2, <2>3, <2>4
<1> QED
  BY <1>1

-----------------------------------------------------------------------------
(* What an import reads of a claim *)

IsReading(f, content, c, n) ==
  f = [i \in 0 .. n |-> IF i = 0 THEN claims[c] ELSE ReadPlace(content, c, i, f[i - 1])]

LEMMA ReadingStep ==
  ASSUME NEW content, NEW c, NEW n \in Nat, NEW f, IsReading(f, content, c, n)
  PROVE  \E g : IsReading(g, content, c, n + 1)
<1> DEFINE g == [i \in 0 .. n + 1 |->
                   IF i <= n THEN f[i] ELSE ReadPlace(content, c, n + 1, f[n])]
<1>1. \A i \in 0 .. n : g[i] = f[i]
  OBVIOUS
<1>2. ASSUME NEW i \in 0 .. n + 1
      PROVE  g[i] = IF i = 0 THEN claims[c] ELSE ReadPlace(content, c, i, g[i - 1])
  <2>1. CASE i <= n
    <3>1. g[i] = f[i] /\ (i # 0 => g[i - 1] = f[i - 1])
      BY <2>1, <1>1
    <3>2. f[i] = IF i = 0 THEN claims[c] ELSE ReadPlace(content, c, i, f[i - 1])
      BY <2>1 DEF IsReading
    <3> QED
      BY <3>1, <3>2
  <2>2. CASE i = n + 1
    BY <2>2, <1>1
  <2> QED
    BY <2>1, <2>2
<1>3. g = [i \in 0 .. n + 1 |-> IF i = 0 THEN claims[c]
                               ELSE ReadPlace(content, c, i, g[i - 1])]
  <2> HIDE DEF g
  <2>1. g = [i \in 0 .. n + 1 |-> g[i]]
    BY DEF g
  <2> QED
    BY <1>2, <2>1
<1> QED
  BY <1>3 DEF IsReading

LEMMA NumberOfPlaces == Len(Places) \in Nat /\ \A i \in 1 .. Len(Places) : Places[i] \in Claim
BY FactAssumption

\* The definition of Reading defines what it says.
LEMMA ReadingIsDefined ==
  ASSUME NEW content, NEW c
  PROVE  IsReading(Reading(content, c), content, c, Len(Places))
<1> DEFINE S == {n \in Nat : \E f : IsReading(f, content, c, n)}
<1>1. 0 \in S
  <2> DEFINE f == [i \in 0 .. 0 |-> claims[c]]
  <2>1. f = [i \in 0 .. 0 |-> IF i = 0 THEN claims[c] ELSE ReadPlace(content, c, i, f[i - 1])]
    OBVIOUS
  <2> QED
    BY <2>1 DEF IsReading
<1>2. \A n \in S : n + 1 \in S
  BY ReadingStep
<1> HIDE DEF S
<1>3. Len(Places) \in S
  <2>1. S \subseteq Nat
    BY DEF S
  <2>2. 0 .. Len(Places) \subseteq S
    BY <1>1, <1>2, <2>1, NumberOfPlaces, Induction
  <2> QED
    BY <2>2, NumberOfPlaces
<1>4. \E f : IsReading(f, content, c, Len(Places))
  BY <1>3 DEF S
<1> QED
  BY <1>4 DEF Reading, IsReading

\* What each place preserves, the import of a claim has.
LEMMA ReadingInvariant ==
  ASSUME NEW content, NEW c, NEW S, claims[c] \in S[0],
         \A i \in 1 .. Len(Places) : \A x \in S[i - 1] : ReadPlace(content, c, i, x) \in S[i]
  PROVE  Reading(content, c)[Len(Places)] \in S[Len(Places)]
<1> DEFINE N == Len(Places)
           R == Reading(content, c)
           T == {n \in 0 .. N : R[n] \in S[n]}
<1>1. N \in Nat
  BY NumberOfPlaces
<1>2. \A i \in 0 .. N : R[i] = IF i = 0 THEN claims[c] ELSE ReadPlace(content, c, i, R[i - 1])
  <2>1. IsReading(R, content, c, N)
    BY ReadingIsDefined
  <2> HIDE DEF R, N
  <2> QED
    BY <2>1 DEF IsReading
<1> HIDE DEF R, N
<1>3. 0 \in T
  BY <1>1, <1>2
<1>4. ASSUME NEW n \in T, n < N PROVE n + 1 \in T
  <2>1. n + 1 \in 1 .. N /\ n + 1 - 1 = n /\ R[n] \in S[n]
    BY <1>1, <1>4
  <2>2. ReadPlace(content, c, n + 1, R[n]) \in S[n + 1]
    BY <2>1 DEF N
  <2>3. R[n + 1] = ReadPlace(content, c, n + 1, R[n])
    BY <2>1, <1>1, <1>2
  <2> QED
    BY <2>1, <2>2, <2>3
<1> HIDE DEF T
<1>5. 0 .. N \subseteq T
  <2>1. T \subseteq Nat
    BY <1>1 DEF T
  <2> QED
    BY <1>1, <1>3, <1>4, <2>1, Induction
<1> QED
  BY <1>1, <1>5 DEF T, N, R

-----------------------------------------------------------------------------
(* What an import makes of a claim *)

\* A claim whose version is not bounded.
RawClaim ==
  [active : Value \cup {Absent}, status : Decided \cup {"unresolved", "rejected"},
   sensitivity : {"unreviewed", "normal", "confidential"}, stale : BOOLEAN, version : Nat]

LEMMA ChangedClaim ==
  ASSUME NEW x \in RawClaim, NEW b \in BOOLEAN, NEW n \in Nat,
         NEW s \in Decided \cup {"unresolved", "rejected"}
  PROVE  [x EXCEPT !.stale = b, !.version = n, !.status = s] \in RawClaim
BY DEF RawClaim

\* Upsert leaves a claim as it is, or makes a later version nobody decided on.
LEMMA UpsertFacts ==
  ASSUME NEW x \in RawClaim, NEW v \in Value
  PROVE  /\ Upsert(x, v) \in RawClaim /\ Upsert(x, v).active = v
         /\ \/ Upsert(x, v) = x /\ x.active = v /\ ~x.stale
            \/ Upsert(x, v).version = x.version + 1 /\ Upsert(x, v).status \notin Decided
<1>1. CASE x.active # v
  BY <1>1 DEF Upsert, RawClaim, Decided
<1>2. CASE x.active = v /\ x.stale
  <2>1. Upsert(x, v) = FoundAgain(x)
    BY <1>2 DEF Upsert
  <2>2. PICK s \in {"unresolved", "rejected"} :
          FoundAgain(x) = [x EXCEPT !.stale = FALSE, !.version = @ + 1, !.status = s]
    <3>1. CASE x.status \in Decided
      BY <3>1 DEF FoundAgain, RawClaim
    <3>2. CASE x.status \in {"unresolved", "rejected"}
      BY <3>2 DEF FoundAgain, RawClaim, Decided
    <3> QED
      BY <3>1, <3>2 DEF RawClaim
  <2>3. [x EXCEPT !.stale = FALSE, !.version = @ + 1, !.status = s] \in RawClaim
    <3>1. x.version + 1 \in Nat
      BY DEF RawClaim
    <3> QED
      BY <3>1, ChangedClaim
  <2>4. /\ FoundAgain(x).status = s /\ FoundAgain(x).active = v
        /\ FoundAgain(x).version = x.version + 1
    BY <1>2, <2>2 DEF RawClaim
  <2> QED
    BY <2>1, <2>2, <2>3, <2>4 DEF Decided
<1>3. CASE x.active = v /\ ~x.stale
  BY <1>3 DEF Upsert
<1> QED
  BY <1>1, <1>2, <1>3 DEF RawClaim

\* The active value of a claim has a revision, before the import or by it.
HasRevision(x, c, content) ==
  IF x.version = 0 THEN x.active = Absent
  ELSE x.active \in Value /\ (origin[c][x.active] # "none" \/ <<c, x.active>> \in Stated(content))

Grown(x, c) ==
  x.version >= claims[c].version /\ (x.version = claims[c].version => x = claims[c])

\* The places up to i that state the claim agree with it.
Agreeing(x, c, content, i) ==
  \A j \in 1 .. i : Places[j] = c /\ content[j] # Absent => content[j] = x.active /\ ~x.stale

Read(x, c, content, i) ==
  /\ x \in RawClaim /\ HasRevision(x, c, content) /\ Grown(x, c)
  /\ x.status \in Decided => x = claims[c] /\ Agreeing(x, c, content, i)

LEMMA ContentIsTyped ==
  ASSUME NEW content \in Content, NEW i \in 1 .. Len(Places)
  PROVE  /\ content[i] \in Value \cup {Absent}
         /\ content[i] # Absent => <<Places[i], content[i]>> \in Stated(content)
<1>1. DOMAIN Places = 1 .. Len(Places)
  BY FactAssumption
<1> QED
  BY <1>1, NumberOfPlaces DEF Content, Stated, Revision

LEMMA WhatIsRead ==
  ASSUME TypeOK, NEW content \in Content, NEW c \in Claim
  PROVE  Read(Reading(content, c)[Len(Places)], c, content, Len(Places))
<1> DEFINE S == [i \in 0 .. Len(Places) |-> {x \in RawClaim : Read(x, c, content, i)}]
<1>0. claims[c] \in RawClaim
  BY FactAssumption DEF TypeOK, ClaimRecord, RawClaim
<1>1. claims[c] \in S[0]
  <2>1. HasRevision(claims[c], c, content) /\ Grown(claims[c], c)
    BY <1>0 DEF TypeOK, HasRevision, Grown, RawClaim
  <2> QED
    BY <1>0, <2>1, NumberOfPlaces DEF Read, Agreeing
<1>2. ASSUME NEW i \in 1 .. Len(Places), NEW x \in S[i - 1]
      PROVE  ReadPlace(content, c, i, x) \in S[i]
  <2> DEFINE y == ReadPlace(content, c, i, x)
  <2>1. i \in 0 .. Len(Places) /\ i - 1 \in 0 .. Len(Places) /\ i \in Nat
    BY NumberOfPlaces
  <2>2. x \in RawClaim /\ Read(x, c, content, i - 1)
    BY <2>1
  <2> SUFFICES Read(y, c, content, i)
    BY <2>1 DEF Read
  <2> HIDE DEF S
  <2>3. ASSUME y = x, ~(Places[i] = c /\ content[i] # Absent) \/ (content[i] = x.active /\ ~x.stale)
        PROVE  Read(y, c, content, i)
    <3>1. Agreeing(x, c, content, i - 1) => Agreeing(x, c, content, i)
      <4> SUFFICES ASSUME Agreeing(x, c, content, i - 1), NEW j \in 1 .. i,
                          Places[j] = c, content[j] # Absent
                   PROVE  content[j] = x.active /\ ~x.stale
        BY DEF Agreeing
      <4>1. CASE j = i
        BY <4>1, <2>3
      <4>2. CASE j # i
        BY <4>2, <2>1 DEF Agreeing
      <4> QED
        BY <4>1, <4>2
    <3> QED
      BY <2>2, <2>3, <3>1 DEF Read
  <2>4. CASE ~(Places[i] = c /\ content[i] # Absent)
    BY <2>3, <2>4 DEF ReadPlace
  <2>5. CASE Places[i] = c /\ content[i] # Absent
    <3>1. content[i] \in Value /\ <<c, content[i]>> \in Stated(content)
      BY <2>5, ContentIsTyped
    <3>2. y = Upsert(x, content[i])
      BY <2>5 DEF ReadPlace
    <3> HIDE DEF y
    <3>3. CASE y = x /\ x.active = content[i] /\ ~x.stale
      BY <2>3, <3>3
    <3>4. CASE y.version = x.version + 1 /\ y.status \notin Decided
      <4>1. y \in RawClaim /\ y.active = content[i]
        BY <2>2, <3>1, <3>2, UpsertFacts
      <4>2. y.version # 0 /\ y.version > claims[c].version
        BY <1>0, <2>2, <3>4, <4>1 DEF Read, Grown, RawClaim
      <4>3. HasRevision(y, c, content)
        BY <3>1, <4>1, <4>2 DEF HasRevision
      <4>4. Grown(y, c)
        BY <1>0, <4>1, <4>2 DEF Grown, RawClaim
      <4> QED
        BY <3>4, <4>1, <4>3, <4>4 DEF Read
    <3> QED
      BY <2>2, <3>1, <3>2, <3>3, <3>4, UpsertFacts
  <2> QED
    BY <2>4, <2>5
<1> HIDE DEF S
<1>3. Reading(content, c)[Len(Places)] \in S[Len(Places)]
  BY <1>1, <1>2, ReadingInvariant
<1> QED
  BY <1>3, NumberOfPlaces DEF S

\* Lost claims included: what becomes of each claim of the vault.
LEMMA WhatIsImported ==
  ASSUME TypeOK, NEW content \in Content, NEW complete \in BOOLEAN, NEW c \in Claim, NEW y,
         y = Imported(content, complete, c)
  PROVE  /\ y \in RawClaim /\ HasRevision(y, c, content) /\ Grown(y, c)
         /\ y.status \in Decided /\ ~y.stale =>
              /\ y = claims[c] /\ ~Lost(content, complete, c)
              /\ Agreeing(y, c, content, Len(Places))
<1>1. CASE Lost(content, complete, c)
  <2>1. claims[c] \in RawClaim /\ claims[c].version + 1 \in Nat
    BY FactAssumption DEF TypeOK, ClaimRecord, RawClaim
  <2>2. y = [claims[c] EXCEPT !.stale = TRUE, !.version = claims[c].version + 1]
    BY <1>1 DEF Imported
  <2>3. y \in RawClaim /\ y.active = claims[c].active /\ y.stale
        /\ y.version = claims[c].version + 1
    BY <2>1, <2>2 DEF RawClaim
  <2>4. claims[c].active \in Value /\ origin[c][claims[c].active] # "none"
    BY <1>1 DEF Lost, TypeOK
  <2>5. HasRevision(y, c, content) /\ Grown(y, c)
    BY <2>1, <2>3, <2>4 DEF HasRevision, Grown, RawClaim
  <2> QED
    BY <2>3, <2>5
<1>2. CASE ~Lost(content, complete, c)
  <2>1. y = Reading(content, c)[Len(Places)]
    BY <1>2 DEF Imported
  <2> QED
    BY <1>2, <2>1, WhatIsRead DEF Read
<1> QED
  BY <1>1, <1>2

-----------------------------------------------------------------------------
(* The invariant of the claims *)

\* A claim that is approved or corrected, and not stale, has the value the owner
\* accepted.
DecisionInv ==
  \A c \in Claim : claims[c].status \in Decided /\ ~claims[c].stale => decided[c] = claims[c].active

PageInv ==
  /\ page.claim.version <= claims[page.id].version
  /\ page.claim.version = claims[page.id].version => page.claim = claims[page.id]

\* The same of the conflict, whose version starts with the group.
ConflictInv ==
  /\ group.status = "none" => group.version = 0
  /\ page.group.version <= group.version
  /\ page.group.version = group.version =>
       page.group.status = group.status /\ page.group.members \subseteq group.members

FactsInv == TypeOK /\ DecisionInv /\ PageInv /\ ConflictInv

\* A group has a new version, or the same status and no fewer members.
GroupMoves ==
  \/ group'.version > group.version /\ group'.status # "none"
  \/ /\ group'.version = group.version /\ group'.status = group.status
     /\ group.members \subseteq group'.members

LEMMA ConflictKept ==
  ASSUME FactsInv, group' \in GroupRecord, GroupMoves, page' = page
  PROVE  ConflictInv'
<1>1. /\ group.version \in Nat /\ group'.version \in Nat /\ page.group.version \in Nat
      /\ ConflictInv
  BY FactAssumption DEF FactsInv, TypeOK, Page, GroupRecord
<1>2. CASE group'.version > group.version /\ group'.status # "none"
  BY <1>1, <1>2 DEF ConflictInv
<1>3. CASE /\ group'.version = group.version /\ group'.status = group.status
           /\ group.members \subseteq group'.members
  BY <1>1, <1>3 DEF ConflictInv
<1> QED
  BY <1>2, <1>3 DEF GroupMoves

LEMMA RegroupMoves ==
  ASSUME FactsInv, NEW new, NEW complete \in BOOLEAN, group' = Regroup(new, complete)
  PROVE  GroupMoves
<1> DEFINE open(version) == [status |-> "open", version |-> version,
                             members |-> group.members \cup new]
<1>1. group.version \in Nat /\ (group.status = "none" => group.version = 0)
  BY FactAssumption DEF FactsInv, ConflictInv, TypeOK, GroupRecord
<1>2. \/ group.status = "none" /\ group' = open(1)
      \/ group.status = "open" /\ group' = open(group.version)
      \/ group' = open(group.version + 1)
      \/ group' = [group EXCEPT !.status = "resolved", !.version = @ + 1]
      \/ group' = group
  BY DEF Regroup
<1>3. CASE group' = [group EXCEPT !.status = "resolved", !.version = @ + 1]
  <2>1. group'.status = "resolved" /\ group'.version = group.version + 1
    BY <1>3 DEF FactsInv, TypeOK, GroupRecord
  <2> QED
    BY <1>1, <2>1 DEF GroupMoves
<1>4. CASE group' = group
  BY <1>4 DEF GroupMoves
<1>5. ASSUME NEW n \in Nat, group' = open(n), n > group.version
      PROVE  GroupMoves
  BY <1>5 DEF GroupMoves
<1>6. CASE group.status = "none" /\ group' = open(1)
  <2>1. 1 \in Nat /\ 1 > group.version
    BY <1>1, <1>6
  <2> HIDE DEF open
  <2> QED
    BY <1>5, <1>6, <2>1
<1>7. CASE group.status = "open" /\ group' = open(group.version)
  BY <1>7 DEF GroupMoves
<1>8. CASE group' = open(group.version + 1)
  <2>1. group.version + 1 \in Nat /\ group.version + 1 > group.version
    BY <1>1
  <2> HIDE DEF open
  <2> QED
    BY <1>5, <1>8, <2>1
<1> QED
  BY <1>2, <1>3, <1>4, <1>6, <1>7, <1>8

\* A group of revisions that exist is made of them and of what is stated.
LEMMA RegroupIsTyped ==
  ASSUME group \in GroupRecord, NEW new \in SUBSET Revision, NEW complete \in BOOLEAN,
         NEW g, g = Regroup(new, complete), g.version <= MaxVersion
  PROVE  g \in GroupRecord /\ g.members \subseteq group.members \cup new
<1> DEFINE open(version) == [status |-> "open", version |-> version,
                             members |-> group.members \cup new]
<1>1. group.version \in Nat /\ group.version + 1 \in Nat /\ 1 \in Nat /\ MaxVersion \in Nat
  BY FactAssumption DEF GroupRecord
<1>2. group.members \cup new \in SUBSET Revision
  BY DEF GroupRecord
<1>3. ASSUME NEW n \in Nat, g = open(n)
      PROVE  g \in GroupRecord /\ g.members \subseteq group.members \cup new
  <2>1. n \in 0 .. MaxVersion
    BY <1>1, <1>3
  <2> QED
    BY <1>2, <1>3, <2>1 DEF GroupRecord
<1>4. ASSUME g = [group EXCEPT !.status = "resolved", !.version = @ + 1]
      PROVE  g \in GroupRecord /\ g.members \subseteq group.members \cup new
  <2>1. g.version = group.version + 1 /\ g.members = group.members
    BY <1>4 DEF GroupRecord
  <2>2. group.version + 1 \in 0 .. MaxVersion
    BY <1>1, <2>1
  <2> QED
    BY <1>4, <2>1, <2>2 DEF GroupRecord
<1>5. \/ g = open(1) \/ g = open(group.version) \/ g = open(group.version + 1) \/ g = group
      \/ g = [group EXCEPT !.status = "resolved", !.version = @ + 1]
  BY DEF Regroup
<1> QED
  BY <1>1, <1>3, <1>4, <1>5

\* An import ...
LEMMA ImportKeepsFacts ==
  ASSUME FactsInv, NEW content \in Content, NEW complete \in BOOLEAN, Import(content, complete)
  PROVE  FactsInv'
<1> DEFINE new == Stated(content)
<1>1. \A c \in Claim : claims'[c] = Imported(content, complete, c)
  BY DEF Import
<1>2. ASSUME NEW c \in Claim
      PROVE  /\ claims'[c] \in RawClaim /\ HasRevision(claims'[c], c, content)
             /\ Grown(claims'[c], c)
             /\ claims'[c].status \in Decided /\ ~claims'[c].stale =>
                  /\ claims'[c] = claims[c] /\ ~Lost(content, complete, c)
                  /\ Agreeing(claims'[c], c, content, Len(Places))
  BY <1>1, WhatIsImported DEF FactsInv
<1>3. new \in SUBSET Revision /\ Linked(content) \in SUBSET new
  <2>1. new \in SUBSET Revision /\ Linked(content) \in SUBSET Revision
    BY DEF Stated, Linked
  <2>2. ASSUME NEW r \in Linked(content) PROVE r \in new
    <3>1. PICK i \in DOMAIN Places : r = <<Places[i], content[i]>>
      BY DEF Linked
    <3> QED
      BY <2>1, <3>1 DEF Stated
  <2> QED
    BY <2>1, <2>2
<1>4. \A c \in Claim, v \in Value :
        /\ origin'[c][v] \in {"none", "source", "user"}
        /\ origin[c][v] # "none" \/ <<c, v>> \in new => origin'[c][v] # "none"
  <2> HIDE DEF new
  <2> QED
    BY DEF Import, FactsInv, TypeOK, new
<1>5. TypeOK'
  <2>1. claims' \in [Claim -> ClaimRecord]
    <3>1. ASSUME NEW c \in Claim PROVE claims'[c] \in ClaimRecord
      <4>1. claims'[c] \in RawClaim /\ claims'[c].version \in 0 .. MaxVersion
        BY <1>2, FactAssumption DEF Import, RawClaim
      <4> QED
        BY <4>1 DEF RawClaim, ClaimRecord
    <3> QED
      BY <3>1 DEF Import
  <2>2. origin' \in [Claim -> [Value -> {"none", "source", "user"}]]
    BY DEF Import, FactsInv, TypeOK
  <2>3. support' \in [Claim -> [Value -> {"none", "supported", "unsupported"}]]
    BY DEF Import, FactsInv, TypeOK
  <2>4. group' \in GroupRecord /\ group'.members \subseteq group.members \cup new
    <3>1. /\ group' = Regroup(Linked(content), complete) /\ group'.version <= MaxVersion
          /\ group \in GroupRecord
      BY DEF Import, FactsInv, TypeOK
    <3>2. Linked(content) \in SUBSET Revision
      BY <1>3
    <3>3. group' \in GroupRecord /\ group'.members \subseteq group.members \cup Linked(content)
      BY <3>1, <3>2, RegroupIsTyped
    <3> QED
      BY <1>3, <3>3
  <2>5. /\ page' \in Page /\ stated' \subseteq Revision /\ linked' \subseteq stated'
        /\ ruled' \subseteq Revision
    BY <1>3 DEF Import, FactsInv, TypeOK
  <2>6. decided' \in [Claim -> Value \cup {Absent}]
    BY DEF Import, FactsInv, TypeOK
  <2>7. \A c \in Claim : IF claims'[c].version = 0 THEN claims'[c].active = Absent
                         ELSE claims'[c].active \in Value /\ origin'[c][claims'[c].active] # "none"
    BY <1>2, <1>4 DEF HasRevision
  <2>8. \A r \in group'.members : origin'[r[1]][r[2]] # "none"
    <3> SUFFICES ASSUME NEW r \in group'.members PROVE origin'[r[1]][r[2]] # "none"
      OBVIOUS
    <3>1. r \in Revision
      BY <2>4 DEF GroupRecord
    <3>2. PICK c \in Claim, v \in Value : r = <<c, v>>
      BY <3>1 DEF Revision
    <3>3. origin[c][v] # "none" \/ <<c, v>> \in new
      BY <2>4, <3>2 DEF FactsInv, TypeOK
    <3> QED
      BY <1>4, <3>2, <3>3
  <2> QED
    BY <2>1, <2>2, <2>3, <2>4, <2>5, <2>6, <2>7, <2>8 DEF TypeOK
<1>6. DecisionInv'
  <2> SUFFICES ASSUME NEW c \in Claim, claims'[c].status \in Decided, ~claims'[c].stale
               PROVE  decided'[c] = claims'[c].active
    BY DEF DecisionInv
  <2>1. /\ claims'[c] = claims[c] /\ ~Lost(content, complete, c)
        /\ Agreeing(claims[c], c, content, Len(Places))
    BY <1>2
  <2>2. decided[c] = claims[c].active
    BY <2>1 DEF FactsInv, DecisionInv
  <2>3. ASSUME NEW v \in Value, <<c, v>> \in new PROVE v = decided[c]
    <3>1. PICK i \in DOMAIN Places : c = Places[i] /\ v = content[i]
      BY <2>3 DEF Stated
    <3>2. i \in 1 .. Len(Places) /\ v # Absent
      BY FactAssumption
    <3> QED
      BY <2>1, <2>2, <3>1, <3>2 DEF Agreeing
  <2>4. decided'[c] = decided[c]
    BY <2>1, <2>3 DEF Import
  <2> QED
    BY <2>1, <2>2, <2>4
<1>7. PageInv'
  <2>1. page' = page /\ page.id \in Claim /\ page.claim.version \in Nat
    BY FactAssumption DEF Import, FactsInv, TypeOK, Page, ClaimRecord
  <2>2. claims[page.id].version \in Nat /\ claims'[page.id].version \in Nat
        /\ Grown(claims'[page.id], page.id)
    BY <1>2, <2>1, FactAssumption DEF FactsInv, TypeOK, ClaimRecord, RawClaim
  <2> QED
    BY <2>1, <2>2 DEF FactsInv, PageInv, Grown
<1>8. ConflictInv'
  <2>1. group' = Regroup(Linked(content), complete) /\ page' = page
    BY DEF Import
  <2>2. group' \in GroupRecord
    BY <1>5 DEF TypeOK
  <2> QED
    BY <2>1, <2>2, RegroupMoves, ConflictKept
<1> QED
  BY <1>5, <1>6, <1>7, <1>8 DEF FactsInv

\* ... and whatever makes a later version y of one claim: a value that has a
\* revision by then, and that the owner accepted if it counts as accepted.
Revises(c, y) ==
  /\ claims' = [claims EXCEPT ![c] = y] /\ y.version > claims[c].version
  /\ y.active \in Value /\ origin'[c][y.active] # "none"
  /\ origin' \in [Claim -> [Value -> {"none", "source", "user"}]]
  /\ \A d \in Claim, v \in Value : origin[d][v] # "none" => origin'[d][v] # "none"
  /\ support' \in [Claim -> [Value -> {"none", "supported", "unsupported"}]]
  /\ decided' \in [Claim -> Value \cup {Absent}]
  /\ \A d \in Claim : d # c => decided'[d] = decided[d]
  /\ y.status \in Decided /\ ~y.stale => decided'[c] = y.active
  /\ group' \in GroupRecord /\ group'.members = group.members /\ GroupMoves
  /\ ruled' \subseteq Revision /\ UNCHANGED <<page, latest>>

LEMMA RevisionKeepsFacts ==
  ASSUME FactsInv, NEW c \in Claim, NEW y \in ClaimRecord, Revises(c, y)
  PROVE  FactsInv'
<1> USE DEF Revises
<1>1. /\ claims' \in [Claim -> ClaimRecord] /\ claims'[c] = y
      /\ \A d \in Claim : d # c => claims'[d] = claims[d]
  BY DEF FactsInv, TypeOK
<1>2. \A d \in Claim : claims[d].version \in Nat /\ claims'[d].version \in Nat
  BY <1>1, FactAssumption DEF FactsInv, TypeOK, ClaimRecord
<1>3. TypeOK'
  <2>1. \A d \in Claim : IF claims'[d].version = 0 THEN claims'[d].active = Absent
                         ELSE claims'[d].active \in Value /\ origin'[d][claims'[d].active] # "none"
    BY <1>1, <1>2 DEF FactsInv, TypeOK
  <2>2. \A r \in group'.members : origin'[r[1]][r[2]] # "none"
    <3> SUFFICES ASSUME NEW r \in group.members PROVE origin'[r[1]][r[2]] # "none"
      OBVIOUS
    <3>1. r \in Revision
      BY DEF FactsInv, TypeOK, GroupRecord
    <3>2. PICK d \in Claim, v \in Value : r = <<d, v>>
      BY <3>1 DEF Revision
    <3> QED
      BY <3>2 DEF FactsInv, TypeOK
  <2> QED
    BY <1>1, <2>1, <2>2 DEF FactsInv, TypeOK
<1>4. DecisionInv'
  BY <1>1 DEF FactsInv, DecisionInv
<1>5. PageInv'
  <2>1. page' = page /\ page.id \in Claim /\ page.claim.version \in Nat
    BY FactAssumption DEF FactsInv, TypeOK, Page, ClaimRecord
  <2> QED
    BY <1>1, <1>2, <2>1 DEF FactsInv, PageInv
<1>6. ConflictInv'
  BY ConflictKept
<1> QED
  BY <1>3, <1>4, <1>5, <1>6 DEF FactsInv

\* What a decision chooses, in the version it makes.
Chosen(c, y, chosen) ==
  /\ claims' = [claims EXCEPT ![c] = y] /\ y.version > claims[c].version
  /\ y.active = chosen.active /\ y.status = chosen.status /\ y.stale = chosen.stale

LEMMA DecideMakesChosen ==
  ASSUME TypeOK, NEW c \in Claim, NEW chosen \in ClaimRecord, Decide(c, chosen)
  PROVE  \E y \in ClaimRecord : Chosen(c, y, chosen)
<1> DEFINE y == [chosen EXCEPT !.version = claims[c].version + 1]
<1>1. claims[c].version \in Nat /\ claims[c].version + 1 \in 0 .. MaxVersion
  BY FactAssumption DEF Decide, TypeOK, ClaimRecord
<1>2. /\ y \in ClaimRecord /\ y.version = claims[c].version + 1
      /\ y.active = chosen.active /\ y.status = chosen.status /\ y.stale = chosen.stale
  BY <1>1 DEF ClaimRecord
<1>3. claims' = [claims EXCEPT ![c] = y]
  BY DEF Decide
<1> HIDE DEF y
<1>4. Chosen(c, y, chosen)
  BY <1>1, <1>2, <1>3 DEF Chosen
<1> QED
  BY <1>2, <1>4

\* A decision for a value.
LEMMA DecideOnValue ==
  ASSUME TypeOK, NEW c \in Claim, NEW v \in Value, NEW s \in Decided,
         Decide(c, [claims[c] EXCEPT !.active = v, !.status = s])
  PROVE  \E y \in ClaimRecord :
           claims' = [claims EXCEPT ![c] = y] /\ y.version > claims[c].version /\ y.active = v
<1> DEFINE chosen == [claims[c] EXCEPT !.active = v, !.status = s]
<1>1. chosen \in ClaimRecord /\ chosen.active = v
  <2>1. claims[c] \in ClaimRecord
    BY DEF TypeOK
  <2> QED
    BY <2>1 DEF ClaimRecord
<1> HIDE DEF chosen
<1>2. PICK y \in ClaimRecord : Chosen(c, y, chosen)
  <2>1. Decide(c, chosen)
    BY DEF chosen
  <2> QED
    BY <1>1, <2>1, DecideMakesChosen
<1> QED
  BY <1>1, <1>2 DEF Chosen

\* A claim of the vault has an active value, with a revision.
LEMMA KnownHasRevision ==
  ASSUME TypeOK, NEW c \in Claim, Known(c)
  PROVE  claims[c].active \in Value /\ origin[c][claims[c].active] # "none"
BY DEF TypeOK, Known

\* Storing a revision of the owner's.
LEMMA StoreRevision ==
  ASSUME TypeOK, NEW c \in Claim, NEW v \in Value, NEW o \in {"source", "user"},
         origin' = [origin EXCEPT ![c][v] = o]
  PROVE  /\ origin' \in [Claim -> [Value -> {"none", "source", "user"}]]
         /\ origin'[c][v] # "none"
         /\ \A d \in Claim, w \in Value : origin[d][w] # "none" => origin'[d][w] # "none"
BY DEF TypeOK

LEMMA AcceptValue ==
  ASSUME TypeOK, NEW c \in Claim, NEW v \in Value \cup {Absent},
         decided' = [decided EXCEPT ![c] = v]
  PROVE  /\ decided' \in [Claim -> Value \cup {Absent}] /\ decided'[c] = v
         /\ \A d \in Claim : d # c => decided'[d] = decided[d]
BY DEF TypeOK

LEMMA SettleIsTyped ==
  ASSUME TypeOK, Settle
  PROVE  /\ group' \in GroupRecord /\ group'.members = group.members /\ GroupMoves
         /\ group.members \subseteq Revision
<1>1. group.version \in Nat /\ group.version + 1 \in 0 .. MaxVersion
  BY FactAssumption DEF Settle, TypeOK, GroupRecord
<1>2. group' = [group EXCEPT !.status = "resolved", !.version = group.version + 1]
  BY DEF Settle
<1>3. GroupMoves
  BY <1>1, <1>2 DEF TypeOK, GroupRecord, GroupMoves
<1> QED
  BY <1>1, <1>2, <1>3 DEF TypeOK, GroupRecord

\* What the evidence keeps when nothing is stored, and when no conflict is settled.
LEMMA EvidenceIsTyped ==
  ASSUME TypeOK
  PROVE  /\ origin \in [Claim -> [Value -> {"none", "source", "user"}]]
         /\ support \in [Claim -> [Value -> {"none", "supported", "unsupported"}]]
         /\ group \in GroupRecord /\ ruled \subseteq Revision
         /\ decided \in [Claim -> Value \cup {Absent}]
BY DEF TypeOK

LEMMA ApproveKeepsFacts ==
  ASSUME FactsInv, NEW c \in Claim, NEW v \in Value, Approve(c, v)
  PROVE  FactsInv'
<1>1. TypeOK /\ origin[c][v] # "none"
      /\ Decide(c, [claims[c] EXCEPT !.active = v, !.status = "approved"])
  BY DEF FactsInv, Approve
<1>2. PICK y \in ClaimRecord :
        claims' = [claims EXCEPT ![c] = y] /\ y.version > claims[c].version /\ y.active = v
  BY <1>1, DecideOnValue DEF Decided
<1>3. /\ decided' \in [Claim -> Value \cup {Absent}] /\ decided'[c] = v
      /\ \A d \in Claim : d # c => decided'[d] = decided[d]
  BY <1>1, AcceptValue DEF Approve
<1>4. UNCHANGED <<origin, support, group, page, latest, ruled>>
  BY DEF Approve
<1>5. Revises(c, y)
  BY <1>1, <1>2, <1>3, <1>4, EvidenceIsTyped DEF Revises, GroupMoves
<1> QED
  BY <1>5, RevisionKeepsFacts

LEMMA CorrectKeepsFacts ==
  ASSUME FactsInv, NEW c \in Claim, NEW v \in Value, Correct(c, v)
  PROVE  FactsInv'
<1>1. TypeOK /\ Decide(c, [claims[c] EXCEPT !.active = v, !.status = "corrected"])
  BY DEF FactsInv, Correct
<1>2. PICK y \in ClaimRecord :
        claims' = [claims EXCEPT ![c] = y] /\ y.version > claims[c].version /\ y.active = v
  BY <1>1, DecideOnValue DEF Decided
<1>3. /\ decided' \in [Claim -> Value \cup {Absent}] /\ decided'[c] = v
      /\ \A d \in Claim : d # c => decided'[d] = decided[d]
  BY <1>1, AcceptValue DEF Correct
<1>4. /\ origin' \in [Claim -> [Value -> {"none", "source", "user"}]]
      /\ origin'[c][v] # "none"
      /\ \A d \in Claim, w \in Value : origin[d][w] # "none" => origin'[d][w] # "none"
  BY <1>1, StoreRevision DEF Correct
<1>5. UNCHANGED <<support, group, page, latest, ruled>>
  BY DEF Correct
<1>6. Revises(c, y)
  BY <1>1, <1>2, <1>3, <1>4, <1>5, EvidenceIsTyped DEF Revises, GroupMoves
<1> QED
  BY <1>6, RevisionKeepsFacts

LEMMA SelectionKeepsFacts ==
  ASSUME FactsInv, NEW c \in Claim, NEW v \in Value, ResolveBySelection(c, v)
  PROVE  FactsInv'
<1>1. TypeOK /\ Settle /\ <<c, v>> \in group.members
      /\ Decide(c, [claims[c] EXCEPT !.active = v, !.status = "approved"])
  BY DEF FactsInv, ResolveBySelection
<1>2. PICK y \in ClaimRecord :
        claims' = [claims EXCEPT ![c] = y] /\ y.version > claims[c].version /\ y.active = v
  BY <1>1, DecideOnValue DEF Decided
<1>3. /\ decided' \in [Claim -> Value \cup {Absent}] /\ decided'[c] = v
      /\ \A d \in Claim : d # c => decided'[d] = decided[d]
  BY <1>1, AcceptValue DEF ResolveBySelection
<1>4. origin[c][v] # "none"
  BY <1>1 DEF TypeOK
<1>5. ruled' = group.members /\ UNCHANGED <<origin, support, page, latest>>
  BY DEF ResolveBySelection
<1>6. /\ group' \in GroupRecord /\ group'.members = group.members /\ GroupMoves
      /\ ruled' \subseteq Revision
  BY <1>1, <1>5, SettleIsTyped
<1>7. Revises(c, y)
  BY <1>1, <1>2, <1>3, <1>4, <1>5, <1>6, EvidenceIsTyped DEF Revises
<1> QED
  BY <1>7, RevisionKeepsFacts

LEMMA CorrectionKeepsFacts ==
  ASSUME FactsInv, NEW c \in Claim, NEW v \in Value, ResolveByCorrection(c, v)
  PROVE  FactsInv'
<1>1. TypeOK /\ Settle /\ Decide(c, [claims[c] EXCEPT !.active = v, !.status = "corrected"])
  BY DEF FactsInv, ResolveByCorrection
<1>2. PICK y \in ClaimRecord :
        claims' = [claims EXCEPT ![c] = y] /\ y.version > claims[c].version /\ y.active = v
  BY <1>1, DecideOnValue DEF Decided
<1>3. /\ decided' \in [Claim -> Value \cup {Absent}] /\ decided'[c] = v
      /\ \A d \in Claim : d # c => decided'[d] = decided[d]
  BY <1>1, AcceptValue DEF ResolveByCorrection
<1>4. /\ origin' \in [Claim -> [Value -> {"none", "source", "user"}]]
      /\ origin'[c][v] # "none"
      /\ \A d \in Claim, w \in Value : origin[d][w] # "none" => origin'[d][w] # "none"
  BY <1>1, StoreRevision DEF ResolveByCorrection
<1>5. ruled' = group.members /\ UNCHANGED <<support, page, latest>>
  BY DEF ResolveByCorrection
<1>6. /\ group' \in GroupRecord /\ group'.members = group.members /\ GroupMoves
      /\ ruled' \subseteq Revision
  BY <1>1, <1>5, SettleIsTyped
<1>7. Revises(c, y)
  BY <1>1, <1>2, <1>3, <1>4, <1>5, <1>6, EvidenceIsTyped DEF Revises
<1> QED
  BY <1>7, RevisionKeepsFacts

\* A decision that keeps the value: it keeps the status too, or takes it back.
LEMMA SameValueKeepsFacts ==
  ASSUME FactsInv, NEW c \in Claim, NEW chosen \in ClaimRecord, Decide(c, chosen),
         chosen.active = claims[c].active, chosen.stale = claims[c].stale,
         \/ chosen.status = claims[c].status /\ UNCHANGED decided
         \/ chosen.status \notin Decided /\ decided' = [decided EXCEPT ![c] = Absent],
         support' \in [Claim -> [Value -> {"none", "supported", "unsupported"}]],
         UNCHANGED <<origin, group, page, latest, ruled>>
  PROVE  FactsInv'
<1>1. TypeOK /\ Known(c)
  BY DEF FactsInv, Decide
<1>2. PICK y \in ClaimRecord : Chosen(c, y, chosen)
  BY <1>1, DecideMakesChosen
<1>3. y.active \in Value /\ origin[c][y.active] # "none"
  BY <1>1, <1>2, KnownHasRevision DEF Chosen
<1>4. /\ decided' \in [Claim -> Value \cup {Absent}]
      /\ \A d \in Claim : d # c => decided'[d] = decided[d]
  BY <1>1 DEF TypeOK
<1>5. y.status \in Decided /\ ~y.stale => decided'[c] = y.active
  BY <1>2 DEF FactsInv, DecisionInv, Chosen
<1>6. Revises(c, y)
  BY <1>1, <1>2, <1>3, <1>4, <1>5, EvidenceIsTyped DEF Revises, Chosen,
     GroupMoves
<1> QED
  BY <1>6, RevisionKeepsFacts

LEMMA ConfirmKeepsFacts ==
  ASSUME FactsInv, NEW c \in Claim, ConfirmSupport(c)
  PROVE  FactsInv'
<1>1. claims[c] \in ClaimRecord /\ Decide(c, claims[c])
  BY DEF FactsInv, TypeOK, ConfirmSupport
<1>2. support' \in [Claim -> [Value -> {"none", "supported", "unsupported"}]]
  BY DEF FactsInv, TypeOK, ConfirmSupport
<1>3. UNCHANGED <<origin, group, page, latest, decided, ruled>>
  BY DEF ConfirmSupport
<1> QED
  BY <1>1, <1>2, <1>3, SameValueKeepsFacts

LEMMA RejectKeepsFacts ==
  ASSUME FactsInv, NEW c \in Claim, Reject(c) \/ Revert(c)
  PROVE  FactsInv'
<1>1. PICK s \in {"rejected", "unresolved"} : Decide(c, [claims[c] EXCEPT !.status = s])
  BY DEF Reject, Revert
<1> DEFINE chosen == [claims[c] EXCEPT !.status = s]
<1>2. /\ chosen \in ClaimRecord /\ chosen.active = claims[c].active
      /\ chosen.stale = claims[c].stale /\ chosen.status \notin Decided
  <2>1. claims[c] \in ClaimRecord /\ s \notin Decided
    BY DEF FactsInv, TypeOK, Decided
  <2> QED
    BY <2>1 DEF ClaimRecord
<1>3. Decide(c, chosen)
  BY <1>1
<1> HIDE DEF chosen
<1>4. /\ decided' = [decided EXCEPT ![c] = Absent]
      /\ UNCHANGED <<origin, support, group, page, latest, ruled>>
  BY DEF Reject, Revert
<1> QED
  BY <1>2, <1>3, <1>4, EvidenceIsTyped, SameValueKeepsFacts DEF FactsInv

LEMMA SensitivityKeepsFacts ==
  ASSUME FactsInv, NEW c \in Claim, NEW s \in {"normal", "confidential"}, SetSensitivity(c, s)
  PROVE  FactsInv'
<1> DEFINE chosen == [claims[c] EXCEPT !.sensitivity = s]
<1>1. /\ chosen \in ClaimRecord /\ chosen.active = claims[c].active
      /\ chosen.stale = claims[c].stale /\ chosen.status = claims[c].status
  <2>1. claims[c] \in ClaimRecord
    BY DEF FactsInv, TypeOK
  <2> QED
    BY <2>1 DEF ClaimRecord
<1>2. Decide(c, chosen)
  BY DEF SetSensitivity
<1> HIDE DEF chosen
<1>3. UNCHANGED <<origin, support, group, page, latest, decided, ruled>>
  BY DEF SetSensitivity
<1> QED
  BY <1>1, <1>2, <1>3, EvidenceIsTyped, SameValueKeepsFacts DEF FactsInv

LEMMA ManualReviewKeepsFacts ==
  ASSUME FactsInv, NEW c \in Claim, NEW v \in Value, RequestManualReview(c, v)
  PROVE  FactsInv'
<1> DEFINE n == IF claims[c].version = 0 THEN 2 ELSE claims[c].version + 1
           y == [claims[c] EXCEPT !.active = v, !.status = "unresolved",
                                  !.sensitivity = "unreviewed", !.version = n]
<1>1. TypeOK /\ claims[c] \in ClaimRecord
  BY DEF FactsInv, TypeOK
<1>2. claims' = [claims EXCEPT ![c] = y] /\ claims'[c].version <= MaxVersion
  BY DEF RequestManualReview
<1>3. n \in Nat /\ n > claims[c].version
  BY <1>1, FactAssumption DEF ClaimRecord
<1> HIDE DEF n
<1>4. n \in 0 .. MaxVersion
  <2>1. y.version = n
    BY <1>1 DEF ClaimRecord
  <2> HIDE DEF y
  <2>2. claims'[c].version = n
    BY <1>1, <1>2, <2>1 DEF TypeOK
  <2> QED
    BY <1>2, <1>3, <2>2, FactAssumption
<1>5. y \in ClaimRecord /\ y.active = v /\ y.status = "unresolved" /\ y.version = n
  BY <1>1, <1>4 DEF ClaimRecord
<1> HIDE DEF y
<1>6. PICK o \in {"source", "user"} : origin' = [origin EXCEPT ![c][v] = o]
  BY DEF RequestManualReview, FactsInv, TypeOK
<1>7. /\ origin' \in [Claim -> [Value -> {"none", "source", "user"}]]
      /\ origin'[c][v] # "none"
      /\ \A d \in Claim, w \in Value : origin[d][w] # "none" => origin'[d][w] # "none"
  BY <1>1, <1>6, StoreRevision
<1>8. /\ decided' \in [Claim -> Value \cup {Absent}]
      /\ \A d \in Claim : d # c => decided'[d] = decided[d]
  BY <1>1, AcceptValue DEF RequestManualReview
<1>9. UNCHANGED <<support, group, page, latest, ruled>>
  BY DEF RequestManualReview
<1>10. Revises(c, y)
  BY <1>1, <1>2, <1>3, <1>5, <1>7, <1>8, <1>9, EvidenceIsTyped DEF Revises, Decided,
     GroupMoves
<1> QED
  BY <1>5, <1>10, RevisionKeepsFacts

LEMMA BulkKeepsFacts ==
  ASSUME FactsInv, NEW s \in SUBSET Claim, NEW choice \in [s -> Value], BulkApprove(choice)
  PROVE  FactsInv'
<1>1. DOMAIN choice = s
  OBVIOUS
<1>2. /\ UNCHANGED <<origin, support, group, page, latest, ruled>>
      /\ \A c \in Claim : c \notin s => claims'[c] = claims[c] /\ decided'[c] = decided[c]
  BY <1>1 DEF BulkApprove
<1>3. ASSUME NEW c \in s
      PROVE  /\ claims'[c] \in ClaimRecord /\ claims'[c].version > claims[c].version
             /\ claims'[c].active \in Value /\ origin[c][claims'[c].active] # "none"
             /\ decided'[c] = claims'[c].active
  <2>1. /\ claims[c] \in ClaimRecord /\ choice[c] \in Value /\ c \in Claim
        /\ claims[c].version < MaxVersion /\ origin[c][choice[c]] # "none"
    BY <1>1 DEF FactsInv, TypeOK, BulkApprove
  <2>2. claims[c].version \in Nat /\ claims[c].version + 1 \in 0 .. MaxVersion
    BY <2>1, FactAssumption DEF ClaimRecord
  <2>3. claims'[c] = [claims[c] EXCEPT !.active = choice[c], !.status = "approved",
                                       !.version = claims[c].version + 1]
    BY <1>1, <2>1 DEF BulkApprove
  <2>4. claims'[c] \in ClaimRecord /\ claims'[c].active = choice[c]
        /\ claims'[c].version = claims[c].version + 1
    BY <2>1, <2>2, <2>3 DEF ClaimRecord, Decided
  <2>5. decided'[c] = choice[c]
    BY <1>1, <2>1 DEF BulkApprove
  <2> QED
    BY <2>1, <2>2, <2>4, <2>5
<1>4. \A c \in Claim : claims[c] \in ClaimRecord /\ claims[c].version \in Nat
  BY FactAssumption DEF FactsInv, TypeOK, ClaimRecord
<1>5. TypeOK'
  <2>1. claims' \in [Claim -> ClaimRecord]
    <3>1. \A c \in Claim : claims'[c] \in ClaimRecord
      BY <1>2, <1>3, <1>4
    <3> QED
      BY <3>1 DEF BulkApprove
  <2>2. decided' \in [Claim -> Value \cup {Absent}]
    <3>1. \A c \in Claim : decided'[c] \in Value \cup {Absent}
      BY <1>2, <1>3 DEF FactsInv, TypeOK
    <3> QED
      BY <3>1 DEF BulkApprove
  <2>3. \A c \in Claim : IF claims'[c].version = 0 THEN claims'[c].active = Absent
                         ELSE claims'[c].active \in Value /\ origin'[c][claims'[c].active] # "none"
    <3> SUFFICES ASSUME NEW c \in Claim
                 PROVE  IF claims'[c].version = 0 THEN claims'[c].active = Absent
                        ELSE claims'[c].active \in Value /\ origin'[c][claims'[c].active] # "none"
      OBVIOUS
    <3>1. CASE c \in s
      BY <1>2, <1>3, <1>4, <3>1
    <3>2. CASE c \notin s
      BY <1>2, <3>2 DEF FactsInv, TypeOK
    <3> QED
      BY <3>1, <3>2
  <2> QED
    BY <1>2, <2>1, <2>2, <2>3 DEF FactsInv, TypeOK
<1>6. DecisionInv'
  BY <1>2, <1>3 DEF FactsInv, DecisionInv
<1>7. PageInv'
  <2>1. page' = page /\ page.id \in Claim /\ page.claim.version \in Nat
    BY <1>2, FactAssumption DEF FactsInv, TypeOK, Page, ClaimRecord
  <2>2. /\ claims[page.id].version \in Nat /\ claims'[page.id].version \in Nat
        /\ claims'[page.id] = claims[page.id] \/ claims'[page.id].version > claims[page.id].version
    <3>1. CASE page.id \in s
      BY <1>3, <1>4, <2>1, <3>1, FactAssumption DEF ClaimRecord
    <3>2. CASE page.id \notin s
      BY <1>2, <1>4, <2>1, <3>2
    <3> QED
      BY <3>1, <3>2
  <2> QED
    BY <2>1, <2>2 DEF FactsInv, PageInv
<1>8. ConflictInv'
  <2>1. group' = group /\ page' = page
    BY <1>2
  <2>2. ConflictInv
    BY DEF FactsInv
  <2> QED
    BY <2>1, <2>2 DEF ConflictInv
<1> QED
  BY <1>5, <1>6, <1>7, <1>8 DEF FactsInv

LEMMA OpenPageKeepsFacts ==
  ASSUME FactsInv, NEW c \in Claim, OpenPage(c)
  PROVE  FactsInv'
<1>1. UNCHANGED <<claims, origin, support, group, latest, decided, ruled>>
  BY DEF OpenPage
<1>2. page' = [id |-> c, claim |-> claims[c], group |-> group] /\ page' \in Page
  BY DEF OpenPage, PageOf, FactsInv, TypeOK, Page
<1>3. claims[c].version \in Nat
  BY FactAssumption DEF FactsInv, TypeOK, ClaimRecord
<1>4. TypeOK' /\ DecisionInv'
  BY <1>1, <1>2 DEF FactsInv, TypeOK, DecisionInv
<1>5. PageInv'
  BY <1>1, <1>2, <1>3 DEF PageInv
<1>6. ConflictInv'
  <2>1. group.version \in Nat /\ page'.group = group /\ group' = group
    BY <1>1, <1>2, FactAssumption DEF FactsInv, TypeOK, GroupRecord
  <2> QED
    BY <2>1 DEF FactsInv, ConflictInv
<1> QED
  BY <1>4, <1>5, <1>6 DEF FactsInv

LEMMA FactsStep ==
  ASSUME FactsInv, [Next]_vars
  PROVE  FactsInv'
<1>1. ASSUME NEW content \in Content, NEW complete \in BOOLEAN, Import(content, complete)
      PROVE  FactsInv'
  BY <1>1, ImportKeepsFacts
<1>2. ASSUME NEW s \in SUBSET Claim, NEW choice \in [s -> Value], BulkApprove(choice)
      PROVE  FactsInv'
  BY <1>2, BulkKeepsFacts
<1>3. ASSUME NEW c \in Claim, NEW v \in Value,
             \/ Approve(c, v) \/ Correct(c, v) \/ RequestManualReview(c, v)
             \/ ResolveBySelection(c, v) \/ ResolveByCorrection(c, v)
      PROVE  FactsInv'
  BY <1>3, ApproveKeepsFacts, CorrectKeepsFacts, ManualReviewKeepsFacts, SelectionKeepsFacts,
     CorrectionKeepsFacts
<1>4. ASSUME NEW c \in Claim, ConfirmSupport(c) \/ Reject(c) \/ Revert(c) \/ OpenPage(c)
      PROVE  FactsInv'
  BY <1>4, ConfirmKeepsFacts, RejectKeepsFacts, OpenPageKeepsFacts
<1>5. ASSUME NEW c \in Claim, NEW s \in {"normal", "confidential"}, SetSensitivity(c, s)
      PROVE  FactsInv'
  BY <1>5, SensitivityKeepsFacts
<1>6. ASSUME UNCHANGED vars PROVE FactsInv'
  BY <1>6 DEF vars, FactsInv, TypeOK, DecisionInv, PageInv, ConflictInv
<1> QED
  BY <1>1, <1>2, <1>3, <1>4, <1>5, <1>6 DEF Next

LEMMA FactsStart == Init => FactsInv
<1> SUFFICES ASSUME Init PROVE FactsInv
  OBVIOUS
<1>1. 0 \in 0 .. MaxVersion
  BY FactAssumption
<1>2. Unknown \in ClaimRecord /\ NoGroup \in GroupRecord
  BY <1>1 DEF Unknown, NoGroup, ClaimRecord, GroupRecord
<1>3. TypeOK
  <2>1. page \in Page
    BY <1>2 DEF Init, Page
  <2>2. \A c \in Claim : claims[c].version = 0 /\ claims[c].active = Absent
    BY DEF Init, Unknown
  <2>3. group.members = {}
    BY DEF Init, NoGroup
  <2> QED
    BY <1>2, <2>1, <2>2, <2>3 DEF Init, TypeOK
<1>4. DecisionInv
  BY DEF Init, Unknown, DecisionInv, Decided
<1>5. PageInv
  <2>1. page.id \in Claim /\ page.claim = Unknown /\ claims[page.id] = Unknown
    BY DEF Init
  <2> QED
    BY <2>1 DEF Unknown, PageInv
<1>6. ConflictInv
  <2>1. page.group = NoGroup /\ group = NoGroup
    BY DEF Init
  <2> QED
    BY <2>1 DEF NoGroup, ConflictInv
<1> QED
  BY <1>3, <1>4, <1>5, <1>6 DEF FactsInv

LEMMA FactsInvariant == Spec => []FactsInv
BY FactsStart, FactsStep, PTL DEF Spec

\* Every revision a claim shows, and every member of a conflict group, is stored,
\* and the versions of claims and groups stay within their bound, whatever the
\* imports and decisions (imports/service.py, apply; facts/service.py).
THEOREM FactsTypeCorrect == Spec => []TypeOK
<1>1. FactsInv => TypeOK
  BY DEF FactsInv
<1> QED
  BY <1>1, FactsInvariant, PTL

\* What a resume uses is the value the owner accepted, and since then no import
\* stated another one or failed to find it: for any sequence of imports, however
\* often the sources state a claim in them, and of decisions between them
\* (imports/service.py, _upsert_candidate and apply; facts/eligibility.py).
THEOREM EligibleWasDecided == Spec => []EligibleIsDecided
<1>1. FactsInv => EligibleIsDecided
  BY DEF FactsInv, DecisionInv, EligibleIsDecided, Eligible
<1> QED
  BY <1>1, FactsInvariant, PTL

\* A page whose claim version the compare-and-set of a decision on the claim still
\* accepts shows the claim as it is.  A page whose conflict version the resolution
\* still accepts shows the conflict's status and only members it has; of the claim
\* it may show an older version (facts/service.py, the expected version of every
\* decision; facts/conflicts.py, resolve_conflict).
THEOREM AcceptedPagesAreCurrent == Spec => []AcceptedPageIsCurrent
<1>1. FactsInv => AcceptedPageIsCurrent
  BY DEF FactsInv, PageInv, ConflictInv, AcceptedPageIsCurrent
<1> QED
  BY <1>1, FactsInvariant, PTL

-----------------------------------------------------------------------------
(* The evidence of a conflict *)

Disagree(revisions) == Cardinality({r[2] : r \in revisions}) > 1

EvidenceInv ==
  /\ group.status \in {"none", "open", "resolved"}
  /\ group = [status |-> group.status, version |-> group.version, members |-> group.members]
  /\ Disagree(linked) => group.status # "none" /\ linked \subseteq group.members

\* No claim disagrees with nothing.
LEMMA NothingAgrees == ~Disagree({})
<1>1. {r[2] : r \in {}} = {}
  OBVIOUS
<1>2. Cardinality({r[2] : r \in {}}) = 0
  BY <1>1, FS_EmptySet
<1> QED
  BY <1>2 DEF Disagree

\* What rebuild_conflicts does of a group that may be out of date with what was
\* linked before, but is a group.
LEMMA RegroupKnows ==
  ASSUME EvidenceInv, NEW new, NEW complete \in BOOLEAN, group' = Regroup(new, complete),
         linked' = new
  PROVE  EvidenceInv'
<1>1. CASE Disagree(new) /\ group.status = "none"
  BY <1>1 DEF EvidenceInv, Regroup, Disagree
<1>2. CASE Disagree(new) /\ group.status = "open"
  BY <1>2 DEF EvidenceInv, Regroup, Disagree
<1>3. CASE Disagree(new) /\ group.status = "resolved" /\ new # group.members
  BY <1>3 DEF EvidenceInv, Regroup, Disagree
<1>4. CASE Disagree(new) /\ group.status = "resolved" /\ new = group.members
  <2>1. group' = group
    BY <1>4 DEF Regroup, Disagree
  <2> QED
    BY <2>1, <1>4 DEF EvidenceInv
<1>5. CASE ~Disagree(new)
  <2>1. group' \in {group, [group EXCEPT !.status = "resolved", !.version = @ + 1]}
    BY <1>5 DEF Regroup, Disagree
  <2>2. ~Disagree(new)
    BY <1>5
  <2> QED
    BY <2>1, <2>2 DEF EvidenceInv, Disagree
<1> QED
  BY <1>1, <1>2, <1>3, <1>4, <1>5 DEF EvidenceInv

\* A decision on the conflict keeps its members.
LEMMA SettleKeepsMembers ==
  ASSUME EvidenceInv, Settle, UNCHANGED linked
  PROVE  EvidenceInv'
BY DEF EvidenceInv, Settle, Disagree

\* A decision on a claim touches neither.
LEMMA EvidenceKept ==
  ASSUME EvidenceInv, UNCHANGED <<group, linked>>
  PROVE  EvidenceInv'
BY DEF EvidenceInv, Disagree

LEMMA EvidenceStep ==
  ASSUME EvidenceInv, [Next]_vars
  PROVE  EvidenceInv'
<1>1. ASSUME NEW content \in Content, NEW complete \in BOOLEAN, Import(content, complete)
      PROVE  EvidenceInv'
  BY <1>1, RegroupKnows DEF Import
<1>2. ASSUME NEW s \in SUBSET Claim, NEW choice \in [s -> Value], BulkApprove(choice)
      PROVE  EvidenceInv'
  BY <1>2, EvidenceKept DEF BulkApprove
<1>3. ASSUME NEW c \in Claim, NEW v \in Value,
             Approve(c, v) \/ Correct(c, v) \/ RequestManualReview(c, v)
      PROVE  EvidenceInv'
  BY <1>3, EvidenceKept DEF Approve, Correct, RequestManualReview
<1>4. ASSUME NEW c \in Claim, NEW v \in Value,
             ResolveBySelection(c, v) \/ ResolveByCorrection(c, v)
      PROVE  EvidenceInv'
  BY <1>4, SettleKeepsMembers DEF ResolveBySelection, ResolveByCorrection
<1>5. ASSUME NEW c \in Claim, ConfirmSupport(c) \/ Reject(c) \/ Revert(c) \/ OpenPage(c)
      PROVE  EvidenceInv'
  BY <1>5, EvidenceKept DEF ConfirmSupport, Reject, Revert, OpenPage
<1>6. ASSUME NEW c \in Claim, NEW s \in {"normal", "confidential"}, SetSensitivity(c, s)
      PROVE  EvidenceInv'
  BY <1>6, EvidenceKept DEF SetSensitivity
<1>7. ASSUME UNCHANGED vars PROVE EvidenceInv'
  BY <1>7, EvidenceKept DEF vars
<1> QED
  BY <1>1, <1>2, <1>3, <1>4, <1>5, <1>6, <1>7 DEF Next

\* A conflict the owner settled, or an import closed, is open again as soon as what
\* an import links to its occurrences disagrees by a revision the conflict does not
\* have: whatever the claims, the imports and the decisions between them.  A place
\* whose occurrence an earlier place has taken is not linked (imports/service.py,
\* _apply_snapshot; facts/conflicts.py, rebuild_conflicts and resolve_conflict).
THEOREM SettledKnows == Spec => []SettledKnowsItsEvidence
<1>1. Init => EvidenceInv
  BY NothingAgrees DEF Init, NoGroup, EvidenceInv
<1>2. EvidenceInv /\ [Next]_vars => EvidenceInv'
  BY EvidenceStep
<1>3. EvidenceInv => SettledKnowsItsEvidence
  BY DEF EvidenceInv, SettledKnowsItsEvidence, Disagree
<1> QED
  BY <1>1, <1>2, <1>3, PTL DEF Spec

=============================================================================
