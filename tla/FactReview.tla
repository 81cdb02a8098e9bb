----------------------------- MODULE FactReview -----------------------------
(***************************************************************************)
(* The career facts of the vault.  An import of the curated sources writes *)
(* what they state as revisions of claims and compares it; the owner       *)
(* decides on a claim, or on a conflict between sources, from a page that  *)
(* carries the version it shows.  A resume may use a claim if it is        *)
(* eligible.                                                               *)
(*                                                                         *)
(* Every operation here is one transaction under the mutation mutex, so    *)
(* one action: what interleaves is imports and decisions, with pages that  *)
(* were opened before them.  The claims are those of one semantic family,  *)
(* whose values are compared with one another.                             *)
(***************************************************************************)
EXTENDS Naturals, Sequences, FiniteSets

CONSTANTS
  Claim,
  Value,
  Absent,
  Places,     \* the claim each place in the sources is about, in reading order
  Occurrence, \* the occurrence of each place: its source, subject, employer, period,
              \* category and the last part of its claim's key
  Private,    \* the values an importer marks as potentially confidential
  LowRisk,    \* the values without number, date, title or team size
  MaxVersion  \* bound: versions of a claim and of the conflict

ASSUME FactAssumption ==
  /\ Absent \notin Value
  /\ Places \in Seq(Claim) /\ DOMAIN Occurrence = DOMAIN Places
  /\ Private \subseteq Value /\ LowRisk \subseteq Value
  /\ MaxVersion \in Nat

VARIABLES
  claims,   \* each claim; version 0: not in the vault
  origin,   \* the origin of each claim's revisions
  support,  \* the latest support assertion of each revision
  group,    \* the conflict group of the family
  page,     \* a page of the owner's that stays open while others are posted
  stated,   \* history: what the sources of the latest import state
  linked,   \* history: what of it the import run links to its occurrences
  decided,  \* history: the value the owner accepted, on evidence still the same
  ruled     \* history: the revisions before the owner when he ruled on them

latest == <<stated, linked>>
vars   == <<claims, origin, support, group, page, latest, decided, ruled>>

Revision == Claim \X Value
Decided  == {"approved", "corrected"}

ClaimRecord ==
  [active : Value \cup {Absent}, status : Decided \cup {"unresolved", "rejected"},
   sensitivity : {"unreviewed", "normal", "confidential"}, stale : BOOLEAN,
   version : 0 .. MaxVersion]
GroupRecord ==
  [status : {"none", "open", "resolved"}, version : 0 .. MaxVersion,
   members : SUBSET Revision]
Page == [id : Claim, claim : ClaimRecord, group : GroupRecord]

TypeOK ==
  /\ claims \in [Claim -> ClaimRecord]
  /\ origin \in [Claim -> [Value -> {"none", "source", "user"}]]
  /\ support \in [Claim -> [Value -> {"none", "supported", "unsupported"}]]
  /\ group \in GroupRecord /\ page \in Page
  /\ stated \subseteq Revision /\ linked \subseteq stated /\ ruled \subseteq Revision
  /\ decided \in [Claim -> Value \cup {Absent}]
  /\ \A c \in Claim :
       IF claims[c].version = 0 THEN claims[c].active = Absent
       ELSE claims[c].active \in Value /\ origin[c][claims[c].active] # "none"
  /\ \A r \in group.members : origin[r[1]][r[2]] # "none"

Unknown == [active |-> Absent, status |-> "unresolved", sensitivity |-> "unreviewed",
            stale |-> FALSE, version |-> 0]
NoGroup == [status |-> "none", version |-> 0, members |-> {}]

Init ==
  /\ claims = [c \in Claim |-> Unknown]
  /\ origin = [c \in Claim |-> [v \in Value |-> "none"]]
  /\ support = [c \in Claim |-> [v \in Value |-> "none"]]
  /\ group = NoGroup
  /\ page \in {[id |-> c, claim |-> Unknown, group |-> NoGroup] : c \in Claim}
  /\ stated = {} /\ linked = {} /\ ruled = {}
  /\ decided = [c \in Claim |-> Absent]

-----------------------------------------------------------------------------
(* An import *)

\* What the sources state, place by place.
Content == [DOMAIN Places -> Value \cup {Absent}]

Stated(content) ==
  {r \in Revision : \E i \in DOMAIN Places : r = <<Places[i], content[i]>>}

\* A run links an occurrence once, to the first of its places that states something.
Linked(content) ==
  {r \in Revision : \E i \in DOMAIN Places :
     /\ r = <<Places[i], content[i]>>
     /\ \A j \in 1 .. (i - 1) : Occurrence[j] = Occurrence[i] => content[j] = Absent}

\* Mutant: evidence that comes back counts as reviewed.
FoundTrusted(claim) == [claim EXCEPT !.stale = FALSE, !.version = @ + 1]

\* Mutant: a claim that is found again keeps its version.
FoundUnversioned(claim) ==
  [claim EXCEPT !.stale = FALSE, !.status = IF @ \in Decided THEN "unresolved" ELSE @]

\* The active revision of a stale claim is stated again.
FoundAgain(claim) ==
  [claim EXCEPT !.stale = FALSE, !.version = @ + 1,
                !.status = IF @ \in Decided THEN "unresolved" ELSE @]

\* _upsert_candidate.
Upsert(claim, v) ==
  LET sensitivity == IF v \in Private THEN "unreviewed"
                     ELSE IF claim.version = 0 THEN "normal" ELSE claim.sensitivity
  IN  IF claim.active # v
      THEN [active |-> v, status |-> "unresolved", sensitivity |-> sensitivity,
            stale |-> FALSE, version |-> claim.version + 1]
      ELSE IF claim.stale THEN FoundAgain(claim) ELSE claim

\* A claim no place of a complete import states.
Lost(content, complete, c) ==
  /\ complete /\ \A i \in DOMAIN Places : Places[i] = c => content[i] = Absent
  /\ claims[c].version # 0 /\ ~claims[c].stale

\* One place of the sources, and the claim after each in reading order.
ReadPlace(content, c, i, claim) ==
  IF Places[i] = c /\ content[i] # Absent THEN Upsert(claim, content[i]) ELSE claim

Reading(content, c) ==
  LET claim[i \in 0 .. Len(Places)] ==
        IF i = 0 THEN claims[c] ELSE ReadPlace(content, c, i, claim[i - 1])
  IN  claim

Imported(content, complete, c) ==
  IF Lost(content, complete, c)
  THEN [claims[c] EXCEPT !.stale = TRUE, !.version = @ + 1]
  ELSE Reading(content, c)[Len(Places)]

\* Mutant: a conflict the owner settled stays settled whatever is stated.
RegroupOnce(new, complete) ==
  LET disagree == Cardinality({r[2] : r \in new}) > 1
      open(version) == [status |-> "open", version |-> version,
                        members |-> group.members \cup new]
  IN  CASE disagree /\ group.status = "none" -> open(1)
        [] disagree /\ group.status = "open" -> open(group.version)
        [] ~disagree /\ complete /\ group.status = "open" ->
             [group EXCEPT !.status = "resolved", !.version = @ + 1]
        [] OTHER -> group

\* rebuild_conflicts, of the linked revisions.  A complete import in which they do
\* not disagree settles the conflict; any but exactly the group's reopen it.
Regroup(new, complete) ==
  LET disagree == Cardinality({r[2] : r \in new}) > 1
      open(version) == [status |-> "open", version |-> version,
                        members |-> group.members \cup new]
  IN  CASE disagree /\ group.status = "none" -> open(1)
        [] disagree /\ group.status = "open" -> open(group.version)
        [] disagree /\ group.status = "resolved" /\ new # group.members ->
             open(group.version + 1)
        [] ~disagree /\ complete /\ group.status = "open" ->
             [group EXCEPT !.status = "resolved", !.version = @ + 1]
        [] OTHER -> group

Import(content, complete) ==
  LET new == Stated(content) IN
  /\ complete \/ \E i \in DOMAIN Places : content[i] = Absent
  /\ claims' = [c \in Claim |-> Imported(content, complete, c)]
  /\ origin' = [c \in Claim |-> [v \in Value |->
       IF <<c, v>> \in new /\ origin[c][v] = "none" THEN "source" ELSE origin[c][v]]]
  /\ support' = [c \in Claim |-> [v \in Value |->
       IF <<c, v>> \in new THEN "supported"
       ELSE IF Lost(content, complete, c) /\ v = claims[c].active THEN "unsupported"
       ELSE support[c][v]]]
  /\ group' = Regroup(Linked(content), complete)
  /\ stated' = new /\ linked' = Linked(content)
  /\ decided' = [c \in Claim |->
       IF \/ Lost(content, complete, c)
          \/ \E v \in Value : <<c, v>> \in new /\ v # decided[c]
       THEN Absent ELSE decided[c]]
  /\ group'.version <= MaxVersion /\ \A c \in Claim : claims'[c].version <= MaxVersion
  /\ UNCHANGED <<page, ruled>>

-----------------------------------------------------------------------------
(* The owner's decisions, each made from a page that is up to date *)

OpenConflict(c) ==
  group.status = "open" /\ \E v \in Value : <<c, v>> \in group.members

Known(c) == claims[c].version # 0

\* A decision makes the claim what the owner chose, in its next version.
Decide(c, chosen) ==
  /\ Known(c) /\ claims[c].version < MaxVersion
  /\ claims' = [claims EXCEPT ![c] = [chosen EXCEPT !.version = claims[c].version + 1]]

Approve(c, v) ==
  /\ origin[c][v] # "none" /\ ~OpenConflict(c)
  /\ Decide(c, [claims[c] EXCEPT !.active = v, !.status = "approved"])
  /\ decided' = [decided EXCEPT ![c] = v]
  /\ UNCHANGED <<origin, support, group, page, latest, ruled>>

\* Several facts at once: all of them, or none.
BulkApprove(choice) ==
  /\ \A c \in DOMAIN choice :
       /\ Known(c) /\ claims[c].version < MaxVersion
       /\ origin[c][choice[c]] # "none" /\ ~OpenConflict(c)
       /\ choice[c] \in LowRisk /\ claims[c].sensitivity = "normal" /\ ~claims[c].stale
  /\ claims' = [c \in Claim |->
       IF c \in DOMAIN choice
       THEN [claims[c] EXCEPT !.active = choice[c], !.status = "approved",
                              !.version = @ + 1]
       ELSE claims[c]]
  /\ decided' = [c \in Claim |-> IF c \in DOMAIN choice THEN choice[c] ELSE decided[c]]
  /\ UNCHANGED <<origin, support, group, page, latest, ruled>>

\* Mutant: the new revision is not stored before it is made the active one.
CorrectUnstored(c, v) ==
  /\ origin[c][v] = "none" /\ ~OpenConflict(c)
  /\ Decide(c, [claims[c] EXCEPT !.active = v, !.status = "corrected"])
  /\ decided' = [decided EXCEPT ![c] = v]
  /\ UNCHANGED <<origin, support, group, page, latest, ruled>>

\* A correction is a revision of the owner's, without support.
Correct(c, v) ==
  /\ origin[c][v] = "none" /\ ~OpenConflict(c)
  /\ Decide(c, [claims[c] EXCEPT !.active = v, !.status = "corrected"])
  /\ origin' = [origin EXCEPT ![c][v] = "user"]
  /\ decided' = [decided EXCEPT ![c] = v]
  /\ UNCHANGED <<support, group, page, latest, ruled>>

ConfirmSupport(c) ==
  /\ Known(c) /\ origin[c][claims[c].active] = "user"
  /\ Decide(c, claims[c])
  /\ support' = [support EXCEPT ![c][claims[c].active] = "supported"]
  /\ UNCHANGED <<origin, group, page, latest, decided, ruled>>

Reject(c) ==
  /\ Decide(c, [claims[c] EXCEPT !.status = "rejected"])
  /\ decided' = [decided EXCEPT ![c] = Absent]
  /\ UNCHANGED <<origin, support, group, page, latest, ruled>>

\* The page offers to revert a claim that a decision was recorded for.
Revert(c) ==
  /\ claims[c].version > 1
  /\ Decide(c, [claims[c] EXCEPT !.status = "unresolved"])
  /\ decided' = [decided EXCEPT ![c] = Absent]
  /\ UNCHANGED <<origin, support, group, page, latest, ruled>>

SetSensitivity(c, sensitivity) ==
  /\ Decide(c, [claims[c] EXCEPT !.sensitivity = sensitivity])
  /\ UNCHANGED <<origin, support, group, page, latest, decided, ruled>>

\* Wording that was typed for an application enters the review; a new claim gets
\* its first version here and its second at once.
RequestManualReview(c, v) ==
  /\ claims' = [claims EXCEPT ![c] =
       [claims[c] EXCEPT !.active = v, !.status = "unresolved",
                         !.sensitivity = "unreviewed",
                         !.version = IF @ = 0 THEN 2 ELSE @ + 1]]
  /\ claims'[c].version <= MaxVersion
  /\ origin' = [origin EXCEPT ![c][v] = IF @ = "none" THEN "user" ELSE @]
  /\ decided' = [decided EXCEPT ![c] = Absent]
  /\ UNCHANGED <<support, group, page, latest, ruled>>

Settle ==
  /\ group.version < MaxVersion
  /\ group' = [group EXCEPT !.status = "resolved", !.version = @ + 1]

\* resolve_conflict, by one of the members ...
ResolveBySelection(c, v) ==
  /\ group.status = "open" /\ <<c, v>> \in group.members
  /\ Settle /\ Decide(c, [claims[c] EXCEPT !.active = v, !.status = "approved"])
  /\ ruled' = group.members
  /\ decided' = [decided EXCEPT ![c] = v]
  /\ UNCHANGED <<origin, support, page, latest>>

\* ... or by a correction, which becomes the claim of whichever member is first.
ResolveByCorrection(c, v) ==
  /\ group.status = "open" /\ \E r \in group.members : r[1] = c
  /\ origin[c][v] = "none"
  /\ Settle /\ Decide(c, [claims[c] EXCEPT !.active = v, !.status = "corrected"])
  /\ origin' = [origin EXCEPT ![c][v] = "user"]
  /\ ruled' = group.members
  /\ decided' = [decided EXCEPT ![c] = v]
  /\ UNCHANGED <<support, page, latest>>

\* _fact_context: a page shows the claim, and the conflict it belongs to.
PageOf(c) == [id |-> c, claim |-> claims[c], group |-> group]

OpenPage(c) ==
  /\ Known(c) /\ page' = PageOf(c)
  /\ UNCHANGED <<claims, origin, support, group, latest, decided, ruled>>

Next ==
  \/ \E content \in Content, complete \in BOOLEAN : Import(content, complete)
  \/ \E s \in SUBSET Claim \ {{}} : \E choice \in [s -> Value] : BulkApprove(choice)
  \/ \E c \in Claim :
       \/ \E v \in Value :
            \/ Approve(c, v) \/ Correct(c, v) \/ RequestManualReview(c, v)
            \/ ResolveBySelection(c, v) \/ ResolveByCorrection(c, v)
       \/ ConfirmSupport(c) \/ Reject(c) \/ Revert(c) \/ OpenPage(c)
       \/ \E s \in {"normal", "confidential"} : SetSensitivity(c, s)

Spec == Init /\ [][Next]_vars

-----------------------------------------------------------------------------
(* Properties *)

\* is_resume_eligible, up to the permission a confidential claim needs.
Eligible(c) ==
  /\ claims[c].status \in Decided /\ ~claims[c].stale
  /\ support[c][claims[c].active] = "supported"
  /\ ~OpenConflict(c) /\ claims[c].sensitivity # "unreviewed"

\* What a resume uses is the value the owner accepted, and since then no import
\* has stated another one or failed to find it.
EligibleIsDecided == \A c \in Claim : Eligible(c) => decided[c] = claims[c].active

\* A page whose claim's version is still accepted, by every decision on the claim,
\* shows the claim as it is: its value, status, sensitivity and staleness.  A page
\* whose conflict's version is still accepted, by the resolution of the conflict,
\* shows the conflict's status, and no member that is none.
AcceptedPageIsCurrent ==
  /\ page.claim.version = claims[page.id].version => page.claim = claims[page.id]
  /\ page.group.version = group.version =>
       page.group.status = group.status /\ page.group.members \subseteq group.members

\* A group that is settled knows every revision by which what the latest import
\* linked disagrees.
SettledKnowsItsEvidence ==
  Cardinality({r[2] : r \in linked}) > 1 /\ group.status = "resolved" =>
    linked \subseteq group.members

\* Does not hold, as two places of one occurrence are linked once: every
\* disagreement of the sources is in the group.
DisagreementIsGrouped ==
  Cardinality({r[2] : r \in stated}) > 1 => stated \subseteq group.members

\* Does not hold: the page a conflict is resolved from shows the claim as it is.
\* The resolution compares the version of the conflict and not the claim's.
ConflictPageShowsTheClaim ==
  group.status = "open" /\ page.group.version = group.version =>
    page.claim = claims[page.id]

\* Does not hold: the promise that a page is refused once its conflict changed, with "Review
\* every source again": it shows every member there is.
AcceptedPageShowsEveryMember ==
  group.status = "open" /\ page.group.version = group.version =>
    page.group.members = group.members

\* Violated: "Any related conflict has been resolved by Varun."
EligibleIsRuledOn ==
  Cardinality({r[2] : r \in stated}) > 1 =>
    \A c \in {r[1] : r \in stated} : Eligible(c) => stated \subseteq ruled

=============================================================================
