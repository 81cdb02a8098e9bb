--------------------------- MODULE ConfidentialUse ---------------------------
(***************************************************************************)
(* The permission to use a confidential fact: a chain of events, of which  *)
(* the last one counts.  An event never changes; it grants or renews the   *)
(* permission, perhaps up to a time, or ends it.  The fact, its revision   *)
(* and, but for a renewal, the use are copied along the chain, so they are *)
(* left out.  The expiry of what is due looks for it in one database       *)
(* session and records it in another.                                      *)
(***************************************************************************)
EXTENDS Naturals

CONSTANTS
  Permission,
  Keeper,      \* who records what is due: a home page, the launcher
  MaxEvent     \* bound: events of a permission

ASSUME PermissionAssumption == MaxEvent \in Nat

VARIABLES
  chain,   \* the last event of each permission
  late,    \* events whose time is over
  due      \* what each keeper found to be due

permissionVars == <<chain, late, due>>

Kind  == {"grant", "supersede", "revoke", "expire"}
Event == [kind : Kind \cup {"none"}, version : Nat, expires : BOOLEAN, actor : {"owner", "system"}]

None == [kind |-> "none", version |-> 0, expires |-> FALSE, actor |-> "owner"]

PermissionTypeOK ==
  /\ chain \in [Permission -> Event]
  /\ late \subseteq Permission \X Nat
  /\ due \in [Keeper -> SUBSET (Permission \X Nat)]
  /\ \A p \in Permission : chain[p].version = 0 <=> chain[p].kind = "none"

PermissionInit ==
  /\ chain = [p \in Permission |-> None]
  /\ late = {}
  /\ due = [k \in Keeper |-> {}]

Running(p) == chain[p].kind \in {"grant", "supersede"}
Due(p)     == Running(p) /\ chain[p].expires /\ <<p, chain[p].version>> \in late

\* Mutant: an event has the version of the one before it.
SameVersion(p, kind, expires, actor) ==
  [kind |-> kind, version |-> chain[p].version, expires |-> expires, actor |-> actor]

NextEvent(p, kind, expires, actor) ==
  [kind |-> kind, version |-> chain[p].version + 1, expires |-> expires, actor |-> actor]

\* An event of the owner's.  After a restore its version may be one that an event
\* the restored vault does not know has had.
Append(p, kind, expires) ==
  /\ chain[p].version < MaxEvent
  /\ chain' = [chain EXCEPT ![p] = NextEvent(p, kind, expires, "owner")]
  /\ late' = {e \in late : e[1] # p \/ e[2] <= chain[p].version}
  /\ UNCHANGED due

Grant(p, expires) == chain[p].kind = "none" /\ Append(p, "grant", expires)

Revoke(p) == Running(p) /\ Append(p, "revoke", FALSE)
Expire(p) == Running(p) /\ Append(p, "expire", FALSE)

\* Mutant: the form of an ended permission is accepted.
SupersedeEnded(p, expires) == chain[p].kind # "none" /\ Append(p, "supersede", expires)

Supersede(p, expires) == Running(p) /\ Append(p, "supersede", expires)

PassTime(p) ==
  /\ Running(p) /\ chain[p].expires
  /\ late' = late \cup {<<p, chain[p].version>>}
  /\ UNCHANGED <<chain, due>>

\* expire_due, first session ...
FindDue(k) ==
  /\ due' = [due EXCEPT ![k] = {<<p, chain[p].version>> : p \in {q \in Permission : Due(q)}}]
  /\ UNCHANGED <<chain, late>>

Found(k) == {e[1] : e \in due[k]}

\* The transaction that ends what keeper k found.
End(k, ended) ==
  /\ due[k] # {} /\ \A p \in ended : chain[p].version < MaxEvent
  /\ chain' = [p \in Permission |->
       IF p \in ended THEN NextEvent(p, "expire", FALSE, "system") ELSE chain[p]]
  /\ due' = [due EXCEPT ![k] = {}]
  /\ UNCHANGED late

\* Mutant: what was found is not looked at again.
RecordFound(k) == End(k, {p \in Found(k) : Running(p)})

\* ... and the transaction, which looks again, with the time of the first session:
\* of the events appended since then it ends those whose date was over by then.
RecordDue(k) ==
  \E ended \in SUBSET {p \in Found(k) : Due(p)} :
    /\ \A p \in Found(k) : Due(p) /\ <<p, chain[p].version>> \in due[k] => p \in ended
    /\ End(k, ended)

OwnerStep ==
  \E p \in Permission :
    \/ Revoke(p) \/ Expire(p) \/ PassTime(p)
    \/ \E expires \in BOOLEAN : Grant(p, expires) \/ Supersede(p, expires)

ForgetDue == due' = [k \in Keeper |-> {}] /\ UNCHANGED <<chain, late>>
=============================================================================
