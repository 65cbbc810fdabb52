--------------------------- MODULE SubscriptionDb ---------------------------
(***************************************************************************)
(* subscription_db: the memory of the FlightVars client. An entry ties a   *)
(* variable to the subscription the server gave it, the master, and lists  *)
(* the virtual subscriptions, with their handlers, of the application.     *)
(* Three maps lead to an entry, by variable, by master and by virtual.     *)
(***************************************************************************)
EXTENDS Naturals

CONSTANTS
  Var,      \* variable_id
  Master,   \* subscription_id, given by the server
  Virtual   \* subscription_id, given by make_subscription_id in the client

Entry == [var: Var, master: Master]
Link == [id: Virtual, entry: Entry]

VARIABLES
  byVar,     \* _var_id_map, its entries
  byMaster,  \* _master_subs_id_map, its entries
  byVirtual, \* _virtual_subs_id_map
  listed     \* entry::virtual_subs of all entries

dbVars == <<byVar, byMaster, byVirtual, listed>>

TypeOKDb ==
  /\ byVar \subseteq Entry
  /\ byMaster \subseteq Entry
  /\ byVirtual \subseteq Link
  /\ listed \subseteq Link

InitDb == byVar = {} /\ byMaster = {} /\ byVirtual = {} /\ listed = {}

VariableDefined(v) == \E e \in byVar : e.var = v
MasterDefined(m) == \E e \in byMaster : e.master = m
VirtualDefined(i) == \E l \in byVirtual : l.id = i

\* get_master_subscription_id of a virtual subscription.
MasterOf(i) == (CHOOSE l \in byVirtual : l.id = i).entry.master

\* The handlers invoke_handlers() calls for a master it knows.
HandlersOf(m) == {l.id : l \in {k \in listed : k.entry.master = m}}

Bind(ids, e) == {[id |-> i, entry |-> e] : i \in ids}

\* add_virtual_subscription, for each of a set of new identifiers.
AddVirtual(v, ids) ==
  /\ \E e \in byVar :
       /\ e.var = v
       /\ byVirtual' = byVirtual \cup Bind(ids, e)
       /\ listed' = listed \cup Bind(ids, e)
  /\ UNCHANGED <<byVar, byMaster>>

\* create_entry, with the virtual subscriptions added to it right after.
CreateEntry(v, m, ids) ==
  LET e == [var |-> v, master |-> m]
  IN  /\ ~VariableDefined(v)
      /\ ~MasterDefined(m)
      /\ byVar' = byVar \cup {e}
      /\ byMaster' = byMaster \cup {e}
      /\ byVirtual' = byVirtual \cup Bind(ids, e)
      /\ listed' = listed \cup Bind(ids, e)

\* The last virtual subscription of its entry.
IsLast(i) ==
  \E l \in byVirtual :
    l.id = i /\ \A k \in listed : k.entry = l.entry => k.id = i

\* Mutant: the last virtual subscription leaves its entry found by variable.
RemoveVirtualKeepsVar(i) ==
  /\ VirtualDefined(i)
  /\ byVirtual' = {l \in byVirtual : l.id # i}
  /\ listed' = {l \in listed : l.id # i}
  /\ byMaster' = IF IsLast(i) THEN {e \in byMaster : e.master # MasterOf(i)}
                 ELSE byMaster
  /\ UNCHANGED byVar

\* Mutant: the handler stays in its entry when others do.
RemoveVirtualKeepsHandler(i) ==
  /\ VirtualDefined(i)
  /\ byVirtual' = {l \in byVirtual : l.id # i}
  /\ IF IsLast(i)
     THEN /\ byVar' = {e \in byVar : e.master # MasterOf(i)}
          /\ byMaster' = {e \in byMaster : e.master # MasterOf(i)}
          /\ listed' = {l \in listed : l.id # i}
     ELSE UNCHANGED <<byVar, byMaster, listed>>

\* remove_virtual_subscription: with its last one an entry goes too.
RemoveVirtual(i) ==
  /\ VirtualDefined(i)
  /\ byVirtual' = {l \in byVirtual : l.id # i}
  /\ listed' = {l \in listed : l.id # i}
  /\ IF IsLast(i)
     THEN /\ byVar' = {e \in byVar : e.master # MasterOf(i)}
          /\ byMaster' = {e \in byMaster : e.master # MasterOf(i)}
     ELSE UNCHANGED <<byVar, byMaster>>

\* The three maps and the lists of virtual subscriptions tell the same story:
\* one entry for a variable, for a master and for a virtual subscription, and
\* no entry without one.
DbConsistent ==
  /\ byVar = byMaster
  /\ byVirtual = listed
  /\ \A e, f \in byVar : (e.var = f.var \/ e.master = f.master) => e = f
  /\ \A k, l \in byVirtual : k.id = l.id => k = l
  /\ byVar = {l.entry : l \in byVirtual}
=============================================================================
