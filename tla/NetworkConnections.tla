------------------------- MODULE NetworkConnections -------------------------
(***************************************************************************)
(* The listener's table of client connections, c_network_connections: a    *)
(* vector of a fixed number of slots, each a null pointer or a connection  *)
(* with its descriptor and a "locked" flag that says its request is being  *)
(* served.  The table is private to the listener thread, so these are      *)
(* operators on its value; ServerPipeline holds it in a variable.          *)
(***************************************************************************)
EXTENDS Naturals, Sequences, FiniteSets

(* A null slot; descriptors of connections are positive.                   *)
Vacant == [fd |-> 0, locked |-> FALSE]

EmptyTable(size) == [i \in 1..size |-> Vacant]

(* The first of some slots, as std::find_if; 0 at the end.                 *)
FirstSlot(slots) ==
  IF slots = {} THEN 0 ELSE CHOOSE i \in slots : \A j \in slots : i <= j

HasVacancy(table) == \E i \in DOMAIN table : table[i] = Vacant

(* add_connection, when there is a vacant slot.                            *)
AddConnection(table, fd) ==
  [table EXCEPT ![FirstSlot({i \in DOMAIN table : table[i] = Vacant})] =
     [fd |-> fd, locked |-> FALSE]]

ServedSlot(table, fd) ==
  FirstSlot({i \in DOMAIN table : table[i].fd = fd /\ table[i].locked})

(* remove_connection and unlock_connection: the locked slot of this        *)
(* descriptor, and no change when there is none.                           *)
RemoveConnection(table, fd) ==
  IF ServedSlot(table, fd) = 0 THEN table
  ELSE [table EXCEPT ![ServedSlot(table, fd)] = Vacant]

UnlockConnection(table, fd) ==
  IF ServedSlot(table, fd) = 0 THEN table
  ELSE [table EXCEPT ![ServedSlot(table, fd)].locked = FALSE]

(* Mutants: a locked connection counts as active; an active connection is  *)
(* not locked.                                                             *)
IsActiveOrLocked(slot, ready) == slot.fd > 0 /\ slot.fd \in ready

LeaveUnlocked(table, ready) == table

(* get_active_connections: every unlocked connection whose descriptor is   *)
(* in the fd_set is locked, and its descriptor joins the pending list.     *)
IsActive(slot, ready) == slot.fd > 0 /\ slot.fd \in ready /\ ~slot.locked

LockActive(table, ready) ==
  [i \in DOMAIN table |->
     IF IsActive(table[i], ready) THEN [table[i] EXCEPT !.locked = TRUE]
     ELSE table[i]]

ActiveSlots(table, ready) == {i \in DOMAIN table : IsActive(table[i], ready)}

(* A finite set of numbers, listed in ascending order.                     *)
Ascending(S) ==
  {q \in [1..Cardinality(S) -> S] : \A i, j \in DOMAIN q : i < j => q[i] < q[j]}

(* The descriptors get_max_fd puts into the fd_set.                        *)
TableFds(table) == {table[i].fd : i \in DOMAIN table} \ {0}
=============================================================================
