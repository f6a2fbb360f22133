---------------------------- MODULE Persistence ----------------------------
(***************************************************************************)
(* How the services write a row: every handler of this code base loads an  *)
(* entity with TypeORM's repository.find, changes fields of the object and *)
(* calls repository.save(object).  No transaction, lock or version column  *)
(* is used anywhere.  save runs two statements:                            *)
(*   1. it SELECTs the row again and notes the columns in which the object *)
(*      differs from what is stored now (Dirty);                           *)
(*   2. it UPDATEs exactly those columns by primary key (Saved).           *)
(* A column the handler never touched is therefore written back when       *)
(* somebody else changed it after the load.                                *)
(*                                                                         *)
(* A row is a status and the set of nullable columns that are filled in,   *)
(* its stamps: the value of a timestamp matters to no property here, that  *)
(* it is null or not does.                                                 *)
(***************************************************************************)

Row(Status, Stamp) == [status: Status, stamps: SUBSET Stamp]

\* The columns in which two versions of a row differ.
Dirty(entity, stored) ==
  (IF entity.status # stored.status THEN {"status"} ELSE {})
    \cup (entity.stamps \ stored.stamps) \cup (stored.stamps \ entity.stamps)

\* What is stored once the dirty columns of the entity were written.
Saved(stored, entity, dirty) ==
  [status |-> IF "status" \in dirty THEN entity.status ELSE stored.status,
   stamps |-> (stored.stamps \ dirty) \cup (entity.stamps \cap dirty)]

\* The same for a row that is a record of columns.
DirtyColumns(entity, stored) == {c \in DOMAIN stored : entity[c] # stored[c]}

SavedColumns(stored, entity, dirty) ==
  [c \in DOMAIN stored |-> IF c \in dirty THEN entity[c] ELSE stored[c]]

=============================================================================
