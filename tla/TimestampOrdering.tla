------------------------- MODULE TimestampOrdering -------------------------
(***************************************************************************)
(* The Theory tab's timestamp-ordering simulator                           *)
(* (web/src/lib/theory/timestampOrdering.ts): the operations of a schedule *)
(* one after the other, under the basic rules or with the Thomas write     *)
(* rule.  A schedule is typed operation by operation, so every prefix of a *)
(* schedule is one.                                                        *)
(***************************************************************************)
EXTENDS Integers, Sequences

CONSTANTS
  Transaction,    \* transactions named in schedules
  Item,           \* items they read and write
  MaxOps          \* bound: length of a schedule

ASSUME ScheduleAssumption == MaxOps \in Nat

Op == [txn : Transaction, kind : {"R", "W"}, item : Item]
Verdict == {"ok", "abort", "ignored", "skipped"}

VARIABLES
  thomas,      \* with the Thomas write rule?
  steps,       \* the operations so far, with their verdicts
  ts, stamped, \* TS(Ti), 0 before Ti's first operation; transactions that have one
  rts, wts,    \* item -> largest timestamp that read and wrote it
  dead         \* transactions that were aborted

toVars == <<thomas, steps, ts, stamped, rts, wts, dead>>

ToInit ==
  /\ thomas \in BOOLEAN
  /\ steps = <<>>
  /\ ts = [t \in Transaction |-> 0] /\ stamped = 0
  /\ rts = [x \in Item |-> 0] /\ wts = [x \in Item |-> 0]
  /\ dead = {}

(* TS(Ti) is the order of Ti's first operation. *)
Stamp(o) ==
  IF ts[o.txn] # 0 THEN UNCHANGED <<ts, stamped>>
  ELSE stamped' = stamped + 1 /\ ts' = [ts EXCEPT ![o.txn] = stamped + 1]

TimeOf(o) == ts'[o.txn]

Record(o, verdict) == steps' = Append(steps, [op |-> o, verdict |-> verdict])
-----------------------------------------------------------------------------
Skip(o) ==
  /\ o.txn \in dead
  /\ Record(o, "skipped")
  /\ UNCHANGED <<rts, wts, dead>>

(* Faulty: rts is set to the reader's timestamp, also when it is smaller. *)
ReaderStamp(o) == TimeOf(o)

LaterReader(o) == IF rts[o.item] > TimeOf(o) THEN rts[o.item] ELSE TimeOf(o)

PerformRead(o) ==
  /\ o.kind = "R" /\ o.txn \notin dead
  /\ TimeOf(o) >= wts[o.item]
  /\ rts' = [rts EXCEPT ![o.item] = LaterReader(o)]
  /\ Record(o, "ok")
  /\ UNCHANGED <<wts, dead>>

(* A value from its future: a younger transaction wrote it. *)
ReadsFuture(o) == o.kind = "R" /\ TimeOf(o) < wts[o.item]

(* Faulty: who read the old value is not asked when the write is obsolete. *)
OnlyNewerRead(o) == o.kind = "W" /\ TimeOf(o) < rts[o.item] /\ ~(thomas /\ TimeOf(o) < wts[o.item])

(* A younger transaction read the old value. *)
WritesPast(o) == o.kind = "W" /\ TimeOf(o) < rts[o.item]

(* A younger transaction wrote it already. *)
Obsolete(o) == o.kind = "W" /\ ~WritesPast(o) /\ TimeOf(o) < wts[o.item]

Abort(o) ==
  /\ o.txn \notin dead
  /\ ReadsFuture(o) \/ WritesPast(o) \/ (Obsolete(o) /\ ~thomas)
  /\ dead' = dead \cup {o.txn}
  /\ Record(o, "abort")
  /\ UNCHANGED <<rts, wts>>

Ignore(o) ==
  /\ o.txn \notin dead /\ Obsolete(o) /\ thomas
  /\ Record(o, "ignored")
  /\ UNCHANGED <<rts, wts, dead>>

PerformWrite(o) ==
  /\ o.kind = "W" /\ o.txn \notin dead /\ ~WritesPast(o) /\ ~Obsolete(o)
  /\ wts' = [wts EXCEPT ![o.item] = TimeOf(o)]
  /\ Record(o, "ok")
  /\ UNCHANGED <<rts, dead>>

Perform(o) ==
  /\ Stamp(o)
  /\ Skip(o) \/ PerformRead(o) \/ Abort(o) \/ Ignore(o) \/ PerformWrite(o)
  /\ UNCHANGED thomas

ToNext == Len(steps) < MaxOps /\ \E o \in Op : Perform(o)

ToSpec == ToInit /\ [][ToNext]_toVars
-----------------------------------------------------------------------------
ToTypeOK ==
  /\ thomas \in BOOLEAN
  /\ steps \in Seq([op : Op, verdict : Verdict])
  /\ ts \in [Transaction -> Nat] /\ stamped \in Nat
  /\ rts \in [Item -> Nat] /\ wts \in [Item -> Nat]
  /\ dead \subseteq Transaction

Performed(i) == steps[i].verdict = "ok"
TimeAt(i) == ts[steps[i].op.txn]

Conflicts(a, b) ==
  a.txn # b.txn /\ a.item = b.item /\ (a.kind = "W" \/ b.kind = "W")

(* timestampOrdering: what was performed is conflict-serializable, in the  *)
(* order of the timestamps, whoever was aborted meanwhile.                 *)
InTimestampOrder ==
  \A i, j \in DOMAIN steps :
    i < j /\ Performed(i) /\ Performed(j) /\ Conflicts(steps[i].op, steps[j].op)
      => TimeAt(i) < TimeAt(j)

Wrote(k, x) == Performed(k) /\ steps[k].op.kind = "W" /\ steps[k].op.item = x
Saw(j, x) == Performed(j) /\ steps[j].op.kind = "R" /\ steps[j].op.item = x

(* "Thomas (ignore the obsolete write)": a write that is ignored is one    *)
(* that nobody could have seen.  Whoever comes after it in timestamp order *)
(* and reads the item has a write in between to read from.                 *)
ObsoleteUnseen ==
  \A i, j \in DOMAIN steps :
    LET x == steps[i].op.item IN
    steps[i].verdict = "ignored" /\ Saw(j, x) /\ TimeAt(i) < TimeAt(j)
      => \E k \in DOMAIN steps : Wrote(k, x) /\ TimeAt(i) < TimeAt(k) /\ TimeAt(k) <= TimeAt(j)
=============================================================================
