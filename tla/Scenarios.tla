----------------------------- MODULE Scenarios -----------------------------
(***************************************************************************)
(* The eight lessons of the stepper (server/src/lab/stepper/scenarios.ts): *)
(* two lists of statements on one account with one stream, an order that   *)
(* the page suggests, and what is expected to come of it.  The engine that *)
(* runs them is Stepper; here a statement is what it does to the database. *)
(*                                                                         *)
(* MySQL is external: row locks, the snapshot of REPEATABLE READ, the next *)
(* key locks of SERIALIZABLE, and the undo of what is not committed.  The  *)
(* S lock of the foreign key on the account row never meets another        *)
(* transaction's X lock in these scripts, so it is left out.               *)
(***************************************************************************)
EXTENDS Integers, Sequences, FiniteSets

VARIABLES
  lesson,     \* the scenario
  guided,     \* are the statements run in the suggested order?
  pressed,    \* how far along that order
  play,       \* transaction -> what its connection did so far
  held,       \* account row -> who holds its X lock, or "nobody"
  streams,    \* transactions whose session row is committed
  stamp       \* account A's committed state_version

lessonVars == <<lesson, guided, pressed, play, held, streams, stamp>>

Player == {"T1", "T2"}
OtherPlayer(t) == CHOOSE x \in Player : x # t

(* The statements; A and B are the accounts, A the one with the lower id.  *)
Lock(row) == [sql |-> "lock", row |-> row]
CountActive == [sql |-> "count", row |-> "A"]
InsertSession == [sql |-> "insert", row |-> "A"]
ReadVersion == [sql |-> "read", row |-> "A"]
CasVersion == [sql |-> "cas", row |-> "A"]
End(sql) == [sql |-> sql, row |-> "A"]
Lesson(isolation, t1, t2, order) ==
  [isolation |-> isolation, T1 |-> t1, T2 |-> t2, order |-> order]
Txn1(body) == <<End("begin")>> \o body \o <<End("commit")>>
Checked == Txn1(<<CountActive, InsertSession>>)
InTurn == <<"T1", "T2", "T1", "T2", "T1", "T2", "T1", "T2">>

RaceTxnRr == Lesson("RR", Checked, Checked, InTurn)

(* Faulty: the fix counts before it locks. *)
PessimisticRcLate == Lesson("RC",
  Txn1(<<CountActive, Lock("A"), InsertSession>>),
  <<End("begin"), CountActive, Lock("A"), End("rollback")>>,
  <<"T1", "T1", "T2", "T2", "T1", "T1", "T1", "T2", "T2">>)

PessimisticRc == Lesson("RC",
  Txn1(<<Lock("A"), CountActive, InsertSession>>),
  <<End("begin"), Lock("A"), CountActive, End("rollback")>>,
  <<"T1", "T1", "T2", "T2", "T1", "T1", "T1", "T2", "T2">>)

PessimisticRrPitfall == Lesson("RR",
  Txn1(<<CountActive, Lock("A"), CountActive, InsertSession>>),
  Txn1(<<Lock("A"), InsertSession>>),
  <<"T1", "T1", "T2", "T2", "T1", "T2", "T2", "T1", "T1", "T1">>)

SerializableDeadlock == Lesson("SERIALIZABLE", Checked, Checked, InTurn)

OptimisticCas == Lesson("RC",
  Txn1(<<ReadVersion, CasVersion>>),
  <<End("begin"), ReadVersion, CasVersion, End("rollback")>>,
  <<"T1", "T2", "T1", "T2", "T1", "T1", "T2", "T2">>)

ClassicDeadlock == Lesson("RC",
  Txn1(<<Lock("A"), Lock("B")>>), Txn1(<<Lock("B"), Lock("A")>>), InTurn)

OrderedLocking == Lesson("RC",
  Txn1(<<Lock("A"), Lock("B")>>), Txn1(<<Lock("A"), Lock("B")>>),
  <<"T1", "T2", "T1", "T2", "T1", "T1", "T2", "T2">>)

KillRecovery == Lesson("RC",
  <<End("begin"), InsertSession>>, Checked,
  <<"T1", "T1", "T2", "T2", "KILL_T1", "T2", "T2">>)

Lessons ==
  [RACE_TXN_RR            |-> RaceTxnRr,
   PESSIMISTIC_RC         |-> PessimisticRc,
   PESSIMISTIC_RR_PITFALL |-> PessimisticRrPitfall,
   SERIALIZABLE_DEADLOCK  |-> SerializableDeadlock,
   OPTIMISTIC_CAS         |-> OptimisticCas,
   CLASSIC_DEADLOCK       |-> ClassicDeadlock,
   ORDERED_LOCKING        |-> OrderedLocking,
   KILL_RECOVERY          |-> KillRecovery]

NotPlayed == [done |-> 0, waiting |-> FALSE, killed |-> FALSE, victim |-> FALSE,
              fixed |-> FALSE, snapshot |-> {}, shared |-> FALSE, inserted |-> FALSE,
              counts |-> <<>>, saw |-> 0, matched |-> FALSE]

LessonInit ==
  /\ lesson \in DOMAIN Lessons /\ guided \in BOOLEAN /\ pressed = 0
  /\ play = [t \in Player |-> NotPlayed]
  /\ held = [row \in {"A", "B"} |-> "nobody"]
  /\ streams = {} /\ stamp = 0
-----------------------------------------------------------------------------
Level == Lessons[lesson].isolation
Statements(t) == Lessons[lesson][t]
Has(t) == play[t].done < Len(Statements(t)) /\ ~play[t].killed
Statement(t) == Statements(t)[play[t].done + 1]

(* Whose lock the next statement of t needs. *)
MustWait(t) ==
  LET s == Statement(t)  x == OtherPlayer(t) IN
  \/ s.sql \in {"lock", "cas"} /\ held[s.row] = x
  \/ s.sql = "insert" /\ play[x].shared
  \/ s.sql = "count" /\ Level = "SERIALIZABLE" /\ play[x].inserted

(* What t has not committed is undone and its locks are released. *)
Released(t) == [row \in DOMAIN held |-> IF held[row] = t THEN "nobody" ELSE held[row]]
Ended(p) == [p EXCEPT !.waiting = FALSE, !.fixed = FALSE, !.shared = FALSE, !.inserted = FALSE]

(* The sessions that t's count sees. *)
Visible(t) ==
  (IF Level = "RR" /\ play[t].fixed THEN play[t].snapshot ELSE streams)
    \cup (IF play[t].inserted THEN {t} ELSE {})

(* One statement that nothing blocks. *)
Executes(t) ==
  LET s == Statement(t).sql  row == Statement(t).row
      p == [play[t] EXCEPT !.done = @ + 1, !.waiting = FALSE]
      hit == stamp = p.saw
  IN
  /\ Has(t) /\ ~MustWait(t)
  /\ play' = [play EXCEPT ![t] =
       CASE s = "count"  -> [p EXCEPT !.counts = Append(@, Cardinality(Visible(t))),
                                      !.fixed = TRUE, !.shared = Level = "SERIALIZABLE",
                                      !.snapshot = IF p.fixed THEN @ ELSE streams]
         [] s = "read"   -> [p EXCEPT !.saw = stamp]
         [] s = "cas"    -> [p EXCEPT !.matched = hit]
         [] s = "insert" -> [p EXCEPT !.inserted = TRUE]
         [] s \in {"commit", "rollback"} -> Ended(p)
         [] OTHER -> p]
  /\ held' = IF s = "lock" \/ (s = "cas" /\ hit) THEN [held EXCEPT ![row] = t]
             ELSE IF s \in {"commit", "rollback"} THEN Released(t) ELSE held
  /\ streams' = IF s = "commit" /\ p.inserted THEN streams \cup {t} ELSE streams
  /\ stamp' = IF s = "commit" /\ p.matched THEN stamp + 1 ELSE stamp

Rested == \A t \in Player : play[t].waiting => MustWait(t)
WaitsIn(t) == play' = [play EXCEPT ![t].waiting = TRUE] /\ UNCHANGED <<held, streams, stamp>>

Press(t) ==
  /\ Has(t) /\ ~play[t].waiting
  /\ IF guided
     THEN /\ Rested /\ \E x \in Player : ~play[x].waiting
          /\ pressed < Len(Lessons[lesson].order) /\ Lessons[lesson].order[pressed + 1] = t
          /\ pressed' = pressed + 1
     ELSE UNCHANGED pressed
  /\ IF MustWait(t) THEN WaitsIn(t) ELSE Executes(t)
  /\ UNCHANGED <<lesson, guided>>

(* The lock is there at last. *)
Resumes(t) == play[t].waiting /\ Executes(t) /\ UNCHANGED <<lesson, guided, pressed>>

(* 1205: a lock is waited for 30 s, then the statement alone is undone. *)
TimesOut(t) ==
  /\ ~guided /\ play[t].waiting /\ MustWait(t)
  /\ play' = [play EXCEPT ![t].waiting = FALSE, ![t].done = @ + 1]
  /\ UNCHANGED <<lesson, guided, pressed, held, streams, stamp>>

(* 1213: both wait, one of them is rolled back; in these scripts only its  *)
(* COMMIT is left.                                                         *)
Sacrificed(t) ==
  /\ \A x \in Player : play[x].waiting /\ MustWait(x)
  /\ play' = [play EXCEPT ![t] = [Ended(@) EXCEPT !.victim = TRUE, !.done = @ + 1]]
  /\ held' = Released(t)
  /\ UNCHANGED <<lesson, guided, pressed, streams, stamp>>

(* KILL: InnoDB rolls back what the connection did not commit. *)
KillPressed(t) ==
  /\ IF guided
     THEN /\ Rested /\ pressed < Len(Lessons[lesson].order)
          /\ t = "T1" /\ Lessons[lesson].order[pressed + 1] = "KILL_T1"
          /\ pressed' = pressed + 1
     ELSE UNCHANGED pressed
  /\ ~play[t].killed
  /\ play' = [play EXCEPT ![t] = [Ended(@) EXCEPT !.killed = TRUE]]
  /\ held' = Released(t)
  /\ UNCHANGED <<lesson, guided, streams, stamp>>

LessonNext ==
  \E t \in Player : Press(t) \/ Resumes(t) \/ TimesOut(t) \/ Sacrificed(t) \/ KillPressed(t)
-----------------------------------------------------------------------------
(* checkInvariant: the sessions above max_streams, which is 1. *)
Violations(active) == IF Cardinality(active) > 1 THEN Cardinality(active) - 1 ELSE 0

Counts(t) == play[t].counts
Victims == {t \in Player : play[t].victim}

(* The "expected" texts. *)
Expected ==
  [RACE_TXN_RR            |-> Violations(streams) = 1 /\ Counts("T1") = <<0>> /\ Counts("T2") = <<0>>,
   PESSIMISTIC_RC         |-> Violations(streams) = 0 /\ Counts("T2") = <<1>>,
   PESSIMISTIC_RR_PITFALL |-> Violations(streams) = 1 /\ Counts("T1") = <<0, 0>>,
   SERIALIZABLE_DEADLOCK  |-> Cardinality(Victims) = 1 /\ streams = Player \ Victims,
   OPTIMISTIC_CAS         |-> play["T1"].matched /\ ~play["T2"].matched /\ stamp = 1,
   CLASSIC_DEADLOCK       |-> Cardinality(Victims) = 1,
   ORDERED_LOCKING        |-> Victims = {},
   KILL_RECOVERY          |-> streams = {"T2"} /\ Counts("T2") = <<0>>]

(* scenarios.ts "expected": along the suggested order every lesson ends    *)
(* the way its text says; and whatever the order in which the buttons are  *)
(* pressed, connections killed and locks given up, only the two deadlock   *)
(* lessons sacrifice a transaction, and only write skew lets both sessions *)
(* in after both counted and neither saw the other.                        *)
LessonsHold ==
  /\ guided /\ pressed = Len(Lessons[lesson].order) /\ Rested => Expected[lesson]
  /\ Victims # {} => lesson \in {"SERIALIZABLE_DEADLOCK", "CLASSIC_DEADLOCK"}
  /\ streams = Player /\ (\A t \in Player : SelectSeq(Counts(t), LAMBDA n : n = 0) = Counts(t) /\ Counts(t) # <<>>)
       => lesson = "RACE_TXN_RR"
=============================================================================
