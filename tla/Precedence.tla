----------------------------- MODULE Precedence -----------------------------
(***************************************************************************)
(* The Theory tab's precedence graph (web/src/lib/theory/precedence.ts):   *)
(* the edges of a schedule, the depth-first search for a cycle and the     *)
(* order it reports when there is none.  A schedule is a sequence of       *)
(* operations as in TimestampOrdering.                                     *)
(***************************************************************************)
EXTENDS Integers, FiniteSets, SequencesExt

Clash(a, b) == a.txn # b.txn /\ a.item = b.item /\ (a.kind = "W" \/ b.kind = "W")

(* Pairs of positions, in the order of the two loops. *)
Before(p, q) == p[1] < q[1] \/ (p[1] = q[1] /\ p[2] < q[2])

(* Faulty: an operation is compared with the next one only. *)
NeighbourPairs(ops) ==
  SetToSortSeq({p \in (1 .. Len(ops)) \X (1 .. Len(ops)) :
                  p[2] = p[1] + 1 /\ Clash(ops[p[1]], ops[p[2]])}, Before)

(* An operation that conflicts with a LATER one. *)
ClashingPairs(ops) ==
  SetToSortSeq({p \in (1 .. Len(ops)) \X (1 .. Len(ops)) :
                  p[1] < p[2] /\ Clash(ops[p[1]], ops[p[2]])}, Before)

(* The edges, as they are found: each once. *)
EdgesOf(ops) ==
  FoldLeft(LAMBDA E, p : LET e == <<ops[p[1]].txn, ops[p[2]].txn>>
                         IN IF Contains(E, e) THEN E ELSE Append(E, e),
           <<>>, ClashingPairs(ops))

(* The transactions, sorted, and the successors of one. *)
NodesOf(ops) == SetToSortSeq({ops[x].txn : x \in DOMAIN ops}, <)
Ends(E) == [k \in DOMAIN E |-> E[k][2]]
Successors(E, n) == Ends(SelectSeq(E, LAMBDA e : e[1] = n))

NoCycle == <<>>

(* findCycle: `st' holds the nodes on the stack (state 1), `finished' the  *)
(* ones in state 2, and the cycle once it is found.                        *)
RECURSIVE Dfs(_, _, _), DfsFrom(_, _, _)

Dfs(E, n, st) ==
  LET below == DfsFrom(E, Successors(E, n), [st EXCEPT !.stack = Append(@, n)])
  IN IF below.cycle # NoCycle THEN below
     ELSE [below EXCEPT !.stack = Front(@), !.finished = @ \cup {n}]

DfsFrom(E, nodes, st) ==
  IF nodes = <<>> \/ st.cycle # NoCycle THEN st
  ELSE LET m == Head(nodes)
           next == CASE Contains(st.stack, m) ->
                          [st EXCEPT !.cycle =
                             Append(SubSeq(st.stack, SelectInSeq(st.stack, LAMBDA k : k = m), Len(st.stack)), m)]
                     [] m \in st.finished -> st
                     [] OTHER -> Dfs(E, m, st)
       IN DfsFrom(E, Tail(nodes), next)

CycleOf(ops) ==
  DfsFrom(EdgesOf(ops), NodesOf(ops), [stack |-> <<>>, finished |-> {}, cycle |-> NoCycle]).cycle

(* topoOrder: a node leaves with its edges, and its successors follow in   *)
(* the order in which they have no edge left.                              *)
RECURSIVE TakeOut(_, _, _)
TakeOut(E, ready, out) ==
  IF ready = <<>> THEN out
  ELSE LET n == Head(ready)
           left == SelectSeq(E, LAMBDA e : e[1] # n)
           freed == SelectSeq(Successors(E, n), LAMBDA m : ~Contains(Ends(left), m))
       IN TakeOut(left, Tail(ready) \o freed, Append(out, n))

SerialOrderOf(ops) ==
  LET E == EdgesOf(ops)
  IN TakeOut(E, SelectSeq(NodesOf(ops), LAMBDA n : ~Contains(Ends(E), n)), <<>>)
-----------------------------------------------------------------------------
(* Reference: a schedule is conflict-equivalent to the serial schedule of  *)
(* an order of its transactions when every pair of conflicting operations  *)
(* of different transactions is in that order.                             *)
EquivalentTo(ops, order) ==
  \A x, y \in DOMAIN ops :
    x < y /\ ops[x].txn # ops[y].txn /\ ops[x].item = ops[y].item /\ "W" \in {ops[x].kind, ops[y].kind}
      => \E a, b \in DOMAIN order : a < b /\ order[a] = ops[x].txn /\ order[b] = ops[y].txn

Orders(ops) == SetToSeqs({ops[x].txn : x \in DOMAIN ops})

(* precedenceGraph: "reports whether the schedule is conflict-serializable *)
(* (and an equivalent serial order, or the cycle ...)".                    *)
ReportsTruth(ops) ==
  LET cycle == CycleOf(ops) IN
    \/ /\ cycle = NoCycle
       /\ SerialOrderOf(ops) \in Orders(ops) /\ EquivalentTo(ops, SerialOrderOf(ops))
    \/ /\ cycle # NoCycle
       /\ cycle[1] = Last(cycle) /\ Len(cycle) > 2
       /\ \A k \in 1 .. Len(cycle) - 1 : Contains(EdgesOf(ops), <<cycle[k], cycle[k + 1]>>)
       /\ \A order \in Orders(ops) : ~EquivalentTo(ops, order)
=============================================================================
