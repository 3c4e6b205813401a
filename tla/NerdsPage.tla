----------------------------- MODULE NerdsPage -----------------------------
(***************************************************************************)
(* "Stats for nerds" beside the other tabs of the browser: the action      *)
(* trace (lib/trace.ts), which every tab keeps in memory and saves whole   *)
(* in localStorage, and what the page fetches again after a traced action  *)
(* or a push: the server's checks (NerdsPage.tsx) and the experiment runs  *)
(* (RunsTab.tsx).                                                          *)
(***************************************************************************)
EXTENDS Integers, Sequences, SequencesExt

CONSTANTS
  Window,       \* tabs of the browser
  Nerds,        \* the one that shows the page
  MaxTrace,     \* MAX
  MaxActs,      \* bound: requests of the other tabs
  MaxFetching,  \* bound: answers under way to one panel
  MaxUnsaved    \* bound: saves that fail, clears, presses of Run now, answers lost

ASSUME NerdsAssumption ==
  Nerds \in Window /\ MaxTrace \in Nat \ {0} /\ {MaxActs, MaxFetching, MaxUnsaved} \subseteq Nat

Fetched == {"checks", "runs"}   \* what is fetched
NotRead == -1                 \* a fetch the server has not answered

VARIABLES
  opened,     \* the page's tab: "trace", where the trace is cleared, or "runs"
  truth,      \* panel -> version of what the server has
  asked,      \* requests of the other tabs under way, with what they are
  pushed,     \* an account_state for the page is under way
  entries,    \* window -> its trace, newest first
  stored,     \* localStorage
  told,       \* windows with a storage event to come
  unsaved,    \* windows whose last save failed
  loader,     \* panel -> its timer, what is under way, the newest it ever showed
  missed,     \* panels that lost an answer, or were not told of an action
  mixed,      \* something else than experiments was traced
  acts, odd   \* bounds

nerdsVars == <<opened, truth, asked, pushed, entries, stored, told, unsaved, loader,
               missed, mixed, acts, odd>>
traceVars == <<entries, stored, told, unsaved, loader, mixed>>

Kind == {"play", "heartbeat", "lab"}
Entry(id, kind) == [id |-> id, lab |-> kind = "lab"]

NerdsInit ==
  /\ opened \in {"trace", "runs"}
  /\ truth = [p \in Fetched |-> 0] /\ asked = {} /\ pushed = FALSE
  /\ entries = [w \in Window |-> <<>>] /\ stored = <<>> /\ told = {} /\ unsaved = {}
  /\ loader = [p \in Fetched |-> [timer |-> FALSE, fetching |-> <<>>, newest |-> 0]]
  /\ missed = {} /\ mixed = FALSE /\ acts = 0 /\ odd = 0

Odd == odd < MaxUnsaved /\ odd' = odd + 1
-----------------------------------------------------------------------------
(* The server. *)

(* It commits what a tab asked for; a play is pushed to the account's room. *)
Act(w, kind) ==
  /\ w # Nerds /\ acts < MaxActs /\ acts' = acts + 1
  /\ truth' = [truth EXCEPT ![IF kind = "lab" THEN "runs" ELSE "checks"] = @ + 1]
  /\ asked' = asked \cup {[at |-> w, id |-> acts + 1, kind |-> kind]}
  /\ pushed' = (pushed \/ kind = "play")
  /\ UNCHANGED <<opened, traceVars, missed, odd>>

(* GET /accounts/:id/checks, GET /lab/runs *)
Serve(p, k) ==
  /\ loader[p].fetching[k] = NotRead
  /\ loader' = [loader EXCEPT ![p].fetching[k] = truth[p]]
  /\ UNCHANGED <<opened, truth, asked, pushed, entries, stored, told, unsaved, missed, mixed, acts, odd>>
-----------------------------------------------------------------------------
(* The trace. *)

(* Faulty: the page watches the pushes only. *)
NoEffects(w, new) == loader

(* The effects that depend on trace[0]?.id: the checks' timer starts anew; *)
(* that of the runs too, but only if that entry is an experiment's.        *)
Effects(w, new) ==
  LET first(s) == IF s = <<>> THEN Entry(0, "heartbeat") ELSE s[1] IN
  IF w # Nerds \/ first(new).id = first(entries[w]).id THEN loader
  ELSE [loader EXCEPT !["checks"].timer = TRUE,
                      !["runs"].timer = opened = "runs" /\ first(new).lab]

(* entries = new; save(); emit().  The other tabs hear of a new value. *)
Keep(w, new, saves) ==
  /\ entries' = [entries EXCEPT ![w] = new]
  /\ stored' = IF saves THEN new ELSE stored
  /\ told' = IF stored' = stored THEN told ELSE told \cup (Window \ {w})
  /\ unsaved' = IF saves THEN unsaved \ {w} ELSE unsaved \cup {w}
  /\ loader' = Effects(w, new)

(* recordTrace, once the answer is there. *)
RecordTrace(r, saves) ==
  LET all == <<Entry(r.id, r.kind)>> \o entries[r.at] IN
  /\ r \in asked /\ asked' = asked \ {r}
  /\ Keep(r.at, SubSeq(all, 1, IF Len(all) > MaxTrace THEN MaxTrace ELSE Len(all)), saves)
  /\ mixed' = (mixed \/ r.kind # "lab")
  /\ IF saves THEN UNCHANGED <<odd, missed>> ELSE Odd /\ missed' = Fetched
  /\ UNCHANGED <<opened, truth, pushed, acts>>

(* An entry that the page has not heard of is wiped before it is told. *)
Wiped == missed' = IF Nerds \in told THEN missed \cup {"checks"} ELSE missed

ClearTrace ==
  /\ opened = "trace" /\ Odd /\ Wiped
  /\ \E saves \in BOOLEAN : Keep(Nerds, <<>>, saves)
  /\ UNCHANGED <<opened, truth, asked, pushed, mixed, acts>>

(* The storage event: the trace is what is stored now. *)
HearStorage(w) ==
  /\ w \in told /\ told' = told \ {w}
  /\ entries' = [entries EXCEPT ![w] = stored] /\ unsaved' = unsaved \ {w}
  /\ loader' = Effects(w, stored)
  /\ UNCHANGED <<opened, truth, asked, pushed, stored, missed, mixed, acts, odd>>
-----------------------------------------------------------------------------
(* The page. *)

(* account_state: the checks' timer starts anew. *)
HearPush ==
  /\ pushed /\ pushed' = FALSE
  /\ loader' = [loader EXCEPT !["checks"].timer = TRUE]
  /\ UNCHANGED <<opened, truth, asked, entries, stored, told, unsaved, missed, mixed, acts, odd>>

Refresh(p) ==
  /\ Len(loader[p].fetching) < MaxFetching
  /\ missed' = missed \ {p}

(* 250 ms, or 200 ms, without another change. *)
TimerFires(p) ==
  /\ loader[p].timer /\ Refresh(p)
  /\ loader' = [loader EXCEPT ![p].timer = FALSE, ![p].fetching = Append(@, NotRead)]
  /\ UNCHANGED <<opened, truth, asked, pushed, entries, stored, told, unsaved, mixed, acts, odd>>

RunNow ==
  /\ Odd /\ Refresh("checks")
  /\ loader' = [loader EXCEPT !["checks"].fetching = Append(@, NotRead)]
  /\ UNCHANGED <<opened, truth, asked, pushed, entries, stored, told, unsaved, mixed, acts>>

(* The answers come in any order; each is shown. *)
Show(p, k) ==
  LET seen == loader[p].fetching[k] IN
  /\ seen # NotRead
  /\ loader' = [loader EXCEPT ![p].fetching = RemoveAt(@, k),
                              ![p].newest = IF seen > @ THEN seen ELSE @]
  /\ UNCHANGED <<opened, truth, asked, pushed, entries, stored, told, unsaved, missed, mixed, acts, odd>>

FetchFails(p, k) ==
  /\ Odd /\ missed' = missed \cup {p}
  /\ loader' = [loader EXCEPT ![p].fetching = RemoveAt(@, k)]
  /\ UNCHANGED <<opened, truth, asked, pushed, entries, stored, told, unsaved, mixed, acts>>

NerdsNext ==
  \/ \E w \in Window, kind \in Kind : Act(w, kind)
  \/ \E r \in asked, saves \in BOOLEAN : RecordTrace(r, saves)
  \/ ClearTrace \/ HearPush \/ RunNow
  \/ \E w \in Window : HearStorage(w)
  \/ \E p \in Fetched : TimerFires(p) \/ \E k \in DOMAIN loader[p].fetching :
                        Serve(p, k) \/ Show(p, k) \/ FetchFails(p, k)

NerdsSpec == NerdsInit /\ [][NerdsNext]_nerdsVars
-----------------------------------------------------------------------------
(* NerdsPage.tsx, "Re-verify after every change", RunsTab.tsx, "Any /lab   *)
(* trace entry means a new run may exist", and trace.ts, "a nerds tab sees *)
(* what a devices tab does": when nothing is under way any more, all tabs  *)
(* whose storage works have the same trace, the checks of the last state   *)
(* have been shown (an older answer may have come after them), and so have *)
(* the runs if only experiments were traced, whatever overtook what and    *)
(* although one tab's save replaces another's.                             *)
Idle(p) == ~loader[p].timer /\ loader[p].fetching = <<>> /\ p \notin missed
TraceReaches ==
  told = {} /\ asked = {} /\ ~pushed =>
    /\ \A w \in Window \ unsaved : entries[w] = stored
    /\ Idle("checks") => loader["checks"].newest = truth["checks"]
    /\ Idle("runs") /\ opened = "runs" /\ ~mixed => loader["runs"].newest = truth["runs"]
=============================================================================
