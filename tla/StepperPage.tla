---------------------------- MODULE StepperPage ----------------------------
(***************************************************************************)
(* The Stepper tab (StepperTab.tsx) and the engine it drives: requests to  *)
(* step, kill and load, answers that come at once, after 300 ms or too     *)
(* late to matter, and the outcomes pushed over the socket.  One of the    *)
(* two transactions is modelled (the tab keeps them apart) and a statement *)
(* is just something that settles; Stepper has the locks and connections.  *)
(* Pushes come in order; an answer may be overtaken, or overtake.          *)
(***************************************************************************)
EXTENDS Integers, Sequences, SequencesExt

CONSTANTS
  MaxRequests,    \* bound: requests of the tab
  MaxUnheard      \* bound: pushes lost while the socket is down

ASSUME StepperPageAssumption == {MaxRequests, MaxUnheard} \subseteq Nat

Steps == 1 .. 2     \* the statements of the script

VARIABLES
  script,     \* the engine's TxnRuntime: results, cursor, busy, killed; generation, loads
  running,    \* the statements sent to MySQL and not settled
  asks,       \* the tab's requests the server has not handled, in order
  post,       \* answers and pushes under way to the tab, as they were sent
  mirror,     \* the tab: its StepperStateView and busy flag, and whether it can be wrong
              \* because it missed something or heard something stale (astray)
  requested, unheard

stepperVars == <<script, running, asks, post, mirror, requested, unheard>>

AllPending == [k \in Steps |-> "PENDING"]
Unstarted == [results |-> AllPending, busy |-> FALSE, killed |-> FALSE, cursor |-> 0]
ViewOf(s) == [results |-> s.results, busy |-> s.busy, killed |-> s.killed, cursor |-> s.cursor]

StepperInit ==
  /\ script = [results |-> AllPending, busy |-> FALSE, killed |-> FALSE, cursor |-> 0,
               generation |-> 0, loaded |-> FALSE, loading |-> FALSE]
  /\ running = {} /\ asks = <<>> /\ post = <<>>
  /\ mirror = [loaded |-> FALSE, view |-> Unstarted, busy |-> FALSE, astray |-> FALSE]
  /\ requested = 0 /\ unheard = 0

(* What is sent to the tab: pushes over the socket, answers over HTTP.     *)
(* Stale is an answer about a transaction that a load ended meanwhile, and *)
(* what arrives after something sent later, or after that was missed.      *)
UpdateOf(k, status) == [kind |-> "update", step |-> k, status |-> status, stale |-> FALSE]
KilledUpdate == [kind |-> "killed", stale |-> FALSE]
StepAnswer(k, status, stale) == [kind |-> "answer", step |-> k, status |-> status, stale |-> stale]
ViewAnswer(s) == [kind |-> "view", view |-> ViewOf(s), stale |-> FALSE]
ErrorAnswer(of, stale) == [kind |-> "error", of |-> of, stale |-> stale]

IsPush(m) == m.kind \in {"update", "killed"}
SendTab(m) == post' = Append(post, m)
Aged(messages) == [k \in DOMAIN messages |-> [messages[k] EXCEPT !.stale = TRUE]]
-----------------------------------------------------------------------------
(* The buttons.  Step stays pressable while its request is under way; Kill *)
(* and Load set the tab's own busy flag until they are answered.           *)
AskFor(kind) ==
  /\ requested < MaxRequests
  /\ requested' = requested + 1 /\ asks' = Append(asks, kind)
  /\ UNCHANGED <<script, running, post, unheard>>

PressStep ==
  /\ mirror.loaded /\ ~mirror.busy /\ ~mirror.view.killed /\ ~mirror.view.busy
  /\ mirror.view.cursor < Len(mirror.view.results)
  /\ AskFor("step") /\ UNCHANGED mirror

PressKill ==
  /\ mirror.loaded /\ ~mirror.busy /\ ~mirror.view.killed
  /\ AskFor("kill") /\ mirror' = [mirror EXCEPT !.busy = TRUE]

(* Load, or Reset: it loads the same scenario again. *)
PressLoad ==
  /\ ~mirror.busy
  /\ AskFor("load") /\ mirror' = [mirror EXCEPT !.busy = TRUE]
-----------------------------------------------------------------------------
(* The routes: a request is handled, or answered with an error (400, also  *)
(* when the KILL itself fails, or 409 while another session holds the      *)
(* stepper's named lock).                                                  *)
NextRequest == Head(asks)
RequestTaken == asks # <<>> /\ ~script.loading /\ asks' = Tail(asks)

Refusable ==
  \/ NextRequest = "step" /\ (script.killed \/ script.busy \/ script.cursor = Len(script.results))
  \/ NextRequest = "kill" /\ (script.killed \/ ~script.loaded)

RefuseRequest ==
  /\ RequestTaken /\ (Refusable \/ NextRequest # "step")
  /\ SendTab(ErrorAnswer(NextRequest, FALSE))
  /\ UNCHANGED <<script, running, mirror, requested, unheard>>

(* step: the statement is sent. *)
TakeStep ==
  /\ RequestTaken /\ NextRequest = "step" /\ ~Refusable
  /\ LET k == script.cursor + 1
     IN /\ script' = [script EXCEPT !.cursor = k, !.busy = TRUE, !.results[k] = "WAITING"]
        /\ running' = running \cup {[step |-> k, generation |-> script.generation, asked |-> TRUE]}
  /\ UNCHANGED <<post, mirror, requested, unheard>>

Current(s) == s.generation = script.generation

(* 300 ms are over: the answer is what the results show by then. *)
AnswerWaiting(s) ==
  /\ s \in running /\ s.asked
  /\ running' = (running \ {s}) \cup {[s EXCEPT !.asked = FALSE]}
  /\ SendTab(StepAnswer(s.step, script.results[s.step], ~(Current(s) /\ script.busy)))
  /\ UNCHANGED <<script, asks, mirror, requested, unheard>>

(* A push goes to whoever is connected; a tab that is not misses it. *)
Pushed(pushes, answers) ==
  \/ post' = post \o pushes \o answers /\ UNCHANGED <<mirror, unheard>>
  \/ /\ unheard < MaxUnheard /\ pushes # <<>>
     /\ unheard' = unheard + 1 /\ mirror' = [mirror EXCEPT !.astray = TRUE]
     /\ post' = Aged(post) \o answers

Told(s, status) ==
  Pushed(IF Current(s) THEN <<UpdateOf(s.step, status)>> ELSE <<>>,
         IF s.asked THEN <<StepAnswer(s.step, status, ~Current(s))>> ELSE <<>>)

(* Faulty: whatever settles, the transaction is no longer busy. *)
SettleAny(s, status) ==
  /\ s \in running
  /\ running' = running \ {s}
  /\ script' = [script EXCEPT !.busy = FALSE,
                  !.results[s.step] = IF Current(s) THEN status ELSE @]
  /\ Told(s, status)
  /\ UNCHANGED <<asks, requested>>

(* runStatement settles: results, push and answer, and busy is cleared,    *)
(* unless a newer script was loaded.                                       *)
SettleStep(s, status) ==
  /\ s \in running
  /\ running' = running \ {s}
  /\ script' = IF Current(s) THEN [script EXCEPT !.results[s.step] = status, !.busy = FALSE] ELSE script
  /\ Told(s, status)
  /\ UNCHANGED <<asks, requested>>

(* kill: the connection is gone, what was not begun is KILLED.  A running  *)
(* statement settles on its own.                                           *)
TakeKill ==
  /\ RequestTaken /\ NextRequest = "kill" /\ ~Refusable
  /\ script' = [script EXCEPT !.killed = TRUE,
                  !.results = [k \in Steps |-> IF k > script.cursor THEN "KILLED" ELSE @[k]]]
  /\ Pushed(<<KilledUpdate>>, <<ViewAnswer(script')>>)
  /\ UNCHANGED <<running, requested>>

(* load, under the lock: open transactions are ended (a statement that     *)
(* waits is killed and settles by itself) ...                              *)
TakeLoad ==
  /\ RequestTaken /\ NextRequest = "load"
  /\ script' = [script EXCEPT !.loading = TRUE, !.busy = FALSE]
  /\ UNCHANGED <<running, post, mirror, requested, unheard>>

(* ... the generation moves on and the new script is put in place ... *)
PutInPlace ==
  /\ script.loading
  /\ script' = [results |-> AllPending, busy |-> FALSE, killed |-> FALSE, cursor |-> 0,
                generation |-> script.generation + 1, loaded |-> TRUE, loading |-> FALSE]
  /\ SendTab(ViewAnswer(script'))
  /\ UNCHANGED <<running, asks, mirror, requested, unheard>>

(* ... or a query fails on the way, before or after the generation moved.  *)
LoadFails ==
  /\ script.loading
  /\ \E moved \in 0 .. 1 :
       script' = [script EXCEPT !.loading = FALSE, !.generation = @ + moved]
  /\ SendTab(ErrorAnswer("load", TRUE))
  /\ UNCHANGED <<running, asks, mirror, requested, unheard>>
-----------------------------------------------------------------------------
(* The tab: stepTxn's answer and mergeUpdate (the cursor stays as it is),  *)
(* the whole view after kill and load.  Nothing is merged before a load.   *)
WithResult(v, k, status, busy) == [v EXCEPT !.results[k] = status, !.busy = busy]

HeardView(v, m) ==
  CASE m.kind = "answer" -> WithResult(v, m.step, m.status, m.status = "WAITING")
    [] m.kind = "update" -> WithResult(v, m.step, m.status, FALSE)
    [] m.kind = "killed" -> [v EXCEPT !.killed = TRUE, !.busy = FALSE]
    [] m.kind = "view" -> m.view
    [] m.kind = "error" -> v

(* A whole view that is not stale puts right whatever went astray. *)
Heard(m) ==
  [loaded |-> mirror.loaded \/ m.kind = "view",
   view |-> IF mirror.loaded \/ m.kind = "view" THEN HeardView(mirror.view, m) ELSE mirror.view,
   busy |-> mirror.busy /\ m.kind # "view" /\ (m.kind = "error" => m.of = "step"),
   astray |-> m.stale \/ (mirror.astray /\ m.kind # "view")]

(* Message k arrives; a push does not overtake a push. *)
Hear(k) ==
  /\ IsPush(post[k]) => \A j \in 1 .. k - 1 : ~IsPush(post[j])
  /\ mirror' = Heard(post[k])
  /\ post' = Aged(SubSeq(post, 1, k - 1)) \o SubSeq(post, k + 1, Len(post))
  /\ UNCHANGED <<script, running, asks, requested, unheard>>

StepperNext ==
  \/ PressStep \/ PressKill \/ PressLoad
  \/ RefuseRequest \/ TakeStep \/ TakeKill \/ TakeLoad \/ PutInPlace \/ LoadFails
  \/ \E s \in running : AnswerWaiting(s) \/ \E status \in {"DONE", "ERROR"} : SettleStep(s, status)
  \/ \E k \in DOMAIN post : Hear(k)

StepperPageSpec == StepperInit /\ [][StepperNext]_stepperVars
-----------------------------------------------------------------------------
(* "Stepper results arrive over the socket": once nothing is under way, a  *)
(* tab that heard everything in turn shows what the engine has, the        *)
(* results, whether the transaction waits and whether it was killed,       *)
(* however often it was killed and loaded anew while statements ran.       *)
Settled == asks = <<>> /\ post = <<>> /\ ~script.loading /\ \A s \in running : ~s.asked
QuietMeansSame ==
  mirror.loaded /\ ~mirror.astray /\ Settled =>
    /\ mirror.view.results = script.results
    /\ mirror.view.busy = script.busy /\ mirror.view.killed = script.killed
=============================================================================
