------------------------------ MODULE MCPages ------------------------------
(***************************************************************************)
(* Small instances of what the pages of the web client show, for TLC.  A   *)
(* tab shows one page, chosen at the start: an account's devices           *)
(* (Realtime), the simulation, the stepper, one of its lessons, a schedule *)
(* of the Theory tab, the stats for nerds, or a story.  What the other     *)
(* pages would do stays as it was.                                         *)
(***************************************************************************)
EXTENDS Realtime, ControlRoom, StepperPage, TimestampOrdering, Precedence, Scenarios,
        NerdsPage, StoryPage

VARIABLE tab      \* the page that is open

pageVars == <<tab, vars, simVars, stepperVars, toVars, lessonVars, nerdsVars, storyVars>>

(* Three chapters, the last one too low to be scrolled to its top. *)
ChapterTops == <<0, 3, 5>>

PagesInit ==
  /\ tab \in {"account", "sim", "stepper", "theory", "lessons", "nerds", "story"}
  /\ Init /\ SimInit /\ StepperInit /\ ToInit /\ LessonInit /\ NerdsInit /\ StoryInit
  /\ thomas => tab = "theory"
  /\ tab # "lessons" => lesson = "RACE_TXN_RR" /\ guided
  /\ tab # "nerds" => opened = "trace"
  /\ tab # "story" => hashes = <<NoChapter>> /\ reducedMotion

OnAccount(A) == tab = "account" /\ A
  /\ UNCHANGED <<tab, simVars, stepperVars, toVars, lessonVars, nerdsVars, storyVars>>
OnSim(A) == tab = "sim" /\ A
  /\ UNCHANGED <<tab, vars, stepperVars, toVars, lessonVars, nerdsVars, storyVars>>
OnStepper(A) == tab = "stepper" /\ A
  /\ UNCHANGED <<tab, vars, simVars, toVars, lessonVars, nerdsVars, storyVars>>
OnTheory(A) == tab = "theory" /\ A
  /\ UNCHANGED <<tab, vars, simVars, stepperVars, lessonVars, nerdsVars, storyVars>>
OnLesson(A) == tab = "lessons" /\ A
  /\ UNCHANGED <<tab, vars, simVars, stepperVars, toVars, nerdsVars, storyVars>>
OnNerds(A) == tab = "nerds" /\ A
  /\ UNCHANGED <<tab, vars, simVars, stepperVars, toVars, lessonVars, storyVars>>
OnStory(A) == tab = "story" /\ A
  /\ UNCHANGED <<tab, vars, simVars, stepperVars, toVars, lessonVars, nerdsVars>>

PagesNext ==
  \/ OnAccount(Next) \/ OnSim(SimPageNext) \/ OnStepper(StepperNext) \/ OnTheory(ToNext)
  \/ OnLesson(LessonNext) \/ OnNerds(NerdsNext) \/ OnStory(StoryNext)

(* What the server, the network and the page have begun is finished. *)
PagesSpec ==
  /\ PagesInit /\ [][PagesNext]_pageVars
  /\ WF_pageVars(OnAccount(Work) \/ OnSim(PageSteps))

(* precedenceGraph, for the schedule typed so far: "reports whether the    *)
(* schedule is conflict-serializable (and an equivalent serial order, or   *)
(* the cycle that makes it non-serializable)".                             *)
VerdictRight == tab = "theory" => ReportsTruth([k \in DOMAIN steps |-> steps[k].op])
=============================================================================
