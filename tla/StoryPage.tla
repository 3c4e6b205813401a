----------------------------- MODULE StoryPage -----------------------------
(***************************************************************************)
(* A page told in chapters (components/story, lib/story and App's Page):   *)
(* the chapter that the page shows as current follows the scroll position, *)
(* the URL's hash follows the chapter 300 ms later, and jumps, Back and    *)
(* Forward scroll to the chapter of the hash.                              *)
(*                                                                         *)
(* The browser is external: it scrolls at once or in steps, and fires a    *)
(* frame after the position has changed.                                   *)
(***************************************************************************)
EXTENDS Integers, Sequences

CONSTANTS
  Top,          \* chapter -> its position
  Bottom,       \* max, where scrolling ends
  Line,         \* how far below the bar a chapter becomes the current one
  MaxEntries,   \* bound: entries of the history
  MaxMoves      \* bound: what the user does

Chapter == DOMAIN Top

(* The chapters' heights (60svh at least), so that one jumped to is the    *)
(* current one.                                                            *)
ASSUME StoryAssumption ==
  /\ Top \in Seq(Nat) /\ Len(Top) > 0 /\ Top[1] = 0
  /\ \A c, d \in Chapter : c < d => Top[c] + Line < Top[d] /\ Top[c] < Bottom
  /\ {Bottom, Line, MaxEntries, MaxMoves} \subseteq Nat

NoWhere == -1
NoChapter == 0       \* no hash

VARIABLES
  reducedMotion,
  at,         \* window.scrollY
  goal,       \* where a smooth scroll is going
  framed,     \* scrollBus has asked for a frame
  active,     \* the current chapter
  writing,    \* the chapter that writeHash waits to write
  hashes, here,   \* the page's history entries, and which one is shown
  mounted,
  remembered, \* scrollMemory for this page
  pressedRun, \* a button was pressed whose result is in the last chapter
  toast,      \* "Jumped to your result": where Back to setup goes
  strayed,    \* the hash was left as it was (see HashFollows)
  moves

storyVars == <<reducedMotion, at, goal, framed, active, writing, hashes, here, mounted,
               remembered, pressedRun, toast, strayed, moves>>

(* scrollIntoView stops where the page ends. *)
Place(c) == IF Top[c] > Bottom THEN Bottom ELSE Top[c]
HashPlace(c) == IF c = NoChapter THEN 0 ELSE Place(c)

(* Page: to what was remembered, to the hash, or to the top. *)
StoryInit ==
  /\ reducedMotion \in BOOLEAN
  /\ \E c \in Chapter \cup {NoChapter} : hashes = <<c>> /\ at = HashPlace(c)
  /\ here = 1 /\ goal = NoWhere /\ framed = TRUE /\ active = 1 /\ writing = NoChapter
  /\ mounted = TRUE /\ remembered = NoWhere /\ pressedRun = FALSE /\ toast = NoWhere
  /\ strayed = FALSE /\ moves = 0

Touches == moves < MaxMoves /\ moves' = moves + 1
-----------------------------------------------------------------------------
(* activeChapter: the last one whose top has crossed the line. *)
ActiveAt(y) ==
  IF y = Bottom THEN Len(Top)
  ELSE CHOOSE c \in Chapter : Top[c] <= y + Line /\ \A d \in Chapter : Top[d] <= y + Line => d <= c

(* A jump adds an entry, after those that are left behind; scrolling does  *)
(* not.                                                                    *)
replaceHash(c) == [hashes EXCEPT ![here] = c]
pushHash(c) == Append(SubSeq(hashes, 1, here), c)

(* The browser scrolls to y. *)
ScrollTo(y) ==
  IF reducedMotion THEN at' = y /\ goal' = NoWhere /\ framed' = (framed \/ y # at)
  ELSE goal' = (IF y = at THEN NoWhere ELSE y) /\ UNCHANGED <<at, framed>>

SmoothStep ==
  /\ mounted /\ goal # NoWhere
  /\ at' = IF goal > at THEN at + 1 ELSE at - 1
  /\ goal' = IF at' = goal THEN NoWhere ELSE goal
  /\ framed' = TRUE
  /\ UNCHANGED <<reducedMotion, active, writing, hashes, here, mounted, remembered, pressedRun,
                 toast, strayed, moves>>

(* Story's callback, once per frame; at the top the hash is not touched.   *)
Frame ==
  /\ mounted /\ framed /\ framed' = FALSE
  /\ active' = ActiveAt(at)
  /\ LET changed == active' # active IN
     /\ writing' = IF changed /\ at > 0 THEN active' ELSE writing
     /\ strayed' = (strayed \/ (changed /\ at = 0))
  /\ UNCHANGED <<reducedMotion, at, goal, hashes, here, mounted, remembered, pressedRun, toast, moves>>

(* debounce: 300 ms after the last change of chapter; replaceHash. *)
WriteHash ==
  /\ mounted /\ writing # NoChapter /\ writing' = NoChapter
  /\ hashes' = replaceHash(writing)
  /\ strayed' = (writing # active)
  /\ UNCHANGED <<reducedMotion, at, goal, framed, active, here, mounted, remembered, pressedRun,
                 toast, moves>>
-----------------------------------------------------------------------------
(* The user scrolls, at most once per frame, and so stops a jump under way. *)
UserScrolls(y) ==
  /\ mounted /\ ~framed /\ Touches /\ y # at
  /\ at' = y /\ goal' = NoWhere /\ framed' = TRUE /\ pressedRun' = FALSE
  /\ strayed' = (strayed \/ goal # NoWhere)
  /\ UNCHANGED <<reducedMotion, active, writing, hashes, here, mounted, remembered, toast>>

(* goTo: an entry for the chapter, unless told not to, and a scroll to it. *)
GoTo(c, push) ==
  /\ ScrollTo(Place(c))
  /\ hashes' = IF push THEN pushHash(c) ELSE hashes
  /\ here' = IF push THEN here + 1 ELSE here
  /\ strayed' = IF push THEN FALSE ELSE strayed
  /\ Len(hashes') <= MaxEntries

(* The rail, the palette, a link to a chapter. *)
Jump(c) ==
  /\ mounted /\ Touches /\ pressedRun' = FALSE /\ GoTo(c, TRUE)
  /\ UNCHANGED <<reducedMotion, active, writing, mounted, remembered, toast>>

(* Alt and an arrow, the Next button. *)
Step(d) ==
  LET c == active + d IN Jump(IF c < 1 THEN 1 ELSE IF c > Len(Top) THEN Len(Top) ELSE c)

PressRun ==
  /\ mounted /\ ~pressedRun /\ Touches /\ pressedRun' = TRUE
  /\ UNCHANGED <<reducedMotion, at, goal, framed, active, writing, hashes, here, mounted,
                 remembered, toast, strayed>>

(* autoAdvance: nothing was touched since, within 10 s, and less than half *)
(* of the result is on the screen.                                         *)
ResultComes(late) ==
  LET c == Len(Top) IN
  /\ mounted /\ pressedRun /\ pressedRun' = FALSE
  /\ IF late \/ active = c THEN UNCHANGED <<at, goal, framed, hashes, here, toast, strayed>>
     ELSE toast' = at /\ GoTo(c, FALSE)
  /\ UNCHANGED <<reducedMotion, active, writing, mounted, remembered, moves>>

BackToSetup ==
  /\ mounted /\ toast # NoWhere /\ toast' = NoWhere
  /\ Touches /\ pressedRun' = FALSE /\ ScrollTo(toast)
  /\ strayed' = (strayed \/ goal # NoWhere \/ framed)
  /\ UNCHANGED <<reducedMotion, active, writing, hashes, here, mounted, remembered>>

ToastExpires ==
  /\ mounted /\ toast # NoWhere /\ toast' = NoWhere
  /\ UNCHANGED <<reducedMotion, at, goal, framed, active, writing, hashes, here, mounted,
                 remembered, pressedRun, strayed, moves>>

(* Faulty: Back and Forward change the hash only. *)
TraverseOnly(d) ==
  /\ mounted /\ Touches /\ here + d \in DOMAIN hashes /\ here' = here + d /\ strayed' = FALSE
  /\ UNCHANGED <<reducedMotion, at, goal, framed, active, writing, hashes, mounted, remembered,
                 pressedRun, toast>>

(* Back or Forward within the page: popstate. *)
Traverse(d) ==
  /\ mounted /\ Touches /\ here + d \in DOMAIN hashes /\ here' = here + d
  /\ ScrollTo(HashPlace(hashes[here']))
  /\ strayed' = FALSE
  /\ UNCHANGED <<reducedMotion, active, writing, hashes, mounted, remembered, pressedRun, toast>>

(* To another page: the position is remembered, what waits is cancelled. *)
Leave ==
  /\ mounted /\ Touches /\ mounted' = FALSE
  /\ remembered' = at /\ writing' = NoChapter /\ framed' = FALSE /\ goal' = NoWhere
  /\ toast' = NoWhere /\ pressedRun' = FALSE
  /\ hashes' = SubSeq(hashes, 1, here)
  /\ strayed' = (strayed \/ writing # NoChapter \/ goal # NoWhere \/ framed)
  /\ UNCHANGED <<reducedMotion, at, active, here>>

(* Back to this page: a new Story, where it was left. *)
Return ==
  /\ ~mounted /\ mounted' = TRUE
  /\ at' = remembered /\ active' = 1 /\ framed' = TRUE
  /\ UNCHANGED <<reducedMotion, goal, writing, hashes, here, remembered, pressedRun, toast,
                 strayed, moves>>

StoryNext ==
  \/ SmoothStep \/ Frame \/ WriteHash
  \/ \E y \in 0..Bottom : UserScrolls(y)
  \/ \E c \in Chapter : Jump(c)
  \/ \E d \in {-1, 1} : Step(d) \/ Traverse(d)
  \/ PressRun \/ BackToSetup \/ ToastExpires \/ Leave \/ Return
  \/ \E late \in BOOLEAN : ResultComes(late)

StorySpec == StoryInit /\ [][StoryNext]_storyVars
-----------------------------------------------------------------------------
(* Story.tsx:1, "hash sync": once scrolling and the write have settled,    *)
(* the hash of the entry that is shown names the current chapter, whatever *)
(* jumps, Backs and pending writes came in between, unless the page is at  *)
(* the top, or the hash was left: the chapter changed at the very top, the *)
(* user stopped a jump, or the page was left before the write.             *)
StorySettled == mounted /\ ~framed /\ goal = NoWhere /\ writing = NoChapter
HashFollows == StorySettled /\ at > 0 /\ ~strayed =>
  \/ hashes[here] = active
  \/ hashes[here] = NoChapter /\ active = 1
=============================================================================
