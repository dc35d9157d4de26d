---------------------------- MODULE FrameGrabber ----------------------------
(***************************************************************************)
(* The frame grabber of acquisition/framegrab.py: read_scan watches the    *)
(* scanner's display through a window of its last frames and returns a     *)
(* picture once the display has come to rest.                              *)
(*                                                                         *)
(* A frame is the picture it shows; two different ones are Contrast apart, *)
(* in mean absolute pixel difference, and noise is below the threshold.    *)
(***************************************************************************)
EXTENDS SequencesExt

CONSTANTS Pictures,     \* what the display can show
          Empty,        \* the one it shows when the belt is empty
          NoShot,
          StableFrames, \* grab_stable_frames
          Thresh,       \* grab_stable_thresh
          Contrast,
          Deadline,     \* bound: frames a read looks at before it times out
          MaxGlitches   \* bound: reads that fail

ASSUME PicturesAssumption == Empty \in Pictures /\ NoShot \notin Pictures
ASSUME WindowAssumption == /\ StableFrames \in Nat \ {0, 1} /\ Thresh \in Nat
                           /\ Contrast \in Nat /\ Deadline > StableFrames

VARIABLES shown,        \* the picture on the display
          fsm,          \* state of the running read_scan, or "off"
          window,       \* _FrameWindow
          looked,       \* frames this read has looked at
          still,        \* how many frames in a row were alike, this read's last
          shot,         \* the picture returned last, until the next read begins
          rested,       \* the display has not changed since a picture was returned
          glitches

grabVars == <<shown, fsm, window, looked, still, shot, rested, glitches>>

\* push: the oldest frame makes room for the newest.
Push(w, p) == IF Len(w) < StableFrames THEN Append(w, p) ELSE Append(Tail(w), p)

Changes(w) == Cardinality({i \in 2 .. Len(w) : w[i] # w[i - 1]})

\* mean_diff() > grab_stable_thresh; the difference of one frame is 255.
Differs(w) == IF Len(w) < 2 THEN 255 > Thresh
                            ELSE Contrast * Changes(w) > Thresh * (Len(w) - 1)

\* Mutant: full is taken for more frames than push ever keeps.
IsFullBeyond(w) == Len(w) > StableFrames

IsFull(w) == Len(w) >= StableFrames

\* median_frame, pixel by pixel: the picture most frames show.  Where none does,
\* pictures blend.
Median(w) == LET shows(p) == Cardinality({i \in DOMAIN w : w[i] = p})
                 most == {p \in Pictures : 2 * shows(p) > Len(w)}
             IN  IF most = {} THEN "blend" ELSE CHOOSE p \in most : TRUE

\* Mutant: a window that is not full will do.
NextStateEarly(s, w) ==
  CASE s \in {"WAITING", "STABLE"} /\ Differs(w) -> "SCANNING"
    [] s = "SCANNING" /\ ~Differs(w) -> "STABLE"
    [] s = "STABLE" /\ ~Differs(w) -> "CAPTURED"
    [] OTHER -> s

\* The capture state machine.  CAPTURED returns at once, so what follows it in the
\* code is never run.
NextState(s, w) ==
  IF s \in {"WAITING", "STABLE"} /\ Differs(w) THEN "SCANNING"
  ELSE IF s = "SCANNING" /\ IsFull(w) /\ ~Differs(w) THEN "STABLE"
  ELSE IF s = "STABLE" /\ IsFull(w) /\ ~Differs(w) THEN "CAPTURED"
  ELSE s
-----------------------------------------------------------------------------
GrabInit == /\ shown = Empty /\ fsm = "off" /\ window = <<>> /\ looked = 0
            /\ still = 0 /\ shot = NoShot /\ rested = FALSE /\ glitches = 0

\* The display changes.
Show(p) == /\ p # shown
           /\ shown' = p /\ rested' = FALSE
           /\ UNCHANGED <<fsm, window, looked, still, shot, glitches>>

\* read_scan begins afresh.
CallGrab == /\ fsm = "off"
            /\ fsm' = "WAITING" /\ window' = <<>> /\ looked' = 0 /\ still' = 0
            /\ shot' = NoShot
            /\ UNCHANGED <<shown, rested, glitches>>

StopLooking == fsm' = "off" /\ window' = <<>> /\ looked' = 0

\* One turn of the loop: the next frame goes through the state machine; the turn
\* that captures returns the median of the window.
Look == /\ fsm # "off" /\ looked < Deadline
        /\ LET w == Push(window, shown)
               s == NextState(fsm, w)
           IN  /\ still' = IF window # <<>> /\ Last(window) = shown
                             THEN Min({still + 1, StableFrames + 1}) ELSE 1
               /\ IF s = "CAPTURED"
                    THEN shot' = Median(w) /\ rested' = TRUE /\ StopLooking
                    ELSE /\ fsm' = s /\ window' = w /\ looked' = looked + 1
                         /\ UNCHANGED <<shot, rested>>
        /\ UNCHANGED <<shown, glitches>>

\* The deadline has passed.
GrabExpire == /\ fsm # "off" /\ looked = Deadline
              /\ StopLooking
              /\ UNCHANGED <<shown, still, shot, rested, glitches>>

\* The grabber returns no frame, or is no longer open.
GrabFails == /\ fsm # "off" /\ glitches < MaxGlitches
             /\ glitches' = glitches + 1
             /\ StopLooking
             /\ UNCHANGED <<shown, still, shot, rested>>

Grab == CallGrab \/ Look \/ GrabExpire
-----------------------------------------------------------------------------
\* CaptureIsSettled: on a display whose changes show, a picture is returned only
\* when the last StableFrames + 1 frames of this read all showed it: no picture is
\* a mix of two, or left over from an earlier read (read_scan, median_frame).
CaptureIsSettled ==
  [][shot' # NoShot /\ shot = NoShot /\ Contrast > Thresh * (StableFrames - 1) =>
       still' = StableFrames + 1 /\ shot' = shown]_grabVars
-----------------------------------------------------------------------------
(* Statements of the sources that the code does not keep.                  *)

\* OneCapturePerRest: "CAPTURED -> best stable frame grabbed; waiting for display
\* to change again" (framegrab.py:39): a display that has not changed is not
\* captured twice.
OneCapturePerRest == [][shot = NoShot /\ shot' # NoShot => ~rested]_grabVars

\* EmptyBeltIsNotAScan: "WAITING -> conveyor is empty / scanner idle"
\* (framegrab.py:36): an empty belt is waited on.
EmptyBeltIsNotAScan == shot # Empty

\* CaptureWasShown: "The stable frame is the median of the stable window (reduces
\* noise from brief display redraws)" (framegrab.py:41-42): it is a picture that was
\* shown.
CaptureWasShown == shot \in Pictures \cup {NoShot}
=============================================================================
