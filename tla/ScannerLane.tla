---------------------------- MODULE ScannerLane -----------------------------
(***************************************************************************)
(* One lane's acquisition process: it is composed from its environment     *)
(* (AcquisitionStartup), reads the scanner over the path its environment   *)
(* names (DicosFolder or FrameGrabber), dies and is started again.         *)
(***************************************************************************)
EXTENDS AcquisitionStartup, DicosFolder, FrameGrabber

CONSTANTS Environments  \* environments the process is started in

ASSUME EnvironmentsAssumption == Environments \subseteq Environment

VARIABLES env,          \* this lane's environment; never changes
          running       \* the process has been composed and is connected

laneVars == <<env, running, folderVars, grabVars>>

LaneInit == /\ env \in Environments /\ running = FALSE
            /\ FolderInit /\ GrabInit

\* The supervisor starts the process; one that cannot be composed is gone again.
Boot == /\ ~running /\ Boots(env)
        /\ running' = TRUE
        /\ UNCHANGED <<env, folderVars, grabVars>>

\* The scanner at its end of the path, and the driver at this one.
Scanner(f) == /\ env.driver = "dicos"
              /\ Create(f) \/ Finish(f)
              /\ UNCHANGED <<env, running, grabVars>>

Display == /\ env.driver = "framegrab"
           /\ \E p \in Pictures : Show(p)
           /\ UNCHANGED <<env, running, folderVars>>

Read(r) == /\ running /\ env.driver = "dicos"
           /\ ReadFolder(r, env.library)
           /\ UNCHANGED <<env, running, grabVars>>

Watch == /\ running /\ env.driver = "framegrab"
         /\ Grab
         /\ UNCHANGED <<env, running, folderVars>>

Glitch == /\ running /\ env.driver = "framegrab"
          /\ GrabFails
          /\ UNCHANGED <<env, running, folderVars>>

\* The process dies.
Crash == /\ running /\ mishaps < MaxMishaps
         /\ running' = FALSE /\ mishaps' = mishaps + 1
         /\ FolderCrash
         /\ fsm' = "off" /\ window' = <<>> /\ looked' = 0 /\ still' = 0
         /\ shot' = NoShot
         /\ UNCHANGED <<env, shown, rested, glitches>>

LaneNext == \/ Boot \/ Display \/ Watch \/ Glitch \/ Crash
            \/ \E f \in Files : Scanner(f)
            \/ \E r \in Readers : Read(r)

LaneSpec == LaneInit /\ [][LaneNext]_laneVars

\* The scanner completes its files, the supervisor starts the process again, and
\* the process goes on reading: its threads run, and a read's frames come at
\* grab_fps.
LaneFairness == /\ WF_laneVars(Boot) /\ WF_laneVars(Watch)
                /\ \A f \in Files : WF_laneVars(folder[f] = "partial" /\ Scanner(f))
                /\ \A r \in Readers : WF_laneVars(Read(r))

FairLaneSpec == LaneSpec /\ LaneFairness
-----------------------------------------------------------------------------
\* LaneTypeOK: the type invariant.
LaneTypeOK ==
  /\ env \in Environments /\ running \in BOOLEAN
  /\ folder \in [Files -> {"absent", "partial", "whole", "done"}]
  /\ at \in [Readers -> {"out", "poll", "lock", "decode", "move"}]
  /\ lock \in Readers \cup {Nil}
  /\ \A p \in {listed, group, unmoved, frames} : p \in [Readers -> SUBSET Files]
  /\ emitted \in [Files -> Nat] /\ stayed \in [Files -> Nat]
  /\ malformed \subseteq Files /\ orphaned \subseteq Files
  /\ fsm \in {"off", "WAITING", "SCANNING", "STABLE"} /\ window \in Seq(Pictures)
  /\ looked \in 0 .. Deadline /\ still \in 0 .. StableFrames + 1

\* FilesLeave: every completed file gets out of the folder, malformed or not, two
\* reads at a time or one, unless one is there that makes read_scan raise what it
\* does not catch: "so we don't loop forever" (DICOSDriver._try_ingest).
FilesLeave ==
  Boots(env) /\ env.library =>
    \A f \in Files : folder[f] = "whole" ~>
      folder[f] = "done" \/ \E g \in Present : Header[g].decodes = "other"

\* RestIsCaptured: a new picture on the display is captured once at least, if it
\* stays: neither a read that was under way when it came, nor one that timed out,
\* failed or died with the process, nor one that began when its object had already
\* stopped, makes it be missed (FrameGrabDriver.read_scan).
RestIsCaptured ==
  Boots(env) /\ env.driver = "framegrab" =>
    \A p \in Pictures \ {Empty} :
      (shown = p /\ ~rested) ~> (shown # p \/ (rested /\ shot = p))
-----------------------------------------------------------------------------
(* Statements of the sources that the code does not keep.                  *)

\* BadFilesLeave: "Move bad files to done so we don't loop forever"
\* (dicos.py:322).
BadFilesLeave == Boots(env) /\ env.library =>
  \A f \in Files : folder[f] = "whole" ~> folder[f] = "done"

\* BootedCanDecode: "If driver_type is vendor_sdk or dicos and the respective
\* library is not installed, build_acquisition_pipeline() raises immediately"
\* (composition.py:28-29).
BootedCanDecode == running => env.library

\* BootedCanStore: "Raises on any misconfiguration so the process fails fast
\* rather than running with a broken seam" (composition.py:200-201): the image
\* store of a running process has something that encrypts.
BootedCanStore == running => StoreEncryptor(env) = "AesGcmEncryptor"

\* OneKeyOpensTheStore: the key of a running acquisition process opens the image
\* store for the processes that read it ("64-hex-char AES-256 key",
\* acquisition/README.md:122).
OneKeyOpensTheStore == running => OpensStore(env)
=============================================================================
