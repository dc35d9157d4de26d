---------------------------- MODULE DicosFolder -----------------------------
(***************************************************************************)
(* The hot folder of acquisition/dicos.py: a scanner writes files into it, *)
(* read_scan polls it, takes the first study whose files have stopped      *)
(* growing, decodes them, moves them to the done directory and returns     *)
(* their frames.  More than one thread can be inside read_scan: the        *)
(* watchdog gives up a read that hangs and starts another.  library:       *)
(* pydicom is installed, which is found out when a file is read.           *)
(***************************************************************************)
EXTENDS Naturals, FiniteSetsExt

CONSTANTS Files,        \* the files, numbered in the order of their names
          Header,       \* per file: what its tags say and whether it decodes
          Readers,      \* threads
          Nil,          \* no study, and no thread
          MaxMishaps    \* bound: stalled writes, failed moves and crashes

\* study: its Study UID, or Nil.  energy: what ImageType says.  deep: more than
\* 8 bits.  dicos: a DICOS SOP class.  dcm: the extension.  decodes: what
\* _dcm_to_raw_frame makes of it.
ASSUME FilesAssumption ==
  /\ Files \subseteq Nat /\ IsFiniteSet(Files) /\ Nil \notin Readers
  /\ \A f \in Files : Header[f].decodes \in {"frame", "malformed", "other"}
ASSUME MishapsAssumption == MaxMishaps \in Nat

VARIABLES folder,       \* per file: "absent", "partial", "whole" or "done"
          at,           \* per thread: where it stands in read_scan
          listed,       \* per thread: paths
          group,        \* per thread: group_paths
          unmoved,      \* per thread: those of group_paths it has yet to move
          frames,       \* per thread: the files whose frames it has
          lock,         \* self._lock
          emitted,      \* per file: bundles returned with its frame
          stayed,       \* per file: failed moves
          malformed,    \* files found malformed
          orphaned,     \* files moved by a read that never returned
          mishaps

scan == <<listed, group, unmoved, frames>>
history == <<emitted, stayed, malformed, orphaned>>
folderVars == <<folder, at, scan, lock, history, mishaps>>

Present == {f \in Files : folder[f] \in {"partial", "whole"}}

\* glob("*.dcm"), and the other extensions if there is none.
Glob == LET dcm == {f \in Present : Header[f].dcm}
        IN  IF dcm # {} THEN dcm ELSE Present

\* _frame_label_from_image_type
FrameLabel(f) == CASE Header[f].energy = "high" -> "high_energy"
                   [] Header[f].energy = "low" -> "low_energy"
                   [] OTHER -> "composite"

\* metadata.is_raw_dual_energy, as _dcm_to_raw_frame declares it.
RawDualEnergy(f) == Header[f].deep /\ Header[f].dicos

\* Mutant: the settled files are one scan.
EverythingSettled(settled, readable) == settled

\* _group_by_study and "the first complete group": the files that share the
\* study of the first settled one.  All whose study cannot be read, or that have
\* none, are one group.
FirstGroup(settled, readable) ==
  LET uid(f) == IF f \in readable THEN Header[f].study ELSE Nil
  IN  {f \in settled : uid(f) = uid(Min(settled))}
-----------------------------------------------------------------------------
FolderInit ==
  /\ folder = [f \in Files |-> "absent"]
  /\ at = [r \in Readers |-> "out"] /\ lock = Nil
  /\ listed = [r \in Readers |-> {}] /\ group = [r \in Readers |-> {}]
  /\ unmoved = [r \in Readers |-> {}] /\ frames = [r \in Readers |-> {}]
  /\ emitted = [f \in Files |-> 0] /\ stayed = [f \in Files |-> 0]
  /\ malformed = {} /\ orphaned = {} /\ mishaps = 0

\* The scanner starts a file, and completes it.
Create(f) == /\ folder[f] = "absent"
             /\ folder' = [folder EXCEPT ![f] = "partial"]
             /\ UNCHANGED <<at, scan, lock, history, mishaps>>

Finish(f) == /\ folder[f] = "partial"
             /\ folder' = [folder EXCEPT ![f] = "whole"]
             /\ UNCHANGED <<at, scan, lock, history, mishaps>>

\* read_scan is called.
CallReadScan(r) == /\ at[r] = "out"
                   /\ at' = [at EXCEPT ![r] = "poll"]
                   /\ UNCHANGED <<folder, scan, lock, history, mishaps>>

\* Nothing to return yet: on with the loop, or the deadline has passed and
\* ScannerTimeoutError is raised.
Wait(r) == \E next \in {"poll", "out"} : at' = [at EXCEPT ![r] = next]

Poll(r) == /\ at[r] = "poll"
           /\ IF Glob = {}
                THEN Wait(r) /\ UNCHANGED listed
                ELSE /\ at' = [at EXCEPT ![r] = "lock"]
                     /\ listed' = [listed EXCEPT ![r] = Glob]
           /\ UNCHANGED <<folder, group, unmoved, frames, lock, history, mishaps>>

\* Those of a thread's files that are still being written.
Growing(r) == {f \in listed[r] : folder[f] = "partial"}

\* A file looks settled when it keeps one size, above zero, for 0.3 s: it is
\* whole, or its writer has stalled.  It may have been moved since it was listed.
Settles(r, stalled, readable, library) ==
  LET whole == {f \in listed[r] : folder[f] = "whole"}
      settled == whole \cup stalled
  IN  /\ mishaps' = mishaps + Cardinality(stalled) /\ mishaps' <= MaxMishaps
      /\ IF settled = {}
           THEN Wait(r) /\ UNCHANGED <<group, lock>>
           ELSE /\ at' = [at EXCEPT ![r] = "decode"] /\ lock' = r
                /\ group' = [group EXCEPT
                              ![r] = FirstGroup(settled, IF library
                                                           THEN whole \cup readable
                                                           ELSE {})]
      /\ listed' = [listed EXCEPT ![r] = {}]
      /\ UNCHANGED <<folder, unmoved, frames, history>>

\* Mutant: the lock is not waited for.
SettleUnlocked(r, library) ==
  /\ at[r] = "lock"
  /\ \E stalled \in SUBSET Growing(r) : \E readable \in SUBSET stalled :
       Settles(r, stalled, readable, library)

\* _try_ingest takes the lock, sees which files have settled and groups them.
Settle(r, library) ==
  /\ at[r] = "lock" /\ lock = Nil
  /\ \E stalled \in SUBSET Growing(r) : \E readable \in SUBSET stalled :
       Settles(r, stalled, readable, library)

\* The read is over.
Leave(r) == /\ at' = [at EXCEPT ![r] = "out"]
            /\ group' = [group EXCEPT ![r] = {}]
            /\ frames' = [frames EXCEPT ![r] = {}]
            /\ lock' = Nil

\* An exception _try_ingest does not catch: nothing has been moved.
DecodeRaises(r, library) ==
  /\ at[r] = "decode"
  /\ library =>
       \E f \in group[r] : folder[f] = "whole" /\ Header[f].decodes = "other"
  /\ Leave(r)
  /\ UNCHANGED <<folder, listed, unmoved, history, mishaps>>

\* Mutant: a study without a single frame is left where it is.
DecodeOrSkip(r, library) ==
  LET good == {f \in group[r] : folder[f] = "whole" /\ Header[f].decodes = "frame"}
  IN  /\ at[r] = "decode" /\ library
      /\ \A f \in group[r] : folder[f] = "whole" => Header[f].decodes # "other"
      /\ frames' = [frames EXCEPT ![r] = good]
      /\ malformed' = malformed \cup (group[r] \ good)
      /\ unmoved' = [unmoved EXCEPT ![r] = IF good = {} THEN {} ELSE group[r]]
      /\ at' = [at EXCEPT ![r] = "move"]
      /\ UNCHANGED <<folder, listed, group, lock, emitted, stayed, orphaned, mishaps>>

\* _dcm_to_raw_frame on every file of the group: a malformed one is logged.
Decode(r, library) ==
  LET good == {f \in group[r] : folder[f] = "whole" /\ Header[f].decodes = "frame"}
  IN  /\ at[r] = "decode" /\ library
      /\ \A f \in group[r] : folder[f] = "whole" => Header[f].decodes # "other"
      /\ frames' = [frames EXCEPT ![r] = good]
      /\ malformed' = malformed \cup (group[r] \ good)
      /\ unmoved' = [unmoved EXCEPT ![r] = group[r]]
      /\ at' = [at EXCEPT ![r] = "move"]
      /\ UNCHANGED <<folder, listed, group, lock, emitted, stayed, orphaned, mishaps>>

\* _move_done of the next file; a failed move is logged and the file stays.
MoveDone(r) ==
  /\ at[r] = "move" /\ unmoved[r] # {}
  /\ LET f == Min(unmoved[r])
     IN  /\ unmoved' = [unmoved EXCEPT ![r] = @ \ {f}]
         /\ \/ /\ folder' = [folder EXCEPT ![f] = "done"]
               /\ UNCHANGED <<stayed, mishaps>>
            \/ /\ mishaps < MaxMishaps /\ mishaps' = mishaps + 1
               /\ stayed' = [stayed EXCEPT ![f] = @ + 1]
               /\ UNCHANGED folder
  /\ UNCHANGED <<at, listed, group, frames, lock, emitted, malformed, orphaned>>

\* The bundle is returned; without a frame, ScannerFrameError is raised.
ReturnBundle(r) ==
  /\ at[r] = "move" /\ unmoved[r] = {}
  /\ emitted' = [f \in Files |-> emitted[f] + IF f \in frames[r] THEN 1 ELSE 0]
  /\ Leave(r)
  /\ UNCHANGED <<folder, listed, unmoved, stayed, malformed, orphaned, mishaps>>

\* The process dies with what it had in hand.
FolderCrash ==
  /\ orphaned' = orphaned \cup
       {f \in UNION {frames[r] : r \in Readers} : folder[f] = "done"}
  /\ at' = [r \in Readers |-> "out"] /\ lock' = Nil
  /\ listed' = [r \in Readers |-> {}] /\ group' = [r \in Readers |-> {}]
  /\ unmoved' = [r \in Readers |-> {}] /\ frames' = [r \in Readers |-> {}]
  /\ UNCHANGED <<folder, emitted, stayed, malformed>>

ReadFolder(r, library) ==
  \/ CallReadScan(r) \/ Poll(r) \/ Settle(r, library)
  \/ DecodeRaises(r, library) \/ Decode(r, library)
  \/ MoveDone(r) \/ ReturnBundle(r)

WriteFolder == \E f \in Files : Create(f) \/ Finish(f)
-----------------------------------------------------------------------------
\* FilesAccounted: a file's frame is delivered twice only if the file could not
\* be moved, whichever threads are reading; a file in the done directory has been
\* delivered, found malformed, is in a thread's hands or was in those of a process
\* that died; and files of two studies are in one scan only if a stalled write hid
\* what study they belong to (_try_ingest).
FilesAccounted ==
  /\ \A f \in Files :
       /\ emitted[f] <= 1 + stayed[f]
       /\ folder[f] = "done" =>
            \/ emitted[f] > 0 \/ f \in malformed \cup orphaned
            \/ \E r \in Readers : at[r] = "move" /\ f \in group[r]
  /\ mishaps = 0 =>
       \A r \in Readers : at[r] = "move" =>
         \A f, g \in group[r] : Header[f].study = Header[g].study
-----------------------------------------------------------------------------
(* Statements of the sources that the code does not keep.                  *)

\* StudiesAreWhole: "Dual-channel scans (high + low energy, same Study UID) wait
\* for both files to appear before emitting" (dicos.py:235-236).
StudiesAreWhole ==
  \A r \in Readers : at[r] = "move" =>
    \A f \in group[r], g \in Files :
      Header[f].study = Header[g].study /\ Header[f].study # Nil => g \in group[r]

\* DualEnergyHasTwoChannels: is_raw_dual_energy is "True only for SDK/DICOS
\* dual-energy paths" (protocol.py:88).
DualEnergyHasTwoChannels ==
  \A r \in Readers : at[r] = "move" /\ (\E f \in frames[r] : RawDualEnergy(f)) =>
    {"high_energy", "low_energy"} \subseteq {FrameLabel(f) : f \in frames[r]}

\* OnlyWholeFilesAreRead: "Wait for files to stop growing (write completion
\* guard)" (dicos.py:297).
OnlyWholeFilesAreRead ==
  \A f \in malformed : folder[f] = "done" => Header[f].decodes = "malformed"
=============================================================================
