---------------------------- MODULE CameraStation ----------------------------
(* The users of one camera device: the capture agent with its motion trigger    *)
(* (src/camera/cli.py), the API's one-shot capture (_capture_blocking of        *)
(* src/app/api/v1/camera.py) and its live stream. Who opens it first has it.    *)
EXTENDS CameraDriver, CameraStream

CONSTANT Tries  \* reads a one-shot capture makes before it gives up

VARIABLES
  user,   \* who else has the device: nobody, agent (a process of its own), snapshot
  tries   \* reads the capture made

vars == <<driver, stream, user, tries>>

Init == DriverInit /\ StreamInit /\ user = Nobody /\ tries = 0

DeviceFree == user = Nobody /\ holder = Nobody

\* The agent runs before the first stream, a bound.
OpenAgent ==
  /\ DeviceFree /\ session = 0 /\ user' = "agent"
  /\ StartReader
  /\ UNCHANGED <<stream, tries>>

AgentStep == user = "agent" /\ DriverNext /\ UNCHANGED <<stream, user, tries>>

\* The agent made its calls, or one of them raised: the driver is closed, and its process ends.
CloseAgent ==
  /\ user = "agent" /\ caller = "out"
  /\ calls = LastCall \/ \E i \in DOMAIN outcome : outcome[i].kind # "frame"
  /\ user' = Nobody
  /\ reader' = "off" /\ scene' = "IDLE" /\ quiet' = 0 /\ best' = 0 /\ nframe' = 0 /\ calm' = 0
  /\ snapshot' = NoFrame /\ pending' = NoFrame /\ event' = FALSE
  /\ calls' = 0 /\ outcome' = <<>>
  /\ UNCHANGED <<caller, stream, tries>>

\* capture_now: a device that does not open is a 503 and closed again.
OpenSnapshot ==
  /\ DeviceFree /\ user' = "snapshot" /\ tries' = 0
  /\ UNCHANGED <<driver, stream>>

\* An empty frame is tried again a few times.
ReadAgain ==
  /\ user = "snapshot" /\ tries < Tries /\ tries' = tries + 1
  /\ UNCHANGED <<driver, stream, user>>

\* A frame, or the last empty one: either way the driver is closed.
CloseSnapshot ==
  /\ user = "snapshot" /\ user' = Nobody /\ tries' = 0
  /\ UNCHANGED <<driver, stream>>

Live == StreamNext(user = Nobody) /\ UNCHANGED <<driver, user, tries>>

Next ==
  \/ OpenAgent \/ AgentStep \/ CloseAgent
  \/ OpenSnapshot \/ ReadAgain \/ CloseSnapshot
  \/ Live

\* A capture's reads and the manager's timeouts come to an end; the agent's calls,
\* the detector, the model and the subscribers need not.
Fairness ==
  /\ WF_vars(ReadAgain \/ CloseSnapshot)
  /\ WF_vars(ManagerNext /\ UNCHANGED <<driver, user, tries>>)

Spec == Init /\ [][Next]_vars /\ Fairness

------------------------------------------------------------------------------
\* The device comes back: after a stop (CameraStream!StopReleases), and after
\* every one-shot capture whatever its reads returned.
DeviceIsReleased ==
  /\ StopReleases
  /\ (user = "snapshot") ~> (user = Nobody)
=============================================================================
