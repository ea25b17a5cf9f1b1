------------------------------ MODULE CpScenes ------------------------------
(***************************************************************************)
(* The Coding Plan gateway in fair and in foul weather: "calm" and "storm" *)
(* are two scenes of one specification, chosen at the start, so that what  *)
(* the code promises only when nothing goes wrong can be said beside what  *)
(* it promises whatever happens.                                           *)
(***************************************************************************)
EXTENDS CpGateway

CONSTANT Spent   \* what a scene does without from the start, of each limit

VARIABLE scene

Scene == {"calm", "storm"}

ASSUME ScenesAssumption ==
  Spent \in [Scene -> [Rare -> Nat]] /\ \A s \in Scene, f \in Rare : Spent[s][f] <= Limit[f]

sceneVars == <<vars, scene>>

\* In the calm every end that is received is answered, and Web is not restarted.
CalmSpent ==
  [Spent["calm"] EXCEPT !["acks"] = Limit["acks"], !["restarts"] = Limit["restarts"]]

SceneInit ==
  \/ scene = "calm" /\ Beginning(CalmSpent)
  \/ scene = "storm" /\ Beginning(Spent["storm"])

\* In the calm no upstream refuses or hangs.
CalmStep ==
  \A k \in Call : ~UpstreamRefuses(k) /\ (Running(k) /\ calls'[k] = calls[k] => InTime(k))

SceneNext ==
  /\ UNCHANGED scene
  /\ CpNext
  /\ scene = "calm" => CalmStep

SceneSpec == SceneInit /\ [][SceneNext]_sceneVars

\* The fairness of CpFairSpec, in the storm: nothing is said of how the calm ends.
Storms(A) == scene = "storm" /\ A

StormFairness ==
  /\ WF_vars(Storms(Tick)) /\ WF_vars(Storms(Heartbeat))
  /\ WF_vars(Storms(\E k \in Call : ResolveStick(k) \/ ResolveRank(k)))
  /\ WF_vars(Storms(\E k \in Call :
                EndReceived(k) \/ (calls[k].phase = "ending" /\ Unreached(k))))

-----------------------------------------------------------------------------
(* Properties *)

\* Where no upstream refuses, two requests of one key less than the dwell apart go to
\* the same account (StickyWithinDwell), however they interleave.
StickyInCalm == scene = "calm" => StickyWithinDwell

\* Where no upstream hangs and no reply to an end is lost, no call ends another's count
\* or is left uncounted (CallsCounted).
CountedInCalm == scene = "calm" => CallsCounted

\* However calls end, get lost or die with their process, the seats they took come
\* free (SeatsLapse).
LapseInStorm == scene = "storm" => SeatsLapse
=============================================================================
