---------------------------- MODULE MCCpGateway ----------------------------
(***************************************************************************)
(* Instances of the Coding Plan gateway: two accounts of one credential    *)
(* each, one proxy key, two handlers.                                      *)
(***************************************************************************)
EXTENDS CpScenes, TLC

CONSTANTS a1, a2, c1, c2, k1, k2

TwoAccounts == c1 :> a1 @@ c2 :> a2

Limits(starts, losses, acks, restarts, crashes) ==
  [starts |-> starts, losses |-> losses, acks |-> acks,
   restarts |-> restarts, crashes |-> crashes]

ScenesLimit == Limits(4, 2, 1, 1, 1)
LostAckLimit == Limits(2, 0, 1, 0, 0)
FailoverLimit == Limits(2, 0, 0, 0, 0)

\* calm: four requests on two handlers, or fewer and an exchange lost or a crash for each
\* of the others. storm: two requests on one handler, and everything else that can happen.
ScenesSpent == [calm |-> Limits(0, 1, 0, 0, 0), storm |-> Limits(2, 0, 0, 0, 0)]
NothingSpent == [s \in Scene |-> Limits(0, 0, 0, 0, 0)]

MCNext ==
  /\ SceneNext
  /\ scene = "calm" => used'["starts"] + used'["losses"] + used'["crashes"] <= 5
  /\ scene = "storm" => calls'[k2] = IdleCall

MCSpec == SceneInit /\ [][MCNext]_sceneVars /\ StormFairness

\* The findings' instances, without scenes.
PlainSpec ==
  /\ CpInit /\ scene = "storm"
  /\ [][CpNext /\ UNCHANGED scene]_sceneVars
=============================================================================
