---------------------------- MODULE MCUsageSync ----------------------------
(***************************************************************************)
(* Two scenes. "usage": four instants, two days of a first billing cycle;  *)
(* the second cycle begins later on the second day and goes on into the    *)
(* next month; one request beside the tick, and a sync may fail. "keys":   *)
(* three requests bind, unbind and sync at the last instant.               *)
(***************************************************************************)
EXTENDS UsageSync

MCDayOf == <<1, 2, 2, 3>>
MCPeriodOf == <<1, 1, 1, 2>>
MCCycleOf == <<1, 1, 2, 2>>

BoundTo(rows) ==
  creds = [r \in Row |-> IF r \in rows THEN [status |-> "active", due |-> TRUE] ELSE NoCred]

UsageScene ==
  /\ now = 1 /\ used \in SUBSET {1} /\ wanted = TRUE /\ BoundTo({1})
  /\ NothingRead /\ requests = MaxRequests - 1 /\ faults = 0

KeysScene ==
  /\ now = Horizon /\ used = {Horizon} /\ wanted \in BOOLEAN /\ BoundTo(IF wanted THEN {1} ELSE {})
  /\ NothingRead /\ requests = 0 /\ faults = 0

SceneSpec == (UsageScene \/ KeysScene) /\ [][SyncNext]_syncVars /\ SyncFairness
=============================================================================
