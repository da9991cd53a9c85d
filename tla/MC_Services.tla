---------------------------- MODULE MC_Services ----------------------------
(***************************************************************************)
(* The parts beside and around the transfer that share no state in these   *)
(* models, each on its own instance: part says which one a behaviour is    *)
(* about, and the others stay in one initial state.                        *)
(***************************************************************************)
EXTENDS PeerPool, Checkpoint, Telemetry, Idempotency, ColdStart, EngineState, FileSelect, Dht, TLC

MCIp == [k \in Peer |-> "A"]
MCPiece == [k \in Peer |-> TRUE]
MCDistance == [n \in DNode |-> IF n = "n1" THEN 2 ELSE 1]
MCKnows == [n \in DNode |-> DNode \ {n}]
Alike == Permutations(EPiece)

VARIABLE part

servicesVars ==
  <<part, poolVars, checkVars, telemetryVars, idempotencyVars, coldVars, engineVars,
    fileVars, dhtVars>>

Init ==
  /\ part \in {"pool", "checkpoint", "telemetry", "idempotency", "cold", "engine",
               "files", "dht"}
  /\ PoolInit /\ CheckpointInit /\ TelemetryInit /\ IdempotencyInit
  /\ ColdInit /\ EngineInit /\ FilesInit /\ DhtInit
  /\ part # "files" => \A f \in File : lengths[f] = 1

PoolStep ==
  /\ part = "pool" /\ PoolNext
  /\ UNCHANGED <<part, checkVars, telemetryVars, idempotencyVars, coldVars,
                engineVars, fileVars, dhtVars>>
CheckpointStep ==
  /\ part = "checkpoint" /\ CheckpointNext
  /\ UNCHANGED <<part, poolVars, telemetryVars, idempotencyVars, coldVars,
                engineVars, fileVars, dhtVars>>
TelemetryStep ==
  /\ part = "telemetry" /\ TelemetryNext
  /\ UNCHANGED <<part, poolVars, checkVars, idempotencyVars, coldVars, engineVars,
                fileVars, dhtVars>>
IdempotencyStep ==
  /\ part = "idempotency" /\ IdempotencyNext
  /\ UNCHANGED <<part, poolVars, checkVars, telemetryVars, coldVars, engineVars,
                fileVars, dhtVars>>
ColdStep ==
  /\ part = "cold" /\ ColdNext
  /\ UNCHANGED <<part, poolVars, checkVars, telemetryVars, idempotencyVars,
                engineVars, fileVars, dhtVars>>
EngineStep ==
  /\ part = "engine" /\ EngineNext
  /\ UNCHANGED <<part, poolVars, checkVars, telemetryVars, idempotencyVars,
                coldVars, fileVars, dhtVars>>
FilesStep ==
  /\ part = "files" /\ FilesNext
  /\ UNCHANGED <<part, poolVars, checkVars, telemetryVars, idempotencyVars,
                coldVars, engineVars, dhtVars>>
DhtStep ==
  /\ part = "dht" /\ DhtNext
  /\ UNCHANGED <<part, poolVars, checkVars, telemetryVars, idempotencyVars,
                coldVars, engineVars, fileVars>>

Next ==
  \/ PoolStep \/ CheckpointStep \/ TelemetryStep \/ IdempotencyStep
  \/ ColdStep \/ EngineStep \/ FilesStep \/ DhtStep

Spec == Init /\ [][Next]_servicesVars

(* The state constraint: what follows two crossed calls of the engine is not explored. *)
Uncrossed == ~crossed

(* Type invariant of all parts. *)
ServicesTypeOK ==
  /\ PoolTypeOK /\ CheckpointTypeOK /\ TelemetryTypeOK /\ IdempotencyTypeOK
  /\ ColdTypeOK /\ EngineTypeOK /\ FilesTypeOK /\ DhtTypeOK
=============================================================================
