---------------------------- MODULE MCBackupStore ----------------------------
(***************************************************************************)
(* Model checking of BackupStore: the faults each configuration allows.    *)
(* Everything else a configuration needs is a number or a model value.     *)
(***************************************************************************)
EXTENDS BackupStore

NoFaults     == {}
BucketFaults == {"cutTransfer", "deleteDenied"}
ReaderFaults == {"cutTransfer", "tornManifest", "lockLost", "clockWrong"}
TornManifest == {"tornManifest"}
=============================================================================
