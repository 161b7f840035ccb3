---------------------------- MODULE MCDriverLife ----------------------------
(***************************************************************************)
(* The drivers of module DriverTables, one after the other.  An init that  *)
(* has failed and a module that is gone are where a behaviour ends.        *)
(***************************************************************************)
EXTENDS DriverTables

AllDrivers == DOMAIN DriverTable

=============================================================================
