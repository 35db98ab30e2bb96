------------------------------- MODULE Faults -------------------------------
(***************************************************************************)
(* What the environment may do to a deployment: a budget of MaxFaults      *)
(* upsets of the kinds FaultKinds.  External to the program; the actions   *)
(* that spend the budget name the line of src/ that meets the upset.       *)
(*   "crash"      a worker process is killed, its ffmpeg with it           *)
(*   "sigterm"    a worker is asked to shut down                           *)
(*   "lostCall"   an HTTP call to the control plane fails or times out     *)
(*   "slowReport" a segment is reported long after it was read off the     *)
(*                manifest                                                 *)
(*   "lateBeat"   a running worker's heartbeats reach the store too late   *)
(*   "slowFirst"  the first segment takes longer than the dead-worker      *)
(*                threshold                                                *)
(*   "noManifest" the first segment takes longer than the manifest timeout *)
(*   "launch"     a directory or a process cannot be created               *)
(*   "ffmpeg"     ffmpeg exits with an error of its own                    *)
(*   "disconnect" a client drops its request                               *)
(*   "cpCrash"    the control plane restarts                               *)
(*   "restart"    the same, for what it keeps of the libraries             *)
(*   "appear", "vanish", "move", "write"                                   *)
(*                somebody changes the files of a library                  *)
(*   "unreadable" a directory of a library cannot be read                  *)
(*   "query"      a statement of DeleteJob, of the splitter or on the      *)
(*                table of identities fails                                *)
(*   "provider"   a metadata provider does not answer                      *)
(*   "probe"      ffprobe fails on a file                                  *)
(*   "seek"       a client seeks: a budget for Timeline, not an upset      *)
(***************************************************************************)
EXTENDS Naturals

CONSTANTS FaultKinds, MaxFaults

ASSUME FaultsAssumption == MaxFaults \in Nat

VARIABLE faults    \* upsets so far

Fault(kind) == /\ kind \in FaultKinds /\ faults < MaxFaults
               /\ faults' = faults + 1

NoFault == UNCHANGED faults
=============================================================================
