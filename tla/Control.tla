------------------------------ MODULE Control ------------------------------
(***************************************************************************)
(* The two sides of the control plane side by side: who edits and deploys  *)
(* a workflow (Authoring), and who may start it (Admission).  They share   *)
(* no state.                                                               *)
(***************************************************************************)
EXTENDS Authoring

CONSTANTS
  Processes, Calls, Kinds, Callers, Scopes,            \* Admission
  CacheTTL, Grace, Replay, Window, HookLimit,
  MaxTime, MaxHalts, MaxRotations, MaxFaults

VARIABLES now, controls, since, cache, unflushed, hook, bucket, call,
          exec, jobs, halts, faults

Entry == INSTANCE Admission WITH Requests <- Calls, req <- call

entry == <<now, controls, since, cache, unflushed, hook, bucket, call, exec,
           jobs, halts, faults>>

-----------------------------------------------------------------------------
\* Admission: a replaced webhook credential opens nothing once its grace is
\* over, a token's calls stay within the limit of their window, and callers are
\* told truly whether their run was queued (webhook_trigger, _check_rate_limit,
\* execute_workflow).
AdmissionSound == Entry!AdmissionSound

\* A halt bites in every process within the life of a cache entry
\* (_active_controls, set_control).
HaltBites == Entry!HaltBites
=============================================================================
