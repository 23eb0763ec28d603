------------------------------- MODULE Nodes -------------------------------
(***************************************************************************)
(* The node library and what it leans on, side by side: saved connections, *)
(* the agent loop, media, what nodes do to the world outside, processors,  *)
(* and the assistant that builds workflows of them.  They share no state;  *)
(* what each promises is stated here.                                      *)
(***************************************************************************)
EXTENDS Integers, Sequences, FiniteSets

CONSTANTS
  Editors, Lookers, Types, SchemaTTL, ErrorTTL,   \* Connections
  MaxTime, MaxRotations, Mask, Blank,
  Agents, Grants, MaxIterations, Limit, PoolSize, \* AgentLoop
  ClientRetries, Asked, MaxReplyCalls,
  Runs, Sources, Folders, MaxSweeps,              \* Media
  Dispatches, NodeKinds, Items,                   \* NodeRun
  Processing, Modes, Inputs, BatchSize,           \* Processors
  Concurrency, Fanout, Budget, Threshold, Absent, Missing,
  Names, Canvases, Creations, MaxRounds,          \* Assistant
  MaxTurnCalls, MaxTests, MaxMishaps,
  NodeRetries,                                    \* max_retries of every node
  RedisFaults, MediaFaults, EffectFaults, CallFaults

VARIABLES
  conn, keys, cache, now, edit, user, redis,
  agent, charged, requests, repeated, orphans,
  exec, blobs, inflight, scan, faults, sweeps,
  kind, run, landed, marker, late, flaws,
  node, task, result, spent, out, mishaps,
  chat, canvas, wc, tests, told, ui, mishap

Connect == INSTANCE Connections WITH
  Agents <- Lookers, MaxFaults <- RedisFaults, agent <- user, faults <- redis
Loop    == INSTANCE AgentLoop WITH MaxCalls <- MaxReplyCalls, Retries <- NodeRetries
Files   == INSTANCE Media WITH
  Kinds <- Sources, Retries <- NodeRetries, MaxFaults <- MediaFaults
Effect  == INSTANCE NodeRun WITH
  MaxRetries <- NodeRetries, MaxFaults <- EffectFaults
Process == INSTANCE Processors WITH
  Kinds <- Processing, Retries <- NodeRetries, Limit <- Budget, MaxFaults <- CallFaults,
  charged <- spent
Turn    == INSTANCE Assistant WITH Nodes <- Names, MaxCalls <- MaxTurnCalls

connect == <<conn, keys, cache, now, edit, user, redis>>
loop    == <<agent, charged, requests, repeated, orphans>>
files   == <<exec, blobs, inflight, scan, faults, sweeps>>
effect  == <<kind, run, landed, marker, late, flaws>>
process == <<node, task, result, spent, out, mishaps>>
turn    == <<chat, canvas, wc, tests, told, ui, mishap>>

-----------------------------------------------------------------------------
\* Connections: no edit stores a mask as the credential or writes plaintext, a
\* run has what somebody typed, and a cached schema of an older configuration is
\* a discovery that overlapped the edit or a lost invalidation
\* (update_connection, resolve_connection, get_or_discover_schema).
ConnectionsSound == Connect!ConnectionsSound

\* Agents: the transcript answers every tool call once, calls of the client never
\* exceed the budget of the run, and nothing that the guards can tell for a write
\* ever ran (_run_agent_with_tools).
AgentsSound == Loop!AgentsSound

\* Media: what a live run refers to is there, what a finished one left is
\* explained, and a folder yields every listed file once (blob_store.py,
\* _scan_blob_orphans).
MediaSound == Files!MediaSound

\* Effects: one delivery of a writer or sender has at most one effect, and a
\* COMPLETED node did its work, lost replies, timeouts and late threads
\* included (BaseNode.run).
NodesSound == Effect!NodesSound

\* Processors: every record comes out once and with its own answer, whatever
\* the grouping, the order of the answers and the attempts before
\* (_run_per_item).
ProcessorsSound == Process!ProcessorsSound

\* Assistant: a broken workflow is proposed only after it was reported, and
\* what the model hears of a test run is true (run_assistant_turn).
AssistantSound == Turn!AssistantSound
=============================================================================
