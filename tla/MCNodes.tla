------------------------------ MODULE MCNodes ------------------------------
(***************************************************************************)
(* Each of the Nodes on its own small instance, one at a time: a behaviour *)
(* exercises the one that focus picks.                                     *)
(***************************************************************************)
EXTENDS Nodes, TLC

CONSTANTS p1, p2

VARIABLES focus

Pair == {p1, p2}
Symmetry == Permutations(Pair)

Call(fn, arg) == [fn |-> fn, arg |-> arg]
MCGrants == {{"sql_query"}, {"code_execute", "http_request"}}
MCAsked ==
  {Call("sql_query", "sly"), Call("sql_query", "bad"), Call("http_request", "ok"),
   Call("http_request", "bad"), Call("other", "ok")}

MCFolders == {<<"bin", "dir", "big">>, <<"csv", "bin", "dot", "marker", "other">>, <<"csv">>}

Row(id, email, name, score, good) ==
  [id |-> id, email |-> email, name |-> name, score |-> score, good |-> good]
Rows == <<Row("a", "x", "-", 1, TRUE), Row("b", "-", "x", 2, FALSE),
          Row("c", "x", "-", -1, TRUE), Row("d", "-", "-", 2, TRUE)>>
MCInputs == {SubSeq(Rows, 1, n) : n \in {0, 1, 3, 4}}
MCMissing == -1

Graph(nodes, bad, edges) ==
  [nodes |-> nodes, bad |-> bad, unknown |-> {}, renamed |-> {}, edges |-> edges, gone |-> {}]
MCCanvases == {Graph({"a", "b"}, {}, {<<"a", "b">>})}
MCCreations == {Graph({}, {}, {}), Graph({"a", "b"}, {"b"}, {<<"a", "b">>})}

-----------------------------------------------------------------------------
MCInit ==
  /\ focus \in {"connect", "loop", "files", "effect", "process", "turn"}
  /\ Connect!Init /\ (focus # "connect" => ~conn.exists)
  /\ Loop!Init /\ (focus # "loop" => \A a \in Pair : agent[a].granted = {"sql_query"})
  /\ Files!Init /\ (focus # "files" => exec["r"].kind = "s3" /\ exec["r"].dir = <<"csv">>)
  /\ Effect!Init /\ (focus # "effect" => kind = "csv")
  /\ Process!Init /\ (focus # "process" => node.kind = "llm" /\ node.mode = "all" /\ node.input = <<>>)
  /\ Turn!Init

MCNext ==
  \/ /\ focus = "connect" /\ Connect!Next
     /\ UNCHANGED <<focus, loop, files, effect, process, turn>>
  \/ /\ focus = "loop" /\ Loop!Next
     /\ UNCHANGED <<focus, connect, files, effect, process, turn>>
  \/ /\ focus = "files" /\ Files!Next
     /\ UNCHANGED <<focus, connect, loop, effect, process, turn>>
  \/ /\ focus = "effect" /\ Effect!Next
     /\ UNCHANGED <<focus, connect, loop, files, process, turn>>
  \/ /\ focus = "process" /\ Process!Next
     /\ UNCHANGED <<focus, connect, loop, files, effect, turn>>
  \/ /\ focus = "turn" /\ Turn!Next
     /\ UNCHANGED <<focus, connect, loop, files, effect, process>>

MCSpec == MCInit /\ [][MCNext]_<<focus, connect, loop, files, effect, process, turn>>
=============================================================================
