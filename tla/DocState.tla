------------------------------- MODULE DocState -------------------------------
(***************************************************************************)
(* The document as a value: the rows of the live tables that               *)
(* internal/doc/sqlite.go copies into a snapshot or a branch               *)
(* (model.SnapshotData) and back.  Of a row only its key matters here;     *)
(* what an edit of a title or of a quote changes is left to the version    *)
(* column, which travels with the row.                                     *)
(*                                                                         *)
(*   nodes, threads   the ids that have a row                              *)
(*   edges            pairs <<from, to>>                                   *)
(*   members          pairs <<thread, node>> of thread_nodes               *)
(*   evidence         the nodes that have an evidence row                  *)
(***************************************************************************)
EXTENDS FiniteSets

CONSTANTS Node, Thread     \* the ids there can ever be

Doc ==
  [nodes : SUBSET Node, edges : SUBSET (Node \X Node), threads : SUBSET Thread,
   members : SUBSET (Thread \X Node), evidence : SUBSET Node]

Empty == [nodes |-> {}, edges |-> {}, threads |-> {}, members |-> {}, evidence |-> {}]

(* The foreign keys of edges, thread_nodes and evidence.  restoreDAGState   *)
(* inserts the rows of d into empty tables: it fails when one is broken.    *)
Sound(d) ==
  /\ \A e \in d.edges : e[1] \in d.nodes /\ e[2] \in d.nodes
  /\ \A m \in d.members : m[1] \in d.threads /\ m[2] \in d.nodes
  /\ d.evidence \subseteq d.nodes

-----------------------------------------------------------------------------
(* What a statement of another request does to the tables.                  *)

AddNode(d, n) == [d EXCEPT !.nodes = d.nodes \cup {n}]

\* mutant: evidence.node_id without ON DELETE CASCADE
DeleteNodeOnly(d, n) ==
  [d EXCEPT !.nodes = d.nodes \ {n},
            !.edges = {e \in d.edges : e[1] # n /\ e[2] # n},
            !.members = {m \in d.members : m[2] # n}]

DeleteNode(d, n) ==
  [d EXCEPT !.nodes = d.nodes \ {n},
            !.edges = {e \in d.edges : e[1] # n /\ e[2] # n},
            !.members = {m \in d.members : m[2] # n},
            !.evidence = d.evidence \ {n}]

AddEdge(d, m, n) == [d EXCEPT !.edges = d.edges \cup {<<m, n>>}]

DeleteEdge(d, e) == [d EXCEPT !.edges = d.edges \ {e}]

AddEvidence(d, n) == [d EXCEPT !.evidence = d.evidence \cup {n}]

AddThread(d, t) == [d EXCEPT !.threads = d.threads \cup {t}]

DeleteThread(d, t) ==
  [d EXCEPT !.threads = d.threads \ {t}, !.members = {m \in d.members : m[1] # t}]

OnThread(d, t) == {m \in d.members : m[1] = t}

(* SetThreadNodes, one transaction. *)
SetMembers(d, t, ms) == [d EXCEPT !.members = (d.members \ OnThread(d, t)) \cup ms]

=============================================================================
