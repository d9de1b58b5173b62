----------------------------- MODULE MCPipeline -----------------------------
(* Pipeline on small instances. *)
EXTENDS Pipeline

\* Every message the coordinator can send: it sends no range of one version.
MCInbox == {m \in Message : m.start < m.end}
=============================================================================
