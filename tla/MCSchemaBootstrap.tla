--------------------------- MODULE MCSchemaBootstrap ---------------------------
(* SchemaBootstrap, with its connection, on small instances for TLC. *)
EXTENDS SchemaBootstrap

================================================================================
