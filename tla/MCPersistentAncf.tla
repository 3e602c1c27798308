---- MODULE MCPersistentAncf ----
EXTENDS PersistentAncf
====
