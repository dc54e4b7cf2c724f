---------------------------- MODULE MCAuditChain ----------------------------
(* Three handlers, three operations and a pool of two connections: two      *)
(* writers contend for the lock while the third waits for a connection.     *)
EXTENDS AuditChain

MCWriters == 1..3
MCEvents == {"signup", "login", "invite"}
MCPoolSize == 2
=============================================================================
