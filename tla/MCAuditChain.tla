---------------------------- MODULE MCAuditChain ----------------------------
(***************************************************************************)
(* AuditChain with two writers and three records: a plain one, one that    *)
(* carries a byte that is not UTF-8, and one that has the replacement      *)
(* character in its place.                                                 *)
(***************************************************************************)
EXTENDS AuditChain

Plain == [id |-> "e1", text |-> "utf8"]
Denied == [id |-> "e2", text |-> "utf8"]
RawPath == [id |-> "e3", text |-> "raw bytes"]

Replaced == [id |-> "e3", text |-> "replacement"]

MCEntries == {Plain, RawPath, Replaced}
MCPlainEntries == {Plain, Denied}
=============================================================================
