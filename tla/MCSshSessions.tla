--------------------------- MODULE MCSshSessions ---------------------------
(* Instances of SshSessions for TLC: one forward spec, of each direction.  *)
EXTENDS SshSessions

LocalOnly  == [f \in Fwds |-> "L"]
RemoteOnly == [f \in Fwds |-> "R"]
SocksOnly  == [f \in Fwds |-> "D"]
=============================================================================
