---------------------------- MODULE MCSocketLink ----------------------------
(***************************************************************************)
(* Small instances of SocketLink for TLC: as many slots as it takes for a  *)
(* new socket to meet the late ends of an old one.                         *)
(***************************************************************************)
EXTENDS SocketLink

MCAuto == {"strategy.status"}
MCChannels == {"strategy.signal"}

=============================================================================
