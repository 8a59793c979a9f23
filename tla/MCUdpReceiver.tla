---------------------------- MODULE MCUdpReceiver ----------------------------
(***************************************************************************)
(* UdpReceiver for TLC: datagrams smaller than, equal to and larger than   *)
(* the buffer, more of them than the queue holds.                          *)
(***************************************************************************)
EXTENDS UdpReceiver
=============================================================================
