---------------------------- MODULE UdpMulticast ----------------------------
(***************************************************************************)
(* The multicast feed (udp_multicast.cpp over UDP).  A datagram once sent  *)
(* may reach a receiver at any later time, any number of times, or never:  *)
(* loss, duplication and reordering are reads of a set that only grows.    *)
(***************************************************************************)
EXTENDS Protocol

CONSTANT Strays   \* datagrams on the group that are not whole packets

ASSUME StraysAssumption == \A d \in Strays : ~parse_packet(d)

VARIABLE multicast

MulticastInit == multicast = {}

\* UdpMulticastSender::send.
send(datagram) == multicast' = multicast \cup {datagram}

\* What UdpMulticastReceiver::try_receive may return.
Receivable == multicast \cup Strays
=============================================================================
