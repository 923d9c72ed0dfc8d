---------------------------- MODULE MCRunStream ----------------------------
(* Small instances of RunStream: at most two publishers and two clients, a *)
(* buffer of two events and queues of one or two.                          *)
EXTENDS RunStream, TLC
CONSTANTS p1, p2, s1, s2
OnePublisher == {p1}
TwoPublishers == {p1, p2}
OneClient == {s1}
TwoClients == {s1, s2}
OneMillisecond == {0}
TwoMilliseconds == {0, 1}
Clients == Permutations(Streams) \cup Permutations(Publishers)
=============================================================================
