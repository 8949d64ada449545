------------------------ MODULE MCNotificationStreams ------------------------
(* NotificationStreams with interchangeable sessions and users.            *)
EXTENDS NotificationStreams, TLC

Symmetry == Permutations(Sessions) \cup Permutations(Users)
=============================================================================
