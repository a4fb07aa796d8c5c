------------------------------ MODULE MCCommunity ------------------------------
(* Small instances of Community for TLC. *)
EXTENDS Community, TLC

(* Participants, options and handlers are interchangeable. *)
CommunitySymmetry == Permutations(People) \cup Permutations(Options)
                       \cup Permutations(Hands)
===============================================================================
