--------------------------- MODULE MCFlarmSession ---------------------------
(* A host and a Flarm for TLC.                                             *)
EXTENDS FlarmSession, SequencesExt

CONSTANTS
  MaxRequests,  \* bounds the sessions asked for
  MaxOdd        \* bounds the frames that get damaged

VARIABLES requests, odds   \* how many there have been
countVars == <<requests, odds>>

\* What is said counts; the rest does not.
Said(l, m) == in'[l] # in[l] /\ Last(in'[l]) = m
MCInit == Init /\ requests = 0 /\ odds = 0
MCNext ==
  \/ /\ HostSays \/ FlarmSays
     /\ requests' = requests + (IF Said("host", "request") THEN 1 ELSE 0)
     /\ odds' = odds + (IF \E l \in Link : Said(l, "odd") THEN 1 ELSE 0)
     /\ requests' <= MaxRequests /\ odds' <= MaxOdd
  \/ /\ UNCHANGED countVars
     /\ \/ \E l \in Link : Receiver(l) \/ Vanish(l)
        \/ HostReads \/ FlarmReads
MCSpec == MCInit /\ [][MCNext]_<<vars, countVars>> /\ Fairness
=============================================================================
