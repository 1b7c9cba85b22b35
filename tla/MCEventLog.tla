----------------------------- MODULE MCEventLog -----------------------------
EXTENDS EventLog, TLC
CONSTANTS c1, c2, s1, s2
\* One browser follows everything from the start, one follows a single
\* candidate from the event its page was loaded at.
MCWatched == s1 :> {c1, c2} @@ s2 :> {c1}
MCAfter == s1 :> 0 @@ s2 :> 1
=============================================================================
