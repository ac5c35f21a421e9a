---- MODULE MCLsSession ----
\* Instances of LsSession; the cfg files choose the users and the faults.
EXTENDS LsSession, TLC
====
