---- MODULE MCHostDispatch ----
\* Instances of HostDispatch; the cfg files give the bounds.
EXTENDS HostDispatch, TLC
====
