---- MODULE MCScheduler ----
EXTENDS MultiSliceScheduler
====
