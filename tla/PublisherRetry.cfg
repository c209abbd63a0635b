\* One publisher through two outages or resumes and one pause, with every
\* etcd call able to fail: its keys go after Stop or a signal, and only
\* its current lease is ever kept alive.
CONSTANTS
    MaxTriggers = 2
    MaxPauses = 1
SPECIFICATION FairSpec
\* The publisher legitimately idles once stopped, exited or given up.
CHECK_DEADLOCK FALSE



PROPERTY KeyRepublished
