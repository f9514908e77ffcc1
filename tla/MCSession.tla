------------------------------ MODULE MCSession ------------------------------
(* Instances of CodecSession for TLC.                                        *)
EXTENDS CodecSession

\* One failure of each sort: not cleaned up after, with a CPU context held and
\* its queue never assigned or NULL; cleaned up after, with nothing in the
\* context's place, early and late; and of a frame, fatal and not.
RoughFaults == {"context", "session", "cpuDevice", "cpuQueue", "kernels", "map", "task"}

\* The failures CompressBegin cleans up after, or that come before it has
\* acquired anything, and the failures of a frame the process survives.
CleanFaults ==
    (BeginFaults \ {"deviceList", "cpuContext", "cpuDevice", "cpuQueue"})
    \cup (FrameFaults \ {"map"})

NoCareless == {}
===============================================================================
