------------------------------ MODULE MCConfig ------------------------------
(* Instances of ConfigTable for TLC.                                         *)
EXTENDS ConfigTable, TLC

CONSTANTS i1, i2

TwoInstances == {i1, i2}

OneInstance == {i1}

Symmetry == Permutations(TwoInstances)

\* The defaults of prepareConfigMap on a small scale.
SmallDefault ==
    [method |-> 4, qpI |-> 1, qpP |-> 1, bitrate |-> 4, idr |-> 3, device |-> 0,
     sendFPS |-> 0, rate |-> 30, crop |-> 1, offset |-> 0, matrix |-> 3,
     opencl |-> 1]

\* Nothing stored, and what an older version stored on a computer with three
\* devices, which knew no matrix and no crop; OpenCL was ticked.
SmallRegistries ==
    {NoTable,
     [k \in Keys \ {"matrix", "crop"} |->
        [SmallDefault EXCEPT !.method = 0, !.device = 2, !.rate = 25][k]]}

Video(fps, height) == [fps |-> fps, height |-> height]

Scenario(keys, videos, counts) == [keys |-> keys, videos |-> videos, counts |-> counts]

\* 1080 lines end in the middle of a macroblock, and 143 are odd.
SmallScenarios ==
    {Scenario({"method", "qpI", "bitrate"}, {}, {1}),
     Scenario({"idr"}, {}, {1}),
     Scenario({"device"}, {Video(30, 144)}, {0, 1, 2}),
     Scenario({"sendFPS"}, {Video(25, 144)}, {1}),
     Scenario({"crop"}, {Video(30, 143), Video(30, 1080)}, {1}),
     Scenario({"matrix", "opencl"}, {Video(30, 144)}, {1})}

EmptyRegistry == {NoTable}

RateScenario == {Scenario({"sendFPS"}, {Video(25, 144)}, {1})}
=============================================================================
