-------------------------- MODULE MCHardwareIntake --------------------------
(* Values of the constants of HardwareIntake for TLC. *)
EXTENDS HardwareIntake

CONSTANTS m1, r1, r2

OneMachine == {m1}
OneHardware == {"bmh1"}
OnThatMachine == [h \in Hardware |-> m1]
TwoRequests == {r1, r2}

\* A drive the machine lacks, a bond and a drive, and a NIC the machine lacks.
Asked ==
    {[nics |-> {}, imageDrive |-> "sdb"],
     [nics |-> {{"eth0", "eth1"}}, imageDrive |-> "sda"],
     [nics |-> {{"eth0"}, {"eth2"}}, imageDrive |-> Nil]}

\* What the same machine reports from two boots, with a tunnel up at the second.
Found ==
    {[nics |-> {"eth0", "eth1"}, storage |-> {"sda"}, valid |-> TRUE],
     [nics |-> {"eth0", "eth1", "sit0"}, storage |-> {"sda"}, valid |-> FALSE]}
=============================================================================
