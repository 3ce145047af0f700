----------------------- MODULE MCConfigurationService -----------------------
(* Instances of ConfigurationService for TLC.                              *)
EXTENDS ConfigurationService

CONSTANTS r1, r2, r3, c1, c2

\* Everything at once, with one client and an unknown server that was there
\* first; and two clients whose users read, with changes one at a time.
MCEnvironments ==
    {[servers |-> {r1, r2, r3}, early |-> {r3}, clients |-> {c1},
      commands |-> AllCommands, pace |-> "any",
      racy |-> TRUE, partitions |-> TRUE, stops |-> TRUE],
     [servers |-> {r1, r2}, early |-> {}, clients |-> {c1, c2},
      commands |-> {"r"}, pace |-> "calm",
      racy |-> FALSE, partitions |-> FALSE, stops |-> FALSE]}
=============================================================================
