----------------------------- MODULE MCHarness ------------------------------
(* Harness with a minimal artifact, three full ones and two specs.         *)
EXTENDS Harness

MCArtifacts ==
    <<[label |-> "zig-full", full |-> TRUE], [label |-> "rust-minimal", full |-> FALSE],
      [label |-> "rust-full", full |-> TRUE], [label |-> "rust-full-opt", full |-> TRUE]>>

MCSpecs == <<"serde", "anyhow::Error">>
=============================================================================
