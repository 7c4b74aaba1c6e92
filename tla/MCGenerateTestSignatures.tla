---------------------- MODULE MCGenerateTestSignatures ----------------------
(* Instances of GenerateTestSignatures for TLC. *)
EXTENDS GenerateTestSignaturesProperties, TLC

MCChainIds  == [SN_MAIN |-> 70000, SN_SEPOLIA |-> 70001]
MCSelectors == [approve |-> 80001, transfer |-> 80002, upgrade |-> 80003]
MCYParity(key, digest) == 1

MCCommitted ==
  [address |-> 7120, token |-> 3628, class_hash |-> 90001, execute_before |-> 3000,
   approve_amount |-> 500]

MCParameters ==
  {MCCommitted, [MCCommitted EXCEPT !.class_hash = 90002], [MCCommitted EXCEPT !.approve_amount = 501]}

Block == build_generated_block(generate_all_signatures(MCCommitted))

Rest == <<[text |-> "mod"], [constants |-> MCCommitted]>>

\* As checked in; with the generated functions empty; without a line end; with a second
\* start marker, or a second section, from a merge; with the end marker lost.
MCInitialFiles ==
  {Rest \o Block,
   Rest \o <<MARKER_START, MARKER_END, LineEnd, [text |-> "more"]>>,
   Rest \o <<MARKER_START, MARKER_END>>,
   Rest \o <<MARKER_START, [text |-> "ours"], MARKER_START, MARKER_END, LineEnd>>,
   Rest \o <<MARKER_START, MARKER_END, LineEnd, [text |-> "theirs"], MARKER_START, MARKER_END>>,
   Rest \o <<MARKER_START>>}

RunSymmetry == Permutations(Runs)
=============================================================================
