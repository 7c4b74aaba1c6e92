----------------------- MODULE GenerateTestSignatures -----------------------
(***************************************************************************)
(* generate_test_signatures.py writing its functions into test_utils.cairo *)
(* between two markers.                                                    *)
(*                                                                         *)
(* The file is a sequence of tokens: markers, line ends, functions, the    *)
(* test constants, other text.  Developers edit the script, the file and   *)
(* the contract whose class hash both name; runs of the script may overlap *)
(* each other and the edits, and may be killed.                            *)
(***************************************************************************)
EXTENDS TestSignatures, FiniteSets

CONSTANTS
  Parameters,    (* versions of the constants in the script and in the file    *)
  Committed,     (* the version checked in                                     *)
  ClassHashes,   (* what RegisterInterfacesEIC may compile to                  *)
  InitialFiles,  (* what test_utils.cairo may look like                        *)
  Runs,
  MaxEdits       (* bound: what developers do                                  *)

ASSUME GeneratorAssumption ==
  /\ Committed \in Parameters /\ MaxEdits \in Nat
  /\ SN_CHAIN_ID \in DOMAIN ChainIds /\ "SN_SEPOLIA" \in DOMAIN ChainIds
  /\ 1001 < HALF
  /\ \A p \in Parameters :
       p.approve_amount \in 0..HALF - 1 /\ LowHalf(p.address) # LowHalf(WRONG_CONTRACT_ADDRESS)
  /\ \A content \in InitialFiles :
       content # <<>> /\ content \in Seq({content[i] : i \in DOMAIN content})

VARIABLES
  script,    (* the constants in the script                                    *)
  file,      (* test_utils.cairo                                               *)
  compiled,  (* the class hash of RegisterInterfacesEIC                        *)
  run,       (* the runs of the script                                         *)
  edits      (* how often developers did something                             *)

vars == <<script, file, compiled, run, edits>>

-----------------------------------------------------------------------------
MARKER_START == [marker |-> "GENERATED-SIGNATURES-START"]
MARKER_END   == [marker |-> "GENERATED-SIGNATURES-END"]
LineEnd      == [text |-> "\n"]

build_generated_block(blocks) == <<MARKER_START>> \o blocks \o <<MARKER_END, LineEnd>>

\* The pattern: from a start marker to an end marker, and over the line's end.
Ends(content, i) == {j \in i..Len(content) : content[j] = MARKER_END}
IsSection(content, i) == content[i] = MARKER_START /\ Ends(content, i) # {}

OverLineEnd(content, j) == IF j < Len(content) /\ content[j + 1] = LineEnd THEN j + 1 ELSE j

\* Mutants: up to the last end marker; short of the line's end.
LastEnd(content, i) ==
  OverLineEnd(content, CHOOSE j \in Ends(content, i) : \A k \in Ends(content, i) : j >= k)
ShortOfLineEnd(content, i) == CHOOSE j \in Ends(content, i) : \A k \in Ends(content, i) : j <= k

\* .*? stops at the first end marker.
SectionEnd(content, i) ==
  OverLineEnd(content, CHOOSE j \in Ends(content, i) : \A k \in Ends(content, i) : j <= k)

Found(content) == \E i \in DOMAIN content : IsSection(content, i)

\* pattern.sub: every section becomes the block.
Substituted(content, block) ==
  LET from[i \in 1..Len(content) + 1] ==
        IF i > Len(content) THEN <<>>
        ELSE IF IsSection(content, i) THEN block \o from[SectionEnd(content, i) + 1]
        ELSE <<content[i]>> \o from[i + 1]
  IN from[1]

\* Mutant: writing at the end.
Appended(content, new) == content \o new

\* Writing from the start of a file that others may have written meanwhile.
Overwritten(content, new) == new \o SubSeq(content, Len(new) + 1, Len(content))

-----------------------------------------------------------------------------
\* A run remembers the constants it signed for, and if all has been quiet since.
Idle == [phase |-> "idle"]

Init ==
  /\ script = Committed
  /\ file \in InitialFiles
  /\ compiled = Committed.class_hash
  /\ run = [r \in Runs |-> Idle]
  /\ edits = 0

Goes(r, state) == run' = [run EXCEPT ![r] = state]

\* Something a run depends on, or its output, has changed under all runs but r.
Stale(state) == IF state = Idle THEN Idle ELSE [state EXCEPT !.quiet = FALSE]
GoesAlone(r, state) == run' = [q \in Runs |-> IF q = r THEN state ELSE Stale(run[q])]

\* Python has loaded the script; main makes the block.
Generates(r) ==
  /\ run[r].phase \in {"idle", "refused", "unchanged", "updated"}
  /\ Goes(r, [phase |-> "generated", p |-> script, quiet |-> TRUE,
              block |-> build_generated_block(generate_all_signatures(script))])
  /\ UNCHANGED <<script, file, compiled, edits>>

\* Mutant: the file is opened for writing too soon.
OpensFirst(r) ==
  /\ run[r].phase = "generated"
  /\ file' = <<>>
  /\ Goes(r, [phase |-> "refused", p |-> run[r].p, quiet |-> run[r].quiet])
  /\ UNCHANGED <<script, compiled, edits>>

\* write_signatures_to_file up to its early returns.
Reads(r) ==
  LET new == Substituted(file, run[r].block)
  IN /\ run[r].phase = "generated"
     /\ Goes(r, CASE ~Found(file) ->
                       [phase |-> "refused", p |-> run[r].p, quiet |-> run[r].quiet]
                  [] Found(file) /\ new = file ->
                       [phase |-> "unchanged", p |-> run[r].p, quiet |-> run[r].quiet]
                  [] Found(file) /\ new # file ->
                       [phase |-> "read", p |-> run[r].p, quiet |-> run[r].quiet,
                        content |-> file, new |-> new])
     /\ UNCHANGED <<script, file, compiled, edits>>

\* open(cairo_path, "w")
Truncates(r) ==
  /\ run[r].phase = "read"
  /\ file' = <<>>
  /\ GoesAlone(r, [run[r] EXCEPT !.phase = "opened"])
  /\ UNCHANGED <<script, compiled, edits>>

Writes(r) ==
  /\ run[r].phase = "opened"
  /\ file' = Overwritten(file, run[r].new)
  /\ GoesAlone(r, [phase |-> "updated", p |-> run[r].p, quiet |-> run[r].quiet])
  /\ UNCHANGED <<script, compiled, edits>>

\* For good; cut says if the file was being written.
Killed(r) ==
  /\ run[r].phase \in {"generated", "read", "opened"}
  /\ Goes(r, [phase |-> "killed", quiet |-> run[r].quiet, cut |-> run[r].phase = "opened"])
  /\ UNCHANGED <<script, file, compiled, edits>>

-----------------------------------------------------------------------------
\* What developers do disturbs every run.
Edits ==
  /\ edits < MaxEdits
  /\ edits' = edits + 1
  /\ run' = [r \in Runs |-> Stale(run[r])]

EditsScript(p) ==
  /\ Edits
  /\ script' = p
  /\ UNCHANGED <<file, compiled>>

EditsConstants(p) ==
  /\ Edits
  /\ file' = [i \in DOMAIN file |-> IF "constants" \in DOMAIN file[i] THEN [constants |-> p]
                                    ELSE file[i]]
  /\ UNCHANGED <<script, compiled>>

\* A helper written behind the first token.
AddsText(text) ==
  /\ Edits
  /\ file # <<>>
  /\ file' = <<file[1], [text |-> text]>> \o Tail(file)
  /\ UNCHANGED <<script, compiled>>

\* A version-control checkout.
Restores(content) ==
  /\ Edits
  /\ file' = content
  /\ UNCHANGED <<script, compiled>>

\* RegisterInterfacesEIC changed, or the compiler.
Recompiles(class_hash) ==
  /\ Edits
  /\ compiled' = class_hash
  /\ UNCHANGED <<script, file>>

Next ==
  \/ \E r \in Runs : Generates(r)
  \/ \E r \in Runs : Reads(r)
  \/ \E r \in Runs : Truncates(r)
  \/ \E r \in Runs : Writes(r)
  \/ \E r \in Runs : Killed(r)
  \/ \E p \in Parameters : EditsScript(p)
  \/ \E p \in Parameters : EditsConstants(p)
  \/ AddsText("helper")
  \/ \E content \in InitialFiles : Restores(content)
  \/ \E class_hash \in ClassHashes : Recompiles(class_hash)

Spec == Init /\ [][Next]_vars
=============================================================================
