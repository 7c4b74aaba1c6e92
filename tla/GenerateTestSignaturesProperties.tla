------------------ MODULE GenerateTestSignaturesProperties ------------------
(* What running generate_test_signatures.py does, and does not do, to the tests. *)
EXTENDS GenerateTestSignatures, AccountTests

Functions(content) == {i \in DOMAIN content : "fn" \in DOMAIN content[i]}

\* The tests compile: there is one function of each name.
Compiles(content) ==
  \A t \in OutsideTests(Committed) \cup ValidateTests(Committed) \cup UpgradeTests(Committed) :
    Cardinality({i \in Functions(content) : content[i].fn = t.fn}) = 1

Constants(content) == {content[i].constants : i \in {j \in DOMAIN content : "constants" \in DOMAIN content[j]}}

SignatureOf(content, t) ==
  content[CHOOSE i \in Functions(content) : content[i].fn = t.fn].felts

\* The script has come to its end and nothing it depends on or wrote has changed since it
\* was started; the file had one marked section and its constants are the script's.
Regenerated(r) ==
  /\ run[r].phase \in {"unchanged", "updated"} /\ run[r].quiet
  /\ Compiles(file)
  /\ Constants(file) = {run[r].p}

\* After the script has run, every test of a signature comes out as it should: what the
\* script hashes is what the account hashes for the request the test builds, and the
\* signatures made wrong on purpose are refused.
TestsPass ==
  \A r \in Runs : Regenerated(r) =>
    /\ \A t \in OutsideTests(run[r].p) \cup ValidateTests(run[r].p) :
         TestPasses(run[r].p, t, SignatureOf(file, t))
    /\ run[r].p.class_hash = compiled =>
         \A t \in UpgradeTests(run[r].p) : TestPasses(run[r].p, t, SignatureOf(file, t))

\* "Running it again on an already-correct file produces no changes": whatever the file,
\* writing the block a second time changes nothing.
Idempotent ==
  \A p \in Parameters :
    LET block == build_generated_block(generate_all_signatures(p))
        once  == Substituted(file, block)
    IN Found(file) => Found(once) /\ Substituted(once, block) = once

\* Position i is in a section: no end marker between a start marker before it and it,
\* but one behind it.
Inside(content, i) ==
  \E s \in 1..i : /\ content[s] = MARKER_START
                  /\ \A k \in s..i - 1 : content[k] # MARKER_END
                  /\ \E e \in i..Len(content) : content[e] = MARKER_END

\* What is outside of every section, but for line ends and stray end markers.
OutsideText(content) ==
  LET from[i \in 1..Len(content) + 1] ==
        IF i > Len(content) THEN <<>>
        ELSE IF Inside(content, i) \/ content[i] \in {MARKER_END, LineEnd} THEN from[i + 1]
        ELSE <<content[i]>> \o from[i + 1]
  IN from[1]

\* Of what a run read, all that is outside the markers is in what it is going to write,
\* in the same order, however many sections, stray markers and missing line ends there are.
OutsideKept ==
  \A r \in Runs : run[r].phase \in {"read", "opened"} =>
    OutsideText(run[r].new) = OutsideText(run[r].content)

LeftCut == \E r \in Runs : run[r].phase = "opened" \/ (run[r].phase = "killed" /\ run[r].cut)

\* An empty file is the doing of a run cut short, and of nothing else.
EmptyOnlyIfCut == file = <<>> => LeftCut

\* Runs may overlap as they like: while nobody edits anything, what they leave is the file
\* as it was found or as one of them alone would have made it.
OverlapHarmless ==
  edits = 0 /\ ~LeftCut =>
    \E content \in InitialFiles :
      file \in {content, Substituted(content, build_generated_block(generate_all_signatures(script)))}
=============================================================================
