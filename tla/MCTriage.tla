------------------------------ MODULE MCTriage ------------------------------
\* Two files of one and two regions; three dimensions.  Matching severities,
\* thresholds and constants of domain/policy.rs, in whole units.
EXTENDS Triage

MCDimensionOrder == [correctness |-> 1, security |-> 2, testGap |-> 3]
MCFileOrder == <<1, 2>>

Says(correctness, security, crypto, testGap) ==
    [correctness |-> correctness, security |-> security, cryptoSecrets |-> crypto,
     misconfig |-> 0, testGap |-> testGap]

MCScreens == {
    <<[sizes |-> <<<<2, 3, 2>>>>, answers |-> <<Says(90, 10, 90, 40)>>],
      [sizes |-> <<<<4, 2, 3>>, <<1, 1, 1>>>>, answers |-> <<Says(60, 0, 20, 10), Says(10, 95, 0, 80)>>]>>,
    <<[sizes |-> <<<<0, 5, 1>>>>, answers |-> <<Says(80, 70, 10, 80)>>],
      [sizes |-> <<<<2>>, <<3, 3>>>>, answers |-> <<Says(10, 0, 0, 20), Says(55, 0, 60, 70)>>]>>,
    <<[sizes |-> <<<<0, 5, 1>>>>, answers |-> <<Says(90, 10, 20, 80)>>],
      [sizes |-> <<<<2>>, <<3, 3>>>>, answers |-> <<Says(95, 95, 0, 20), Failed>>]>>}

MCThresholds == [security |-> 50]

Answer(fails, at, mechanism, severity) ==
    [fails |-> fails, at |-> at, sure |-> 90, mechanism |-> mechanism, classified |-> 80,
     severity |-> severity, supported |-> 90, owner |-> "owner"]

MCLocateAnswers == {
    Answer(0, 1, "injection", 9), Answer(0, 12, "branch", 9), Answer(0, 3, "injection", 4),
    Answer(3, 1, "injection", 9)}

MCHiddenSets == {{}, {<<1, "correctness", "branch", 12>>}}

Chain(source, reaches, sanitized) ==
    [source |-> source, confidence |-> 90, reaches |-> reaches, sanitized |-> sanitized]

MCTaintAnswers == {Chain("trusted", 90, 50), Chain("untrusted", 90, 5), Chain(Failed, 90, 5)}
MCVoteAnswers == {<<90, 90, 20>>, <<90, 80, 90>>}
=============================================================================
