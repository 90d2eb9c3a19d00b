----------------------------- MODULE MCStepRunner -----------------------------
(* StepRunner on small pages and short workflows. *)
EXTENDS StepRunner

Plain(kind, sels) ==
  [kind |-> kind, sels |-> sels, mode |-> "none", vague |-> FALSE, lenient |-> FALSE,
   optional |-> FALSE, reads |-> FALSE, min |-> 0, body |-> <<>>]
Wait(mode, sels) == [Plain("wait", sels) EXCEPT !.mode = mode]
Fill(sels) == [Plain("use", sels) EXCEPT !.reads = TRUE]

Hidden == [is |-> "hidden", key |-> 0]
Live(key) == [is |-> "live", key |-> key]
Inert == [is |-> "inert", key |-> 0]

Scopes == 0..LoopCap
Everywhere(a, b, busy) ==
  [at |-> [s \in Scopes |-> [x \in Selectors |-> IF x = "a" THEN a ELSE b]], busy |-> busy]

MCDoms == {
  Everywhere(<<>>, <<>>, TRUE),                             \* nothing yet
  Everywhere(<<Live(0), Live(1)>>, <<Live(0)>>, FALSE),     \* told apart; a fallback
  Everywhere(<<Hidden, Live(1), Live(1)>>, <<>>, FALSE),    \* duplicates; the first hidden
  Everywhere(<<Inert, Live(2)>>, <<Hidden>>, FALSE)}        \* one that can be used

MCWorkflows == {
  <<Plain("goto", <<>>), Plain("click", <<"a", "b">>)>>,
  <<Fill(<<"a">>), Fill(<<"b">>)>>,
  <<[Plain("for_each", <<"a">>) EXCEPT !.body = <<Fill(<<"b">>), Plain("plain", <<>>)>>],
    Plain("click", <<"a">>)>>,
  <<[Plain("clicks", <<"a">>) EXCEPT !.min = 2], Plain("download_wait", <<>>)>>,
  <<[Wait("visible", <<"a", "b">>) EXCEPT !.lenient = TRUE]>>,
  <<[Wait("visible", <<"b">>) EXCEPT !.vague = TRUE, !.lenient = TRUE]>>,
  <<[Wait("hidden", <<"a", "b">>) EXCEPT !.optional = TRUE], Wait("stable", <<>>)>>,
  <<[Wait("count", <<"b", "a">>) EXCEPT !.min = 2]>>,
  <<Plain("click", <<>>)>>}
=============================================================================
