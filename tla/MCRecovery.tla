------------------------------ MODULE MCRecovery ------------------------------
(***************************************************************************)
(* Workflows for model-checking Recovery.                                  *)
(***************************************************************************)
EXTENDS Recovery

\* A wait that may be bypassed, a payment and a step that needs both.
Onboarding ==
    [parents |-> [mail |-> {}, pay |-> {}, done |-> {"mail", "pay"}],
     goto    |-> <<>>,
     order   |-> <<"mail", "pay", "done">>,
     onRecovery |-> [mail |-> "skip", pay |-> "fail", done |-> "retry"],
     tolerant |-> {"mail"}, waits |-> {"mail"}, guarded |-> {"done"}]

\* A chain, its middle step a wait.
Chain ==
    [parents |-> [a |-> {}, b |-> {"a"}, c |-> {"b"}],
     goto    |-> <<>>,
     order   |-> <<"a", "b", "c">>,
     onRecovery |-> [a |-> "skip", b |-> "retry", c |-> "fail"],
     tolerant |-> {}, waits |-> {"b"}, guarded |-> {}]

\* A loop of two steps with a step behind it.
Loop ==
    [parents |-> [work |-> {}, again |-> {"work"}, end |-> {"again"}],
     goto    |-> [again |-> [target |-> "work", max |-> 1]],
     order   |-> <<"work", "again", "end">>,
     onRecovery |-> [work |-> "skip", again |-> "retry", end |-> "retry"],
     tolerant |-> {"work"}, waits |-> {}, guarded |-> {"end"}]

MCWorkflows == {Onboarding, Chain, Loop}

ASSUME \A w \in MCWorkflows : LoopsClosed(w)

\* The chain is small enough for a crash of the resumed execution.
MCMaxCrashes == [w \in MCWorkflows |-> IF w = Chain THEN 2 ELSE 1]

ChainOnly == {Chain}
=============================================================================
