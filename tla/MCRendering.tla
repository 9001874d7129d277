------------------------------ MODULE MCRendering ------------------------------
(* Every pair of protocols, with pieces chosen so that tags are split over  *)
(* frames, reasoning comes with and without tags, and the calls of a tool   *)
(* get their id late, interleave or repeat themselves.                      *)
EXTENDS Rendering

Content(text) == [Choice EXCEPT !.content = text]
CallPiece(index, id, name, arguments) == [Choice EXCEPT !.calls = <<Call(index, id, name, arguments)>>]

Tags == {Content(text) : text \in {<<"<th">>, <<"ink>">>, <<"</th", "ink>">>, <<"a">>, <<" ">>}}
        \cup {[Choice EXCEPT !.finish = "length"]}
Tools == {CallPiece(0, "t1", "f", <<>>), CallPiece(0, None, None, <<"{", "k">>), CallPiece(0, None, None, <<"}">>),
          CallPiece(1, "t2", "g", Empty), Content(<<"a">>), [Choice EXCEPT !.reasoning = <<"r">>],
          [Choice EXCEPT !.finish = "tool_calls"]}
RoleTags == {[piece EXCEPT !.role = piece.content = <<" ">>] : piece \in Tags}

Setup(from, to, encoding, policy, pieces) ==
    [upstream |-> from, client |-> to, encoding |-> encoding, policy |-> policy,
     cumulative |-> FALSE, pieces |-> pieces,
     length |-> IF from = "anthropic" THEN 9 ELSE 6]

MCSetups ==
    {Setup("openai", "anthropic", TRUE, "placeholder", Tags \cup {[Choice EXCEPT !.reasoning = <<"r">>]}),
     Setup("openai", "anthropic", TRUE, "omit", Tags),
     Setup("openai", "anthropic", FALSE, "placeholder", Tools),
     [Setup("openai", "anthropic", FALSE, "omit", Tools \cup {CallPiece(0, None, None, <<Quote>>)})
         EXCEPT !.cumulative = TRUE],
     Setup("openai", "openai", TRUE, "omit", RoleTags),
     Setup("openai", "openai", FALSE, "omit", Tools),
     Setup("anthropic", "openai", FALSE, "omit", {}),
     Setup("anthropic", "anthropic", FALSE, "omit", {})}
=============================================================================
