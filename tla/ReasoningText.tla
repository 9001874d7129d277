----------------------------- MODULE ReasoningText -----------------------------
(* Reasoning that an upstream puts in front of its text as                  *)
(* <think>...</think>, whole and in a stream (unigateway-protocol           *)
(* responses/reasoning_text.rs).  Each tag is two tokens, so that a stream  *)
(* can break inside it; " " is white space.                                 *)
EXTENDS Integers, SequencesExt

OpenTag == <<"<th", "ink>">>
CloseTag == <<"</th", "ink>">>

TrimStart(text) ==
    LET first == SelectInSeq(text, LAMBDA t : t # " ")
    IN  IF first = 0 THEN <<>> ELSE SubSeq(text, first, Len(text))

After(text, n) == SubSeq(text, n + 1, Len(text))

(* Where the closing tag begins, or 0.                                      *)
CloseIndex(text) ==
    SelectInSeq([i \in 1..Len(text) - 1 |-> SubSeq(text, i, i + 1)], LAMBDA pair : pair = CloseTag)

Whole(text) == [split |-> FALSE, thinking |-> <<>>, text |-> text]

(* A prefixed segment that is closed is reasoning, anything else is text.   *)
SplitReasoning(content) ==
    LET trimmed == TrimStart(content)
        inside == After(trimmed, 2)
        close == CloseIndex(inside)
    IN  IF IsPrefix(OpenTag, trimmed) /\ close # 0
        THEN [split |-> TRUE, thinking |-> SubSeq(inside, 1, close - 1), text |-> After(inside, close + 1)]
        ELSE Whole(content)
-----------------------------------------------------------------------------
(* The parser of a stream: detecting the opening tag, collecting what       *)
(* follows it, or past all that.                                            *)
NewParser == [at |-> "detecting", buffer |-> <<>>]
Past == [at |-> "past", buffer |-> <<>>]

Chunk(kind, text) == IF text = <<>> THEN <<>> ELSE <<[kind |-> kind, text |-> text]>>
Parsed(parser, chunks) == [parser |-> parser, chunks |-> chunks]

Collect(text) ==
    LET close == CloseIndex(text)
    IN  IF close = 0 THEN Parsed([at |-> "collecting", buffer |-> text], <<>>)
        ELSE Parsed(Past, Chunk("thinking", SubSeq(text, 1, close - 1))
                          \o Chunk("text", After(text, close + 1)))

Detect(text) ==
    LET trimmed == TrimStart(text)
    IN  IF IsPrefix(trimmed, OpenTag)
        THEN Parsed([at |-> "detecting", buffer |-> text], <<>>)
        ELSE IF IsPrefix(OpenTag, trimmed) THEN Collect(After(trimmed, 2))
        ELSE Parsed(Past, Chunk("text", text))

Push(parser, text) ==
    CASE parser.at = "detecting"  -> Detect(parser.buffer \o text)
      [] parser.at = "collecting" -> Collect(parser.buffer \o text)
      [] parser.at = "past"       -> Parsed(Past, <<[kind |-> "text", text |-> text]>>)

(* The end: what is withheld is text.  The parser starts anew.              *)
Finish(parser) ==
    Parsed(NewParser,
           CASE parser.at = "detecting"  -> Chunk("text", parser.buffer)
             [] parser.at = "collecting" -> Chunk("text", OpenTag \o parser.buffer)
             [] parser.at = "past"       -> <<>>)
=============================================================================
