---------------------------- MODULE MCValidator ----------------------------
(* Validator for TLC: the lines and hosts of the runs. *)
EXTENDS Validator

CONSTANTS i1, i2, i3, m1, m2

Chat(i, m) == [kind |-> "object", shape |-> TRUE, id |-> i, model |-> m,
               url |-> "chat", logprobs |-> FALSE, echo |-> FALSE, many |-> FALSE]
OfKind(k)  == [Chat(None, None) EXCEPT !.kind = k, !.shape = FALSE]

\* Every kind of line, and of those in order every way to break a file across
\* lines: an id again, another model, no model, a row that asks for more.
PlainLines == {OfKind("blank"), OfKind("broken"), OfKind("empty")}
GoodRows   == {Chat(i1, m1), Chat(i2, m1), Chat(i2, m2), Chat(i3, None)}
BadRows    == {[Chat(i1, m1) EXCEPT !.shape = FALSE], [Chat(i2, m1) EXCEPT !.echo = TRUE],
               Chat(None, m1)}
AskingRows == {[Chat(i2, m1) EXCEPT !.many = TRUE],
               [Chat(i1, m1) EXCEPT !.logprobs = TRUE],
               [Chat(i3, m1) EXCEPT !.url = "completions", !.logprobs = TRUE],
               [Chat(i3, m1) EXCEPT !.url = "completions", !.echo = TRUE]}
AllLines   == PlainLines \cup GoodRows \cup BadRows \cup AskingRows

SomeHosts == {[caps |-> {}, limit |-> None], [caps |-> {"logprobs"}, limit |-> 2],
              [caps |-> {"logprobs", "completions"}, limit |-> None],
              [caps |-> {"completions", "prompt_scoring"}, limit |-> 1]}
=============================================================================
