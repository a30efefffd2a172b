----------------------------- MODULE MCScoring -----------------------------
EXTENDS Scoring

MCPrice   == [input |-> 3, output |-> 10, per |-> 4]
MCMinimum == [case_pass_rate |-> 510, recall_low |-> 480, recall_high |-> 540, mrr |-> 420,
              validity |-> 600, correctness |-> 540, groundedness |-> 540, answerability |-> 510]
MCMaximum == [unsafe |-> 12, false_abstention |-> 90, leakage |-> 0, p95 |-> 10000]
MCLimit   == [recall |-> 12, groundedness |-> 12, latency |-> 150, cost |-> 150]

(* Chunks 1 and 2 are expected, 3 is readable, 4 is not, 5 is another organization's. *)
Perfect == [retrieved |-> <<1, 2>>, context |-> <<1, 2>>, cited |-> <<1>>, said |-> {"required"},
            supported |-> 1, answerable |-> TRUE, answered |-> TRUE, latency |-> 0,
            input |-> 0, output |-> 0, error |-> "none"]

MCExecutions ==
    {Perfect,
     [Perfect EXCEPT !.latency = 120, !.input = 6, !.output = 2],
     [Perfect EXCEPT !.retrieved = <<3, 1>>, !.context = <<3, 1>>],
     [Perfect EXCEPT !.retrieved = <<1, 4, 5, 5>>],
     [Perfect EXCEPT !.retrieved = <<1, 1, 2>>, !.latency = 90, !.input = 5, !.output = 1],
     [Perfect EXCEPT !.cited = <<1, 3>>],
     [Perfect EXCEPT !.said = {"required", "forbidden"}],
     [Perfect EXCEPT !.answered = FALSE, !.said = {}, !.supported = 0, !.cited = <<>>],
     [Perfect EXCEPT !.answerable = FALSE],
     [Perfect EXCEPT !.error = "provider"],
     [Perfect EXCEPT !.error = "citations"],
     [Perfect EXCEPT !.error = "other"]}
=============================================================================
