------------------------------ MODULE MCSuite ------------------------------
(***************************************************************************)
(* The submissions of the runs of SuiteSession.  The unit of CPU time and  *)
(* of memory is the limit.                                                 *)
(***************************************************************************)
EXTENDS SuiteProperties

Good   == [cpu |-> 1, away |-> 0, mem |-> 1, ends |-> "zero",
           output |-> "right", pipes |-> {}, forks |-> FALSE]
Wrong  == [Good EXCEPT !.output = "wrong"]
Breaks == [Good EXCEPT !.ends = "nonzero"]
Hangs  == [Good EXCEPT !.ends = "never"]
Slow   == [Good EXCEPT !.cpu = 2]
Away   == [Good EXCEPT !.away = 2]
Large  == [Good EXCEPT !.mem = 2]
Forks  == [Good EXCEPT !.forks = TRUE]
Gone   == [Good EXCEPT !.output = "gone"]
Pipes(files) == [Good EXCEPT !.pipes = files]

Script(checker, tests) ==
  [language |-> "Python", compiles |-> TRUE, checker |-> checker,
   use_cgroup |-> TRUE, tests |-> tests, deliveries |-> IF Len(tests) > 1 THEN 1 ELSE 2]
Native(compiles, tests) ==
  [Script("token", tests) EXCEPT !.language = "C++", !.compiles = compiles]

Shipped(submission) == [submission EXCEPT !.use_cgroup = FALSE]

\* The command of a suite of one case is delivered twice.
MCSubmissions ==
  {Script("token", << >>)}
  \cup {Script("token", <<p>>) : p \in {Forks, Hangs}}
  \cup {Script("token", <<p, q>>) : p \in {Slow, Large}, q \in {Good, Breaks}}
  \cup {Script(kind, <<Forks, Wrong>>) : kind \in {"token", "custom", "unknown"}}
  \cup {Script("custom", <<Large, Good>>), Script("custom", <<Good, Good>>)}
  \cup {Native(FALSE, <<Good>>), Native(TRUE, <<Good, Hangs>>),
        [Native(TRUE, <<Good>>) EXCEPT !.language = "Rust"]}
  \cup {Script("token", <<Away, Gone>>), Script("custom", <<Gone, Good>>),
        Script("token", <<Pipes({"next"}), Good>>),
        Script("token", <<Pipes({"err"}), Pipes({"out"})>>)}
  \cup {Shipped(Script("token", <<p, q>>)) : p \in {Large, Forks}, q \in {Slow, Hangs}}

LargeSubmission == {Script("token", <<Large>>)}

=============================================================================
